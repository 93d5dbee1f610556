------------------------------- MODULE Location -------------------------------
(***************************************************************************)
(* location_type (handler-file.cpp): the target of a request becomes the   *)
(* name of a file below the document root, one octet at a time.            *)
(*   1 nothing yet   2 after a slash   3 a name without extension          *)
(*   4 after - or _ in it   5 after a dot   6 an extension                 *)
(*   7 after - or _ in that            0 refused                           *)
(***************************************************************************)
EXTENDS Octets, Sequences

IndexHtml == <<105, 110, 100, 101, 120, DOT, 104, 116, 109, 108>>
Html      == <<104, 116, 109, 108>>

FreshPath == [next_state |-> 1, dirs |-> << >>, name |-> << >>, ext |-> << >>]

(* Wrong variant of PathShift: a component may begin with a dot. *)
PathShiftDot(s, o) ==
  CASE s \in {1, 3, 6} /\ o = SLASH            -> 2
    [] s \in {2, 3, 6} /\ o = DOT              -> 5
    [] s = 5 /\ o = SLASH                      -> 2
    [] s \in {2, 3} /\ o \in Alnum             -> 3
    [] s \in {5, 6} /\ o \in Alnum             -> 6
    [] OTHER                                   -> 0

PathShift(s, o) ==
  CASE s \in {1, 3, 6} /\ o = SLASH            -> 2
    [] s \in {3, 6} /\ o = DOT                 -> 5
    [] s = 3 /\ o \in {DASH, USCORE}           -> 4
    [] s = 6 /\ o \in {DASH, USCORE}           -> 7
    [] s \in {2, 3, 4} /\ o \in Alnum          -> 3
    [] s \in {5, 6, 7} /\ o \in Alnum          -> 6
    [] OTHER                                   -> 0

(* The loop of splitpath (path). *)
PathPut(d, o) ==
  LET next == PathShift(d.next_state, o)
  IN  CASE next = 0 -> [d EXCEPT !.next_state = 0]
        [] next = 2 -> [next_state |-> 2, dirs |-> Append(d.dirs, d.name),
                        name |-> << >>, ext |-> << >>]
        [] next \in {3, 4} -> [d EXCEPT !.next_state = next, !.name = Append(@, o)]
        [] next = 5 -> [d EXCEPT !.next_state = 5, !.name = Append(@, o), !.ext = << >>]
        [] next \in {6, 7} -> [d EXCEPT !.next_state = next, !.name = Append(@, o),
                                        !.ext = Append(@, ToLower(o))]

(* And its end: a name without extension is a directory. *)
PathEnd(d) ==
  CASE d.next_state = 2 -> [d EXCEPT !.name = IndexHtml, !.ext = Html]
    [] d.next_state = 3 -> [d EXCEPT !.next_state = 2, !.dirs = Append(@, d.name),
                                     !.name = IndexHtml, !.ext = Html]
    [] OTHER            -> d

PathOk(d) == d.next_state \in {2, 6}

(* catpath () *)
PathName(d) ==
  LET parent[n \in 0..Len(d.dirs)] ==
        IF n = 0 THEN << >> ELSE parent[n - 1] \o d.dirs[n] \o <<SLASH>>
  IN  parent[Len(d.dirs)] \o d.name
=============================================================================
