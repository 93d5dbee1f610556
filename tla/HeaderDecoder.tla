----------------------------- MODULE HeaderDecoder -----------------------------
(***************************************************************************)
(* decoder_request_header_type (decode-request-header.cpp): the header     *)
(* fields of a request, one octet at a time.  The record holds the         *)
(* decoder's fields and request.header; the states are the source's:       *)
(*   1 no field yet   2 a name   3 before a value   4 in a value           *)
(*   5..6 the end of a line      7 the end of the fields   8 all of it     *)
(***************************************************************************)
EXTENDS Octets, Sequences, TLC

CONSTANTS FieldLimit,       \* limit_nfield
          FieldSizeLimit    \* limit_nbyte

ASSUME HeaderAssumption == FieldLimit \in Nat /\ FieldSizeLimit \in Nat

FreshHeader ==
  [next_state |-> 1, name |-> << >>, value |-> << >>, spaces |-> << >>,
   nfield |-> 0, nbyte |-> 0, header |-> << >>]

HeaderGood(d)    == d.next_state = 8
HeaderBad(d)     == d.next_state = 0
HeaderPartial(d) == d.next_state \in 1..7

(* A line that begins with what is no token goes to state 2 as well, but   *)
(* the field before it is not entered (the next state without an action).  *)
HeaderShift(s, o) ==
  CASE s \in {1, 2} /\ o \in Tchar    -> 2
    [] s = 6 /\ o \in Visible         -> 2
    [] s = 2 /\ o = COLON             -> 3
    [] s \in {3, 4} /\ o \in Visible  -> 4
    [] s \in {3, 4} /\ o \in Blank    -> s
    [] s = 6 /\ o \in Blank           -> 3
    [] s \in {3, 4} /\ o = CR         -> 5
    [] s = 5 /\ o = LF                -> 6
    [] s \in {1, 6} /\ o = CR         -> 7
    [] s = 7 /\ o = LF                -> 8
    [] OTHER                          -> 0

(* A repeated field is joined to the first. *)
Joined(old, value) == old \o <<COMMA>> \o value

(* Wrong variant of Fold: the blanks before the end of the line stay. *)
FoldKept(spaces) == spaces \o <<SP>>

Fold(spaces) == <<SP>>

HeaderAt(d, next) == [d EXCEPT !.next_state = next, !.nbyte = @ + 1]

(* The field that ends here is entered, and the next one has begun. *)
EnterField(d, o) ==
  LET value == IF d.name \in DOMAIN d.header THEN Joined(d.header[d.name], d.value)
                                             ELSE d.value
  IN  [d EXCEPT !.nfield = @ + 1, !.nbyte = 0,
                !.header = (d.name :> value) @@ @,
                !.name = <<ToLower(o)>>, !.value = << >>, !.spaces = << >>]

TooManyFields(d) == [d EXCEPT !.next_state = 0, !.nfield = @ + 1]

(* The octets of names and values, and the blanks between those of values. *)
HeaderKeep(n, s, o) ==
  IF s \in {1, 2} /\ n.next_state = 2    THEN [n EXCEPT !.name = Append(@, ToLower(o))]
  ELSE IF s \in {3, 4} /\ o \in Visible
       THEN [n EXCEPT !.value = @ \o n.spaces \o <<o>>, !.spaces = << >>]
  ELSE IF s = 4 /\ o \in Blank           THEN [n EXCEPT !.spaces = Append(@, o)]
  ELSE IF s = 6 /\ o \in Blank           THEN [n EXCEPT !.spaces = Fold(@)]
                                         ELSE n

FieldEnds(d, o) == d.next_state = 6 /\ o \in Tchar \cup {CR}

(* put (octet, req) *)
HeaderPut(d, o) ==
  LET n == HeaderAt(d, HeaderShift(d.next_state, o))
  IN  IF ~HeaderPartial(d)              THEN d
      ELSE IF FieldSizeLimit <= d.nbyte THEN HeaderAt(d, 0)
      ELSE IF ~FieldEnds(d, o)          THEN HeaderKeep(n, d.next_state, o)
      ELSE IF d.nfield < FieldLimit     THEN EnterField(n, o)
                                        ELSE TooManyFields(n)
=============================================================================
