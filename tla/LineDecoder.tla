------------------------------ MODULE LineDecoder ------------------------------
(***************************************************************************)
(* decoder_request_line_type (decode-request-line.cpp): method, target and *)
(* version, one octet at a time.  The record holds the decoder's fields    *)
(* and those of the request it fills in; the states are the source's:      *)
(*   1..2 the method   3..5 the target   6..15 the version   16 all of it  *)
(***************************************************************************)
EXTENDS Octets, Sequences

CONSTANT LineLimit          \* limit_nbyte

ASSUME LineAssumption == LineLimit \in Nat

(* "HTTP/1.1\r\n" *)
HTTPVERSION == <<72, 84, 84, 80, SLASH, 49, DOT, 49, CR, LF>>

(* What the target may be made of; `tchar` there lacks #^`|. *)
Pchar == Alnum \cup {33, 126, 43, STAR, DASH, DOT, USCORE, COLON, SEMI, EQUAL}
               \cup {36, 37, 38, 39, 40, 41, COMMA, SLASH, 63, 64}

FreshLine == [next_state |-> 1, nbyte |-> 0,
              method |-> << >>, uri |-> << >>, http_version |-> << >>]

LineGood(d)    == d.next_state = 16
LinePartial(d) == d.next_state \in 1..15

LineShift(s, o) ==
  CASE s \in {1, 2} /\ o \in Tchar -> 2
    [] s = 2 /\ o = SP             -> 3
    [] s = 3 /\ o = STAR           -> 4
    [] s = 3 /\ o = SLASH          -> 5
    [] s = 5 /\ o \in Pchar        -> 5
    [] s \in {4, 5} /\ o = SP      -> 6
    [] OTHER                       -> 0

(* Each 1 of the version stands for any digit. *)
VersionShift(s, o) ==
  LET k == HTTPVERSION[s - 5]
  IN  IF o = k \/ (k = 49 /\ o \in Digit) THEN s + 1 ELSE 0

(* Wrong variant of VersionOctet: the end of the line is kept too. *)
VersionOctetAll(k) == TRUE

VersionOctet(k) == SP < k

NextOfLine(s, o) == IF s <= 5 THEN LineShift(s, o) ELSE VersionShift(s, o)

LineAt(d, next) == [d EXCEPT !.next_state = next, !.nbyte = @ + 1]

(* What of the octet that led from state s is kept. *)
LineKeep(n, s, o) ==
  IF s <= 5 /\ n.next_state = 2              THEN [n EXCEPT !.method = Append(@, o)]
  ELSE IF s <= 5 /\ n.next_state \in {4, 5}  THEN [n EXCEPT !.uri = Append(@, o)]
  ELSE IF s > 5 /\ VersionOctet(HTTPVERSION[s - 5])
                                             THEN [n EXCEPT !.http_version = Append(@, o)]
                                             ELSE n

(* put (octet, req) *)
LinePut(d, o) ==
  IF ~LinePartial(d)            THEN d
  ELSE IF LineLimit <= d.nbyte  THEN LineAt(d, 0)
  ELSE LineKeep(LineAt(d, NextOfLine(d.next_state, o)), d.next_state, o)
=============================================================================
