----------------------------- MODULE FieldDecoders -----------------------------
(***************************************************************************)
(* The overloads of decode () for the values of header fields: a length    *)
(* (decode-content-length.cpp), a list of tokens (decode-simple-token.cpp),*)
(* of tokens with parameters (decode-token.cpp) and of entity tags         *)
(* (decode-etag.cpp).  Each is a loop over the octets of the value and End *)
(* that breaks at state 0; one operator here is one turn of the loop.  In  *)
(* state 9 of the tags, 13 with parameters, 5 of the others, the whole     *)
(* value has matched.                                                      *)
(***************************************************************************)
EXTENDS Octets, Sequences

CONSTANT MostLength         \* 0x7fffffff: the greatest content-length

ASSUME FieldAssumption == MostLength \in Nat

-----------------------------------------------------------------------------
(* Lists: 1 nothing yet, 2 in an element, 3 after it, 4 after a comma. *)
ListShift(s, o, Element) ==
  CASE s \in {1, 2, 4} /\ o \in Element     -> 2
    [] s = 1 /\ o \in Blank \cup {COMMA}    -> 1
    [] s \in {2, 3, 4} /\ o = COMMA         -> 4
    [] s \in {2, 3} /\ o \in Blank          -> 3
    [] s = 4 /\ o \in Blank                 -> 4
    [] s \in {2, 3, 4} /\ o = End           -> 5
    [] OTHER                                -> 0

(* content_length_type: `value` is the number being read, `length` the one *)
(* before it or -1, `status` and `result` what the caller gets.            *)
FreshLength == [next_state |-> 1, length |-> -1, value |-> 0, status |-> 400, result |-> 0]

(* Wrong variant of TooLong: one number that does not fit is let through. *)
TooLongByOne(value, digit) ==
  value > MostLength \div 10 \/ (value = MostLength \div 10 /\ digit > 1 + (MostLength % 10))

(* value * 10 + digit would not fit, found out without computing it. *)
TooLong(value, digit) ==
  value > MostLength \div 10 \/ (value = MostLength \div 10 /\ digit > MostLength % 10)

LengthAt(d, next) == [d EXCEPT !.next_state = next]

LengthFails(d, status) == [d EXCEPT !.next_state = 0, !.status = status]

LengthDigit(d, digit) == [d EXCEPT !.next_state = 2, !.value = @ * 10 + digit]

(* The whole value has matched. *)
LengthFound(d, length) == [d EXCEPT !.status = 200, !.result = length]

(* The end of a number. *)
LengthEnds(d, next) ==
  LET n == [d EXCEPT !.next_state = next, !.length = d.value, !.value = 0]
  IN  IF next = 5 THEN LengthFound(n, d.value) ELSE n

LengthPut(d, o) ==
  LET next == ListShift(d.next_state, o, Digit)
      ends == d.next_state = 2 /\ next \in {3, 4, 5}
  IN  IF next = 2    THEN IF TooLong(d.value, o - 48) THEN LengthFails(d, 413)
                                                     ELSE LengthDigit(d, o - 48)
      ELSE IF ends   THEN IF d.length >= 0 /\ d.length # d.value
                          THEN LengthFails(d, d.status) ELSE LengthEnds(d, next)
      ELSE IF next = 5 THEN LengthFound(LengthAt(d, 5), d.length)
                       ELSE LengthAt(d, next)

LengthMatched(d) == d.status = 200

-----------------------------------------------------------------------------
(* simple_token_type: lowerlimit 1 asks for one token at least. *)
FreshTokens(lowerlimit) ==
  [next_state |-> IF lowerlimit = 1 THEN 1 ELSE 4, item |-> << >>, list |-> << >>]

(* Wrong variant of TokenOctet: tokens are compared as they are spelled. *)
TokenOctetAsIs(o) == o

TokenOctet(o) == ToLower(o)

TokensPut(d, o) ==
  LET next == ListShift(d.next_state, o, Tchar)
      n    == [d EXCEPT !.next_state = next]
  IN  CASE next = 2 -> [n EXCEPT !.item = Append(@, TokenOctet(o))]
        [] d.next_state = 2 /\ next \in {3, 4, 5} ->
             [n EXCEPT !.list = Append(@, d.item), !.item = << >>]
        [] OTHER -> n

TokensMatched(d) == d.next_state = 5

-----------------------------------------------------------------------------
(* token_type: a token and its parameters, name and value in turn.         *)
(*   1 nothing yet   2..3 a token   4 after ;   5..6 a name   7 after =    *)
(*   8 a value   9..10 a quoted one   11 after it   12 after a comma       *)
NoToken == [token |-> << >>, parameter |-> << >>]

FreshParameters(lowerlimit) ==
  [next_state |-> IF lowerlimit = 1 THEN 1 ELSE 12, name |-> << >>, value |-> << >>,
   item |-> NoToken, list |-> << >>]

ParametersShift(s, o) ==
  CASE s \in {1, 2, 12} /\ o \in Tchar          -> 2
    [] s = 1 /\ o \in Blank \cup {COMMA}        -> 1
    [] s = 12 /\ o \in Blank                    -> 12
    [] s \in {2, 3} /\ o \in Blank              -> 3
    [] s \in {2, 3, 8, 11} /\ o = SEMI          -> 4
    [] s \in {2, 3, 8, 11, 12} /\ o = COMMA     -> 12
    [] s \in {2, 3, 8, 11, 12} /\ o = End       -> 13
    [] s = 4 /\ o \in Blank                     -> 4
    [] s \in {4, 5} /\ o \in Tchar              -> 5
    [] s \in {5, 6} /\ o \in Blank              -> 6
    [] s \in {5, 6} /\ o = EQUAL                -> 7
    [] s = 7 /\ o \in Blank                     -> 7
    [] s \in {7, 8} /\ o \in Tchar              -> 8
    [] s = 7 /\ o = DQUOTE                      -> 10
    [] s = 10 /\ o = BACKSLASH                  -> 9
    [] s = 10 /\ o = DQUOTE                     -> 11
    [] s = 9 /\ o \in Text                      -> 10
    [] s = 10 /\ o \in Text \ {BACKSLASH, DQUOTE} -> 10
    [] s \in {8, 11} /\ o \in Blank             -> 11
    [] OTHER                                    -> 0

(* Wrong variant of ItemWithParameter: the parameters before it are lost. *)
ItemWithLastParameter(d) == [d.item EXCEPT !.parameter = <<d.name, d.value>>]

(* The parameter that ends here joins its token, the token the list. *)
ItemWithParameter(d) == [d.item EXCEPT !.parameter = @ \o <<d.name, d.value>>]

ParametersPut(d, o) ==
  LET s    == d.next_state
      next == ParametersShift(s, o)
      n    == [d EXCEPT !.next_state = next]
      ends == s = 8 \/ (s = 10 /\ next = 11)       \* a value, unless it goes on
      item == IF ends THEN ItemWithParameter(d) ELSE d.item
      m    == IF ends THEN [n EXCEPT !.item = item, !.name = << >>, !.value = << >>] ELSE n
  IN  CASE next = 2                           -> [n EXCEPT !.item.token = Append(@, o)]
        [] next = 5                           -> [n EXCEPT !.name = Append(@, ToLower(o))]
        [] next = 8 \/ (s \in {9, 10} /\ next = 10) -> [n EXCEPT !.value = Append(@, o)]
        [] next \in {4, 11}                   -> m
        [] next \in {12, 13} /\ s \notin {1, 12} -> [m EXCEPT !.list = Append(@, item), !.item = NoToken]
        [] OTHER                              -> n

ParametersMatched(d) == d.next_state = 13

-----------------------------------------------------------------------------
(* etag_type: a tag is kept with its quotes, the list "*" as the octet.    *)
(*   1..2 nothing yet   3..4 W/   5 in a tag   6 after it   7 after a      *)
(*   comma   8 after *                                                     *)
NoTag     == [weak |-> FALSE, opaque |-> << >>]
FreshTags == [next_state |-> 1, etag |-> NoTag, list |-> << >>]

(* Wrong variant of TagsShift: a comma ends a tag that is not closed. *)
TagsShiftOpen(s, o) ==
  CASE s = 5 /\ o = COMMA              -> 7
    [] s = 1 /\ o \in Blank            -> 1
    [] s \in {1, 2, 4, 7} /\ o = DQUOTE -> 5
    [] s = 5 /\ o = DQUOTE             -> 6
    [] s = 5 /\ o \in Visible          -> 5
    [] s \in {6, 7} /\ o = COMMA       -> 7
    [] s \in {6, 7, 8} /\ o = End      -> 9
    [] OTHER                           -> 0

TagsShift(s, o) ==
  CASE s = 1 /\ o = STAR               -> 8
    [] s = 1 /\ o \in Blank            -> 1
    [] s \in {1, 2} /\ o = COMMA       -> 2
    [] s = 2 /\ o \in Blank            -> 2
    [] s \in {1, 2, 7} /\ o = 87       -> 3        \* W
    [] s = 3 /\ o = SLASH              -> 4
    [] s \in {1, 2, 4, 7} /\ o = DQUOTE -> 5
    [] s = 5 /\ o \in Visible \ {DQUOTE} -> 5
    [] s = 5 /\ o = DQUOTE             -> 6
    [] s = 6 /\ o \in Blank            -> 6
    [] s \in {6, 7} /\ o = COMMA       -> 7
    [] s = 7 /\ o \in Blank            -> 7
    [] s = 8 /\ o \in Blank            -> 8
    [] s \in {6, 7, 8} /\ o = End      -> 9
    [] OTHER                           -> 0

TagsPut(d, o) ==
  LET s    == d.next_state
      next == TagsShift(s, o)
      n    == [d EXCEPT !.next_state = next]
      tag  == [d.etag EXCEPT !.opaque = Append(@, o)]
  IN  CASE next = 3 -> [n EXCEPT !.etag.weak = TRUE]
        [] next = 5 -> [n EXCEPT !.etag = tag]
        [] (s = 5 /\ next = 6) \/ (s = 1 /\ next = 8) ->
             [n EXCEPT !.list = Append(@, tag), !.etag = NoTag]
        [] OTHER    -> n

TagsMatched(d) == d.next_state = 9
=============================================================================
