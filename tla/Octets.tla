-------------------------------- MODULE Octets --------------------------------
(***************************************************************************)
(* The octets the decoders tell apart.  Each decoder has a table CCLASS    *)
(* that lookup_cls (decode-lookup-cls.hpp) reads; the classes are these    *)
(* sets.  Octets from 128 on are in none of them.                          *)
(***************************************************************************)
EXTENDS Integers

HT == 9      LF == 10     CR == 13     SP == 32
DQUOTE == 34 STAR == 42   COMMA == 44  DASH == 45  DOT == 46  SLASH == 47
COLON == 58  SEMI == 59   EQUAL == 61  BACKSLASH == 92        USCORE == 95

Octet == 0..255
Digit == 48..57
Upper == 65..90
Lower == 97..122
Alnum == Digit \cup Upper \cup Lower
Hex   == Digit \cup 65..70 \cup 97..102

Blank   == {HT, SP}
Visible == 33..126
Text    == Visible \cup Blank

(* !#$%&'*+-.^_`|~ and the letters and digits: the octets of a token. *)
Tchar == Alnum \cup {33, 94, 96, 124, 126, STAR, 43, DASH, DOT, USCORE} \cup 35..39

(* What may stand in text only: (),/<>?@[]{} *)
Delimiter == {40, 41, COMMA, SLASH, 60, 62, 63, 64, 91, 93, 123, 125}

ToLower(o)  == IF o \in Upper THEN o + 32 ELSE o
HexValue(o) == IF o >= 97 THEN o - 87 ELSE IF o >= 65 THEN o - 55 ELSE o - 48

(* The end of a field's value, as its decoders see it. *)
End == 256
=============================================================================
