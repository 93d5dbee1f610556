------------------------------ MODULE MCDecoders ------------------------------
(* Decoders for TLC: octets of every class that the state tells apart.     *)
EXTENDS Decoders

MCMaxLen == [line |-> 16, header |-> 14, chunk |-> 18, length |-> 6, tokens |-> 6,
             any_tokens |-> 4, parameters |-> 9, tags |-> 9, path |-> 7]

(* Method and target of four octets; in the version the octet that is due, *)
(* another digit, a letter.                                                *)
LineInputs(d) ==
  CASE d.next_state <= 5 /\ Len(d.method) + Len(d.uri) >= 4 -> {SP}
    [] d.next_state \in 1..2 /\ Len(d.method) < 4 -> {71, 35, SP, 40}
    [] d.next_state \in 3..5 /\ Len(d.method) + Len(d.uri) < 4 -> {71, 35, 40, STAR, SLASH, SP}
    [] d.next_state > 5 -> {HTTPVERSION[d.next_state - 5], 50, 120}

HeaderInputs(d) ==
  CASE d.next_state \in {1, 6} -> {65, 97, SP, CR, 40}
    [] d.next_state = 2        -> {98, COLON, SP, CR}
    [] d.next_state \in {3, 4} -> {120, HT, CR, 1}
    [] d.next_state \in {5, 7} -> {LF, 120}

(* Up to eight octets of extensions and trailer, or some and some data; of   *)
(* those that move the decoder on and some that do not; one zero before a  *)
(* size; a long chunk holds one octet again and again.                     *)
Extra == {103, SEMI, EQUAL, DQUOTE, BACKSLASH, COLON, SP}

HasRoom(d, s) == Len(SelectSeq(s, LAMBDA o : o \in Extra)) + 3 * Len(d.body) < 8

ExtraInputs(state) ==
  CASE state \in {4, 14, 22}    -> {103, SEMI, CR}
    [] state \in {5, 15}        -> {SEMI, EQUAL, CR}
    [] state \in {6, 16}        -> {103, DQUOTE}
    [] state \in {7, 17, 10, 20} -> {SEMI, DQUOTE, CR}
    [] state \in {8, 18}        -> {DQUOTE, CR}
    [] state \in {9, 19}        -> {103, BACKSLASH, DQUOTE}
    [] state = 23               -> {103, COLON}
    [] state \in {24, 26}       -> {SP, 103, CR}

ChunkInputs(d, s) ==
  CASE d.next_state = 12                     -> IF d.chunk_size > 2 THEN {40} ELSE {48, CR, LF, 40}
    [] d.next_state \in {1, 2, 3}            ->
         {49, 50, CR} \cup (IF d.next_state = 2 THEN {} ELSE {48})
                     \cup (IF HasRoom(d, s) THEN {SEMI} ELSE {})
    [] d.next_state \in {11, 13, 21, 25, 27} -> {LF, 103}
    [] OTHER -> IF HasRoom(d, s) THEN ExtraInputs(d.next_state) ELSE {CR}

TagsInputs(d) ==
  CASE d.next_state \in {1, 2, 6, 7, 8} -> {87, DQUOTE, STAR, COMMA, SP}
    [] d.next_state \in {3, 4}          -> {SLASH, DQUOTE, SP}
    [] d.next_state = 5                 -> {87, COMMA, DQUOTE, SP}

ParametersInputs(d) ==
  CASE d.next_state \in {1, 12}       -> {65, COMMA, SP, SEMI}
    [] d.next_state \in {2, 3}        -> {65, SEMI, COMMA, SP}
    [] d.next_state \in {4, 5, 6}     -> {65, EQUAL, SP}
    [] d.next_state = 7               -> {98, DQUOTE, SP}
    [] d.next_state \in {8, 11}       -> {98, SEMI, COMMA, SP}
    [] d.next_state \in {9, 10}       -> {BACKSLASH, DQUOTE, COMMA, CR}

MCInputs(k, d, s) ==
  CASE k = "line"   -> LineInputs(d)
    [] k = "header" -> HeaderInputs(d)
    [] k = "chunk"  -> ChunkInputs(d, s)
    [] k = "length" -> {49, 50, 55, COMMA, SP, 97}
    [] k \in {"tokens", "any_tokens"} -> {65, 98, COMMA, SP, SLASH}
    [] k = "parameters" -> ParametersInputs(d)
    [] k = "tags"   -> TagsInputs(d)
    [] k = "path"   -> {SLASH, DOT, DASH, 65, 48, 37}

(* Bodies that look like chunks, and those of a size with a letter, of two  *)
(* digits, of two chunks.                                                  *)
MCBodies == { << >>, <<40>>, <<CR, LF, 48>>, <<48, CR, LF, CR, LF>>,
              [i \in 1..11 |-> 48 + i], [i \in 1..16 |-> 97], [i \in 1..17 |-> 97] }
=============================================================================
