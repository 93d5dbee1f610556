----------------------------- MODULE ChunkDecoder -----------------------------
(***************************************************************************)
(* decoder_chunk_type (decode-chunk.cpp): the body of a chunked message,   *)
(* one octet at a time.  A decoder is a record of its fields and of the    *)
(* body it appends to; the states have the numbers of the source:          *)
(*   1..3   the size of a chunk       4..11   its extensions               *)
(*   12..13 its data                  14..21  extensions of the last chunk *)
(*   22..27 the trailer               28      all of it      0  an error   *)
(***************************************************************************)
EXTENDS Octets, Sequences

CONSTANT ChunkSizeLimit     \* CHUNK_SIZE_LIMIT

ASSUME ChunkAssumption == ChunkSizeLimit \in Nat \ {0}

FreshChunk == [next_state |-> 1, chunk_size |-> 0, content_length |-> 0, body |-> << >>]

ChunkGood(d)    == d.next_state = 28
ChunkBad(d)     == d.next_state = 0
ChunkPartial(d) == d.next_state \in 1..27

(* The extensions of a chunk: state 3 is the end of its size. *)
ExtensionShift(s, o) ==
  CASE s \in {4, 5} /\ o \in Tchar            -> 5
    [] s \in {6, 7} /\ o \in Tchar            -> 7
    [] s \in {3, 5, 7, 10} /\ o = SEMI        -> 4
    [] s \in {3, 5, 7, 10} /\ o = CR          -> 11
    [] s = 5 /\ o = EQUAL                     -> 6
    [] s = 6 /\ o = DQUOTE                    -> 9
    [] s = 9 /\ o = BACKSLASH                 -> 8
    [] s = 9 /\ o = DQUOTE                    -> 10
    [] s = 9 /\ o \in Text \ {BACKSLASH, DQUOTE} -> 9
    [] s = 8 /\ o \in Text                    -> 9
    [] s = 11 /\ o = LF                       -> 12
    [] OTHER                                  -> 0

(* Those of the last chunk, whose size ends in state 2: the same, ten up. *)
LastShift(s, o) ==
  LET next == ExtensionShift(IF s = 2 THEN 3 ELSE s - 10, o)
  IN  IF next = 0 THEN 0 ELSE next + 10

TrailerShift(s, o) ==
  CASE s \in {22, 23, 26} /\ o \in Tchar      -> 23
    [] s \in {22, 26} /\ o = CR               -> 27
    [] s = 23 /\ o = COLON                    -> 24
    [] s = 24 /\ o \in Text                   -> 24
    [] s = 26 /\ o \in Blank                  -> 24
    [] s = 24 /\ o = CR                       -> 25
    [] s = 25 /\ o = LF                       -> 26
    [] s = 27 /\ o = LF                       -> 28
    [] OTHER                                  -> 0

ChunkShift(s, o) ==
  CASE s \in {1, 2} /\ o = 48                 -> 2
    [] s \in {1, 2} /\ o \in Hex \ {48}       -> 3
    [] s = 3 /\ o \in Hex                     -> 3
    [] s \in 4..11 \/ (s = 3 /\ o \notin Hex)  -> ExtensionShift(s, o)
    [] s = 12 /\ o = CR                       -> 13
    [] s = 13 /\ o = LF                       -> 1
    [] s \in 14..21 \/ (s = 2 /\ o \notin Hex) -> LastShift(s, o)
    [] s \in 22..27                           -> TrailerShift(s, o)
    [] OTHER                                  -> 0

(* In state 12 every octet is counted, and it is data while the size      *)
(* lasts; after it the table still takes a delimiter for data.             *)
SizeLeft(d) == IF d.next_state = 12 THEN d.chunk_size - 1 ELSE d.chunk_size

IsData(d, o) == d.next_state = 12 /\ (SizeLeft(d) >= 0 \/ o \in Delimiter)

NextState(d, o) == IF IsData(d, o) THEN 12 ELSE ChunkShift(d.next_state, o)

(* Wrong variant of WithinLimit: compared after the multiplication. *)
WithinLimitLate(size) == TRUE

WithinLimit(size) == size < ChunkSizeLimit

(* Wrong variant of SizeSoFar: the size goes on from the chunk before. *)
SizeSoFarKept(d) == SizeLeft(d)

SizeSoFar(d) == IF d.next_state = 1 THEN 0 ELSE SizeLeft(d)

(* The end of a call: the next state, the size that is left of the chunk;  *)
(* or an octet of data.                                                    *)
ChunkAt(d, next, size) == [d EXCEPT !.next_state = next, !.chunk_size = size]

ChunkData(d, o, size) ==
  [d EXCEPT !.chunk_size = size, !.body = Append(@, o), !.content_length = @ + 1]

(* A digit of the size. *)
ChunkDigit(d, o, size) ==
  IF WithinLimit(size) THEN ChunkAt(d, 3, 16 * size + HexValue(o)) ELSE ChunkAt(d, 0, size)

(* put (octet, body) *)
ChunkPut(d, o) ==
  LET next == NextState(d, o)
      size == SizeSoFar(d)
  IN  IF ~ChunkPartial(d)  THEN d
      ELSE IF next = 0     THEN ChunkAt(d, 0, SizeLeft(d))
      ELSE IF next = 3     THEN ChunkDigit(d, o, size)
      ELSE IF IsData(d, o) THEN ChunkData(d, o, SizeLeft(d))
                           ELSE ChunkAt(d, next, size)
=============================================================================
