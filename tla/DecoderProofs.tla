------------------------------ MODULE DecoderProofs ------------------------------
(***************************************************************************)
(* What the decoders do with texts of any length and whatever the limits   *)
(* are: their counters keep within the limits, a request line is read as   *)
(* it was written, a chunked response is read back, the target of a        *)
(* request becomes the name of a file, the lists of tokens and of lengths  *)
(* are taken for what they list, and a chunked message for what its chunks *)
(* hold.  The invariants say what a decoder holds in each of its states of *)
(* the text it was given.  Induction is over numbers (AllNumbers), so over *)
(* the length of a text (AllSequences) and along a fold (FoldTrace,        *)
(* FoldedTrace).                                                           *)
(***************************************************************************)
EXTENDS Decoders, SequenceTheorems, WellFoundedInduction, TLAPS

-----------------------------------------------------------------------------
(* Chunks. *)
ChunkRecords ==
  [next_state : 0..28, chunk_size : Int, content_length : Nat, body : Seq(Nat)]

(* A size of a chunk stays below sixteen times its limit, though it is     *)
(* compared before it is multiplied (decode-chunk.cpp:137), and the length *)
(* counts the octets of the body.                                          *)
ChunkKept(d) ==
  /\ d \in ChunkRecords
  /\ d.chunk_size < 16 * ChunkSizeLimit
  /\ d.content_length = Len(d.body)

LEMMA HexValues == ASSUME NEW o \in Hex PROVE HexValue(o) \in 0..15
BY DEF HexValue, Hex, Digit

(* The tables lead from states to states, and to state 3, where a size is  *)
(* read, only by a digit of it.                                            *)
LEMMA ExtensionStates ==
  ASSUME NEW s, NEW o
  PROVE  ExtensionShift(s, o) \in {0, 4, 5, 6, 7, 8, 9, 10, 11, 12}
BY Zenon DEF ExtensionShift

LEMMA LastStates ==
  ASSUME NEW s, NEW o PROVE LastShift(s, o) \in {0} \cup 14..22
<1> DEFINE next == ExtensionShift(IF s = 2 THEN 3 ELSE s - 10, o)
<1>1. next \in {0, 4, 5, 6, 7, 8, 9, 10, 11, 12}
  BY ExtensionStates
<1>2. LastShift(s, o) = IF next = 0 THEN 0 ELSE next + 10
  BY Zenon DEF LastShift
<1> HIDE DEF next
<1> QED BY <1>1, <1>2

LEMMA TrailerStates ==
  ASSUME NEW s, NEW o PROVE TrailerShift(s, o) \in {0, 23, 24, 25, 26, 27, 28}
BY Zenon DEF TrailerShift

LEMMA ChunkStates ==
  ASSUME NEW s, NEW o
  PROVE  /\ ChunkShift(s, o) \in 0..28
         /\ ChunkShift(s, o) = 3 => o \in Hex
<1>1. ChunkShift(s, o) \in {0, 1, 2, 3, 13, ExtensionShift(s, o), LastShift(s, o), TrailerShift(s, o)}
  BY Zenon DEF ChunkShift
<1>2. ASSUME o \notin Hex
      PROVE  ChunkShift(s, o) \in {0, 1, 2, 13, ExtensionShift(s, o), LastShift(s, o), TrailerShift(s, o)}
  BY <1>2, Zenon DEF ChunkShift
<1> QED BY <1>1, <1>2, ExtensionStates, LastStates, TrailerStates

LEMMA ChunkAtFields ==
  ASSUME NEW d \in ChunkRecords, NEW s \in 0..28, NEW size \in Int
  PROVE  /\ ChunkAt(d, s, size) \in ChunkRecords /\ ChunkAt(d, s, size).chunk_size = size
         /\ ChunkAt(d, s, size).content_length = d.content_length
         /\ ChunkAt(d, s, size).body = d.body
BY Zenon DEF ChunkRecords, ChunkAt

LEMMA ChunkDataFields ==
  ASSUME NEW d \in ChunkRecords, NEW o \in Nat, NEW size \in Int
  PROVE  /\ ChunkData(d, o, size) \in ChunkRecords /\ ChunkData(d, o, size).chunk_size = size
         /\ ChunkData(d, o, size).content_length = d.content_length + 1
         /\ ChunkData(d, o, size).body = Append(d.body, o)
<1>1. Append(d.body, o) \in Seq(Nat) /\ d.content_length + 1 \in Nat
  BY DEF ChunkRecords
<1> QED BY <1>1, Zenon DEF ChunkRecords, ChunkData

LEMMA ChunkPutKeeps ==
  ASSUME NEW d, ChunkKept(d), NEW o \in Nat PROVE ChunkKept(ChunkPut(d, o))
<1> DEFINE left == SizeLeft(d)
           next == NextState(d, o)
           size == SizeSoFar(d)
<1> USE ChunkAssumption
<1>1. d \in ChunkRecords /\ d.chunk_size < 16 * ChunkSizeLimit /\ d.content_length = Len(d.body)
  BY DEF ChunkKept
<1>2. left \in Int /\ left < 16 * ChunkSizeLimit
  BY <1>1 DEF ChunkRecords, SizeLeft
<1>3. size \in Int /\ size < 16 * ChunkSizeLimit
  BY <1>2 DEF SizeSoFar
<1>4. next \in 0..28 /\ (next = 3 => o \in Hex)
  BY ChunkStates DEF NextState
<1>5. \/ ChunkPut(d, o) = d
      \/ ChunkPut(d, o) = ChunkAt(d, 0, left)
      \/ next = 3 /\ ChunkPut(d, o) = ChunkDigit(d, o, size)
      \/ ChunkPut(d, o) = ChunkData(d, o, left)
      \/ ChunkPut(d, o) = ChunkAt(d, next, size)
  BY DEF ChunkPut
<1> HIDE DEF left, next, size
<1>6. ASSUME NEW s \in 0..28, NEW z \in Int, z < 16 * ChunkSizeLimit
      PROVE  ChunkKept(ChunkAt(d, s, z))
  <2>1. /\ ChunkAt(d, s, z) \in ChunkRecords /\ ChunkAt(d, s, z).chunk_size = z
        /\ ChunkAt(d, s, z).content_length = d.content_length
        /\ ChunkAt(d, s, z).body = d.body
    BY <1>1, ChunkAtFields
  <2> QED BY <1>1, <1>6, <2>1 DEF ChunkKept
<1>7. ChunkKept(ChunkData(d, o, left))
  <2>1. Len(Append(d.body, o)) = Len(d.body) + 1
    BY <1>1 DEF ChunkRecords
  <2>2. /\ ChunkData(d, o, left) \in ChunkRecords /\ ChunkData(d, o, left).chunk_size = left
        /\ ChunkData(d, o, left).content_length = d.content_length + 1
        /\ ChunkData(d, o, left).body = Append(d.body, o)
    BY <1>1, <1>2, ChunkDataFields
  <2> QED BY <1>1, <1>2, <2>1, <2>2 DEF ChunkKept
<1>8. CASE next = 3 /\ ChunkPut(d, o) = ChunkDigit(d, o, size)
  <2>1. HexValue(o) \in 0..15
    BY <1>4, <1>8, HexValues
  <2>2. WithinLimit(size) =>
          16 * size + HexValue(o) \in Int /\ 16 * size + HexValue(o) < 16 * ChunkSizeLimit
    BY <2>1, <1>3 DEF WithinLimit
  <2> QED BY <1>3, <1>6, <1>8, <2>2 DEF ChunkDigit
<1>9. ChunkKept(ChunkAt(d, 0, left)) /\ ChunkKept(ChunkAt(d, next, size))
  BY <1>2, <1>3, <1>4, <1>6
<1> QED BY <1>5, <1>7, <1>8, <1>9

-----------------------------------------------------------------------------
(* The request line. *)
LineRecords ==
  [next_state : 0..16, nbyte : Nat, method : Seq(Nat), uri : Seq(Nat), http_version : Seq(Nat)]

LineKept(d) ==
  /\ d \in LineRecords
  /\ d.nbyte <= LineLimit + 1 /\ (d.nbyte > LineLimit => d.next_state = 0)

LEMMA LineStates ==
  ASSUME NEW s \in 1..15, NEW o PROVE NextOfLine(s, o) \in 0..16
<1>1. LineShift(s, o) \in {0, 2, 3, 4, 5, 6}
  BY Zenon DEF LineShift
<1>2. s > 5 => VersionShift(s, o) \in {0, s + 1}
  BY DEF VersionShift
<1> QED BY <1>1, <1>2 DEF NextOfLine

LEMMA LineAtFields ==
  ASSUME NEW d \in LineRecords, NEW s \in 0..16
  PROVE  /\ LineAt(d, s) \in LineRecords /\ LineAt(d, s).next_state = s
         /\ LineAt(d, s).nbyte = d.nbyte + 1
<1>1. d.nbyte + 1 \in Nat
  BY DEF LineRecords
<1> QED BY <1>1, Zenon DEF LineRecords, LineAt

LEMMA LineKeepFields ==
  ASSUME NEW n \in LineRecords, NEW s, NEW o \in Nat
  PROVE  /\ LineKeep(n, s, o) \in LineRecords
         /\ LineKeep(n, s, o).next_state = n.next_state /\ LineKeep(n, s, o).nbyte = n.nbyte
<1>1. /\ Append(n.method, o) \in Seq(Nat) /\ Append(n.uri, o) \in Seq(Nat)
      /\ Append(n.http_version, o) \in Seq(Nat)
  BY DEF LineRecords
<1> QED BY <1>1, Zenon DEF LineRecords, LineKeep

LEMMA LinePutKeeps ==
  ASSUME NEW d, LineKept(d), NEW o \in Nat PROVE LineKept(LinePut(d, o))
<1> DEFINE n == LineAt(d, NextOfLine(d.next_state, o))
<1> USE LineAssumption
<1>1. d \in LineRecords /\ d.nbyte \in Nat
  BY DEF LineKept, LineRecords
<1>2. CASE LinePartial(d) /\ LineLimit <= d.nbyte
  <2>1. /\ LineAt(d, 0) \in LineRecords /\ LineAt(d, 0).next_state = 0
        /\ LineAt(d, 0).nbyte = d.nbyte + 1
    BY <1>1, LineAtFields
  <2>2. d.nbyte <= LineLimit
    BY <1>1, <1>2 DEF LineKept, LinePartial
  <2> QED BY <1>1, <1>2, <2>1, <2>2 DEF LineKept, LinePut
<1>3. CASE LinePartial(d) /\ ~(LineLimit <= d.nbyte)
  <2>1. n \in LineRecords /\ n.nbyte = d.nbyte + 1
    BY <1>1, <1>3, LineStates, LineAtFields DEF LinePartial
  <2> HIDE DEF n
  <2>2. /\ LineKeep(n, d.next_state, o) \in LineRecords
        /\ LineKeep(n, d.next_state, o).nbyte = n.nbyte
    BY <2>1, LineKeepFields
  <2>3. LinePut(d, o) = LineKeep(n, d.next_state, o)
    BY <1>3 DEF LinePut, n
  <2> QED BY <1>1, <1>3, <2>1, <2>2, <2>3 DEF LineKept
<1> QED BY <1>2, <1>3 DEF LinePut

-----------------------------------------------------------------------------
(* A content-length. *)
LengthRecords ==
  [next_state : 0..5, length : Int, value : Nat, status : Nat, result : Int]

LengthKept(d) ==
  d \in LengthRecords /\ d.value <= MostLength /\ d.length \in -1..MostLength

LEMMA ListStates ==
  ASSUME NEW s, NEW o, NEW E
  PROVE  /\ ListShift(s, o, E) \in 0..5
         /\ ListShift(s, o, E) = 2 => o \in E
<1>1. ListShift(s, o, E) \in {0, 1, 2, 3, 4, 5}
  BY Zenon DEF ListShift
<1>2. o \notin E => ListShift(s, o, E) \in {0, 1, 3, 4, 5}
  BY Zenon DEF ListShift
<1> QED BY <1>1, <1>2

(* What the comparison of decode-content-length.cpp:53 is for. *)
LEMMA LengthFits ==
  ASSUME NEW v \in Nat, NEW g \in 0..9, ~TooLong(v, g)
  PROVE  v * 10 + g \in 0..MostLength
<1> DEFINE q == MostLength \div 10
           r == MostLength % 10
<1>1. q \in Nat /\ r \in 0..9 /\ MostLength = 10 * q + r
  BY FieldAssumption
<1>2. v < q \/ (v = q /\ g <= r)
  BY <1>1 DEF TooLong
<1> HIDE DEF q, r
<1> QED BY <1>1, <1>2

LEMMA LengthFields ==
  ASSUME NEW d \in LengthRecords, NEW s \in 0..5, NEW t \in Nat
  PROVE  /\ LengthAt(d, s) \in LengthRecords /\ LengthAt(d, s).next_state = s
         /\ LengthAt(d, s).value = d.value /\ LengthAt(d, s).length = d.length
         /\ LengthFails(d, t) \in LengthRecords
         /\ LengthFails(d, t).value = d.value /\ LengthFails(d, t).length = d.length
<1>1. 0 \in 0..5
  OBVIOUS
<1> QED BY <1>1, Zenon DEF LengthRecords, LengthAt, LengthFails

LEMMA LengthFoundFields ==
  ASSUME NEW d \in LengthRecords, NEW z \in Int
  PROVE  /\ LengthFound(d, z) \in LengthRecords
         /\ LengthFound(d, z).value = d.value /\ LengthFound(d, z).length = d.length
<1>1. 200 \in Nat
  OBVIOUS
<1> QED BY <1>1, ZenonT(30) DEF LengthRecords, LengthFound

LEMMA LengthEndsFields ==
  ASSUME NEW d \in LengthRecords, NEW s \in 0..5
  PROVE  /\ LengthEnds(d, s) \in LengthRecords
         /\ LengthEnds(d, s).value = 0 /\ LengthEnds(d, s).length = d.value
<1> DEFINE n == [d EXCEPT !.next_state = s, !.length = d.value, !.value = 0]
<1>1. d.value \in Nat /\ d.value \in Int /\ 0 \in Nat
  BY DEF LengthRecords
<1>2. n \in LengthRecords /\ n.value = 0 /\ n.length = d.value
  BY <1>1, Zenon DEF LengthRecords
<1>3. LengthEnds(d, s) \in {n, LengthFound(n, d.value)}
  BY Zenon DEF LengthEnds
<1> HIDE DEF n
<1> QED BY <1>1, <1>2, <1>3, LengthFoundFields

LEMMA LengthPutKeeps ==
  ASSUME NEW d, LengthKept(d), NEW o \in Nat PROVE LengthKept(LengthPut(d, o))
<1> DEFINE next == ListShift(d.next_state, o, Digit)
           g == o - 48
<1> USE FieldAssumption
<1>1. /\ d \in LengthRecords /\ d.value \in 0..MostLength /\ d.length \in -1..MostLength
      /\ d.status \in Nat /\ 413 \in Nat
  BY DEF LengthKept, LengthRecords
<1>2. next \in 0..5 /\ (next = 2 => g \in 0..9)
  BY ListStates DEF Digit
<1>3. \/ next = 2 /\ ~TooLong(d.value, g) /\ LengthPut(d, o) = LengthDigit(d, g)
      \/ \E t \in {413, d.status} : LengthPut(d, o) = LengthFails(d, t)
      \/ LengthPut(d, o) = LengthEnds(d, next)
      \/ LengthPut(d, o) = LengthFound(LengthAt(d, 5), d.length)
      \/ LengthPut(d, o) = LengthAt(d, next)
  BY DEF LengthPut
<1> HIDE DEF next, g
<1>4. CASE next = 2 /\ ~TooLong(d.value, g) /\ LengthPut(d, o) = LengthDigit(d, g)
  <2>1. d.value * 10 + g \in 0..MostLength /\ d.value * 10 + g \in Nat
    BY <1>1, <1>2, <1>4, LengthFits
  <2>2. /\ LengthDigit(d, g) \in LengthRecords /\ LengthDigit(d, g).length = d.length
        /\ LengthDigit(d, g).value = d.value * 10 + g
    <3>1. 2 \in 0..5
      OBVIOUS
    <3> QED BY <1>1, <2>1, <3>1, Zenon DEF LengthRecords, LengthDigit
  <2> QED BY <1>1, <1>4, <2>1, <2>2 DEF LengthKept
<1>5. ASSUME NEW t \in Nat PROVE LengthKept(LengthFails(d, t))
  <2>1. /\ LengthFails(d, t) \in LengthRecords
        /\ LengthFails(d, t).value = d.value /\ LengthFails(d, t).length = d.length
    BY <1>1, <1>2, LengthFields
  <2> QED BY <1>1, <2>1 DEF LengthKept
<1>6. ASSUME NEW s \in 0..5 PROVE LengthKept(LengthAt(d, s))
  <2>1. /\ LengthAt(d, s) \in LengthRecords
        /\ LengthAt(d, s).value = d.value /\ LengthAt(d, s).length = d.length
    BY <1>1, LengthFields
  <2> QED BY <1>1, <2>1 DEF LengthKept
<1>7. LengthKept(LengthEnds(d, next))
  <2>1. /\ LengthEnds(d, next) \in LengthRecords
        /\ LengthEnds(d, next).value = 0 /\ LengthEnds(d, next).length = d.value
    BY <1>1, <1>2, LengthEndsFields
  <2> QED BY <1>1, <2>1 DEF LengthKept
<1>8. LengthKept(LengthFound(LengthAt(d, 5), d.length))
  <2> DEFINE n == LengthAt(d, 5)
  <2>1. LengthKept(n)
    BY <1>6
  <2> HIDE DEF n
  <2>2. d.length \in Int /\ n \in LengthRecords
    BY <1>1, <2>1 DEF LengthKept
  <2>3. /\ LengthFound(n, d.length) \in LengthRecords
        /\ LengthFound(n, d.length).value = n.value /\ LengthFound(n, d.length).length = n.length
    BY <2>2, LengthFoundFields
  <2>4. LengthKept(LengthFound(n, d.length))
    BY <2>1, <2>3 DEF LengthKept
  <2> QED BY <2>4 DEF n
<1> QED BY <1>1, <1>2, <1>3, <1>4, <1>5, <1>6, <1>7, <1>8

-----------------------------------------------------------------------------
(* The header. *)
HeaderNames == DOMAIN FreshHeader

(* What is entered is counted, and past a limit the decoder has failed. *)
HeaderKept(d) ==
  /\ DOMAIN d = HeaderNames
  /\ d.next_state \in 0..8
  /\ d.nbyte \in 0..FieldSizeLimit + 1 /\ d.nfield \in 0..FieldLimit + 1
  /\ d.nbyte > FieldSizeLimit \/ d.nfield > FieldLimit => d.next_state = 0
  /\ DOMAIN d.header # {} => d.nfield >= 1

LEMMA HeaderStates ==
  ASSUME NEW s \in 1..7, NEW o PROVE HeaderShift(s, o) \in 0..8
<1>1. HeaderShift(s, o) \in {0, 2, 3, 4, 5, 6, 7, 8, s}
  BY Zenon DEF HeaderShift
<1> QED BY <1>1

LEMMA HeaderAtFields ==
  ASSUME NEW d, DOMAIN d = HeaderNames, NEW s
  PROVE  /\ DOMAIN HeaderAt(d, s) = HeaderNames /\ HeaderAt(d, s).next_state = s
         /\ HeaderAt(d, s).nbyte = d.nbyte + 1 /\ HeaderAt(d, s).nfield = d.nfield
         /\ HeaderAt(d, s).header = d.header
BY Zenon DEF HeaderNames, FreshHeader, HeaderAt

LEMMA HeaderKeepFields ==
  ASSUME NEW n, DOMAIN n = HeaderNames, NEW s, NEW o
  PROVE  /\ DOMAIN HeaderKeep(n, s, o) = HeaderNames
         /\ HeaderKeep(n, s, o).next_state = n.next_state
         /\ HeaderKeep(n, s, o).nbyte = n.nbyte /\ HeaderKeep(n, s, o).nfield = n.nfield
         /\ HeaderKeep(n, s, o).header = n.header
BY Zenon DEF HeaderNames, FreshHeader, HeaderKeep

LEMMA EnterFieldFields ==
  ASSUME NEW n, DOMAIN n = HeaderNames, NEW o
  PROVE  /\ DOMAIN EnterField(n, o) = HeaderNames
         /\ EnterField(n, o).next_state = n.next_state
         /\ EnterField(n, o).nbyte = 0 /\ EnterField(n, o).nfield = n.nfield + 1
         /\ DOMAIN TooManyFields(n) = HeaderNames
         /\ TooManyFields(n).next_state = 0 /\ TooManyFields(n).nbyte = n.nbyte
         /\ TooManyFields(n).nfield = n.nfield + 1
BY Zenon DEF HeaderNames, FreshHeader, EnterField, TooManyFields

LEMMA HeaderPutKeeps ==
  ASSUME NEW d, HeaderKept(d), NEW o PROVE HeaderKept(HeaderPut(d, o))
<1> DEFINE n == HeaderAt(d, HeaderShift(d.next_state, o))
<1> USE HeaderAssumption
<1>1. /\ DOMAIN d = HeaderNames /\ d.nbyte \in Nat /\ d.nfield \in Nat
      /\ DOMAIN d.header # {} => d.nfield >= 1
  BY DEF HeaderKept
<1>2. ASSUME HeaderPartial(d) PROVE d.nbyte <= FieldSizeLimit /\ d.nfield <= FieldLimit
  BY <1>1, <1>2 DEF HeaderKept, HeaderPartial
<1>3. CASE HeaderPartial(d) /\ FieldSizeLimit <= d.nbyte
  <2>1. /\ DOMAIN HeaderAt(d, 0) = HeaderNames /\ HeaderAt(d, 0).next_state = 0
        /\ HeaderAt(d, 0).nbyte = d.nbyte + 1 /\ HeaderAt(d, 0).nfield = d.nfield
        /\ HeaderAt(d, 0).header = d.header
    BY <1>1, HeaderAtFields
  <2>2. HeaderPut(d, o) = HeaderAt(d, 0)
    BY <1>3 DEF HeaderPut
  <2> QED BY <1>1, <1>2, <1>3, <2>1, <2>2 DEF HeaderKept
<1>4. CASE HeaderPartial(d) /\ ~(FieldSizeLimit <= d.nbyte)
  <2>1. HeaderShift(d.next_state, o) \in 0..8
    BY <1>4, HeaderStates DEF HeaderPartial
  <2>2. /\ DOMAIN n = HeaderNames /\ n.next_state \in 0..8 /\ n.nbyte = d.nbyte + 1
        /\ n.nfield = d.nfield /\ n.header = d.header
    BY <1>1, <2>1, HeaderAtFields
  <2>3. HeaderPut(d, o) = IF ~FieldEnds(d, o) THEN HeaderKeep(n, d.next_state, o)
                          ELSE IF d.nfield < FieldLimit THEN EnterField(n, o)
                          ELSE TooManyFields(n)
    BY <1>4 DEF HeaderPut
  <2> HIDE DEF n
  <2>4. HeaderKept(HeaderKeep(n, d.next_state, o))
    <3> DEFINE k == HeaderKeep(n, d.next_state, o)
    <3>1. /\ DOMAIN k = HeaderNames /\ k.next_state = n.next_state
          /\ k.nbyte = n.nbyte /\ k.nfield = n.nfield /\ k.header = n.header
      BY <2>2, HeaderKeepFields
    <3> HIDE DEF k
    <3> QED BY <1>1, <1>2, <1>4, <2>2, <3>1 DEF HeaderKept, k
  <2>5. d.nfield < FieldLimit => HeaderKept(EnterField(n, o))
    <3> DEFINE k == EnterField(n, o)
    <3>1. /\ DOMAIN k = HeaderNames /\ k.next_state = n.next_state
          /\ k.nbyte = 0 /\ k.nfield = n.nfield + 1
      BY <2>2, EnterFieldFields
    <3> HIDE DEF k
    <3> QED BY <1>1, <2>2, <3>1 DEF HeaderKept, k
  <2>6. HeaderKept(TooManyFields(n))
    <3> DEFINE k == TooManyFields(n)
    <3>1. /\ DOMAIN k = HeaderNames /\ k.next_state = 0
          /\ k.nbyte = n.nbyte /\ k.nfield = n.nfield + 1
      BY <2>2, EnterFieldFields
    <3> HIDE DEF k
    <3> QED BY <1>1, <1>2, <1>4, <2>2, <3>1 DEF HeaderKept, k
  <2> QED BY <2>3, <2>4, <2>5, <2>6
<1> QED BY <1>3, <1>4 DEF HeaderPut

-----------------------------------------------------------------------------
DecodersInv ==
  /\ kind = "chunk"  => ChunkKept(dec)
  /\ kind = "line"   => LineKept(dec)
  /\ kind = "header" => HeaderKept(dec)
  /\ kind = "length" => LengthKept(dec)

LEMMA DecodersStart == DecodersInit => DecodersInv
<1> SUFFICES ASSUME DecodersInit PROVE DecodersInv
  OBVIOUS
<1> USE ChunkAssumption, LineAssumption, HeaderAssumption, FieldAssumption
<1>1. ASSUME kind = "chunk" PROVE ChunkKept(dec)
  <2>1. dec = FreshChunk
    BY <1>1 DEF DecodersInit, Fresh
  <2> QED BY <2>1 DEF FreshChunk, ChunkKept, ChunkRecords
<1>2. ASSUME kind = "line" PROVE LineKept(dec)
  <2>1. dec = FreshLine
    BY <1>2 DEF DecodersInit, Fresh
  <2> QED BY <2>1 DEF FreshLine, LineKept, LineRecords
<1>3. ASSUME kind = "header" PROVE HeaderKept(dec)
  <2>1. dec = FreshHeader
    BY <1>3 DEF DecodersInit, Fresh
  <2> QED BY <2>1 DEF FreshHeader, HeaderKept, HeaderNames
<1>4. ASSUME kind = "length" PROVE LengthKept(dec)
  <2>1. dec = FreshLength
    BY <1>4 DEF DecodersInit, Fresh
  <2> QED BY <2>1 DEF FreshLength, LengthKept, LengthRecords
<1> QED BY <1>1, <1>2, <1>3, <1>4 DEF DecodersInv

LEMMA DecodersSteps == DecodersInv /\ [DecodersNext]_decodersVars => DecodersInv'
<1> SUFFICES ASSUME DecodersInv, [DecodersNext]_decodersVars PROVE DecodersInv'
  OBVIOUS
<1>1. CASE PutOctet
  <2> DEFINE given == (Inputs(kind, dec, src) \cap Octet) \cup {End}
  <2>0. \A o \in given : o \in Nat
    BY DEF Octet, End
  <2>1. PICK o \in Nat : dec' = Put(o) /\ kind' = kind
    <3>1. PICK o \in given : dec' = Put(o)
      BY <1>1, Zenon DEF PutOctet
    <3>2. kind' = kind
      BY <1>1, Zenon DEF PutOctet
    <3> QED BY <2>0, <3>1, <3>2, Zenon
  <2>2. kind = "chunk" => Put(o) = ChunkPut(dec, o)
    BY Zenon DEF Put
  <2>3. kind = "line" => Put(o) = LinePut(dec, o)
    BY Zenon DEF Put
  <2>4. kind = "header" => Put(o) = HeaderPut(dec, o)
    BY Zenon DEF Put
  <2>5. kind = "length" => Put(o) = LengthPut(dec, o)
    BY Zenon DEF Put
  <2> QED BY <2>1, <2>2, <2>3, <2>4, <2>5, ChunkPutKeeps, LinePutKeeps, HeaderPutKeeps,
             LengthPutKeeps DEF DecodersInv
<1>2. CASE WriteResponse
  BY <1>2 DEF WriteResponse, DecodersInv
<1>3. CASE ResponseStops
  BY <1>3 DEF ResponseStops, DecodersInv
<1>4. CASE UNCHANGED decodersVars
  BY <1>4 DEF decodersVars, DecodersInv
<1> QED BY <1>1, <1>2, <1>3, <1>4 DEF DecodersNext

-----------------------------------------------------------------------------
(* The text of a request line and its parts. *)
(* No two octets of t stand where the spaces of a request line would. *)
NoLine(t) ==
  \A i, j \in DOMAIN t :
    i + 1 < j => ~IsRequestLine(t, SubSeq(t, 1, i - 1), SubSeq(t, i + 1, j - 1),
                                SubSeq(t, j + 1, Len(t) - 2), Pchar)

IsPathText(u) == u # << >> /\ u[1] = SLASH /\ Consists(u, Pchar)
IsTarget(u)   == u = <<STAR>> \/ IsPathText(u)
IsMethod(m)   == m # << >> /\ Consists(m, Tchar)

(* The first k octets of a version and its line end. *)
VersionUpTo(w, k) ==
  /\ Len(w) = k
  /\ \A i \in 1..k : w[i] = HTTPVERSION[i] \/ (HTTPVERSION[i] = 49 /\ w[i] \in Digit)

(* What was read of a line: nothing, a part of the method, of the target,  *)
(* of the version, and of the end of the line.                             *)
NothingRead(t, m, u, v) == t = << >> /\ m = << >> /\ u = << >> /\ v = << >>
MethodRead(t, m, u, v)  == IsMethod(m) /\ t = m /\ u = << >> /\ v = << >>
TargetRead(t, m, u, v)  == IsMethod(m) /\ t = m \o <<SP>> \o u /\ v = << >>
VersionRead(k, t, m, u, v) ==
  IsMethod(m) /\ IsTarget(u) /\ t = m \o <<SP>> \o u \o <<SP>> \o v /\ VersionUpTo(v, k)
ReturnRead(t, m, u, v) ==
  IsMethod(m) /\ IsTarget(u) /\ t = m \o <<SP>> \o u \o <<SP>> \o v \o <<CR>> /\ VersionUpTo(v, 8)
LineRead(t, m, u, v) ==
  IsMethod(m) /\ IsTarget(u) /\ t = m \o <<SP>> \o u \o <<SP>> \o v \o <<CR, LF>> /\ VersionUpTo(v, 8)

LineText(s, t, m, u, v) ==
  /\ s = 1 => NothingRead(t, m, u, v)
  /\ s = 2 => MethodRead(t, m, u, v)
  /\ s \in 3..5 => TargetRead(t, m, u, v)
  /\ s = 3 => u = << >>
  /\ s = 4 => u = <<STAR>>
  /\ s = 5 => IsPathText(u)
  /\ s \in 6..14 => VersionRead(s - 6, t, m, u, v)
  /\ s = 15 => ReturnRead(t, m, u, v)
  /\ s = 16 => LineRead(t, m, u, v)

(* The inductive invariant: the parts of the text in the decoder, as far  *)
(* as its state says; and a text it refused is too long, or no request    *)
(* line.                                                                  *)
LineReads(t, d) ==
  /\ d \in LineRecords /\ t \in Seq(Octet) /\ Len(t) = d.nbyte
  /\ d.method \in Seq(Octet) /\ d.uri \in Seq(Octet) /\ d.http_version \in Seq(Octet)
  /\ d.next_state = 0 => Len(t) > LineLimit \/ NoLine(t)
  /\ LineText(d.next_state, t, d.method, d.uri, d.http_version)

(* c is a and, after it, b: octet by octet. *)
Joins(c, a, b) ==
  /\ c \in Seq(Octet) /\ Len(c) = Len(a) + Len(b)
  /\ \A i \in 1..Len(a) : c[i] = a[i]
  /\ \A i \in 1..Len(b) : c[Len(a) + i] = b[i]

LEMMA CatJoins ==
  ASSUME NEW a \in Seq(Octet), NEW b \in Seq(Octet)
  PROVE  Joins(a \o b, a, b)
<1> DEFINE c == a \o b
<1>1. /\ c \in Seq(Octet) /\ Len(c) = Len(a) + Len(b)
      /\ \A i \in 1..Len(a) + Len(b) : c[i] = IF i <= Len(a) THEN a[i] ELSE b[i - Len(a)]
  BY ConcatProperties, Zenon
<1>2. Len(a) \in Nat /\ Len(b) \in Nat
  OBVIOUS
<1> HIDE DEF c
<1>3. ASSUME NEW i \in 1..Len(a) PROVE c[i] = a[i]
  BY <1>1, <1>2
<1>4. ASSUME NEW i \in 1..Len(b) PROVE c[Len(a) + i] = b[i]
  <2>1. Len(a) + i \in 1..Len(a) + Len(b) /\ ~(Len(a) + i <= Len(a)) /\ Len(a) + i - Len(a) = i
    BY <1>2
  <2> QED BY <1>1, <2>1
<1>5. Joins(c, a, b)
  BY <1>1, <1>3, <1>4, Zenon DEF Joins
<1> QED BY <1>5 DEF c

LEMMA NotEmpty ==
  ASSUME NEW s \in Seq(Octet) PROVE s # << >> => Len(s) >= 1
<1>1. s # << >> => Len(s) \in Nat \ {0}
  BY EmptySeq
<1> QED BY <1>1

LEMMA CatAssoc ==
  ASSUME NEW a \in Seq(Octet), NEW b \in Seq(Octet), NEW c \in Seq(Octet)
  PROVE  (a \o b) \o c = a \o (b \o c)
BY ConcatAssociative

LaidOut(t, M, U, W) ==
  /\ t \in Seq(Octet) /\ Len(t) = Len(M) + Len(U) + Len(W) + 2
  /\ t[Len(M) + 1] = SP /\ t[Len(M) + Len(U) + 2] = SP
  /\ \A i \in 1..Len(M) : t[i] = M[i]
  /\ \A i \in 1..Len(U) : t[Len(M) + 1 + i] = U[i]
  /\ \A i \in 1..Len(W) : t[Len(M) + Len(U) + 2 + i] = W[i]

LEMMA LineParts ==
  ASSUME NEW M \in Seq(Octet), NEW U \in Seq(Octet), NEW W \in Seq(Octet),
         NEW t, t = M \o <<SP>> \o U \o <<SP>> \o W
  PROVE  LaidOut(t, M, U, W)
<1> DEFINE one == <<SP>>
<1>1. one \in Seq(Octet) /\ Len(one) = 1 /\ one[1] = SP
  BY DEF SP, Octet
<1>2. PICK a : a = M \o one
  OBVIOUS
<1>3. PICK b : b = a \o U
  OBVIOUS
<1>4. PICK c : c = b \o one
  OBVIOUS
<1>5. t = c \o W
  BY <1>2, <1>3, <1>4
<1> HIDE DEF one
<1>6. Joins(a, M, one)
  BY <1>1, <1>2, CatJoins
<1>7. Joins(b, a, U)
  <2>1. a \in Seq(Octet)
    BY <1>6 DEF Joins
  <2> QED BY <1>3, <2>1, CatJoins
<1>8. Joins(c, b, one)
  <2>1. b \in Seq(Octet)
    BY <1>7 DEF Joins
  <2> QED BY <1>1, <1>4, <2>1, CatJoins
<1>9. Joins(t, c, W)
  <2>1. c \in Seq(Octet)
    BY <1>8 DEF Joins
  <2> QED BY <1>5, <2>1, CatJoins
<1> USE DEF Joins
<1>10. Len(M) \in Nat /\ Len(U) \in Nat /\ Len(W) \in Nat
  OBVIOUS
<1>11. Len(t) = Len(M) + Len(U) + Len(W) + 2 /\ t[Len(M) + 1] = SP /\ t[Len(M) + Len(U) + 2] = SP
  <2>1. Len(M) + 1 \in 1..Len(a) /\ Len(M) + 1 \in 1..Len(b) /\ Len(M) + 1 \in 1..Len(c)
    BY <1>1, <1>6, <1>7, <1>8, <1>10
  <2>2. Len(b) + 1 = Len(M) + Len(U) + 2 /\ Len(b) + 1 \in 1..Len(c)
    BY <1>1, <1>6, <1>7, <1>8, <1>10
  <2> QED BY <1>1, <1>6, <1>7, <1>8, <1>9, <1>10, <2>1, <2>2
<1>12. ASSUME NEW i \in 1..Len(M) PROVE t[i] = M[i]
  <2>1. i \in 1..Len(a) /\ i \in 1..Len(b) /\ i \in 1..Len(c)
    BY <1>1, <1>6, <1>7, <1>8, <1>10
  <2> QED BY <1>6, <1>7, <1>8, <1>9, <2>1
<1>13. ASSUME NEW i \in 1..Len(U) PROVE t[Len(M) + 1 + i] = U[i]
  <2>1. Len(a) + i = Len(M) + 1 + i /\ Len(a) + i \in 1..Len(b) /\ Len(a) + i \in 1..Len(c)
    BY <1>1, <1>6, <1>7, <1>8, <1>10
  <2> QED BY <1>7, <1>8, <1>9, <2>1
<1>14. Len(c) = Len(M) + Len(U) + 2
  BY <1>1, <1>6, <1>7, <1>8, <1>10
<1> QED BY <1>9, <1>11, <1>12, <1>13, <1>14 DEF LaidOut

LEMMA NoSpaces == SP \notin Tchar /\ SP \notin Pchar /\ STAR # SP
BY DEF SP, Tchar, Pchar, Alnum, Digit, Upper, Lower, STAR, DASH, DOT, USCORE, COLON, SEMI, EQUAL,
       COMMA, SLASH

(* What a request line looks like: twelve octets more than its method and *)
(* target, whose octets are no spaces.                                    *)
LineShaped(t, M, U) ==
  /\ Len(t) = Len(M) + Len(U) + 12 /\ t[Len(t)] = LF
  /\ Len(M) >= 1 /\ Len(U) >= 1
  /\ t[Len(M) + 1] = SP /\ t[Len(M) + Len(U) + 2] = SP
  /\ \A i \in 1..Len(M) : t[i] \in Tchar
  /\ \A i \in 1..Len(U) : t[Len(M) + 1 + i] # SP

LEMMA LineShape ==
  ASSUME NEW t, NEW M \in Seq(Octet), NEW U \in Seq(Octet), NEW V \in Seq(Octet),
         IsRequestLine(t, M, U, V, Pchar)
  PROVE  LineShaped(t, M, U)
<1> DEFINE end == <<CR, LF>>
           X == M \o <<SP>> \o U \o <<SP>>
<1>1. end \in Seq(Octet) /\ Len(end) = 2 /\ end[2] = LF
  BY DEF CR, LF, Octet
<1>2. <<SP>> \in Seq(Octet)
  BY DEF SP, Octet
<1>3. PICK W : W = V \o end
  OBVIOUS
<1>4. Joins(W, V, end)
  BY <1>1, <1>3, CatJoins
<1>5. Len(V) = 8 /\ Len(V) \in Nat
  BY DEF IsRequestLine, IsVersion
<1>6. W \in Seq(Octet) /\ Len(W) = 10 /\ W[10] = LF
  BY <1>1, <1>4, <1>5 DEF Joins
<1>7. t = M \o <<SP>> \o U \o <<SP>> \o W
  <2>1. t = X \o V \o end
    BY Zenon DEF IsRequestLine
  <2>2. X \in Seq(Octet)
    BY <1>2
  <2>3. X \o V \o end = X \o (V \o end)
    <3> HIDE DEF X, end
    <3> QED BY <1>1, <2>2, CatAssoc, ZenonT(30)
  <2> HIDE DEF end
  <2> QED BY <1>3, <2>1, <2>3, Zenon
<1>8. /\ t \in Seq(Octet) /\ Len(t) = Len(M) + Len(U) + 12
      /\ t[Len(M) + 1] = SP /\ t[Len(M) + Len(U) + 2] = SP
      /\ \A i \in 1..Len(M) : t[i] = M[i]
      /\ \A i \in 1..Len(U) : t[Len(M) + 1 + i] = U[i]
      /\ t[Len(M) + Len(U) + 12] = LF
  <2>1. LaidOut(t, M, U, W)
    BY <1>6, <1>7, LineParts
  <2>2. Len(M) \in Nat /\ Len(U) \in Nat /\ 10 \in 1..Len(W)
    BY <1>6
  <2>3. t[Len(M) + Len(U) + 2 + 10] = W[10]
    BY <2>1, <2>2 DEF LaidOut
  <2> QED BY <1>6, <2>1, <2>2, <2>3 DEF LaidOut
<1>9. M # << >> /\ Consists(M, Tchar) /\ (U = <<STAR>> \/ (U # << >> /\ Consists(U, Pchar)))
  BY Zenon DEF IsRequestLine
<1>10. Len(M) >= 1 /\ Len(U) >= 1
  <2>1. U = <<STAR>> => Len(U) = 1
    OBVIOUS
  <2> QED BY <1>9, <2>1, NotEmpty
<1>11. \A i \in 1..Len(M) : M[i] \in Tchar
  BY <1>9 DEF Consists
<1>12. \A i \in 1..Len(U) : U[i] # SP
  BY <1>9, NoSpaces DEF Consists
<1> QED BY <1>8, <1>10, <1>11, <1>12 DEF LineShaped

LEMMA PartOfText ==
  ASSUME NEW t \in Seq(Octet), NEW a \in Int, NEW b \in Int, a >= 1, b <= Len(t)
  PROVE  SubSeq(t, a, b) \in Seq(Octet)
<1>1. \A k \in a..b : t[k] \in Octet
  OBVIOUS
<1> QED BY <1>1, SubSeqProperties, Zenon

LEMMA HeadParts ==
  ASSUME NEW M \in Seq(Octet), NEW U \in Seq(Octet), NEW t, t = M \o <<SP>> \o U
  PROVE  /\ Joins(t, M \o <<SP>>, U) /\ Joins(M \o <<SP>>, M, <<SP>>)
<1>1. <<SP>> \in Seq(Octet)
  BY DEF SP, Octet
<1>2. M \o <<SP>> \in Seq(Octet)
  BY <1>1
<1> QED BY <1>1, <1>2, CatJoins

(* Where the two spaces of a text are that an octet more makes a line. *)
Fits(t, p, q) ==
  /\ Len(t) = p + q + 11 /\ p >= 1 /\ q >= 1
  /\ t[p + 1] = SP /\ t[p + q + 2] = SP
  /\ \A k \in 1..p : t[k] # SP
  /\ \A k \in 1..q : t[p + 1 + k] # SP

LEMMA FirstSpace ==
  ASSUME NEW t, NEW p \in Nat, NEW q \in Nat, Fits(t, p, q),
         NEW n \in Nat, t[n + 1] = SP, \A k \in 1..n : t[k] # SP
  PROVE  p = n
<1>1. ~(p < n)
  <2>1. p < n => p + 1 \in 1..n
    OBVIOUS
  <2> QED BY <2>1 DEF Fits
<1>2. ~(n < p)
  <2>1. n < p => n + 1 \in 1..p
    OBVIOUS
  <2> QED BY <2>1 DEF Fits
<1> QED BY <1>1, <1>2

LEMMA SecondSpace ==
  ASSUME NEW t, NEW p \in Nat, NEW q \in Nat, Fits(t, p, q),
         NEW n \in Nat, t[p + n + 2] = SP, \A k \in 1..n : t[p + 1 + k] # SP
  PROVE  q = n
<1>1. ~(q < n)
  <2>1. q < n => q + 1 \in 1..n /\ p + 1 + (q + 1) = p + q + 2
    OBVIOUS
  <2> QED BY <2>1 DEF Fits
<1>2. ~(n < q)
  <2>1. n < q => n + 1 \in 1..q /\ p + 1 + (n + 1) = p + n + 2
    OBVIOUS
  <2> QED BY <2>1 DEF Fits
<1> QED BY <1>1, <1>2

(* If an octet more makes t a request line, it is the line feed, and t    *)
(* holds the spaces, the version and the carriage return at their places. *)
LEMMA LineFits ==
  ASSUME NEW t \in Seq(Octet), NEW o \in Octet, ~NoLine(Append(t, o))
  PROVE  o = LF /\ \E p, q \in Nat : Fits(t, p, q)
<1>1. PICK z : z = Append(t, o)
  OBVIOUS
<1>2. z \in Seq(Octet) /\ Len(z) = Len(t) + 1 /\ (\A i \in 1..Len(t) : z[i] = t[i]) /\ z[Len(z)] = o
  BY <1>1
<1>3. PICK i \in DOMAIN z, j \in DOMAIN z :
        IsRequestLine(z, SubSeq(z, 1, i - 1), SubSeq(z, i + 1, j - 1),
                                  SubSeq(z, j + 1, Len(z) - 2), Pchar)
  BY <1>1, Zenon DEF NoLine
<1>4. PICK M, U, V : M = SubSeq(z, 1, i - 1) /\ U = SubSeq(z, i + 1, j - 1)
                     /\ V = SubSeq(z, j + 1, Len(z) - 2)
  OBVIOUS
<1>5. i \in 1..Len(z) /\ j \in 1..Len(z) /\ Len(z) \in Nat
  BY <1>2
<1>6. M \in Seq(Octet)
  BY <1>2, <1>4, <1>5, PartOfText
<1>7. U \in Seq(Octet)
  BY <1>2, <1>4, <1>5, PartOfText
<1>8. V \in Seq(Octet)
  <2>1. Len(z) - 2 \in Int /\ Len(z) - 2 <= Len(z) /\ j + 1 \in Int /\ j + 1 >= 1
    BY <1>5
  <2> QED BY <1>2, <1>4, <2>1, PartOfText
<1>9. LineShaped(z, M, U)
  <2>1. IsRequestLine(z, M, U, V, Pchar)
    BY <1>3, <1>4, Zenon
  <2> QED BY <1>6, <1>7, <1>8, <2>1, LineShape
<1>10. PICK p, q, n : p = Len(M) /\ q = Len(U) /\ n = Len(t)
  OBVIOUS
<1>11. p \in Nat /\ q \in Nat /\ n \in Nat
  BY <1>6, <1>7, <1>10
<1>12. /\ n + 1 = p + q + 12 /\ z[n + 1] = LF /\ p >= 1 /\ q >= 1
       /\ z[p + 1] = SP /\ z[p + q + 2] = SP
       /\ \A k \in 1..p : z[k] \in Tchar
       /\ \A k \in 1..q : z[p + 1 + k] # SP
  BY <1>2, <1>9, <1>10 DEF LineShaped
<1>13. n = p + q + 11 /\ p + 1 \in 1..n /\ p + q + 2 \in 1..n
  BY <1>11, <1>12
<1>14. \A k \in 1..n : z[k] = t[k]
  BY <1>2, <1>10
<1>15. t[p + 1] = SP /\ t[p + q + 2] = SP
  BY <1>12, <1>13, <1>14
<1>16. \A k \in 1..p : t[k] # SP
  <2>1. \A k \in 1..p : k \in 1..n
    BY <1>11, <1>13
  <2> QED BY <1>12, <1>14, <2>1, NoSpaces
<1>17. \A k \in 1..q : t[p + 1 + k] # SP
  <2>1. \A k \in 1..q : p + 1 + k \in 1..n
    BY <1>11, <1>13
  <2> QED BY <1>12, <1>14, <2>1
<1>18. o = LF
  BY <1>2, <1>10, <1>12
<1>19. Fits(t, p, q)
  BY <1>10, <1>12, <1>13, <1>15, <1>16, <1>17 DEF Fits
<1> QED BY <1>11, <1>18, <1>19

(* What was read and not refused is no line but for the end of it. *)
LEMMA NotInMethod ==
  ASSUME NEW m \in Seq(Octet), Consists(m, Tchar), NEW p \in Nat, NEW q \in Nat
  PROVE  ~Fits(m, p, q)
<1> SUFFICES ASSUME Fits(m, p, q) PROVE FALSE
  OBVIOUS
<1>1. p + 1 \in 1..Len(m)
  BY DEF Fits
<1>2. m[p + 1] \in Tchar
  BY <1>1 DEF Consists
<1> QED BY <1>2, NoSpaces DEF Fits

LEMMA InSet ==
  ASSUME NEW s \in Seq(Octet), NEW set, Consists(s, set)
  PROVE  \A i \in 1..Len(s) : s[i] \in set
BY DEF Consists

(* t is m, a space and u. *)
HeadLaid(t, m, u) ==
  /\ Len(t) = Len(m) + Len(u) + 1 /\ t[Len(m) + 1] = SP
  /\ \A i \in 1..Len(m) : t[i] = m[i]
  /\ \A i \in 1..Len(u) : t[Len(m) + 1 + i] = u[i]

LEMMA HeadLaidOut ==
  ASSUME NEW m \in Seq(Octet), NEW u \in Seq(Octet)
  PROVE  HeadLaid(m \o <<SP>> \o u, m, u)
<1>1. PICK a : a = m \o <<SP>>
  OBVIOUS
<1>2. PICK t : t = m \o <<SP>> \o u
  OBVIOUS
<1>3. Joins(t, a, u) /\ Joins(a, m, <<SP>>)
  BY <1>1, <1>2, HeadParts
<1>4. Len(<<SP>>) = 1 /\ <<SP>>[1] = SP
  OBVIOUS
<1>5. PICK n : n = Len(m)
  OBVIOUS
<1>6. PICK k : k = Len(u)
  OBVIOUS
<1>7. n \in Nat /\ k \in Nat
  BY <1>5, <1>6
<1>8. Len(a) = n + 1 /\ a[n + 1] = SP /\ (\A i \in 1..n : a[i] = m[i])
  BY <1>3, <1>4, <1>5, <1>7 DEF Joins
<1>9. Len(t) = n + 1 + k /\ (\A i \in 1..n + 1 : t[i] = a[i]) /\ (\A i \in 1..k : t[n + 1 + i] = u[i])
  BY <1>3, <1>6, <1>7, <1>8 DEF Joins
<1>10. Len(t) = n + k + 1 /\ t[n + 1] = SP
  BY <1>7, <1>8, <1>9
<1>11. \A i \in 1..n : t[i] = m[i]
  BY <1>7, <1>8, <1>9
<1>12. HeadLaid(t, m, u)
  BY <1>5, <1>6, <1>9, <1>10, <1>11 DEF HeadLaid
<1> QED BY <1>2, <1>12

LEMMA NotInTarget ==
  ASSUME NEW m \in Seq(Octet), Consists(m, Tchar), NEW u \in Seq(Octet),
         Consists(u, Pchar \cup {STAR}), NEW p \in Nat, NEW q \in Nat, NEW t, HeadLaid(t, m, u)
  PROVE  ~Fits(t, p, q)
<1> SUFFICES ASSUME Fits(t, p, q) PROVE FALSE
  OBVIOUS
<1>1. PICK n : n = Len(m)
  OBVIOUS
<1>2. PICK k : k = Len(u)
  OBVIOUS
<1>3. n \in Nat /\ k \in Nat
  BY <1>1, <1>2
<1>4. (\A i \in 1..n : m[i] \in Tchar) /\ (\A i \in 1..k : u[i] \in Pchar \cup {STAR})
  BY <1>1, <1>2, InSet
<1>5. /\ Len(t) = n + k + 1 /\ t[n + 1] = SP
      /\ (\A i \in 1..n : t[i] = m[i]) /\ (\A i \in 1..k : t[n + 1 + i] = u[i])
  BY <1>1, <1>2 DEF HeadLaid
<1>6. \A i \in 1..n : t[i] # SP
  BY <1>4, <1>5, NoSpaces
<1>7. p = n
  BY <1>3, <1>5, <1>6, FirstSpace
<1>8. q + 10 = k /\ t[p + q + 2] = SP
  BY <1>3, <1>5, <1>7 DEF Fits
<1>9. q + 1 \in 1..k /\ n + 1 + (q + 1) = p + q + 2
  BY <1>3, <1>7, <1>8
<1>10. u[q + 1] = SP
  BY <1>5, <1>8, <1>9
<1>11. u[q + 1] \in Pchar \cup {STAR}
  BY <1>4, <1>9
<1> QED BY <1>10, <1>11, NoSpaces

LEMMA InVersion ==
  ASSUME NEW m \in Seq(Octet), Consists(m, Tchar), NEW u \in Seq(Octet),
         Consists(u, Pchar \cup {STAR}), NEW w \in Seq(Octet), NEW p \in Nat, NEW q \in Nat,
         NEW t, LaidOut(t, m, u, w), Fits(t, p, q)
  PROVE  Len(w) = 9
<1>1. PICK n : n = Len(m)
  OBVIOUS
<1>2. PICK k : k = Len(u)
  OBVIOUS
<1>3. n \in Nat /\ k \in Nat /\ Len(w) \in Nat
  BY <1>1, <1>2
<1>4. (\A i \in 1..n : m[i] \in Tchar) /\ (\A i \in 1..k : u[i] \in Pchar \cup {STAR})
  BY <1>1, <1>2, InSet
<1>5. /\ Len(t) = n + k + Len(w) + 2
      /\ t[n + 1] = SP /\ t[n + k + 2] = SP
      /\ \A i \in 1..n : t[i] = m[i]
      /\ \A i \in 1..k : t[n + 1 + i] = u[i]
  BY <1>1, <1>2 DEF LaidOut
<1>6. \A i \in 1..n : t[i] # SP
  BY <1>4, <1>5, NoSpaces
<1>7. \A i \in 1..k : t[n + 1 + i] # SP
  BY <1>4, <1>5, NoSpaces
<1>8. p = n
  BY <1>3, <1>5, <1>6, FirstSpace, ZenonT(30)
<1>9. t[p + k + 2] = SP /\ \A i \in 1..k : t[p + 1 + i] # SP
  BY <1>5, <1>7, <1>8, Zenon
<1>10. q = k
  BY <1>3, <1>9, SecondSpace, ZenonT(30)
<1>11. PICK r : r = Len(w)
  OBVIOUS
<1>12. Len(t) = p + q + 11
  BY DEF Fits
<1>13. n + k + r + 2 = p + q + 11 /\ r \in Nat
  BY <1>3, <1>5, <1>11, <1>12, Zenon
<1>14. r = 9
  BY <1>3, <1>8, <1>10, <1>13
<1> QED BY <1>11, <1>14

LEMMA TargetSet ==
  ASSUME NEW u \in Seq(Octet)
  PROVE  /\ Consists(<<STAR>>, Pchar \cup {STAR})
         /\ Consists(<< >>, Pchar \cup {STAR})
         /\ Consists(u, Pchar) => Consists(u, Pchar \cup {STAR})
         /\ IsTarget(u) => Consists(u, Pchar \cup {STAR})
<1>1. Consists(<<STAR>>, Pchar \cup {STAR}) /\ Consists(<< >>, Pchar \cup {STAR})
  BY DEF Consists
<1>2. Consists(u, Pchar) => Consists(u, Pchar \cup {STAR})
  BY DEF Consists
<1> QED BY <1>1, <1>2, Zenon DEF IsTarget, IsPathText

(* Whatever the octet that the table refuses, the text is no request line *)
(* then.                                                                  *)
LEMMA LineRefused ==
  ASSUME NEW t \in Seq(Octet), NEW m \in Seq(Octet), NEW u \in Seq(Octet), NEW v \in Seq(Octet),
         NEW s \in 1..15, LineText(s, t, m, u, v), NEW o \in Octet, NextOfLine(s, o) = 0
  PROVE  NoLine(Append(t, o))
<1> SUFFICES ASSUME o = LF, NEW p \in Nat, NEW q \in Nat, Fits(t, p, q) PROVE FALSE
  BY LineFits
<1>1. CASE s = 1
  <2>1. t = << >>
    BY <1>1 DEF LineText, NothingRead
  <2>2. Len(t) = 0
    BY <2>1
  <2> QED BY <2>2 DEF Fits
<1>2. CASE s = 2
  <2>1. t = m /\ Consists(m, Tchar)
    BY <1>2 DEF LineText, MethodRead, IsMethod
  <2> QED BY <2>1, NotInMethod
<1>3. CASE s \in 3..5
  <2>1. TargetRead(t, m, u, v) /\ (u = << >> \/ u = <<STAR>> \/ IsPathText(u))
    BY <1>3 DEF LineText
  <2>2. t = m \o <<SP>> \o u /\ Consists(m, Tchar)
    BY <2>1, Zenon DEF TargetRead, IsMethod
  <2>3. HeadLaid(t, m, u)
    BY <2>2, HeadLaidOut
  <2>4. Consists(u, Pchar \cup {STAR})
    BY <2>1, TargetSet, Zenon DEF IsPathText
  <2>5. ~Fits(t, p, q)
    BY <2>2, <2>3, <2>4, NotInTarget, Zenon
  <2> QED BY <2>5
<1>4. CASE s = 15
  <2>1. NextOfLine(15, LF) = 16
    BY DEF NextOfLine, VersionShift, HTTPVERSION
  <2> QED BY <1>4, <2>1
<1>5. CASE s \in 6..14
  <2>1. VersionRead(s - 6, t, m, u, v)
    BY <1>5 DEF LineText
  <2>2. Consists(m, Tchar) /\ IsTarget(u) /\ t = m \o <<SP>> \o u \o <<SP>> \o v
    BY <2>1, Zenon DEF VersionRead, IsMethod
  <2>3. Consists(u, Pchar \cup {STAR})
    BY <2>2, TargetSet
  <2>4. LaidOut(t, m, u, v)
    BY <2>2, LineParts
  <2>5. Len(v) = 9
    BY <2>2, <2>3, <2>4, InVersion, Zenon
  <2>6. Len(v) = s - 6
    BY <2>1, Zenon DEF VersionRead, VersionUpTo
  <2>7. s - 6 = 9
    BY <2>5, <2>6, Zenon
  <2> QED BY <1>5, <2>7
<1> QED BY <1>1, <1>2, <1>3, <1>4, <1>5

(* What is kept of the octet. *)
MethodOf(m, s, next, o)  == IF s <= 5 /\ next = 2 THEN Append(m, o) ELSE m
UriOf(u, s, next, o)     == IF s <= 5 /\ next \in {4, 5} THEN Append(u, o) ELSE u
VersionOf(v, s, o)       == IF s > 5 /\ VersionOctet(HTTPVERSION[s - 5]) THEN Append(v, o) ELSE v

LEMMA LineShiftCases ==
  ASSUME NEW s \in 1..5, NEW o, LineShift(s, o) # 0
  PROVE  \/ s \in {1, 2} /\ o \in Tchar /\ LineShift(s, o) = 2
         \/ s = 2 /\ o = SP /\ LineShift(s, o) = 3
         \/ s = 3 /\ o = STAR /\ LineShift(s, o) = 4
         \/ s = 3 /\ o = SLASH /\ LineShift(s, o) = 5
         \/ s = 5 /\ o \in Pchar /\ LineShift(s, o) = 5
         \/ s \in {4, 5} /\ o = SP /\ LineShift(s, o) = 6
<1>1. STAR # SLASH
  BY DEF STAR, SLASH
<1> QED BY <1>1, NoSpaces DEF LineShift

LEMMA AppendOne ==
  ASSUME NEW a \in Octet, NEW b \in Octet PROVE Append(<<a>>, b) = <<a, b>>
<1>1. PICK x : x = Append(<<a>>, b)
  OBVIOUS
<1>2. PICK y : y = <<a, b>>
  OBVIOUS
<1>3. <<a>> \in Seq(Octet) /\ Len(<<a>>) = 1 /\ <<a>>[1] = a
  OBVIOUS
<1>4. x \in Seq(Octet) /\ Len(x) = 2 /\ x[1] = a /\ x[2] = b
  BY <1>1, <1>3
<1>5. y \in Seq(Octet) /\ Len(y) = 2 /\ y[1] = a /\ y[2] = b
  BY <1>2
<1>6. \A i \in 1..2 : x[i] = y[i]
  BY <1>4, <1>5
<1>7. x = y
  BY <1>4, <1>5, <1>6, SeqEqual
<1> QED BY <1>1, <1>2, <1>7

LEMMA AppendCat ==
  ASSUME NEW a \in Seq(Octet), NEW b \in Seq(Octet), NEW o \in Octet
  PROVE  Append(a \o b, o) = a \o Append(b, o)
<1>1. a \o b \in Seq(Octet) /\ <<o>> \in Seq(Octet)
  OBVIOUS
<1>2. Append(a \o b, o) = (a \o b) \o <<o>> /\ Append(b, o) = b \o <<o>>
  BY <1>1, AppendIsConcat
<1>3. (a \o b) \o <<o>> = a \o (b \o <<o>>)
  BY <1>1, CatAssoc
<1> QED BY <1>2, <1>3

LEMMA ConsistsGrows ==
  ASSUME NEW a \in Seq(Octet), NEW set, Consists(a, set), NEW o \in Octet, o \in set
  PROVE  Append(a, o) # << >> /\ Consists(Append(a, o), set)
<1>1. /\ Append(a, o) # << >> /\ DOMAIN Append(a, o) = 1..Len(a) + 1
      /\ \A i \in 1..Len(a) : Append(a, o)[i] = a[i]
      /\ Append(a, o)[Len(a) + 1] = o
  OBVIOUS
<1>2. \A i \in 1..Len(a) + 1 : i \in 1..Len(a) \/ i = Len(a) + 1
  OBVIOUS
<1>3. \A i \in 1..Len(a) : a[i] \in set
  BY InSet
<1> QED BY <1>1, <1>2, <1>3, Zenon DEF Consists

LEMMA FirstStays ==
  ASSUME NEW a \in Seq(Octet), a # << >>, NEW o \in Octet
  PROVE  Append(a, o)[1] = a[1]
<1>1. 1 \in 1..Len(a)
  BY NotEmpty
<1> QED BY <1>1

LEMMA VersionGrows ==
  ASSUME NEW v \in Seq(Octet), NEW k \in 0..7, VersionUpTo(v, k), NEW o \in Octet,
         o = HTTPVERSION[k + 1] \/ (HTTPVERSION[k + 1] = 49 /\ o \in Digit)
  PROVE  VersionUpTo(Append(v, o), k + 1)
<1>1. Len(v) = k
  BY DEF VersionUpTo
<1>2. PICK x : x = Append(v, o)
  OBVIOUS
<1>3. Len(x) = k + 1 /\ (\A i \in 1..k : x[i] = v[i]) /\ x[k + 1] = o
  BY <1>1, <1>2
<1>4. \A i \in 1..k + 1 : i \in 1..k \/ i = k + 1
  OBVIOUS
<1>5. \A i \in 1..k + 1 : x[i] = HTTPVERSION[i] \/ (HTTPVERSION[i] = 49 /\ x[i] \in Digit)
  BY <1>3, <1>4, Zenon DEF VersionUpTo
<1>6. VersionUpTo(x, k + 1)
  BY <1>3, <1>5, Zenon DEF VersionUpTo
<1> QED BY <1>2, <1>6

LEMMA VersionShiftCases ==
  ASSUME NEW s \in 6..15, NEW o, VersionShift(s, o) # 0
  PROVE  /\ VersionShift(s, o) = s + 1
         /\ o = HTTPVERSION[s - 5] \/ (HTTPVERSION[s - 5] = 49 /\ o \in Digit)
BY DEF VersionShift

LEMMA VersionOctets ==
  ASSUME NEW k \in 1..10
  PROVE  /\ VersionOctet(HTTPVERSION[k]) <=> k <= 8
         /\ HTTPVERSION[9] = CR /\ HTTPVERSION[10] = LF
BY DEF VersionOctet, HTTPVERSION, SP, SLASH, DOT, CR, LF

LEMMA MethodGrows ==
  ASSUME NEW t \in Seq(Octet), NEW m \in Seq(Octet), NEW u \in Seq(Octet), NEW v \in Seq(Octet),
         NothingRead(t, m, u, v) \/ MethodRead(t, m, u, v), NEW o \in Tchar, o \in Octet
  PROVE  MethodRead(Append(t, o), Append(m, o), u, v)
<1>1. t = m /\ u = << >> /\ v = << >> /\ Consists(m, Tchar)
  <2>1. Consists(<< >>, Tchar)
    BY DEF Consists
  <2> QED BY <2>1, Zenon DEF NothingRead, MethodRead, IsMethod
<1>2. Append(m, o) # << >> /\ Consists(Append(m, o), Tchar)
  BY <1>1, ConsistsGrows
<1> QED BY <1>1, <1>2, Zenon DEF MethodRead, IsMethod

LEMMA MethodEnds ==
  ASSUME NEW t \in Seq(Octet), NEW m \in Seq(Octet), NEW u \in Seq(Octet), NEW v \in Seq(Octet),
         MethodRead(t, m, u, v)
  PROVE  TargetRead(Append(t, SP), m, u, v)
<1>1. SP \in Octet
  BY DEF SP, Octet
<1>2. IsMethod(m) /\ t = m /\ u = << >> /\ v = << >>
  BY Zenon DEF MethodRead
<1>3. Append(m, SP) = m \o <<SP>>
  BY <1>1, AppendIsConcat
<1>4. m \o <<SP>> \in Seq(Octet)
  BY <1>1
<1>5. m \o <<SP>> \o << >> = m \o <<SP>>
  BY <1>4, ConcatEmptySeq, Zenon
<1> QED BY <1>2, <1>3, <1>5, Zenon DEF TargetRead

LEMMA TargetGrows ==
  ASSUME NEW t \in Seq(Octet), NEW m \in Seq(Octet), NEW u \in Seq(Octet), NEW v \in Seq(Octet),
         TargetRead(t, m, u, v), NEW o \in Octet
  PROVE  TargetRead(Append(t, o), m, Append(u, o), v)
<1>1. SP \in Octet
  BY DEF SP, Octet
<1>2. IsMethod(m) /\ t = m \o <<SP>> \o u /\ v = << >>
  BY Zenon DEF TargetRead
<1>3. m \o <<SP>> \in Seq(Octet)
  BY <1>1
<1>4. Append(t, o) = m \o <<SP>> \o Append(u, o)
  BY <1>2, <1>3, AppendCat
<1> QED BY <1>2, <1>4, Zenon DEF TargetRead

LEMMA PathTextGrows ==
  ASSUME NEW u \in Seq(Octet), NEW o \in Octet
  PROVE  /\ u = << >> /\ o = STAR => Append(u, o) = <<STAR>>
         /\ u = << >> /\ o = SLASH => IsPathText(Append(u, o))
         /\ IsPathText(u) /\ o \in Pchar => IsPathText(Append(u, o))
<1>1. SLASH \in Pchar
  BY DEF Pchar
<1>2. Consists(<< >>, Pchar)
  BY DEF Consists
<1>3. u = << >> => Append(u, o) = <<o>>
  OBVIOUS
<1>4. ASSUME u = << >>, o = SLASH PROVE IsPathText(Append(u, o))
  <2>1. Append(u, o) # << >> /\ Consists(Append(u, o), Pchar)
    BY <1>1, <1>2, <1>4, ConsistsGrows
  <2>2. Append(u, o)[1] = SLASH
    BY <1>3, <1>4
  <2> QED BY <2>1, <2>2, Zenon DEF IsPathText
<1>5. ASSUME IsPathText(u), o \in Pchar PROVE IsPathText(Append(u, o))
  <2>1. u # << >> /\ u[1] = SLASH /\ Consists(u, Pchar)
    BY <1>5, Zenon DEF IsPathText
  <2>2. Append(u, o) # << >> /\ Consists(Append(u, o), Pchar)
    BY <1>5, <2>1, ConsistsGrows
  <2>3. Append(u, o)[1] = SLASH
    BY <2>1, FirstStays
  <2> QED BY <2>2, <2>3, Zenon DEF IsPathText
<1> QED BY <1>3, <1>4, <1>5

LEMMA TargetEnds ==
  ASSUME NEW t \in Seq(Octet), NEW m \in Seq(Octet), NEW u \in Seq(Octet), NEW v \in Seq(Octet),
         TargetRead(t, m, u, v), IsTarget(u)
  PROVE  VersionRead(0, Append(t, SP), m, u, v)
<1>1. SP \in Octet
  BY DEF SP, Octet
<1>2. IsMethod(m) /\ t = m \o <<SP>> \o u /\ v = << >>
  BY Zenon DEF TargetRead
<1>3. Append(t, SP) = m \o <<SP>> \o u \o <<SP>>
  BY <1>1, <1>2, AppendIsConcat
<1>4. m \o <<SP>> \o u \o <<SP>> \in Seq(Octet)
  BY <1>1
<1>5. m \o <<SP>> \o u \o <<SP>> \o << >> = m \o <<SP>> \o u \o <<SP>>
  BY <1>4, ConcatEmptySeq, Zenon
<1>6. VersionUpTo(v, 0)
  BY <1>2 DEF VersionUpTo
<1> QED BY <1>2, <1>3, <1>5, <1>6, Zenon DEF VersionRead

LEMMA VersionReads ==
  ASSUME NEW t \in Seq(Octet), NEW m \in Seq(Octet), NEW u \in Seq(Octet), NEW v \in Seq(Octet),
         NEW k \in 0..7, VersionRead(k, t, m, u, v), NEW o \in Octet,
         o = HTTPVERSION[k + 1] \/ (HTTPVERSION[k + 1] = 49 /\ o \in Digit)
  PROVE  VersionRead(k + 1, Append(t, o), m, u, Append(v, o))
<1>1. SP \in Octet
  BY DEF SP, Octet
<1>2. IsMethod(m) /\ IsTarget(u) /\ VersionUpTo(v, k) /\ t = m \o <<SP>> \o u \o <<SP>> \o v
  BY Zenon DEF VersionRead
<1>3. m \o <<SP>> \o u \o <<SP>> \in Seq(Octet)
  BY <1>1
<1>4. Append(t, o) = m \o <<SP>> \o u \o <<SP>> \o Append(v, o)
  BY <1>2, <1>3, AppendCat
<1>5. VersionUpTo(Append(v, o), k + 1)
  BY <1>2, VersionGrows
<1> QED BY <1>2, <1>4, <1>5, Zenon DEF VersionRead

LEMMA LineEnds ==
  ASSUME NEW t \in Seq(Octet), NEW m \in Seq(Octet), NEW u \in Seq(Octet), NEW v \in Seq(Octet)
  PROVE  /\ VersionRead(8, t, m, u, v) => ReturnRead(Append(t, CR), m, u, v)
         /\ ReturnRead(t, m, u, v) => LineRead(Append(t, LF), m, u, v)
<1>1. SP \in Octet /\ CR \in Octet /\ LF \in Octet
  BY DEF SP, CR, LF, Octet
<1>2. PICK x : x = m \o <<SP>> \o u \o <<SP>> \o v
  OBVIOUS
<1>3. x \in Seq(Octet)
  BY <1>1, <1>2
<1>4. ASSUME VersionRead(8, t, m, u, v) PROVE ReturnRead(Append(t, CR), m, u, v)
  <2>1. IsMethod(m) /\ IsTarget(u) /\ VersionUpTo(v, 8) /\ t = x
    BY <1>2, <1>4, Zenon DEF VersionRead
  <2>2. Append(t, CR) = x \o <<CR>>
    BY <1>1, <1>3, <2>1, AppendIsConcat
  <2> QED BY <1>2, <2>1, <2>2, Zenon DEF ReturnRead
<1>5. ASSUME ReturnRead(t, m, u, v) PROVE LineRead(Append(t, LF), m, u, v)
  <2>1. IsMethod(m) /\ IsTarget(u) /\ VersionUpTo(v, 8) /\ t = x \o <<CR>>
    BY <1>2, <1>5, Zenon DEF ReturnRead
  <2>2. Append(t, LF) = x \o Append(<<CR>>, LF)
    <3>1. <<CR>> \in Seq(Octet)
      BY <1>1
    <3> QED BY <1>1, <1>3, <2>1, <3>1, AppendCat, ZenonT(30)
  <2>3. Append(<<CR>>, LF) = <<CR, LF>>
    BY <1>1, AppendOne
  <2> QED BY <1>2, <2>1, <2>2, <2>3, Zenon DEF LineRead
<1> QED BY <1>4, <1>5

(* And an octet that it takes makes the parts grow as the next state      *)
(* says.                                                                  *)
LEMMA LineTextGrows ==
  ASSUME NEW t \in Seq(Octet), NEW m \in Seq(Octet), NEW u \in Seq(Octet), NEW v \in Seq(Octet),
         NEW s \in 1..15, LineText(s, t, m, u, v), NEW o \in Octet,
         NEW next, next = NextOfLine(s, o)
  PROVE  LineText(next, Append(t, o), MethodOf(m, s, next, o), UriOf(u, s, next, o), VersionOf(v, s, o))
<1> DEFINE M == MethodOf(m, s, next, o)
           U == UriOf(u, s, next, o)
           V == VersionOf(v, s, o)
           t1 == Append(t, o)
<1>1. CASE next = 0
  BY <1>1 DEF LineText
<1>2. CASE next # 0 /\ s \in 1..5
  <2>1. next = LineShift(s, o)
    BY <1>2 DEF NextOfLine
  <2>2. \/ s \in {1, 2} /\ o \in Tchar /\ next = 2
        \/ s = 2 /\ o = SP /\ next = 3
        \/ s = 3 /\ o = STAR /\ next = 4
        \/ s = 3 /\ o = SLASH /\ next = 5
        \/ s = 5 /\ o \in Pchar /\ next = 5
        \/ s \in {4, 5} /\ o = SP /\ next = 6
    BY <1>2, <2>1, LineShiftCases
  <2>3. /\ next = 2 => M = Append(m, o) /\ U = u
        /\ next \in {4, 5} => M = m /\ U = Append(u, o)
        /\ next \in {3, 6} => M = m /\ U = u
        /\ V = v
    BY <1>2 DEF MethodOf, UriOf, VersionOf
  <2>4. ASSUME next = 2 PROVE MethodRead(t1, M, U, V)
    <3>1. NothingRead(t, m, u, v) \/ MethodRead(t, m, u, v)
      BY <2>2, <2>4 DEF LineText
    <3>2. MethodRead(Append(t, o), Append(m, o), u, v)
      BY <2>2, <2>4, <3>1, MethodGrows
    <3> QED BY <2>3, <2>4, <3>2
  <2>5. ASSUME next = 3 PROVE TargetRead(t1, M, U, V) /\ U = << >>
    <3>1. MethodRead(t, m, u, v) /\ o = SP
      BY <2>2, <2>5 DEF LineText
    <3>2. TargetRead(Append(t, o), m, u, v)
      BY <3>1, MethodEnds
    <3>3. u = << >>
      BY <3>1 DEF MethodRead
    <3> QED BY <2>3, <2>5, <3>2, <3>3
  <2>6. ASSUME next \in {4, 5} PROVE TargetRead(t1, M, U, V)
    <3>1. TargetRead(t, m, u, v)
      BY <2>2, <2>6 DEF LineText
    <3>2. TargetRead(Append(t, o), m, Append(u, o), v)
      BY <3>1, TargetGrows
    <3> QED BY <2>3, <2>6, <3>2
  <2>7. ASSUME next = 4 PROVE U = <<STAR>>
    <3>1. u = << >> /\ o = STAR
      BY <2>2, <2>7 DEF LineText
    <3>2. Append(u, o) = <<STAR>>
      BY <3>1, PathTextGrows
    <3> QED BY <2>3, <2>7, <3>2
  <2>8. ASSUME next = 5 PROVE IsPathText(U)
    <3>1. (u = << >> /\ o = SLASH) \/ (IsPathText(u) /\ o \in Pchar)
      BY <2>2, <2>8 DEF LineText
    <3>2. IsPathText(Append(u, o))
      BY <3>1, PathTextGrows
    <3> QED BY <2>3, <2>8, <3>2
  <2>9. ASSUME next = 6 PROVE VersionRead(0, t1, M, U, V)
    <3>1. TargetRead(t, m, u, v) /\ o = SP /\ (u = <<STAR>> \/ IsPathText(u))
      BY <2>2, <2>9 DEF LineText
    <3>2. VersionRead(0, Append(t, o), m, u, v)
      BY <3>1, TargetEnds DEF IsTarget
    <3> QED BY <2>3, <2>9, <3>2
  <2> HIDE DEF t1, M, U, V
  <2>10. next \in {2, 3, 4, 5, 6} /\ 6 - 6 = 0
    BY <2>2
  <2>11. LineText(next, t1, M, U, V)
    <3>1. CASE next = 2
      BY <2>4, <3>1 DEF LineText
    <3>2. CASE next = 3
      BY <2>5, <3>2 DEF LineText
    <3>3. CASE next = 4
      BY <2>6, <2>7, <3>3 DEF LineText
    <3>4. CASE next = 5
      BY <2>6, <2>8, <3>4 DEF LineText
    <3>5. CASE next = 6
      <4>1. VersionRead(6 - 6, t1, M, U, V)
        BY <2>9, <2>10, <3>5
      <4> QED BY <3>5, <4>1 DEF LineText
    <3> QED BY <2>10, <3>1, <3>2, <3>3, <3>4, <3>5
  <2> QED BY <2>11 DEF t1, M, U, V
<1>3. CASE next # 0 /\ s \in 6..15
  <2>1. next = VersionShift(s, o)
    BY <1>3 DEF NextOfLine
  <2>2. next = s + 1 /\ (o = HTTPVERSION[s - 5] \/ (HTTPVERSION[s - 5] = 49 /\ o \in Digit))
    BY <1>3, <2>1, VersionShiftCases
  <2>3. PICK k : k = s - 6
    OBVIOUS
  <2>4. k \in 0..9 /\ s = k + 6 /\ s - 5 = k + 1 /\ k + 1 \in 1..10 /\ s > 5 /\ ~(s <= 5)
    BY <1>3, <2>3
  <2>5. M = m /\ U = u
    BY <2>4 DEF MethodOf, UriOf
  <2>6. /\ VersionOctet(HTTPVERSION[k + 1]) <=> k + 1 <= 8
        /\ HTTPVERSION[9] = CR /\ HTTPVERSION[10] = LF
    BY <2>4, VersionOctets
  <2>7. V = IF k + 1 <= 8 THEN Append(v, o) ELSE v
    BY <2>4, <2>6 DEF VersionOf
  <2>8. ASSUME k \in 0..7 PROVE VersionRead(k + 1, t1, M, U, V)
    <3>1. VersionRead(k, t, m, u, v)
      BY <2>3, <2>4, <2>8 DEF LineText
    <3>2. VersionRead(k + 1, Append(t, o), m, u, Append(v, o))
      <4>1. o = HTTPVERSION[k + 1] \/ (HTTPVERSION[k + 1] = 49 /\ o \in Digit)
        BY <2>2, <2>4
      <4> QED BY <2>8, <3>1, <4>1, VersionReads
    <3> QED BY <2>5, <2>7, <2>8, <3>2
  <2>9. ASSUME k = 8 PROVE ReturnRead(t1, M, U, V)
    <3>1. VersionRead(8, t, m, u, v)
      BY <2>4, <2>3, <2>9 DEF LineText
    <3>2. o = CR
      <4>1. HTTPVERSION[k + 1] = CR /\ CR # 49
        BY <2>6, <2>9 DEF CR
      <4> QED BY <2>2, <2>4, <4>1
    <3>3. ReturnRead(Append(t, o), m, u, v)
      BY <3>1, <3>2, LineEnds
    <3> QED BY <2>5, <2>7, <2>9, <3>3
  <2>10. ASSUME k = 9 PROVE LineRead(t1, M, U, V)
    <3>1. ReturnRead(t, m, u, v)
      BY <2>4, <2>10 DEF LineText
    <3>2. o = LF
      <4>1. HTTPVERSION[k + 1] = LF /\ LF # 49
        BY <2>6, <2>10 DEF LF
      <4> QED BY <2>2, <2>4, <4>1
    <3>3. LineRead(Append(t, o), m, u, v)
      BY <3>1, <3>2, LineEnds
    <3> QED BY <2>5, <2>7, <2>10, <3>3
  <2> HIDE DEF t1, M, U, V
  <2>11. next = k + 7 /\ k \in 0..9 /\ next - 6 = k + 1
    BY <2>2, <2>4
  <2>12. LineText(next, t1, M, U, V)
    BY <2>8, <2>9, <2>10, <2>11 DEF LineText
  <2> QED BY <2>12 DEF t1, M, U, V
<1> QED BY <1>1, <1>2, <1>3

LinePutInto(n, d, next, o) ==
  /\ n.next_state = next /\ n.nbyte = d.nbyte + 1
  /\ n.method = MethodOf(d.method, d.next_state, next, o)
  /\ n.uri = UriOf(d.uri, d.next_state, next, o)
  /\ n.http_version = VersionOf(d.http_version, d.next_state, o)

LEMMA LinePutFields ==
  ASSUME NEW d \in LineRecords, NEW o \in Nat, NEW next \in 0..16
  PROVE  LinePutInto(LineKeep(LineAt(d, next), d.next_state, o), d, next, o)
<1>0. PICK s : s = d.next_state
  OBVIOUS
<1>. s \in 0..16
  BY <1>0 DEF LineRecords
<1> DEFINE a == LineAt(d, next)
<1>1. /\ DOMAIN a = {"next_state", "nbyte", "method", "uri", "http_version"}
      /\ a.next_state = next /\ a.nbyte = d.nbyte + 1 /\ a.method = d.method /\ a.uri = d.uri
      /\ a.http_version = d.http_version
  BY Zenon DEF LineAt, LineRecords
<1> HIDE DEF a
<1> DEFINE k == LineKeep(a, s, o)
<1>3. k.next_state = next /\ k.nbyte = d.nbyte + 1
  BY <1>1, Zenon DEF LineKeep
<1>4. k.method = MethodOf(d.method, s, next, o)
  BY <1>1 DEF LineKeep, MethodOf
<1>5. k.uri = UriOf(d.uri, s, next, o)
  BY <1>1 DEF LineKeep, UriOf
<1>6. k.http_version = VersionOf(d.http_version, s, o)
  BY <1>1 DEF LineKeep, VersionOf
<1>7. LinePutInto(k, d, next, o)
  BY <1>0, <1>3, <1>4, <1>5, <1>6, Zenon DEF LinePutInto
<1> QED BY <1>0, <1>7, Zenon DEF a

(* The whole of put (), with its limit. *)
LEMMA LineReadsOn ==
  ASSUME NEW d, NEW t, LineReads(t, d), LinePartial(d), NEW o \in Octet
  PROVE  LineReads(Append(t, o), LinePut(d, o))
<1>1. PICK s : s = d.next_state
  OBVIOUS
<1>2. PICK m : m = d.method
  OBVIOUS
<1>3. PICK u : u = d.uri
  OBVIOUS
<1>4. PICK v : v = d.http_version
  OBVIOUS
<1>5. /\ d \in LineRecords /\ t \in Seq(Octet) /\ Len(t) = d.nbyte /\ s \in 1..15
      /\ m \in Seq(Octet) /\ u \in Seq(Octet) /\ v \in Seq(Octet) /\ LineText(s, t, m, u, v)
  BY <1>1, <1>2, <1>3, <1>4, Zenon DEF LineReads, LinePartial
<1>6. o \in Nat
  BY DEF Octet
<1>7. d.nbyte \in Nat /\ LineLimit \in Nat
  BY <1>5, LineAssumption DEF LineRecords
<1>8. Append(t, o) \in Seq(Octet) /\ Len(Append(t, o)) = d.nbyte + 1
  BY <1>5
<1>9. CASE LineLimit <= d.nbyte
  <2>1. LinePut(d, o) = LineAt(d, 0)
    BY <1>9 DEF LinePut
  <2>2. LineAt(d, 0) \in LineRecords /\ LineAt(d, 0).next_state = 0 /\ LineAt(d, 0).nbyte = d.nbyte + 1
    <3>1. 0 \in 0..16
      OBVIOUS
    <3> QED BY <1>5, <3>1, LineAtFields
  <2>3. LineAt(d, 0).method = m /\ LineAt(d, 0).uri = u /\ LineAt(d, 0).http_version = v
    BY <1>2, <1>3, <1>4, <1>5, Zenon DEF LineAt, LineRecords
  <2>4. Len(Append(t, o)) > LineLimit
    BY <1>7, <1>8, <1>9
  <2>5. LineText(0, Append(t, o), m, u, v)
    BY DEF LineText
  <2> QED BY <1>5, <1>8, <2>1, <2>2, <2>3, <2>4, <2>5, Zenon DEF LineReads
<1>10. CASE ~(LineLimit <= d.nbyte)
  <2>1. PICK next : next = NextOfLine(s, o)
    OBVIOUS
  <2>2. next \in 0..16
    BY <1>5, <2>1, LineStates
  <2>3. PICK n : n = LineKeep(LineAt(d, next), s, o)
    OBVIOUS
  <2>4. LinePut(d, o) = n
    BY <1>1, <1>10, <2>1, <2>3, Zenon DEF LinePut
  <2>5. /\ n.next_state = next /\ n.nbyte = d.nbyte + 1
        /\ n.method = MethodOf(m, s, next, o)
        /\ n.uri = UriOf(u, s, next, o)
        /\ n.http_version = VersionOf(v, s, o)
    <3>1. LinePutInto(n, d, next, o)
      BY <1>1, <1>5, <1>6, <2>2, <2>3, LinePutFields
    <3>2. /\ n.next_state = next /\ n.nbyte = d.nbyte + 1
          /\ n.method = MethodOf(d.method, d.next_state, next, o)
          /\ n.uri = UriOf(d.uri, d.next_state, next, o)
          /\ n.http_version = VersionOf(d.http_version, d.next_state, o)
      BY <3>1, Zenon DEF LinePutInto
    <3> QED BY <1>1, <1>2, <1>3, <1>4, <3>2, Zenon
  <2>6. n \in LineRecords
    <3>1. LineAt(d, next) \in LineRecords
      BY <1>5, <2>2, LineAtFields
    <3> QED BY <1>6, <2>3, <3>1, LineKeepFields
  <2>7. LineText(next, Append(t, o), n.method, n.uri, n.http_version)
    <3>1. LineText(next, Append(t, o), MethodOf(m, s, next, o), UriOf(u, s, next, o), VersionOf(v, s, o))
      BY <1>5, <2>1, LineTextGrows
    <3> QED BY <2>5, <3>1, Zenon
  <2>8. n.method \in Seq(Octet) /\ n.uri \in Seq(Octet) /\ n.http_version \in Seq(Octet)
    <3>1. Append(m, o) \in Seq(Octet) /\ Append(u, o) \in Seq(Octet) /\ Append(v, o) \in Seq(Octet)
      BY <1>5
    <3> QED BY <1>5, <2>5, <3>1, Zenon DEF MethodOf, UriOf, VersionOf
  <2>9. next = 0 => NoLine(Append(t, o))
    BY <1>5, <2>1, LineRefused
  <2> QED BY <1>8, <2>4, <2>5, <2>6, <2>7, <2>8, <2>9, Zenon DEF LineReads
<1> QED BY <1>9, <1>10

OctetsOf(x, t, a, b) ==
  /\ x \in Seq(Octet) /\ Len(x) = IF a <= b THEN b - a + 1 ELSE 0
  /\ \A i \in 1..(b - a + 1) : x[i] = t[a + i - 1]

LEMMA PartOctets ==
  ASSUME NEW t \in Seq(Octet), NEW a \in Int, NEW b \in Int, a >= 1, b <= Len(t)
  PROVE  OctetsOf(SubSeq(t, a, b), t, a, b)
<1>1. \A k \in a..b : t[k] \in Octet
  OBVIOUS
<1>2. SubSeq(t, a, b) \in Seq(Octet)
  BY PartOfText
<1>3. Len(SubSeq(t, a, b)) = IF a <= b THEN b - a + 1 ELSE 0
  OBVIOUS
<1>4. \A i \in 1..(b - a + 1) : SubSeq(t, a, b)[i] = t[a + i - 1]
  OBVIOUS
<1> QED BY <1>2, <1>3, <1>4, Zenon DEF OctetsOf

LEMMA VersionIs ==
  ASSUME NEW v \in Seq(Octet), VersionUpTo(v, 8) PROVE IsVersion(v)
<1>1. Len(v) = 8 /\ \A i \in 1..8 : v[i] = HTTPVERSION[i] \/ (HTTPVERSION[i] = 49 /\ v[i] \in Digit)
  BY Zenon DEF VersionUpTo
<1>2. v[1] = 72 /\ v[2] = 84 /\ v[3] = 84 /\ v[4] = 80 /\ v[5] = SLASH /\ v[7] = DOT
  BY <1>1 DEF HTTPVERSION, SLASH, DOT
<1>3. v[6] \in Digit /\ v[8] \in Digit
  BY <1>1 DEF HTTPVERSION, Digit
<1>4. SubSeq(v, 1, 5) = <<72, 84, 84, 80, SLASH>>
  <2>1. PICK x : x = SubSeq(v, 1, 5)
    OBVIOUS
  <2>2. PICK y : y = <<72, 84, 84, 80, SLASH>>
    OBVIOUS
  <2>3. x \in Seq(Octet) /\ Len(x) = 5 /\ \A i \in 1..5 : x[i] = v[i]
    <3>1. OctetsOf(x, v, 1, 5)
      <4>1. 1 \in Int /\ 5 \in Int /\ 1 >= 1 /\ 5 <= Len(v)
        BY <1>1
      <4> QED BY <2>1, <4>1, PartOctets, Zenon
    <3> QED BY <3>1 DEF OctetsOf
  <2>4. y \in Seq(Octet) /\ Len(y) = 5 /\ y[1] = 72 /\ y[2] = 84 /\ y[3] = 84 /\ y[4] = 80 /\ y[5] = SLASH
    BY <2>2 DEF SLASH, Octet
  <2>5. \A i \in 1..5 : x[i] = y[i]
    BY <1>2, <2>3, <2>4
  <2>6. x = y
    <3>1. Len(x) = Len(y) /\ \A i \in 1..Len(x) : x[i] = y[i]
      BY <2>3, <2>4, <2>5, Zenon
    <3> QED BY <2>3, <2>4, <3>1, SeqEqual, Zenon
  <2> QED BY <2>1, <2>2, <2>6
<1> QED BY <1>1, <1>2, <1>3, <1>4, Zenon DEF IsVersion

(* The parts of a line that was read to its end are those of a request    *)
(* line.                                                                  *)
LEMMA LineReadWritten ==
  ASSUME NEW t \in Seq(Octet), NEW m \in Seq(Octet), NEW u \in Seq(Octet), NEW v \in Seq(Octet),
         LineRead(t, m, u, v)
  PROVE  IsRequestLine(t, m, u, v, Pchar)
<1>1. IsVersion(v)
  BY VersionIs DEF LineRead
<1> QED BY <1>1, Zenon DEF LineRead, IsMethod, IsTarget, IsPathText, IsRequestLine

LineInv == kind = "line" => LineReads(src, dec)

LEMMA LineStart == DecodersInit => LineInv
<1> SUFFICES ASSUME DecodersInit, kind = "line" PROVE LineReads(src, dec)
  BY DEF LineInv
<1>1. dec = FreshLine /\ src = << >>
  BY DEF DecodersInit, Fresh
<1>2. /\ FreshLine.next_state = 1 /\ FreshLine.nbyte = 0 /\ FreshLine.method = << >>
      /\ FreshLine.uri = << >> /\ FreshLine.http_version = << >> /\ FreshLine \in LineRecords
  BY DEF FreshLine, LineRecords
<1>3. << >> \in Seq(Octet) /\ Len(<< >>) = 0
  OBVIOUS
<1>4. LineText(1, << >>, << >>, << >>, << >>)
  BY DEF LineText, NothingRead
<1> QED BY <1>1, <1>2, <1>3, <1>4 DEF LineReads

LEMMA LineSteps == LineInv /\ [DecodersNext]_decodersVars => LineInv'
<1> SUFFICES ASSUME LineInv, [DecodersNext]_decodersVars, kind' = "line" PROVE LineReads(src', dec')
  BY DEF LineInv
<1>1. CASE PutOctet
  <2>1. PICK o \in (Inputs(kind, dec, src) \cap Octet) \cup {End} :
             (o = End => kind \in Values) /\ src' = Append(src, o) /\ dec' = Put(o)
    BY <1>1, Zenon DEF PutOctet
  <2>2. kind = "line" /\ Partial
    BY <1>1, Zenon DEF PutOctet
  <2>3. LinePartial(dec)
    <3>1. kind \notin Values
      BY <2>2, Zenon DEF Values, Messages
    <3> QED BY <2>2, <3>1, Zenon DEF Partial
  <2>4. dec' = LinePut(dec, o)
    BY <2>1, <2>2, Zenon DEF Put
  <2>5. o \in Octet
    BY <2>1, <2>2 DEF Values, Messages
  <2> QED BY <2>1, <2>2, <2>3, <2>4, <2>5, LineReadsOn DEF LineInv
<1>2. CASE WriteResponse
  BY <1>2 DEF WriteResponse
<1>3. CASE ResponseStops
  BY <1>3 DEF ResponseStops
<1>4. CASE UNCHANGED decodersVars
  BY <1>4 DEF decodersVars, LineInv
<1> QED BY <1>1, <1>2, <1>3, <1>4 DEF DecodersNext

LEMMA LineInvWritten == LineInv => LineAsWritten
<1> SUFFICES ASSUME LineReads(src, dec) PROVE LineAsWritten
  BY DEF LineInv, LineAsWritten
<1>1. ASSUME LineGood(dec) PROVE IsRequestLine(src, dec.method, dec.uri, dec.http_version, Pchar)
  <2>1. LineRead(src, dec.method, dec.uri, dec.http_version)
    BY <1>1 DEF LineReads, LineGood, LineText
  <2> QED BY <2>1, LineReadWritten DEF LineReads
<1>2. ASSUME Len(src) <= LineLimit, dec.next_state = 0 PROVE NoLine(src)
  BY <1>2, LineAssumption DEF LineReads
<1> QED BY <1>1, <1>2, Zenon DEF LineAsWritten, NoLine

(* A request line is taken when it is one and then divided into its       *)
(* parts, and refused only when it is none or longer than the limit,      *)
(* whatever the text and the limit (decode-request-line.cpp:38).          *)
THEOREM LinesRead == DecodersSpec => []LineAsWritten
<1>1. DecodersSpec => []LineInv
  BY LineStart, LineSteps, PTL DEF DecodersSpec
<1> QED BY <1>1, LineInvWritten, PTL

-----------------------------------------------------------------------------
(* Folds. A fold over a sequence is the end of a trace with a member for  *)
(* each length; the definition of MapThenFoldSet goes over all sets of    *)
(* positions, and that there is such a function is shown first.           *)
LEMMA LeastNumber ==
  ASSUME NEW T, T \subseteq Nat, T # {}
  PROVE  \E x \in T : \A y \in T : x <= y
<1>1. PICK x \in T : \A y \in T : <<y, x>> \notin OpToRel(<, Nat)
  BY WFMin, NatLessThanWellFounded, Zenon
<1>2. \A y \in T : ~(y < x)
  BY <1>1, Zenon DEF OpToRel
<1> QED BY <1>2

(* Induction, over a set of numbers. *)
LEMMA AllNumbers ==
  ASSUME NEW T, 0 \in T, \A n \in Nat : n \in T => n + 1 \in T
  PROVE  Nat \subseteq T
<1> SUFFICES ASSUME NEW m \in Nat, m \notin T PROVE FALSE
  OBVIOUS
<1>1. PICK x \in Nat \ T : \A y \in Nat \ T : x <= y
  <2>1. Nat \ T \subseteq Nat /\ Nat \ T # {}
    OBVIOUS
  <2> QED BY <2>1, LeastNumber, Zenon
<1>2. x # 0 /\ x - 1 \in Nat
  BY <1>1
<1>3. x - 1 \in T
  BY <1>1, <1>2
<1> QED BY <1>1, <1>2, <1>3

(* And over a set of sequences. *)
LEMMA AllSequences ==
  ASSUME NEW S, NEW T, << >> \in T, \A s \in Seq(S), e \in S : s \in T => Append(s, e) \in T
  PROVE  Seq(S) \subseteq T
<1> DEFINE N == {n \in Nat : \A s \in Seq(S) : Len(s) = n => s \in T}
<1>1. 0 \in N
  <2>1. \A s \in Seq(S) : Len(s) = 0 => s = << >>
    OBVIOUS
  <2> QED BY <2>1
<1>2. ASSUME NEW n \in Nat, n \in N PROVE n + 1 \in N
  <2> SUFFICES ASSUME NEW s \in Seq(S), Len(s) = n + 1 PROVE s \in T
    BY <1>2
  <2>1. s # << >>
    OBVIOUS
  <2>2. PICK t \in Seq(S), e \in S : s = Append(t, e)
    BY <2>1, SequenceEmptyOrAppend
  <2>3. Len(t) = n
    BY <2>2
  <2> QED BY <1>2, <2>2, <2>3
<1> HIDE DEF N
<1>3. Nat \subseteq N
  BY <1>1, <1>2, AllNumbers
<1>4. \A s \in Seq(S) : Len(s) \in N
  BY <1>3
<1> QED BY <1>4 DEF N

LEMMA GreatestOf ==
  ASSUME NEW n \in Nat, NEW T, T \subseteq 1..n + 1, n + 1 \in T
  PROVE  Max(T) = n + 1
<1> DEFINE P(x) == x \in T /\ \A y \in T : x >= y
<1>1. \A x \in T : x \in Nat /\ x <= n + 1
  OBVIOUS
<1>2. P(n + 1)
  BY <1>1
<1>3. P(Max(T))
  <2>1. Max(T) = CHOOSE x : P(x)
    BY Zenon DEF Max
  <2> HIDE DEF P
  <2> QED BY <1>2, <2>1, Zenon
<1>4. PICK m : m = Max(T)
  OBVIOUS
<1>5. m \in T /\ m >= n + 1
  BY <1>3, <1>4
<1>6. m \in Nat /\ m <= n + 1
  BY <1>1, <1>5
<1>7. m = n + 1
  BY <1>5, <1>6
<1> QED BY <1>4, <1>7

LEMMA GreatestIn ==
  ASSUME NEW n \in Nat, NEW T, T \subseteq 1..n, T # {}
  PROVE  Max(T) \in T
<1> DEFINE N == {k \in Nat : \A U : (U \subseteq 1..k /\ U # {}) => Max(U) \in U}
<1>1. 0 \in N
  OBVIOUS
<1>2. ASSUME NEW k \in Nat, k \in N PROVE k + 1 \in N
  <2> SUFFICES ASSUME NEW U, U \subseteq 1..k + 1, U # {} PROVE Max(U) \in U
    OBVIOUS
  <2>1. CASE k + 1 \in U
    BY <2>1, GreatestOf
  <2>2. CASE k + 1 \notin U
    <3>1. U \subseteq 1..k
      BY <2>2
    <3> QED BY <1>2, <3>1
  <2> QED BY <2>1, <2>2
<1>3. Nat \subseteq N
  <2> HIDE DEF N
  <2> QED BY <1>1, <1>2, AllNumbers
<1> QED BY <1>3

Iterates(it, n, A, b, g) ==
  /\ it \in [SUBSET (1..n) -> A]
  /\ it[{}] = b
  /\ \A t \in SUBSET (1..n) : t # {} => it[t] = g[<<it[t \ {Max(t)}], Max(t)>>]

LEMMA FoldExists ==
  ASSUME NEW n \in Nat, NEW A, NEW b \in A, NEW g \in [A \X (1..n) -> A]
  PROVE  \E it : Iterates(it, n, A, b, g)
<1> DEFINE N == {k \in Nat : k <= n => \E it : Iterates(it, k, A, b, g)}
<1>1. 0 \in N
  <2>1. 1..0 = {}
    OBVIOUS
  <2>2. Iterates([t \in {{}} |-> b], 0, A, b, g)
    BY <2>1 DEF Iterates
  <2> QED BY <2>2
<1>2. ASSUME NEW k \in Nat, k \in N PROVE k + 1 \in N
  <2> SUFFICES ASSUME k + 1 <= n PROVE \E it : Iterates(it, k + 1, A, b, g)
    OBVIOUS
  <2>1. PICK f : Iterates(f, k, A, b, g)
    BY <1>2
  <2> DEFINE it == [t \in SUBSET (1..k + 1) |->
                      IF k + 1 \in t THEN g[<<f[t \ {k + 1}], k + 1>>] ELSE f[t]]
  <2>2. \A t \in SUBSET (1..k + 1) : /\ k + 1 \notin t => t \in SUBSET (1..k)
                                     /\ t \ {k + 1} \in SUBSET (1..k)
    OBVIOUS
  <2>3. it \in [SUBSET (1..k + 1) -> A]
    <3>1. \A a \in A, i \in 1..n : g[<<a, i>>] \in A
      OBVIOUS
    <3>2. k + 1 \in 1..n /\ f \in [SUBSET (1..k) -> A]
      BY <2>1 DEF Iterates
    <3> QED BY <2>2, <3>1, <3>2, Zenon
  <2>4. ASSUME NEW t \in SUBSET (1..k + 1), t # {}
        PROVE  it[t] = g[<<it[t \ {Max(t)}], Max(t)>>]
    <3>1. CASE k + 1 \in t
      <4>1. Max(t) = k + 1
        BY <3>1, GreatestOf
      <4>2. t \ {k + 1} \in SUBSET (1..k + 1) /\ k + 1 \notin t \ {k + 1}
        BY <3>1
      <4>3. it[t \ {k + 1}] = f[t \ {k + 1}]
        BY <4>2, Zenon
      <4>4. it[t] = g[<<f[t \ {k + 1}], k + 1>>]
        BY <3>1, Zenon
      <4> HIDE DEF it
      <4> QED BY <4>1, <4>3, <4>4
    <3>2. CASE k + 1 \notin t
      <4>1. t \in SUBSET (1..k)
        BY <3>2, <2>2, Zenon
      <4>2. f[t] = g[<<f[t \ {Max(t)}], Max(t)>>]
        BY <2>1, <2>4, <4>1, Zenon DEF Iterates
      <4>3. t \ {Max(t)} \in SUBSET (1..k + 1) /\ k + 1 \notin t \ {Max(t)}
        BY <3>2, Zenon
      <4>4. it[t] = f[t] /\ it[t \ {Max(t)}] = f[t \ {Max(t)}]
        BY <3>2, <4>3, Zenon
      <4> HIDE DEF it
      <4> QED BY <4>2, <4>4, Zenon
    <3> QED BY <3>1, <3>2, Zenon
  <2>5. it[{}] = b
    <3>1. {} \in SUBSET (1..k + 1) /\ k + 1 \notin {}
      OBVIOUS
    <3>2. it[{}] = f[{}]
      BY <3>1, Zenon
    <3> HIDE DEF it
    <3> QED BY <3>2, <2>1 DEF Iterates
  <2> HIDE DEF it
  <2>6. Iterates(it, k + 1, A, b, g)
    BY <2>3, <2>4, <2>5, Zenon DEF Iterates
  <2> QED BY <2>6
<1> HIDE DEF N
<1>3. n \in N
  BY <1>1, <1>2, AllNumbers
<1> QED BY <1>3 DEF N

WouldIterate(it, n, A, b, g) ==
  /\ it[{}] = b
  /\ \A t \in SUBSET (1..n) : (t # {} /\ it[t \ {Max(t)}] \in A) =>
        it[t] = g[<<it[t \ {Max(t)}], Max(t)>>]

Steps(f, n, A, b, g, z) ==
  /\ f \in [0..n -> A] /\ f[0] = b /\ f[n] = z
  /\ \A k \in 1..n : f[k] = g[<<f[k - 1], k>>]

LEMMA FoldTrace ==
  ASSUME NEW n \in Nat, NEW A, NEW b \in A, NEW g \in [A \X (1..n) -> A], NEW it,
         WouldIterate(it, n, A, b, g)
  PROVE  \E f : Steps(f, n, A, b, g, it[1..n])
<1> USE DEF WouldIterate
<1>1. 1..0 = {}
  OBVIOUS
<1>2. ASSUME NEW k \in 1..n, it[1..k - 1] \in A
      PROVE  it[1..k] = g[<<it[1..k - 1], k>>] /\ it[1..k] \in A
  <2>1. k - 1 \in Nat /\ 1..k \subseteq 1..(k - 1) + 1 /\ (k - 1) + 1 = k /\ k \in 1..k
    OBVIOUS
  <2>2. Max(1..k) = k
    BY <2>1, GreatestOf
  <2>3. 1..k \in SUBSET (1..n) /\ 1..k # {} /\ (1..k) \ {k} = 1..k - 1
    <3>1. \A i : i \in 1..k => i \in 1..n
      OBVIOUS
    <3>2. \A i : i \in (1..k) \ {k} <=> i \in 1..k - 1
      OBVIOUS
    <3> QED BY <2>1, <3>1, <3>2
  <2>4. it[1..k] = g[<<it[1..k - 1], k>>]
    BY <1>2, <2>2, <2>3
  <2>5. <<it[1..k - 1], k>> \in A \X (1..n)
    BY <1>2
  <2> QED BY <2>4, <2>5
<1> DEFINE N == {k \in Nat : k <= n => it[1..k] \in A}
<1>3. 0 \in N
  BY <1>1
<1>4. \A k \in Nat : k \in N => k + 1 \in N
  <2> SUFFICES ASSUME NEW k \in Nat, k \in N, k + 1 <= n PROVE it[1..k + 1] \in A
    OBVIOUS
  <2>1. k + 1 \in 1..n /\ (k + 1) - 1 = k
    OBVIOUS
  <2>2. it[1..k] \in A
    <3> HIDE <1>2
    <3> QED OBVIOUS
  <2>3. it[1..(k + 1) - 1] \in A
    BY <2>1, <2>2
  <2> HIDE DEF N
  <2> QED BY <1>2, <2>1, <2>3
<1>5. Nat \subseteq N
  <2> HIDE DEF N
  <2> QED BY <1>3, <1>4, AllNumbers
<1>6. \A k \in 0..n : it[1..k] \in A
  BY <1>5
<1> DEFINE f == [k \in 0..n |-> it[1..k]]
<1>7. f \in [0..n -> A] /\ f[0] = b /\ f[n] = it[1..n]
  BY <1>1, <1>6
<1>8. \A k \in 1..n : f[k] = g[<<f[k - 1], k>>]
  BY <1>2, <1>6
<1> QED BY <1>7, <1>8, Zenon DEF Steps

StepsAgree(f, h, n) ==
  f[0] = h[0] /\ \A k \in 1..n : f[k - 1] = h[k - 1] => f[k] = h[k]

LEMMA FoldsAgree == ASSUME NEW n \in Nat, NEW f, NEW h, StepsAgree(f, h, n) PROVE f[n] = h[n]
<1> DEFINE N == {k \in Nat : k <= n => f[k] = h[k]}
<1>1. 0 \in N
  BY DEF StepsAgree
<1>2. \A k \in Nat : k \in N => k + 1 \in N
  <2> SUFFICES ASSUME NEW k \in Nat, k \in N, k + 1 <= n PROVE f[k + 1] = h[k + 1]
    OBVIOUS
  <2>1. k + 1 \in 1..n /\ (k + 1) - 1 = k
    OBVIOUS
  <2> QED BY <2>1 DEF StepsAgree
<1>3. Nat \subseteq N
  <2> HIDE DEF N
  <2> QED BY <1>1, <1>2, AllNumbers
<1> QED BY <1>3

-----------------------------------------------------------------------------
(* The reader of a chunked response. *)
Decoder == {d \in ChunkRecords : ChunkKept(d)}

(* f holds what each octet of s makes of d. *)
PutAll(f, d, s) ==
  /\ f \in [0..Len(s) -> Decoder] /\ f[0] = d
  /\ \A k \in 1..Len(s) : f[k] = ChunkPut(f[k - 1], s[k])

LEMMA ChunkFold ==
  ASSUME NEW s \in Seq(Nat), NEW d \in Decoder
  PROVE  \E f : PutAll(f, d, s) /\ f[Len(s)] = FoldLeft(ChunkPut, d, s)
<1> DEFINE n == Len(s)
           next(a, i) == ChunkPut(a, s[i])
           g == [p \in Decoder \X (1..n) |-> next(p[1], p[2])]
           body(it) == [t \in SUBSET (1..n) |-> IF t = {} THEN d ELSE next(it[t \ {Max(t)}], Max(t))]
           it == CHOOSE w : w = body(w)
<1>1. n \in Nat /\ DOMAIN s = 1..n
  OBVIOUS
<1>2. \A a \in Decoder, i \in 1..n : next(a, i) \in Decoder
  <2> SUFFICES ASSUME NEW a \in Decoder, NEW i \in 1..n PROVE ChunkPut(a, s[i]) \in Decoder
    OBVIOUS
  <2>1. s[i] \in Nat /\ ChunkKept(a)
    BY DEF Decoder
  <2>2. ChunkKept(ChunkPut(a, s[i]))
    BY <2>1, ChunkPutKeeps
  <2> QED BY <2>2 DEF Decoder, ChunkKept
<1>3. FoldLeft(ChunkPut, d, s) = it[1..n]
  BY <1>1, Zenon DEF FoldLeft, MapThenFoldSet
<1>8. g \in [Decoder \X (1..n) -> Decoder] /\ d \in Decoder
  <2> HIDE DEF next
  <2> QED BY <1>2
<1>4. PICK w : Iterates(w, n, Decoder, d, g)
  <2> HIDE DEF g, n
  <2> QED BY <1>1, <1>8, FoldExists
<1>5. it = body(it)
  <2>1. ASSUME NEW t \in SUBSET (1..n)
        PROVE  w[t] = IF t = {} THEN d ELSE next(w[t \ {Max(t)}], Max(t))
    <3>1. t # {} => Max(t) \in 1..n
      BY <1>1, GreatestIn
    <3>2. w[t \ {Max(t)}] \in Decoder
      BY <1>4 DEF Iterates
    <3>3. t # {} => w[t] = g[<<w[t \ {Max(t)}], Max(t)>>]
      BY <1>4 DEF Iterates
    <3> HIDE DEF next
    <3> QED BY <1>4, <3>1, <3>2, <3>3 DEF Iterates
  <2> HIDE DEF next
  <2>2. w = [t \in SUBSET (1..n) |-> w[t]]
    BY <1>4, Zenon DEF Iterates
  <2>3. w = body(w)
    BY <2>1, <2>2, Zenon
  <2> HIDE DEF body
  <2> QED BY <2>3, Zenon
<1>6. it[{}] = d
  <2> HIDE DEF it, next
  <2> QED BY <1>5
<1>7. ASSUME NEW t \in SUBSET (1..n), t # {}, it[t \ {Max(t)}] \in Decoder
      PROVE  it[t] = g[<<it[t \ {Max(t)}], Max(t)>>]
  <2>1. Max(t) \in 1..n
    BY <1>1, <1>7, GreatestIn
  <2>2. it[t] = next(it[t \ {Max(t)}], Max(t))
    <3> HIDE DEF it, next
    <3> QED BY <1>5, <1>7, Zenon
  <2> HIDE DEF it, next
  <2> QED BY <2>1, <2>2, <1>7
<1>9. PICK f : Steps(f, n, Decoder, d, g, it[1..n])
  <2> HIDE DEF g, n, it
  <2>1. WouldIterate(it, n, Decoder, d, g)
    BY <1>6, <1>7, Zenon DEF WouldIterate
  <2> QED BY <1>1, <1>8, <2>1, FoldTrace
<1>10. \A k \in 1..n : f[k] = next(f[k - 1], k)
  <2>1. \A k \in 1..n : f[k - 1] \in Decoder
    BY <1>9 DEF Steps
  <2>2. \A k \in 1..n : f[k] = g[<<f[k - 1], k>>]
    BY <1>9 DEF Steps
  <2> HIDE DEF next, it
  <2> QED BY <2>1, <2>2
<1>11. PutAll(f, d, s)
  <2> HIDE DEF it, g
  <2> QED BY <1>9, <1>10 DEF Steps, PutAll
<1>12. f[n] = FoldLeft(ChunkPut, d, s)
  BY <1>3, <1>9, Zenon DEF Steps
<1> HIDE DEF it, g, next, body
<1> QED BY <1>11, <1>12

(* The only one. *)
LEMMA PutAllFold ==
  ASSUME NEW s \in Seq(Nat), NEW d \in Decoder, NEW f, PutAll(f, d, s)
  PROVE  f[Len(s)] = FoldLeft(ChunkPut, d, s)
<1>1. PICK h : PutAll(h, d, s) /\ h[Len(s)] = FoldLeft(ChunkPut, d, s)
  BY ChunkFold, Zenon
<1>2. Len(s) \in Nat /\ f[0] = h[0]
  BY <1>1 DEF PutAll
<1>3. \A k \in 1..Len(s) : f[k - 1] = h[k - 1] => f[k] = h[k]
  BY <1>1, Zenon DEF PutAll
<1>4. StepsAgree(f, h, Len(s))
  BY <1>2, <1>3 DEF StepsAgree
<1> QED BY <1>1, <1>2, <1>4, FoldsAgree

(* An octet between decoders that is no data. *)
Silent(d, o, e) == ChunkPartial(d) /\ e = ChunkPut(d, o) /\ e.body = d.body

SilentAll(f, s) == \A k \in 1..Len(s) : Silent(f[k - 1], s[k], f[k])

(* The octets of s lead from d to e, and d is not at its end before that. *)
Reads(d, s, e) ==
  \E f \in [0..Len(s) -> Decoder] : f[0] = d /\ f[Len(s)] = e /\ SilentAll(f, s)

LEMMA ReadsNothing == ASSUME NEW d \in Decoder PROVE Reads(d, << >>, d)
<1> DEFINE f == [k \in 0..0 |-> d]
<1>1. Len(<< >>) = 0 /\ 1..0 = {}
  OBVIOUS
<1>2. f \in [0..0 -> Decoder] /\ f[0] = d
  OBVIOUS
<1>3. SilentAll(f, << >>)
  BY <1>1 DEF SilentAll
<1> HIDE DEF f
<1> QED BY <1>1, <1>2, <1>3 DEF Reads

LEMMA ReadsOne ==
  ASSUME NEW d \in Decoder, NEW s \in Seq(Nat), NEW m \in Decoder, Reads(d, s, m),
         NEW o \in Nat, NEW e \in Decoder, Silent(m, o, e)
  PROVE  Reads(d, Append(s, o), e)
<1>1. PICK f \in [0..Len(s) -> Decoder] : f[0] = d /\ f[Len(s)] = m /\ SilentAll(f, s)
  BY Zenon DEF Reads
<1>2. PICK n : n = Len(s)
  OBVIOUS
<1> DEFINE h == [k \in 0..n + 1 |-> IF k = n + 1 THEN e ELSE f[k]]
<1>3. n \in Nat /\ Len(Append(s, o)) = n + 1 /\ Append(s, o)[n + 1] = o
  BY <1>2
<1>4. \A k \in 1..n : Append(s, o)[k] = s[k]
  BY <1>2
<1>5. h \in [0..n + 1 -> Decoder] /\ h[0] = d /\ h[n + 1] = e
  BY <1>1, <1>2, <1>3, SMTT(30)
<1>6. \A k \in 0..n : h[k] = f[k]
  BY <1>3
<1> HIDE DEF h
<1>7. ASSUME NEW k \in 1..n + 1 PROVE Silent(h[k - 1], Append(s, o)[k], h[k])
  <2>1. CASE k = n + 1
    <3>1. h[k - 1] = m
      BY <2>1, <1>1, <1>2, <1>3, <1>6
    <3> QED BY <2>1, <3>1, <1>3, <1>5
  <2>2. CASE k # n + 1
    <3>1. k \in 1..n /\ k - 1 \in 0..n /\ k \in 0..n
      BY <2>2, <1>3
    <3>2. Silent(f[k - 1], s[k], f[k])
      BY <1>1, <1>2, <3>1 DEF SilentAll
    <3> QED BY <3>1, <3>2, <1>4, <1>6
  <2> QED BY <2>1, <2>2
<1>8. SilentAll(h, Append(s, o))
  BY <1>3, <1>7, Zenon DEF SilentAll
<1> QED BY <1>3, <1>5, <1>8, Zenon DEF Reads

LEMMA ReadsKeepBody ==
  ASSUME NEW d \in Decoder, NEW s \in Seq(Nat), NEW e \in Decoder, Reads(d, s, e)
  PROVE  e.body = d.body
<1>1. PICK f \in [0..Len(s) -> Decoder] : f[0] = d /\ f[Len(s)] = e /\ SilentAll(f, s)
  BY Zenon DEF Reads
<1>2. PICK n \in Nat : n = Len(s)
  OBVIOUS
<1> DEFINE b == [k \in 0..n |-> f[k].body]
           c == [k \in 0..n |-> d.body]
<1>3. b[0] = c[0]
  BY <1>1, <1>2
<1>4. ASSUME NEW k \in 1..n, b[k - 1] = c[k - 1] PROVE b[k] = c[k]
  <2>1. k - 1 \in 0..n /\ k \in 0..n
    OBVIOUS
  <2>2. f[k].body = f[k - 1].body
    BY <1>1, <1>2 DEF SilentAll, Silent
  <2> QED BY <2>1, <2>2, <1>4
<1>5. n \in 0..n
  OBVIOUS
<1>6. b[n] = c[n]
  <2> HIDE DEF b, c
  <2>1. StepsAgree(b, c, n)
    BY <1>3, <1>4 DEF StepsAgree
  <2> QED BY <2>1, FoldsAgree
<1> QED BY <1>1, <1>2, <1>5, <1>6

(* What was written, and what is left. *)
LEMMA ReadsPart ==
  ASSUME NEW d \in Decoder, NEW s \in Seq(Nat), NEW e \in Decoder, Reads(d, s, e), NEW n \in 0..Len(s)
  PROVE  \E m \in Decoder :
           /\ Reads(d, SubSeq(s, 1, n), m) /\ Reads(m, SubSeq(s, n + 1, Len(s)), e)
           /\ m = FoldLeft(ChunkPut, d, SubSeq(s, 1, n))
           /\ n < Len(s) => ChunkPartial(m)
<1>1. PICK f \in [0..Len(s) -> Decoder] : f[0] = d /\ f[Len(s)] = e /\ SilentAll(f, s)
  BY Zenon DEF Reads
<1>2. PICK z \in Nat : z = Len(s)
  OBVIOUS
<1>3. PICK p : p = SubSeq(s, 1, n)
  OBVIOUS
<1>4. PICK q : q = SubSeq(s, n + 1, Len(s))
  OBVIOUS
<1>5. p \in Seq(Nat) /\ Len(p) = n /\ \A k \in 1..n : p[k] = s[k]
  BY <1>3
<1>6. q \in Seq(Nat) /\ Len(q) = z - n /\ \A k \in 1..z - n : q[k] = s[n + k]
  BY <1>2, <1>4
<1> DEFINE g == [k \in 0..n |-> f[k]]
           h == [k \in 0..z - n |-> f[n + k]]
<1>7. g \in [0..n -> Decoder] /\ g[0] = d /\ g[n] = f[n]
  BY <1>1, <1>2
<1>8. \A k \in 0..z - n : n + k \in 0..z
  BY <1>2
<1>9. h \in [0..z - n -> Decoder]
  BY <1>1, <1>2, <1>8
<1>10. h[0] = f[n] /\ h[z - n] = e
  BY <1>1, <1>2
<1>11. \A k \in 1..n : Silent(g[k - 1], p[k], g[k])
  <2> SUFFICES ASSUME NEW k \in 1..n PROVE Silent(g[k - 1], p[k], g[k])
    OBVIOUS
  <2>1. k \in 1..z /\ k - 1 \in 0..n /\ k \in 0..n
    BY <1>2
  <2>2. Silent(f[k - 1], s[k], f[k])
    BY <1>1, <1>2, <2>1 DEF SilentAll
  <2> QED BY <2>1, <2>2, <1>5
<1>12. \A k \in 1..z - n : Silent(h[k - 1], q[k], h[k])
  <2> SUFFICES ASSUME NEW k \in 1..z - n PROVE Silent(h[k - 1], q[k], h[k])
    OBVIOUS
  <2>1. n + k \in 1..z /\ k - 1 \in 0..z - n /\ k \in 0..z - n /\ n + (k - 1) = (n + k) - 1
    BY <1>2
  <2>2. Silent(f[(n + k) - 1], s[n + k], f[n + k])
    BY <1>1, <1>2, <2>1 DEF SilentAll
  <2> QED BY <2>1, <2>2, <1>6
<1> HIDE DEF g, h
<1>13. PICK m \in Decoder : m = f[n]
  BY <1>1, <1>2
<1>14. Reads(d, p, m)
  BY <1>5, <1>7, <1>11, <1>13, Zenon DEF Reads, SilentAll
<1>15. Reads(m, q, e)
  BY <1>6, <1>9, <1>10, <1>12, <1>13, Zenon DEF Reads, SilentAll
<1>16. PutAll(g, d, p)
  BY <1>5, <1>7, <1>11 DEF PutAll, Silent
<1>17. m = FoldLeft(ChunkPut, d, p)
  BY <1>5, <1>7, <1>13, <1>16, PutAllFold
<1>18. ASSUME n < Len(s) PROVE ChunkPartial(m)
  <2>1. n + 1 \in 1..Len(s) /\ (n + 1) - 1 = n
    BY <1>18
  <2> QED BY <1>1, <1>13, <2>1 DEF SilentAll, Silent
<1> QED BY <1>3, <1>4, <1>14, <1>15, <1>17, <1>18

Stands(d, s, size) == d \in Decoder /\ d.next_state = s /\ d.chunk_size = size

LEMMA ChunkStands ==
  ASSUME NEW d \in Decoder, NEW s \in 0..28, NEW z \in Int, NEW e \in Decoder, e = ChunkAt(d, s, z)
  PROVE  Stands(e, s, z) /\ e.body = d.body
<1>1. d \in ChunkRecords
  BY DEF Decoder
<1>2. e.next_state = s
  BY <1>1, Zenon DEF ChunkAt, ChunkRecords
<1> QED BY <1>1, <1>2, ChunkAtFields DEF Stands

LEMMA PutDecoder ==
  ASSUME NEW d \in Decoder, NEW o \in Nat PROVE ChunkPut(d, o) \in Decoder
<1>1. ChunkKept(ChunkPut(d, o))
  BY ChunkPutKeeps DEF Decoder
<1> QED BY <1>1 DEF ChunkKept, Decoder

LEMMA DecoderSizes ==
  ASSUME NEW d \in Decoder PROVE d.chunk_size \in Int /\ SizeSoFar(d) \in Int
BY DEF Decoder, ChunkRecords, SizeSoFar, SizeLeft

(* An octet that is no digit of a size and no data. *)
LEMMA ReadSign ==
  ASSUME NEW d \in Decoder, ChunkPartial(d), NEW o \in Nat, ~IsData(d, o), NEW s,
         s = ChunkShift(d.next_state, o), s \notin {0, 3}
  PROVE  \E e : Silent(d, o, e) /\ Stands(e, s, SizeSoFar(d))
<1> DEFINE e == ChunkPut(d, o)
<1>1. e = ChunkAt(d, s, SizeSoFar(d))
  BY DEF ChunkPut, NextState
<1>2. e \in Decoder
  BY PutDecoder
<1>3. s \in 0..28
  BY ChunkStates
<1>4. Stands(e, s, SizeSoFar(d)) /\ e.body = d.body
  <2> HIDE DEF e
  <2> QED BY <1>1, <1>2, <1>3, DecoderSizes, ChunkStands
<1> QED BY <1>4 DEF Silent

(* A digit, of a size that is not too large without it. *)
LEMMA ReadDigit ==
  ASSUME NEW d \in Decoder, NEW o \in Hex, NEW size, size = SizeSoFar(d), size < ChunkSizeLimit,
         \/ d.next_state = 1 /\ o # 48
         \/ d.next_state = 3
  PROVE  \E e : Silent(d, o, e) /\ Stands(e, 3, 16 * size + HexValue(o))
<1> DEFINE e == ChunkPut(d, o)
<1>0. o \in Nat /\ HexValue(o) \in Int
  BY HexValues DEF Hex, Digit
<1>1. ChunkShift(d.next_state, o) = 3
  BY DEF ChunkShift
<1>2. ~IsData(d, o) /\ ChunkPartial(d)
  BY DEF IsData, ChunkPartial
<1>3. e = ChunkAt(d, 3, 16 * size + HexValue(o))
  BY <1>1, <1>2 DEF ChunkPut, NextState, ChunkDigit, WithinLimit
<1>4. e \in Decoder
  BY <1>0, PutDecoder
<1>5. 16 * size + HexValue(o) \in Int
  BY <1>0, DecoderSizes
<1>6. Stands(e, 3, 16 * size + HexValue(o)) /\ e.body = d.body
  <2> HIDE DEF e
  <2> QED BY <1>3, <1>4, <1>5, ChunkStands
<1> QED BY <1>2, <1>6 DEF Silent

(* The table of ToXdigits, row by row. *)
XdigitRow(g, k) == IF k = 0 THEN << >> ELSE Append(g[k \div 16], Xdigit(k % 16))

XdigitTable(g, n) == g = [k \in 0..n |-> XdigitRow(g, k)]

LEMMA Sixteenth == ASSUME NEW k \in Nat, k # 0 PROVE k \div 16 \in 0..k - 1 /\ k % 16 \in 0..15 /\ k = 16 * (k \div 16) + (k % 16)
OBVIOUS

LEMMA XdigitsExist == ASSUME NEW n \in Nat PROVE \E g : XdigitTable(g, n)
<1> DEFINE N == {k \in Nat : \E g : XdigitTable(g, k)}
<1>1. 0 \in N
  <2> DEFINE g == [k \in 0..0 |-> << >>]
  <2>1. \A k \in 0..0 : XdigitRow(g, k) = << >>
    BY DEF XdigitRow
  <2>2. XdigitTable(g, 0)
    <3> HIDE DEF g
    <3>1. g = [k \in 0..0 |-> << >>]
      BY DEF g
    <3> QED BY <2>1, <3>1, Zenon DEF XdigitTable
  <2> QED BY <2>2
<1>2. ASSUME NEW k \in Nat, k \in N PROVE k + 1 \in N
  <2>1. PICK g : XdigitTable(g, k)
    BY <1>2
  <2> DEFINE h == [j \in 0..k + 1 |-> XdigitRow(g, j)]
  <2>2. ASSUME NEW j \in 0..k + 1 PROVE XdigitRow(h, j) = XdigitRow(g, j)
    <3>1. CASE j = 0
      BY <3>1 DEF XdigitRow
    <3>2. CASE j # 0
      <4>1. j \div 16 \in 0..k /\ j \div 16 \in 0..k + 1
        BY <3>2, Sixteenth
      <4>2. g[j \div 16] = XdigitRow(g, j \div 16)
        BY <2>1, <4>1, Zenon DEF XdigitTable
      <4>3. h[j \div 16] = XdigitRow(g, j \div 16)
        BY <4>1, Zenon
      <4> HIDE DEF h
      <4> QED BY <4>2, <4>3, Zenon DEF XdigitRow
    <3> QED BY <3>1, <3>2
  <2>3. h = [j \in 0..k + 1 |-> XdigitRow(h, j)]
    <3> HIDE DEF h
    <3>1. h = [j \in 0..k + 1 |-> XdigitRow(g, j)]
      BY DEF h
    <3> QED BY <2>2, <3>1, Zenon
  <2> HIDE DEF h
  <2>4. XdigitTable(h, k + 1)
    BY <2>3, Zenon DEF XdigitTable
  <2> QED BY <2>4
<1>3. Nat \subseteq N
  <2> HIDE DEF N
  <2> QED BY <1>1, <1>2, AllNumbers
<1> QED BY <1>3

LEMMA XdigitsAre ==
  ASSUME NEW n \in Nat, n # 0 PROVE \E g : XdigitTable(g, n) /\ ToXdigits(n) = g[n]
<1> DEFINE g == CHOOSE w : w = [k \in 0..n |-> IF k = 0 THEN << >>
                                              ELSE Append(w[k \div 16], Xdigit(k % 16))]
<1>1. ToXdigits(n) = g[n]
  BY Zenon DEF ToXdigits
<1>2. PICK h : h = [k \in 0..n |-> IF k = 0 THEN << >> ELSE Append(h[k \div 16], Xdigit(k % 16))]
  BY XdigitsExist, Zenon DEF XdigitTable, XdigitRow
<1>3. g = [k \in 0..n |-> IF k = 0 THEN << >> ELSE Append(g[k \div 16], Xdigit(k % 16))]
  BY <1>2, Zenon
<1> HIDE DEF g
<1>4. XdigitTable(g, n)
  BY <1>3, Zenon DEF XdigitTable, XdigitRow
<1> QED BY <1>1, <1>4

LEMMA XdigitValue ==
  ASSUME NEW x \in 0..15
  PROVE  Xdigit(x) \in Hex /\ Xdigit(x) \in Octet /\ HexValue(Xdigit(x)) = x /\ (x # 0 => Xdigit(x) # 48)
BY DEF Xdigit, HexValue, Hex, Digit, Octet

ReadsSize(d, s, k) == s \in Seq(Octet) /\ \E e : Reads(d, s, e) /\ Stands(e, 3, k)

(* The digits of a size lead a decoder at the beginning of a chunk to     *)
(* that size: by induction over the size.                                 *)
LEMMA SizeRead ==
  ASSUME NEW d \in Decoder, d.next_state = 1, NEW n \in Nat, n # 0, n \div 16 < ChunkSizeLimit
  PROVE  ReadsSize(d, ToXdigits(n), n)
<1>1. PICK g : XdigitTable(g, n) /\ ToXdigits(n) = g[n]
  BY XdigitsAre, Zenon
<1> DEFINE T == {k \in 1..n : ~ReadsSize(d, g[k], k)}
<1> SUFFICES ASSUME T # {} PROVE FALSE
  <2>1. n \notin T
    OBVIOUS
  <2> QED BY <1>1, <2>1
<1>2. PICK k \in T : \A j \in T : k <= j
  <2>1. T \subseteq Nat
    OBVIOUS
  <2> HIDE DEF T
  <2> QED BY <2>1, LeastNumber, Zenon
<1>3. k \in 1..n /\ k \in Nat /\ k # 0
  OBVIOUS
<1>4. PICK q \in 0..k - 1, r \in 0..15 : q = k \div 16 /\ r = k % 16 /\ k = 16 * q + r
  BY <1>3, Sixteenth
<1>5. q < ChunkSizeLimit
  BY <1>3, <1>4, ChunkAssumption
<1>6. /\ Xdigit(r) \in Hex /\ Xdigit(r) \in Octet /\ Xdigit(r) \in Nat
      /\ HexValue(Xdigit(r)) = r /\ (r # 0 => Xdigit(r) # 48)
  <2>1. /\ Xdigit(r) \in Hex /\ Xdigit(r) \in Octet
        /\ HexValue(Xdigit(r)) = r /\ (r # 0 => Xdigit(r) # 48)
    BY XdigitValue
  <2>2. \A x \in Octet : x \in Nat
    BY DEF Octet
  <2> QED BY <2>1, <2>2
<1>7. g[k] = Append(g[q], Xdigit(r))
  <2>1. g[k] = XdigitRow(g, k)
    <3>1. k \in 0..n
      BY <1>3
    <3> QED BY <1>1, <3>1, Zenon DEF XdigitTable
  <2> QED BY <1>3, <1>4, <2>1, Zenon DEF XdigitRow
<1>8. ASSUME NEW m \in Decoder, NEW s \in Seq(Octet), Reads(d, s, m), s = g[q], SizeSoFar(m) = q,
             \/ m.next_state = 1 /\ r # 0
             \/ m.next_state = 3
      PROVE  FALSE
  <2>1. PICK e : Silent(m, Xdigit(r), e) /\ Stands(e, 3, 16 * q + r)
    BY <1>5, <1>6, <1>8, ReadDigit
  <2>2. Append(s, Xdigit(r)) \in Seq(Octet) /\ s \in Seq(Nat)
    <3>1. \A x \in Octet : x \in Nat
      BY DEF Octet
    <3>2. s \in Seq(Nat)
      BY <3>1
    <3> QED BY <1>6, <3>2
  <2>3. Reads(d, Append(s, Xdigit(r)), e)
    BY <1>6, <1>8, <2>1, <2>2, ReadsOne DEF Stands
  <2>4. ReadsSize(d, g[k], k)
    BY <1>4, <1>7, <1>8, <2>1, <2>2, <2>3, Zenon DEF ReadsSize
  <2> QED BY <2>4
<1>9. CASE q = 0
  <2>1. g[0] = << >>
    BY <1>1 DEF XdigitTable, XdigitRow
  <2>2. SizeSoFar(d) = 0
    BY DEF SizeSoFar
  <2>3. Reads(d, << >>, d) /\ << >> \in Seq(Octet)
    BY ReadsNothing
  <2>4. r # 0
    BY <1>3, <1>4, <1>9
  <2> QED BY <1>8, <1>9, <2>1, <2>2, <2>3, <2>4
<1>10. CASE q # 0
  <2>1. q \in 1..n /\ q < k
    BY <1>3, <1>4, <1>10
  <2>2. ReadsSize(d, g[q], q)
    <3>1. q \notin T
      <4> HIDE DEF T
      <4> QED BY <1>2, <1>3, <1>4, <2>1
    <3> QED BY <2>1, <3>1
  <2>3. g[q] \in Seq(Octet)
    BY <2>2 DEF ReadsSize
  <2>4. PICK m : Reads(d, g[q], m) /\ Stands(m, 3, q)
    BY <2>2, Zenon DEF ReadsSize
  <2>5. m \in Decoder /\ m.next_state = 3 /\ SizeSoFar(m) = q
    BY <2>4 DEF Stands, SizeSoFar, SizeLeft
  <2> QED BY <1>8, <2>3, <2>4, <2>5
<1> QED BY <1>9, <1>10

(* The octets of s lead a decoder to state t, with z of the chunk left. *)
Leads(d, s, t, z) == \E e : Reads(d, s, e) /\ Stands(e, t, z)

LEMMA OctetsAreNumbers == ASSUME NEW s \in Seq(Octet) PROVE s \in Seq(Nat)
<1>1. \A x \in Octet : x \in Nat
  BY DEF Octet
<1> QED BY <1>1

LEMMA ReadSignAfter ==
  ASSUME NEW d \in Decoder, NEW s \in Seq(Octet), NEW t \in 1..27, NEW z, Leads(d, s, t, z), t # 1,
         NEW o \in {CR, LF}, t # 12, NEW u, u = ChunkShift(t, o), u \notin {0, 3}
  PROVE  Leads(d, Append(s, o), u, z)
<1>1. PICK m : Reads(d, s, m) /\ Stands(m, t, z)
  BY Zenon DEF Leads
<1>2. m \in Decoder /\ m.next_state = t /\ m.chunk_size = z
  BY <1>1, Zenon DEF Stands
<1>3. SizeSoFar(m) = z /\ ~IsData(m, o) /\ ChunkPartial(m) /\ o \in Nat
  BY <1>2 DEF SizeSoFar, SizeLeft, IsData, ChunkPartial, CR, LF
<1>4. PICK e : Silent(m, o, e) /\ Stands(e, u, z)
  BY <1>2, <1>3, ReadSign
<1>5. Reads(d, Append(s, o), e)
  BY <1>1, <1>2, <1>3, <1>4, OctetsAreNumbers, ReadsOne DEF Stands
<1> QED BY <1>4, <1>5, Zenon DEF Leads

LEMMA ExtensionEnds == ExtensionShift(3, CR) = 11 /\ ExtensionShift(11, LF) = 12
<1>1. ExtensionShift(3, CR) = 11
  BY DEF ExtensionShift, CR, SEMI
<1>2. ExtensionShift(11, LF) = 12
  BY DEF ExtensionShift, LF
<1> QED BY <1>1, <1>2

(* The states that the two octets of a line end lead through. *)
LEMMA LineEndShifts ==
  /\ ChunkShift(3, CR) = 11 /\ ChunkShift(11, LF) = 12
  /\ ChunkShift(2, CR) = 21 /\ ChunkShift(21, LF) = 22
  /\ ChunkShift(12, CR) = 13 /\ ChunkShift(13, LF) = 1
  /\ ChunkShift(22, CR) = 27 /\ ChunkShift(27, LF) = 28
<1>0. CR \notin Hex /\ LF \notin Hex /\ CR # LF /\ CR # 48
  BY DEF CR, LF, Hex, Digit
<1>1. ChunkShift(3, CR) = 11 /\ ChunkShift(11, LF) = 12
  BY <1>0, ExtensionEnds DEF ChunkShift
<1>2. LastShift(2, CR) = 21 /\ LastShift(21, LF) = 22
  BY ExtensionEnds DEF LastShift
<1>3. ChunkShift(2, CR) = 21 /\ ChunkShift(21, LF) = 22
  BY <1>0, <1>2 DEF ChunkShift
<1>4. ChunkShift(12, CR) = 13 /\ ChunkShift(13, LF) = 1
  BY <1>0 DEF ChunkShift
<1>5. TrailerShift(22, CR) = 27 /\ TrailerShift(27, LF) = 28
  BY <1>0 DEF TrailerShift, Tchar, Alnum, Digit, Upper, Lower, STAR, DASH, DOT, USCORE, CR, LF
<1>6. ChunkShift(22, CR) = 27 /\ ChunkShift(27, LF) = 28
  BY <1>0, <1>5 DEF ChunkShift
<1> QED BY <1>1, <1>3, <1>4, <1>6

LEMMA WithLineEnd ==
  ASSUME NEW s \in Seq(Octet)
  PROVE  /\ Append(s, CR) \in Seq(Octet) /\ Append(Append(s, CR), LF) = s \o Crlf
         /\ s \o Crlf \in Seq(Octet) /\ Len(s \o Crlf) # 0
<1>1. CR \in Octet /\ LF \in Octet
  BY DEF CR, LF, Octet
<1> HIDE DEF CR, LF, Octet
<1> QED BY <1>1 DEF Crlf

LEMMA CrlfAlone == /\ << >> \in Seq(Octet) /\ << >> \o Crlf = Crlf
                   /\ Crlf \in Seq(Octet) /\ Len(Crlf) # 0
<1>1. CR \in Octet /\ LF \in Octet
  BY DEF CR, LF, Octet
<1> HIDE DEF CR, LF, Octet
<1> QED BY <1>1 DEF Crlf

LEMMA LineEndRead ==
  ASSUME NEW d \in Decoder, NEW s \in Seq(Octet), NEW t \in {2, 3, 22}, NEW z, Leads(d, s, t, z),
         NEW u \in {11, 21, 27}, ChunkShift(t, CR) = u, NEW v, ChunkShift(u, LF) = v, v \notin {0, 3}
  PROVE  Leads(d, s \o Crlf, v, z)
<1>1. PICK p \in Seq(Octet) : p = Append(s, CR)
  BY WithLineEnd
<1>2. CR \in {CR, LF} /\ LF \in {CR, LF} /\ t \in 1..27 /\ u \in 1..27
  OBVIOUS
<1>3. t # 1 /\ t # 12 /\ u # 1 /\ u # 12 /\ u \notin {0, 3}
  OBVIOUS
<1>4. Leads(d, p, u, z)
  BY <1>1, <1>2, <1>3, ReadSignAfter, Zenon
<1>5. Leads(d, Append(p, LF), v, z)
  BY <1>2, <1>3, <1>4, ReadSignAfter, Zenon
<1> QED BY <1>1, <1>5, WithLineEnd

(* The line of a size, and the line of the last chunk. *)
LEMMA SizeLineRead ==
  ASSUME NEW d \in Decoder, d.next_state = 1, NEW n \in Nat, n # 0, n \div 16 < ChunkSizeLimit
  PROVE  Leads(d, ToXdigits(n) \o Crlf, 12, n) /\ ToXdigits(n) \in Seq(Octet)
<1>1. PICK s \in Seq(Octet) : s = ToXdigits(n) /\ Leads(d, s, 3, n)
  BY SizeRead, Zenon DEF ReadsSize, Leads
<1>2. Leads(d, s \o Crlf, 12, n)
  BY <1>1, LineEndShifts, LineEndRead
<1> QED BY <1>1, <1>2

LEMMA ZeroLineRead ==
  ASSUME NEW d \in Decoder, d.next_state = 1
  PROVE  Leads(d, ToXdigits(0) \o Crlf, 22, 0) /\ ToXdigits(0) \in Seq(Octet)
<1>1. PICK s \in Seq(Octet) : s = ToXdigits(0) /\ s = Append(<< >>, 48)
  <2>1. <<48>> = Append(<< >>, 48) /\ <<48>> \in Seq(Octet)
    BY DEF Octet
  <2> QED BY <2>1 DEF ToXdigits
<1>2. Leads(d, s, 2, 0)
  <2>1. ChunkShift(d.next_state, 48) = 2
    BY DEF ChunkShift
  <2>2. SizeSoFar(d) = 0 /\ ~IsData(d, 48) /\ ChunkPartial(d)
    BY DEF SizeSoFar, IsData, ChunkPartial
  <2>3. PICK e : Silent(d, 48, e) /\ Stands(e, 2, 0)
    BY <2>1, <2>2, ReadSign
  <2>4. Reads(d, s, e)
    <3>1. e \in Decoder /\ << >> \in Seq(Nat) /\ 48 \in Nat
      BY <2>3 DEF Stands
    <3> QED BY <1>1, <2>3, <3>1, ReadsNothing, ReadsOne, Zenon
  <2> QED BY <2>3, <2>4, Zenon DEF Leads
<1>3. Leads(d, s \o Crlf, 22, 0)
  BY <1>2, LineEndShifts, LineEndRead
<1> QED BY <1>1, <1>3

(* The end of the last chunk, and that of the data of another. *)
LEMMA EndRead == ASSUME NEW d, NEW z, Stands(d, 22, z) PROVE Leads(d, Crlf, 28, z)
<1>1. d \in Decoder /\ Leads(d, << >>, 22, z)
  BY ReadsNothing DEF Leads, Stands
<1>2. Leads(d, << >> \o Crlf, 28, z)
  <2>1. 22 \in {2, 3, 22} /\ 27 \in {11, 21, 27} /\ 28 \notin {0, 3}
    OBVIOUS
  <2> QED BY <1>1, <2>1, CrlfAlone, LineEndShifts, LineEndRead, Zenon
<1> QED BY <1>2, CrlfAlone

LEMMA DataEndRead == ASSUME NEW d, Stands(d, 12, 0) PROVE Leads(d, Crlf, 1, -1)
<1>1. d \in Decoder /\ d.next_state = 12 /\ d.chunk_size = 0
  BY DEF Stands
<1>2. CR \in Nat /\ CR \notin Delimiter
  BY DEF CR, Delimiter, COMMA, SLASH
<1>3. SizeSoFar(d) = -1 /\ ~IsData(d, CR) /\ ChunkPartial(d)
  BY <1>1, <1>2 DEF SizeSoFar, SizeLeft, IsData, ChunkPartial
<1>4. PICK e : Silent(d, CR, e) /\ Stands(e, 13, -1)
  BY <1>1, <1>2, <1>3, LineEndShifts, ReadSign
<1>5. PICK p \in Seq(Octet) : p = Append(<< >>, CR)
  BY CrlfAlone, WithLineEnd
<1>6. Reads(d, p, e)
  <2>1. e \in Decoder /\ << >> \in Seq(Nat)
    BY <1>4 DEF Stands
  <2> QED BY <1>1, <1>2, <1>4, <1>5, <2>1, ReadsNothing, ReadsOne, Zenon
<1>7. Leads(d, p, 13, -1)
  BY <1>4, <1>6, Zenon DEF Leads
<1>8. Leads(d, Append(p, LF), 1, -1)
  <2>1. 13 \in 1..27 /\ 13 # 1 /\ 13 # 12 /\ LF \in {CR, LF} /\ 1 \notin {0, 3}
    OBVIOUS
  <2> QED BY <1>1, <1>7, <2>1, LineEndShifts, ReadSignAfter, Zenon
<1> QED BY <1>5, <1>8, CrlfAlone, WithLineEnd

(* d with the first k octets of s for data. *)
DataAfter(d, s, k) ==
  [next_state |-> 12, chunk_size |-> d.chunk_size - k, content_length |-> d.content_length + k,
   body |-> d.body \o SubSeq(s, 1, k)]

LEMMA SameFields ==
  ASSUME NEW a \in ChunkRecords, NEW b \in ChunkRecords,
         a.next_state = b.next_state, a.chunk_size = b.chunk_size,
         a.content_length = b.content_length, a.body = b.body
  PROVE  a = b
<1>1. a = [next_state |-> a.next_state, chunk_size |-> a.chunk_size,
           content_length |-> a.content_length, body |-> a.body]
  BY Zenon DEF ChunkRecords
<1>2. b = [next_state |-> b.next_state, chunk_size |-> b.chunk_size,
           content_length |-> b.content_length, body |-> b.body]
  BY Zenon DEF ChunkRecords
<1> QED BY <1>1, <1>2, Zenon

LEMMA DataFields ==
  ASSUME NEW d \in ChunkRecords, NEW s \in Seq(Nat), NEW k \in Nat
  PROVE  /\ DataAfter(d, s, k).next_state = 12 /\ DataAfter(d, s, k).chunk_size = d.chunk_size - k
         /\ DataAfter(d, s, k).content_length = d.content_length + k
         /\ DataAfter(d, s, k).body = d.body \o SubSeq(s, 1, k)
         /\ k <= Len(s) => DataAfter(d, s, k) \in ChunkRecords
<1>1. /\ 12 \in 0..28 /\ d.chunk_size - k \in Int /\ d.content_length + k \in Nat
      /\ k <= Len(s) => d.body \o SubSeq(s, 1, k) \in Seq(Nat)
  BY DEF ChunkRecords
<1>2. k <= Len(s) => DataAfter(d, s, k) \in ChunkRecords
  BY <1>1, Zenon DEF DataAfter, ChunkRecords
<1>3. /\ DataAfter(d, s, k).next_state = 12 /\ DataAfter(d, s, k).chunk_size = d.chunk_size - k
      /\ DataAfter(d, s, k).content_length = d.content_length + k
      /\ DataAfter(d, s, k).body = d.body \o SubSeq(s, 1, k)
  BY Zenon DEF DataAfter
<1> QED BY <1>2, <1>3, Zenon

LEMMA DataCat ==
  ASSUME NEW a \in Seq(Nat), NEW b \in Seq(Nat), NEW o \in Nat
  PROVE  Append(a \o b, o) = a \o Append(b, o)
<1>1. a \o b \in Seq(Nat) /\ <<o>> \in Seq(Nat)
  OBVIOUS
<1>2. Append(a \o b, o) = (a \o b) \o <<o>> /\ Append(b, o) = b \o <<o>>
  BY <1>1, AppendIsConcat
<1>3. (a \o b) \o <<o>> = a \o (b \o <<o>>)
  BY <1>1, ConcatAssociative
<1> QED BY <1>2, <1>3

LEMMA DataStep ==
  ASSUME NEW d \in Decoder, d.next_state = 12, NEW s \in Seq(Octet), Len(s) <= d.chunk_size,
         NEW k \in 1..Len(s)
  PROVE  ChunkPut(DataAfter(d, s, k - 1), s[k]) = DataAfter(d, s, k)
<1>1. /\ d \in ChunkRecords /\ d.chunk_size \in Int /\ d.content_length \in Nat /\ d.body \in Seq(Nat)
      /\ s \in Seq(Nat) /\ s[k] \in Nat /\ Len(s) \in Nat
  BY OctetsAreNumbers DEF Decoder, ChunkRecords
<1>2. Append(d.body \o SubSeq(s, 1, k - 1), s[k]) = d.body \o SubSeq(s, 1, k)
  <2>1. PICK p : p = SubSeq(s, 1, k - 1)
    OBVIOUS
  <2>2. p \in Seq(Nat) /\ Len(p) = k - 1 /\ \A i \in 1..k - 1 : p[i] = s[i]
    BY <1>1, <2>1
  <2>3. PICK q : q = SubSeq(s, 1, k)
    OBVIOUS
  <2>4. q \in Seq(Nat) /\ Len(q) = k /\ \A i \in 1..k : q[i] = s[i]
    BY <1>1, <2>3
  <2>5. Append(p, s[k]) \in Seq(Nat) /\ Len(Append(p, s[k])) = k
        /\ \A i \in 1..k : Append(p, s[k])[i] = s[i]
    BY <1>1, <2>2
  <2>6. Append(p, s[k]) = q
    <3>1. Len(Append(p, s[k])) = Len(q) /\ \A i \in 1..Len(q) : Append(p, s[k])[i] = q[i]
      BY <2>4, <2>5
    <3> QED BY <2>4, <2>5, <3>1, SeqEqual
  <2>7. Append(d.body \o p, s[k]) = d.body \o Append(p, s[k])
    BY <1>1, <2>2, DataCat
  <2> QED BY <2>1, <2>3, <2>6, <2>7
<1>0. PICK a : a = DataAfter(d, s, k - 1)
  OBVIOUS
<1>3. /\ a.next_state = 12 /\ a.chunk_size = d.chunk_size - (k - 1)
      /\ a.content_length = d.content_length + (k - 1) /\ a.body = d.body \o SubSeq(s, 1, k - 1)
      /\ a \in ChunkRecords
  <2>1. k - 1 \in Nat /\ k - 1 <= Len(s)
    BY <1>1
  <2> QED BY <1>0, <1>1, <2>1, DataFields
<1>4. IsData(a, s[k]) /\ SizeLeft(a) = d.chunk_size - k /\ ChunkPartial(a)
  BY <1>1, <1>3 DEF IsData, SizeLeft, ChunkPartial
<1>5. ChunkPut(a, s[k]) = ChunkData(a, s[k], d.chunk_size - k)
  BY <1>4 DEF ChunkPut, NextState
<1>10. PICK b : b = ChunkData(a, s[k], d.chunk_size - k)
  OBVIOUS
<1>11. PICK c : c = DataAfter(d, s, k)
  OBVIOUS
<1>6. /\ b \in ChunkRecords /\ b.chunk_size = d.chunk_size - k
      /\ b.content_length = a.content_length + 1 /\ b.body = Append(a.body, s[k])
  <2>1. d.chunk_size - k \in Int
    BY <1>1
  <2> QED BY <1>1, <1>3, <1>10, <2>1, ChunkDataFields, ZenonT(30)
<1>7. b.next_state = 12
  BY <1>3, <1>10, Zenon DEF ChunkData, ChunkRecords
<1>8. /\ c.next_state = 12 /\ c.chunk_size = d.chunk_size - k
      /\ c.content_length = d.content_length + k /\ c.body = d.body \o SubSeq(s, 1, k)
      /\ c \in ChunkRecords
  <2>1. k \in Nat /\ k <= Len(s)
    BY <1>1
  <2> QED BY <1>1, <1>11, <2>1, DataFields
<1>9. b = c
  <2>1. b.content_length = c.content_length
    BY <1>1, <1>3, <1>6, <1>8
  <2>2. b.body = c.body /\ b.chunk_size = c.chunk_size /\ b.next_state = c.next_state
    BY <1>2, <1>3, <1>6, <1>7, <1>8
  <2> QED BY <1>6, <1>8, <2>1, <2>2, SameFields
<1> QED BY <1>0, <1>5, <1>9, <1>10, <1>11

(* As many octets as the size says, whatever they are, are data. *)
LEMMA DataRead ==
  ASSUME NEW d \in Decoder, d.next_state = 12, NEW s \in Seq(Octet), Len(s) <= d.chunk_size, NEW e,
         e = FoldLeft(ChunkPut, d, s)
  PROVE  Stands(e, 12, d.chunk_size - Len(s)) /\ e.body = d.body \o s
<1>1. PICK f : PutAll(f, d, s) /\ f[Len(s)] = e
  BY ChunkFold, OctetsAreNumbers
<1>2. PICK n \in Nat : n = Len(s)
  OBVIOUS
<1>0. PICK h : h = [k \in 0..n |-> DataAfter(d, s, k)]
  OBVIOUS
<1>3. d = DataAfter(d, s, 0)
  <2>1. d \in ChunkRecords /\ d.body \in Seq(Nat) /\ d.chunk_size \in Int /\ d.content_length \in Nat
    BY DEF Decoder, ChunkRecords
  <2>2. d.body \o SubSeq(s, 1, 0) = d.body /\ d.chunk_size - 0 = d.chunk_size
        /\ d.content_length + 0 = d.content_length
    BY <2>1
  <2>3. d = [next_state |-> d.next_state, chunk_size |-> d.chunk_size,
             content_length |-> d.content_length, body |-> d.body]
    BY <2>1, Zenon DEF ChunkRecords
  <2> QED BY <2>2, <2>3, Zenon DEF DataAfter
<1>4. f[0] = h[0]
  BY <1>0, <1>1, <1>3 DEF PutAll
<1>5. ASSUME NEW k \in 1..n, f[k - 1] = h[k - 1] PROVE f[k] = h[k]
  <2>1. k - 1 \in 0..n /\ k \in 0..n /\ k \in 1..Len(s)
    BY <1>2
  <2>2. f[k] = ChunkPut(f[k - 1], s[k])
    BY <1>1, <2>1 DEF PutAll
  <2>3. f[k - 1] = DataAfter(d, s, k - 1)
    BY <1>0, <1>5, <2>1
  <2> QED BY <1>0, <2>1, <2>2, <2>3, DataStep
<1>6. n \in 0..n
  OBVIOUS
<1>7. StepsAgree(f, h, n)
  BY <1>4, <1>5 DEF StepsAgree
<1>12. f[n] = h[n]
  BY <1>7, FoldsAgree
<1>8. e = DataAfter(d, s, n)
  BY <1>0, <1>1, <1>2, <1>6, <1>12
<1>9. e \in Decoder
  BY <1>1 DEF PutAll
<1>10. SubSeq(s, 1, n) = s
  BY <1>2
<1>11. /\ DataAfter(d, s, n).next_state = 12 /\ DataAfter(d, s, n).chunk_size = d.chunk_size - n
       /\ DataAfter(d, s, n).body = d.body \o SubSeq(s, 1, n)
  BY Zenon DEF DataAfter
<1> QED BY <1>2, <1>8, <1>9, <1>10, <1>11, Zenon DEF Stands

(* A part of what leads somewhere, and what is left of it. *)
LEMMA LeadsPart ==
  ASSUME NEW d \in Decoder, NEW s \in Seq(Octet), NEW t, NEW z, Leads(d, s, t, z), NEW n \in 1..Len(s),
         NEW m, m = FoldLeft(ChunkPut, d, SubSeq(s, 1, n))
  PROVE  /\ m \in Decoder /\ m.body = d.body
         /\ n < Len(s) => Leads(m, SubSeq(s, n + 1, Len(s)), t, z)
         /\ n = Len(s) => Stands(m, t, z)
<1>1. PICK e : Reads(d, s, e) /\ Stands(e, t, z)
  BY Zenon DEF Leads
<1>2. e \in Decoder /\ s \in Seq(Nat)
  BY <1>1, OctetsAreNumbers DEF Stands
<1>3. /\ m \in Decoder /\ Reads(d, SubSeq(s, 1, n), m) /\ Reads(m, SubSeq(s, n + 1, Len(s)), e)
  BY <1>1, <1>2, ReadsPart
<1>4. SubSeq(s, 1, n) \in Seq(Nat)
  BY <1>2
<1>5. m.body = d.body
  BY <1>3, <1>4, ReadsKeepBody
<1>6. ASSUME n = Len(s) PROVE m = e
  <2>1. SubSeq(s, n + 1, Len(s)) = << >> /\ Len(<< >>) = 0
    BY <1>6
  <2> QED BY <1>3, <2>1 DEF Reads
<1> QED BY <1>1, <1>3, <1>5, <1>6 DEF Leads

LEMMA LeadsFrom ==
  ASSUME NEW d \in Decoder, NEW s \in Seq(Octet), NEW t, NEW z, Leads(d, s, t, z), Len(s) # 0
  PROVE  ChunkPartial(d)
<1>1. PICK e : Reads(d, s, e)
  BY Zenon DEF Leads
<1>2. 1 \in 1..Len(s) /\ 1 - 1 = 0
  OBVIOUS
<1> QED BY <1>1, <1>2 DEF Reads, SilentAll, Silent

(* The response as it is written. *)
Konts == {"response_header", "chunk_header", "chunk_body", "chunk_crlf", "response_end", "stopped"}

ResponseRecords ==
  [kont : Konts, content : Seq(Octet), chunk_size : Nat, content_length : Nat, wrpos : Nat,
   wrsize : Nat, wrbuf : Seq(Octet)]

(* What was sent of the content. *)
Taken(w) == SubSeq(w.content, 1, w.wrpos)

Within(w) ==
  w \in ResponseRecords /\ w.wrpos <= Len(w.content) /\ Len(w.content) <= w.content_length

(* What is left of the buffer leads the reader to the data, past the line *)
(* of the last chunk, to the next chunk or to the end; while the data is  *)
(* sent, the reader wants as much of it as the chunk has left.            *)
HeaderWriting(w, d) ==
  /\ Len(w.wrbuf) # 0 /\ w.wrpos + w.chunk_size <= w.content_length
  /\ w.chunk_size > 0 => Leads(d, w.wrbuf, 12, w.chunk_size)
  /\ w.chunk_size = 0 => w.wrpos = w.content_length /\ Leads(d, w.wrbuf, 22, 0)

BodyWriting(w, d) ==
  /\ w.chunk_size > 0 /\ w.wrpos < w.wrsize /\ w.wrsize <= w.content_length
  /\ Stands(d, 12, w.wrsize - w.wrpos)

CrlfWriting(w, d) ==
  /\ Len(w.wrbuf) # 0
  /\ w.chunk_size > 0 => Leads(d, w.wrbuf, 1, -1)
  /\ w.chunk_size = 0 => w.wrpos = w.content_length /\ Leads(d, w.wrbuf, 28, 0)

(* The inductive invariant: the reader has of the body what was sent of   *)
(* it, and stands where the continuation does.                            *)
Follows(w, d) ==
  /\ Within(w) /\ d \in Decoder /\ d.body = Taken(w)
  /\ w.kont \in {"chunk_header", "chunk_body", "chunk_crlf", "response_end", "stopped"}
  /\ w.kont = "chunk_header" => HeaderWriting(w, d)
  /\ w.kont = "chunk_body"   => BodyWriting(w, d)
  /\ w.kont = "chunk_crlf"   => CrlfWriting(w, d)
  /\ w.kont = "response_end" => d.next_state = 28 /\ w.wrpos = w.content_length
  /\ w.kont = "stopped"      => ChunkPartial(d)

LEMMA LeastIs ==
  ASSUME NEW m \in Nat, NEW n \in Nat
  PROVE  Least(m, n) \in Nat /\ Least(m, n) <= m /\ Least(m, n) <= n /\ Least(m, n) \in {m, n}
BY DEF Least

IsNextChunk(v, w, size, buf) ==
  /\ v \in ResponseRecords /\ v.kont = "chunk_header" /\ v.chunk_size = size /\ v.wrbuf = buf
  /\ v.content = w.content /\ v.content_length = w.content_length /\ v.wrpos = w.wrpos

LEMMA NextChunkFields ==
  ASSUME NEW w \in ResponseRecords, NEW size \in Nat, size = Least(w.content_length - w.wrpos, ChunkMost),
         NEW buf \in Seq(Octet), buf = ToXdigits(size) \o Crlf, NEW v, v = NextChunk(w)
  PROVE  IsNextChunk(v, w, size, buf)
<1>1. v = [w EXCEPT !.kont = "chunk_header", !.chunk_size = size, !.wrbuf = buf]
  BY Zenon DEF NextChunk
<1>2. "chunk_header" \in Konts
  BY DEF Konts
<1> QED BY <1>1, <1>2 DEF ResponseRecords, IsNextChunk

LEMMA NextChunkFollows ==
  ASSUME NEW w, Within(w), NEW d \in Decoder, d.body = Taken(w), d.next_state = 1
  PROVE  Follows(NextChunk(w), d)
<1>1. PICK size : size = Least(w.content_length - w.wrpos, ChunkMost)
  OBVIOUS
<1>2. /\ w \in ResponseRecords /\ w.wrpos \in Nat /\ w.content_length \in Nat
      /\ w.content_length - w.wrpos \in Nat /\ ChunkMost \in Nat
  BY ResponseAssumption DEF Within, ResponseRecords
<1>3. size \in Nat /\ size <= w.content_length - w.wrpos /\ size <= ChunkMost
      /\ (size = 0 => w.wrpos = w.content_length)
  <2>1. PICK m \in Nat : m = w.content_length - w.wrpos
    BY <1>2
  <2>2. size = Least(m, ChunkMost)
    BY <1>1, <2>1
  <2>3. size \in Nat /\ size <= m /\ size <= ChunkMost /\ size \in {m, ChunkMost}
    BY <1>2, <2>2, LeastIs
  <2>4. ChunkMost # 0
    BY ResponseAssumption
  <2> QED BY <1>2, <2>1, <2>3, <2>4
<1>4. size \div 16 < ChunkSizeLimit
  BY <1>3, SizesFit, ChunkAssumption, ResponseAssumption
<1>5. PICK buf : buf = ToXdigits(size) \o Crlf
  OBVIOUS
<1>6. /\ buf \in Seq(Octet) /\ Len(buf) # 0
      /\ size > 0 => Leads(d, buf, 12, size)
      /\ size = 0 => Leads(d, buf, 22, 0)
  <2>1. CASE size = 0
    BY <1>5, <2>1, ZeroLineRead, WithLineEnd
  <2>2. CASE size # 0
    BY <1>3, <1>4, <1>5, <2>2, SizeLineRead, WithLineEnd
  <2> QED BY <2>1, <2>2
<1>7. PICK v : v = NextChunk(w)
  OBVIOUS
<1>8. /\ v \in ResponseRecords /\ v.kont = "chunk_header" /\ v.chunk_size = size /\ v.wrbuf = buf
      /\ v.content = w.content /\ v.content_length = w.content_length /\ v.wrpos = w.wrpos
  <2>1. size \in Nat /\ buf \in Seq(Octet) /\ w \in ResponseRecords
    BY <1>2, <1>3, <1>6
  <2>2. IsNextChunk(v, w, size, buf)
    BY <1>1, <1>5, <1>7, <2>1, NextChunkFields, Zenon
  <2> QED BY <2>2 DEF IsNextChunk
<1>9. HeaderWriting(v, d)
  BY <1>2, <1>3, <1>6, <1>8 DEF HeaderWriting
<1>10. Within(v) /\ d.body = Taken(v)
  BY <1>8 DEF Within, Taken
<1> QED BY <1>7, <1>8, <1>9, <1>10 DEF Follows

LEMMA StartFollows ==
  ASSUME NEW content \in Seq(Octet), NEW cut \in 0..2
  PROVE  Follows(PrepareChunked(content, Len(content) + cut), FreshChunk)
<1>1. PICK w : w = [kont |-> "response_header", content |-> content, chunk_size |-> 0,
                    content_length |-> Len(content) + cut, wrpos |-> 0, wrsize |-> 0, wrbuf |-> << >>]
  OBVIOUS
<1>2. /\ w.content = content /\ w.wrpos = 0 /\ w.content_length = Len(content) + cut
      /\ w \in ResponseRecords
  <2>1. "response_header" \in Konts /\ << >> \in Seq(Octet) /\ 0 \in Nat /\ Len(content) + cut \in Nat
    BY DEF Konts
  <2> QED BY <1>1, <2>1, Zenon DEF ResponseRecords
<1>3. Within(w)
  BY <1>2 DEF Within
<1>4. FreshChunk \in Decoder /\ FreshChunk.body = << >> /\ FreshChunk.next_state = 1
  <2>1. FreshChunk \in ChunkRecords /\ FreshChunk.body = << >> /\ FreshChunk.next_state = 1
        /\ FreshChunk.chunk_size = 0 /\ FreshChunk.content_length = 0
    BY DEF FreshChunk, ChunkRecords
  <2>2. ChunkKept(FreshChunk)
    BY <2>1, ChunkAssumption DEF ChunkKept
  <2> QED BY <2>1, <2>2, Zenon DEF Decoder
<1>5. Taken(w) = << >>
  BY <1>2 DEF Taken
<1>6. PrepareChunked(content, Len(content) + cut) = NextChunk(w)
  BY <1>1, Zenon DEF PrepareChunked
<1> QED BY <1>3, <1>4, <1>5, <1>6, NextChunkFollows

LEMMA PartialOnly == ASSUME NEW d, ChunkPartial(d) PROVE ~ChunkBad(d) /\ ~ChunkGood(d)
BY DEF ChunkPartial, ChunkBad, ChunkGood

(* So the reader neither fails nor ends too early. *)
LEMMA FollowsRoundTrip ==
  ASSUME NEW w, NEW d, Follows(w, d)
  PROVE  /\ ~ChunkBad(d) /\ IsPrefix(d.body, w.content)
         /\ ChunkGood(d) <=> w.kont = "response_end"
         /\ ChunkGood(d) => d.body = w.content /\ Len(w.content) = w.content_length
<1>1. /\ w.content \in Seq(Octet) /\ w.wrpos \in Nat /\ w.content_length \in Nat /\ w.wrbuf \in Seq(Octet)
      /\ w.wrpos <= Len(w.content) /\ Len(w.content) <= w.content_length
      /\ w.chunk_size \in Nat /\ d \in Decoder /\ d.body = Taken(w)
  BY DEF Follows, Within, ResponseRecords
<1>2. IsPrefix(d.body, w.content)
  <2>1. PICK b : b = SubSeq(w.content, 1, w.wrpos)
    OBVIOUS
  <2>2. Len(b) = w.wrpos /\ b \in Seq(Octet)
    BY <1>1, <2>1
  <2>3. SubSeq(b, 1, Len(b)) = b
    BY <2>2
  <2> QED BY <1>1, <2>1, <2>2, <2>3 DEF Taken, IsPrefix
<1>3. CASE w.kont = "chunk_header"
  <2>1. \E t, z : Leads(d, w.wrbuf, t, z)
    BY <1>1, <1>3 DEF Follows, HeaderWriting
  <2>2. ChunkPartial(d)
    BY <1>1, <1>3, <2>1, LeadsFrom DEF Follows, HeaderWriting
  <2> QED BY <1>2, <1>3, <2>2, PartialOnly
<1>4. CASE w.kont = "chunk_body"
  BY <1>2, <1>4 DEF Follows, BodyWriting, Stands, ChunkBad, ChunkGood
<1>5. CASE w.kont = "chunk_crlf"
  <2>1. \E t, z : Leads(d, w.wrbuf, t, z)
    BY <1>1, <1>5 DEF Follows, CrlfWriting
  <2>2. ChunkPartial(d)
    BY <1>1, <1>5, <2>1, LeadsFrom DEF Follows, CrlfWriting
  <2> QED BY <1>2, <1>5, <2>2, PartialOnly
<1>6. CASE w.kont = "response_end"
  <2>1. d.next_state = 28 /\ w.wrpos = w.content_length
    BY <1>6 DEF Follows
  <2>2. w.wrpos = Len(w.content)
    BY <1>1, <2>1
  <2>3. Taken(w) = w.content
    BY <1>1, <2>2 DEF Taken
  <2> QED BY <1>1, <1>2, <1>6, <2>1, <2>2, <2>3 DEF ChunkBad, ChunkGood
<1>7. CASE w.kont = "stopped"
  BY <1>2, <1>7, PartialOnly DEF Follows
<1> QED BY <1>3, <1>4, <1>5, <1>6, <1>7 DEF Follows

(* What a call leaves behind. *)
More(w, n) == [w EXCEPT !.wrbuf = SubSeq(@, n + 1, Len(@))]
LineEnd(w) == [w EXCEPT !.kont = "chunk_crlf", !.wrbuf = Crlf]

LEMMA HeaderWrite ==
  ASSUME NEW w \in ResponseRecords, w.kont = "chunk_header", NEW n
  PROVE  /\ n # Len(w.wrbuf) => Write(w, n) = More(w, n)
         /\ n = Len(w.wrbuf) /\ w.chunk_size > 0 =>
              Write(w, n) = [More(w, n) EXCEPT !.kont = "chunk_body", !.wrsize = w.wrpos + w.chunk_size]
         /\ n = Len(w.wrbuf) /\ w.chunk_size = 0 => Write(w, n) = LineEnd(w)
<1>1. w.chunk_size > 0 \/ w.chunk_size = 0
  BY DEF ResponseRecords
<1>2. ~(w.chunk_size > 0 /\ w.chunk_size = 0)
  BY DEF ResponseRecords
<1> QED BY <1>1, <1>2 DEF Write, More, LineEnd

LEMMA BodyWrite ==
  ASSUME NEW w \in ResponseRecords, w.kont = "chunk_body", NEW n \in Nat
  PROVE  /\ w.wrpos + n < w.wrsize => Write(w, n) = [w EXCEPT !.wrpos = @ + n]
         /\ ~(w.wrpos + n < w.wrsize) => Write(w, n) = [LineEnd(w) EXCEPT !.wrpos = @ + n]
<1>1. w.wrpos + n >= w.wrsize <=> ~(w.wrpos + n < w.wrsize)
  BY DEF ResponseRecords
<1> QED BY <1>1 DEF Write, LineEnd

LEMMA CrlfWrite ==
  ASSUME NEW w \in ResponseRecords, w.kont = "chunk_crlf", NEW n
  PROVE  /\ n # Len(w.wrbuf) => Write(w, n) = More(w, n)
         /\ n = Len(w.wrbuf) /\ w.chunk_size = 0 =>
              Write(w, n) = [More(w, n) EXCEPT !.kont = "response_end"]
         /\ n = Len(w.wrbuf) /\ w.chunk_size # 0 => Write(w, n) = NextChunk(w)
BY DEF Write, More, EndsResponse

SameFile(v, w) ==
  /\ v \in ResponseRecords /\ v.content = w.content /\ v.content_length = w.content_length
  /\ v.chunk_size = w.chunk_size

LEMMA MoreFields ==
  ASSUME NEW w \in ResponseRecords, NEW n \in Nat, n <= Len(w.wrbuf), NEW v, v = More(w, n)
  PROVE  /\ SameFile(v, w) /\ v.kont = w.kont /\ v.wrpos = w.wrpos
         /\ v.wrbuf = SubSeq(w.wrbuf, n + 1, Len(w.wrbuf))
<1>1. SubSeq(w.wrbuf, n + 1, Len(w.wrbuf)) \in Seq(Octet)
  BY DEF ResponseRecords
<1> QED BY <1>1 DEF SameFile, More, ResponseRecords

LEMMA HeaderEndFields ==
  ASSUME NEW w \in ResponseRecords, NEW n \in Nat, n <= Len(w.wrbuf), NEW v,
         v = [More(w, n) EXCEPT !.kont = "chunk_body", !.wrsize = w.wrpos + w.chunk_size]
  PROVE  SameFile(v, w) /\ v.kont = "chunk_body" /\ v.wrpos = w.wrpos /\ v.wrsize = w.wrpos + w.chunk_size
<1>1. SubSeq(w.wrbuf, n + 1, Len(w.wrbuf)) \in Seq(Octet) /\ w.wrpos + w.chunk_size \in Nat
  BY DEF ResponseRecords
<1>2. "chunk_body" \in Konts
  BY DEF Konts
<1> QED BY <1>1, <1>2 DEF SameFile, More, ResponseRecords

LEMMA ResponseEndFields ==
  ASSUME NEW w \in ResponseRecords, NEW n \in Nat, n <= Len(w.wrbuf), NEW v,
         v = [More(w, n) EXCEPT !.kont = "response_end"]
  PROVE  SameFile(v, w) /\ v.kont = "response_end" /\ v.wrpos = w.wrpos
<1>1. SubSeq(w.wrbuf, n + 1, Len(w.wrbuf)) \in Seq(Octet)
  BY DEF ResponseRecords
<1>2. "response_end" \in Konts
  BY DEF Konts
<1> QED BY <1>1, <1>2 DEF SameFile, More, ResponseRecords

LEMMA LineEndFields ==
  ASSUME NEW w \in ResponseRecords, NEW v, v = LineEnd(w)
  PROVE  SameFile(v, w) /\ v.kont = "chunk_crlf" /\ v.wrpos = w.wrpos /\ v.wrbuf = Crlf
<1>1. Crlf \in Seq(Octet) /\ "chunk_crlf" \in Konts
  BY CrlfAlone DEF Konts
<1> QED BY <1>1 DEF SameFile, LineEnd, ResponseRecords

LEMMA BodyFields ==
  ASSUME NEW w \in ResponseRecords, NEW n \in Nat, NEW v, v = [w EXCEPT !.wrpos = @ + n]
  PROVE  SameFile(v, w) /\ v.kont = w.kont /\ v.wrpos = w.wrpos + n /\ v.wrsize = w.wrsize
<1>1. w.wrpos + n \in Nat
  BY DEF ResponseRecords
<1> QED BY <1>1 DEF SameFile, ResponseRecords

LEMMA BodyEndFields ==
  ASSUME NEW w \in ResponseRecords, NEW n \in Nat, NEW v, v = [LineEnd(w) EXCEPT !.wrpos = @ + n]
  PROVE  SameFile(v, w) /\ v.kont = "chunk_crlf" /\ v.wrpos = w.wrpos + n /\ v.wrbuf = Crlf
<1>1. w.wrpos + n \in Nat
  BY DEF ResponseRecords
<1>2. Crlf \in Seq(Octet) /\ "chunk_crlf" \in Konts
  BY CrlfAlone DEF Konts
<1> QED BY <1>1, <1>2 DEF SameFile, LineEnd, ResponseRecords

LEMMA SameWithin ==
  ASSUME NEW w, NEW d, NEW v, Within(w), SameFile(v, w), v.wrpos = w.wrpos, d.body = Taken(w)
  PROVE  Within(v) /\ d.body = Taken(v)
BY DEF Within, SameFile, Taken

LEMMA HeaderFollows ==
  ASSUME NEW w, NEW d, Follows(w, d), w.kont = "chunk_header", NEW n \in DOMAIN Offered(w), NEW e,
         e = FoldLeft(ChunkPut, d, SubSeq(Offered(w), 1, n))
  PROVE  Follows(Write(w, n), e)
<1>1. /\ w \in ResponseRecords /\ Within(w) /\ d \in Decoder /\ d.body = Taken(w) /\ HeaderWriting(w, d)
  BY DEF Follows, Within
<1>2. PICK s \in Seq(Octet) : s = w.wrbuf
  BY <1>1 DEF ResponseRecords
<1>3. n \in 1..Len(s) /\ e = FoldLeft(ChunkPut, d, SubSeq(s, 1, n)) /\ n \in Nat /\ n <= Len(w.wrbuf)
  BY <1>2 DEF Offered
<1>4. w.chunk_size \in Nat /\ w.wrpos \in Nat /\ w.content_length \in Nat
  BY <1>1 DEF ResponseRecords
<1>5. PICK t, z : /\ Leads(d, s, t, z)
                  /\ w.chunk_size > 0 => t = 12 /\ z = w.chunk_size
                  /\ w.chunk_size = 0 => t = 22 /\ z = 0
  BY <1>1, <1>2, <1>4 DEF HeaderWriting
<1>6. /\ e \in Decoder /\ e.body = d.body
      /\ n < Len(s) => Leads(e, SubSeq(s, n + 1, Len(s)), t, z)
      /\ n = Len(s) => Stands(e, t, z)
  BY <1>1, <1>3, <1>5, LeadsPart
<1>7. CASE n < Len(s)
  <2>1. PICK v : v = More(w, n)
    OBVIOUS
  <2>2. Write(w, n) = v
    <3>1. n # Len(w.wrbuf)
      BY <1>2, <1>3, <1>7
    <3> QED BY <1>1, <2>1, <3>1, HeaderWrite, Zenon
  <2>3. /\ SameFile(v, w) /\ v.kont = "chunk_header" /\ v.wrpos = w.wrpos
        /\ v.wrbuf = SubSeq(s, n + 1, Len(s))
    BY <1>1, <1>2, <1>3, <2>1, MoreFields
  <2>4. Len(v.wrbuf) # 0
    BY <1>3, <1>7, <2>3
  <2>5. HeaderWriting(v, e)
    BY <1>1, <1>4, <1>5, <1>6, <1>7, <2>3, <2>4 DEF HeaderWriting, SameFile
  <2>6. Within(v) /\ e.body = Taken(v)
    BY <1>1, <1>6, <2>3, SameWithin
  <2> QED BY <1>6, <2>2, <2>3, <2>5, <2>6 DEF Follows
<1>8. CASE n = Len(s) /\ w.chunk_size > 0
  <2>1. PICK v : v = [More(w, n) EXCEPT !.kont = "chunk_body", !.wrsize = w.wrpos + w.chunk_size]
    OBVIOUS
  <2>2. Write(w, n) = v
    BY <1>1, <1>2, <1>8, <2>1, HeaderWrite
  <2>3. SameFile(v, w) /\ v.kont = "chunk_body" /\ v.wrpos = w.wrpos /\ v.wrsize = w.wrpos + w.chunk_size
    BY <1>1, <1>3, <2>1, HeaderEndFields
  <2>4. BodyWriting(v, e)
    <3>1. Stands(e, 12, w.chunk_size) /\ v.wrsize - v.wrpos = w.chunk_size
      BY <1>4, <1>5, <1>6, <1>8, <2>3
    <3> QED BY <1>1, <1>4, <1>8, <2>3, <3>1 DEF HeaderWriting, BodyWriting, SameFile
  <2>5. Within(v) /\ e.body = Taken(v)
    BY <1>1, <1>6, <2>3, SameWithin
  <2> QED BY <1>6, <2>2, <2>3, <2>4, <2>5 DEF Follows
<1>9. CASE n = Len(s) /\ w.chunk_size = 0
  <2>1. PICK v : v = LineEnd(w)
    OBVIOUS
  <2>2. Write(w, n) = v
    BY <1>1, <1>2, <1>9, <2>1, HeaderWrite
  <2>3. SameFile(v, w) /\ v.kont = "chunk_crlf" /\ v.wrpos = w.wrpos /\ v.wrbuf = Crlf
    BY <1>1, <2>1, LineEndFields
  <2>4. Leads(e, Crlf, 28, 0)
    BY <1>5, <1>6, <1>9, EndRead
  <2>5. CrlfWriting(v, e)
    BY <1>1, <1>9, <2>3, <2>4, CrlfAlone DEF HeaderWriting, CrlfWriting, SameFile
  <2>6. Within(v) /\ e.body = Taken(v)
    BY <1>1, <1>6, <2>3, SameWithin
  <2> QED BY <1>6, <2>2, <2>3, <2>5, <2>6 DEF Follows
<1>10. n < Len(s) \/ n = Len(s)
  BY <1>3
<1>11. w.chunk_size > 0 \/ w.chunk_size = 0
  BY <1>4
<1> QED BY <1>7, <1>8, <1>9, <1>10, <1>11

LEMMA TakesOn ==
  ASSUME NEW c \in Seq(Octet), NEW p \in 0..Len(c), NEW n \in 0..Len(c) - p
  PROVE  SubSeq(c, 1, p) \o SubSeq(c, p + 1, p + n) = SubSeq(c, 1, p + n)
<1>1. PICK a : a = SubSeq(c, 1, p)
  OBVIOUS
<1>2. PICK b : b = SubSeq(c, p + 1, p + n)
  OBVIOUS
<1>3. PICK e : e = SubSeq(c, 1, p + n)
  OBVIOUS
<1>4. a \in Seq(Octet) /\ Len(a) = p /\ \A i \in 1..p : a[i] = c[i]
  BY <1>1
<1>5. b \in Seq(Octet) /\ Len(b) = n /\ \A i \in 1..n : b[i] = c[p + i]
  BY <1>2
<1>6. e \in Seq(Octet) /\ Len(e) = p + n /\ \A i \in 1..p + n : e[i] = c[i]
  BY <1>3
<1>7. /\ a \o b \in Seq(Octet) /\ Len(a \o b) = p + n
      /\ \A i \in 1..p : (a \o b)[i] = a[i]
      /\ \A i \in p + 1..p + n : (a \o b)[i] = b[i - p]
  BY <1>4, <1>5
<1>8. ASSUME NEW i \in 1..p + n PROVE (a \o b)[i] = e[i]
  <2>1. CASE i <= p
    BY <1>4, <1>6, <1>7, <2>1
  <2>2. CASE i > p
    <3>1. i \in p + 1..p + n /\ i - p \in 1..n /\ p + (i - p) = i
      BY <2>2
    <3>2. b[i - p] = c[i]
      BY <1>5, <3>1
    <3> QED BY <1>6, <1>7, <3>1, <3>2
  <2>3. i <= p \/ i > p
    OBVIOUS
  <2> QED BY <2>1, <2>2, <2>3
<1>9. a \o b = e
  BY <1>6, <1>7, <1>8, SeqEqual
<1> QED BY <1>1, <1>2, <1>3, <1>9

LEMMA OfferedPart ==
  ASSUME NEW c \in Seq(Octet), NEW p \in Nat, NEW l \in Nat, l <= Len(c),
         NEW n \in DOMAIN SubSeq(c, p + 1, l)
  PROVE  n \in Nat /\ n >= 1 /\ p + n <= l
<1>1. SubSeq(c, p + 1, l) \in Seq(Octet) /\ Len(SubSeq(c, p + 1, l)) = IF p + 1 <= l THEN l - p ELSE 0
  OBVIOUS
<1> QED BY <1>1

IsPart(s, c, p, n, l) ==
  s = SubSeq(c, p + 1, p + n) /\ Len(s) = n /\ SubSeq(SubSeq(c, p + 1, l), 1, n) = s

LEMMA PartOfPart ==
  ASSUME NEW c \in Seq(Octet), NEW p \in Nat, NEW l \in Nat, l <= Len(c), NEW n \in Nat, n >= 1, p + n <= l
  PROVE  \E s \in Seq(Octet) : IsPart(s, c, p, n, l)
<1>1. PICK f : f = SubSeq(c, p + 1, l)
  OBVIOUS
<1>2. PICK a : a = SubSeq(f, 1, n)
  OBVIOUS
<1>3. PICK b : b = SubSeq(c, p + 1, p + n)
  OBVIOUS
<1>4. f \in Seq(Octet) /\ Len(f) = l - p /\ \A i \in 1..l - p : f[i] = c[p + i]
  BY <1>1
<1>5. a \in Seq(Octet) /\ Len(a) = n /\ \A i \in 1..n : a[i] = f[i]
  BY <1>2, <1>4
<1>6. b \in Seq(Octet) /\ Len(b) = n /\ \A i \in 1..n : b[i] = c[p + i]
  BY <1>3
<1>7. \A i \in 1..n : a[i] = b[i]
  BY <1>4, <1>5, <1>6
<1>8. a = b
  BY <1>5, <1>6, <1>7, SeqEqual
<1>9. IsPart(b, c, p, n, l)
  BY <1>1, <1>2, <1>3, <1>6, <1>8 DEF IsPart
<1> QED BY <1>6, <1>9

LEMMA BodyFollows ==
  ASSUME NEW w, NEW d, Follows(w, d), w.kont = "chunk_body", NEW n \in DOMAIN Offered(w), NEW e,
         e = FoldLeft(ChunkPut, d, SubSeq(Offered(w), 1, n))
  PROVE  Follows(Write(w, n), e)
<1>1. w \in ResponseRecords /\ Within(w) /\ d \in Decoder /\ d.body = Taken(w) /\ BodyWriting(w, d)
  BY DEF Follows, Within
<1>2. PICK c \in Seq(Octet) : c = w.content
  BY <1>1 DEF ResponseRecords
<1>3. /\ w.chunk_size \in Nat /\ w.wrpos \in Nat /\ w.wrsize \in Nat /\ w.content_length \in Nat
      /\ w.wrpos <= Len(c) /\ Len(c) <= w.content_length
  BY <1>1, <1>2 DEF ResponseRecords, Within
<1>4. PICK p \in Nat, m \in Nat : p = w.wrpos /\ m = w.wrsize
  BY <1>3
<1>5. PICK l \in Nat : l = Least(m, Len(c)) /\ l <= m /\ l <= Len(c)
  <2>1. Len(c) \in Nat
    OBVIOUS
  <2> QED BY <2>1, LeastIs
<1>6. Offered(w) = SubSeq(c, p + 1, l)
  BY <1>2, <1>4, <1>5 DEF Offered
<1>7. n \in Nat /\ n >= 1 /\ p + n <= l
  BY <1>5, <1>6, OfferedPart
<1>8. PICK s \in Seq(Octet) : s = SubSeq(c, p + 1, p + n) /\ Len(s) = n /\ SubSeq(Offered(w), 1, n) = s
  <2>1. PICK s \in Seq(Octet) : IsPart(s, c, p, n, l)
    BY <1>5, <1>7, PartOfPart
  <2> QED BY <1>6, <2>1, Zenon DEF IsPart
<1>9. Stands(e, 12, (w.wrsize - w.wrpos) - n) /\ e.body = d.body \o s
  <2>1. d.next_state = 12 /\ d.chunk_size = w.wrsize - w.wrpos
    BY <1>1 DEF BodyWriting, Stands
  <2>2. Len(s) <= m - p /\ d.chunk_size = m - p
    <3>1. Len(s) = n
      BY <1>8, Zenon
    <3>2. n <= m - p
      BY <1>5, <1>7
    <3>3. d.chunk_size = m - p
      BY <1>4, <2>1, Zenon
    <3> QED BY <3>1, <3>2, <3>3
  <2>3. e = FoldLeft(ChunkPut, d, s)
    BY <1>8, Zenon
  <2>4. Stands(e, 12, d.chunk_size - Len(s)) /\ e.body = d.body \o s
    BY <1>1, <2>1, <2>2, <2>3, DataRead
  <2> QED BY <1>4, <1>8, <2>2, <2>4
<1>10. e.body = SubSeq(c, 1, p + n)
  <2>1. p \in 0..Len(c) /\ n \in 0..Len(c) - p
    BY <1>3, <1>4, <1>5, <1>7
  <2>2. d.body = SubSeq(c, 1, p)
    BY <1>1, <1>2, <1>4 DEF Taken
  <2> QED BY <1>8, <1>9, <2>1, <2>2, TakesOn
<1>11. e \in Decoder
  BY <1>9 DEF Stands
<1>12. CASE w.wrpos + n < w.wrsize
  <2>1. PICK v : v = [w EXCEPT !.wrpos = @ + n]
    OBVIOUS
  <2>2. Write(w, n) = v
    BY <1>1, <1>7, <1>12, <2>1, BodyWrite
  <2>3. SameFile(v, w) /\ v.kont = "chunk_body" /\ v.wrpos = w.wrpos + n /\ v.wrsize = w.wrsize
    BY <1>1, <1>7, <2>1, BodyFields
  <2>4. BodyWriting(v, e)
    <3>1. v.wrsize - v.wrpos = (w.wrsize - w.wrpos) - n
      BY <1>3, <1>7, <2>3
    <3> QED BY <1>1, <1>9, <1>12, <2>3, <3>1 DEF BodyWriting, SameFile
  <2>5. Within(v) /\ e.body = Taken(v)
    BY <1>1, <1>2, <1>3, <1>4, <1>5, <1>7, <1>10, <2>3 DEF Within, SameFile, Taken
  <2> QED BY <1>11, <2>2, <2>3, <2>4, <2>5 DEF Follows
<1>13. CASE ~(w.wrpos + n < w.wrsize)
  <2>1. PICK v : v = [LineEnd(w) EXCEPT !.wrpos = @ + n]
    OBVIOUS
  <2>2. Write(w, n) = v
    BY <1>1, <1>7, <1>13, <2>1, BodyWrite
  <2>3. SameFile(v, w) /\ v.kont = "chunk_crlf" /\ v.wrpos = w.wrpos + n /\ v.wrbuf = Crlf
    BY <1>1, <1>7, <2>1, BodyEndFields
  <2>4. (w.wrsize - w.wrpos) - n = 0
    BY <1>3, <1>4, <1>5, <1>7, <1>13, SMTT(30)
  <2>5. Leads(e, Crlf, 1, -1)
    BY <1>9, <2>4, DataEndRead
  <2>6. CrlfWriting(v, e)
    BY <1>1, <2>3, <2>5, CrlfAlone DEF BodyWriting, CrlfWriting, SameFile
  <2>7. Within(v) /\ e.body = Taken(v)
    BY <1>1, <1>2, <1>3, <1>4, <1>5, <1>7, <1>10, <2>3, SMTT(30) DEF Within, SameFile, Taken
  <2> QED BY <1>11, <2>2, <2>3, <2>6, <2>7 DEF Follows
<1> QED BY <1>12, <1>13

LEMMA CrlfFollows ==
  ASSUME NEW w, NEW d, Follows(w, d), w.kont = "chunk_crlf", NEW n \in DOMAIN Offered(w), NEW e,
         e = FoldLeft(ChunkPut, d, SubSeq(Offered(w), 1, n))
  PROVE  Follows(Write(w, n), e)
<1>1. w \in ResponseRecords /\ Within(w) /\ d \in Decoder /\ d.body = Taken(w) /\ CrlfWriting(w, d)
  BY DEF Follows, Within
<1>2. PICK s \in Seq(Octet) : s = w.wrbuf
  BY <1>1 DEF ResponseRecords
<1>3. n \in 1..Len(s) /\ e = FoldLeft(ChunkPut, d, SubSeq(s, 1, n)) /\ n \in Nat /\ n <= Len(w.wrbuf)
  BY <1>2 DEF Offered
<1>4. w.chunk_size \in Nat
  BY <1>1 DEF ResponseRecords
<1>5. PICK t, z : /\ Leads(d, s, t, z)
                  /\ w.chunk_size > 0 => t = 1 /\ z = -1
                  /\ w.chunk_size = 0 => t = 28 /\ z = 0
  BY <1>1, <1>2, <1>4 DEF CrlfWriting
<1>6. /\ e \in Decoder /\ e.body = d.body
      /\ n < Len(s) => Leads(e, SubSeq(s, n + 1, Len(s)), t, z)
      /\ n = Len(s) => Stands(e, t, z)
  BY <1>1, <1>3, <1>5, LeadsPart
<1>7. CASE n < Len(s)
  <2>1. PICK v : v = More(w, n)
    OBVIOUS
  <2>2. Write(w, n) = v
    BY <1>1, <1>2, <1>3, <1>7, <2>1, CrlfWrite
  <2>3. /\ SameFile(v, w) /\ v.kont = "chunk_crlf" /\ v.wrpos = w.wrpos
        /\ v.wrbuf = SubSeq(s, n + 1, Len(s))
    BY <1>1, <1>2, <1>3, <2>1, MoreFields
  <2>4. Len(v.wrbuf) # 0
    BY <1>3, <1>7, <2>3
  <2>5. CrlfWriting(v, e)
    BY <1>1, <1>4, <1>5, <1>6, <1>7, <2>3, <2>4 DEF CrlfWriting, SameFile
  <2>6. Within(v) /\ e.body = Taken(v)
    BY <1>1, <1>6, <2>3, SameWithin
  <2> QED BY <1>6, <2>2, <2>3, <2>5, <2>6 DEF Follows
<1>8. CASE n = Len(s) /\ w.chunk_size = 0
  <2>1. PICK v : v = [More(w, n) EXCEPT !.kont = "response_end"]
    OBVIOUS
  <2>2. Write(w, n) = v
    BY <1>1, <1>2, <1>8, <2>1, CrlfWrite
  <2>3. SameFile(v, w) /\ v.kont = "response_end" /\ v.wrpos = w.wrpos
    BY <1>1, <1>3, <2>1, ResponseEndFields
  <2>4. e.next_state = 28 /\ v.wrpos = v.content_length
    BY <1>1, <1>5, <1>6, <1>8, <2>3 DEF CrlfWriting, Stands, SameFile
  <2>5. Within(v) /\ e.body = Taken(v)
    BY <1>1, <1>6, <2>3, SameWithin
  <2> QED BY <1>6, <2>2, <2>3, <2>4, <2>5 DEF Follows
<1>9. CASE n = Len(s) /\ w.chunk_size > 0
  <2>1. Write(w, n) = NextChunk(w)
    BY <1>1, <1>2, <1>9, CrlfWrite
  <2>2. e.next_state = 1
    BY <1>5, <1>6, <1>9 DEF Stands
  <2> QED BY <1>1, <1>6, <2>1, <2>2, NextChunkFollows
<1>10. n < Len(s) \/ n = Len(s)
  BY <1>3
<1>11. w.chunk_size > 0 \/ w.chunk_size = 0
  BY <1>4
<1> QED BY <1>7, <1>8, <1>9, <1>10, <1>11

LEMMA StopsFollows ==
  ASSUME NEW w, NEW d, Follows(w, d), Writing(w) PROVE Follows(WriteStops(w), d)
<1>1. w \in ResponseRecords /\ Within(w) /\ d \in Decoder /\ d.body = Taken(w)
  BY DEF Follows, Within
<1>2. PICK v : v = WriteStops(w)
  OBVIOUS
<1>3. SameFile(v, w) /\ v.kont = "stopped" /\ v.wrpos = w.wrpos
  <2>1. "stopped" \in Konts
    BY DEF Konts
  <2> QED BY <1>1, <1>2, <2>1 DEF WriteStops, SameFile, ResponseRecords
<1>4. w.kont # "response_end"
  BY DEF Writing
<1>5. ~ChunkBad(d) /\ ~ChunkGood(d)
  BY <1>4, FollowsRoundTrip
<1>6. d.next_state \in 0..28
  BY <1>1 DEF Decoder, ChunkRecords
<1>7. ChunkPartial(d)
  BY <1>5, <1>6 DEF ChunkBad, ChunkGood, ChunkPartial
<1>8. Within(v) /\ d.body = Taken(v)
  BY <1>1, <1>3, SameWithin
<1> QED BY <1>1, <1>2, <1>3, <1>7, <1>8 DEF Follows

ResponseInv == kind = "response" => Follows(rsp, dec)

LEMMA ResponseStart == DecodersInit => ResponseInv
<1> SUFFICES ASSUME DecodersInit, kind = "response" PROVE Follows(rsp, dec)
  BY DEF ResponseInv
<1>1. PICK content \in Bodies, cut \in 0..2 : rsp = PrepareChunked(content, Len(content) + cut)
  BY Zenon DEF DecodersInit
<1>2. dec = FreshChunk
  BY Zenon DEF DecodersInit
<1>3. content \in Seq(Octet)
  BY DecodersAssumption
<1> QED BY <1>1, <1>2, <1>3, StartFollows

LEMMA ResponseSteps == ResponseInv /\ [DecodersNext]_decodersVars => ResponseInv'
<1> SUFFICES ASSUME ResponseInv, [DecodersNext]_decodersVars, kind' = "response"
             PROVE  Follows(rsp', dec')
  BY DEF ResponseInv
<1>1. CASE PutOctet
  BY <1>1 DEF PutOctet
<1>2. CASE WriteResponse
  <2>1. /\ kind = "response" /\ Writing(rsp)
        /\ \E n \in DOMAIN Offered(rsp) :
             /\ rsp' = Write(rsp, n)
             /\ dec' = FoldLeft(ChunkPut, dec, SubSeq(Offered(rsp), 1, n))
    BY <1>2, Zenon DEF WriteResponse
  <2>2. PICK n \in DOMAIN Offered(rsp) :
             /\ rsp' = Write(rsp, n)
             /\ dec' = FoldLeft(ChunkPut, dec, SubSeq(Offered(rsp), 1, n))
    BY <2>1, Zenon
  <2>3. Follows(rsp, dec)
    BY <2>1 DEF ResponseInv
  <2>4. rsp.kont \in {"chunk_header", "chunk_body", "chunk_crlf"}
    BY <2>1 DEF Writing
  <2> QED BY <2>2, <2>3, <2>4, HeaderFollows, BodyFollows, CrlfFollows
<1>3. CASE ResponseStops
  <2>1. /\ kind = "response" /\ Writing(rsp) /\ rsp' = WriteStops(rsp) /\ dec' = dec
    BY <1>3, Zenon DEF ResponseStops
  <2> QED BY <2>1, StopsFollows DEF ResponseInv
<1>4. CASE UNCHANGED decodersVars
  BY <1>4 DEF decodersVars, ResponseInv
<1> QED BY <1>1, <1>2, <1>3, <1>4 DEF DecodersNext

LEMMA ResponseRead == ResponseInv => ChunksRoundTrip
<1> SUFFICES ASSUME ResponseInv, kind = "response" PROVE ChunksRoundTrip
  BY DEF ChunksRoundTrip
<1>1. Follows(rsp, dec)
  BY DEF ResponseInv
<1> QED BY <1>1, FollowsRoundTrip, Zenon DEF ChunksRoundTrip

(* A reader of a chunked response has a prefix of the body at any time and *)
(* takes it for complete exactly when all of it was sent, whatever the     *)
(* body, the size of a chunk, the calls' short counts and the way it ends  *)
(* (kont_response_chunk_header, _body and _crlf, http-connection.cpp).     *)
THEOREM ResponsesRead == DecodersSpec => []ChunksRoundTrip
<1>1. DecodersSpec => []ResponseInv
  BY ResponseStart, ResponseSteps, PTL DEF DecodersSpec
<1> QED BY <1>1, ResponseRead, PTL

LEMMA DecodersWithin == DecodersInv /\ ResponseInv => DecodersTypeOK
<1> SUFFICES ASSUME DecodersInv, ResponseInv PROVE DecodersTypeOK
  OBVIOUS
<1>1. kind \in {"chunk", "response"} => ChunkKept(dec)
  BY DEF DecodersInv, ResponseInv, Follows, Decoder
<1> QED BY <1>1, LineAssumption, HeaderAssumption, FieldAssumption
        DEF DecodersInv, DecodersTypeOK, ChunkKept, ChunkRecords, LineKept, LineRecords,
            HeaderKept, LengthKept, LengthRecords

(* Whatever octets they are given, for every limit: no decoder of a        *)
(* message computes a number beyond its limit or goes on past it.          *)
THEOREM DecoderLimits == DecodersSpec => []DecodersTypeOK
<1>1. DecodersSpec => []DecodersInv
  BY DecodersStart, DecodersSteps, PTL DEF DecodersSpec
<1>2. DecodersSpec => []ResponseInv
  BY ResponseStart, ResponseSteps, PTL DEF DecodersSpec
<1> QED BY <1>1, <1>2, DecodersWithin, PTL

-----------------------------------------------------------------------------
(* Paths. *)

(* f holds what a fold makes of the first octets of s; g is its step. *)
Traces(f, s, A, b, g) ==
  /\ f \in [0..Len(s) -> A] /\ f[0] = b
  /\ \A k \in 1..Len(s) : f[k] = g[<<f[k - 1], s[k]>>]

FoldsTo(x, s, A, b, g) == \E f : Traces(f, s, A, b, g) /\ f[Len(s)] = x

LEMMA FoldsNothing == ASSUME NEW x, NEW A, NEW b, NEW g, FoldsTo(x, << >>, A, b, g) PROVE x = b
BY DEF FoldsTo, Traces

Moves(x, y, A, o, g) == y = g[<<x, o>>] /\ x \in A /\ y \in A

LEMMA FoldsAppend ==
  ASSUME NEW E, NEW s, NEW o, NEW A, NEW b, NEW g, NEW x, NEW y,
         s \in Seq(E), o \in E, b \in A, g \in [A \X E -> A],
         FoldsTo(x, s, A, b, g), FoldsTo(y, Append(s, o), A, b, g)
  PROVE  Moves(x, y, A, o, g)
<1>1. PICK n \in Nat : n = Len(s)
  OBVIOUS
<1>2. PICK r : r = Append(s, o)
  OBVIOUS
<1>3. Len(r) = n + 1 /\ r[n + 1] = o /\ \A k \in 1..n : r[k] = s[k]
  BY <1>1, <1>2
<1>4. PICK f : Traces(f, s, A, b, g) /\ f[n] = x
  BY <1>1 DEF FoldsTo
<1>5. PICK h : Traces(h, r, A, b, g) /\ h[n + 1] = y
  BY <1>2, <1>3 DEF FoldsTo
<1>6. StepsAgree(f, h, n)
  <2>1. f[0] = h[0]
    BY <1>4, <1>5 DEF Traces
  <2>2. ASSUME NEW k \in 1..n, f[k - 1] = h[k - 1] PROVE f[k] = h[k]
    <3>1. f[k] = g[<<f[k - 1], s[k]>>]
      BY <1>1, <1>4 DEF Traces
    <3>2. k \in 1..n + 1
      OBVIOUS
    <3>3. h[k] = g[<<h[k - 1], r[k]>>]
      BY <1>3, <1>5, <3>2 DEF Traces
    <3> QED BY <1>3, <2>2, <3>1, <3>3
  <2> QED BY <2>1, <2>2 DEF StepsAgree
<1>7. f[n] = h[n]
  BY <1>6, FoldsAgree
<1>8. n + 1 \in 1..n + 1 /\ (n + 1) - 1 = n /\ n \in 0..n /\ n + 1 \in 0..n + 1
  OBVIOUS
<1>9. h[n + 1] = g[<<h[n], o>>]
  BY <1>3, <1>5, <1>8 DEF Traces
<1>10. f[n] \in A /\ h[n + 1] \in A
  BY <1>1, <1>3, <1>4, <1>5, <1>8 DEF Traces
<1> QED BY <1>4, <1>5, <1>7, <1>9, <1>10 DEF Moves

Folded(w, s, A, b, g) ==
  /\ w \in [SUBSET (1..Len(s)) -> A] /\ w[{}] = b
  /\ \A t \in SUBSET (1..Len(s)) : t # {} =>
       Max(t) \in 1..Len(s) /\ w[t \ {Max(t)}] \in A /\ w[t] = g[<<w[t \ {Max(t)}], s[Max(t)]>>]

WouldFold(it, s, A, b, g) ==
  /\ it[{}] = b
  /\ \A t \in SUBSET (1..Len(s)) : (t # {} /\ it[t \ {Max(t)}] \in A) =>
        it[t] = g[<<it[t \ {Max(t)}], s[Max(t)]>>]

LEMMA FoldedExists ==
  ASSUME NEW E, NEW s \in Seq(E), NEW A, NEW b \in A, NEW g \in [A \X E -> A]
  PROVE  \E w : Folded(w, s, A, b, g)
<1>1. PICK n \in Nat : n = Len(s)
  OBVIOUS
<1>2. \A k \in 1..n : s[k] \in E
  BY <1>1
<1>3. PICK h : h = [p \in A \X (1..n) |-> g[<<p[1], s[p[2]]>>]]
  OBVIOUS
<1>4. h \in [A \X (1..n) -> A]
  BY <1>2, <1>3
<1>5. PICK w : Iterates(w, n, A, b, h)
  BY <1>4, FoldExists
<1>6. ASSUME NEW t \in SUBSET (1..n), t # {}
      PROVE  Max(t) \in 1..n /\ w[t \ {Max(t)}] \in A /\ w[t] = g[<<w[t \ {Max(t)}], s[Max(t)]>>]
  <2>1. PICK m \in 1..n : m = Max(t)
    BY <1>6, GreatestIn
  <2>2. t \ {m} \in SUBSET (1..n)
    OBVIOUS
  <2>3. w[t \ {m}] \in A
    BY <1>5, <2>2 DEF Iterates
  <2>4. w[t] = h[<<w[t \ {m}], m>>]
    BY <1>5, <1>6, <2>1 DEF Iterates
  <2>5. h[<<w[t \ {m}], m>>] = g[<<w[t \ {m}], s[m]>>]
    BY <1>3, <2>3
  <2> QED BY <2>1, <2>3, <2>4, <2>5
<1>7. w \in [SUBSET (1..n) -> A] /\ w[{}] = b
  BY <1>5 DEF Iterates
<1> QED BY <1>1, <1>6, <1>7 DEF Folded

LEMMA FoldedTrace ==
  ASSUME NEW E, NEW s \in Seq(E), NEW A, NEW b \in A, NEW g \in [A \X E -> A], NEW it,
         WouldFold(it, s, A, b, g)
  PROVE  FoldsTo(it[1..Len(s)], s, A, b, g)
<1>1. PICK n \in Nat : n = Len(s)
  OBVIOUS
<1>2. \A k \in 1..n : s[k] \in E
  BY <1>1
<1>3. PICK h : h = [p \in A \X (1..n) |-> g[<<p[1], s[p[2]]>>]]
  OBVIOUS
<1>4. h \in [A \X (1..n) -> A]
  BY <1>2, <1>3
<1>5. \A a \in A, k \in 1..n : h[<<a, k>>] = g[<<a, s[k]>>]
  BY <1>3
<1>6. WouldIterate(it, n, A, b, h)
  <2>1. ASSUME NEW t \in SUBSET (1..n), t # {}, it[t \ {Max(t)}] \in A
        PROVE  it[t] = h[<<it[t \ {Max(t)}], Max(t)>>]
    <3>1. Max(t) \in 1..n
      BY <2>1, GreatestIn
    <3>2. it[t] = g[<<it[t \ {Max(t)}], s[Max(t)]>>]
      BY <1>1, <2>1 DEF WouldFold
    <3> QED BY <1>5, <2>1, <3>1, <3>2
  <2>2. it[{}] = b
    BY DEF WouldFold
  <2> QED BY <2>1, <2>2, Zenon DEF WouldIterate
<1>7. PICK f : Steps(f, n, A, b, h, it[1..n])
  BY <1>4, <1>6, FoldTrace
<1>8. ASSUME NEW k \in 1..n PROVE f[k] = g[<<f[k - 1], s[k]>>]
  <2>1. f[k - 1] \in A /\ f[k] = h[<<f[k - 1], k>>]
    BY <1>7 DEF Steps
  <2> QED BY <1>5, <2>1
<1>9. Traces(f, s, A, b, g) /\ f[n] = it[1..n]
  BY <1>1, <1>7, <1>8 DEF Traces, Steps
<1> QED BY <1>1, <1>9 DEF FoldsTo

-----------------------------------------------------------------------------
PartLists == {p \in Seq(Seq(Octet)) : p # << >>}

SplitByStep(parts, separators, o) ==
  IF o \in separators THEN Append(parts, << >>) ELSE [parts EXCEPT ![Len(parts)] = Append(@, o)]

SplitByStepOf(separators) == [p \in PartLists \X Octet |-> SplitByStep(p[1], separators, p[2])]

LEMMA SplitByStepParts ==
  ASSUME NEW p \in PartLists, NEW separators, NEW o \in Octet PROVE SplitByStep(p, separators, o) \in PartLists
<1>1. p \in Seq(Seq(Octet)) /\ Len(p) >= 1 /\ << >> \in Seq(Octet)
  BY DEF PartLists
<1>2. Append(p, << >>) \in PartLists
  <2>1. Append(p, << >>) \in Seq(Seq(Octet)) /\ Len(Append(p, << >>)) # 0
    BY <1>1
  <2> QED BY <2>1 DEF PartLists
<1>3. [p EXCEPT ![Len(p)] = Append(@, o)] \in PartLists
  <2>1. Append(p[Len(p)], o) \in Seq(Octet)
    BY <1>1
  <2>2. PICK q : q = [p EXCEPT ![Len(p)] = Append(@, o)]
    OBVIOUS
  <2>3. q \in Seq(Seq(Octet)) /\ Len(q) = Len(p)
    BY <1>1, <2>1, <2>2
  <2> QED BY <1>1, <2>2, <2>3 DEF PartLists
<1> QED BY <1>2, <1>3 DEF SplitByStep

LEMMA SplitByFold ==
  ASSUME NEW s \in Seq(Octet), NEW separators
  PROVE  FoldsTo(SplitBy(s, separators), s, PartLists, << << >> >>, SplitByStepOf(separators))
<1> DEFINE n == Len(s)
           b == << << >> >>
           g == SplitByStepOf(separators)
           next(a, i) == SplitByStep(a, separators, s[i])
           body(it) == [t \in SUBSET (1..n) |-> IF t = {} THEN b ELSE next(it[t \ {Max(t)}], Max(t))]
           it == CHOOSE w : w = body(w)
<1>1. n \in Nat /\ DOMAIN s = 1..n
  OBVIOUS
<1>2. SplitBy(s, separators) = it[1..n]
  BY <1>1, Zenon DEF SplitBy, FoldLeft, MapThenFoldSet, SplitByStep
<1>3. b \in PartLists
  BY DEF PartLists
<1>4. g \in [PartLists \X Octet -> PartLists]
  BY SplitByStepParts DEF SplitByStepOf
<1>5. \A a \in PartLists, k \in 1..n : g[<<a, s[k]>>] = next(a, k)
  <2>1. \A k \in 1..n : s[k] \in Octet
    OBVIOUS
  <2> QED BY <2>1 DEF SplitByStepOf
<1>6. PICK w : Folded(w, s, PartLists, b, g)
  <2> HIDE DEF b, g
  <2> QED BY <1>3, <1>4, FoldedExists
<1>7. it = body(it)
  <2>1. ASSUME NEW t \in SUBSET (1..n)
        PROVE  w[t] = IF t = {} THEN b ELSE next(w[t \ {Max(t)}], Max(t))
    <3> HIDE DEF next, b, g
    <3> QED BY <1>5, <1>6 DEF Folded
  <2> HIDE DEF next, b, g
  <2>2. w = [t \in SUBSET (1..n) |-> w[t]]
    BY <1>6, Zenon DEF Folded
  <2>3. w = body(w)
    BY <2>1, <2>2, Zenon
  <2> HIDE DEF body
  <2> QED BY <2>3, Zenon
<1>8. WouldFold(it, s, PartLists, b, g)
  <2>1. it[{}] = b
    <3> HIDE DEF it, next, b
    <3> QED BY <1>7
  <2>2. ASSUME NEW t \in SUBSET (1..n), t # {}, it[t \ {Max(t)}] \in PartLists
        PROVE  it[t] = g[<<it[t \ {Max(t)}], s[Max(t)]>>]
    <3>1. Max(t) \in 1..n
      BY <1>1, <2>2, GreatestIn
    <3>2. it[t] = next(it[t \ {Max(t)}], Max(t))
      <4> HIDE DEF it, next, b
      <4> QED BY <1>7, <2>2, Zenon
    <3> HIDE DEF it, next, g
    <3> QED BY <1>5, <2>2, <3>1, <3>2
  <2> HIDE DEF it, g, b
  <2> QED BY <2>1, <2>2, Zenon DEF WouldFold
<1> HIDE DEF it, g, b
<1>9. FoldsTo(it[1..n], s, PartLists, b, g)
  BY <1>3, <1>4, <1>8, FoldedTrace
<1> QED BY <1>2, <1>9 DEF b, g

LEMMA SplitByNothing == ASSUME NEW separators PROVE SplitBy(<< >>, separators) = << << >> >>
<1>1. << >> \in Seq(Octet)
  OBVIOUS
<1>2. FoldsTo(SplitBy(<< >>, separators), << >>, PartLists, << << >> >>, SplitByStepOf(separators))
  BY <1>1, SplitByFold, Zenon
<1> QED BY <1>2, FoldsNothing, Zenon

LEMMA SplitByGrows ==
  ASSUME NEW s \in Seq(Octet), NEW separators, NEW o \in Octet
  PROVE  /\ SplitBy(s, separators) \in PartLists
         /\ SplitBy(Append(s, o), separators) = SplitByStep(SplitBy(s, separators), separators, o)
<1>1. PICK g : g = SplitByStepOf(separators)
  OBVIOUS
<1>2. PICK b : b = << << >> >>
  OBVIOUS
<1>3. b \in PartLists /\ g \in [PartLists \X Octet -> PartLists]
  BY <1>1, <1>2, SplitByStepParts DEF SplitByStepOf, PartLists
<1>4. Append(s, o) \in Seq(Octet)
  OBVIOUS
<1>5. PICK x : x = SplitBy(s, separators) /\ FoldsTo(x, s, PartLists, b, g)
  BY <1>1, <1>2, SplitByFold
<1>6. PICK y : y = SplitBy(Append(s, o), separators) /\ FoldsTo(y, Append(s, o), PartLists, b, g)
  BY <1>1, <1>2, <1>4, SplitByFold
<1>7. Moves(x, y, PartLists, o, g)
  <2>1. FoldsTo(x, s, PartLists, b, g) /\ FoldsTo(y, Append(s, o), PartLists, b, g)
    BY <1>5, <1>6
  <2>2. b \in PartLists
    BY <1>3
  <2>3. g \in [PartLists \X Octet -> PartLists]
    BY <1>3
  <2>4. s \in Seq(Octet) /\ o \in Octet
    OBVIOUS
  <2> QED BY <2>1, <2>2, <2>3, <2>4, FoldsAppend, Zenon
<1>8. g[<<x, o>>] = SplitByStep(x, separators, o)
  BY <1>1, <1>7 DEF SplitByStepOf, Moves
<1> QED BY <1>5, <1>6, <1>7, <1>8 DEF Moves

NextParts(dirs, name, separators, o) ==
  IF o \in separators THEN Append(Append(dirs, name), << >>) ELSE Append(dirs, Append(name, o))

LEMMA SplitByLast ==
  ASSUME NEW dirs \in Seq(Seq(Octet)), NEW name \in Seq(Octet), NEW separators, NEW o \in Octet
  PROVE  SplitByStep(Append(dirs, name), separators, o) = NextParts(dirs, name, separators, o)
<1>1. PICK p : p = Append(dirs, name)
  OBVIOUS
<1>2. Len(p) = Len(dirs) + 1 /\ p[Len(p)] = name /\ p \in Seq(Seq(Octet))
  BY <1>1
<1>3. [p EXCEPT ![Len(p)] = Append(name, o)] = Append(dirs, Append(name, o))
  <2>1. PICK n \in Nat : n = Len(dirs)
    OBVIOUS
  <2>2. PICK m : m = Append(name, o)
    OBVIOUS
  <2>3. m \in Seq(Octet)
    BY <2>2
  <2>4. PICK q : q = [p EXCEPT ![n + 1] = m]
    OBVIOUS
  <2>5. PICK r : r = Append(dirs, m)
    OBVIOUS
  <2>6. Len(p) = n + 1 /\ n + 1 \in 1..n + 1 /\ \A i \in 1..n : p[i] = dirs[i] /\ i \in 1..n + 1 /\ i # n + 1
    BY <1>1, <2>1
  <2>7. q \in Seq(Seq(Octet)) /\ Len(q) = n + 1
    BY <1>2, <2>3, <2>4, <2>6
  <2>8. r \in Seq(Seq(Octet)) /\ Len(r) = n + 1 /\ r[n + 1] = m /\ \A i \in 1..n : r[i] = dirs[i]
    BY <2>1, <2>3, <2>5
  <2>9. DOMAIN p = 1..n + 1
    BY <1>2, <2>6
  <2>10. q[n + 1] = m /\ \A i \in 1..n : q[i] = dirs[i]
    BY <2>4, <2>6, <2>9, Zenon
  <2>11. \A i \in 1..n + 1 : i \in 1..n \/ i = n + 1
    OBVIOUS
  <2>12. \A i \in 1..n + 1 : q[i] = r[i]
    BY <2>8, <2>10, <2>11, Zenon
  <2>13. q = r
    BY <2>7, <2>8, <2>12, SeqEqual
  <2> QED BY <2>2, <2>4, <2>5, <2>6, <2>13
<1> QED BY <1>1, <1>2, <1>3 DEF SplitByStep, NextParts

(* One separator. *)
SplitStep(parts, separator, o) ==
  IF o = separator THEN Append(parts, << >>) ELSE [parts EXCEPT ![Len(parts)] = Append(@, o)]

LEMMA SplitSteps ==
  ASSUME NEW parts, NEW separator, NEW o PROVE SplitByStep(parts, {separator}, o) = SplitStep(parts, separator, o)
<1>1. o \in {separator} <=> o = separator
  OBVIOUS
<1> QED BY <1>1, Zenon DEF SplitByStep, SplitStep

LEMMA SplitNothing == ASSUME NEW separator PROVE SplitAt(<< >>, separator) = << << >> >>
BY SplitByNothing DEF SplitAt

LEMMA SplitGrows ==
  ASSUME NEW s \in Seq(Octet), NEW separator, NEW o \in Octet
  PROVE  /\ SplitAt(s, separator) \in PartLists
         /\ SplitAt(Append(s, o), separator) = SplitStep(SplitAt(s, separator), separator, o)
<1>1. PICK separators : separators = {separator}
  OBVIOUS
<1>2. /\ SplitBy(s, separators) \in PartLists
      /\ SplitBy(Append(s, o), separators) = SplitByStep(SplitBy(s, separators), separators, o)
  BY SplitByGrows
<1> QED BY <1>1, <1>2, SplitSteps DEF SplitAt

LEMMA SplitStepLast ==
  ASSUME NEW dirs \in Seq(Seq(Octet)), NEW name \in Seq(Octet), NEW separator, NEW o \in Octet
  PROVE  SplitStep(Append(dirs, name), separator, o) =
           IF o = separator THEN Append(Append(dirs, name), << >>) ELSE Append(dirs, Append(name, o))
<1>1. PICK separators : separators = {separator}
  OBVIOUS
<1>2. SplitByStep(Append(dirs, name), separators, o) =
        IF o \in separators THEN Append(Append(dirs, name), << >>) ELSE Append(dirs, Append(name, o))
  <2>1. SplitByStep(Append(dirs, name), separators, o) = NextParts(dirs, name, separators, o)
    BY SplitByLast, Zenon
  <2> QED BY <2>1, Zenon DEF NextParts
<1>3. o \in separators <=> o = separator
  BY <1>1
<1> QED BY <1>1, <1>2, <1>3, SplitSteps, Zenon

(* s divides into dirs and, last, name. *)
Divides(s, separator, dirs, name) ==
  /\ s \in Seq(Octet) /\ dirs \in Seq(Seq(Octet)) /\ name \in Seq(Octet)
  /\ SplitAt(s, separator) = Append(dirs, name)

HoldsNo(t, separator) == t \in Seq(Octet) /\ \A i \in DOMAIN t : t[i] # separator

(* What follows and holds no separator goes to the last part. *)
LEMMA SplitMore ==
  ASSUME NEW s, NEW separator, NEW dirs, NEW name, NEW t,
         Divides(s, separator, dirs, name), HoldsNo(t, separator)
  PROVE  Divides(s \o t, separator, dirs, name \o t)
<1> SUFFICES ASSUME s \in Seq(Octet), dirs \in Seq(Seq(Octet)), name \in Seq(Octet), t \in Seq(Octet),
                    SplitAt(s, separator) = Append(dirs, name), \A i \in DOMAIN t : t[i] # separator
             PROVE  SplitAt(s \o t, separator) = Append(dirs, name \o t)
  <2>1. (s \in Seq(Octet) /\ t \in Seq(Octet)) => s \o t \in Seq(Octet)
    OBVIOUS
  <2>2. (name \in Seq(Octet) /\ t \in Seq(Octet)) => name \o t \in Seq(Octet)
    OBVIOUS
  <2> QED BY <2>1, <2>2, Zenon DEF Divides, HoldsNo
<1> DEFINE T == {u \in Seq(Octet) : (\A i \in DOMAIN u : u[i] # separator) =>
                                      SplitAt(s \o u, separator) = Append(dirs, name \o u)}
<1>1. << >> \in T
  <2>1. s \o << >> = s /\ name \o << >> = name
    OBVIOUS
  <2> QED BY <2>1
<1>2. ASSUME NEW u \in Seq(Octet), NEW e \in Octet, u \in T PROVE Append(u, e) \in T
  <2> SUFFICES ASSUME \A i \in DOMAIN Append(u, e) : Append(u, e)[i] # separator
               PROVE  SplitAt(s \o Append(u, e), separator) = Append(dirs, name \o Append(u, e))
    <3>1. Append(u, e) \in Seq(Octet)
      OBVIOUS
    <3> QED BY <3>1
  <2>1. e # separator /\ \A i \in DOMAIN u : u[i] # separator
    <3>1. DOMAIN Append(u, e) = 1..Len(u) + 1 /\ Append(u, e)[Len(u) + 1] = e
          /\ \A i \in 1..Len(u) : Append(u, e)[i] = u[i] /\ i \in 1..Len(u) + 1
      OBVIOUS
    <3>2. DOMAIN u = 1..Len(u) /\ Len(u) + 1 \in 1..Len(u) + 1
      OBVIOUS
    <3> QED BY <3>1, <3>2, Zenon
  <2>2. SplitAt(s \o u, separator) = Append(dirs, name \o u)
    BY <1>2, <2>1
  <2>3. s \o Append(u, e) = Append(s \o u, e) /\ name \o Append(u, e) = Append(name \o u, e)
    BY AppendCat
  <2>4. s \o u \in Seq(Octet) /\ name \o u \in Seq(Octet)
    OBVIOUS
  <2>5. PICK x \in Seq(Octet), v \in Seq(Octet) : x = s \o u /\ v = name \o u
    BY <2>4
  <2>6. SplitAt(Append(x, e), separator) = SplitStep(SplitAt(x, separator), separator, e)
    BY SplitGrows
  <2>7. SplitStep(Append(dirs, v), separator, e) = Append(dirs, Append(v, e))
    BY <2>1, SplitStepLast
  <2> QED BY <2>2, <2>3, <2>5, <2>6, <2>7
<1> HIDE DEF T
<1>3. Seq(Octet) \subseteq T
  BY <1>1, <1>2, AllSequences
<1> QED BY <1>3 DEF T

(* catpath () joins the names, a slash after each. *)
JoinStep == [p \in Seq(Octet) \X Seq(Octet) |-> p[1] \o p[2] \o <<SLASH>>]

PathJoins(x, dirs) == FoldsTo(x, dirs, Seq(Octet), << >>, JoinStep)

LEMMA JoinSteps == JoinStep \in [Seq(Octet) \X Seq(Octet) -> Seq(Octet)]
<1>1. ASSUME NEW a \in Seq(Octet), NEW b \in Seq(Octet) PROVE a \o b \o <<SLASH>> \in Seq(Octet)
  <2>1. SLASH \in Octet
    BY DEF SLASH, Octet
  <2>2. <<SLASH>> \in Seq(Octet) /\ a \o b \in Seq(Octet)
    BY <2>1
  <2> QED BY <2>2
<1> QED BY <1>1 DEF JoinStep

LEMMA JoinsMore ==
  ASSUME NEW dirs \in Seq(Seq(Octet)), NEW name \in Seq(Octet), NEW x, NEW y,
         PathJoins(x, dirs), PathJoins(y, Append(dirs, name))
  PROVE  y = x \o name \o <<SLASH>> /\ x \in Seq(Octet) /\ y \in Seq(Octet)
<1>1. PICK b : b = << >>
  OBVIOUS
<1>2. b \in Seq(Octet)
  BY <1>1
<1>3. FoldsTo(x, dirs, Seq(Octet), b, JoinStep) /\ FoldsTo(y, Append(dirs, name), Seq(Octet), b, JoinStep)
  BY <1>1 DEF PathJoins
<1>4. Moves(x, y, Seq(Octet), name, JoinStep)
  BY <1>2, <1>3, JoinSteps, FoldsAppend, Zenon
<1>5. x \in Seq(Octet) /\ y \in Seq(Octet) /\ y = JoinStep[<<x, name>>]
  BY <1>4 DEF Moves
<1> QED BY <1>5 DEF JoinStep

LEMMA JoinsAre ==
  ASSUME NEW dirs \in Seq(Seq(Octet)), NEW x, NEW y, PathJoins(x, dirs), PathJoins(y, dirs)
  PROVE  x = y /\ x \in Seq(Octet)
<1>1. PICK n \in Nat : n = Len(dirs)
  OBVIOUS
<1>2. PICK f : Traces(f, dirs, Seq(Octet), << >>, JoinStep) /\ f[n] = x
  BY <1>1 DEF PathJoins, FoldsTo
<1>3. PICK h : Traces(h, dirs, Seq(Octet), << >>, JoinStep) /\ h[n] = y
  BY <1>1 DEF PathJoins, FoldsTo
<1>4. StepsAgree(f, h, n)
  BY <1>1, <1>2, <1>3 DEF Traces, StepsAgree
<1>5. n \in 0..n
  OBVIOUS
<1>6. f[n] \in Seq(Octet)
  BY <1>1, <1>2, <1>5 DEF Traces
<1> QED BY <1>2, <1>3, <1>4, <1>6, FoldsAgree

LEMMA PathNamed ==
  ASSUME NEW d, d.dirs \in Seq(Seq(Octet))
  PROVE  \E x : PathJoins(x, d.dirs) /\ PathName(d) = x \o d.name
<1> DEFINE n == Len(d.dirs)
           body(g) == [k \in 0..n |-> IF k = 0 THEN << >> ELSE g[k - 1] \o d.dirs[k] \o <<SLASH>>]
           parent == CHOOSE g : g = body(g)
<1>1. n \in Nat /\ << >> \in Seq(Octet)
  OBVIOUS
<1>2. PathName(d) = parent[n] \o d.name
  BY Zenon DEF PathName
<1>3. PICK w : Folded(w, d.dirs, Seq(Octet), << >>, JoinStep)
  BY <1>1, JoinSteps, FoldedExists
<1>4. WouldFold(w, d.dirs, Seq(Octet), << >>, JoinStep)
  BY <1>3, Zenon DEF Folded, WouldFold
<1>5. FoldsTo(w[1..n], d.dirs, Seq(Octet), << >>, JoinStep)
  BY <1>1, <1>4, JoinSteps, FoldedTrace, Zenon
<1>6. PICK f : Traces(f, d.dirs, Seq(Octet), << >>, JoinStep)
  BY <1>5 DEF FoldsTo
<1>7. f = body(f)
  <2>1. f = [k \in 0..n |-> f[k]] /\ f[0] = << >>
    BY <1>6, Zenon DEF Traces
  <2>2. ASSUME NEW k \in 0..n, k # 0 PROVE f[k] = f[k - 1] \o d.dirs[k] \o <<SLASH>>
    <3>1. k \in 1..n /\ k - 1 \in 0..n
      BY <1>1, <2>2
    <3>2. f[k] = JoinStep[<<f[k - 1], d.dirs[k]>>]
      BY <1>6, <3>1, Zenon DEF Traces
    <3>3. f[k - 1] \in Seq(Octet)
      BY <1>6, <3>1, Zenon DEF Traces
    <3>4. d.dirs[k] \in Seq(Octet)
      BY <3>1
    <3> QED BY <3>2, <3>3, <3>4 DEF JoinStep
  <2>3. \A k \in 0..n : f[k] = IF k = 0 THEN << >> ELSE f[k - 1] \o d.dirs[k] \o <<SLASH>>
    BY <2>1, <2>2, Zenon
  <2> QED BY <2>1, <2>3, Zenon
<1>8. parent = body(parent)
  <2> HIDE DEF body
  <2> QED BY <1>7, Zenon
<1>9. Traces(parent, d.dirs, Seq(Octet), << >>, JoinStep)
  <2>1. parent[0] = << >>
    <3> HIDE DEF parent
    <3>1. 0 \in 0..n
      BY <1>1
    <3> QED BY <1>8, <3>1, Zenon
  <2>2. ASSUME NEW k \in 1..n, parent[k - 1] \in Seq(Octet)
        PROVE  parent[k] = JoinStep[<<parent[k - 1], d.dirs[k]>>] /\ parent[k] \in Seq(Octet)
    <3>1. k \in 0..n /\ k # 0 /\ d.dirs[k] \in Seq(Octet)
      BY <1>1
    <3>2. parent[k] = parent[k - 1] \o d.dirs[k] \o <<SLASH>>
      <4> HIDE DEF parent
      <4> QED BY <1>8, <3>1, Zenon
    <3> HIDE DEF parent
    <3>3. JoinStep[<<parent[k - 1], d.dirs[k]>>] \in Seq(Octet)
      BY <2>2, <3>1, JoinSteps
    <3> QED BY <2>2, <3>1, <3>2, <3>3 DEF JoinStep
  <2> HIDE DEF parent
  <2> DEFINE T == {k \in Nat : k <= n => parent[k] \in Seq(Octet)}
  <2>3. 0 \in T
    BY <1>1, <2>1
  <2>4. ASSUME NEW k \in Nat, k \in T PROVE k + 1 \in T
    <3> SUFFICES ASSUME k + 1 <= n PROVE parent[k + 1] \in Seq(Octet)
      OBVIOUS
    <3>1. k + 1 \in 1..n /\ (k + 1) - 1 = k /\ k <= n
      BY <1>1
    <3> QED BY <2>2, <2>4, <3>1
  <2> HIDE DEF T
  <2>5. Nat \subseteq T
    BY <2>3, <2>4, AllNumbers
  <2>6. \A k \in 0..n : parent[k] \in Seq(Octet)
    BY <1>1, <2>5 DEF T
  <2>7. parent \in [0..n -> Seq(Octet)]
    BY <1>8, <2>6, Zenon
  <2>8. \A k \in 1..n : k - 1 \in 0..n
    BY <1>1
  <2> QED BY <2>1, <2>2, <2>6, <2>7, <2>8, Zenon DEF Traces
<1>10. PathJoins(parent[n], d.dirs)
  <2> HIDE DEF parent
  <2> QED BY <1>9, Zenon DEF PathJoins, FoldsTo
<1> HIDE DEF parent
<1> QED BY <1>2, <1>10

(* What a step does to the name that is put together. *)
LEMMA NameGrows ==
  ASSUME NEW d, NEW e, d.dirs \in Seq(Seq(Octet)), d.name \in Seq(Octet), NEW o \in Octet,
         e.dirs = d.dirs, e.name = Append(d.name, o)
  PROVE  PathName(e) = Append(PathName(d), o)
<1>1. PICK x : PathJoins(x, d.dirs) /\ PathName(d) = x \o d.name
  BY PathNamed
<1>2. PICK y : PathJoins(y, d.dirs) /\ PathName(e) = y \o e.name
  BY PathNamed
<1>3. x = y /\ x \in Seq(Octet)
  BY <1>1, <1>2, JoinsAre
<1>4. PathName(e) = x \o Append(d.name, o)
  BY <1>2, <1>3, Zenon
<1>5. x \o Append(d.name, o) = Append(x \o d.name, o)
  BY <1>3, AppendCat
<1> QED BY <1>1, <1>4, <1>5, Zenon

LEMMA NameEnters ==
  ASSUME NEW d, NEW e, d.dirs \in Seq(Seq(Octet)), d.name \in Seq(Octet),
         e.dirs = Append(d.dirs, d.name), e.name = << >>
  PROVE  PathName(e) = Append(PathName(d), SLASH)
<1>0. e.dirs \in Seq(Seq(Octet)) /\ SLASH \in Octet
  BY DEF SLASH, Octet
<1>1. PICK x : PathJoins(x, d.dirs) /\ PathName(d) = x \o d.name
  BY PathNamed
<1>2. PICK y : PathJoins(y, e.dirs) /\ PathName(e) = y \o e.name
  BY <1>0, PathNamed
<1>3. y = x \o d.name \o <<SLASH>> /\ x \in Seq(Octet) /\ y \in Seq(Octet)
  BY <1>1, <1>2, JoinsMore
<1>4. x \o d.name \in Seq(Octet)
  BY <1>3
<1>5. Append(x \o d.name, SLASH) = x \o d.name \o <<SLASH>>
  BY <1>0, <1>4, AppendIsConcat
<1>6. y \o << >> = y
  BY <1>3
<1> QED BY <1>1, <1>2, <1>3, <1>5, <1>6

PathRecords ==
  [next_state : 0..7, dirs : Seq(Seq(Octet)), name : Seq(Octet), ext : Seq(Octet)]

Marks == {DOT, DASH, USCORE}

(* The last octet, by the state it left. *)
EndsIn(state, o) ==
  /\ state = 2 => o = SLASH
  /\ state \in {3, 6} => o \in Alnum
  /\ state \in {4, 7} => o \in {DASH, USCORE}
  /\ state = 5 => o = DOT

AfterAlnum(s, i)  == s[i] \notin Alnum => (i = 1 /\ s[i] = SLASH) \/ (i > 1 /\ s[i - 1] \in Alnum)
BeforeAlnum(s, i) == s[i] \notin Alnum => s[i + 1] \in Alnum

PathSoFar(s, state) ==
  /\ state = 1 => s = << >>
  /\ state # 1 => s # << >> /\ s[1] = SLASH /\ EndsIn(state, s[Len(s)])
  /\ \A i \in 1..Len(s) : s[i] \in Alnum \cup Marks \cup {SLASH} /\ AfterAlnum(s, i)
  /\ \A i \in 1..Len(s) - 1 : BeforeAlnum(s, i)

LEMMA Signs == /\ SLASH \notin Alnum /\ DOT \notin Alnum /\ DASH \notin Alnum /\ USCORE \notin Alnum
               /\ SLASH \notin Marks /\ SLASH \in Octet /\ DOT \in Octet /\ DOT # SLASH
               /\ DASH # DOT /\ USCORE # DOT /\ SLASH # DASH /\ SLASH # USCORE
BY DEF SLASH, DOT, DASH, USCORE, Alnum, Digit, Upper, Lower, Marks, Octet

LEMMA PathShiftCases ==
  ASSUME NEW s \in 0..7, NEW o, NEW t, t = PathShift(s, o), t # 0
  PROVE  \/ s \in {1, 3, 6} /\ o = SLASH /\ t = 2
         \/ s \in {3, 6} /\ o = DOT /\ t = 5
         \/ s = 3 /\ o \in {DASH, USCORE} /\ t = 4
         \/ s = 6 /\ o \in {DASH, USCORE} /\ t = 7
         \/ s \in {2, 3, 4} /\ o \in Alnum /\ t = 3
         \/ s \in {5, 6, 7} /\ o \in Alnum /\ t = 6
BY Signs DEF PathShift

LEMMA PathGrows ==
  ASSUME NEW s \in Seq(Octet), NEW state \in 1..7, PathSoFar(s, state), NEW o \in Octet,
         NEW next, next = PathShift(state, o), next # 0
  PROVE  PathSoFar(Append(s, o), next) /\ next \in 2..7
<1>0. state \in 0..7
  OBVIOUS
<1>1. PICK n \in Nat : n = Len(s)
  OBVIOUS
<1>2. PICK r : r = Append(s, o)
  OBVIOUS
<1>3. Len(r) = n + 1 /\ r[n + 1] = o /\ r # << >> /\ \A i \in 1..n : r[i] = s[i]
  BY <1>1, <1>2
<1>4. next \in 2..7 /\ EndsIn(next, o)
  BY <1>0, PathShiftCases, Signs DEF EndsIn
<1>5. r[1] = SLASH
  <2>1. CASE state = 1
    <3>1. o = SLASH
      BY <1>0, <2>1, PathShiftCases
    <3>2. n = 0
      BY <1>1, <2>1 DEF PathSoFar
    <3> QED BY <1>3, <3>1, <3>2
  <2>2. CASE state # 1
    <3>1. s[1] = SLASH /\ n # 0
      BY <1>1, <2>2 DEF PathSoFar
    <3> QED BY <1>3, <3>1
  <2> QED BY <2>1, <2>2
<1>6. o \in Alnum \cup Marks \cup {SLASH}
  BY <1>0, PathShiftCases DEF Marks
<1>7. o \notin Alnum => state \in {1, 3, 6} /\ (state = 1 => o = SLASH)
  BY <1>0, PathShiftCases
<1>8. ASSUME o \notin Alnum, state \in {3, 6} PROVE n # 0 /\ s[n] \in Alnum
  BY <1>1, <1>8 DEF PathSoFar, EndsIn
<1>9. AfterAlnum(r, n + 1)
  <2>1. CASE o \in Alnum
    BY <1>3, <2>1 DEF AfterAlnum
  <2>2. CASE o \notin Alnum /\ state = 1
    <3>1. n = 0
      BY <1>1, <2>2 DEF PathSoFar
    <3> QED BY <1>3, <1>7, <2>2, <3>1 DEF AfterAlnum
  <2>3. CASE o \notin Alnum /\ state # 1
    <3>1. n # 0 /\ s[n] \in Alnum
      BY <1>7, <1>8, <2>3
    <3>2. (n + 1) - 1 = n /\ n \in 1..n /\ n + 1 > 1
      BY <3>1
    <3> QED BY <1>3, <3>1, <3>2 DEF AfterAlnum
  <2> QED BY <2>1, <2>2, <2>3
<1>10. ASSUME NEW i \in 1..n PROVE AfterAlnum(r, i) /\ r[i] \in Alnum \cup Marks \cup {SLASH}
  <2>1. AfterAlnum(s, i) /\ s[i] \in Alnum \cup Marks \cup {SLASH}
    BY <1>1, <1>10 DEF PathSoFar
  <2>2. r[i] = s[i] /\ (i > 1 => r[i - 1] = s[i - 1])
    BY <1>3, <1>10
  <2> QED BY <2>1, <2>2 DEF AfterAlnum
<1>11. ASSUME NEW i \in 1..n PROVE BeforeAlnum(r, i)
  <2>1. CASE i < n
    <3>1. BeforeAlnum(s, i)
      BY <1>1, <1>11, <2>1 DEF PathSoFar
    <3>2. r[i] = s[i] /\ r[i + 1] = s[i + 1]
      BY <1>3, <1>11, <2>1
    <3> QED BY <3>1, <3>2 DEF BeforeAlnum
  <2>2. CASE i = n
    <3>1. state # 1
      BY <1>1, <1>11 DEF PathSoFar
    <3>2. s[n] \notin Alnum => state \in {2, 4, 5, 7}
      BY <1>1, <3>1 DEF PathSoFar, EndsIn
    <3>3. state \in {2, 4, 5, 7} => o \in Alnum
      BY <1>0, PathShiftCases
    <3> QED BY <1>3, <1>11, <2>2, <3>2, <3>3 DEF BeforeAlnum
  <2> QED BY <1>11, <2>1, <2>2
<1>12. \A i \in 1..n + 1 : i \in 1..n \/ i = n + 1
  OBVIOUS
<1>13. \A i \in 1..n + 1 : r[i] \in Alnum \cup Marks \cup {SLASH} /\ AfterAlnum(r, i)
  BY <1>3, <1>6, <1>9, <1>10, <1>12
<1>14. (n + 1) - 1 = n /\ next # 1
  BY <1>4
<1>15. PathSoFar(r, next)
  BY <1>3, <1>4, <1>5, <1>11, <1>13, <1>14, Zenon DEF PathSoFar
<1>16. PathSoFar(Append(s, o), next)
  BY <1>2, <1>15
<1> QED BY <1>4, <1>16

(* A text that led to one of three states is a path, and no other is. *)
LEMMA PathTaken ==
  ASSUME NEW s \in Seq(Octet), NEW state \in 1..7, PathSoFar(s, state)
  PROVE  IsPath(s) <=> state \in {2, 3, 6}
<1>1. PICK n \in Nat : n = Len(s) /\ DOMAIN s = 1..n
  OBVIOUS
<1>2. ASSUME state \in {2, 3, 6} PROVE IsPath(s)
  <2>1. s # << >> /\ n # 0 /\ s[1] = SLASH /\ (s[n] \in Alnum \/ s[n] = SLASH)
    BY <1>1, <1>2 DEF PathSoFar, EndsIn
  <2>2. ASSUME NEW i \in 1..n
        PROVE  /\ s[i] \in Alnum \cup {SLASH, DOT, DASH, USCORE}
               /\ s[i] \in {DOT, DASH, USCORE} => i > 1 /\ i < n /\ s[i - 1] \in Alnum /\ s[i + 1] \in Alnum
               /\ s[i] = SLASH => /\ i = 1 \/ s[i - 1] \in Alnum
                                  /\ i = n \/ s[i + 1] \in Alnum
    <3>1. s[i] \in Alnum \cup Marks \cup {SLASH} /\ AfterAlnum(s, i)
      BY <1>1, <2>2 DEF PathSoFar
    <3>2. i # n => BeforeAlnum(s, i)
      BY <1>1, <2>2 DEF PathSoFar
    <3>3. s[i] \in Marks => i # n
      BY <2>1, Signs DEF Marks
    <3>4. s[i] \in Marks => s[i] \notin Alnum /\ s[i] # SLASH
      BY Signs DEF Marks
    <3> QED BY <2>2, <3>1, <3>2, <3>3, <3>4, Signs DEF AfterAlnum, BeforeAlnum, Marks
  <2> QED BY <1>1, <2>1, <2>2, Zenon DEF IsPath
<1>3. ASSUME state \notin {2, 3, 6} PROVE ~IsPath(s)
  <2>1. CASE state = 1
    BY <2>1 DEF PathSoFar, IsPath
  <2>2. CASE state # 1
    <3>1. s[n] \in Marks /\ n \in 1..n
      BY <1>1, <1>3, <2>2 DEF PathSoFar, EndsIn, Marks
    <3>2. ~(n < Len(s))
      BY <1>1
    <3> QED BY <1>1, <3>1, <3>2, Zenon DEF IsPath, Marks
  <2> QED BY <2>1, <2>2
<1> QED BY <1>2, <1>3

Named(part) == part # << >> /\ part[1] \in Alnum

DotIn(name) == \E i \in 1..Len(name) : name[i] = DOT

PathNames(d) ==
  /\ d.next_state = 1 => d.dirs = << >>
  /\ d.next_state # 1 => d.dirs # << >> /\ d.dirs[1] = << >>
  /\ \A k \in 2..Len(d.dirs) : Named(d.dirs[k])
  /\ d.next_state \in {1, 2} => d.name = << >>
  /\ d.next_state \in 3..7 => Named(d.name) /\ (DotIn(d.name) <=> d.next_state \in 5..7)

PathExt(d) == d.next_state \in 5..7 => d.ext = Lowered(Last(SplitAt(d.name, DOT)))

PathDivided(s, d) ==
  /\ PathSoFar(s, d.next_state)
  /\ PathNames(d)
  /\ SplitAt(s, SLASH) = Append(d.dirs, d.name)
  /\ PathName(d) = s
  /\ PathExt(d)

PathReads(s, d) ==
  s \in Seq(Octet) /\ d \in PathRecords /\ (d.next_state # 0 => PathDivided(s, d))

PathFields(d, next, dirs, name, ext) ==
  d \in PathRecords /\ d.next_state = next /\ d.dirs = dirs /\ d.name = name /\ d.ext = ext

LEMMA PathChange ==
  ASSUME NEW d \in PathRecords, NEW next \in 0..7, NEW name \in Seq(Octet), NEW ext \in Seq(Octet)
  PROVE  /\ PathFields([d EXCEPT !.next_state = next, !.name = name], next, d.dirs, name, d.ext)
         /\ PathFields([d EXCEPT !.next_state = next, !.name = name, !.ext = ext], next, d.dirs, name, ext)
<1>1. d.next_state \in 0..7 /\ d.dirs \in Seq(Seq(Octet)) /\ d.name \in Seq(Octet) /\ d.ext \in Seq(Octet)
      /\ d = [next_state |-> d.next_state, dirs |-> d.dirs, name |-> d.name, ext |-> d.ext]
  BY DEF PathRecords
<1>2. PICK e : e = [d EXCEPT !.next_state = next, !.name = name]
  OBVIOUS
<1>3. e = [next_state |-> next, dirs |-> d.dirs, name |-> name, ext |-> d.ext]
  BY <1>1, <1>2
<1>4. PathFields(e, next, d.dirs, name, d.ext)
  BY <1>1, <1>3 DEF PathFields, PathRecords
<1>5. PICK f : f = [d EXCEPT !.next_state = next, !.name = name, !.ext = ext]
  OBVIOUS
<1>6. f = [next_state |-> next, dirs |-> d.dirs, name |-> name, ext |-> ext]
  BY <1>1, <1>5
<1>7. PathFields(f, next, d.dirs, name, ext)
  BY <1>1, <1>6 DEF PathFields, PathRecords
<1> QED BY <1>2, <1>4, <1>5, <1>7

LEMMA PathPutFields ==
  ASSUME NEW d \in PathRecords, NEW o \in Octet, NEW next, next = PathShift(d.next_state, o)
  PROVE  /\ next = 2 => PathFields(PathPut(d, o), 2, Append(d.dirs, d.name), << >>, << >>)
         /\ next \in {3, 4} => PathFields(PathPut(d, o), next, d.dirs, Append(d.name, o), d.ext)
         /\ next = 5 => PathFields(PathPut(d, o), 5, d.dirs, Append(d.name, o), << >>)
         /\ next \in {6, 7} =>
              PathFields(PathPut(d, o), next, d.dirs, Append(d.name, o), Append(d.ext, ToLower(o)))
<1>1. PICK e : e = PathPut(d, o)
  OBVIOUS
<1>2. /\ d.next_state \in 0..7 /\ d.dirs \in Seq(Seq(Octet)) /\ d.name \in Seq(Octet) /\ d.ext \in Seq(Octet)
      /\ ToLower(o) \in Octet
  BY DEF PathRecords, ToLower, Octet, Upper
<1>3. /\ << >> \in Seq(Octet) /\ Append(d.dirs, d.name) \in Seq(Seq(Octet))
      /\ Append(d.name, o) \in Seq(Octet) /\ Append(d.ext, ToLower(o)) \in Seq(Octet)
  BY <1>2
<1>5. ASSUME next = 2 PROVE PathFields(e, 2, Append(d.dirs, d.name), << >>, << >>)
  <2>1. e = [next_state |-> 2, dirs |-> Append(d.dirs, d.name), name |-> << >>, ext |-> << >>]
    BY <1>1, <1>5 DEF PathPut
  <2> QED BY <1>3, <2>1 DEF PathRecords, PathFields
<1>6. ASSUME next \in {3, 4} PROVE PathFields(e, next, d.dirs, Append(d.name, o), d.ext)
  <2>1. e = [d EXCEPT !.next_state = next, !.name = Append(d.name, o)]
    BY <1>1, <1>6 DEF PathPut
  <2>2. next \in 0..7
    BY <1>6
  <2> QED BY <1>3, <2>1, <2>2, PathChange, Zenon
<1>7. ASSUME next = 5 PROVE PathFields(e, 5, d.dirs, Append(d.name, o), << >>)
  <2>1. e = [d EXCEPT !.next_state = 5, !.name = Append(d.name, o), !.ext = << >>]
    BY <1>1, <1>7 DEF PathPut
  <2>2. 5 \in 0..7
    OBVIOUS
  <2> QED BY <1>3, <2>1, <2>2, PathChange, Zenon
<1>8. ASSUME next \in {6, 7}
      PROVE  PathFields(e, next, d.dirs, Append(d.name, o), Append(d.ext, ToLower(o)))
  <2>1. e = [d EXCEPT !.next_state = next, !.name = Append(d.name, o), !.ext = Append(d.ext, ToLower(o))]
    BY <1>1, <1>8 DEF PathPut
  <2>2. next \in 0..7
    BY <1>8
  <2> QED BY <1>3, <2>1, <2>2, PathChange, Zenon
<1> QED BY <1>1, <1>5, <1>6, <1>7, <1>8, Zenon

LEMMA PathPutRefuses ==
  ASSUME NEW d \in PathRecords, NEW o \in Octet, PathShift(d.next_state, o) = 0
  PROVE  PathPut(d, o) \in PathRecords /\ PathPut(d, o).next_state = 0
<1>1. PathPut(d, o) = [d EXCEPT !.next_state = 0]
  BY DEF PathPut
<1>2. d.next_state \in 0..7 /\ d.dirs \in Seq(Seq(Octet)) /\ d.name \in Seq(Octet) /\ d.ext \in Seq(Octet)
      /\ d = [next_state |-> d.next_state, dirs |-> d.dirs, name |-> d.name, ext |-> d.ext]
  BY DEF PathRecords
<1>3. PICK e : e = [d EXCEPT !.next_state = 0]
  OBVIOUS
<1>4. e = [next_state |-> 0, dirs |-> d.dirs, name |-> d.name, ext |-> d.ext]
  BY <1>2, <1>3
<1>5. e \in PathRecords /\ e.next_state = 0
  BY <1>2, <1>4 DEF PathRecords
<1> QED BY <1>1, <1>3, <1>5

LEMMA LoweredGrows ==
  ASSUME NEW s \in Seq(Octet), NEW o \in Octet
  PROVE  Lowered(Append(s, o)) = Append(Lowered(s), ToLower(o))
<1>1. PICK n \in Nat : n = Len(s)
  OBVIOUS
<1>2. ASSUME NEW t \in Seq(Octet) PROVE Lowered(t) \in Seq(Octet) /\ Len(Lowered(t)) = Len(t)
                                       /\ \A i \in 1..Len(t) : Lowered(t)[i] = ToLower(t[i])
  <2>1. \A o2 \in Octet : ToLower(o2) \in Octet
    BY DEF ToLower, Octet, Upper
  <2>2. \A i \in 1..Len(t) : t[i] \in Octet
    OBVIOUS
  <2>3. \A i \in 1..Len(t) : ToLower(t[i]) \in Octet
    BY <2>1, <2>2
  <2> QED BY <2>3 DEF Lowered
<1>3. PICK r : r = Append(s, o)
  OBVIOUS
<1>4. r \in Seq(Octet) /\ Len(r) = n + 1 /\ r[n + 1] = o /\ \A i \in 1..n : r[i] = s[i]
  BY <1>1, <1>3
<1>5. PICK l : l = Lowered(s)
  OBVIOUS
<1>6. l \in Seq(Octet) /\ Len(l) = n /\ \A i \in 1..n : l[i] = ToLower(s[i])
  BY <1>1, <1>2, <1>5
<1>7. PICK m : m = Append(l, ToLower(o))
  OBVIOUS
<1>8. ToLower(o) \in Octet
  BY DEF ToLower, Octet, Upper
<1>9. m \in Seq(Octet) /\ Len(m) = n + 1 /\ m[n + 1] = ToLower(o) /\ \A i \in 1..n : m[i] = l[i]
  BY <1>6, <1>7, <1>8
<1>10. PICK k : k = Lowered(r)
  OBVIOUS
<1>11. k \in Seq(Octet) /\ Len(k) = n + 1 /\ \A i \in 1..n + 1 : k[i] = ToLower(r[i])
  BY <1>2, <1>4, <1>10, Zenon
<1>12. \A i \in 1..n + 1 : i \in 1..n \/ i = n + 1
  OBVIOUS
<1>13. ASSUME NEW i \in 1..n + 1 PROVE k[i] = m[i]
  <2>1. k[i] = ToLower(r[i])
    BY <1>11
  <2>2. CASE i \in 1..n
    BY <1>4, <1>6, <1>9, <2>1, <2>2, Zenon
  <2>3. CASE i = n + 1
    BY <1>4, <1>9, <2>1, <2>3, Zenon
  <2> QED BY <1>12, <2>2, <2>3
<1>14. k = m
  BY <1>9, <1>11, <1>13, SeqEqual
<1> QED BY <1>3, <1>5, <1>7, <1>10, <1>14

LEMMA ExtGrows ==
  ASSUME NEW d, NEW e, d.name \in Seq(Octet), NEW o \in Octet, e.name = Append(d.name, o),
         o # DOT, e.ext = Append(d.ext, ToLower(o)), d.ext = Lowered(Last(SplitAt(d.name, DOT)))
  PROVE  e.ext = Lowered(Last(SplitAt(e.name, DOT)))
<1>1. PICK p : p = SplitAt(d.name, DOT)
  OBVIOUS
<1>2. p \in PartLists /\ SplitAt(e.name, DOT) = SplitStep(p, DOT, o)
  BY <1>1, SplitGrows
<1>3. PICK n : n = Len(p)
  OBVIOUS
<1>4. p \in Seq(Seq(Octet)) /\ n \in Nat /\ n # 0
  BY <1>2, <1>3 DEF PartLists
<1>5. p[n] \in Seq(Octet)
  BY <1>3, <1>4
<1>6. PICK q : q = [p EXCEPT ![n] = Append(p[n], o)]
  OBVIOUS
<1>7. SplitAt(e.name, DOT) = q
  BY <1>2, <1>3, <1>6 DEF SplitStep
<1>8. Len(q) = n /\ q[n] = Append(p[n], o)
  BY <1>3, <1>4, <1>6
<1>9. Last(p) = p[n] /\ Last(q) = q[n]
  BY <1>3, <1>8 DEF Last
<1> QED BY <1>1, <1>5, <1>7, <1>8, <1>9, LoweredGrows

LEMMA ExtStarts ==
  ASSUME NEW name \in Seq(Octet)
  PROVE  Lowered(Last(SplitAt(Append(name, DOT), DOT))) = << >>
<1>1. PICK p : p = SplitAt(name, DOT)
  OBVIOUS
<1>2. p \in PartLists /\ SplitAt(Append(name, DOT), DOT) = SplitStep(p, DOT, DOT)
  BY <1>1, Signs, SplitGrows
<1>3. PICK q : q = Append(p, << >>)
  OBVIOUS
<1>4. SplitAt(Append(name, DOT), DOT) = q
  BY <1>2, <1>3 DEF SplitStep
<1>5. q[Len(q)] = << >>
  <2>1. p \in Seq(Seq(Octet))
    BY <1>2 DEF PartLists
  <2> QED BY <1>3, <2>1
<1>6. Last(q) = << >>
  BY <1>5 DEF Last
<1>7. Lowered(<< >>) = << >>
  BY DEF Lowered
<1> QED BY <1>4, <1>6, <1>7

(* b is a with x at its end. *)
Longer(b, a, x) ==
  Len(b) = Len(a) + 1 /\ b # << >> /\ b[Len(a) + 1] = x /\ \A i \in 1..Len(a) : b[i] = a[i]

LEMMA Appended ==
  ASSUME NEW S, NEW a, NEW x, a \in Seq(S), x \in S PROVE Longer(Append(a, x), a, x)
BY DEF Longer

(* A step that adds to the name. *)
LEMMA NameReads ==
  ASSUME NEW s, NEW d, NEW o \in Octet, NEW next \in 3..7, NEW e, PathReads(s, d),
         d.next_state \in 2..7, next = PathShift(d.next_state, o),
         PathFields(e, next, d.dirs, Append(d.name, o), e.ext), PathExt(e)
  PROVE  PathReads(Append(s, o), e)
<1>1. s \in Seq(Octet) /\ Append(s, o) \in Seq(Octet) /\ d.dirs \in Seq(Seq(Octet)) /\ d.name \in Seq(Octet)
  BY DEF PathReads, PathRecords
<1>2. PathDivided(s, d) /\ d.next_state \in 1..7 /\ d.next_state \in 0..7
  BY DEF PathReads
<1>3. e \in PathRecords /\ e.next_state = next /\ e.dirs = d.dirs /\ e.name = Append(d.name, o)
  BY DEF PathFields
<1>4. PathSoFar(Append(s, o), next)
  BY <1>1, <1>2, PathGrows DEF PathDivided
<1>5. o # SLASH
  BY <1>2, PathShiftCases, Signs
<1>6. SplitAt(Append(s, o), SLASH) = Append(e.dirs, e.name)
  <2>1. SplitAt(Append(s, o), SLASH) = SplitStep(SplitAt(s, SLASH), SLASH, o)
    BY <1>1, SplitGrows
  <2>2. SplitAt(s, SLASH) = Append(d.dirs, d.name)
    BY <1>2 DEF PathDivided
  <2>3. SplitStep(Append(d.dirs, d.name), SLASH, o) = Append(d.dirs, Append(d.name, o))
    BY <1>1, <1>5, SplitStepLast, SMTT(30)
  <2> QED BY <1>3, <2>1, <2>2, <2>3
<1>7. PathName(e) = Append(s, o)
  BY <1>1, <1>2, <1>3, NameGrows DEF PathDivided
<1>8. PathNames(e)
  <2>1. e.dirs # << >> /\ e.dirs[1] = << >> /\ \A k \in 2..Len(e.dirs) : Named(e.dirs[k])
    BY <1>2, <1>3 DEF PathDivided, PathNames
  <2>2. PICK n \in Nat : n = Len(d.name)
    BY <1>1
  <2>3. PICK m : m = e.name
    OBVIOUS
  <2>4. Len(m) = n + 1 /\ m # << >> /\ m[n + 1] = o /\ \A i \in 1..n : m[i] = d.name[i]
    <3>1. Longer(Append(d.name, o), d.name, o)
      BY <1>1, Appended, Zenon
    <3>2. Longer(m, d.name, o)
      BY <1>3, <2>3, <3>1, Zenon
    <3> QED BY <2>2, <3>2, Zenon DEF Longer
  <2>5. Named(m)
    <3>1. CASE d.next_state = 2
      <4>1. n = 0 /\ o \in Alnum
        BY <1>1, <1>2, <2>2, <3>1, PathShiftCases, SMTT(30) DEF PathDivided, PathNames
      <4> QED BY <2>4, <4>1 DEF Named
    <3>2. CASE d.next_state # 2
      <4>1. Named(d.name) /\ n # 0
        BY <1>1, <1>2, <2>2, <3>2 DEF PathDivided, PathNames, Named
      <4> QED BY <2>4, <4>1 DEF Named
    <3> QED BY <3>1, <3>2
  <2>6. DotIn(m) <=> DotIn(d.name) \/ o = DOT
    <3>1. n + 1 \in 1..n + 1 /\ \A i \in 1..n + 1 : i \in 1..n \/ i = n + 1
      OBVIOUS
    <3>2. \A i \in 1..n : i \in 1..n + 1
      OBVIOUS
    <3> QED BY <2>2, <2>4, <3>1, <3>2, Zenon DEF DotIn
  <2>7. DotIn(d.name) <=> d.next_state \in 5..7
    <3>1. CASE d.next_state = 2
      <4>1. d.name = << >>
        BY <1>2, <3>1 DEF PathDivided, PathNames
      <4> QED BY <3>1, <4>1 DEF DotIn
    <3>2. CASE d.next_state # 2
      BY <1>2, <3>2 DEF PathDivided, PathNames
    <3> QED BY <3>1, <3>2
  <2>8. DotIn(m) <=> next \in 5..7
    <3>1. o = DOT => next = 5
      BY <1>2, PathShiftCases, Signs
    <3>2. o # DOT => (next \in 5..7 <=> d.next_state \in 5..7)
      BY <1>2, PathShiftCases
    <3> QED BY <2>6, <2>7, <3>1, <3>2
  <2> QED BY <1>3, <2>1, <2>3, <2>5, <2>8 DEF PathNames
<1> QED BY <1>1, <1>3, <1>4, <1>6, <1>7, <1>8 DEF PathReads, PathDivided

(* A slash ends a name. *)
LEMMA SlashReads ==
  ASSUME NEW s, NEW d, NEW e, PathReads(s, d),
         d.next_state \in 1..7, 2 = PathShift(d.next_state, SLASH),
         PathFields(e, 2, Append(d.dirs, d.name), << >>, << >>)
  PROVE  PathReads(Append(s, SLASH), e)
<1>1. /\ s \in Seq(Octet) /\ Append(s, SLASH) \in Seq(Octet)
      /\ d.dirs \in Seq(Seq(Octet)) /\ d.name \in Seq(Octet)
  BY Signs DEF PathReads, PathRecords
<1>2. PathDivided(s, d) /\ d.next_state \in 0..7
  BY DEF PathReads
<1>3. e \in PathRecords /\ e.next_state = 2 /\ e.dirs = Append(d.dirs, d.name) /\ e.name = << >>
  BY DEF PathFields
<1>4. PathSoFar(Append(s, SLASH), 2)
  BY <1>1, <1>2, Signs, PathGrows DEF PathDivided
<1>5. SplitAt(Append(s, SLASH), SLASH) = Append(e.dirs, e.name)
  <2>1. SplitAt(Append(s, SLASH), SLASH) = SplitStep(SplitAt(s, SLASH), SLASH, SLASH)
    BY <1>1, Signs, SplitGrows
  <2>2. SplitAt(s, SLASH) = Append(d.dirs, d.name)
    BY <1>2 DEF PathDivided
  <2>3. SplitStep(Append(d.dirs, d.name), SLASH, SLASH) = Append(Append(d.dirs, d.name), << >>)
    BY <1>1, Signs, SplitStepLast
  <2> QED BY <1>3, <2>1, <2>2, <2>3
<1>6. PathName(e) = Append(s, SLASH)
  BY <1>1, <1>2, <1>3, NameEnters DEF PathDivided
<1>7. PathNames(e)
  <2>1. PICK n \in Nat : n = Len(d.dirs)
    BY <1>1
  <2>2. PICK f : f = e.dirs
    OBVIOUS
  <2>3. Len(f) = n + 1 /\ f # << >> /\ f[n + 1] = d.name /\ \A i \in 1..n : f[i] = d.dirs[i]
    <3>1. f = Append(d.dirs, d.name)
      BY <1>3, <2>2
    <3>2. PICK a \in Seq(Seq(Octet)), x \in Seq(Octet) : a = d.dirs /\ x = d.name
      BY <1>1
    <3>3. n = Len(a) /\ f = Append(a, x)
      BY <2>1, <3>1, <3>2
    <3>4. Longer(f, a, x)
      BY <3>2, <3>3, Appended, Zenon
    <3> QED BY <3>2, <3>3, <3>4 DEF Longer
  <2>4. CASE d.next_state = 1
    <3>1. n = 0 /\ d.name = << >>
      BY <1>2, <2>1, <2>4 DEF PathDivided, PathNames
    <3>2. f[1] = << >> /\ \A k \in 2..Len(f) : Named(f[k])
      BY <2>3, <3>1
    <3> QED BY <1>3, <2>2, <2>3, <3>2 DEF PathNames
  <2>5. CASE d.next_state # 1
    <3>1. d.next_state \in {3, 6}
      BY <1>2, <2>5, PathShiftCases
    <3>0. d.dirs # << >> /\ d.dirs[1] = << >> /\ (\A k \in 2..n : Named(d.dirs[k])) /\ Named(d.name)
      BY <1>2, <2>1, <3>1 DEF PathDivided, PathNames
    <3>2. n # 0 /\ d.dirs[1] = << >> /\ (\A k \in 2..n : Named(d.dirs[k])) /\ Named(d.name)
      BY <1>1, <2>1, <3>0
    <3>3. 1 \in 1..n /\ \A k \in 2..n + 1 : (k \in 2..n /\ k \in 1..n) \/ k = n + 1
      BY <3>2
    <3>4. f[1] = << >> /\ \A k \in 2..Len(f) : Named(f[k])
      BY <2>3, <3>2, <3>3
    <3> QED BY <1>3, <2>2, <2>3, <3>4 DEF PathNames
  <2> QED BY <2>4, <2>5
<1>8. PathExt(e)
  BY <1>3 DEF PathExt
<1> QED BY <1>1, <1>3, <1>4, <1>5, <1>6, <1>7, <1>8 DEF PathReads, PathDivided

LEMMA PathReadsOn ==
  ASSUME NEW s, NEW d, PathReads(s, d), d.next_state # 0, NEW o \in Octet
  PROVE  PathReads(Append(s, o), PathPut(d, o))
<1>1. PICK e : e = PathPut(d, o)
  OBVIOUS
<1>2. PICK next : next = PathShift(d.next_state, o)
  OBVIOUS
<1>3. d \in PathRecords /\ d.next_state \in 1..7 /\ d.next_state \in 0..7
  BY DEF PathReads, PathRecords
<1>0. PICK state : state = d.next_state
  OBVIOUS
<1>4. s \in Seq(Octet) /\ Append(s, o) \in Seq(Octet) /\ d.name \in Seq(Octet)
  BY DEF PathReads, PathRecords
<1>5. CASE next = 0
  <2>1. e \in PathRecords /\ e.next_state = 0
    BY <1>1, <1>2, <1>3, <1>5, PathPutRefuses
  <2> QED BY <1>1, <1>4, <2>1 DEF PathReads
<1>6. CASE next = 2
  <2>1. o = SLASH
    <3>1. state \in 0..7 /\ next = PathShift(state, o) /\ next # 0
      BY <1>0, <1>2, <1>3, <1>6
    <3> QED BY <1>6, <3>1, PathShiftCases
  <2>2. PathFields(e, 2, Append(d.dirs, d.name), << >>, << >>)
    BY <1>1, <1>2, <1>3, <1>6, PathPutFields
  <2> QED BY <1>1, <1>2, <1>3, <1>6, <2>1, <2>2, SlashReads
<1>7. ASSUME next \in 3..7, PathFields(e, next, d.dirs, Append(d.name, o), e.ext), PathExt(e)
      PROVE  PathReads(Append(s, o), e)
  <2>1. d.next_state \in 2..7
    BY <1>2, <1>3, <1>7, PathShiftCases
  <2> QED BY <1>2, <1>7, <2>1, NameReads
<1>8. CASE next \in {3, 4}
  <2>1. PathFields(e, next, d.dirs, Append(d.name, o), d.ext)
    BY <1>1, <1>2, <1>3, <1>8, PathPutFields
  <2>2. PathFields(e, next, d.dirs, Append(d.name, o), e.ext) /\ PathExt(e)
    BY <1>8, <2>1 DEF PathFields, PathExt
  <2> QED BY <1>1, <1>7, <1>8, <2>2
<1>9. CASE next = 5
  <2>0. o = DOT
    <3>1. state \in 0..7 /\ next = PathShift(state, o) /\ next # 0
      BY <1>0, <1>2, <1>3, <1>9
    <3> QED BY <1>9, <3>1, PathShiftCases
  <2>1. PathFields(e, 5, d.dirs, Append(d.name, o), << >>) /\ o = DOT
    BY <1>1, <1>2, <1>3, <1>9, <2>0, PathPutFields
  <2>2. Lowered(Last(SplitAt(Append(d.name, DOT), DOT))) = << >>
    BY <1>4, ExtStarts
  <2>3. PathFields(e, next, d.dirs, Append(d.name, o), e.ext) /\ PathExt(e)
    BY <1>9, <2>1, <2>2 DEF PathFields, PathExt
  <2> QED BY <1>1, <1>7, <1>9, <2>3
<1>10. CASE next \in {6, 7}
  <2>1. PathFields(e, next, d.dirs, Append(d.name, o), Append(d.ext, ToLower(o)))
    BY <1>1, <1>2, <1>3, <1>10, PathPutFields
  <2>2. d.next_state \in 5..7 /\ o # DOT
    BY <1>2, <1>3, <1>10, PathShiftCases, Signs
  <2>3. d.ext = Lowered(Last(SplitAt(d.name, DOT)))
    BY <1>3, <2>2 DEF PathReads, PathDivided, PathExt
  <2>4. e.name = Append(d.name, o) /\ e.ext = Append(d.ext, ToLower(o))
    BY <2>1 DEF PathFields
  <2>5. e.ext = Lowered(Last(SplitAt(e.name, DOT)))
    BY <1>4, <2>2, <2>3, <2>4, ExtGrows
  <2>6. PathFields(e, next, d.dirs, Append(d.name, o), e.ext) /\ PathExt(e)
    BY <2>1, <2>5 DEF PathFields, PathExt
  <2> QED BY <1>1, <1>7, <1>10, <2>6
<1>11. next \in {0, 2, 3, 4, 5, 6, 7}
  BY <1>2, <1>3, PathShiftCases
<1> QED BY <1>5, <1>6, <1>8, <1>9, <1>10, <1>11

Index == <<105, 110, 100, 101, 120>>

LEMMA HtmlOctets ==
  /\ Index \in Seq(Octet) /\ Len(Index) = 5 /\ Html \in Seq(Octet) /\ Len(Html) = 4
  /\ IndexHtml \in Seq(Octet) /\ Len(IndexHtml) = 10
BY DEF Index, Html, IndexHtml, Octet, DOT

LEMMA HtmlParts == Append(Index, DOT) \o Html = IndexHtml
<1>1. PICK j : j = Index
  OBVIOUS
<1>2. PICK h : h = Html
  OBVIOUS
<1>3. j \in Seq(Octet) /\ Len(j) = 5 /\ h \in Seq(Octet) /\ Len(h) = 4 /\ DOT \in Octet
  BY <1>1, <1>2, HtmlOctets, Signs
<1>4. PICK a : a = Append(j, DOT)
  OBVIOUS
<1>5. a \in Seq(Octet) /\ Len(a) = 6 /\ a[6] = DOT /\ \A i \in 1..5 : a[i] = j[i]
  <2>1. Longer(a, j, DOT)
    BY <1>3, <1>4, Appended, Zenon
  <2>2. a \in Seq(Octet)
    BY <1>3, <1>4
  <2> QED BY <1>3, <2>1, <2>2 DEF Longer
<1>6. PICK b : b = a \o h
  OBVIOUS
<1>7. Joins(b, a, h)
  BY <1>3, <1>5, <1>6, CatJoins
<1>8. /\ b \in Seq(Octet) /\ Len(b) = 10
      /\ \A i \in 1..6 : b[i] = a[i]
      /\ \A i \in 1..4 : b[6 + i] = h[i]
  BY <1>3, <1>5, <1>7 DEF Joins
<1>9. /\ b[1] = j[1] /\ b[2] = j[2] /\ b[3] = j[3] /\ b[4] = j[4] /\ b[5] = j[5] /\ b[6] = DOT
      /\ b[7] = h[1] /\ b[8] = h[2] /\ b[9] = h[3] /\ b[10] = h[4]
  BY <1>5, <1>8
<1>10. PICK c : c = IndexHtml
  OBVIOUS
<1>11. c \in Seq(Octet) /\ Len(c) = 10
  BY <1>10, HtmlOctets
<1>12. /\ c[1] = j[1] /\ c[2] = j[2] /\ c[3] = j[3] /\ c[4] = j[4] /\ c[5] = j[5] /\ c[6] = DOT
       /\ c[7] = h[1] /\ c[8] = h[2] /\ c[9] = h[3] /\ c[10] = h[4]
  BY <1>1, <1>2, <1>10 DEF IndexHtml, Index, Html
<1>13. \A i \in 1..10 : i \in {1, 2, 3, 4, 5, 6, 7, 8, 9, 10}
  OBVIOUS
<1>14. \A i \in 1..10 : b[i] = c[i]
  BY <1>9, <1>12, <1>13
<1>15. b = c
  BY <1>8, <1>11, <1>14, SeqEqual
<1> QED BY <1>1, <1>2, <1>4, <1>6, <1>10, <1>15

LEMMA HtmlNamed ==
  /\ Named(IndexHtml) /\ \A i \in DOMAIN IndexHtml : IndexHtml[i] # SLASH
  /\ Html = Lowered(Last(SplitAt(IndexHtml, DOT)))
<1>1. Named(IndexHtml)
  BY DEF Named, IndexHtml, Alnum, Lower
<1>2. \A i \in DOMAIN IndexHtml : IndexHtml[i] # SLASH
  <2>1. DOMAIN IndexHtml = 1..10
    BY HtmlOctets
  <2> QED BY <2>1 DEF IndexHtml, SLASH, DOT
<1>3. (\A i \in DOMAIN Index : Index[i] # DOT) /\ (\A i \in DOMAIN Html : Html[i] # DOT)
  <2>1. DOMAIN Index = 1..5 /\ DOMAIN Html = 1..4
    BY HtmlOctets
  <2> QED BY <2>1 DEF Index, Html, DOT
<1>4. PICK none : none = << >>
  OBVIOUS
<1>5. none \in Seq(Octet) /\ none \in Seq(Seq(Octet)) /\ none \o Index = Index /\ none \o Html = Html
  BY <1>4, HtmlOctets
<1>6. SplitAt(Index, DOT) = Append(none, Index)
  <2>1. SplitAt(none, DOT) = Append(none, none)
    BY <1>4, SplitNothing
  <2>2. none \in Seq(Octet) /\ none \in Seq(Seq(Octet)) /\ Index \in Seq(Octet)
    BY <1>5, HtmlOctets
  <2>3. SplitAt(none \o Index, DOT) = Append(none, none \o Index)
    <3>1. Divides(none, DOT, none, none) /\ HoldsNo(Index, DOT)
      BY <1>3, <2>1, <2>2, Zenon DEF Divides, HoldsNo
    <3>2. Divides(none \o Index, DOT, none, none \o Index)
      BY <3>1, SplitMore, Zenon
    <3> QED BY <3>2, Zenon DEF Divides
  <2> QED BY <1>5, <2>3, Zenon
<1>7. PICK first : first = Append(none, Index)
  OBVIOUS
<1>8. first \in Seq(Seq(Octet))
  BY <1>5, <1>7, HtmlOctets
<1>9. SplitAt(Append(Index, DOT), DOT) = Append(first, none)
  <2>1. SplitAt(Append(Index, DOT), DOT) = SplitStep(SplitAt(Index, DOT), DOT, DOT)
    BY HtmlOctets, Signs, SplitGrows
  <2>2. SplitStep(Append(none, Index), DOT, DOT) = Append(Append(none, Index), << >>)
    BY <1>5, HtmlOctets, Signs, SplitStepLast
  <2> QED BY <1>4, <1>6, <1>7, <2>1, <2>2
<1>10. SplitAt(IndexHtml, DOT) = Append(first, Html)
  <2>1. PICK t \in Seq(Octet) : t = Append(Index, DOT)
    <3>1. Append(Index, DOT) \in Seq(Octet)
      BY HtmlOctets, Signs
    <3> QED BY <3>1
  <2>2. SplitAt(t \o Html, DOT) = Append(first, none \o Html)
    <3>1. SplitAt(t, DOT) = Append(first, none)
      BY <1>9, <2>1
    <3>2. none \in Seq(Octet) /\ Html \in Seq(Octet)
      BY <1>5, HtmlOctets
    <3>3. Divides(t, DOT, first, none)
      BY <1>8, <2>1, <3>1, <3>2, Zenon DEF Divides
    <3>4. HoldsNo(Html, DOT)
      BY <1>3, <3>2, Zenon DEF HoldsNo
    <3>5. Divides(t \o Html, DOT, first, none \o Html)
      BY <3>3, <3>4, SplitMore, Zenon
    <3> QED BY <3>5, Zenon DEF Divides
  <2> QED BY <1>5, <2>1, <2>2, HtmlParts
<1>11. Last(Append(first, Html)) = Html
  BY <1>8, HtmlOctets DEF Last
<1>12. Lowered(Html) = Html
  <2>1. DOMAIN Html = 1..4
    BY HtmlOctets
  <2>2. \A i \in 1..4 : ToLower(Html[i]) = Html[i]
    BY DEF Html, ToLower, Upper
  <2>3. Html = [i \in 1..4 |-> Html[i]]
    BY <2>1, HtmlOctets
  <2> QED BY <2>1, <2>2, <2>3 DEF Lowered
<1> QED BY <1>1, <1>2, <1>10, <1>11, <1>12

-----------------------------------------------------------------------------
WellNamed(d) ==
  /\ Head(SplitAt(PathName(d), SLASH)) = << >>
  /\ \A k \in 2..Len(SplitAt(PathName(d), SLASH)) :
       SplitAt(PathName(d), SLASH)[k] \notin {<< >>, <<DOT>>, <<DOT, DOT>>}
  /\ d.ext = Lowered(Last(SplitAt(LastPart(PathName(d)), DOT)))

LEMMA PartsNamed ==
  ASSUME NEW d, d.dirs \in Seq(Seq(Octet)), d.name \in Seq(Octet),
         SplitAt(PathName(d), SLASH) = Append(d.dirs, d.name),
         d.dirs # << >>, d.dirs[1] = << >>, \A k \in 2..Len(d.dirs) : Named(d.dirs[k]),
         Named(d.name), d.ext = Lowered(Last(SplitAt(d.name, DOT)))
  PROVE  WellNamed(d)
<1>1. PICK n \in Nat : n = Len(d.dirs) /\ n # 0
  <2>1. Len(d.dirs) \in Nat /\ Len(d.dirs) # 0
    OBVIOUS
  <2> QED BY <2>1
<1>2. PICK p : p = SplitAt(PathName(d), SLASH)
  OBVIOUS
<1>3. PICK a \in Seq(Seq(Octet)), x \in Seq(Octet) : a = d.dirs /\ x = d.name
  OBVIOUS
<1>4. Len(p) = n + 1 /\ p # << >> /\ p[n + 1] = x /\ \A i \in 1..n : p[i] = a[i]
  <2>1. n = Len(a) /\ p = Append(a, x)
    BY <1>1, <1>2, <1>3
  <2>2. Longer(p, a, x)
    BY <1>3, <2>1, Appended, Zenon
  <2> QED BY <2>1, <2>2 DEF Longer
<1>5. Head(p) = << >>
  <2>1. 1 \in 1..n
    BY <1>1
  <2>2. p[1] = << >>
    BY <1>3, <1>4, <2>1
  <2>3. p \in Seq(Seq(Octet))
    BY <1>2, <1>3
  <2> QED BY <1>4, <2>2, <2>3
<1>6. ASSUME NEW k \in 2..n + 1 PROVE p[k] \notin {<< >>, <<DOT>>, <<DOT, DOT>>}
  <2>1. (k \in 2..n /\ k \in 1..n) \/ k = n + 1
    BY <1>1
  <2>2. Named(p[k])
    BY <1>1, <1>3, <1>4, <2>1
  <2> QED BY <2>2, Signs, SMTT(30) DEF Named
<1>7. LastPart(PathName(d)) = d.name
  BY <1>2, <1>3, <1>4 DEF LastPart, Last
<1> QED BY <1>2, <1>4, <1>5, <1>6, <1>7 DEF WellNamed

LEMMA IndexDivided ==
  ASSUME NEW s, NEW dirs, s \in Seq(Octet), dirs \in Seq(Seq(Octet)), SplitAt(s, SLASH) = Append(dirs, << >>)
  PROVE  SplitAt(s \o IndexHtml, SLASH) = Append(dirs, IndexHtml)
<1>1. PICK none : none = << >>
  OBVIOUS
<1>2. none \in Seq(Octet) /\ none \o IndexHtml = IndexHtml
  BY <1>1, HtmlOctets
<1>3. SplitAt(s, SLASH) = Append(dirs, none)
  BY <1>1
<1>4. PICK t : t = IndexHtml
  OBVIOUS
<1>5. t \in Seq(Octet) /\ \A i \in DOMAIN t : t[i] # SLASH
  BY <1>4, HtmlOctets, HtmlNamed
<1>6. Divides(s, SLASH, dirs, none) /\ HoldsNo(t, SLASH)
  BY <1>2, <1>3, <1>5, Zenon DEF Divides, HoldsNo
<1>7. Divides(s \o t, SLASH, dirs, none \o t)
  BY <1>6, SplitMore, Zenon
<1>8. SplitAt(s \o t, SLASH) = Append(dirs, none \o t)
  BY <1>7, Zenon DEF Divides
<1> QED BY <1>2, <1>4, <1>8

(* At the end of a directory's path. *)
LEMMA DirectoryNamed ==
  ASSUME NEW s, NEW d, PathReads(s, d), d.next_state = 2, NEW e,
         e.next_state = 2, e.dirs = d.dirs, e.name = IndexHtml, e.ext = Html
  PROVE  PathName(e) = s \o IndexHtml /\ WellNamed(e)
<1>1. s \in Seq(Octet) /\ d.dirs \in Seq(Seq(Octet)) /\ PathDivided(s, d)
  BY DEF PathReads, PathRecords
<1>2. d.name = << >> /\ PathName(d) = s
  BY <1>1 DEF PathDivided, PathNames
<1>3. PICK x : PathJoins(x, d.dirs) /\ PathName(d) = x \o d.name
  BY <1>1, PathNamed
<1>4. PICK y : PathJoins(y, e.dirs) /\ PathName(e) = y \o e.name
  BY <1>1, PathNamed
<1>5. x = y /\ x \in Seq(Octet)
  BY <1>1, <1>3, <1>4, JoinsAre
<1>6. x \o << >> = x
  BY <1>5
<1>7. PathName(e) = s \o IndexHtml
  BY <1>2, <1>3, <1>4, <1>5, <1>6
<1>8. SplitAt(PathName(e), SLASH) = Append(e.dirs, e.name)
  <2>1. PICK a \in Seq(Seq(Octet)) : a = d.dirs
    BY <1>1
  <2>2. SplitAt(s, SLASH) = Append(a, << >>)
    BY <1>1, <1>2, <2>1 DEF PathDivided
  <2> QED BY <1>1, <1>7, <2>1, <2>2, IndexDivided
<1>9. e.dirs # << >> /\ e.dirs[1] = << >> /\ \A k \in 2..Len(e.dirs) : Named(e.dirs[k])
  BY <1>1 DEF PathDivided, PathNames
<1>10. Named(e.name) /\ e.ext = Lowered(Last(SplitAt(e.name, DOT)))
  BY HtmlNamed
<1>11. e.dirs \in Seq(Seq(Octet)) /\ e.name \in Seq(Octet)
  BY <1>1, HtmlOctets
<1>12. WellNamed(e)
  BY <1>8, <1>9, <1>10, <1>11, PartsNamed
<1> QED BY <1>7, <1>12

LEMMA EndFields ==
  ASSUME NEW d \in PathRecords
  PROVE  /\ d.next_state \in {2, 3} =>
              PathEnd(d).next_state = 2 /\ PathEnd(d).name = IndexHtml /\ PathEnd(d).ext = Html
         /\ d.next_state = 2 => PathEnd(d).dirs = d.dirs
         /\ d.next_state = 3 => PathEnd(d).dirs = Append(d.dirs, d.name)
         /\ d.next_state \notin {2, 3} => PathEnd(d) = d
<1>1. d = [next_state |-> d.next_state, dirs |-> d.dirs, name |-> d.name, ext |-> d.ext]
  BY DEF PathRecords
<1>2. CASE d.next_state = 2
  <2>1. PathEnd(d) = [d EXCEPT !.name = IndexHtml, !.ext = Html]
    BY <1>2 DEF PathEnd
  <2> QED BY <1>1, <1>2, <2>1
<1>3. CASE d.next_state = 3
  <2>1. PathEnd(d) = [d EXCEPT !.next_state = 2, !.dirs = Append(d.dirs, d.name),
                               !.name = IndexHtml, !.ext = Html]
    BY <1>3 DEF PathEnd
  <2> QED BY <1>1, <1>3, <2>1
<1>4. CASE d.next_state \notin {2, 3}
  BY <1>4 DEF PathEnd
<1> QED BY <1>2, <1>3, <1>4

(* What is put after a path to have the name of a file. *)
IndexOf(s) ==
  IF Last(s) = SLASH THEN IndexHtml
  ELSE IF DOT \in ToSet(LastPart(s)) THEN << >> ELSE <<SLASH>> \o IndexHtml

LEMMA LastPartIs ==
  ASSUME NEW s, NEW d, PathReads(s, d), d.next_state # 0
  PROVE  LastPart(s) = d.name /\ (DOT \in ToSet(LastPart(s)) <=> DotIn(d.name))
<1>1. PICK a, x : a = d.dirs /\ x = d.name
  OBVIOUS
<1>2. a \in Seq(Seq(Octet)) /\ x \in Seq(Octet) /\ SplitAt(s, SLASH) = Append(a, x)
  BY <1>1 DEF PathReads, PathRecords, PathDivided
<1>3. PICK p : p = Append(a, x)
  OBVIOUS
<1>4. p[Len(p)] = x
  BY <1>2, <1>3
<1>5. LastPart(s) = x
  BY <1>2, <1>3, <1>4 DEF LastPart, Last
<1>6. DOMAIN x = 1..Len(x)
  BY <1>2
<1>7. DOT \in ToSet(x) <=> DotIn(x)
  BY <1>6, Zenon DEF ToSet, DotIn
<1> QED BY <1>1, <1>5, <1>7

LEMMA LastIs ==
  ASSUME NEW s, NEW d, PathReads(s, d), d.next_state \in {2, 3, 6}
  PROVE  Last(s) = SLASH <=> d.next_state = 2
<1>1. EndsIn(d.next_state, s[Len(s)])
  BY DEF PathReads, PathDivided, PathSoFar
<1> QED BY <1>1, Signs DEF EndsIn, Last

(* At the end of a path that is one. *)
LEMMA FileNamed ==
  ASSUME NEW s, NEW d, PathReads(s, d), d.next_state \in {2, 3, 6}
  PROVE  PathName(PathEnd(d)) = s \o IndexOf(s) /\ WellNamed(PathEnd(d))
<1>1. /\ d \in PathRecords /\ s \in Seq(Octet) /\ PathDivided(s, d)
      /\ d.dirs \in Seq(Seq(Octet)) /\ d.name \in Seq(Octet)
  BY DEF PathReads, PathRecords
<1>2. PICK e : e = PathEnd(d)
  OBVIOUS
<1>3. CASE d.next_state = 2
  <2>1. e.next_state = 2 /\ e.dirs = d.dirs /\ e.name = IndexHtml /\ e.ext = Html
    BY <1>1, <1>2, <1>3, EndFields
  <2>2. PathName(e) = s \o IndexHtml /\ WellNamed(e)
    BY <1>3, <2>1, DirectoryNamed
  <2>3. IndexOf(s) = IndexHtml
    BY <1>3, LastIs DEF IndexOf
  <2> QED BY <1>2, <2>2, <2>3
<1>4. CASE d.next_state = 3
  <2>1. e.next_state = 2 /\ e.dirs = Append(d.dirs, d.name) /\ e.name = IndexHtml /\ e.ext = Html
    BY <1>1, <1>2, <1>4, EndFields
  <2>2. PICK f : f = PathPut(d, SLASH)
    OBVIOUS
  <2>3. PathShift(d.next_state, SLASH) = 2
    <3>1. PathShift(3, SLASH) = 2
      <4>1. 3 \in {1, 3, 6}
        OBVIOUS
      <4> QED BY <4>1, Signs DEF PathShift
    <3> QED BY <1>4, <3>1
  <2>4. PathFields(f, 2, Append(d.dirs, d.name), << >>, << >>)
    BY <1>1, <2>2, <2>3, Signs, PathPutFields
  <2>5. PathReads(Append(s, SLASH), f)
    BY <1>4, <2>2, Signs, PathReadsOn
  <2>6. f.next_state = 2 /\ f.dirs = e.dirs
    BY <2>1, <2>4 DEF PathFields
  <2>7. PathName(e) = Append(s, SLASH) \o IndexHtml /\ WellNamed(e)
    BY <2>1, <2>5, <2>6, DirectoryNamed
  <2>8. IndexOf(s) = <<SLASH>> \o IndexHtml
    <3>1. Last(s) # SLASH
      BY <1>4, LastIs
    <3>2. ~DotIn(d.name)
      BY <1>1, <1>4 DEF PathDivided, PathNames
    <3>3. DOT \notin ToSet(LastPart(s))
      BY <1>4, <3>2, LastPartIs
    <3> QED BY <3>1, <3>3 DEF IndexOf
  <2>9. Append(s, SLASH) \o IndexHtml = s \o (<<SLASH>> \o IndexHtml)
    <3>1. PICK one : one = <<SLASH>>
      OBVIOUS
    <3>2. one \in Seq(Octet) /\ Append(s, SLASH) = s \o one
      BY <1>1, <3>1, Signs, AppendIsConcat
    <3>3. PICK index : index = IndexHtml
      OBVIOUS
    <3>4. index \in Seq(Octet)
      BY <3>3, HtmlOctets, Zenon
    <3>5. (s \o one) \o index = s \o (one \o index)
      BY <1>1, <3>2, <3>4, CatAssoc, Zenon
    <3> QED BY <3>1, <3>2, <3>3, <3>5, Zenon
  <2> QED BY <1>2, <2>7, <2>8, <2>9
<1>5. CASE d.next_state = 6
  <2>1. e = d
    BY <1>1, <1>2, <1>5, EndFields
  <2>2. PathName(e) = s /\ SplitAt(s, SLASH) = Append(d.dirs, d.name)
    BY <1>1, <2>1 DEF PathDivided
  <2>3. /\ d.dirs # << >> /\ d.dirs[1] = << >> /\ \A k \in 2..Len(d.dirs) : Named(d.dirs[k])
        /\ Named(d.name) /\ DotIn(d.name)
    BY <1>1, <1>5 DEF PathDivided, PathNames
  <2>4. d.ext = Lowered(Last(SplitAt(d.name, DOT)))
    BY <1>1, <1>5 DEF PathDivided, PathExt
  <2>5. WellNamed(d)
    BY <1>1, <2>1, <2>2, <2>3, <2>4, PartsNamed
  <2>6. IndexOf(s) = << >>
    <3>1. Last(s) # SLASH
      BY <1>5, LastIs
    <3>2. DOT \in ToSet(LastPart(s))
      BY <1>5, <2>3, LastPartIs
    <3> QED BY <3>1, <3>2 DEF IndexOf
  <2>7. s \o << >> = s
    BY <1>1
  <2> QED BY <1>2, <2>1, <2>2, <2>5, <2>6, <2>7
<1> QED BY <1>3, <1>4, <1>5

(* Which ends are taken. *)
LEMMA EndTaken ==
  ASSUME NEW s, NEW d, PathReads(s, d), d.next_state # 0
  PROVE  /\ PathOk(PathEnd(d)) <=> d.next_state \in {2, 3, 6}
         /\ IsPath(s) <=> d.next_state \in {2, 3, 6}
<1>1. /\ d \in PathRecords /\ s \in Seq(Octet) /\ d.next_state \in 1..7 /\ PathSoFar(s, d.next_state)
  BY DEF PathReads, PathRecords, PathDivided
<1>2. IsPath(s) <=> d.next_state \in {2, 3, 6}
  BY <1>1, PathTaken
<1>3. PathOk(PathEnd(d)) <=> d.next_state \in {2, 3, 6}
  BY <1>1, EndFields DEF PathOk
<1> QED BY <1>2, <1>3

-----------------------------------------------------------------------------
PathEnds(t, e) ==
  \E s, d : PathReads(s, d) /\ d.next_state # 0 /\ t = Append(s, End) /\ e = PathEnd(d)

PathInv == kind = "path" => PathReads(src, dec) \/ PathEnds(src, dec)

LEMMA EndIsLast ==
  ASSUME NEW s \in Seq(Octet), NEW t, t = Append(s, End)
  PROVE  t # << >> /\ Last(t) = End /\ Front(t) = s
<1>1. PICK n \in Nat : n = Len(s)
  OBVIOUS
<1>2. s \in Seq(Nat) /\ End \in Nat
  BY OctetsAreNumbers DEF End
<1>3. t \in Seq(Nat) /\ Len(t) = n + 1 /\ t[n + 1] = End /\ \A i \in 1..n : t[i] = s[i]
  BY <1>1, <1>2
<1>4. Last(t) = End /\ t # << >>
  BY <1>3 DEF Last
<1>5. Front(t) = SubSeq(t, 1, n)
  BY <1>3 DEF Front
<1>6. PICK u : u = SubSeq(t, 1, n)
  OBVIOUS
<1>7. u \in Seq(Nat) /\ Len(u) = n /\ \A i \in 1..n : u[i] = t[i]
  BY <1>3, <1>6
<1>8. u = s
  BY <1>1, <1>2, <1>3, <1>7, SeqEqual
<1> QED BY <1>4, <1>5, <1>6, <1>8

LEMMA NotEnded == ASSUME NEW s \in Seq(Octet), s # << >> PROVE Last(s) # End
<1>1. s[Len(s)] \in Octet
  OBVIOUS
<1>2. End \notin Octet
  BY DEF End, Octet
<1> QED BY <1>1, <1>2, Zenon DEF Last

LEMMA PathStart == DecodersInit => PathInv
<1> SUFFICES ASSUME DecodersInit, kind = "path" PROVE PathReads(src, dec)
  BY DEF PathInv
<1>1. dec = FreshPath /\ src = << >>
  BY DEF DecodersInit, Fresh
<1>2. /\ FreshPath.next_state = 1 /\ FreshPath.dirs = << >> /\ FreshPath.name = << >>
      /\ FreshPath.ext = << >> /\ FreshPath \in PathRecords
  BY DEF FreshPath, PathRecords
<1>3. << >> \in Seq(Octet) /\ Len(<< >>) = 0
  OBVIOUS
<1>4. PathSoFar(<< >>, 1)
  BY <1>3 DEF PathSoFar
<1>5. PathNames(FreshPath)
  BY <1>2 DEF PathNames
<1>6. SplitAt(<< >>, SLASH) = Append(FreshPath.dirs, FreshPath.name)
  <2>1. Append(<< >>, << >>) = << << >> >>
    OBVIOUS
  <2> QED BY <1>2, <2>1, SplitNothing
<1>7. PathName(FreshPath) = << >>
  <2>1. PICK d : d = FreshPath
    OBVIOUS
  <2>2. PICK x : PathJoins(x, d.dirs) /\ PathName(d) = x \o d.name
    <3>1. d.dirs \in Seq(Seq(Octet))
      BY <1>2, <2>1 DEF PathRecords
    <3> QED BY <3>1, PathNamed
  <2>3. FoldsTo(x, << >>, Seq(Octet), << >>, JoinStep)
    BY <1>2, <2>1, <2>2 DEF PathJoins
  <2>4. x = << >>
    BY <2>3, FoldsNothing
  <2>5. PathName(d) = << >> \o << >>
    BY <1>2, <2>1, <2>2, <2>4
  <2> QED BY <2>1, <2>5
<1>8. PathExt(FreshPath)
  BY <1>2 DEF PathExt
<1>9. PathDivided(<< >>, FreshPath)
  BY <1>2, <1>4, <1>5, <1>6, <1>7, <1>8 DEF PathDivided
<1> QED BY <1>1, <1>2, <1>3, <1>9 DEF PathReads

LEMMA PathSteps == PathInv /\ [DecodersNext]_decodersVars => PathInv'
<1> SUFFICES ASSUME PathInv, [DecodersNext]_decodersVars, kind' = "path"
             PROVE  PathReads(src', dec') \/ PathEnds(src', dec')
  BY DEF PathInv
<1>1. CASE PutOctet
  <2>1. PICK o \in (Inputs(kind, dec, src) \cap Octet) \cup {End} :
             (o = End => kind \in Values) /\ src' = Append(src, o) /\ dec' = Put(o)
    BY <1>1, Zenon DEF PutOctet
  <2>2. kind = "path" /\ Partial
    BY <1>1, Zenon DEF PutOctet
  <2>3. dec.next_state # 0 /\ ~Ended
    <3>1. kind \in Values
      BY <2>2 DEF Values, Messages, Fresh
    <3> QED BY <2>2, <3>1 DEF Partial
  <2>4. PathReads(src, dec)
    <3>1. ASSUME PathEnds(src, dec) PROVE FALSE
      <4>1. PICK s, d : PathReads(s, d) /\ d.next_state # 0 /\ src = Append(s, End) /\ dec = PathEnd(d)
        BY <3>1 DEF PathEnds
      <4>2. Ended
        BY <4>1, EndIsLast DEF PathReads, Ended
      <4> QED BY <2>3, <4>2
    <3> QED BY <2>2, <3>1 DEF PathInv
  <2>5. CASE o = End
    <3>1. dec' = PathEnd(dec)
      BY <2>1, <2>2, <2>5, Zenon DEF Put
    <3> QED BY <2>1, <2>3, <2>4, <2>5, <3>1 DEF PathEnds
  <2>6. CASE o # End
    <3>1. dec' = PathPut(dec, o)
      BY <2>1, <2>2, <2>6, Zenon DEF Put
    <3> QED BY <2>1, <2>3, <2>4, <2>6, <3>1, PathReadsOn
  <2> QED BY <2>5, <2>6
<1>2. CASE WriteResponse
  BY <1>2 DEF WriteResponse
<1>3. CASE ResponseStops
  BY <1>3 DEF ResponseStops
<1>4. CASE UNCHANGED decodersVars
  BY <1>4 DEF decodersVars, PathInv
<1> QED BY <1>1, <1>2, <1>3, <1>4 DEF DecodersNext

LEMMA PathWritten ==
  ASSUME PathInv, kind = "path"
  PROVE  /\ (Ended /\ PathOk(dec)) <=> IsPath(Plain) /\ Ended
         /\ (Ended /\ PathOk(dec)) => PathName(dec) = Plain \o IndexOf(Plain) /\ WellNamed(dec)
<1>1. CASE PathReads(src, dec)
  <2>1. ~Ended
    BY <1>1, NotEnded DEF PathReads, Ended
  <2> QED BY <2>1
<1>2. CASE PathEnds(src, dec)
  <2>1. PICK s, d : PathReads(s, d) /\ d.next_state # 0 /\ src = Append(s, End) /\ dec = PathEnd(d)
    BY <1>2 DEF PathEnds
  <2>2. Ended /\ Plain = s
    BY <2>1, EndIsLast DEF PathReads, Ended, Plain
  <2>3. (PathOk(dec) <=> d.next_state \in {2, 3, 6}) /\ (IsPath(s) <=> d.next_state \in {2, 3, 6})
    BY <2>1, EndTaken
  <2>4. d.next_state \in {2, 3, 6} => PathName(dec) = s \o IndexOf(s) /\ WellNamed(dec)
    BY <2>1, FileNamed
  <2> QED BY <2>2, <2>3, <2>4
<1> QED BY <1>1, <1>2 DEF PathInv

LEMMA PathInvWritten == PathInv => PathAsWritten
BY PathWritten, Zenon DEF PathAsWritten, IndexOf, WellNamed

(* For a target of any length: a path is taken exactly when it is one, and *)
(* the name of the file is the path, with index.html after a directory's,  *)
(* none of its parts empty, "." or "..", its extension what follows the    *)
(* last dot (handler-file.cpp:90).                                         *)
THEOREM PathsNamed == DecodersSpec => []PathAsWritten
<1>1. DecodersSpec => []PathInv
  BY PathStart, PathSteps, PTL DEF DecodersSpec
<1> QED BY <1>1, PathInvWritten, PTL

-----------------------------------------------------------------------------
(* Lists: what Runs and IsList make of a text, octet by octet. *)
Texts == Seq(Octet)

FillStep(filled, part) == IF part = << >> THEN filled ELSE Append(filled, part)

FillStepOf == [p \in Seq(Texts) \X Texts |-> FillStep(p[1], p[2])]

LEMMA FillSteps == FillStepOf \in [Seq(Texts) \X Texts -> Seq(Texts)]
BY DEF FillStepOf, FillStep

LEMMA FilledFold ==
  ASSUME NEW s \in Seq(Texts)
  PROVE  FoldsTo(Filled(s), s, Seq(Texts), << >>, FillStepOf)
<1> DEFINE n == Len(s)
           b == << >>
           g == FillStepOf
           next(a, i) == FillStep(a, s[i])
           body(it) == [t \in SUBSET (1..n) |-> IF t = {} THEN b ELSE next(it[t \ {Max(t)}], Max(t))]
           it == CHOOSE w : w = body(w)
<1>1. n \in Nat /\ DOMAIN s = 1..n
  OBVIOUS
<1>2. Filled(s) = it[1..n]
  BY <1>1, Zenon DEF Filled, FoldLeft, MapThenFoldSet, FillStep
<1>3. b \in Seq(Texts)
  OBVIOUS
<1>4. g \in [Seq(Texts) \X Texts -> Seq(Texts)]
  BY FillSteps
<1>5. \A a \in Seq(Texts), k \in 1..n : g[<<a, s[k]>>] = next(a, k)
  <2>1. \A k \in 1..n : s[k] \in Texts
    OBVIOUS
  <2> QED BY <2>1 DEF FillStepOf
<1>6. PICK w : Folded(w, s, Seq(Texts), b, g)
  <2> HIDE DEF b, g
  <2> QED BY <1>3, <1>4, FoldedExists
<1>7. it = body(it)
  <2>1. ASSUME NEW t \in SUBSET (1..n)
        PROVE  w[t] = IF t = {} THEN b ELSE next(w[t \ {Max(t)}], Max(t))
    <3> HIDE DEF next, b, g
    <3> QED BY <1>5, <1>6 DEF Folded
  <2> HIDE DEF next, b, g
  <2>2. w = [t \in SUBSET (1..n) |-> w[t]]
    BY <1>6, Zenon DEF Folded
  <2>3. w = body(w)
    BY <2>1, <2>2, Zenon
  <2> HIDE DEF body
  <2> QED BY <2>3, Zenon
<1>8. WouldFold(it, s, Seq(Texts), b, g)
  <2>1. it[{}] = b
    <3> HIDE DEF it, next, b
    <3> QED BY <1>7
  <2>2. ASSUME NEW t \in SUBSET (1..n), t # {}, it[t \ {Max(t)}] \in Seq(Texts)
        PROVE  it[t] = g[<<it[t \ {Max(t)}], s[Max(t)]>>]
    <3>1. Max(t) \in 1..n
      BY <1>1, <2>2, GreatestIn
    <3>2. it[t] = next(it[t \ {Max(t)}], Max(t))
      <4> HIDE DEF it, next, b
      <4> QED BY <1>7, <2>2, Zenon
    <3> HIDE DEF it, next, g
    <3> QED BY <1>5, <2>2, <3>1, <3>2
  <2> HIDE DEF it, g, b
  <2> QED BY <2>1, <2>2, Zenon DEF WouldFold
<1> HIDE DEF it, g, b
<1>9. FoldsTo(it[1..n], s, Seq(Texts), b, g)
  BY <1>3, <1>4, <1>8, FoldedTrace
<1> QED BY <1>2, <1>9 DEF b, g

LEMMA FilledNothing == Filled(<< >>) = << >>
<1>1. << >> \in Seq(Texts)
  OBVIOUS
<1>2. FoldsTo(Filled(<< >>), << >>, Seq(Texts), << >>, FillStepOf)
  BY <1>1, FilledFold, Zenon
<1> QED BY <1>2, FoldsNothing, Zenon

LEMMA FilledGrows ==
  ASSUME NEW s \in Seq(Texts), NEW o \in Texts
  PROVE  Filled(s) \in Seq(Texts) /\ Filled(Append(s, o)) = FillStep(Filled(s), o)
<1>1. PICK g : g = FillStepOf
  OBVIOUS
<1>2. PICK b : b = << >>
  OBVIOUS
<1>3. b \in Seq(Texts) /\ g \in [Seq(Texts) \X Texts -> Seq(Texts)]
  BY <1>1, <1>2, FillSteps
<1>4. Append(s, o) \in Seq(Texts)
  OBVIOUS
<1>5. PICK x : x = Filled(s) /\ FoldsTo(x, s, Seq(Texts), b, g)
  BY <1>1, <1>2, FilledFold
<1>6. PICK y : y = Filled(Append(s, o)) /\ FoldsTo(y, Append(s, o), Seq(Texts), b, g)
  BY <1>1, <1>2, <1>4, FilledFold
<1>7. Moves(x, y, Seq(Texts), o, g)
  <2>1. FoldsTo(x, s, Seq(Texts), b, g) /\ FoldsTo(y, Append(s, o), Seq(Texts), b, g)
    BY <1>5, <1>6
  <2>2. b \in Seq(Texts)
    BY <1>3
  <2>3. g \in [Seq(Texts) \X Texts -> Seq(Texts)]
    BY <1>3
  <2>4. s \in Seq(Texts) /\ o \in Texts
    OBVIOUS
  <2> QED BY <2>1, <2>2, <2>3, <2>4, FoldsAppend, Zenon
<1>8. g[<<x, o>>] = FillStep(x, o)
  BY <1>1, <1>7 DEF FillStepOf, Moves
<1> QED BY <1>5, <1>6, <1>7, <1>8 DEF Moves

(* Numbers, to the bases there are: a digit more. *)
Bases == {10, 16}

NumberStep(base, n, o) == base * n + HexValue(o)

NumberStepOf(base) == [p \in Nat \X Hex |-> NumberStep(base, p[1], p[2])]

LEMMA DigitValue == ASSUME NEW o \in Digit PROVE HexValue(o) = o - 48 /\ o - 48 \in 0..9
BY DEF HexValue, Digit

LEMMA NumberSteps == ASSUME NEW base \in Bases PROVE NumberStepOf(base) \in [Nat \X Hex -> Nat]
<1>1. ASSUME NEW n \in Nat, NEW o \in Hex PROVE NumberStep(base, n, o) \in Nat
  <2>1. HexValue(o) \in Nat
    BY HexValues
  <2>2. CASE base = 10
    BY <2>1, <2>2 DEF NumberStep
  <2>3. CASE base = 16
    BY <2>1, <2>3 DEF NumberStep
  <2> QED BY <2>2, <2>3 DEF Bases
<1> QED BY <1>1 DEF NumberStepOf

LEMMA NumberFold ==
  ASSUME NEW base \in Bases, NEW s \in Seq(Hex)
  PROVE  FoldsTo(Number(s, base), s, Nat, 0, NumberStepOf(base))
<1> DEFINE n == Len(s)
           b == 0
           g == NumberStepOf(base)
           next(a, i) == NumberStep(base, a, s[i])
           body(it) == [t \in SUBSET (1..n) |-> IF t = {} THEN b ELSE next(it[t \ {Max(t)}], Max(t))]
           it == CHOOSE w : w = body(w)
<1>1. n \in Nat /\ DOMAIN s = 1..n
  OBVIOUS
<1>2. Number(s, base) = it[1..n]
  BY <1>1, Zenon DEF Number, FoldLeft, MapThenFoldSet, NumberStep
<1>3. b \in Nat
  OBVIOUS
<1>4. g \in [Nat \X Hex -> Nat]
  BY NumberSteps
<1>5. \A a \in Nat, k \in 1..n : g[<<a, s[k]>>] = next(a, k)
  <2>1. \A k \in 1..n : s[k] \in Hex
    OBVIOUS
  <2> QED BY <2>1 DEF NumberStepOf
<1>6. PICK w : Folded(w, s, Nat, b, g)
  <2> HIDE DEF b, g
  <2> QED BY <1>3, <1>4, FoldedExists
<1>7. it = body(it)
  <2>1. ASSUME NEW t \in SUBSET (1..n)
        PROVE  w[t] = IF t = {} THEN b ELSE next(w[t \ {Max(t)}], Max(t))
    <3> HIDE DEF next, b, g
    <3> QED BY <1>5, <1>6 DEF Folded
  <2> HIDE DEF next, b, g
  <2>2. w = [t \in SUBSET (1..n) |-> w[t]]
    BY <1>6, Zenon DEF Folded
  <2>3. w = body(w)
    BY <2>1, <2>2, Zenon
  <2> HIDE DEF body
  <2> QED BY <2>3, Zenon
<1>8. WouldFold(it, s, Nat, b, g)
  <2>1. it[{}] = b
    <3> HIDE DEF it, next, b
    <3> QED BY <1>7
  <2>2. ASSUME NEW t \in SUBSET (1..n), t # {}, it[t \ {Max(t)}] \in Nat
        PROVE  it[t] = g[<<it[t \ {Max(t)}], s[Max(t)]>>]
    <3>1. Max(t) \in 1..n
      BY <1>1, <2>2, GreatestIn
    <3>2. it[t] = next(it[t \ {Max(t)}], Max(t))
      <4> HIDE DEF it, next, b
      <4> QED BY <1>7, <2>2, Zenon
    <3> HIDE DEF it, next, g
    <3> QED BY <1>5, <2>2, <3>1, <3>2
  <2> HIDE DEF it, g, b
  <2> QED BY <2>1, <2>2, Zenon DEF WouldFold
<1> HIDE DEF it, g, b
<1>9. FoldsTo(it[1..n], s, Nat, b, g)
  BY <1>3, <1>4, <1>8, FoldedTrace
<1> QED BY <1>2, <1>9 DEF b, g

LEMMA NumberNothing == ASSUME NEW base \in Bases PROVE Number(<< >>, base) = 0
<1>1. << >> \in Seq(Hex)
  OBVIOUS
<1>2. FoldsTo(Number(<< >>, base), << >>, Nat, 0, NumberStepOf(base))
  BY <1>1, NumberFold, Zenon
<1> QED BY <1>2, FoldsNothing, Zenon

LEMMA NumberGrowsBy ==
  ASSUME NEW base \in Bases, NEW s \in Seq(Hex), NEW o \in Hex
  PROVE  Number(s, base) \in Nat /\ Number(Append(s, o), base) = NumberStep(base, Number(s, base), o)
<1>1. PICK g : g = NumberStepOf(base)
  OBVIOUS
<1>2. PICK b : b = 0
  OBVIOUS
<1>3. b \in Nat /\ g \in [Nat \X Hex -> Nat]
  BY <1>1, <1>2, NumberSteps
<1>4. Append(s, o) \in Seq(Hex)
  OBVIOUS
<1>5. PICK x : x = Number(s, base) /\ FoldsTo(x, s, Nat, b, g)
  BY <1>1, <1>2, NumberFold
<1>6. PICK y : y = Number(Append(s, o), base) /\ FoldsTo(y, Append(s, o), Nat, b, g)
  BY <1>1, <1>2, <1>4, NumberFold
<1>7. Moves(x, y, Nat, o, g)
  <2>1. FoldsTo(x, s, Nat, b, g) /\ FoldsTo(y, Append(s, o), Nat, b, g)
    BY <1>5, <1>6
  <2>2. b \in Nat
    BY <1>3
  <2>3. g \in [Nat \X Hex -> Nat]
    BY <1>3
  <2>4. s \in Seq(Hex) /\ o \in Hex
    OBVIOUS
  <2> QED BY <2>1, <2>2, <2>3, <2>4, FoldsAppend, Zenon
<1>8. g[<<x, o>>] = NumberStep(base, x, o)
  BY <1>1, <1>7 DEF NumberStepOf, Moves
<1> QED BY <1>5, <1>6, <1>7, <1>8 DEF Moves

LEMMA NumberGrows ==
  ASSUME NEW s \in Seq(Digit), NEW o \in Digit
  PROVE  Number(s, 10) \in Nat /\ Number(Append(s, o), 10) = NumberStep(10, Number(s, 10), o)
<1>1. 10 \in Bases /\ s \in Seq(Hex) /\ o \in Hex
  BY DEF Bases, Hex
<1> QED BY <1>1, NumberGrowsBy

-----------------------------------------------------------------------------
(* s is blanks up to a, octets of E up to b, and blanks again. *)
Padded(s, E, a, b) ==
  /\ s \in Texts /\ a \in 0..Len(s) /\ b \in a..Len(s)
  /\ \A i \in 1..Len(s) : s[i] \in IF a < i /\ i <= b THEN E ELSE Blank

LEMMA GreatestNumber ==
  ASSUME NEW n \in Nat, NEW T, T \subseteq 1..n, T # {}
  PROVE  \E x \in T : \A y \in T : y <= x
<1> DEFINE U == {k \in Nat : n - k \in T}
<1>1. \A x \in T : n - x \in U
  OBVIOUS
<1>2. U \subseteq Nat /\ U # {}
  BY <1>1
<1>3. PICK k \in U : \A l \in U : k <= l
  <2> HIDE DEF U
  <2> QED BY <1>2, LeastNumber
<1>4. n - k \in T /\ k \in Nat
  BY <1>3
<1>5. ASSUME NEW y \in T PROVE y <= n - k
  <2>1. n - y \in U /\ y \in Nat
    BY <1>1
  <2>2. k <= n - y
    BY <1>3, <2>1
  <2> QED BY <1>4, <2>1, <2>2
<1> QED BY <1>4, <1>5

LEMMA PaddedTrimmed ==
  ASSUME NEW s, NEW E, NEW a, NEW b, Padded(s, E, a, b)
  PROVE  Consists(Trimmed(s), E)
<1>1. PICK n \in Nat : n = Len(s) /\ DOMAIN s = 1..n
  BY DEF Padded, Texts
<1>2. PICK black : black = {i \in DOMAIN s : s[i] \notin Blank}
  OBVIOUS
<1>3. CASE black = {}
  <2>1. Trimmed(s) = << >>
    BY <1>2, <1>3, Zenon DEF Trimmed
  <2> QED BY <2>1 DEF Consists
<1>4. CASE black # {}
  <2>1. black \subseteq 1..n /\ black \subseteq Nat
    BY <1>1, <1>2
  <2>2. PICK x : x = CHOOSE i \in black : \A j \in black : i <= j
    OBVIOUS
  <2>3. PICK y : y = CHOOSE i \in black : \A j \in black : j <= i
    OBVIOUS
  <2>4. x \in black
    <3>1. \E i \in black : \A j \in black : i <= j
      BY <1>4, <2>1, LeastNumber
    <3> QED BY <2>2, <3>1, Zenon
  <2>5. y \in black
    <3>1. \E i \in black : \A j \in black : j <= i
      BY <1>4, <2>1, GreatestNumber
    <3> QED BY <2>3, <3>1, Zenon
  <2>6. Trimmed(s) = SubSeq(s, x, y)
    BY <1>2, <1>4, <2>2, <2>3, Zenon DEF Trimmed
  <2>7. \A i \in 1..n : s[i] \in IF a < i /\ i <= b THEN E ELSE Blank
    BY <1>1 DEF Padded
  <2>8. x \in 1..n /\ y \in 1..n /\ s[x] \notin Blank /\ s[y] \notin Blank
    BY <1>2, <2>1, <2>4, <2>5
  <2>9. a < x /\ y <= b
    BY <2>7, <2>8
  <2>10. \A i \in x..y : s[i] \in E
    <3>1. a \in Nat /\ b \in Nat
      BY <1>1 DEF Padded
    <3> QED BY <2>7, <2>8, <2>9, <3>1
  <2>11. s \in Texts
    BY DEF Padded
  <2>12. PICK t : t = SubSeq(s, x, y)
    OBVIOUS
  <2>13. Len(t) = (IF x <= y THEN y - x + 1 ELSE 0) /\ DOMAIN t = 1..Len(t)
         /\ \A i \in 1..Len(t) : t[i] = s[x + i - 1]
    BY <1>1, <2>8, <2>11, <2>12 DEF Texts
  <2>14. ASSUME NEW i \in DOMAIN t PROVE t[i] \in E
    <3>1. x + i - 1 \in x..y
      BY <2>8, <2>13, <2>14
    <3> QED BY <2>10, <2>13, <2>14, <3>1
  <2> QED BY <2>6, <2>12, <2>14 DEF Consists
<1> QED BY <1>3, <1>4

(* One octet more. *)
LEMMA PaddedGrows ==
  ASSUME NEW s, NEW E, NEW a, NEW b, Padded(s, E, a, b), NEW o \in Octet
  PROVE  /\ a = Len(s) /\ o \in Blank => Padded(Append(s, o), E, a + 1, a + 1)
         /\ b = Len(s) /\ o \in E => Padded(Append(s, o), E, a, b + 1)
         /\ o \in Blank => Padded(Append(s, o), E, a, b)
         /\ Len(Append(s, o)) = Len(s) + 1
<1>1. s \in Texts /\ a \in 0..Len(s) /\ b \in a..Len(s)
      /\ \A i \in 1..Len(s) : s[i] \in IF a < i /\ i <= b THEN E ELSE Blank
  BY DEF Padded
<1>2. PICK n \in Nat : n = Len(s)
  BY <1>1 DEF Texts
<1>3. PICK t : t = Append(s, o)
  OBVIOUS
<1>4. t \in Texts /\ Len(t) = n + 1 /\ t[n + 1] = o /\ \A i \in 1..n : t[i] = s[i]
  BY <1>1, <1>2, <1>3 DEF Texts
<1>5. ASSUME NEW c \in 0..n + 1, NEW e \in c..n + 1,
             \A i \in 1..n : s[i] \in IF c < i /\ i <= e THEN E ELSE Blank,
             o \in IF c < n + 1 /\ n + 1 <= e THEN E ELSE Blank
      PROVE  Padded(t, E, c, e)
  <2>1. ASSUME NEW i \in 1..n + 1 PROVE t[i] \in IF c < i /\ i <= e THEN E ELSE Blank
    <3>1. CASE i = n + 1
      BY <1>4, <1>5, <3>1
    <3>2. CASE i # n + 1
      <4>1. i \in 1..n
        BY <3>2
      <4>2. t[i] = s[i]
        BY <1>4, <4>1
      <4>3. s[i] \in IF c < i /\ i <= e THEN E ELSE Blank
        BY <1>5, <4>1
      <4> QED BY <4>2, <4>3
    <3> QED BY <3>1, <3>2
  <2> QED BY <1>4, <2>1 DEF Padded
<1>6. ASSUME a = n, o \in Blank PROVE Padded(t, E, a + 1, a + 1)
  <2>1. a + 1 \in 0..n + 1 /\ a + 1 \in a + 1..n + 1 /\ b = a
    BY <1>1, <1>2, <1>6
  <2>2. \A i \in 1..n : s[i] \in IF a + 1 < i /\ i <= a + 1 THEN E ELSE Blank
    BY <1>1, <1>2, <1>6, <2>1
  <2>3. o \in IF a + 1 < n + 1 /\ n + 1 <= a + 1 THEN E ELSE Blank
    BY <1>6
  <2> QED BY <1>5, <2>1, <2>2, <2>3
<1>7. ASSUME b = n, o \in E PROVE Padded(t, E, a, b + 1)
  <2>1. a \in 0..n + 1 /\ b + 1 \in a..n + 1
    BY <1>1, <1>2, <1>7
  <2>2. \A i \in 1..n : s[i] \in IF a < i /\ i <= b + 1 THEN E ELSE Blank
    BY <1>1, <1>2, <1>7, <2>1
  <2>3. o \in IF a < n + 1 /\ n + 1 <= b + 1 THEN E ELSE Blank
    BY <1>1, <1>2, <1>7
  <2> QED BY <1>5, <2>1, <2>2, <2>3
<1>8. ASSUME o \in Blank PROVE Padded(t, E, a, b)
  <2>1. a \in 0..n + 1 /\ b \in a..n + 1
    BY <1>1, <1>2
  <2>2. \A i \in 1..n : s[i] \in IF a < i /\ i <= b THEN E ELSE Blank
    BY <1>1, <1>2
  <2>3. o \in IF a < n + 1 /\ n + 1 <= b THEN E ELSE Blank
    BY <1>1, <1>2, <1>8
  <2> QED BY <1>5, <2>1, <2>2, <2>3
<1> QED BY <1>2, <1>3, <1>4, <1>6, <1>7, <1>8

LEMMA PaddedNothing == ASSUME NEW E PROVE Padded(<< >>, E, 0, 0)
BY DEF Padded, Texts

-----------------------------------------------------------------------------
(* Where the decoder of a list of E is in a text it has read to state s:   *)
(* the runs of E are those of front and, last, cur; the parts between the  *)
(* commas are right, and the last one is blank, or goes on, or has ended.  *)
Separated(t, E, s) ==
  \E done, part, a, b :
    /\ done \in Seq(Texts)
    /\ SplitAt(t, COMMA) = Append(done, part)
    /\ \A k \in 1..Len(done) : Consists(Trimmed(done[k]), E)
    /\ Padded(part, E, a, b)
    /\ s \in {1, 4} => a = Len(part)
    /\ s = 2 => b = Len(part)

Gathered(t, E, s, least, front, cur) ==
  /\ front \in Seq(Texts) /\ cur \in Seq(E)
  /\ SplitBy(t, Octet \ E) = Append(front, cur)
  /\ s = 2 <=> cur # << >>
  /\ s = 1 => Filled(front) = << >> /\ least = 1
  /\ s \in {3, 4} /\ least = 1 => Filled(front) # << >>

Elemental(E) == E \subseteq Octet /\ \A o \in E : o \notin Blank /\ o # COMMA

InList(t, E, s, least, front, cur) ==
  /\ t \in Texts /\ s \in 1..4
  /\ Separated(t, E, s) /\ Gathered(t, E, s, least, front, cur)

LEMMA ListMoves ==
  ASSUME NEW E, Elemental(E), NEW s \in 1..4, NEW o \in Octet, ListShift(s, o, E) \in 1..4
  PROVE  \/ o \in E /\ s # 3 /\ ListShift(s, o, E) = 2
         \/ /\ o \in Blank /\ o \notin E /\ o # COMMA
            /\ ListShift(s, o, E) = IF s \in {1, 4} THEN s ELSE 3
         \/ o = COMMA /\ o \notin E /\ o \notin Blank /\ ListShift(s, o, E) = IF s = 1 THEN 1 ELSE 4
<1>1. COMMA \notin Blank /\ COMMA # End /\ End \notin Octet
  BY DEF COMMA, Blank, HT, SP, End, Octet
<1>2. \A x \in E : x \notin Blank /\ x # COMMA
  BY DEF Elemental
<1>3. CASE o \in E
  BY <1>1, <1>2, <1>3 DEF ListShift
<1>4. CASE o \notin E /\ o \in Blank
  BY <1>1, <1>4 DEF ListShift
<1>5. CASE o \notin E /\ o = COMMA
  BY <1>1, <1>5 DEF ListShift
<1>6. CASE o \notin E /\ o # COMMA /\ o \notin Blank
  BY <1>1, <1>6 DEF ListShift
<1> QED BY <1>3, <1>4, <1>5, <1>6

LEMMA SeparatedGrows ==
  ASSUME NEW E, Elemental(E), NEW t \in Texts, NEW s \in 1..4, Separated(t, E, s),
         NEW o \in Octet, ListShift(s, o, E) \in 1..4
  PROVE  Separated(Append(t, o), E, ListShift(s, o, E))
<1>1. PICK next : next = ListShift(s, o, E)
  OBVIOUS
<1>2. PICK done, part, a, b :
        /\ done \in Seq(Texts)
        /\ SplitAt(t, COMMA) = Append(done, part)
        /\ \A k \in 1..Len(done) : Consists(Trimmed(done[k]), E)
        /\ Padded(part, E, a, b)
        /\ s \in {1, 4} => a = Len(part)
        /\ s = 2 => b = Len(part)
  BY DEF Separated
<1>3. part \in Texts /\ a \in 0..Len(part) /\ b \in a..Len(part) /\ Len(part) \in Nat
  BY <1>2 DEF Padded, Texts
<1>4. SplitAt(Append(t, o), COMMA) = IF o = COMMA THEN Append(Append(done, part), << >>)
                                     ELSE Append(done, Append(part, o))
  <2>1. SplitAt(Append(t, o), COMMA) = SplitStep(SplitAt(t, COMMA), COMMA, o)
    BY SplitGrows DEF Texts
  <2>2. SplitStep(Append(done, part), COMMA, o) =
          IF o = COMMA THEN Append(Append(done, part), << >>) ELSE Append(done, Append(part, o))
    BY <1>2, <1>3, SplitStepLast DEF Texts
  <2> QED BY <1>2, <2>1, <2>2
<1>5. /\ a = Len(part) /\ o \in Blank => Padded(Append(part, o), E, a + 1, a + 1)
      /\ b = Len(part) /\ o \in E => Padded(Append(part, o), E, a, b + 1)
      /\ o \in Blank => Padded(Append(part, o), E, a, b)
      /\ Len(Append(part, o)) = Len(part) + 1
  BY <1>2, PaddedGrows
<1>6. CASE o \in E /\ s # 3 /\ next = 2
  <2>1. b = Len(part)
    BY <1>2, <1>3, <1>6
  <2>2. o # COMMA
    BY <1>6 DEF Elemental
  <2>3. Padded(Append(part, o), E, a, b + 1) /\ b + 1 = Len(Append(part, o))
    BY <1>5, <1>6, <2>1
  <2>4. SplitAt(Append(t, o), COMMA) = Append(done, Append(part, o))
    BY <1>4, <2>2
  <2>5. next \notin {1, 4}
    BY <1>6
  <2> QED BY <1>1, <1>2, <2>3, <2>4, <2>5, Zenon DEF Separated
<1>7. CASE o \in Blank /\ o # COMMA /\ next = IF s \in {1, 4} THEN s ELSE 3
  <2>1. SplitAt(Append(t, o), COMMA) = Append(done, Append(part, o))
    BY <1>4, <1>7
  <2>2. CASE s \in {1, 4}
    <3>1. Padded(Append(part, o), E, a + 1, a + 1) /\ a + 1 = Len(Append(part, o))
      BY <1>2, <1>5, <1>7, <2>2
    <3>2. next # 2
      BY <1>7, <2>2
    <3> QED BY <1>1, <1>2, <2>1, <3>1, <3>2, Zenon DEF Separated
  <2>3. CASE s \notin {1, 4}
    <3>1. Padded(Append(part, o), E, a, b)
      BY <1>5, <1>7
    <3>2. next \notin {1, 4} /\ next # 2
      BY <1>7, <2>3
    <3> QED BY <1>1, <1>2, <2>1, <3>1, <3>2, Zenon DEF Separated
  <2> QED BY <2>2, <2>3
<1>8. CASE o = COMMA /\ next = IF s = 1 THEN 1 ELSE 4
  <2>1. PICK d : d = Append(done, part)
    OBVIOUS
  <2>2. SplitAt(Append(t, o), COMMA) = Append(d, << >>)
    BY <1>4, <1>8, <2>1
  <2>3. d \in Seq(Texts) /\ Len(d) = Len(done) + 1 /\ d[Len(done) + 1] = part
        /\ \A k \in 1..Len(done) : d[k] = done[k]
    BY <1>2, <1>3, <2>1
  <2>4. Consists(Trimmed(part), E)
    BY <1>2, PaddedTrimmed
  <2>5. ASSUME NEW k \in 1..Len(d) PROVE Consists(Trimmed(d[k]), E)
    <3>1. CASE k = Len(done) + 1
      BY <2>3, <2>4, <3>1
    <3>2. CASE k # Len(done) + 1
      <4>1. k \in 1..Len(done)
        BY <2>3, <3>2
      <4> QED BY <1>2, <2>3, <4>1, Zenon
    <3> QED BY <3>1, <3>2
  <2>6. Padded(<< >>, E, 0, 0) /\ 0 = Len(<< >>)
    BY PaddedNothing
  <2>7. next # 2
    BY <1>8
  <2> QED BY <1>1, <2>2, <2>3, <2>5, <2>6, <2>7, Zenon DEF Separated
<1> QED BY <1>1, <1>6, <1>7, <1>8, ListMoves

LEMMA GatheredGrows ==
  ASSUME NEW E, Elemental(E), NEW t \in Texts, NEW s \in 1..4, NEW least, NEW front, NEW cur,
         Gathered(t, E, s, least, front, cur), NEW o \in Octet, ListShift(s, o, E) \in 1..4
  PROVE  /\ o \in E => Gathered(Append(t, o), E, ListShift(s, o, E), least, front, Append(cur, o))
         /\ o \notin E => Gathered(Append(t, o), E, ListShift(s, o, E), least, Append(front, cur), << >>)
<1>1. PICK next : next = ListShift(s, o, E)
  OBVIOUS
<1>2. /\ front \in Seq(Texts) /\ cur \in Seq(E) /\ cur \in Texts
      /\ SplitBy(t, Octet \ E) = Append(front, cur)
      /\ s = 2 <=> cur # << >>
      /\ s = 1 => Filled(front) = << >> /\ least = 1
      /\ s \in {3, 4} /\ least = 1 => Filled(front) # << >>
  <2>1. \A x \in Seq(E) : x \in Texts
    BY DEF Elemental, Texts
  <2> QED BY <2>1, Zenon DEF Gathered
<1>3. PICK others : others = Octet \ E
  OBVIOUS
<1>4. SplitBy(Append(t, o), others) = IF o \in others THEN Append(Append(front, cur), << >>)
                                      ELSE Append(front, Append(cur, o))
  <2>1. SplitBy(Append(t, o), others) = SplitByStep(SplitBy(t, others), others, o)
    BY SplitByGrows DEF Texts
  <2>2. SplitByStep(Append(front, cur), others, o) =
          IF o \in others THEN Append(Append(front, cur), << >>) ELSE Append(front, Append(cur, o))
    BY <1>2, SplitByLast DEF Texts, NextParts
  <2> QED BY <1>2, <1>3, <2>1, <2>2
<1>5. CASE o \in E
  <2>1. o \notin others
    BY <1>3, <1>5
  <2>2. next = 2
    BY <1>1, <1>5, ListMoves DEF Elemental
  <2>3. Append(cur, o) \in Seq(E) /\ Append(cur, o) # << >>
    BY <1>2, <1>5
  <2>4. SplitBy(Append(t, o), Octet \ E) = Append(front, Append(cur, o))
    BY <1>3, <1>4, <2>1
  <2>5. next # 1 /\ next \notin {3, 4}
    BY <2>2
  <2>6. Gathered(Append(t, o), E, next, least, front, Append(cur, o))
    BY <1>2, <2>2, <2>3, <2>4, <2>5, Zenon DEF Gathered
  <2> QED BY <1>1, <1>5, <2>6
<1>6. CASE o \notin E
  <2>1. o \in others
    BY <1>3, <1>6
  <2>2. next \in {1, 3, 4} /\ (next = 1 => s = 1) /\ (next = 3 => s \in {2, 3})
        /\ (next = 4 => s \in {2, 3, 4})
    BY <1>1, <1>6, ListMoves
  <2>3. PICK f : f = Append(front, cur)
    OBVIOUS
  <2>4. f \in Seq(Texts) /\ << >> \in Seq(E)
    BY <1>2, <2>3
  <2>5. Filled(front) \in Seq(Texts) /\ Filled(f) = FillStep(Filled(front), cur)
    BY <1>2, <2>3, FilledGrows
  <2>6. SplitBy(Append(t, o), Octet \ E) = Append(f, << >>)
    BY <1>3, <1>4, <2>1, <2>3
  <2>7. next = 1 => Filled(f) = << >> /\ least = 1
    BY <1>2, <2>2, <2>5 DEF FillStep
  <2>8. next \in {3, 4} /\ least = 1 => Filled(f) # << >>
    <3> SUFFICES ASSUME next \in {3, 4}, least = 1 PROVE Filled(f) # << >>
      OBVIOUS
    <3>1. CASE cur # << >>
      BY <2>5, <3>1 DEF FillStep
    <3>2. CASE cur = << >>
      <4>1. s \in {3, 4}
        BY <1>2, <2>2, <3>2
      <4> QED BY <1>2, <2>5, <3>2, <4>1 DEF FillStep
    <3> QED BY <3>1, <3>2
  <2>9. Gathered(Append(t, o), E, next, least, f, << >>)
    <3>1. next # 2
      BY <2>2
    <3> QED BY <2>4, <2>6, <2>7, <2>8, <3>1, Zenon DEF Gathered
  <2> QED BY <1>1, <1>6, <2>3, <2>9
<1> QED BY <1>5, <1>6

LEMMA RunsGathered ==
  ASSUME NEW E, NEW t, NEW s, NEW least, NEW front, NEW cur, Gathered(t, E, s, least, front, cur), Elemental(E)
  PROVE  /\ Filled(front) \in Seq(Texts)
         /\ Runs(t, E) = IF cur = << >> THEN Filled(front) ELSE Append(Filled(front), cur)
<1>1. front \in Seq(Texts) /\ cur \in Seq(E) /\ SplitBy(t, Octet \ E) = Append(front, cur)
  BY DEF Gathered
<1>2. cur \in Texts
  BY <1>1 DEF Elemental, Texts
<1>3. Filled(front) \in Seq(Texts) /\ Filled(Append(front, cur)) = FillStep(Filled(front), cur)
  BY <1>1, <1>2, FilledGrows
<1> QED BY <1>1, <1>3, Zenon DEF Runs, FillStep

LEMMA ListTaken ==
  ASSUME NEW E, Elemental(E), NEW t, NEW s, NEW least \in 0..1, NEW front, NEW cur,
         InList(t, E, s, least, front, cur)
  PROVE  IsList(t, E, least) <=> s # 1
<1>1. /\ t \in Texts /\ s \in 1..4 /\ Separated(t, E, s) /\ Gathered(t, E, s, least, front, cur)
  BY DEF InList
<1>2. /\ Filled(front) \in Seq(Texts)
      /\ Runs(t, E) = IF cur = << >> THEN Filled(front) ELSE Append(Filled(front), cur)
  BY <1>1, RunsGathered
<1>3. PICK done, part, a, b :
        /\ done \in Seq(Texts)
        /\ SplitAt(t, COMMA) = Append(done, part)
        /\ \A k \in 1..Len(done) : Consists(Trimmed(done[k]), E)
        /\ Padded(part, E, a, b)
  BY <1>1 DEF Separated
<1>4. \A p \in ToSet(SplitAt(t, COMMA)) : Consists(Trimmed(p), E)
  <2>1. Consists(Trimmed(part), E)
    BY <1>3, PaddedTrimmed
  <2>2. PICK x : x = Append(done, part)
    OBVIOUS
  <2>3. part \in Texts
    BY <1>3 DEF Padded
  <2>4. DOMAIN x = 1..Len(done) + 1 /\ x[Len(done) + 1] = part /\ \A k \in 1..Len(done) : x[k] = done[k]
    BY <2>2, <2>3
  <2>5. ASSUME NEW k \in DOMAIN x PROVE Consists(Trimmed(x[k]), E)
    <3>1. k = Len(done) + 1 \/ k \in 1..Len(done)
      BY <2>4
    <3> QED BY <1>3, <2>1, <2>4, <3>1, Zenon
  <2> QED BY <1>3, <2>2, <2>5 DEF ToSet
<1>5. CASE s = 1
  <2>1. Runs(t, E) = << >> /\ least = 1
    BY <1>1, <1>2, <1>5 DEF Gathered
  <2>2. ~(Len(Runs(t, E)) >= least)
    BY <2>1
  <2> QED BY <1>5, <2>2 DEF IsList
<1>6. CASE s # 1
  <2>1. Len(Runs(t, E)) >= least
    <3>1. PICK runs \in Seq(Texts) : runs = Filled(front)
      BY <1>2
    <3>2. CASE cur # << >>
      <4>1. cur \in Texts
        BY <1>1 DEF Gathered, Elemental, Texts
      <4>2. Runs(t, E) = Append(runs, cur)
        BY <1>2, <3>1, <3>2
      <4>3. Len(Append(runs, cur)) = Len(runs) + 1 /\ Len(runs) \in Nat
        BY <4>1
      <4> QED BY <4>2, <4>3
    <3>3. CASE cur = << >>
      <4>1. Runs(t, E) = runs
        BY <1>2, <3>1, <3>3
      <4>2. s \in {3, 4}
        <5>1. s # 2
          BY <1>1, <3>3, Zenon DEF Gathered
        <5> QED BY <1>1, <1>6, <5>1
      <4>3. least = 1 => runs # << >>
        BY <1>1, <3>1, <4>2, Zenon DEF Gathered
      <4>4. Len(runs) \in Nat /\ (runs # << >> => Len(runs) # 0)
        OBVIOUS
      <4> QED BY <4>1, <4>3, <4>4
    <3> QED BY <3>2, <3>3
  <2> QED BY <1>4, <1>6, <2>1 DEF IsList
<1> QED BY <1>5, <1>6

LEMMA ListStarts ==
  ASSUME NEW E, NEW least \in 0..1
  PROVE  InList(<< >>, E, IF least = 1 THEN 1 ELSE 4, least, << >>, << >>)
<1>1. PICK s \in {1, 4} : s = IF least = 1 THEN 1 ELSE 4
  OBVIOUS
<1>2. s # 2 /\ s # 3 /\ s \in 1..4 /\ (s = 1 <=> least = 1)
  BY <1>1
<1>3. Separated(<< >>, E, s)
  <2>1. SplitAt(<< >>, COMMA) = Append(<< >>, << >>)
    <3>1. Append(<< >>, << >>) = << << >> >>
      OBVIOUS
    <3> QED BY <3>1, SplitNothing
  <2>2. << >> \in Seq(Texts) /\ \A k \in 1..Len(<< >>) : Consists(Trimmed((<< >>)[k]), E)
    OBVIOUS
  <2>3. Padded(<< >>, E, 0, 0) /\ Len(<< >>) = 0
    BY PaddedNothing
  <2> QED BY <2>1, <2>2, <2>3, Zenon DEF Separated
<1>4. Gathered(<< >>, E, s, least, << >>, << >>)
  <2>1. SplitBy(<< >>, Octet \ E) = Append(<< >>, << >>)
    <3>1. Append(<< >>, << >>) = << << >> >>
      OBVIOUS
    <3> QED BY <3>1, SplitByNothing
  <2>2. Filled(<< >>) = << >> /\ << >> \in Seq(E) /\ << >> \in Seq(Texts)
    BY FilledNothing
  <2>3. ~(s \in {3, 4} /\ least = 1)
    BY <1>2
  <2> QED BY <1>2, <2>1, <2>2, <2>3, Zenon DEF Gathered
<1>5. << >> \in Texts
  BY DEF Texts
<1> QED BY <1>1, <1>2, <1>3, <1>4, <1>5, Zenon DEF InList

LEMMA ListGoesOn ==
  ASSUME NEW E, Elemental(E), NEW t, NEW s, NEW least, NEW front, NEW cur,
         InList(t, E, s, least, front, cur), NEW o \in Octet, ListShift(s, o, E) \in 1..4
  PROVE  /\ o \in E => InList(Append(t, o), E, ListShift(s, o, E), least, front, Append(cur, o))
         /\ o \notin E => InList(Append(t, o), E, ListShift(s, o, E), least, Append(front, cur), << >>)
<1>1. /\ t \in Texts /\ s \in 1..4 /\ Separated(t, E, s) /\ Gathered(t, E, s, least, front, cur)
  BY DEF InList
<1>2. Append(t, o) \in Texts
  BY <1>1 DEF Texts
<1>3. Separated(Append(t, o), E, ListShift(s, o, E))
  BY <1>1, SeparatedGrows
<1>4. /\ o \in E => Gathered(Append(t, o), E, ListShift(s, o, E), least, front, Append(cur, o))
      /\ o \notin E => Gathered(Append(t, o), E, ListShift(s, o, E), least, Append(front, cur), << >>)
  BY <1>1, GatheredGrows
<1> QED BY <1>2, <1>3, <1>4, Zenon DEF InList

LEMMA ListEnds ==
  ASSUME NEW E, Elemental(E), NEW s \in 1..4
  PROVE  ListShift(s, End, E) = IF s = 1 THEN 0 ELSE 5
<1>1. End \notin E /\ End \notin Blank /\ End # COMMA
  BY DEF Elemental, End, Octet, Blank, HT, SP, COMMA
<1> QED BY <1>1 DEF ListShift

LEMMA OctetShifts ==
  ASSUME NEW s, NEW o, NEW E, o # End PROVE ListShift(s, o, E) \in {0, 1, 2, 3, 4}
BY Zenon DEF ListShift

LEMMA TokensAndNumbers == Elemental(Tchar) /\ Elemental(Digit)
BY DEF Elemental, Tchar, Digit, Alnum, Upper, Lower, Octet, Blank, COMMA, HT, SP, STAR, DASH, DOT, USCORE

(* What follows an element, and what stays in it. *)
LEMMA ListLeaves ==
  ASSUME NEW E, Elemental(E), NEW s \in 1..4, NEW o \in Octet, ListShift(s, o, E) \in 1..4
  PROVE  /\ o \in E <=> ListShift(s, o, E) = 2
         /\ ListShift(s, o, E) \in 3..4 \/ s # 2 \/ o \in E
BY ListMoves

-----------------------------------------------------------------------------
LoweredEach(x) == [k \in DOMAIN x |-> Lowered(x[k])]

LEMMA LoweredText == ASSUME NEW s \in Texts PROVE Lowered(s) \in Texts
<1>1. \A o \in Octet : ToLower(o) \in Octet
  BY DEF ToLower, Octet, Upper
<1>2. \A i \in 1..Len(s) : s[i] \in Octet
  BY DEF Texts
<1>3. DOMAIN s = 1..Len(s) /\ Len(s) \in Nat
  BY DEF Texts
<1>4. Lowered(s) \in [1..Len(s) -> Octet]
  BY <1>1, <1>2, <1>3 DEF Lowered
<1> QED BY <1>3, <1>4 DEF Texts

LEMMA LoweredEachGrows ==
  ASSUME NEW x \in Seq(Texts), NEW y \in Texts
  PROVE  LoweredEach(x) \in Seq(Texts) /\ LoweredEach(Append(x, y)) = Append(LoweredEach(x), Lowered(y))
<1>1. ASSUME NEW z \in Seq(Texts)
      PROVE  /\ LoweredEach(z) \in Seq(Texts) /\ Len(LoweredEach(z)) = Len(z)
             /\ \A k \in 1..Len(z) : LoweredEach(z)[k] = Lowered(z[k])
  <2>1. \A k \in 1..Len(z) : Lowered(z[k]) \in Texts
    BY LoweredText
  <2>2. DOMAIN z = 1..Len(z) /\ Len(z) \in Nat
    OBVIOUS
  <2>3. LoweredEach(z) \in [1..Len(z) -> Texts]
    BY <2>1, <2>2 DEF LoweredEach
  <2>4. LoweredEach(z) \in Seq(Texts) /\ Len(LoweredEach(z)) = Len(z)
    BY <2>2, <2>3
  <2> QED BY <2>2, <2>4 DEF LoweredEach
<1>2. PICK n \in Nat : n = Len(x)
  OBVIOUS
<1>3. PICK z : z = Append(x, y)
  OBVIOUS
<1>4. z \in Seq(Texts) /\ Len(z) = n + 1 /\ z[n + 1] = y /\ \A k \in 1..n : z[k] = x[k]
  BY <1>2, <1>3
<1>5. PICK l : l = LoweredEach(x)
  OBVIOUS
<1>6. l \in Seq(Texts) /\ Len(l) = n /\ \A k \in 1..n : l[k] = Lowered(x[k])
  BY <1>1, <1>2, <1>5
<1>7. PICK m : m = LoweredEach(z)
  OBVIOUS
<1>8. m \in Seq(Texts) /\ Len(m) = n + 1 /\ \A k \in 1..n + 1 : m[k] = Lowered(z[k])
  BY <1>1, <1>4, <1>7
<1>9. PICK q : q = Append(l, Lowered(y))
  OBVIOUS
<1>10. q \in Seq(Texts) /\ Len(q) = n + 1 /\ q[n + 1] = Lowered(y) /\ \A k \in 1..n : q[k] = l[k]
  BY <1>6, <1>9, LoweredText
<1>11. ASSUME NEW k \in 1..n + 1 PROVE m[k] = q[k]
  <2>1. CASE k = n + 1
    BY <1>4, <1>8, <1>10, <2>1
  <2>2. CASE k # n + 1
    <3>1. k \in 1..n
      BY <2>2
    <3> QED BY <1>4, <1>6, <1>8, <1>10, <3>1
  <2> QED BY <2>1, <2>2
<1>12. m = q
  BY <1>8, <1>10, <1>11, SeqEqual
<1> QED BY <1>3, <1>5, <1>6, <1>7, <1>9, <1>12

-----------------------------------------------------------------------------
(* A list of tokens. *)
TokenRecords == [next_state : 0..5, item : Texts, list : Seq(Texts)]

TokensHeld(e, next, item, list) ==
  e \in TokenRecords /\ e.next_state = next /\ e.item = item /\ e.list = list

LEMMA TokensPutFields ==
  ASSUME NEW d \in TokenRecords, NEW o, NEW next, next = ListShift(d.next_state, o, Tchar)
  PROVE  /\ next = 2 => TokensHeld(TokensPut(d, o), next, Append(d.item, ToLower(o)), d.list)
         /\ next # 2 /\ d.next_state = 2 /\ next \in {3, 4, 5} =>
              TokensHeld(TokensPut(d, o), next, << >>, Append(d.list, d.item))
         /\ next # 2 /\ ~(d.next_state = 2 /\ next \in {3, 4, 5}) =>
              TokensHeld(TokensPut(d, o), next, d.item, d.list)
<1>1. next \in 0..5 /\ (next = 2 => o \in Tchar)
  BY ListStates
<1>2. d.item \in Texts /\ d.list \in Seq(Texts) /\ d.next_state \in 0..5
  BY DEF TokenRecords
<1> DEFINE n == [d EXCEPT !.next_state = next]
<1>3. n \in TokenRecords /\ n.next_state = next /\ n.item = d.item /\ n.list = d.list
  BY <1>1, Zenon DEF TokenRecords
<1> HIDE DEF n
<1>4. ASSUME next = 2 PROVE TokensHeld(TokensPut(d, o), next, Append(d.item, ToLower(o)), d.list)
  <2>1. o \in Octet /\ ToLower(o) \in Octet
    BY <1>1, <1>4 DEF Tchar, Alnum, Digit, Upper, Lower, Octet, ToLower, STAR, DASH, DOT, USCORE
  <2>2. Append(d.item, ToLower(o)) \in Texts
    BY <1>2, <2>1 DEF Texts
  <2>3. TokensPut(d, o) = [n EXCEPT !.item = Append(@, TokenOctet(o))]
    <3>1. next \notin {3, 4, 5}
      BY <1>4
    <3> QED BY <1>4, <3>1, Zenon DEF TokensPut, n
  <2>4. TokensPut(d, o) = [n EXCEPT !.item = Append(d.item, ToLower(o))]
    BY <1>3, <2>3, Zenon DEF TokenOctet
  <2> QED BY <1>3, <2>2, <2>4, Zenon DEF TokensHeld, TokenRecords
<1>5. ASSUME next # 2, d.next_state = 2, next \in {3, 4, 5}
      PROVE  TokensHeld(TokensPut(d, o), next, << >>, Append(d.list, d.item))
  <2>1. TokensPut(d, o) = [n EXCEPT !.list = Append(@, d.item), !.item = << >>]
    BY <1>5, Zenon DEF TokensPut, n
  <2>2. TokensPut(d, o) = [n EXCEPT !.list = Append(d.list, d.item), !.item = << >>]
    BY <1>3, <2>1, Zenon
  <2>3. Append(d.list, d.item) \in Seq(Texts) /\ << >> \in Texts
    BY <1>2 DEF Texts
  <2> QED BY <1>3, <2>2, <2>3, Zenon DEF TokensHeld, TokenRecords
<1>6. ASSUME next # 2, ~(d.next_state = 2 /\ next \in {3, 4, 5})
      PROVE  TokensHeld(TokensPut(d, o), next, d.item, d.list)
  <2>1. TokensPut(d, o) = n
    BY <1>6, Zenon DEF TokensPut, n
  <2> QED BY <1>3, <2>1 DEF TokensHeld
<1> QED BY <1>4, <1>5, <1>6

(* The tokens so far are those of the runs of tchars in the text. *)
TokensRead(t, d, least) ==
  /\ d \in TokenRecords
  /\ \E front, cur : /\ InList(t, Tchar, d.next_state, least, front, cur)
                     /\ d.item = Lowered(cur) /\ d.list = LoweredEach(Filled(front))

LEMMA TokensReadOn ==
  ASSUME NEW t, NEW d, NEW least, TokensRead(t, d, least), NEW o \in Octet,
         ListShift(d.next_state, o, Tchar) # 0
  PROVE  TokensRead(Append(t, o), TokensPut(d, o), least)
<1>1. PICK next : next = ListShift(d.next_state, o, Tchar)
  OBVIOUS
<1>2. PICK e : e = TokensPut(d, o)
  OBVIOUS
<1>3. PICK front, cur : /\ InList(t, Tchar, d.next_state, least, front, cur)
                        /\ d.item = Lowered(cur) /\ d.list = LoweredEach(Filled(front))
  BY DEF TokensRead
<1>4. d \in TokenRecords /\ d.next_state \in 1..4
  BY <1>3 DEF TokensRead, InList
<1>5. next \in 1..4
  <2>1. next \in 0..5 /\ next # 0
    BY <1>1, ListStates
  <2>2. o # End
    BY DEF End, Octet
  <2>3. next \in {0, 1, 2, 3, 4}
    BY <1>1, <2>2, OctetShifts
  <2> QED BY <2>1, <2>3
<1>6. /\ next = 2 => TokensHeld(e, next, Append(d.item, ToLower(o)), d.list)
      /\ next # 2 /\ d.next_state = 2 /\ next \in {3, 4, 5} => TokensHeld(e, next, << >>, Append(d.list, d.item))
      /\ next # 2 /\ ~(d.next_state = 2 /\ next \in {3, 4, 5}) => TokensHeld(e, next, d.item, d.list)
  BY <1>1, <1>2, <1>4, TokensPutFields
<1>7. /\ o \in Tchar => InList(Append(t, o), Tchar, next, least, front, Append(cur, o))
      /\ o \notin Tchar => InList(Append(t, o), Tchar, next, least, Append(front, cur), << >>)
  BY <1>1, <1>3, <1>5, ListGoesOn, TokensAndNumbers
<1>8. (o \in Tchar <=> next = 2) /\ (next \in 3..4 \/ d.next_state # 2 \/ o \in Tchar)
  BY <1>1, <1>4, <1>5, ListLeaves, TokensAndNumbers
<1>9. front \in Seq(Texts) /\ cur \in Texts /\ Filled(front) \in Seq(Texts) /\ (d.next_state = 2 <=> cur # << >>)
  <2>1. Gathered(t, Tchar, d.next_state, least, front, cur)
    BY <1>3 DEF InList
  <2>2. \A x \in Seq(Tchar) : x \in Texts
    BY TokensAndNumbers DEF Elemental, Texts
  <2>3. Filled(front) \in Seq(Texts)
    BY <2>1, RunsGathered, TokensAndNumbers
  <2> QED BY <2>1, <2>2, <2>3, Zenon DEF Gathered
<1>10. CASE next = 2
  <2>1. TokensHeld(e, next, Append(d.item, ToLower(o)), d.list)
    BY <1>6, <1>10
  <2>2. Lowered(Append(cur, o)) = Append(Lowered(cur), ToLower(o))
    BY <1>9, LoweredGrows DEF Texts
  <2>3. InList(Append(t, o), Tchar, next, least, front, Append(cur, o))
    BY <1>7, <1>8, <1>10
  <2> QED BY <1>2, <1>3, <2>1, <2>2, <2>3, Zenon DEF TokensRead, TokensHeld
<1>11. CASE next # 2
  <2>1. InList(Append(t, o), Tchar, next, least, Append(front, cur), << >>)
    BY <1>7, <1>8, <1>11
  <2>2. Filled(Append(front, cur)) = FillStep(Filled(front), cur)
    BY <1>9, FilledGrows
  <2>3. Lowered(<< >>) = << >>
    BY DEF Lowered
  <2>4. CASE d.next_state = 2
    <3>1. TokensHeld(e, next, << >>, Append(d.list, d.item))
      BY <1>6, <1>8, <1>11, <2>4
    <3>2. Filled(Append(front, cur)) = Append(Filled(front), cur)
      BY <1>9, <2>2, <2>4 DEF FillStep
    <3>3. LoweredEach(Append(Filled(front), cur)) = Append(LoweredEach(Filled(front)), Lowered(cur))
      BY <1>9, LoweredEachGrows
    <3> QED BY <1>2, <1>3, <2>1, <2>3, <3>1, <3>2, <3>3, Zenon DEF TokensRead, TokensHeld
  <2>5. CASE d.next_state # 2
    <3>1. TokensHeld(e, next, d.item, d.list)
      BY <1>6, <1>11, <2>5
    <3>2. Filled(Append(front, cur)) = Filled(front) /\ cur = << >>
      BY <1>9, <2>2, <2>5 DEF FillStep
    <3> QED BY <1>2, <1>3, <2>1, <2>3, <3>1, <3>2, Zenon DEF TokensRead, TokensHeld
  <2> QED BY <2>4, <2>5
<1> QED BY <1>10, <1>11

(* What the end of the value makes of it. *)
LEMMA TokensEnd ==
  ASSUME NEW t, NEW d, NEW least \in 0..1, TokensRead(t, d, least), NEW e, e = TokensPut(d, End)
  PROVE  /\ TokensMatched(e) <=> IsList(t, Tchar, least)
         /\ TokensMatched(e) => e.list = LoweredEach(Runs(t, Tchar))
<1>1. PICK front, cur : /\ InList(t, Tchar, d.next_state, least, front, cur)
                        /\ d.item = Lowered(cur) /\ d.list = LoweredEach(Filled(front))
  BY DEF TokensRead
<1>2. d \in TokenRecords /\ d.next_state \in 1..4 /\ Gathered(t, Tchar, d.next_state, least, front, cur)
  BY <1>1 DEF TokensRead, InList
<1>3. PICK next : next = ListShift(d.next_state, End, Tchar)
  OBVIOUS
<1>4. next = IF d.next_state = 1 THEN 0 ELSE 5
  BY <1>2, <1>3, ListEnds, TokensAndNumbers
<1>5. /\ next # 2 /\ d.next_state = 2 /\ next \in {3, 4, 5} => TokensHeld(e, next, << >>, Append(d.list, d.item))
      /\ next # 2 /\ ~(d.next_state = 2 /\ next \in {3, 4, 5}) => TokensHeld(e, next, d.item, d.list)
  BY <1>2, <1>3, TokensPutFields
<1>6. IsList(t, Tchar, least) <=> d.next_state # 1
  BY <1>1, ListTaken, TokensAndNumbers
<1>7. /\ Filled(front) \in Seq(Texts)
      /\ Runs(t, Tchar) = IF cur = << >> THEN Filled(front) ELSE Append(Filled(front), cur)
  BY <1>2, RunsGathered, TokensAndNumbers
<1>8. cur \in Texts /\ (d.next_state = 2 <=> cur # << >>)
  <2>1. \A x \in Seq(Tchar) : x \in Texts
    BY TokensAndNumbers DEF Elemental, Texts
  <2> QED BY <1>2, <2>1, Zenon DEF Gathered
<1>9. CASE d.next_state = 1
  <2>1. e.next_state = 0
    BY <1>4, <1>5, <1>9 DEF TokensHeld
  <2> QED BY <1>6, <1>9, <2>1 DEF TokensMatched
<1>10. CASE d.next_state = 2
  <2>1. e.next_state = 5 /\ e.list = Append(d.list, d.item)
    BY <1>4, <1>5, <1>10 DEF TokensHeld
  <2>2. Runs(t, Tchar) = Append(Filled(front), cur)
    BY <1>7, <1>8, <1>10
  <2>3. LoweredEach(Append(Filled(front), cur)) = Append(LoweredEach(Filled(front)), Lowered(cur))
    BY <1>7, <1>8, LoweredEachGrows
  <2> QED BY <1>1, <1>6, <1>10, <2>1, <2>2, <2>3 DEF TokensMatched
<1>11. CASE d.next_state \in 3..4
  <2>1. e.next_state = 5 /\ e.list = d.list
    BY <1>4, <1>5, <1>11 DEF TokensHeld
  <2>2. Runs(t, Tchar) = Filled(front)
    BY <1>7, <1>8, <1>11
  <2> QED BY <1>1, <1>6, <1>11, <2>1, <2>2 DEF TokensMatched
<1> QED BY <1>2, <1>9, <1>10, <1>11

-----------------------------------------------------------------------------
ShortestList(k) == IF k = "tokens" THEN 1 ELSE 0

TokensOver(t, e, least) ==
  \/ t \in Texts /\ e.next_state = 0
  \/ \E s, d : TokensRead(s, d, least) /\ t = Append(s, End) /\ e = TokensPut(d, End)

TokensInv ==
  kind \in {"tokens", "any_tokens"} =>
    TokensRead(src, dec, ShortestList(kind)) \/ TokensOver(src, dec, ShortestList(kind))

(* What is over is given nothing more. *)
LEMMA TokensOverRests ==
  ASSUME NEW t, NEW e, NEW least, TokensOver(t, e, least), e.next_state # 0
  PROVE  t # << >> /\ Last(t) = End
<1>1. PICK s, d : TokensRead(s, d, least) /\ t = Append(s, End)
  BY DEF TokensOver
<1>2. s \in Seq(Octet)
  BY <1>1 DEF TokensRead, InList, Texts
<1> QED BY <1>1, <1>2, EndIsLast

LEMMA TokensStart == DecodersInit => TokensInv
<1> SUFFICES ASSUME DecodersInit, kind \in {"tokens", "any_tokens"} PROVE TokensRead(src, dec, ShortestList(kind))
  BY DEF TokensInv
<1>1. PICK least \in 0..1 : least = ShortestList(kind)
  BY DEF ShortestList
<1>2. src = << >> /\ dec = FreshTokens(least)
  BY <1>1 DEF DecodersInit, Fresh, ShortestList
<1>3. PICK s \in 0..5 : s = IF least = 1 THEN 1 ELSE 4
  OBVIOUS
<1>4. /\ dec \in TokenRecords /\ dec.next_state = s
      /\ dec.item = << >> /\ dec.list = << >>
  BY <1>2, <1>3 DEF FreshTokens, TokenRecords, Texts
<1>5. InList(<< >>, Tchar, s, least, << >>, << >>)
  BY <1>3, ListStarts
<1>6. Lowered(<< >>) = << >> /\ LoweredEach(Filled(<< >>)) = << >>
  <2>1. LoweredEach(<< >>) = << >>
    BY DEF LoweredEach
  <2> QED BY <2>1, FilledNothing DEF Lowered
<1> QED BY <1>1, <1>2, <1>4, <1>5, <1>6, Zenon DEF TokensRead

LEMMA TokensSteps == TokensInv /\ [DecodersNext]_decodersVars => TokensInv'
<1> SUFFICES ASSUME TokensInv, [DecodersNext]_decodersVars, kind' \in {"tokens", "any_tokens"}
             PROVE  TokensRead(src', dec', ShortestList(kind')) \/ TokensOver(src', dec', ShortestList(kind'))
  BY DEF TokensInv
<1>1. CASE PutOctet
  <2>1. PICK o \in (Inputs(kind, dec, src) \cap Octet) \cup {End} :
             (o = End => kind \in Values) /\ src' = Append(src, o) /\ dec' = Put(o)
    BY <1>1, Zenon DEF PutOctet
  <2>2. kind' = kind /\ kind \in {"tokens", "any_tokens"} /\ Partial
    BY <1>1, Zenon DEF PutOctet
  <2>3. dec.next_state # 0 /\ ~Ended
    <3>1. kind \in Values
      BY <2>2 DEF Values, Messages, Fresh
    <3> QED BY <2>2, <3>1 DEF Partial
  <2>4. PICK least : least = ShortestList(kind)
    OBVIOUS
  <2>5. TokensRead(src, dec, least)
    <3>1. ~TokensOver(src, dec, least)
      BY <2>3, TokensOverRests DEF Ended
    <3> QED BY <2>2, <2>4, <3>1 DEF TokensInv
  <2>6. dec' = TokensPut(dec, o)
    BY <2>1, <2>2 DEF Put
  <2>7. CASE o = End
    BY <2>1, <2>2, <2>4, <2>5, <2>6, <2>7 DEF TokensOver
  <2>8. CASE o # End /\ ListShift(dec.next_state, o, Tchar) # 0
    BY <2>1, <2>2, <2>4, <2>5, <2>6, <2>8, TokensReadOn
  <2>9. CASE o # End /\ ListShift(dec.next_state, o, Tchar) = 0
    <3>1. dec \in TokenRecords /\ src \in Texts
      BY <2>5 DEF TokensRead, InList
    <3>2. dec'.next_state = 0
      BY <2>6, <2>9, <3>1, TokensPutFields DEF TokensHeld
    <3>3. src' \in Texts
      BY <2>1, <2>9, <3>1 DEF Texts
    <3> QED BY <3>2, <3>3 DEF TokensOver
  <2> QED BY <2>7, <2>8, <2>9
<1>2. CASE WriteResponse
  BY <1>2 DEF WriteResponse
<1>3. CASE ResponseStops
  BY <1>3 DEF ResponseStops
<1>4. CASE UNCHANGED decodersVars
  BY <1>4 DEF decodersVars, TokensInv
<1> QED BY <1>1, <1>2, <1>3, <1>4 DEF DecodersNext

LEMMA TokensWritten ==
  ASSUME TokensInv, kind \in {"tokens", "any_tokens"}, Ended \/ dec.next_state = 0
  PROVE  /\ TokensMatched(dec) <=> Ended /\ IsList(Plain, Tchar, ShortestList(kind))
         /\ TokensMatched(dec) => dec.list = LoweredEach(Runs(Plain, Tchar))
<1>1. CASE TokensRead(src, dec, ShortestList(kind))
  <2>1. src \in Seq(Octet) /\ dec.next_state # 0
    BY <1>1 DEF TokensRead, InList, Texts
  <2>2. ~Ended
    BY <2>1, NotEnded DEF Ended
  <2> QED BY <2>1, <2>2
<1>2. CASE src \in Texts /\ dec.next_state = 0
  <2>1. ~Ended
    BY <1>2, NotEnded DEF Ended, Texts
  <2> QED BY <1>2, <2>1 DEF TokensMatched
<1>3. ASSUME NEW s, NEW d, TokensRead(s, d, ShortestList(kind)), src = Append(s, End), dec = TokensPut(d, End)
      PROVE  /\ TokensMatched(dec) <=> Ended /\ IsList(Plain, Tchar, ShortestList(kind))
             /\ TokensMatched(dec) => dec.list = LoweredEach(Runs(Plain, Tchar))
  <2>1. s \in Seq(Octet)
    BY <1>3 DEF TokensRead, InList, Texts
  <2>2. Ended /\ Plain = s
    BY <1>3, <2>1, EndIsLast DEF Ended, Plain
  <2>3. ShortestList(kind) \in 0..1
    BY DEF ShortestList
  <2>4. /\ TokensMatched(dec) <=> IsList(s, Tchar, ShortestList(kind))
        /\ TokensMatched(dec) => dec.list = LoweredEach(Runs(s, Tchar))
    BY <1>3, <2>3, TokensEnd
  <2> QED BY <2>2, <2>4
<1> QED BY <1>1, <1>2, <1>3 DEF TokensInv, TokensOver

LEMMA TokensInvWritten == TokensInv => TokensAsWritten
BY TokensWritten, Zenon DEF TokensAsWritten, ShortestList, LoweredEach

(* For a value of any length: a list of tokens is taken exactly when it is *)
(* one, with a token in it where one is asked for, and what is kept are    *)
(* its tokens, in order, in small letters (decode-simple-token.cpp:73).    *)
THEOREM TokensListed == DecodersSpec => []TokensAsWritten
<1>1. DecodersSpec => []TokensInv
  BY TokensStart, TokensSteps, PTL DEF DecodersSpec
<1> QED BY <1>1, TokensInvWritten, PTL

-----------------------------------------------------------------------------
(* A content-length: a list of numbers. *)
LengthHeld(e, next, length, value, status) ==
  /\ e \in LengthRecords /\ e.next_state = next /\ e.length = length
  /\ e.value = value /\ e.status = status

LengthRefused(e, status) == e.next_state = 0 /\ e.status = status

Disagrees(d) == d.length >= 0 /\ d.length # d.value

LEMMA LengthPutFields ==
  ASSUME NEW d \in LengthRecords, NEW o, NEW next, next = ListShift(d.next_state, o, Digit)
  PROVE  /\ next = 2 /\ TooLong(d.value, o - 48) => LengthRefused(LengthPut(d, o), 413)
         /\ next = 2 /\ ~TooLong(d.value, o - 48) =>
              LengthHeld(LengthPut(d, o), next, d.length, d.value * 10 + (o - 48), d.status)
         /\ d.next_state = 2 /\ next \in {3, 4, 5} /\ Disagrees(d) => LengthRefused(LengthPut(d, o), d.status)
         /\ d.next_state = 2 /\ next \in {3, 4} /\ ~Disagrees(d) =>
              LengthHeld(LengthPut(d, o), next, d.value, 0, d.status)
         /\ d.next_state # 2 /\ next \in {1, 3, 4} =>
              LengthHeld(LengthPut(d, o), next, d.length, d.value, d.status)
         /\ next = 0 => LengthRefused(LengthPut(d, o), d.status)
<1>1. next \in 0..5 /\ (next = 2 => o \in Digit)
  BY ListStates
<1>2. d.length \in Int /\ d.value \in Nat /\ d.status \in Nat
  BY DEF LengthRecords
<1>3. ASSUME next = 2, TooLong(d.value, o - 48) PROVE LengthRefused(LengthPut(d, o), 413)
  <2>1. LengthPut(d, o) = LengthFails(d, 413)
    BY <1>3, Zenon DEF LengthPut
  <2> QED BY <2>1, Zenon DEF LengthFails, LengthRefused, LengthRecords
<1>4. ASSUME next = 2, ~TooLong(d.value, o - 48)
      PROVE  LengthHeld(LengthPut(d, o), next, d.length, d.value * 10 + (o - 48), d.status)
  <2>1. LengthPut(d, o) = LengthDigit(d, o - 48)
    BY <1>4, Zenon DEF LengthPut
  <2>2. d.value * 10 + (o - 48) \in Nat /\ 2 \in 0..5
    BY <1>1, <1>2, <1>4, DigitValue
  <2>3. LengthDigit(d, o - 48) = [d EXCEPT !.next_state = 2, !.value = d.value * 10 + (o - 48)]
    BY DEF LengthDigit
  <2> QED BY <1>4, <2>1, <2>2, <2>3, Zenon DEF LengthHeld, LengthRecords
<1>5. ASSUME d.next_state = 2, next \in {3, 4, 5}, Disagrees(d) PROVE LengthRefused(LengthPut(d, o), d.status)
  <2>1. next # 2
    BY <1>5
  <2>2. LengthPut(d, o) = LengthFails(d, d.status)
    BY <1>5, <2>1, Zenon DEF LengthPut, Disagrees
  <2> QED BY <2>2, Zenon DEF LengthFails, LengthRefused, LengthRecords
<1>6. ASSUME d.next_state = 2, next \in {3, 4}, ~Disagrees(d)
      PROVE  LengthHeld(LengthPut(d, o), next, d.value, 0, d.status)
  <2>1. next # 2 /\ next # 5 /\ next \in {3, 4, 5} /\ 0 \in Nat
    BY <1>6
  <2>2. LengthPut(d, o) = LengthEnds(d, next)
    BY <1>6, <2>1, Zenon DEF LengthPut, Disagrees
  <2>3. LengthPut(d, o) = [d EXCEPT !.next_state = next, !.length = d.value, !.value = 0]
    BY <2>1, <2>2, Zenon DEF LengthEnds
  <2>4. d.value \in Int
    BY <1>2
  <2> QED BY <1>1, <1>2, <2>1, <2>3, <2>4, Zenon DEF LengthHeld, LengthRecords
<1>7. ASSUME d.next_state # 2, next \in {1, 3, 4}
      PROVE  LengthHeld(LengthPut(d, o), next, d.length, d.value, d.status)
  <2>1. next # 2 /\ next # 5
    BY <1>7
  <2>2. LengthPut(d, o) = LengthAt(d, next)
    BY <1>7, <2>1, Zenon DEF LengthPut
  <2> QED BY <1>1, <2>2, Zenon DEF LengthAt, LengthHeld, LengthRecords
<1>8. ASSUME next = 0 PROVE LengthRefused(LengthPut(d, o), d.status)
  <2>1. next # 2 /\ next # 5 /\ next \notin {3, 4, 5}
    BY <1>8
  <2>2. LengthPut(d, o) = LengthAt(d, 0)
    BY <1>8, <2>1, Zenon DEF LengthPut
  <2> QED BY <2>2, Zenon DEF LengthAt, LengthRefused, LengthRecords
<1> QED BY <1>3, <1>4, <1>5, <1>6, <1>7, <1>8

LEMMA LengthPutEnd ==
  ASSUME NEW d \in LengthRecords, NEW o, ListShift(d.next_state, o, Digit) = 5
  PROVE  /\ d.next_state = 2 /\ ~Disagrees(d) =>
              LengthPut(d, o).status = 200 /\ LengthPut(d, o).result = d.value
         /\ d.next_state # 2 => LengthPut(d, o).status = 200 /\ LengthPut(d, o).result = d.length
<1>1. 5 # 2 /\ 5 \in {3, 4, 5}
  OBVIOUS
<1>2. ASSUME d.next_state = 2, ~Disagrees(d)
      PROVE  LengthPut(d, o).status = 200 /\ LengthPut(d, o).result = d.value
  <2>1. LengthPut(d, o) = LengthEnds(d, 5)
    BY <1>1, <1>2, Zenon DEF LengthPut, Disagrees
  <2>2. PICK n : n = [d EXCEPT !.next_state = 5, !.length = d.value, !.value = 0]
    OBVIOUS
  <2>3. LengthEnds(d, 5) = LengthFound(n, d.value)
    BY <2>2, Zenon DEF LengthEnds
  <2>4. n \in LengthRecords
    <3>1. 5 \in 0..5 /\ 0 \in Nat /\ d.value \in Int
      BY DEF LengthRecords
    <3> QED BY <2>2, <3>1, Zenon DEF LengthRecords
  <2>5. LengthFound(n, d.value).status = 200 /\ LengthFound(n, d.value).result = d.value
    BY <2>4 DEF LengthFound, LengthRecords
  <2> QED BY <2>1, <2>3, <2>5
<1>3. ASSUME d.next_state # 2
      PROVE  LengthPut(d, o).status = 200 /\ LengthPut(d, o).result = d.length
  <2>1. LengthPut(d, o) = LengthFound(LengthAt(d, 5), d.length)
    BY <1>1, <1>3, Zenon DEF LengthPut
  <2> QED BY <2>1 DEF LengthFound, LengthAt, LengthRecords
<1> QED BY <1>2, <1>3

(* What the comparison is for, the other way. *)
LEMMA LengthOverflows ==
  ASSUME NEW v \in Nat, NEW g \in 0..9, TooLong(v, g)
  PROVE  v * 10 + g > MostLength
<1> DEFINE q == MostLength \div 10
           r == MostLength % 10
<1>1. q \in Nat /\ r \in 0..9 /\ MostLength = 10 * q + r
  BY FieldAssumption
<1>2. v > q \/ (v = q /\ g > r)
  BY <1>1 DEF TooLong
<1> HIDE DEF q, r
<1> QED BY <1>1, <1>2

-----------------------------------------------------------------------------
(* All numbers of the list runs are n. *)
AllAre(runs, n) == \A k \in 1..Len(runs) : Number(runs[k], 10) = n

Numbers(t) == {Number(run, 10) : run \in ToSet(Runs(t, Digit))}

LengthCounts(d, front, cur) ==
  /\ d.value = Number(cur, 10) /\ d.value \in 0..MostLength
  /\ d.length \in -1..MostLength /\ (d.length = -1 <=> Filled(front) = << >>)
  /\ AllAre(Filled(front), d.length)

(* The numbers that ended are all the same, and the one being read is as   *)
(* much as was read of it.                                                 *)
LengthRead(t, d) ==
  /\ d \in LengthRecords /\ d.status = 400
  /\ \E front, cur : InList(t, Digit, d.next_state, 1, front, cur) /\ LengthCounts(d, front, cur)

LEMMA InListShape ==
  ASSUME NEW E, Elemental(E), NEW t, NEW s, NEW least, NEW front, NEW cur, InList(t, E, s, least, front, cur)
  PROVE  /\ t \in Texts /\ s \in 1..4 /\ front \in Seq(Texts) /\ cur \in Seq(E) /\ cur \in Texts
         /\ s = 2 <=> cur # << >>
         /\ Filled(front) \in Seq(Texts) /\ Filled(Append(front, cur)) = FillStep(Filled(front), cur)
         /\ Runs(t, E) = IF cur = << >> THEN Filled(front) ELSE Append(Filled(front), cur)
         /\ s \in {3, 4} /\ least = 1 => Filled(front) # << >>
<1>1. t \in Texts /\ s \in 1..4 /\ Gathered(t, E, s, least, front, cur)
  BY DEF InList
<1>2. \A x \in Seq(E) : x \in Texts
  BY DEF Elemental, Texts
<1>3. front \in Seq(Texts) /\ cur \in Seq(E) /\ (s = 2 <=> cur # << >>)
      /\ (s \in {3, 4} /\ least = 1 => Filled(front) # << >>)
  BY <1>1, Zenon DEF Gathered
<1>4. cur \in Texts
  BY <1>2, <1>3
<1>5. Filled(front) \in Seq(Texts) /\ Filled(Append(front, cur)) = FillStep(Filled(front), cur)
  BY <1>3, <1>4, FilledGrows
<1>6. Runs(t, E) = IF cur = << >> THEN Filled(front) ELSE Append(Filled(front), cur)
  BY <1>1, RunsGathered
<1> QED BY <1>1, <1>3, <1>4, <1>5, <1>6

LEMMA AllAreAppended ==
  ASSUME NEW runs \in Seq(Texts), NEW run \in Texts, NEW n, AllAre(runs, n), Number(run, 10) = n
  PROVE  AllAre(Append(runs, run), n)
<1>1. PICK x : x = Append(runs, run)
  OBVIOUS
<1>2. Len(x) = Len(runs) + 1 /\ x[Len(runs) + 1] = run /\ \A k \in 1..Len(runs) : x[k] = runs[k]
  BY <1>1
<1>3. \A k \in 1..Len(x) : k = Len(runs) + 1 \/ k \in 1..Len(runs)
  BY <1>2
<1>4. ASSUME NEW k \in 1..Len(x) PROVE Number(x[k], 10) = n
  <2>1. CASE k = Len(runs) + 1
    BY <1>2, <2>1
  <2>2. CASE k \in 1..Len(runs)
    BY <1>2, <2>2 DEF AllAre
  <2> QED BY <1>3, <2>1, <2>2
<1> QED BY <1>1, <1>4 DEF AllAre

(* A digit of the number being read. *)
LEMMA LengthReadDigit ==
  ASSUME NEW t, NEW d, NEW front, NEW cur, NEW o \in Octet, NEW e, d \in LengthRecords, d.status = 400,
         InList(t, Digit, d.next_state, 1, front, cur), LengthCounts(d, front, cur),
         ListShift(d.next_state, o, Digit) = 2, ~TooLong(d.value, o - 48), e = LengthPut(d, o)
  PROVE  LengthRead(Append(t, o), e)
<1>1. o \in Digit
  BY ListStates
<1>2. LengthHeld(e, 2, d.length, d.value * 10 + (o - 48), d.status)
  BY LengthPutFields
<1>3. InList(Append(t, o), Digit, 2, 1, front, Append(cur, o))
  BY <1>1, ListGoesOn, TokensAndNumbers
<1>4. cur \in Seq(Digit)
  BY InListShape, TokensAndNumbers
<1>5. Number(Append(cur, o), 10) = NumberStep(10, Number(cur, 10), o)
  BY <1>1, <1>4, NumberGrows
<1>6. d.value * 10 + (o - 48) \in 0..MostLength
  <2>1. d.value \in Nat /\ o - 48 \in 0..9
    BY <1>1, DigitValue DEF LengthCounts
  <2> QED BY <2>1, LengthFits
<1>7. Number(Append(cur, o), 10) = d.value * 10 + (o - 48)
  <2>1. HexValue(o) = o - 48 /\ o - 48 \in 0..9
    BY <1>1, DigitValue
  <2>2. d.value = Number(cur, 10) /\ d.value \in Int
    BY DEF LengthCounts
  <2> QED BY <1>5, <2>1, <2>2 DEF NumberStep
<1>8. LengthCounts(e, front, Append(cur, o))
  BY <1>2, <1>6, <1>7, Zenon DEF LengthCounts, LengthHeld
<1>9. e \in LengthRecords /\ e.status = 400 /\ e.next_state = 2
  BY <1>2 DEF LengthHeld
<1> QED BY <1>3, <1>8, <1>9, Zenon DEF LengthRead

(* What ends a number, or follows one that has ended. *)
LEMMA LengthReadOther ==
  ASSUME NEW t, NEW d, NEW front, NEW cur, NEW o \in Octet, NEW e, NEW next, d \in LengthRecords, d.status = 400,
         InList(t, Digit, d.next_state, 1, front, cur), LengthCounts(d, front, cur),
         next = ListShift(d.next_state, o, Digit), next \in {1, 3, 4}, e = LengthPut(d, o),
         ~(d.next_state = 2 /\ Disagrees(d))
  PROVE  LengthRead(Append(t, o), e)
<1>1. next \in 1..4 /\ d.next_state \in 1..4 /\ next # 2
  BY DEF InList
<1>2. o \notin Digit /\ (next \in 3..4 \/ d.next_state # 2)
  <2>1. (o \in Digit <=> next = 2) /\ (next \in 3..4 \/ d.next_state # 2 \/ o \in Digit)
    BY <1>1, ListLeaves, TokensAndNumbers
  <2> QED BY <1>1, <2>1
<1>3. InList(Append(t, o), Digit, next, 1, Append(front, cur), << >>)
  BY <1>1, <1>2, ListGoesOn, TokensAndNumbers
<1>4. /\ cur \in Texts /\ Filled(front) \in Seq(Texts) /\ (d.next_state = 2 <=> cur # << >>)
      /\ Filled(Append(front, cur)) = FillStep(Filled(front), cur)
  BY InListShape, TokensAndNumbers
<1>5. Number(<< >>, 10) = 0 /\ 0 \in 0..MostLength
  BY NumberNothing, FieldAssumption DEF Bases
<1>6. CASE d.next_state = 2
  <2>1. LengthHeld(e, next, d.value, 0, d.status)
    <3>1. next \in {3, 4} /\ ~Disagrees(d)
      BY <1>2, <1>6
    <3> QED BY <1>6, <3>1, LengthPutFields
  <2>2. Filled(Append(front, cur)) = Append(Filled(front), cur)
    BY <1>4, <1>6 DEF FillStep
  <2>3. Append(Filled(front), cur) # << >>
    BY <1>4
  <2>4. d.value = Number(cur, 10) /\ d.value \in 0..MostLength
    BY DEF LengthCounts
  <2>5. AllAre(Filled(front), d.value)
    <3>1. CASE d.length = -1
      <4>1. Filled(front) = << >>
        BY <3>1 DEF LengthCounts
      <4> QED BY <4>1 DEF AllAre
    <3>2. CASE d.length # -1
      <4>1. d.length = d.value
        <5>1. d.length \in -1..MostLength
          BY DEF LengthCounts
        <5>2. d.length >= 0
          BY <3>2, <5>1
        <5> QED BY <1>6, <5>2 DEF Disagrees
      <4> QED BY <4>1 DEF LengthCounts
    <3> QED BY <3>1, <3>2
  <2>6. AllAre(Append(Filled(front), cur), d.value)
    BY <1>4, <2>4, <2>5, AllAreAppended
  <2>7. d.value \in -1..MostLength /\ d.value # -1
    BY <2>4, FieldAssumption
  <2>8. LengthCounts(e, Append(front, cur), << >>)
    BY <1>5, <2>1, <2>2, <2>3, <2>6, <2>7, Zenon DEF LengthCounts, LengthHeld
  <2>9. e \in LengthRecords /\ e.status = 400 /\ e.next_state = next
    BY <2>1 DEF LengthHeld
  <2> QED BY <1>3, <2>8, <2>9, Zenon DEF LengthRead
<1>7. CASE d.next_state # 2
  <2>1. LengthHeld(e, next, d.length, d.value, d.status)
    BY <1>7, LengthPutFields
  <2>2. Filled(Append(front, cur)) = Filled(front) /\ cur = << >>
    BY <1>4, <1>7 DEF FillStep
  <2>3. LengthCounts(e, Append(front, cur), << >>)
    BY <2>1, <2>2, Zenon DEF LengthCounts, LengthHeld
  <2>4. e \in LengthRecords /\ e.status = 400 /\ e.next_state = next
    BY <2>1 DEF LengthHeld
  <2> QED BY <1>3, <2>3, <2>4, Zenon DEF LengthRead
<1> QED BY <1>6, <1>7

-----------------------------------------------------------------------------
LEMMA NumbersAre ==
  ASSUME NEW t, NEW runs, runs \in Seq(Texts), Runs(t, Digit) = runs
  PROVE  \A n : n \in Numbers(t) <=> \E k \in 1..Len(runs) : n = Number(runs[k], 10)
<1>1. DOMAIN runs = 1..Len(runs)
  OBVIOUS
<1>2. ToSet(runs) = {runs[k] : k \in 1..Len(runs)}
  BY <1>1, Zenon DEF ToSet
<1> QED BY <1>2, Zenon DEF Numbers

LEMMA NumbersAppended ==
  ASSUME NEW t, NEW runs \in Seq(Texts), NEW run \in Texts, Runs(t, Digit) = Append(runs, run)
  PROVE  /\ Number(run, 10) \in Numbers(t)
         /\ \A k \in 1..Len(runs) : Number(runs[k], 10) \in Numbers(t)
         /\ \A n : AllAre(runs, n) /\ Number(run, 10) = n => Numbers(t) = {n}
<1>1. PICK x : x = Append(runs, run)
  OBVIOUS
<1>2. x \in Seq(Texts) /\ Len(x) = Len(runs) + 1 /\ x[Len(runs) + 1] = run /\ Len(runs) \in Nat
      /\ \A k \in 1..Len(runs) : x[k] = runs[k]
  BY <1>1
<1>3. \A n : n \in Numbers(t) <=> \E k \in 1..Len(x) : n = Number(x[k], 10)
  BY <1>1, <1>2, NumbersAre
<1>4. Len(runs) + 1 \in 1..Len(x) /\ \A k \in 1..Len(runs) : k \in 1..Len(x)
  BY <1>2
<1>5. Number(run, 10) \in Numbers(t)
  BY <1>2, <1>3, <1>4, Zenon
<1>6. \A k \in 1..Len(runs) : Number(runs[k], 10) \in Numbers(t)
  BY <1>2, <1>3, <1>4, Zenon
<1>7. ASSUME NEW n, AllAre(runs, n), Number(run, 10) = n PROVE Numbers(t) = {n}
  <2>1. AllAre(x, n)
    BY <1>1, <1>7, AllAreAppended
  <2>2. \A m \in Numbers(t) : m = n
    BY <1>3, <2>1, Zenon DEF AllAre
  <2> QED BY <1>5, <1>7, <2>2
<1> QED BY <1>5, <1>6, <1>7

LEMMA LengthTooLong ==
  ASSUME NEW t, NEW d, LengthRead(t, d), NEW o \in Octet,
         ListShift(d.next_state, o, Digit) = 2, TooLong(d.value, o - 48)
  PROVE  \E n \in Numbers(Append(t, o)) : n > MostLength
<1>1. PICK front, cur : InList(t, Digit, d.next_state, 1, front, cur) /\ LengthCounts(d, front, cur)
  BY DEF LengthRead
<1>2. o \in Digit
  BY ListStates
<1>3. InList(Append(t, o), Digit, 2, 1, front, Append(cur, o))
  BY <1>1, <1>2, ListGoesOn, TokensAndNumbers
<1>4. cur \in Seq(Digit) /\ Filled(front) \in Seq(Texts)
  BY <1>1, InListShape, TokensAndNumbers
<1>5. PICK run : run = Append(cur, o)
  OBVIOUS
<1>6. run \in Texts /\ run # << >> /\ Runs(Append(t, o), Digit) = IF run = << >> THEN Filled(front) ELSE Append(Filled(front), run)
  <2>1. run # << >>
    BY <1>4, <1>5
  <2>2. run \in Texts /\ Runs(Append(t, o), Digit) = IF run = << >> THEN Filled(front) ELSE Append(Filled(front), run)
    <3>1. PICK u : u = Append(t, o)
      OBVIOUS
    <3>2. InList(u, Digit, 2, 1, front, run)
      BY <1>3, <1>5, <3>1
    <3>3. run \in Texts /\ Runs(u, Digit) = IF run = << >> THEN Filled(front) ELSE Append(Filled(front), run)
      BY <3>2, InListShape, TokensAndNumbers
    <3> QED BY <3>1, <3>3
  <2> QED BY <2>1, <2>2
<1>7. Number(run, 10) \in Numbers(Append(t, o))
  BY <1>4, <1>6, NumbersAppended
<1>8. Number(run, 10) = NumberStep(10, Number(cur, 10), o)
  BY <1>2, <1>4, <1>5, NumberGrows
<1>9. Number(run, 10) > MostLength
  <2>1. HexValue(o) = o - 48 /\ o - 48 \in 0..9
    BY <1>2, DigitValue
  <2>2. d.value = Number(cur, 10) /\ d.value \in Nat
    BY <1>1, FieldAssumption DEF LengthCounts
  <2>3. d.value * 10 + (o - 48) > MostLength
    BY <2>1, <2>2, LengthOverflows
  <2>4. Number(run, 10) = d.value * 10 + (o - 48)
    BY <1>8, <2>1, <2>2 DEF NumberStep
  <2> QED BY <2>3, <2>4
<1> QED BY <1>7, <1>9

(* What the end of the value makes of it. *)
LEMMA LengthEnd ==
  ASSUME NEW t, NEW d, LengthRead(t, d), NEW e, e = LengthPut(d, End)
  PROVE  /\ LengthMatched(e) <=> IsList(t, Digit, 1) /\ \E n \in 0..MostLength : Numbers(t) = {n}
         /\ LengthMatched(e) => Numbers(t) = {e.result}
         /\ e.status # 413
<1>1. PICK front, cur : InList(t, Digit, d.next_state, 1, front, cur) /\ LengthCounts(d, front, cur)
  BY DEF LengthRead
<1>2. d \in LengthRecords /\ d.status = 400
  BY DEF LengthRead
<1>3. /\ d.next_state \in 1..4 /\ cur \in Texts /\ (d.next_state = 2 <=> cur # << >>)
      /\ Filled(front) \in Seq(Texts)
      /\ Runs(t, Digit) = IF cur = << >> THEN Filled(front) ELSE Append(Filled(front), cur)
      /\ d.next_state \in {3, 4} => Filled(front) # << >>
  BY <1>1, InListShape, TokensAndNumbers
<1>4. ListShift(d.next_state, End, Digit) = IF d.next_state = 1 THEN 0 ELSE 5
  BY <1>3, ListEnds, TokensAndNumbers
<1>5. IsList(t, Digit, 1) <=> d.next_state # 1
  BY <1>1, ListTaken, TokensAndNumbers
<1>6. /\ d.value = Number(cur, 10) /\ d.value \in 0..MostLength
      /\ d.length \in -1..MostLength /\ (d.length = -1 <=> Filled(front) = << >>)
      /\ AllAre(Filled(front), d.length)
  BY <1>1 DEF LengthCounts
<1>7. CASE d.next_state = 1
  <2>1. e.status = 400
    BY <1>2, <1>4, <1>7, LengthPutFields DEF LengthRefused
  <2> QED BY <1>5, <1>7, <2>1 DEF LengthMatched
<1>8. CASE d.next_state = 2 /\ Disagrees(d)
  <2>1. e.status = 400
    BY <1>2, <1>4, <1>8, LengthPutFields DEF LengthRefused
  <2>2. Runs(t, Digit) = Append(Filled(front), cur)
    BY <1>3, <1>8
  <2>3. d.value \in Numbers(t)
    BY <1>3, <1>6, <2>2, NumbersAppended
  <2>4. d.length \in Numbers(t)
    <3>1. PICK runs \in Seq(Texts) : runs = Filled(front)
      BY <1>3
    <3>2. runs # << >>
      BY <1>6, <1>8, <3>1 DEF Disagrees
    <3>3. 1 \in 1..Len(runs)
      BY <3>2
    <3>4. Number(runs[1], 10) = d.length
      BY <1>6, <3>1, <3>3 DEF AllAre
    <3>5. Number(runs[1], 10) \in Numbers(t)
      BY <1>3, <2>2, <3>1, <3>3, NumbersAppended
    <3> QED BY <3>4, <3>5
  <2>5. \A n : Numbers(t) # {n}
    BY <1>8, <2>3, <2>4 DEF Disagrees
  <2> QED BY <2>1, <2>5 DEF LengthMatched
<1>9. CASE d.next_state = 2 /\ ~Disagrees(d)
  <2>1. e.status = 200 /\ e.result = d.value
    BY <1>2, <1>4, <1>9, LengthPutEnd
  <2>2. Runs(t, Digit) = Append(Filled(front), cur)
    BY <1>3, <1>9
  <2>3. AllAre(Filled(front), d.value)
    <3>1. CASE d.length = -1
      <4>1. Filled(front) = << >>
        BY <1>6, <3>1
      <4> QED BY <4>1 DEF AllAre
    <3>2. CASE d.length # -1
      <4>1. d.length = d.value
        BY <1>6, <1>9, <3>2 DEF Disagrees
      <4> QED BY <1>6, <4>1
    <3> QED BY <3>1, <3>2
  <2>4. Numbers(t) = {d.value}
    BY <1>3, <1>6, <2>2, <2>3, NumbersAppended
  <2> QED BY <1>5, <1>6, <1>9, <2>1, <2>4 DEF LengthMatched
<1>10. CASE d.next_state \in {3, 4}
  <2>1. e.status = 200 /\ e.result = d.length
    BY <1>2, <1>4, <1>10, LengthPutEnd
  <2>2. PICK runs \in Seq(Texts) : runs = Filled(front)
    BY <1>3
  <2>3. Runs(t, Digit) = runs /\ runs # << >>
    BY <1>3, <1>10, <2>2
  <2>4. d.length \in 0..MostLength
    BY <1>6, <2>2, <2>3, FieldAssumption
  <2>5. Numbers(t) = {d.length}
    <3>1. \A n : n \in Numbers(t) <=> \E k \in 1..Len(runs) : n = Number(runs[k], 10)
      BY <2>3, NumbersAre
    <3>2. 1 \in 1..Len(runs)
      BY <2>3
    <3>3. \A k \in 1..Len(runs) : Number(runs[k], 10) = d.length
      BY <1>6, <2>2 DEF AllAre
    <3>4. d.length \in Numbers(t) /\ \A n \in Numbers(t) : n = d.length
      BY <3>1, <3>2, <3>3
    <3> QED BY <3>4
  <2> QED BY <1>5, <1>10, <2>1, <2>4, <2>5 DEF LengthMatched
<1> QED BY <1>3, <1>7, <1>8, <1>9, <1>10

-----------------------------------------------------------------------------
LengthOver(t, e) ==
  \/ /\ t \in Texts /\ e.next_state = 0
     /\ e.status = 400 \/ (e.status = 413 /\ \E n \in Numbers(t) : n > MostLength)
  \/ \E s, d : LengthRead(s, d) /\ t = Append(s, End) /\ e = LengthPut(d, End)

LengthInv == kind = "length" => LengthRead(src, dec) \/ LengthOver(src, dec)

LEMMA LengthOverRests ==
  ASSUME NEW t, NEW e, LengthOver(t, e), e.next_state # 0
  PROVE  t # << >> /\ Last(t) = End
<1>1. PICK s, d : LengthRead(s, d) /\ t = Append(s, End)
  BY DEF LengthOver
<1>2. s \in Seq(Octet)
  BY <1>1 DEF LengthRead, InList, Texts
<1> QED BY <1>1, <1>2, EndIsLast

LEMMA LengthStart == DecodersInit => LengthInv
<1> SUFFICES ASSUME DecodersInit, kind = "length" PROVE LengthRead(src, dec)
  BY DEF LengthInv
<1>1. src = << >> /\ dec = FreshLength
  BY DEF DecodersInit, Fresh
<1>2. /\ dec \in LengthRecords /\ dec.next_state = 1 /\ dec.length = -1
      /\ dec.value = 0 /\ dec.status = 400
  BY <1>1 DEF FreshLength, LengthRecords
<1>3. InList(<< >>, Digit, 1, 1, << >>, << >>)
  <2>1. PICK s : s = IF 1 = 1 THEN 1 ELSE 4
    OBVIOUS
  <2>2. InList(<< >>, Digit, s, 1, << >>, << >>) /\ s = 1
    <3>1. 1 \in 0..1
      OBVIOUS
    <3> QED BY <2>1, <3>1, ListStarts
  <2> QED BY <2>2
<1>4. LengthCounts(dec, << >>, << >>)
  <2>1. Filled(<< >>) = << >> /\ Number(<< >>, 10) = 0
    BY FilledNothing, NumberNothing DEF Bases
  <2>2. AllAre(<< >>, -1)
    BY DEF AllAre
  <2> QED BY <1>2, <2>1, <2>2, FieldAssumption DEF LengthCounts
<1> QED BY <1>1, <1>2, <1>3, <1>4, Zenon DEF LengthRead

LEMMA LengthReadOn ==
  ASSUME NEW t, NEW d, LengthRead(t, d), NEW o \in Octet, NEW e, e = LengthPut(d, o)
  PROVE  LengthRead(Append(t, o), e) \/ LengthOver(Append(t, o), e)
<1>1. PICK front, cur : InList(t, Digit, d.next_state, 1, front, cur) /\ LengthCounts(d, front, cur)
  BY DEF LengthRead
<1>2. d \in LengthRecords /\ d.status = 400 /\ d.next_state \in 1..4 /\ t \in Texts
  BY <1>1 DEF LengthRead, InList
<1>3. Append(t, o) \in Texts
  BY <1>2 DEF Texts
<1>4. PICK next : next = ListShift(d.next_state, o, Digit)
  OBVIOUS
<1>5. next \in {0, 1, 2, 3, 4}
  <2>1. o # End
    BY DEF End, Octet
  <2> QED BY <1>4, <2>1, OctetShifts
<1>6. /\ next = 0 => LengthRefused(e, 400)
      /\ next = 2 /\ TooLong(d.value, o - 48) => LengthRefused(e, 413)
      /\ d.next_state = 2 /\ next \in {3, 4, 5} /\ Disagrees(d) => LengthRefused(e, 400)
  <2>1. /\ next = 0 => LengthRefused(LengthPut(d, o), d.status)
        /\ next = 2 /\ TooLong(d.value, o - 48) => LengthRefused(LengthPut(d, o), 413)
        /\ d.next_state = 2 /\ next \in {3, 4, 5} /\ Disagrees(d) => LengthRefused(LengthPut(d, o), d.status)
    BY <1>2, <1>4, LengthPutFields
  <2> QED BY <1>2, <2>1, Zenon
<1>7. CASE next = 0
  <2>1. e.next_state = 0 /\ e.status = 400
    BY <1>7, <1>6 DEF LengthRefused
  <2> QED BY <1>3, <2>1 DEF LengthOver
<1>8. CASE next = 2 /\ TooLong(d.value, o - 48)
  <2>1. e.next_state = 0 /\ e.status = 413
    BY <1>8, <1>6 DEF LengthRefused
  <2>2. \E n \in Numbers(Append(t, o)) : n > MostLength
    BY <1>4, <1>8, LengthTooLong
  <2> QED BY <1>3, <2>1, <2>2 DEF LengthOver
<1>9. CASE next = 2 /\ ~TooLong(d.value, o - 48)
  <2>1. ListShift(d.next_state, o, Digit) = 2 /\ ~TooLong(d.value, o - 48)
    BY <1>4, <1>9
  <2>2. LengthRead(Append(t, o), e)
    BY <1>1, <1>2, <2>1, LengthReadDigit
  <2> QED BY <2>2
<1>10. CASE next \in {1, 3, 4} /\ d.next_state = 2 /\ Disagrees(d)
  <2>1. next \in {3, 4, 5}
    <3>1. next \in 1..4 /\ next # 2
      BY <1>10
    <3>2. (o \in Digit <=> next = 2) /\ (next \in 3..4 \/ d.next_state # 2 \/ o \in Digit)
      BY <1>2, <1>4, <3>1, ListLeaves, TokensAndNumbers
    <3> QED BY <1>10, <3>1, <3>2
  <2>2. e.next_state = 0 /\ e.status = 400
    BY <1>10, <1>6, <2>1 DEF LengthRefused
  <2> QED BY <1>3, <2>2 DEF LengthOver
<1>11. CASE next \in {1, 3, 4} /\ ~(d.next_state = 2 /\ Disagrees(d))
  BY <1>1, <1>2, <1>4, <1>11, LengthReadOther
<1> QED BY <1>5, <1>7, <1>8, <1>9, <1>10, <1>11

LEMMA LengthSteps == LengthInv /\ [DecodersNext]_decodersVars => LengthInv'
<1> SUFFICES ASSUME LengthInv, [DecodersNext]_decodersVars, kind' = "length"
             PROVE  LengthRead(src', dec') \/ LengthOver(src', dec')
  BY DEF LengthInv
<1>1. CASE PutOctet
  <2>1. PICK o \in (Inputs(kind, dec, src) \cap Octet) \cup {End} :
             (o = End => kind \in Values) /\ src' = Append(src, o) /\ dec' = Put(o)
    BY <1>1, Zenon DEF PutOctet
  <2>2. kind = "length" /\ Partial
    BY <1>1, Zenon DEF PutOctet
  <2>3. dec.next_state # 0 /\ ~Ended
    <3>1. kind \in Values
      BY <2>2 DEF Values, Messages, Fresh
    <3> QED BY <2>2, <3>1 DEF Partial
  <2>4. LengthRead(src, dec)
    <3>1. ~LengthOver(src, dec)
      BY <2>3, LengthOverRests DEF Ended
    <3> QED BY <2>2, <3>1 DEF LengthInv
  <2>5. dec' = LengthPut(dec, o)
    BY <2>1, <2>2 DEF Put
  <2>6. CASE o = End
    BY <2>1, <2>4, <2>5, <2>6 DEF LengthOver
  <2>7. CASE o # End
    BY <2>1, <2>4, <2>5, <2>7, LengthReadOn
  <2> QED BY <2>6, <2>7
<1>2. CASE WriteResponse
  BY <1>2 DEF WriteResponse
<1>3. CASE ResponseStops
  BY <1>3 DEF ResponseStops
<1>4. CASE UNCHANGED decodersVars
  BY <1>4 DEF decodersVars, LengthInv
<1> QED BY <1>1, <1>2, <1>3, <1>4 DEF DecodersNext

LEMMA LengthWritten ==
  ASSUME LengthInv, kind = "length", Ended \/ dec.next_state = 0
  PROVE  /\ LengthMatched(dec) <=>
              Ended /\ IsList(Plain, Digit, 1) /\ \E n \in 0..MostLength : Numbers(Plain) = {n}
         /\ LengthMatched(dec) => Numbers(Plain) = {dec.result}
         /\ dec.status = 413 => \E n \in Numbers(Plain) : n > MostLength
<1>1. CASE LengthRead(src, dec)
  <2>1. src \in Seq(Octet) /\ dec.next_state # 0
    BY <1>1 DEF LengthRead, InList, Texts
  <2>2. ~Ended
    BY <2>1, NotEnded DEF Ended
  <2> QED BY <2>1, <2>2
<1>2. ASSUME src \in Texts, dec.next_state = 0,
             dec.status = 400 \/ (dec.status = 413 /\ \E n \in Numbers(src) : n > MostLength)
      PROVE  /\ LengthMatched(dec) <=>
                  Ended /\ IsList(Plain, Digit, 1) /\ \E n \in 0..MostLength : Numbers(Plain) = {n}
             /\ LengthMatched(dec) => Numbers(Plain) = {dec.result}
             /\ dec.status = 413 => \E n \in Numbers(Plain) : n > MostLength
  <2>1. ~Ended
    BY <1>2, NotEnded DEF Ended, Texts
  <2>2. Plain = src
    BY <2>1 DEF Plain
  <2>3. ~LengthMatched(dec)
    BY <1>2 DEF LengthMatched
  <2> QED BY <1>2, <2>1, <2>2, <2>3
<1>3. ASSUME NEW s, NEW d, LengthRead(s, d), src = Append(s, End), dec = LengthPut(d, End)
      PROVE  /\ LengthMatched(dec) <=>
                  Ended /\ IsList(Plain, Digit, 1) /\ \E n \in 0..MostLength : Numbers(Plain) = {n}
             /\ LengthMatched(dec) => Numbers(Plain) = {dec.result}
             /\ dec.status = 413 => \E n \in Numbers(Plain) : n > MostLength
  <2>1. s \in Seq(Octet)
    BY <1>3 DEF LengthRead, InList, Texts
  <2>2. Ended /\ Plain = s
    BY <1>3, <2>1, EndIsLast DEF Ended, Plain
  <2>3. /\ LengthMatched(dec) <=> IsList(s, Digit, 1) /\ \E n \in 0..MostLength : Numbers(s) = {n}
        /\ LengthMatched(dec) => Numbers(s) = {dec.result}
        /\ dec.status # 413
    BY <1>3, LengthEnd
  <2> QED BY <2>2, <2>3
<1> QED BY <1>1, <1>2, <1>3 DEF LengthInv, LengthOver

LEMMA LengthInvWritten == LengthInv => LengthAsWritten
BY LengthWritten, Zenon DEF LengthAsWritten, Numbers

(* For a value of any length: a content-length is taken exactly when it is *)
(* a list of one number, however often it is written, that fits, and is    *)
(* that number (decode-content-length.cpp:60); 413 is only said of one     *)
(* that does not fit.                                                      *)
THEOREM LengthsAgree == DecodersSpec => []LengthAsWritten
<1>1. DecodersSpec => []LengthInv
  BY LengthStart, LengthSteps, PTL DEF DecodersSpec
<1> QED BY <1>1, LengthInvWritten, PTL

-----------------------------------------------------------------------------
(* The recursion of a chunked message: the verdicts from each position on. *)
AllChunks(s, limit) == CHOOSE g : g = [i \in 1..(Len(s) + 1) |-> ChunkFrom(s, limit, g, i)]

Verdicts(s) == AllChunks(s, ChunkSizeLimit)

LEMMA MessageVerdict == ASSUME NEW s PROVE ChunksOf(s, ChunkSizeLimit) = Verdicts(s)[1]
BY Zenon DEF ChunksOf, AllChunks, Verdicts

(* The end of the first line from i on, and the size it writes. *)
EndsLine(s, i, e) ==
  /\ e \in i..Len(s) - 1 /\ s[e] = CR /\ s[e + 1] = LF
  /\ \A k \in i..e - 1 : ~(s[k] = CR /\ s[k + 1] = LF)

NoLineAt(s, i) == \A k \in i..Len(s) - 1 : ~(s[k] = CR /\ s[k + 1] = LF)

LEMMA LineEndFound ==
  ASSUME NEW s \in Seq(Octet), NEW i \in Nat \ {0}, NEW e, EndsLine(s, i, e)
  PROVE  LineEndFrom(s, i) = e
<1> DEFINE ends == {k \in i..(Len(s) - 1) : s[k] = CR /\ s[k + 1] = LF}
           P(k) == k \in ends /\ \A j \in ends : k <= j
<1>1. e \in ends /\ ends \subseteq Int
  BY DEF EndsLine
<1>2. \A j \in ends : e <= j
  BY DEF EndsLine
<1>3. \A k : P(k) => k = e
  <2> HIDE DEF ends
  <2> QED BY <1>1, <1>2
<1>4. P(e)
  BY <1>1, <1>2
<1>5. (CHOOSE k \in ends : \A j \in ends : k <= j) = e
  <2> HIDE DEF ends
  <2>1. (CHOOSE k : P(k)) = e
    <3> HIDE DEF P
    <3> QED BY <1>3, <1>4, Zenon
  <2> QED BY <2>1, Zenon
<1>6. LineEndFrom(s, i) = IF ends = {} THEN 0 ELSE CHOOSE k \in ends : \A j \in ends : k <= j
  BY Zenon DEF LineEndFrom
<1> HIDE DEF ends
<1> QED BY <1>1, <1>5, <1>6, Zenon

LEMMA NoLineEnd ==
  ASSUME NEW s \in Seq(Octet), NEW i \in Nat \ {0}, NoLineAt(s, i)
  PROVE  LineEndFrom(s, i) = 0
<1> DEFINE ends == {k \in i..(Len(s) - 1) : s[k] = CR /\ s[k + 1] = LF}
<1>1. ends = {}
  BY DEF NoLineAt
<1>2. LineEndFrom(s, i) = IF ends = {} THEN 0 ELSE CHOOSE k \in ends : \A j \in ends : k <= j
  BY Zenon DEF LineEndFrom
<1> QED BY <1>1, <1>2

LEMMA LineEndSomewhere ==
  ASSUME NEW s \in Seq(Octet), NEW i \in Nat \ {0}
  PROVE  NoLineAt(s, i) \/ \E e : EndsLine(s, i, e)
<1> SUFFICES ASSUME ~NoLineAt(s, i) PROVE \E e : EndsLine(s, i, e)
  OBVIOUS
<1> DEFINE ends == {k \in i..(Len(s) - 1) : s[k] = CR /\ s[k + 1] = LF}
<1>1. ends # {} /\ ends \subseteq Nat
  BY DEF NoLineAt
<1>2. PICK e \in ends : \A j \in ends : e <= j
  <2> HIDE DEF ends
  <2> QED BY <1>1, LeastNumber
<1>3. e \in i..Len(s) - 1 /\ s[e] = CR /\ s[e + 1] = LF
  OBVIOUS
<1>4. ASSUME NEW k \in i..e - 1 PROVE ~(s[k] = CR /\ s[k + 1] = LF)
  <2>1. k \notin ends
    <3> HIDE DEF ends
    <3> QED BY <1>1, <1>2, <1>4
  <2>2. k \in i..Len(s) - 1
    BY <1>3
  <2> QED BY <2>1, <2>2
<1> QED BY <1>3, <1>4 DEF EndsLine

-----------------------------------------------------------------------------
(* The six cases, by the line at i. *)
SizeAt(s, i, e) == SizeOf(SubSeq(s, i, e - 1))

Unfinished(s, i, limit) == Verdict("more", << >>, SizeLineBegun(From(s, i), limit))

LastChunk(s, i, e, limit) ==
  Verdict(IF EndsTrailer(From(s, e + 2)) THEN "whole" ELSE "more", << >>,
          IsSize(SubSeq(s, i, e - 1), limit) /\ From(s, e + 2) \in {<< >>, <<CR>>, <<CR, LF>>})

LEMMA VerdictNoLine ==
  ASSUME NEW s \in Seq(Octet), NEW limit, NEW g, NEW i \in Nat \ {0}, NoLineAt(s, i)
  PROVE  ChunkFrom(s, limit, g, i) = Unfinished(s, i, limit)
<1>1. LineEndFrom(s, i) = 0
  BY NoLineEnd
<1> QED BY <1>1, Zenon DEF ChunkFrom, Unfinished

LEMMA VerdictLast ==
  ASSUME NEW s \in Seq(Octet), NEW limit, NEW g, NEW i \in Nat \ {0}, NEW e, EndsLine(s, i, e),
         SizeAt(s, i, e) = 0
  PROVE  ChunkFrom(s, limit, g, i) = LastChunk(s, i, e, limit)
<1>1. LineEndFrom(s, i) = e
  BY LineEndFound
<1>2. e # 0
  BY DEF EndsLine
<1> QED BY <1>1, <1>2, Zenon DEF ChunkFrom, LastChunk, SizeAt

(* What else a case needs is where the chunk ends. *)
LEMMA VerdictMore ==
  ASSUME NEW s \in Seq(Octet), NEW limit, NEW g, NEW i \in Nat \ {0}, NEW e, EndsLine(s, i, e),
         SizeAt(s, i, e) \in Nat \ {0}, NEW next, next = e + 2 + SizeAt(s, i, e), next > Len(s)
  PROVE  ChunkFrom(s, limit, g, i) = Verdict("more", << >>, IsSize(SubSeq(s, i, e - 1), limit))
<1>1. LineEndFrom(s, i) = e
  BY LineEndFound
<1>2. e # 0 /\ SizeAt(s, i, e) # 0
  BY DEF EndsLine
<1>3. next > Len(s) /\ ~(next <= Len(s)) /\ ~(next < Len(s)) /\ next # Len(s) /\ next = e + 2 + SizeAt(s, i, e)
  BY DEF EndsLine
<1> QED BY <1>1, <1>2, <1>3, Zenon DEF ChunkFrom, SizeAt

LEMMA VerdictRuns ==
  ASSUME NEW s \in Seq(Octet), NEW limit, NEW g, NEW i \in Nat \ {0}, NEW e, EndsLine(s, i, e),
         SizeAt(s, i, e) \in Nat \ {0}, NEW next, next = e + 2 + SizeAt(s, i, e), next <= Len(s),
         s[next] # CR
  PROVE  ChunkFrom(s, limit, g, i) = Verdict("overrun", << >>, FALSE)
<1>1. LineEndFrom(s, i) = e
  BY LineEndFound
<1>2. e # 0 /\ SizeAt(s, i, e) # 0 /\ next \in 1..Len(s)
  BY DEF EndsLine
<1>3. ~(next > Len(s)) /\ next <= Len(s) /\ next = e + 2 + SizeAt(s, i, e)
  BY <1>2
<1>4. From(s, next)[1] = s[next]
  BY <1>2 DEF From
<1> QED BY <1>1, <1>2, <1>3, <1>4, Zenon DEF ChunkFrom, SizeAt

LEMMA VerdictHalf ==
  ASSUME NEW s \in Seq(Octet), NEW limit, NEW g, NEW i \in Nat \ {0}, NEW e, EndsLine(s, i, e),
         SizeAt(s, i, e) \in Nat \ {0}, NEW next, next = e + 2 + SizeAt(s, i, e), next = Len(s),
         s[next] = CR
  PROVE  ChunkFrom(s, limit, g, i) = Verdict("more", << >>, IsSize(SubSeq(s, i, e - 1), limit))
<1>1. LineEndFrom(s, i) = e
  BY LineEndFound
<1>2. e # 0 /\ SizeAt(s, i, e) # 0 /\ next \in 1..Len(s)
  BY DEF EndsLine
<1>3. ~(next > Len(s)) /\ ~(next < Len(s)) /\ next <= Len(s) /\ next = e + 2 + SizeAt(s, i, e)
  BY <1>2
<1>4. From(s, next)[1] = s[next]
  BY <1>2 DEF From
<1> QED BY <1>1, <1>2, <1>3, <1>4, Zenon DEF ChunkFrom, SizeAt

LEMMA VerdictNoEnd ==
  ASSUME NEW s \in Seq(Octet), NEW limit, NEW g, NEW i \in Nat \ {0}, NEW e, EndsLine(s, i, e),
         SizeAt(s, i, e) \in Nat \ {0}, NEW next, next = e + 2 + SizeAt(s, i, e), next < Len(s),
         s[next] = CR, s[next + 1] # LF
  PROVE  ChunkFrom(s, limit, g, i) = Verdict("overrun", << >>, FALSE)
<1>1. LineEndFrom(s, i) = e
  BY LineEndFound
<1>2. e # 0 /\ SizeAt(s, i, e) # 0 /\ next \in 1..Len(s)
  BY DEF EndsLine
<1>3. ~(next > Len(s)) /\ next # Len(s) /\ next <= Len(s) /\ next = e + 2 + SizeAt(s, i, e)
  BY <1>2
<1>4. From(s, next)[1] = s[next]
  BY <1>2 DEF From
<1> QED BY <1>1, <1>2, <1>3, <1>4, Zenon DEF ChunkFrom, SizeAt

(* A chunk, its end, and what follows from there. *)
ThenRest(s, i, e, next, limit, rest) ==
  Verdict(rest.kind, SubSeq(s, e + 2, next - 1) \o rest.body,
          rest.plain /\ IsSize(SubSeq(s, i, e - 1), limit))

LEMMA VerdictNext ==
  ASSUME NEW s \in Seq(Octet), NEW limit, NEW g, NEW i \in Nat \ {0}, NEW e, EndsLine(s, i, e),
         SizeAt(s, i, e) \in Nat \ {0}, NEW next, next = e + 2 + SizeAt(s, i, e), next < Len(s),
         s[next] = CR, s[next + 1] = LF
  PROVE  ChunkFrom(s, limit, g, i) = ThenRest(s, i, e, next, limit, g[next + 2])
<1>1. LineEndFrom(s, i) = e
  BY LineEndFound
<1>2. e # 0 /\ SizeAt(s, i, e) # 0 /\ next \in 1..Len(s)
  BY DEF EndsLine
<1>3. ~(next > Len(s)) /\ next # Len(s) /\ next <= Len(s) /\ next = e + 2 + SizeAt(s, i, e)
  BY <1>2
<1>4. From(s, next)[1] = s[next]
  BY <1>2 DEF From
<1> QED BY <1>1, <1>2, <1>3, <1>4, Zenon DEF ChunkFrom, SizeAt, ThenRest

-----------------------------------------------------------------------------
(* The size a line writes is the number of its leading digits. *)
LEMMA NumberIsNat == ASSUME NEW s \in Seq(Hex) PROVE Number(s, 16) \in Nat
<1>1. 16 \in Bases /\ 48 \in Hex
  BY DEF Bases, Hex, Digit
<1> QED BY <1>1, NumberGrowsBy

LEMMA SizeOfHex ==
  ASSUME NEW line \in Seq(Octet), \A j \in 1..Len(line) : line[j] \in Hex
  PROVE  SizeOf(line) = Number(line, 16) /\ line \in Seq(Hex)
<1>1. Consists(line, Hex)
  BY DEF Consists
<1>2. line \in Seq(Hex)
  OBVIOUS
<1> QED BY <1>1, <1>2, Zenon DEF SizeOf

LEMMA SizeOfMore ==
  ASSUME NEW line \in Seq(Octet), NEW q \in 1..Len(line), \A j \in 1..q - 1 : line[j] \in Hex,
         line[q] \notin Hex
  PROVE  SizeOf(line) = Number(SubSeq(line, 1, q - 1), 16)
<1> DEFINE I == {i \in 1..Len(line) : line[i] \notin Hex}
           P(x) == x \in I /\ \A y \in I : x <= y
<1>1. ~Consists(line, Hex)
  BY DEF Consists
<1>2. P(q)
  <2>1. ASSUME NEW y \in I PROVE q <= y
    BY <2>1
  <2> QED BY <2>1
<1>3. \A x : P(x) => x = q
  <2>1. I \subseteq Nat
    OBVIOUS
  <2> HIDE DEF I
  <2> QED BY <1>2, <2>1
<1>4. Min(I) = q
  <2>1. Min(I) = CHOOSE x : P(x)
    BY Zenon DEF Min
  <2> HIDE DEF P
  <2> QED BY <1>2, <1>3, <2>1, Zenon
<1>5. SelectInSeq(line, LAMBDA o : o \notin Hex) = q
  <2>1. SelectInSeq(line, LAMBDA o : o \notin Hex) = IF I # {} THEN Min(I) ELSE 0
    BY Zenon DEF SelectInSeq
  <2>2. I # {}
    BY <1>2
  <2> HIDE DEF I
  <2> QED BY <1>4, <2>1, <2>2, Zenon
<1> QED BY <1>1, <1>5, Zenon DEF SizeOf

LEMMA SizeIsNat == ASSUME NEW line \in Seq(Octet) PROVE SizeOf(line) \in Nat
<1>1. CASE \A j \in 1..Len(line) : line[j] \in Hex
  BY <1>1, SizeOfHex, NumberIsNat
<1>2. CASE ~\A j \in 1..Len(line) : line[j] \in Hex
  <2> DEFINE I == {i \in 1..Len(line) : line[i] \notin Hex}
  <2>1. I \subseteq Nat /\ I # {}
    BY <1>2
  <2>2. PICK q \in I : \A y \in I : q <= y
    <3> HIDE DEF I
    <3> QED BY <2>1, LeastNumber
  <2>3. q \in 1..Len(line) /\ line[q] \notin Hex
    OBVIOUS
  <2>4. ASSUME NEW j \in 1..q - 1 PROVE line[j] \in Hex
    <3>1. j \notin I
      <4> HIDE DEF I
      <4> QED BY <2>1, <2>2, <2>4
    <3>2. j \in 1..Len(line)
      BY <2>3
    <3> QED BY <3>1, <3>2
  <2>5. SubSeq(line, 1, q - 1) \in Seq(Hex)
    <3>0. PICK r : r = SubSeq(line, 1, q - 1)
      OBVIOUS
    <3>1. r \in Seq(Octet) /\ Len(r) = q - 1 /\ \A j \in 1..q - 1 : r[j] = line[j]
      <4> HIDE DEF I
      <4> QED BY <2>3, <3>0
    <3>2. \A j \in 1..Len(r) : r[j] \in Hex
      <4> HIDE DEF I
      <4> QED BY <2>4, <3>1
    <3>3. r \in Seq(Hex)
      BY <3>1, <3>2
    <3> QED BY <3>0, <3>3
  <2> QED BY <2>3, <2>4, <2>5, SizeOfMore, NumberIsNat
<1> QED BY <1>1, <1>2

-----------------------------------------------------------------------------
(* So the recursion is well founded: there are verdicts for all positions. *)
ChunksTo(s, limit, g, k, n) ==
  /\ g = [i \in 1..n |-> g[i]]
  /\ \A i \in 1..n : i > n - k => g[i] = ChunkFrom(s, limit, g, i)

LEMMA LaterOnly ==
  ASSUME NEW s \in Seq(Octet), NEW limit, NEW i \in 1..Len(s) + 1, NEW g, NEW h,
         \A j \in 1..Len(s) + 1 : j > i => g[j] = h[j]
  PROVE  ChunkFrom(s, limit, g, i) = ChunkFrom(s, limit, h, i)
<1>1. i \in Nat \ {0}
  OBVIOUS
<1>2. CASE NoLineAt(s, i)
  BY <1>1, <1>2, VerdictNoLine
<1>3. CASE \E e : EndsLine(s, i, e)
  <2>1. PICK e : EndsLine(s, i, e)
    BY <1>3
  <2>2. e \in i..Len(s) - 1
    BY <2>1 DEF EndsLine
  <2>3. SizeAt(s, i, e) \in Nat
    <3>1. SubSeq(s, i, e - 1) \in Seq(Octet)
      BY <2>2
    <3> QED BY <3>1, SizeIsNat DEF SizeAt
  <2>4. CASE SizeAt(s, i, e) = 0
    BY <1>1, <2>1, <2>4, VerdictLast
  <2>5. CASE SizeAt(s, i, e) \in Nat \ {0}
    <3>1. PICK next \in Nat : next = e + 2 + SizeAt(s, i, e)
      BY <2>2, <2>3
    <3>2. CASE next > Len(s)
      BY <1>1, <2>1, <2>5, <3>1, <3>2, VerdictMore
    <3>3. CASE next <= Len(s) /\ s[next] # CR
      BY <1>1, <2>1, <2>5, <3>1, <3>3, VerdictRuns
    <3>4. CASE next = Len(s) /\ s[next] = CR
      BY <1>1, <2>1, <2>5, <3>1, <3>4, VerdictHalf
    <3>5. CASE next < Len(s) /\ s[next] = CR /\ s[next + 1] # LF
      BY <1>1, <2>1, <2>5, <3>1, <3>5, VerdictNoEnd
    <3>6. CASE next < Len(s) /\ s[next] = CR /\ s[next + 1] = LF
      <4>1. next + 2 \in 1..Len(s) + 1 /\ next + 2 > i
        BY <2>2, <2>5, <3>1, <3>6
      <4>2. g[next + 2] = h[next + 2]
        BY <4>1
      <4>3. /\ ChunkFrom(s, limit, g, i) = ThenRest(s, i, e, next, limit, g[next + 2])
            /\ ChunkFrom(s, limit, h, i) = ThenRest(s, i, e, next, limit, h[next + 2])
        BY <1>1, <2>1, <2>5, <3>1, <3>6, VerdictNext
      <4> QED BY <4>2, <4>3
    <3>7. next > Len(s) \/ next = Len(s) \/ next < Len(s)
      BY <3>1
    <3> QED BY <3>1, <3>2, <3>3, <3>4, <3>5, <3>6, <3>7
  <2> QED BY <2>3, <2>4, <2>5
<1> QED BY <1>1, <1>2, <1>3, LineEndSomewhere

LEMMA ChunksExist ==
  ASSUME NEW s \in Seq(Octet), NEW limit, NEW n \in Nat, n = Len(s) + 1
  PROVE  \E g : ChunksTo(s, limit, g, n, n)
<1> DEFINE T == {k \in Nat : k <= n => \E g : ChunksTo(s, limit, g, k, n)}
<1>1. 0 \in T
  <2>1. PICK g : g = [i \in 1..n |-> 0]
    OBVIOUS
  <2>2. \A i \in 1..n : ~(i > n - 0)
    OBVIOUS
  <2>3. g = [i \in 1..n |-> g[i]]
    BY <2>1
  <2> QED BY <2>2, <2>3, Zenon DEF ChunksTo
<1>2. ASSUME NEW k \in Nat, k \in T PROVE k + 1 \in T
  <2> SUFFICES ASSUME k + 1 <= n PROVE \E g : ChunksTo(s, limit, g, k + 1, n)
    OBVIOUS
  <2>1. PICK g : ChunksTo(s, limit, g, k, n)
    BY <1>2
  <2>2. PICK m \in 1..n : m = n - k
    OBVIOUS
  <2>3. PICK h : h = [i \in 1..n |-> IF i = m THEN ChunkFrom(s, limit, g, m) ELSE g[i]]
    OBVIOUS
  <2>4. h[m] = ChunkFrom(s, limit, g, m) /\ \A j \in 1..n : j # m => h[j] = g[j]
    BY <2>3
  <2>5. h = [i \in 1..n |-> h[i]]
    BY <2>3
  <2>6. ASSUME NEW i \in 1..n, i > n - (k + 1) PROVE h[i] = ChunkFrom(s, limit, h, i)
    <3>1. i >= m
      BY <2>2, <2>6
    <3>2. \A j \in 1..Len(s) + 1 : j > i => g[j] = h[j]
      BY <2>4, <3>1
    <3>3. ChunkFrom(s, limit, g, i) = ChunkFrom(s, limit, h, i)
      BY <3>2, LaterOnly
    <3>4. h[i] = ChunkFrom(s, limit, g, i)
      <4>1. CASE i = m
        BY <2>4, <4>1
      <4>2. CASE i # m
        <5>1. i > n - k
          BY <2>2, <3>1, <4>2
        <5>2. g[i] = ChunkFrom(s, limit, g, i)
          BY <2>1, <5>1 DEF ChunksTo
        <5> QED BY <2>4, <4>2, <5>2
      <4> QED BY <4>1, <4>2
    <3> QED BY <3>3, <3>4
  <2> QED BY <2>5, <2>6, Zenon DEF ChunksTo
<1>3. n \in T
  <2> HIDE DEF T
  <2> QED BY <1>1, <1>2, AllNumbers
<1> QED BY <1>3

LEMMA VerdictAt ==
  ASSUME NEW s \in Seq(Octet), NEW i \in 1..Len(s) + 1
  PROVE  Verdicts(s)[i] = ChunkFrom(s, ChunkSizeLimit, Verdicts(s), i)
<1>1. PICK n \in Nat : n = Len(s) + 1
  OBVIOUS
<1>2. PICK g : ChunksTo(s, ChunkSizeLimit, g, n, n)
  BY <1>1, ChunksExist
<1>3. g = [j \in 1..(Len(s) + 1) |-> ChunkFrom(s, ChunkSizeLimit, g, j)]
  <2>1. \A j \in 1..n : j > n - n
    OBVIOUS
  <2>2. \A j \in 1..n : g[j] = ChunkFrom(s, ChunkSizeLimit, g, j)
    BY <1>2, <2>1, Zenon DEF ChunksTo
  <2>3. g = [j \in 1..n |-> g[j]]
    BY <1>2, Zenon DEF ChunksTo
  <2> QED BY <1>1, <2>2, <2>3, Zenon
<1>4. Verdicts(s) = [j \in 1..(Len(s) + 1) |-> ChunkFrom(s, ChunkSizeLimit, Verdicts(s), j)]
  BY <1>3, Zenon DEF Verdicts, AllChunks
<1> QED BY <1>4, Zenon

-----------------------------------------------------------------------------
(* A text that goes on. *)
Extends(s, t) ==
  /\ s \in Texts /\ t \in Texts /\ Len(t) <= Len(s)
  /\ \A k \in 1..Len(t) : s[k] = t[k]

LEMMA ExtendsItself == ASSUME NEW t \in Texts PROVE Extends(t, t)
BY DEF Extends, Texts

LEMMA ExtendsMore ==
  ASSUME NEW t \in Texts, NEW o \in Octet, NEW s, Extends(s, Append(t, o)) PROVE Extends(s, t)
<1>1. PICK u : u = Append(t, o)
  OBVIOUS
<1>2. u \in Seq(Octet) /\ Len(u) = Len(t) + 1 /\ \A k \in 1..Len(t) : u[k] = t[k]
  BY <1>1 DEF Texts
<1>3. Extends(s, u)
  BY <1>1
<1> QED BY <1>2, <1>3 DEF Extends, Texts

LEMMA PieceKept ==
  ASSUME NEW s, NEW t, Extends(s, t), NEW a \in Nat \ {0}, NEW b \in 0..Len(t)
  PROVE  SubSeq(s, a, b) = SubSeq(t, a, b) /\ SubSeq(t, a, b) \in Texts
<1>1. s \in Seq(Octet) /\ t \in Seq(Octet) /\ Len(t) <= Len(s) /\ \A k \in 1..Len(t) : s[k] = t[k]
  BY DEF Extends, Texts
<1>2. PICK x : x = SubSeq(s, a, b)
  OBVIOUS
<1>3. PICK y : y = SubSeq(t, a, b)
  OBVIOUS
<1>4. CASE a <= b
  <2>1. /\ x \in Seq(Octet) /\ Len(x) = b - a + 1
        /\ \A k \in 1..Len(x) : x[k] = s[a + k - 1]
    BY <1>1, <1>2, <1>4
  <2>2. /\ y \in Seq(Octet) /\ Len(y) = b - a + 1
        /\ \A k \in 1..Len(y) : y[k] = t[a + k - 1]
    BY <1>1, <1>3, <1>4
  <2>3. \A k \in 1..Len(x) : x[k] = y[k]
    <3> SUFFICES ASSUME NEW k \in 1..Len(x) PROVE x[k] = y[k]
      OBVIOUS
    <3>1. a + k - 1 \in 1..Len(t)
      BY <1>1, <1>4, <2>1
    <3> QED BY <1>1, <2>1, <2>2, <3>1
  <2> QED BY <1>2, <1>3, <2>1, <2>2, <2>3, SeqEqual DEF Texts
<1>5. CASE b < a
  BY <1>1, <1>5 DEF Texts
<1> QED BY <1>4, <1>5

(* A line that has ended has ended for good. *)
LEMMA LineEndKept ==
  ASSUME NEW s, NEW t, Extends(s, t), NEW i \in Nat \ {0}, NEW e, EndsLine(t, i, e)
  PROVE  EndsLine(s, i, e) /\ SizeAt(s, i, e) = SizeAt(t, i, e) /\ SizeAt(t, i, e) \in Nat
<1>1. s \in Seq(Octet) /\ t \in Seq(Octet) /\ Len(t) <= Len(s) /\ \A k \in 1..Len(t) : s[k] = t[k]
  BY DEF Extends, Texts
<1>2. e \in i..Len(t) - 1 /\ e \in Nat /\ e - 1 \in 0..Len(t)
  BY <1>1 DEF EndsLine
<1>3. EndsLine(s, i, e)
  BY <1>1, <1>2 DEF EndsLine
<1>4. SubSeq(s, i, e - 1) = SubSeq(t, i, e - 1) /\ SubSeq(t, i, e - 1) \in Seq(Octet)
  BY <1>2, PieceKept DEF Texts
<1>5. SizeOf(SubSeq(t, i, e - 1)) \in Nat
  BY <1>4, SizeIsNat
<1> QED BY <1>3, <1>4, <1>5 DEF SizeAt

(* The text up to p is chunks with body B, and stays so: the verdict on it *)
(* is that on what there is from p on, whatever comes.                     *)
Prefixed(v, w, B) ==
  /\ v.kind = w.kind
  /\ w.body \in Texts => v.body = B \o w.body
  /\ v.plain => w.plain

Through(t, p, B) ==
  /\ t \in Texts /\ p \in 1..Len(t) + 1 /\ B \in Texts
  /\ \A s : Extends(s, t) => Prefixed(Verdicts(s)[1], Verdicts(s)[p], B)

LEMMA ThroughNothing == Through(<< >>, 1, << >>)
<1>1. ASSUME NEW v PROVE Prefixed(v, v, << >>)
  BY DEF Prefixed, Texts
<1> QED BY <1>1 DEF Through, Texts

LEMMA ThroughStays ==
  ASSUME NEW t, NEW p, NEW B, Through(t, p, B), NEW o \in Octet PROVE Through(Append(t, o), p, B)
<1>1. t \in Texts /\ p \in 1..Len(t) + 1 /\ B \in Texts
  BY DEF Through
<1>2. Append(t, o) \in Texts /\ p \in 1..Len(Append(t, o)) + 1
  BY <1>1 DEF Texts
<1>3. ASSUME NEW s, Extends(s, Append(t, o)) PROVE Prefixed(Verdicts(s)[1], Verdicts(s)[p], B)
  <2>1. Extends(s, t)
    BY <1>1, <1>3, ExtendsMore
  <2> QED BY <2>1, Zenon DEF Through
<1> QED BY <1>1, <1>2, <1>3, Zenon DEF Through

LEMMA PrefixedNext ==
  ASSUME NEW v, NEW w, NEW r, NEW B \in Texts, NEW D \in Texts, NEW q, Prefixed(v, w, B),
         w = Verdict(r.kind, D \o r.body, r.plain /\ q)
  PROVE  Prefixed(v, r, B \o D)
<1>1. w.kind = r.kind /\ w.body = D \o r.body /\ w.plain = (r.plain /\ q)
  BY Zenon DEF Verdict
<1>2. ASSUME r.body \in Texts PROVE v.body = (B \o D) \o r.body
  <2>1. PICK b \in Texts : b = r.body
    BY <1>2
  <2>2. D \o b \in Texts
    BY DEF Texts
  <2>3. v.body = B \o (D \o b)
    BY <1>1, <2>1, <2>2 DEF Prefixed
  <2>4. B \o (D \o b) = (B \o D) \o b
    BY ConcatAssociative DEF Texts
  <2> QED BY <2>1, <2>3, <2>4
<1> QED BY <1>1, <1>2, Zenon DEF Prefixed

(* One more chunk. *)
LEMMA ThroughNext ==
  ASSUME NEW t, NEW p, NEW B, Through(t, p, B), NEW e, EndsLine(t, p, e), SizeAt(t, p, e) # 0,
         NEW next, next = e + 2 + SizeAt(t, p, e), next + 1 = Len(t), t[next] = CR, t[next + 1] = LF
  PROVE  Through(t, next + 2, B \o SubSeq(t, e + 2, next - 1))
<1>1. t \in Seq(Octet) /\ p \in Nat \ {0} /\ p \in 1..Len(t) + 1 /\ B \in Texts
  BY DEF Through, Texts
<1>2. e \in Nat /\ e \in p..Len(t) - 1
  BY <1>1 DEF EndsLine
<1>3. SizeAt(t, p, e) \in Nat \ {0}
  <2>1. Extends(t, t)
    BY <1>1, ExtendsItself DEF Texts
  <2> QED BY <1>1, <2>1, LineEndKept
<1>4. next \in Nat /\ next + 2 \in 1..Len(t) + 1 /\ next - 1 \in 0..Len(t) /\ e + 2 \in Nat \ {0} /\ next \in 1..Len(t)
  BY <1>2, <1>3
<1>5. PICK D : D = SubSeq(t, e + 2, next - 1)
  OBVIOUS
<1>6. D \in Texts
  <2>1. Extends(t, t)
    BY <1>1, ExtendsItself DEF Texts
  <2> QED BY <1>4, <1>5, <2>1, PieceKept
<1>7. ASSUME NEW s, Extends(s, t) PROVE Prefixed(Verdicts(s)[1], Verdicts(s)[next + 2], B \o D)
  <2>1. s \in Seq(Octet) /\ Len(t) <= Len(s) /\ s[next] = CR /\ s[next + 1] = LF /\ next < Len(s)
    <3>1. next + 1 \in 1..Len(t)
      BY <1>4
    <3> QED BY <1>4, <1>7, <3>1 DEF Extends, Texts
  <2>2. EndsLine(s, p, e) /\ SizeAt(s, p, e) = SizeAt(t, p, e)
    BY <1>1, <1>7, LineEndKept
  <2>3. SubSeq(s, e + 2, next - 1) = D
    BY <1>4, <1>5, <1>7, PieceKept
  <2>4. PICK g : g = Verdicts(s)
    OBVIOUS
  <2>5. ChunkFrom(s, ChunkSizeLimit, g, p) = ThenRest(s, p, e, next, ChunkSizeLimit, g[next + 2])
    BY <1>1, <1>3, <2>1, <2>2, VerdictNext
  <2>6. g[p] = ChunkFrom(s, ChunkSizeLimit, g, p)
    <3>1. p \in 1..Len(s) + 1
      BY <1>1, <2>1
    <3> QED BY <2>1, <2>4, <3>1, VerdictAt
  <2>7. Prefixed(g[1], g[p], B)
    BY <1>7, <2>4, Zenon DEF Through
  <2>8. PICK q : q = IsSize(SubSeq(s, p, e - 1), ChunkSizeLimit)
    OBVIOUS
  <2>9. g[p] = Verdict(g[next + 2].kind, D \o g[next + 2].body, g[next + 2].plain /\ q)
    BY <2>3, <2>5, <2>6, <2>8, Zenon DEF ThenRest
  <2> QED BY <1>1, <1>6, <2>4, <2>7, <2>9, PrefixedNext
<1>8. B \o D \in Texts /\ t \in Texts
  BY <1>1, <1>6 DEF Texts
<1> QED BY <1>4, <1>5, <1>7, <1>8, Zenon DEF Through

(* What follows the data of a chunk is no line end: it is an overrun, for  *)
(* good.                                                                   *)
Overruns(t) == t \in Texts /\ \A s : Extends(s, t) => Verdicts(s)[1].kind = "overrun"

LEMMA OverrunsStays == ASSUME NEW t, Overruns(t), NEW o \in Octet PROVE Overruns(Append(t, o))
<1>1. t \in Texts /\ Append(t, o) \in Texts
  BY DEF Overruns, Texts
<1>2. ASSUME NEW s, Extends(s, Append(t, o)) PROVE Verdicts(s)[1].kind = "overrun"
  <2>1. Extends(s, t)
    BY <1>1, <1>2, ExtendsMore
  <2> QED BY <2>1, Zenon DEF Overruns
<1> QED BY <1>1, <1>2, Zenon DEF Overruns

LEMMA OverrunFound ==
  ASSUME NEW t, NEW p, NEW B, Through(t, p, B), NEW e, EndsLine(t, p, e), SizeAt(t, p, e) # 0,
         NEW next, next = e + 2 + SizeAt(t, p, e), next <= Len(t),
         t[next] # CR \/ (next < Len(t) /\ t[next + 1] # LF)
  PROVE  Overruns(t)
<1>1. t \in Seq(Octet) /\ p \in Nat \ {0} /\ p \in 1..Len(t) + 1
  BY DEF Through, Texts
<1>2. e \in Nat /\ e \in p..Len(t) - 1
  BY <1>1 DEF EndsLine
<1>3. SizeAt(t, p, e) \in Nat \ {0}
  <2>1. Extends(t, t)
    BY <1>1, ExtendsItself DEF Texts
  <2> QED BY <1>1, <2>1, LineEndKept
<1>4. next \in 1..Len(t)
  BY <1>2, <1>3
<1>5. ASSUME NEW s, Extends(s, t) PROVE Verdicts(s)[1].kind = "overrun"
  <2>1. s \in Seq(Octet) /\ Len(t) <= Len(s) /\ s[next] = t[next] /\ (next < Len(t) => s[next + 1] = t[next + 1])
    <3>1. next < Len(t) => next + 1 \in 1..Len(t)
      BY <1>4
    <3> QED BY <1>4, <1>5, <3>1 DEF Extends, Texts
  <2>2. EndsLine(s, p, e) /\ SizeAt(s, p, e) = SizeAt(t, p, e)
    BY <1>1, <1>5, LineEndKept
  <2>3. PICK g : g = Verdicts(s)
    OBVIOUS
  <2>4. ChunkFrom(s, ChunkSizeLimit, g, p) = Verdict("overrun", << >>, FALSE)
    <3>1. CASE s[next] # CR
      <4>1. next <= Len(s)
        BY <1>4, <2>1
      <4> QED BY <1>1, <1>3, <2>1, <2>2, <3>1, <4>1, VerdictRuns
    <3>2. CASE s[next] = CR /\ next < Len(t) /\ s[next + 1] # LF
      <4>1. next < Len(s)
        BY <1>1, <1>4, <2>1, <3>2
      <4> QED BY <1>1, <1>3, <2>1, <2>2, <3>2, <4>1, VerdictNoEnd
    <3> QED BY <2>1, <3>1, <3>2
  <2>5. g[p] = ChunkFrom(s, ChunkSizeLimit, g, p)
    <3>1. p \in 1..Len(s) + 1
      BY <1>1, <2>1
    <3> QED BY <2>1, <2>3, <3>1, VerdictAt
  <2>6. Prefixed(g[1], g[p], B)
    BY <1>5, <2>3, Zenon DEF Through
  <2> QED BY <2>3, <2>4, <2>5, <2>6 DEF Prefixed, Verdict
<1> QED BY <1>1, <1>5, Zenon DEF Overruns, Texts

-----------------------------------------------------------------------------
(* The verdict on a text of which the decoder is at the chunk from p on.   *)
Wants(t)       == Verdicts(t)[1].kind = "more"
Refused(t)     == Verdicts(t)[1].kind = "overrun" \/ ~Verdicts(t)[1].plain
Complete(t, B) == Verdicts(t)[1].kind = "whole" /\ Verdicts(t)[1].body = B

LEMMA ThroughHere ==
  ASSUME NEW t, NEW p, NEW B, Through(t, p, B)
  PROVE  /\ Prefixed(Verdicts(t)[1], ChunkFrom(t, ChunkSizeLimit, Verdicts(t), p), B)
         /\ t \in Seq(Octet) /\ p \in Nat \ {0} /\ p \in 1..Len(t) + 1 /\ B \in Seq(Octet)
<1>1. t \in Seq(Octet) /\ p \in Nat \ {0} /\ p \in 1..Len(t) + 1 /\ B \in Seq(Octet)
  BY DEF Through, Texts
<1>2. Extends(t, t)
  BY <1>1, ExtendsItself DEF Texts
<1>3. Prefixed(Verdicts(t)[1], Verdicts(t)[p], B)
  BY <1>2, Zenon DEF Through
<1>4. Verdicts(t)[p] = ChunkFrom(t, ChunkSizeLimit, Verdicts(t), p)
  BY <1>1, VerdictAt
<1> QED BY <1>1, <1>3, <1>4, Zenon

(* No line end yet. *)
LEMMA HereNoLine ==
  ASSUME NEW t, NEW p, NEW B, Through(t, p, B), NoLineAt(t, p)
  PROVE  Wants(t) /\ (~SizeLineBegun(From(t, p), ChunkSizeLimit) => Refused(t))
<1>1. t \in Seq(Octet) /\ p \in Nat \ {0}
  BY ThroughHere
<1>3. ChunkFrom(t, ChunkSizeLimit, Verdicts(t), p) = Unfinished(t, p, ChunkSizeLimit)
  BY <1>1, VerdictNoLine
<1>4. Prefixed(Verdicts(t)[1], Verdict("more", << >>, SizeLineBegun(From(t, p), ChunkSizeLimit)), B)
  BY ThroughHere, <1>3, Zenon DEF Unfinished
<1>5. Verdicts(t)[1].kind = "more" /\ (Verdicts(t)[1].plain => SizeLineBegun(From(t, p), ChunkSizeLimit))
  BY <1>4, Zenon DEF Prefixed, Verdict
<1> QED BY <1>5, Zenon DEF Wants, Refused

(* The data of a chunk, and half of the line end after them. *)
LEMMA HereData ==
  ASSUME NEW t, NEW p, NEW B, Through(t, p, B), NEW e, EndsLine(t, p, e), SizeAt(t, p, e) # 0,
         NEW next, next = e + 2 + SizeAt(t, p, e), next > Len(t) \/ (next = Len(t) /\ t[next] = CR)
  PROVE  Wants(t)
<1>1. t \in Seq(Octet) /\ p \in Nat \ {0}
  BY ThroughHere
<1>2. SizeAt(t, p, e) \in Nat \ {0}
  <2>1. Extends(t, t)
    BY <1>1, ExtendsItself DEF Texts
  <2> QED BY <1>1, <2>1, LineEndKept
<1>3. ChunkFrom(t, ChunkSizeLimit, Verdicts(t), p) =
        Verdict("more", << >>, IsSize(SubSeq(t, p, e - 1), ChunkSizeLimit))
  BY <1>1, <1>2, VerdictMore, VerdictHalf
<1>4. Prefixed(Verdicts(t)[1], Verdict("more", << >>, IsSize(SubSeq(t, p, e - 1), ChunkSizeLimit)), B)
  BY ThroughHere, <1>3, Zenon
<1> QED BY <1>4, Zenon DEF Prefixed, Verdict, Wants

(* The last chunk and what there is of its trailer. *)
LEMMA HereTrailer ==
  ASSUME NEW t, NEW p, NEW B, Through(t, p, B), NEW e, EndsLine(t, p, e), SizeAt(t, p, e) = 0,
         NEW trailer, trailer = From(t, e + 2)
  PROVE  /\ ~EndsTrailer(trailer) => Wants(t)
         /\ EndsTrailer(trailer) => Complete(t, B)
         /\ trailer \notin {<< >>, <<CR>>, <<CR, LF>>} => Refused(t)
<1>1. t \in Seq(Octet) /\ p \in Nat \ {0} /\ B \in Seq(Octet)
  BY ThroughHere
<1>2. ChunkFrom(t, ChunkSizeLimit, Verdicts(t), p) = LastChunk(t, p, e, ChunkSizeLimit)
  BY <1>1, VerdictLast
<1>3. PICK v : v = Verdicts(t)[1]
  OBVIOUS
<1>4. PICK kind1 : kind1 = IF EndsTrailer(trailer) THEN "whole" ELSE "more"
  OBVIOUS
<1>5. Prefixed(v, Verdict(kind1, << >>, IsSize(SubSeq(t, p, e - 1), ChunkSizeLimit)
                                         /\ trailer \in {<< >>, <<CR>>, <<CR, LF>>}), B)
  BY ThroughHere, <1>2, <1>3, <1>4, Zenon DEF LastChunk
<1>6. v.kind = kind1 /\ (v.plain => trailer \in {<< >>, <<CR>>, <<CR, LF>>})
  BY <1>5, Zenon DEF Prefixed, Verdict
<1>7. v.body = B
  <2>1. << >> \in Texts /\ B \o << >> = B
    BY <1>1 DEF Texts
  <2> QED BY <1>5, <2>1, Zenon DEF Prefixed, Verdict
<1> QED BY <1>3, <1>4, <1>6, <1>7, Zenon DEF Wants, Complete, Refused

-----------------------------------------------------------------------------
(* From p to q the text has digits, which write n, and at q, if there is   *)
(* anything, something else.                                               *)
Digits(t, p, q, n) ==
  /\ t \in Texts /\ p \in 1..Len(t) + 1 /\ q \in p..Len(t) + 1
  /\ \A j \in p..q - 1 : t[j] \in Hex
  /\ q <= Len(t) => t[q] \notin Hex
  /\ n = Number(SubSeq(t, p, q - 1), 16)

LEMMA DigitsNone ==
  ASSUME NEW t \in Texts, NEW p, p = Len(t) + 1 PROVE Digits(t, p, p, 0)
<1>1. t \in Seq(Octet) /\ p \in Nat /\ p > Len(t)
  BY DEF Texts
<1>2. SubSeq(t, p, p - 1) = << >>
  BY <1>1
<1>3. Number(<< >>, 16) = 0
  BY NumberNothing DEF Bases
<1>4. ~(p <= Len(t)) /\ p \in 1..Len(t) + 1 /\ p \in p..Len(t) + 1
  BY <1>1
<1>5. \A j \in p..p - 1 : t[j] \in Hex
  BY <1>1
<1> QED BY <1>2, <1>3, <1>4, <1>5, Zenon DEF Digits

LEMMA DigitsNumber ==
  ASSUME NEW t, NEW p, NEW q, NEW n, Digits(t, p, q, n)
  PROVE  n \in Nat /\ SubSeq(t, p, q - 1) \in Seq(Hex) /\ t \in Seq(Octet) /\ p \in Nat \ {0}
<1>1. t \in Seq(Octet) /\ p \in 1..Len(t) + 1 /\ q \in p..Len(t) + 1 /\ \A j \in p..q - 1 : t[j] \in Hex
  BY DEF Digits, Texts
<1>2. PICK x : x = SubSeq(t, p, q - 1)
  OBVIOUS
<1>3. x \in Seq(Hex)
  <2>1. CASE q = p
    <3>1. x = << >>
      BY <1>1, <1>2, <2>1
    <3> QED BY <3>1
  <2>2. CASE p < q
    <3>1. x \in Seq(Octet) /\ Len(x) = q - p /\ \A k \in 1..q - p : x[k] = t[p + k - 1]
      BY <1>1, <1>2, <2>2
    <3>2. \A k \in 1..Len(x) : x[k] \in Hex
      <4> SUFFICES ASSUME NEW k \in 1..Len(x) PROVE x[k] \in Hex
        OBVIOUS
      <4>1. p + k - 1 \in p..q - 1
        BY <1>1, <2>2, <3>1
      <4> QED BY <1>1, <3>1, <4>1
    <3> QED BY <3>1, <3>2
  <2> QED BY <1>1, <2>1, <2>2
<1>4. n \in Nat
  BY <1>2, <1>3, NumberIsNat DEF Digits
<1> QED BY <1>1, <1>2, <1>3, <1>4

LEMMA PieceGrows ==
  ASSUME NEW t \in Seq(Octet), NEW o \in Octet, NEW p \in 1..Len(t) + 1, NEW q, q = Len(t) + 1
  PROVE  SubSeq(Append(t, o), p, q) = Append(SubSeq(t, p, q - 1), o)
<1>1. PICK u : u = Append(t, o)
  OBVIOUS
<1>2. u \in Seq(Octet) /\ Len(u) = Len(t) + 1 /\ u[Len(t) + 1] = o /\ \A j \in 1..Len(t) : u[j] = t[j]
  BY <1>1
<1>3. PICK x : x = SubSeq(t, p, q - 1)
  OBVIOUS
<1>4. PICK y : y = SubSeq(u, p, q)
  OBVIOUS
<1>5. y \in Seq(Octet) /\ Len(y) = q - p + 1 /\ \A k \in 1..q - p + 1 : y[k] = u[p + k - 1]
  BY <1>2, <1>4
<1>6. x \in Seq(Octet) /\ Len(x) = q - p /\ \A k \in 1..q - p : x[k] = t[p + k - 1]
  BY <1>3
<1>7. PICK z : z = Append(x, o)
  OBVIOUS
<1>8. z \in Seq(Octet) /\ Len(z) = q - p + 1 /\ z[q - p + 1] = o /\ \A k \in 1..q - p : z[k] = x[k]
  BY <1>6, <1>7
<1>9. ASSUME NEW k \in 1..q - p + 1 PROVE y[k] = z[k]
  <2>1. CASE k = q - p + 1
    <3>1. p + k - 1 = Len(t) + 1
      BY <2>1
    <3> QED BY <1>2, <1>5, <1>8, <2>1, <3>1
  <2>2. CASE k # q - p + 1
    <3>1. k \in 1..q - p /\ p + k - 1 \in 1..Len(t)
      BY <1>9, <2>2
    <3> QED BY <1>2, <1>5, <1>6, <1>8, <1>9, <3>1
  <2> QED BY <2>1, <2>2
<1>10. y = z
  BY <1>5, <1>8, <1>9, SeqEqual
<1> QED BY <1>1, <1>3, <1>4, <1>7, <1>10

LEMMA DigitsGrow ==
  ASSUME NEW t, NEW p, NEW n, NEW q, q = Len(t) + 1, Digits(t, p, q, n), NEW o \in Hex
  PROVE  Digits(Append(t, o), p, q + 1, 16 * n + HexValue(o))
<1>1. t \in Seq(Octet) /\ p \in 1..Len(t) + 1 /\ q \in p..Len(t) + 1 /\ \A j \in p..q - 1 : t[j] \in Hex
  BY DEF Digits, Texts
<1>2. o \in Octet
  BY DEF Hex, Digit, Octet
<1>3. PICK u : u = Append(t, o)
  OBVIOUS
<1>4. u \in Seq(Octet) /\ Len(u) = Len(t) + 1 /\ u[Len(t) + 1] = o /\ \A j \in 1..Len(t) : u[j] = t[j]
  BY <1>1, <1>2, <1>3
<1>5. PICK x : x = SubSeq(t, p, q - 1)
  OBVIOUS
<1>6. SubSeq(u, p, (q + 1) - 1) = Append(x, o)
  <2>1. (q + 1) - 1 = q
    BY <1>1
  <2> QED BY <1>1, <1>2, <1>3, <1>5, <2>1, PieceGrows
<1>7. Number(Append(x, o), 16) = 16 * n + HexValue(o)
  <2>1. x \in Seq(Hex) /\ n = Number(x, 16) /\ 16 \in Bases
    BY <1>5, DigitsNumber DEF Digits, Bases
  <2> QED BY <2>1, NumberGrowsBy DEF NumberStep
<1>8. \A j \in p..q : u[j] \in Hex
  BY <1>1, <1>4
<1>9. (q + 1) - 1 = q /\ q + 1 \in p..Len(u) + 1 /\ ~(q + 1 <= Len(u)) /\ p \in 1..Len(u) + 1 /\ u \in Texts
  BY <1>1, <1>4 DEF Texts
<1> QED BY <1>3, <1>6, <1>7, <1>8, <1>9 DEF Digits

LEMMA DigitsStay ==
  ASSUME NEW t, NEW p, NEW q, NEW n, Digits(t, p, q, n), NEW o \in Octet, q <= Len(t) \/ o \notin Hex
  PROVE  Digits(Append(t, o), p, q, n)
<1>1. /\ t \in Seq(Octet) /\ p \in 1..Len(t) + 1 /\ q \in p..Len(t) + 1 /\ \A j \in p..q - 1 : t[j] \in Hex
      /\ q <= Len(t) => t[q] \notin Hex
  BY DEF Digits, Texts
<1>2. PICK u : u = Append(t, o)
  OBVIOUS
<1>3. u \in Seq(Octet) /\ Len(u) = Len(t) + 1 /\ u[Len(t) + 1] = o /\ \A j \in 1..Len(t) : u[j] = t[j]
  BY <1>1, <1>2
<1>4. SubSeq(u, p, q - 1) = SubSeq(t, p, q - 1)
  <2>1. Extends(u, t)
    BY <1>1, <1>3 DEF Extends, Texts
  <2>2. q - 1 \in 0..Len(t) /\ p \in Nat \ {0}
    BY <1>1
  <2> QED BY <2>1, <2>2, PieceKept
<1>5. \A j \in p..q - 1 : u[j] \in Hex
  BY <1>1, <1>3
<1>6. q <= Len(u) => u[q] \notin Hex
  <2>1. q <= Len(t) \/ q = Len(t) + 1
    BY <1>1
  <2> QED BY <1>1, <1>3, <2>1
<1>7. q \in p..Len(u) + 1 /\ p \in 1..Len(u) + 1 /\ u \in Texts
  BY <1>1, <1>3 DEF Texts
<1>8. n = Number(SubSeq(u, p, q - 1), 16)
  BY <1>4 DEF Digits
<1> QED BY <1>2, <1>5, <1>6, <1>7, <1>8 DEF Digits

LEMMA DigitsSize ==
  ASSUME NEW t, NEW p, NEW q, NEW n, Digits(t, p, q, n), NEW e, EndsLine(t, p, e), q <= e
  PROVE  SizeAt(t, p, e) = n
<1>1. /\ t \in Seq(Octet) /\ p \in 1..Len(t) + 1 /\ q \in p..Len(t) + 1 /\ \A j \in p..q - 1 : t[j] \in Hex
      /\ q <= Len(t) => t[q] \notin Hex
  BY DEF Digits, Texts
<1>2. e \in p..Len(t) - 1 /\ t[q] \notin Hex
  BY <1>1 DEF EndsLine
<1>3. PICK line : line = SubSeq(t, p, e - 1)
  OBVIOUS
<1>4. line \in Seq(Octet) /\ Len(line) = e - p /\ \A k \in 1..e - p : line[k] = t[p + k - 1]
  BY <1>1, <1>2, <1>3
<1>5. CASE q = e
  <2>1. \A j \in 1..Len(line) : line[j] \in Hex
    <3> SUFFICES ASSUME NEW j \in 1..Len(line) PROVE line[j] \in Hex
      OBVIOUS
    <3>1. p + j - 1 \in p..q - 1 /\ j \in 1..e - p
      BY <1>1, <1>2, <1>4, <1>5
    <3> QED BY <1>1, <1>4, <3>1
  <2>2. SizeOf(line) = Number(line, 16)
    BY <1>4, <2>1, SizeOfHex
  <2> QED BY <1>3, <1>5, <2>2 DEF Digits, SizeAt
<1>6. CASE q < e
  <2>1. PICK r \in 1..Len(line) : r = q - p + 1
    BY <1>1, <1>2, <1>4, <1>6
  <2>2. \A j \in 1..r - 1 : line[j] \in Hex
    <3> SUFFICES ASSUME NEW j \in 1..r - 1 PROVE line[j] \in Hex
      OBVIOUS
    <3>1. p + j - 1 \in p..q - 1 /\ j \in 1..e - p
      BY <1>1, <1>2, <1>6, <2>1
    <3> QED BY <1>1, <1>4, <3>1
  <2>3. line[r] \notin Hex
    <3>1. p + r - 1 = q /\ r \in 1..e - p
      BY <1>1, <1>2, <1>6, <2>1
    <3> QED BY <1>2, <1>4, <3>1
  <2>4. SizeOf(line) = Number(SubSeq(line, 1, r - 1), 16)
    BY <1>4, <2>1, <2>2, <2>3, SizeOfMore
  <2>5. SubSeq(line, 1, r - 1) = SubSeq(t, p, q - 1)
    <3>1. PICK x : x = SubSeq(line, 1, r - 1)
      OBVIOUS
    <3>2. PICK y : y = SubSeq(t, p, q - 1)
      OBVIOUS
    <3>3. x \in Seq(Octet) /\ Len(x) = q - p /\ \A k \in 1..q - p : x[k] = line[k]
      <4>1. PICK m \in 0..Len(line) : m = q - p /\ r - 1 = m
        BY <1>1, <2>1
      <4>2. x \in Seq(Octet) /\ Len(x) = m /\ \A k \in 1..m : x[k] = line[k]
        BY <1>4, <3>1, <4>1
      <4> QED BY <4>1, <4>2
    <3>4. y \in Seq(Octet) /\ Len(y) = q - p /\ \A k \in 1..q - p : y[k] = t[p + k - 1]
      BY <1>1, <1>2, <3>2
    <3>5. \A k \in 1..q - p : k \in 1..e - p
      BY <1>1, <1>2, <1>6
    <3>6. \A k \in 1..q - p : x[k] = y[k]
      BY <1>4, <3>3, <3>4, <3>5
    <3>7. x = y
      BY <3>3, <3>4, <3>6, SeqEqual
    <3> QED BY <3>1, <3>2, <3>7
  <2> QED BY <1>3, <2>4, <2>5 DEF Digits, SizeAt
<1> QED BY <1>1, <1>2, <1>5, <1>6

LEMMA FromAt ==
  ASSUME NEW t \in Seq(Octet), NEW p \in 1..Len(t)
  PROVE  /\ From(t, p) \in Seq(Octet) /\ Len(From(t, p)) = Len(t) - p + 1
         /\ \A k \in 1..Len(t) - p + 1 : From(t, p)[k] = t[p + k - 1]
BY DEF From

(* A line that has more than digits, and then no line end, is no size. *)
LEMMA NotBegun ==
  ASSUME NEW t, NEW p, NEW q, NEW n, Digits(t, p, q, n), NEW limit,
         q < Len(t) \/ (q = Len(t) /\ t[q] # CR)
  PROVE  ~SizeLineBegun(From(t, p), limit)
<1>1. /\ t \in Seq(Octet) /\ p \in 1..Len(t) /\ q \in p..Len(t) /\ t[q] \notin Hex
  BY DEF Digits, Texts
<1>2. PICK w : w = From(t, p)
  OBVIOUS
<1>3. w \in Seq(Octet) /\ Len(w) = Len(t) - p + 1 /\ \A k \in 1..Len(t) - p + 1 : w[k] = t[p + k - 1]
  BY <1>1, <1>2, FromAt
<1>4. PICK r \in 1..Len(w) : r = q - p + 1
  BY <1>1, <1>3
<1>5. w[r] \notin Hex /\ w # << >>
  <2>1. p + r - 1 = q /\ r \in 1..Len(t) - p + 1
    BY <1>1, <1>4
  <2> QED BY <1>1, <1>3, <2>1
<1>6. ~IsSize(w, limit)
  <2>1. ~Consists(w, Hex)
    BY <1>3, <1>5 DEF Consists
  <2> QED BY <2>1, Zenon DEF IsSize
<1>7. ~(Last(w) = CR /\ IsSize(Front(w), limit))
  <2>1. CASE q < Len(t)
    <3>1. PICK f : f = Front(w)
      OBVIOUS
    <3>2. r < Len(w)
      BY <1>1, <1>3, <1>4, <2>1
    <3>3. f \in Seq(Octet) /\ Len(f) = Len(w) - 1 /\ r \in 1..Len(f) /\ f[r] = w[r]
      BY <1>3, <1>4, <1>5, <3>1, <3>2 DEF Front
    <3>4. ~Consists(f, Hex)
      BY <1>5, <3>3 DEF Consists
    <3> QED BY <3>1, <3>4, Zenon DEF IsSize
  <2>2. CASE q = Len(t) /\ t[q] # CR
    <3>1. Last(w) = w[Len(w)] /\ r = Len(w) /\ p + r - 1 = q /\ r \in 1..Len(t) - p + 1
      BY <1>1, <1>3, <1>4, <2>2 DEF Last
    <3> QED BY <1>3, <2>2, <3>1
  <2> QED BY <2>1, <2>2
<1> QED BY <1>2, <1>5, <1>6, <1>7, Zenon DEF SizeLineBegun

(* Neither are digits of a number that is too large. *)
LEMMA SizeTooLarge ==
  ASSUME NEW t, NEW p, NEW q, NEW n, Digits(t, p, q, n), NEW limit, q = Len(t) + 1, p <= Len(t),
         ~(n \div 16 < limit)
  PROVE  ~SizeLineBegun(From(t, p), limit)
<1>1. t \in Seq(Octet) /\ p \in 1..Len(t) /\ \A j \in p..Len(t) : t[j] \in Hex
  BY DEF Digits, Texts
<1>2. PICK w : w = From(t, p)
  OBVIOUS
<1>3. w \in Seq(Octet) /\ Len(w) = Len(t) - p + 1 /\ \A k \in 1..Len(t) - p + 1 : w[k] = t[p + k - 1]
  BY <1>1, <1>2, FromAt
<1>4. w # << >> /\ Last(w) # CR
  <2>1. Last(w) = w[Len(w)] /\ w # << >>
    BY <1>1, <1>3 DEF Last
  <2>2. Len(w) \in 1..Len(t) - p + 1 /\ p + Len(w) - 1 = Len(t)
    BY <1>1, <1>3
  <2>3. w[Len(w)] = t[Len(t)] /\ t[Len(t)] \in Hex
    BY <1>1, <1>3, <2>2
  <2>4. CR \notin Hex
    BY DEF CR, Hex, Digit
  <2> QED BY <2>1, <2>3, <2>4
<1>5. Number(w, 16) = n
  <2>1. q - 1 = Len(t)
    BY <1>1
  <2>2. n = Number(SubSeq(t, p, Len(t)), 16)
    BY <2>1, Zenon DEF Digits
  <2> QED BY <1>2, <2>2 DEF From
<1>6. ~IsSize(w, limit)
  BY <1>5, Zenon DEF IsSize
<1> QED BY <1>2, <1>4, <1>6, Zenon DEF SizeLineBegun

(* Nor is the first half of a line end by itself. *)
LEMMA LoneOctet ==
  ASSUME NEW t \in Seq(Octet), NEW p, p = Len(t), t # << >>, t[p] \notin Hex, NEW limit
  PROVE  ~SizeLineBegun(From(t, p), limit)
<1>0. p \in 1..Len(t)
  OBVIOUS
<1>1. PICK w : w = From(t, p)
  OBVIOUS
<1>2. w \in Seq(Octet) /\ Len(w) = 1 /\ w[1] \notin Hex /\ w # << >>
  <2>1. From(t, p) \in Seq(Octet) /\ Len(From(t, p)) = Len(t) - p + 1
        /\ \A k \in 1..Len(t) - p + 1 : From(t, p)[k] = t[p + k - 1]
    BY <1>0, FromAt
  <2>2. 1 \in 1..Len(t) - p + 1 /\ p + 1 - 1 = p /\ Len(t) - p + 1 = 1
    BY <1>0
  <2>3. From(t, p)[1] = t[p]
    BY <2>1, <2>2
  <2>4. Len(w) = 1 /\ w \in Seq(Octet)
    BY <1>1, <2>1, <2>2
  <2>5. w[1] = t[p]
    BY <1>1, <2>3, Zenon
  <2>6. w[1] \notin Hex
    BY <2>5
  <2>7. w # << >>
    <3>1. Len(<< >>) = 0 /\ 0 # 1
      OBVIOUS
    <3> QED BY <2>4, <3>1, Zenon
  <2> QED BY <2>4, <2>6, <2>7
<1>3. ~IsSize(w, limit)
  <2>1. ~Consists(w, Hex)
    BY <1>2 DEF Consists
  <2> QED BY <2>1, Zenon DEF IsSize
<1>4. Front(w) = << >>
  BY <1>2 DEF Front
<1> QED BY <1>1, <1>2, <1>3, <1>4, Zenon DEF SizeLineBegun, IsSize

-----------------------------------------------------------------------------
(* The table while a size line is read. *)
LEMMA CrLfClasses ==
  /\ CR \notin Hex /\ CR \notin Tchar /\ CR \notin Text /\ CR # SEMI /\ CR # EQUAL /\ CR # DQUOTE
  /\ CR # BACKSLASH /\ CR # COLON /\ CR \notin Blank /\ CR # LF /\ CR \notin Delimiter /\ CR \in Octet /\ LF \in Octet
  /\ LF \notin Tchar /\ LF \notin Text /\ LF # COLON /\ LF \notin Blank
BY DEF CR, LF, Hex, Digit, Tchar, Alnum, Upper, Lower, Text, Visible, Blank, SEMI, EQUAL, DQUOTE,
       BACKSLASH, COLON, HT, SP, STAR, DASH, DOT, USCORE, Delimiter, COMMA, SLASH, Octet

LEMMA ExtensionTable ==
  ASSUME NEW s \in 3..11, NEW o, NEW next, next = ExtensionShift(s, o)
  PROVE  \/ next = 0 /\ ~(s = 11 /\ o = LF) /\ ~(s = 3 /\ o = CR)
         \/ next \in 4..10 /\ o # CR /\ s # 11
         \/ next = 11 /\ o = CR /\ s # 11
         \/ next = 12 /\ o = LF /\ s = 11
BY CrLfClasses DEF ExtensionShift

LEMMA LastTable ==
  ASSUME NEW s \in {2} \cup 14..21, NEW o, NEW next, next = LastShift(s, o)
  PROVE  \/ next = 0 /\ ~(s = 21 /\ o = LF) /\ ~(s = 2 /\ o = CR)
         \/ next \in 14..20 /\ o # CR /\ s # 21
         \/ next = 21 /\ o = CR /\ s # 21
         \/ next = 22 /\ o = LF /\ s = 21
<1>1. PICK r \in 3..11 : r = IF s = 2 THEN 3 ELSE s - 10
  OBVIOUS
<1>2. PICK x : x = ExtensionShift(r, o)
  OBVIOUS
<1>3. next = IF x = 0 THEN 0 ELSE x + 10
  BY <1>1, <1>2, Zenon DEF LastShift
<1>4. \/ x = 0 /\ ~(r = 11 /\ o = LF) /\ ~(r = 3 /\ o = CR)
      \/ x \in 4..10 /\ o # CR /\ r # 11
      \/ x = 11 /\ o = CR /\ r # 11
      \/ x = 12 /\ o = LF /\ r = 11
  BY <1>2, ExtensionTable
<1> QED BY <1>1, <1>3, <1>4

SizeStates == 1..11 \cup 14..21

LEMMA SizeTable ==
  ASSUME NEW s \in SizeStates, NEW o, NEW next, next = ChunkShift(s, o)
  PROVE  \/ s \in 1..3 /\ o \in Hex /\ next = IF s # 3 /\ o = 48 THEN 2 ELSE 3
         \/ /\ ~(s \in 1..3 /\ o \in Hex)
            /\ \/ next = 0 /\ ~(s \in {11, 21} /\ o = LF) /\ ~(s \in {2, 3} /\ o = CR)
               \/ s \in 3..10 /\ next \in 4..10 /\ o # CR
               \/ s \in 3..10 /\ next = 11 /\ o = CR
               \/ s \in {2} \cup 14..20 /\ next \in 14..20 /\ o # CR
               \/ s \in {2} \cup 14..20 /\ next = 21 /\ o = CR
               \/ next = 12 /\ o = LF /\ s = 11
               \/ next = 22 /\ o = LF /\ s = 21
<1>1. 48 \in Hex
  BY DEF Hex, Digit
<1>2. CASE s \in 1..3 /\ o \in Hex
  <2>1. CASE s \in {1, 2} /\ o = 48
    <3>1. s \notin 4..11 /\ s # 3 /\ s # 12 /\ s # 13 /\ s \notin 14..21 /\ s \notin 22..27 /\ o \notin Hex \ {48}
      BY <2>1
    <3>2. next = 2
      BY <2>1, <3>1, <1>2, Zenon DEF ChunkShift
    <3> QED BY <1>2, <2>1, <3>2
  <2>2. CASE s \in {1, 2} /\ o # 48
    <3>1. s \notin 4..11 /\ s # 3 /\ s # 12 /\ s # 13 /\ s \notin 14..21 /\ s \notin 22..27 /\ o \in Hex \ {48}
      BY <1>2, <2>2
    <3>2. next = 3
      BY <2>2, <3>1, <1>2, Zenon DEF ChunkShift
    <3> QED BY <1>2, <2>2, <3>2
  <2>3. CASE s = 3
    <3>1. next = 3
      BY <1>2, <2>3 DEF ChunkShift
    <3> QED BY <1>2, <2>3, <3>1
  <2> QED BY <1>2, <2>1, <2>2, <2>3
<1>3. CASE ~(s \in 1..3 /\ o \in Hex)
  <2>1. CASE s = 1
    <3>1. next = 0
      BY <1>1, <1>3, <2>1 DEF ChunkShift
    <3> QED BY <1>3, <2>1, <3>1
  <2>2. CASE s \in 3..11
    <3>1. s \notin {1, 2} /\ s # 12 /\ s # 13 /\ s \notin 14..21 /\ s \notin 22..27
          /\ (s \in 4..11 \/ (s = 3 /\ o \notin Hex)) /\ ~(s = 3 /\ o \in Hex) /\ s # 2
      BY <1>3, <2>2
    <3>2. next = ExtensionShift(s, o)
      BY <3>1, Zenon DEF ChunkShift
    <3>3. \/ next = 0 /\ ~(s = 11 /\ o = LF) /\ ~(s = 3 /\ o = CR)
          \/ next \in 4..10 /\ o # CR /\ s # 11
          \/ next = 11 /\ o = CR /\ s # 11
          \/ next = 12 /\ o = LF /\ s = 11
      BY <2>2, <3>2, ExtensionTable
    <3> QED BY <1>3, <2>2, <3>3
  <2>3. CASE s \in {2} \cup 14..21
    <3>1. s # 1 /\ s # 12 /\ s # 13 /\ s # 3 /\ s \notin 4..11 /\ s \notin 22..27
          /\ (s \in 14..21 \/ (s = 2 /\ o \notin Hex)) /\ ~(s = 2 /\ o = 48)
      BY <1>1, <1>3, <2>3
    <3>2. next = LastShift(s, o)
      <4>1. CASE s = 2
        <5>1. o \notin Hex /\ o # 48 /\ o \notin Hex \ {48}
          BY <3>1, <4>1
        <5> QED BY <3>1, <4>1, <5>1, Zenon DEF ChunkShift
      <4>2. CASE s \in 14..21
        <5>1. s \notin {1, 2}
          BY <4>2
        <5> QED BY <3>1, <4>2, <5>1, Zenon DEF ChunkShift
      <4> QED BY <3>1, <4>1, <4>2
    <3>3. \/ next = 0 /\ ~(s = 21 /\ o = LF) /\ ~(s = 2 /\ o = CR)
          \/ next \in 14..20 /\ o # CR /\ s # 21
          \/ next = 21 /\ o = CR /\ s # 21
          \/ next = 22 /\ o = LF /\ s = 21
      BY <2>3, <3>2, LastTable
    <3> QED BY <1>3, <2>3, <3>3
  <2> QED BY <2>1, <2>2, <2>3 DEF SizeStates
<1> QED BY <1>2, <1>3

(* What ChunkPut makes of the fields. *)
SizePut(d, o, e, next, size) ==
  /\ next = 0 => e.next_state = 0
  /\ next = 3 /\ size < ChunkSizeLimit =>
       e.next_state = 3 /\ e.chunk_size = 16 * size + HexValue(o) /\ e.body = d.body
  /\ next = 3 /\ ~(size < ChunkSizeLimit) => e.next_state = 0
  /\ next \notin {0, 3} => e.next_state = next /\ e.chunk_size = size /\ e.body = d.body

LEMMA PutSize ==
  ASSUME NEW d \in ChunkRecords, d.next_state \in SizeStates, NEW o, NEW next,
         next = ChunkShift(d.next_state, o), NEW size, size = IF d.next_state = 1 THEN 0 ELSE d.chunk_size,
         NEW e, e = ChunkPut(d, o)
  PROVE  SizePut(d, o, e, next, size)
<1>1. d.next_state # 12 /\ d.next_state \in 1..27
  BY DEF SizeStates
<1>2. NextState(d, o) = next /\ ~IsData(d, o) /\ SizeSoFar(d) = size /\ ChunkPartial(d)
  BY <1>1 DEF NextState, IsData, SizeSoFar, SizeLeft, ChunkPartial
<1>3. CASE next = 0
  <2>1. e = ChunkAt(d, 0, SizeLeft(d))
    BY <1>2, <1>3, Zenon DEF ChunkPut
  <2> QED BY <1>3, <2>1 DEF ChunkAt, ChunkRecords, SizePut
<1>4. CASE next = 3
  <2>1. e = ChunkDigit(d, o, size)
    <3>1. next # 0
      BY <1>4
    <3> QED BY <1>2, <1>4, <3>1, Zenon DEF ChunkPut
  <2> QED BY <1>4, <2>1 DEF ChunkDigit, WithinLimit, ChunkAt, ChunkRecords, SizePut
<1>5. CASE next \notin {0, 3}
  <2>1. e = ChunkAt(d, next, size)
    BY <1>2, <1>5, Zenon DEF ChunkPut
  <2> QED BY <1>5, <2>1 DEF ChunkAt, ChunkRecords, SizePut
<1> QED BY <1>3, <1>4, <1>5, Zenon

-----------------------------------------------------------------------------
(* What a decoder that has not failed has read: whole chunks with body B   *)
(* up to p, and from there on a part of a chunk, by its state.             *)

(* A size line: the number of its digits up to q is n. *)
SizeState(s, t, p, q, n, size) ==
  \/ s = 1 /\ p = Len(t) + 1 /\ n = 0
  \/ s = 2 /\ p <= Len(t) /\ q = Len(t) + 1 /\ n = 0 /\ size = 0
  \/ s = 3 /\ p <= Len(t) /\ q = Len(t) + 1 /\ n # 0 /\ size = n
  \/ s \in 4..11 /\ q <= Len(t) /\ n # 0 /\ size = n
  \/ s \in 14..21 /\ q <= Len(t) /\ n = 0

OneCr(s, t, p) == \A j \in p..Len(t) : t[j] = CR <=> j = Len(t) /\ s \in {11, 21}

SizePart(t, d) ==
  \E p, q, n :
    /\ Through(t, p, d.body) /\ Digits(t, p, q, n)
    /\ SizeState(d.next_state, t, p, q, n, d.chunk_size) /\ OneCr(d.next_state, t, p)

(* The data: as many are left as the decoder has counted. *)
DataState(d, t, e, n, B) ==
  \/ d.next_state = 12 /\ d.chunk_size \in Nat /\ d.chunk_size = e + 1 + n - Len(t) /\ d.body = B \o SubSeq(t, e + 2, Len(t))
  \/ d.next_state = 13 /\ Len(t) = e + 2 + n /\ t[Len(t)] = CR /\ d.body = B \o SubSeq(t, e + 2, Len(t) - 1)

DataPart(t, d) ==
  \E p, B, e, n :
    /\ Through(t, p, B) /\ EndsLine(t, p, e) /\ n = SizeAt(t, p, e) /\ n # 0
    /\ DataState(d, t, e, n, B)

(* The trailer, from u on. *)
TrailerState(s, t, u) ==
  \/ s = 22 /\ Len(t) = u - 1
  \/ s = 27 /\ Len(t) = u /\ t[u] = CR
  \/ /\ u <= Len(t) /\ t[u] \in Tchar
     /\ \/ s \in {23, 24} /\ t[Len(t)] # LF
        \/ s = 25 /\ u < Len(t) /\ t[Len(t)] = CR /\ t[Len(t) - 1] # LF
        \/ s = 26 /\ u + 1 < Len(t) /\ t[Len(t)] = LF /\ t[Len(t) - 1] = CR /\ t[Len(t) - 2] # LF
        \/ s = 27 /\ u + 2 < Len(t) /\ t[Len(t)] = CR /\ t[Len(t) - 1] = LF /\ t[Len(t) - 2] = CR

TrailerPart(t, d) ==
  \E p, e :
    /\ Through(t, p, d.body) /\ EndsLine(t, p, e) /\ SizeAt(t, p, e) = 0
    /\ TrailerState(d.next_state, t, e + 2)

ChunkRead(t, d) == SizePart(t, d) \/ DataPart(t, d) \/ TrailerPart(t, d) \/ Overruns(t)

ChunkOver(t, d) ==
  \/ d.next_state = 0 /\ Refused(t)
  \/ d.next_state = 28 /\ Complete(t, d.body)

-----------------------------------------------------------------------------
LEMMA NoCr ==
  ASSUME NEW s, s \notin {11, 21}, NEW t, NEW p, \A j \in p..Len(t) : t[j] # CR PROVE OneCr(s, t, p)
BY Zenon DEF OneCr

LEMMA OfDigit == ASSUME NEW n \in Nat, NEW h \in 0..15 PROVE (16 * n + h) \div 16 = n
OBVIOUS

(* An octet of a size line: a digit. *)
LEMMA SizeDigit ==
  ASSUME NEW t, NEW p, NEW q, NEW n, NEW d \in ChunkRecords, NEW o \in Hex,
         Through(t, p, d.body), Digits(t, p, q, n),
         SizeState(d.next_state, t, p, q, n, d.chunk_size), OneCr(d.next_state, t, p),
         d.next_state \in 1..3, NEW e, e = ChunkPut(d, o), NEW u, u = Append(t, o)
  PROVE  ChunkRead(u, e) \/ ChunkOver(u, e)
<1>1. PICK s \in 1..3 : s = d.next_state
  OBVIOUS
<1>2. PICK next : next = ChunkShift(s, o)
  OBVIOUS
<1>3. next = IF s # 3 /\ o = 48 THEN 2 ELSE 3
  <2>1. s \in SizeStates
    BY DEF SizeStates
  <2> QED BY <1>2, <2>1, SizeTable
<1>4. PICK size : size = IF s = 1 THEN 0 ELSE d.chunk_size
  OBVIOUS
<1>5. size = n /\ q = Len(t) + 1 /\ n \in Nat /\ t \in Seq(Octet) /\ p \in 1..Len(t) + 1 /\ (s = 3 \/ n = 0)
  <2>1. n \in Nat /\ t \in Seq(Octet)
    BY DigitsNumber, Zenon
  <2>2. p \in 1..Len(t) + 1 /\ q \in p..Len(t) + 1
    BY DEF Digits
  <2>3. SizeState(s, t, p, q, n, d.chunk_size)
    BY <1>1
  <2>4. Len(t) \in Nat
    BY <2>1
  <2>5. CASE s = 1
    BY <1>4, <2>1, <2>2, <2>3, <2>4, <2>5 DEF SizeState
  <2>6. CASE s = 2
    BY <1>4, <2>1, <2>2, <2>3, <2>4, <2>6 DEF SizeState
  <2>7. CASE s = 3
    BY <1>4, <2>1, <2>2, <2>3, <2>4, <2>7 DEF SizeState
  <2> QED BY <2>5, <2>6, <2>7
<1>6. PICK m : m = 16 * n + HexValue(o)
  OBVIOUS
<1>7. m \in Nat /\ HexValue(o) \in 0..15 /\ (s # 3 /\ o = 48 => m = 0) /\ (next = 3 => m # 0) /\ m \div 16 = n
  <2>1. HexValue(o) \in 0..15 /\ (HexValue(o) = 0 <=> o = 48)
    BY HexValues DEF HexValue, Hex, Digit
  <2>2. s = 3 => n # 0
    BY <1>1 DEF SizeState
  <2>3. PICK h \in 0..15 : h = HexValue(o)
    BY <2>1
  <2>4. m = 16 * n + h /\ (16 * n + h) \div 16 = n
    BY <1>5, <1>6, <2>3, OfDigit
  <2> QED BY <1>3, <1>5, <2>1, <2>2, <2>3, <2>4
<1>8. Digits(u, p, q + 1, m)
  BY <1>5, <1>6, DigitsGrow
<1>9. o \in Octet /\ o # CR
  BY CrLfClasses DEF Hex, Digit, Octet
<1>10. u \in Seq(Octet) /\ Len(u) = Len(t) + 1 /\ u[Len(t) + 1] = o /\ \A j \in 1..Len(t) : u[j] = t[j]
  BY <1>5, <1>9
<1>11. Through(u, p, d.body)
  BY <1>9, ThroughStays
<1>12. \A j \in p..Len(u) : u[j] # CR
  <2> SUFFICES ASSUME NEW j \in p..Len(u) PROVE u[j] # CR
    OBVIOUS
  <2>1. CASE j = Len(t) + 1
    BY <1>9, <1>10, <2>1
  <2>2. CASE j \in p..Len(t)
    <3>1. u[j] = t[j]
      BY <1>5, <1>10, <2>2
    <3>2. s \notin {11, 21}
      OBVIOUS
    <3> QED BY <1>1, <2>2, <3>1, <3>2 DEF OneCr
  <2> QED BY <1>5, <1>10, <2>1, <2>2
<1>13. s \in SizeStates
  BY DEF SizeStates
<1>17. SizePut(d, o, e, next, size)
  <2>1. next = ChunkShift(d.next_state, o) /\ size = IF d.next_state = 1 THEN 0 ELSE d.chunk_size
    BY <1>1, <1>2, <1>4
  <2> QED BY <1>1, <1>13, <2>1, PutSize, Zenon
<1>14. CASE next = 2
  <2>1. e.next_state = 2 /\ e.chunk_size = 0 /\ e.body = d.body
    BY <1>3, <1>5, <1>14, <1>17 DEF SizePut
  <2>2. m = 0
    BY <1>3, <1>7, <1>14
  <2>3. SizeState(2, u, p, q + 1, m, 0)
    BY <1>5, <1>10, <2>2 DEF SizeState
  <2>4. OneCr(2, u, p)
    <3>1. 2 \notin {11, 21}
      OBVIOUS
    <3> QED BY <1>12, <3>1, NoCr, Zenon
  <2> QED BY <1>8, <1>11, <2>1, <2>3, <2>4, Zenon DEF ChunkRead, SizePart
<1>15. CASE next = 3 /\ size < ChunkSizeLimit
  <2>1. e.next_state = 3 /\ e.chunk_size = m /\ e.body = d.body
    BY <1>5, <1>6, <1>15, <1>17 DEF SizePut
  <2>2. SizeState(3, u, p, q + 1, m, m)
    BY <1>5, <1>7, <1>10, <1>15 DEF SizeState
  <2>3. OneCr(3, u, p)
    <3>1. 3 \notin {11, 21}
      OBVIOUS
    <3> QED BY <1>12, <3>1, NoCr, Zenon
  <2> QED BY <1>8, <1>11, <2>1, <2>2, <2>3, Zenon DEF ChunkRead, SizePart
<1>16. CASE next = 3 /\ ~(size < ChunkSizeLimit)
  <2>1. e.next_state = 0
    BY <1>16, <1>17 DEF SizePut
  <2>2. ~SizeLineBegun(From(u, p), ChunkSizeLimit)
    <3>1. q + 1 = Len(u) + 1 /\ p <= Len(u) /\ ~(m \div 16 < ChunkSizeLimit)
      BY <1>5, <1>7, <1>10, <1>16
    <3> QED BY <1>8, <3>1, SizeTooLarge
  <2>3. NoLineAt(u, p)
    BY <1>5, <1>10, <1>12 DEF NoLineAt
  <2>4. Refused(u)
    BY <1>11, <2>2, <2>3, HereNoLine
  <2> QED BY <2>1, <2>4 DEF ChunkOver
<1> QED BY <1>3, <1>14, <1>15, <1>16

-----------------------------------------------------------------------------
LEMMA NoLineYet ==
  ASSUME NEW s, NEW t \in Seq(Octet), NEW p \in 1..Len(t) + 1, OneCr(s, t, p), NEW o \in Octet,
         ~(s \in {11, 21} /\ o = LF), NEW u, u = Append(t, o)
  PROVE  NoLineAt(u, p)
<1> SUFFICES ASSUME NEW k \in p..Len(u) - 1, u[k] = CR, u[k + 1] = LF PROVE FALSE
  BY DEF NoLineAt
<1>1. Len(t) \in Nat /\ Len(u) = Len(t) + 1 /\ u[Len(t) + 1] = o /\ \A j \in 1..Len(t) : u[j] = t[j]
  OBVIOUS
<1>2. k \in p..Len(t) /\ u[k] = t[k]
  BY <1>1
<1>3. k = Len(t) /\ s \in {11, 21}
  BY <1>2, Zenon DEF OneCr
<1>4. o = LF
  BY <1>1, <1>3
<1> QED BY <1>3, <1>4

LEMMA LineNow ==
  ASSUME NEW s \in {11, 21}, NEW t \in Seq(Octet), NEW p \in 1..Len(t), OneCr(s, t, p),
         NEW u, u = Append(t, LF)
  PROVE  EndsLine(u, p, Len(t))
<1>1. LF \in Octet
  BY CrLfClasses
<1>2. Len(t) \in Nat /\ Len(u) = Len(t) + 1 /\ u[Len(t) + 1] = LF /\ \A j \in 1..Len(t) : u[j] = t[j]
  BY <1>1
<1>3. t[Len(t)] = CR
  <2>1. Len(t) \in p..Len(t)
    BY <1>2
  <2> QED BY <2>1, Zenon DEF OneCr
<1>4. ASSUME NEW k \in p..Len(t) - 1 PROVE u[k] # CR
  <2>1. k \in p..Len(t) /\ k # Len(t) /\ u[k] = t[k]
    BY <1>2
  <2> QED BY <2>1, Zenon DEF OneCr
<1> QED BY <1>2, <1>3, <1>4 DEF EndsLine

LEMMA CrStays ==
  ASSUME NEW s, s \notin {11, 21}, NEW t \in Seq(Octet), NEW p \in 1..Len(t) + 1, OneCr(s, t, p),
         NEW o \in Octet, NEW u, u = Append(t, o), NEW next, o = CR <=> next \in {11, 21}
  PROVE  OneCr(next, u, p)
<1>1. Len(t) \in Nat /\ Len(u) = Len(t) + 1 /\ u[Len(t) + 1] = o /\ \A j \in 1..Len(t) : u[j] = t[j]
  OBVIOUS
<1> SUFFICES ASSUME NEW j \in p..Len(u) PROVE u[j] = CR <=> j = Len(u) /\ next \in {11, 21}
  BY Zenon DEF OneCr
<1>2. CASE j = Len(u)
  BY <1>1, <1>2
<1>3. CASE j # Len(u)
  <2>1. j \in p..Len(t) /\ u[j] = t[j]
    BY <1>1, <1>3
  <2>2. t[j] # CR
    BY <2>1, Zenon DEF OneCr
  <2> QED BY <1>3, <2>1, <2>2
<1> QED BY <1>2, <1>3

(* What a state says of the digits, by cases. *)
LEMMA SizeStateOf ==
  ASSUME NEW s \in SizeStates, NEW t, NEW p, NEW q, NEW n, NEW size, SizeState(s, t, p, q, n, size),
         Len(t) \in Nat, p \in 1..Len(t) + 1, q \in p..Len(t) + 1
  PROVE  /\ s = 1 => p = Len(t) + 1 /\ q = Len(t) + 1
         /\ s \in {2, 3} => p <= Len(t) /\ q = Len(t) + 1
         /\ s \notin 1..3 => p <= Len(t) /\ q <= Len(t)
         /\ s \in 3..11 => n # 0 /\ size = n
         /\ s \in {2} \cup 14..21 => n = 0
<1>1. CASE s = 1
  BY <1>1 DEF SizeState
<1>2. CASE s = 2
  BY <1>2 DEF SizeState
<1>3. CASE s = 3
  BY <1>3 DEF SizeState
<1>4. CASE s \in 4..11
  BY <1>4 DEF SizeState
<1>5. CASE s \in 14..21
  BY <1>5 DEF SizeState
<1> QED BY <1>1, <1>2, <1>3, <1>4, <1>5 DEF SizeStates

LEMMA SizeOther ==
  ASSUME NEW t, NEW p, NEW q, NEW n, NEW d \in ChunkRecords, NEW o \in Octet,
         Through(t, p, d.body), Digits(t, p, q, n),
         SizeState(d.next_state, t, p, q, n, d.chunk_size), OneCr(d.next_state, t, p),
         d.next_state \in SizeStates, ~(d.next_state \in 1..3 /\ o \in Hex),
         NEW e, e = ChunkPut(d, o), NEW u, u = Append(t, o)
  PROVE  ChunkRead(u, e) \/ ChunkOver(u, e)
<1>1. PICK s \in SizeStates : s = d.next_state
  OBVIOUS
<1>2. PICK next : next = ChunkShift(s, o)
  OBVIOUS
<1>3. PICK size : size = IF s = 1 THEN 0 ELSE d.chunk_size
  OBVIOUS
<1>4. SizePut(d, o, e, next, size)
  <2>1. next = ChunkShift(d.next_state, o) /\ size = IF d.next_state = 1 THEN 0 ELSE d.chunk_size
    BY <1>1, <1>2, <1>3
  <2> QED BY <1>1, <2>1, PutSize, Zenon
<1>5. n \in Nat /\ t \in Seq(Octet) /\ Len(t) \in Nat
  <2>1. n \in Nat /\ t \in Seq(Octet)
    BY DigitsNumber, Zenon
  <2> QED BY <2>1
<1>6. p \in 1..Len(t) + 1 /\ q \in p..Len(t) + 1
  BY DEF Digits
<1>7. /\ s = 1 => p = Len(t) + 1 /\ q = Len(t) + 1
      /\ s \in {2, 3} => p <= Len(t) /\ q = Len(t) + 1
      /\ s \notin 1..3 => p <= Len(t) /\ q <= Len(t)
      /\ s \in 3..11 => n # 0 /\ d.chunk_size = n
      /\ s \in {2} \cup 14..21 => n = 0
  <2>1. SizeState(s, t, p, q, n, d.chunk_size)
    BY <1>1
  <2> QED BY <1>5, <1>6, <2>1, SizeStateOf, Zenon
<1>8. \/ next = 0 /\ ~(s \in {11, 21} /\ o = LF) /\ ~(s \in {2, 3} /\ o = CR)
      \/ s \in 3..10 /\ next \in 4..10 /\ o # CR
      \/ s \in 3..10 /\ next = 11 /\ o = CR
      \/ s \in {2} \cup 14..20 /\ next \in 14..20 /\ o # CR
      \/ s \in {2} \cup 14..20 /\ next = 21 /\ o = CR
      \/ next = 12 /\ o = LF /\ s = 11
      \/ next = 22 /\ o = LF /\ s = 21
  <2>1. ~(s \in 1..3 /\ o \in Hex)
    BY <1>1
  <2> QED BY <1>2, <2>1, SizeTable
<1>9. u \in Seq(Octet) /\ Len(u) = Len(t) + 1 /\ u[Len(t) + 1] = o
  BY <1>5
<1>10. Through(u, p, d.body)
  BY ThroughStays
<1>11. Digits(u, p, q, n)
  <2>1. q <= Len(t) \/ o \notin Hex
    BY <1>1, <1>7
  <2> QED BY <2>1, DigitsStay
<1>12. OneCr(s, t, p)
  BY <1>1
<1>13. CASE next = 0
  <2>1. e.next_state = 0
    BY <1>4, <1>13 DEF SizePut
  <2>2. NoLineAt(u, p)
    <3>1. ~(s \in {11, 21} /\ o = LF)
      BY <1>8, <1>13
    <3> QED BY <1>5, <1>6, <1>12, <3>1, NoLineYet, Zenon
  <2>3. ~SizeLineBegun(From(u, p), ChunkSizeLimit)
    <3>1. CASE s = 1
      <4>1. p = Len(u) /\ u # << >> /\ u[p] \notin Hex
        <5>1. o \notin Hex
          BY <1>1, <3>1
        <5>2. u # << >>
          BY <1>5, <1>9
        <5> QED BY <1>7, <1>9, <3>1, <5>1, <5>2
      <4> QED BY <1>9, <4>1, LoneOctet
    <3>2. CASE s # 1
      <4>1. q < Len(u) \/ (q = Len(u) /\ u[q] # CR)
        <5>1. CASE s \in {2, 3}
          BY <1>5, <1>7, <1>8, <1>9, <1>13, <5>1
        <5>2. CASE s \notin 1..3
          BY <1>5, <1>6, <1>7, <1>9, <5>2
        <5> QED BY <3>2, <5>1, <5>2 DEF SizeStates
      <4> QED BY <1>11, <4>1, NotBegun
    <3> QED BY <3>1, <3>2
  <2>4. Refused(u)
    BY <1>10, <2>2, <2>3, HereNoLine
  <2> QED BY <2>1, <2>4 DEF ChunkOver
<1>14. CASE next \in 4..11 \cup 14..21
  <2>1. e.next_state = next /\ e.chunk_size = size /\ e.body = d.body
    BY <1>4, <1>14 DEF SizePut
  <2>2. s \notin {1, 11, 21} /\ (next \in 4..11 => s \in 3..10) /\ (next \in 14..21 => s \in {2} \cup 14..20)
        /\ (o = CR <=> next \in {11, 21})
    BY <1>8, <1>14
  <2>3. OneCr(next, u, p)
    <3>1. s \notin {11, 21}
      BY <2>2
    <3> QED BY <1>5, <1>6, <1>12, <2>2, <3>1, CrStays, Zenon
  <2>4. q <= Len(u)
    BY <1>5, <1>6, <1>9
  <2>5. SizeState(next, u, p, q, n, size)
    <3>1. CASE next \in 4..11
      BY <1>3, <1>7, <2>2, <2>4, <3>1 DEF SizeState
    <3>2. CASE next \in 14..21
      BY <1>7, <2>2, <2>4, <3>2 DEF SizeState
    <3> QED BY <1>14, <3>1, <3>2
  <2> QED BY <1>10, <1>11, <2>1, <2>3, <2>5, Zenon DEF ChunkRead, SizePart
<1>15. CASE next \in {12, 22}
  <2>1. e.next_state = next /\ e.chunk_size = size /\ e.body = d.body
    BY <1>4, <1>15 DEF SizePut
  <2>2. s \in {11, 21} /\ o = LF /\ (next = 12 => s = 11) /\ (next = 22 => s = 21)
    BY <1>8, <1>15
  <2>3. p \in 1..Len(t) /\ q <= Len(t)
    BY <1>5, <1>6, <1>7, <2>2
  <2>4. EndsLine(u, p, Len(t))
    BY <1>5, <1>12, <2>2, <2>3, LineNow
  <2>5. SizeAt(u, p, Len(t)) = n
    BY <1>11, <2>3, <2>4, DigitsSize
  <2>6. CASE next = 12
    <3>1. n # 0 /\ size = n
      BY <1>3, <1>7, <2>2, <2>6
    <3>2. d.body \in Seq(Octet) /\ d.body \o SubSeq(u, Len(t) + 2, Len(u)) = d.body
      <4>1. d.body \in Seq(Octet)
        BY <1>10, ThroughHere
      <4>2. SubSeq(u, Len(t) + 2, Len(u)) = << >>
        BY <1>5, <1>9
      <4> QED BY <4>1, <4>2
    <3>3. DataState(e, u, Len(t), n, d.body)
      BY <1>5, <1>9, <2>1, <2>6, <3>1, <3>2 DEF DataState
    <3>4. DataPart(u, e)
      BY <1>10, <2>4, <2>5, <3>1, <3>3, Zenon DEF DataPart
    <3> QED BY <3>4 DEF ChunkRead
  <2>7. CASE next = 22
    <3>1. n = 0
      BY <1>7, <2>2, <2>7
    <3>2. TrailerState(22, u, Len(t) + 2)
      BY <1>5, <1>9 DEF TrailerState
    <3>3. TrailerPart(u, e)
      BY <1>10, <2>1, <2>4, <2>5, <2>7, <3>1, <3>2, Zenon DEF TrailerPart
    <3> QED BY <3>3 DEF ChunkRead
  <2> QED BY <1>15, <2>6, <2>7
<1> QED BY <1>8, <1>13, <1>14, <1>15

-----------------------------------------------------------------------------
LEMMA ReadMore ==
  ASSUME NEW t \in Texts, NEW o \in Octet
  PROVE  Append(t, o) \in Texts /\ Extends(Append(t, o), t)
<1>1. Append(t, o) \in Texts
  BY DEF Texts
<1> QED BY <1>1, ExtendsItself, ExtendsMore

(* What ChunkPut makes of the fields in the data of a chunk. *)
DataPut(d, o, e) ==
  /\ d.next_state = 12 /\ d.chunk_size \in Nat \ {0} =>
       e.next_state = 12 /\ e.chunk_size = d.chunk_size - 1 /\ e.body = Append(d.body, o)
  /\ d.next_state = 12 /\ d.chunk_size = 0 /\ o = CR => e.next_state = 13 /\ e.body = d.body
  /\ d.next_state = 13 /\ o = LF => e.next_state = 1 /\ e.body = d.body

LEMMA PutData ==
  ASSUME NEW d \in ChunkRecords, NEW o, NEW e, e = ChunkPut(d, o)
  PROVE  DataPut(d, o, e)
<1>1. CASE d.next_state = 12 /\ d.chunk_size \in Nat \ {0}
  <2>1. SizeLeft(d) = d.chunk_size - 1 /\ ChunkPartial(d)
    BY <1>1 DEF SizeLeft, ChunkPartial
  <2>2. IsData(d, o)
    BY <1>1, <2>1 DEF IsData
  <2>3. NextState(d, o) = 12
    BY <2>2 DEF NextState
  <2>4. NextState(d, o) # 0 /\ NextState(d, o) # 3
    BY <2>3
  <2>5. e = ChunkData(d, o, SizeLeft(d))
    BY <2>1, <2>2, <2>4, Zenon DEF ChunkPut
  <2> QED BY <1>1, <2>1, <2>5 DEF ChunkData, ChunkRecords, DataPut
<1>2. CASE d.next_state = 12 /\ d.chunk_size = 0 /\ o = CR
  <2>1. SizeLeft(d) = -1 /\ ChunkPartial(d)
    BY <1>2 DEF SizeLeft, ChunkPartial
  <2>2. ~IsData(d, o)
    BY <1>2, <2>1, CrLfClasses DEF IsData
  <2>3. ChunkShift(12, CR) = 13
    BY CrLfClasses DEF ChunkShift
  <2>4. NextState(d, o) = 13
    BY <1>2, <2>2, <2>3 DEF NextState
  <2>5. NextState(d, o) # 0 /\ NextState(d, o) # 3
    BY <2>4
  <2>6. e = ChunkAt(d, NextState(d, o), SizeSoFar(d))
    BY <2>1, <2>2, <2>5, Zenon DEF ChunkPut
  <2>7. e.next_state = 13 /\ e.body = d.body
    BY <2>4, <2>6 DEF ChunkAt, ChunkRecords
  <2> QED BY <1>2, <2>7 DEF DataPut
<1>3. CASE d.next_state = 13 /\ o = LF
  <2>1. ChunkPartial(d)
    BY <1>3 DEF ChunkPartial
  <2>2. ~IsData(d, o)
    BY <1>3 DEF IsData
  <2>3. ChunkShift(13, LF) = 1
    BY CrLfClasses DEF ChunkShift
  <2>4. NextState(d, o) = 1
    BY <1>3, <2>2, <2>3 DEF NextState
  <2>5. NextState(d, o) # 0 /\ NextState(d, o) # 3
    BY <2>4
  <2>6. e = ChunkAt(d, NextState(d, o), SizeSoFar(d))
    BY <2>1, <2>2, <2>5, Zenon DEF ChunkPut
  <2>7. e.next_state = 1 /\ e.body = d.body
    BY <2>4, <2>6 DEF ChunkAt, ChunkRecords
  <2> QED BY <1>3, <2>7 DEF DataPut
<1> QED BY <1>1, <1>2, <1>3 DEF DataPut

LEMMA DataSteps ==
  ASSUME NEW t, NEW p, NEW B, NEW a, NEW n, NEW d \in ChunkRecords, NEW o \in Octet,
         Through(t, p, B), EndsLine(t, p, a), n = SizeAt(t, p, a), n # 0, DataState(d, t, a, n, B),
         NEW e, e = ChunkPut(d, o), NEW u, u = Append(t, o)
  PROVE  ChunkRead(u, e) \/ ChunkOver(u, e)
<1>1. t \in Texts /\ t \in Seq(Octet) /\ Len(t) \in Nat /\ p \in Nat \ {0} /\ B \in Seq(Octet)
  BY DEF Through, Texts
<1>2. u \in Texts /\ Extends(u, t)
  BY <1>1, ReadMore
<1>3. u \in Seq(Octet) /\ Len(u) = Len(t) + 1 /\ u[Len(t) + 1] = o /\ \A j \in 1..Len(t) : u[j] = t[j]
  BY <1>1
<1>4. EndsLine(u, p, a) /\ SizeAt(u, p, a) = n /\ n \in Nat
  BY <1>1, <1>2, LineEndKept
<1>5. a \in Nat \ {0} /\ a + 1 <= Len(t)
  BY <1>1 DEF EndsLine
<1>6. Through(u, p, B)
  BY ThroughStays
<1>7. DataPut(d, o, e)
  BY PutData
<1>8. CASE d.next_state = 12
  <2>1. d.chunk_size \in Nat /\ d.chunk_size = a + 1 + n - Len(t) /\ d.body = B \o SubSeq(t, a + 2, Len(t))
    <3>1. d.next_state # 13
      BY <1>8
    <3> QED BY <3>1, Zenon DEF DataState
  <2>5. d.chunk_size = a + 1 + n - Len(t) /\ d.chunk_size \in Nat
    BY <2>1
  <2>2. CASE d.chunk_size # 0
    <3>1. e.next_state = 12 /\ e.chunk_size = d.chunk_size - 1 /\ e.body = Append(d.body, o)
      BY <1>7, <1>8, <2>1, <2>2 DEF DataPut
    <3>2. PICK D \in Seq(Octet) : D = SubSeq(t, a + 2, Len(t))
      <4>1. a + 2 \in Nat \ {0} /\ Len(t) \in 0..Len(t)
        BY <1>1, <1>5
      <4> QED BY <1>2, <4>1, PieceKept DEF Texts
    <3>3. SubSeq(u, a + 2, Len(u)) = Append(D, o)
      <4>1. a + 2 \in 1..Len(t) + 1 /\ (Len(t) + 1) - 1 = Len(t)
        BY <1>1, <1>5
      <4>2. SubSeq(u, a + 2, Len(t) + 1) = Append(SubSeq(t, a + 2, (Len(t) + 1) - 1), o)
        BY <1>1, <4>1, PieceGrows
      <4> QED BY <1>3, <3>2, <4>1, <4>2
    <3>4. e.body = B \o SubSeq(u, a + 2, Len(u))
      BY <1>1, <2>1, <3>1, <3>2, <3>3, AppendCat
    <3>5. e.chunk_size \in Nat /\ e.chunk_size = a + 1 + n - Len(u)
      BY <1>1, <1>3, <1>4, <1>5, <2>5, <2>2, <3>1
    <3>6. DataState(e, u, a, n, B)
      BY <3>1, <3>4, <3>5 DEF DataState
    <3>7. DataPart(u, e)
      BY <1>4, <1>6, <3>6, Zenon DEF DataPart
    <3> QED BY <3>7 DEF ChunkRead
  <2>3. CASE d.chunk_size = 0 /\ o = CR
    <3>1. e.next_state = 13 /\ e.body = d.body
      BY <1>7, <1>8, <2>3 DEF DataPut
    <3>2. Len(u) = a + 2 + n /\ u[Len(u)] = CR /\ Len(u) - 1 = Len(t)
      <4>1. n \in Nat /\ Len(u) = Len(t) + 1 /\ u[Len(u)] = o
        BY <1>3, <1>4
      <4>2. a + 1 + n - Len(t) = 0
        BY <2>3, <2>5
      <4>3. \A l, b, m \in Nat : b + 1 + m - l = 0 => l + 1 = b + 2 + m /\ l + 1 - 1 = l
        OBVIOUS
      <4>4. Len(t) + 1 = a + 2 + n /\ Len(t) + 1 - 1 = Len(t)
        <5>1. a \in Nat /\ n \in Nat /\ Len(t) \in Nat
          BY <1>1, <1>5, <4>1
        <5> QED BY <4>2, <4>3, <5>1
      <4>5. Len(u) \in Nat /\ Len(u) = a + 2 + n /\ Len(u) - 1 = Len(t)
        BY <1>1, <4>1, <4>4
      <4> QED BY <2>3, <4>1, <4>5
    <3>3. SubSeq(u, a + 2, Len(t)) = SubSeq(t, a + 2, Len(t))
      <4>1. a + 2 \in Nat \ {0} /\ Len(t) \in 0..Len(t)
        BY <1>1, <1>5
      <4> QED BY <1>2, <4>1, PieceKept
    <3>4. e.body = B \o SubSeq(u, a + 2, Len(u) - 1)
      BY <2>1, <3>1, <3>2, <3>3
    <3>5. DataState(e, u, a, n, B)
      BY <3>1, <3>2, <3>4 DEF DataState
    <3>6. DataPart(u, e)
      BY <1>4, <1>6, <3>5, Zenon DEF DataPart
    <3> QED BY <3>6 DEF ChunkRead
  <2>4. CASE d.chunk_size = 0 /\ o # CR
    <3>1. Len(u) = a + 2 + n /\ u[Len(u)] # CR /\ Len(u) <= Len(u)
      <4>1. n \in Nat /\ Len(u) = Len(t) + 1 /\ u[Len(u)] = o
        BY <1>3, <1>4
      <4>2. a + 1 + n - Len(t) = 0
        BY <2>4, <2>5
      <4>3. \A l, b, m \in Nat : b + 1 + m - l = 0 => l + 1 = b + 2 + m /\ l + 1 - 1 = l
        OBVIOUS
      <4>4. Len(t) + 1 = a + 2 + n /\ Len(t) + 1 - 1 = Len(t)
        <5>1. a \in Nat /\ n \in Nat /\ Len(t) \in Nat
          BY <1>1, <1>5, <4>1
        <5> QED BY <4>2, <4>3, <5>1
      <4>5. Len(u) \in Nat /\ Len(u) = a + 2 + n /\ Len(u) - 1 = Len(t)
        BY <1>1, <4>1, <4>4
      <4> QED BY <2>4, <4>1, <4>5
    <3>2. Overruns(u)
      BY <1>4, <1>6, <3>1, OverrunFound
    <3> QED BY <3>2 DEF ChunkRead
  <2> QED BY <2>2, <2>3, <2>4
<1>9. CASE d.next_state = 13
  <2>1. Len(t) = a + 2 + n /\ t[Len(t)] = CR /\ d.body = B \o SubSeq(t, a + 2, Len(t) - 1)
    <3>1. d.next_state # 12
      BY <1>9
    <3> QED BY <3>1, Zenon DEF DataState
  <2>2. PICK next : next = a + 2 + n
    OBVIOUS
  <2>3. next = Len(t) /\ next + 1 = Len(u) /\ u[next] = CR /\ u[next + 1] = o /\ next <= Len(u) /\ next < Len(u)
    BY <1>1, <1>3, <1>5, <2>1, <2>2
  <2>4. CASE o = LF
    <3>1. e.next_state = 1 /\ e.body = d.body
      BY <1>7, <1>9, <2>4 DEF DataPut
    <3>2. Through(u, next + 2, B \o SubSeq(u, a + 2, next - 1))
      BY <1>4, <1>6, <2>2, <2>3, <2>4, ThroughNext
    <3>3. SubSeq(u, a + 2, next - 1) = SubSeq(t, a + 2, Len(t) - 1)
      <4>1. a + 2 \in Nat \ {0} /\ next - 1 \in 0..Len(t) /\ next - 1 = Len(t) - 1
        BY <1>1, <1>5, <2>3
      <4> QED BY <1>2, <4>1, PieceKept
    <3>4. Through(u, next + 2, e.body)
      BY <2>1, <3>1, <3>2, <3>3
    <3>5. next + 2 = Len(u) + 1
      BY <1>3, <1>1, <2>3
    <3>6. Digits(u, next + 2, next + 2, 0)
      BY <1>2, <3>5, DigitsNone
    <3>7. SizeState(1, u, next + 2, next + 2, 0, e.chunk_size)
      BY <3>5 DEF SizeState
    <3>8. OneCr(1, u, next + 2)
      BY <1>1, <1>3, <3>5 DEF OneCr
    <3>9. SizePart(u, e)
      BY <3>1, <3>4, <3>6, <3>7, <3>8, Zenon DEF SizePart
    <3> QED BY <3>9 DEF ChunkRead
  <2>5. CASE o # LF
    <3>1. Overruns(u)
      BY <1>4, <1>6, <2>2, <2>3, <2>5, OverrunFound
    <3> QED BY <3>1 DEF ChunkRead
  <2> QED BY <2>4, <2>5
<1> QED BY <1>8, <1>9 DEF DataState

-----------------------------------------------------------------------------
(* The trailer: the empty line that ends it may be all of it. *)
TrailerEnds(t, u) ==
  \/ Len(t) = u + 1 /\ t[u] = CR /\ t[u + 1] = LF
  \/ /\ u + 3 < Len(t)
     /\ t[Len(t) - 3] = CR /\ t[Len(t) - 2] = LF /\ t[Len(t) - 1] = CR /\ t[Len(t)] = LF

NotBare(t, u) == u <= Len(t) /\ (t[u] # CR \/ (u < Len(t) /\ t[u + 1] # LF))

LEMMA TrailerTable ==
  ASSUME NEW s \in 22..27, NEW o, NEW next, next = TrailerShift(s, o)
  PROVE  \/ next = 0 /\ ~(s = 22 /\ o = CR) /\ ~(s = 27 /\ o = LF)
         \/ next = 23 /\ o \in Tchar /\ s \in {22, 23, 26}
         \/ next = 27 /\ o = CR /\ s \in {22, 26}
         \/ next = 24 /\ o # LF /\ s \in {23, 24, 26}
         \/ next = 25 /\ o = CR /\ s = 24
         \/ next = 26 /\ o = LF /\ s = 25
         \/ next = 28 /\ o = LF /\ s = 27
BY CrLfClasses DEF TrailerShift

TrailerMoved(next, u, a) ==
  \/ next = 0 /\ NotBare(u, a)
  \/ next = 28 /\ TrailerEnds(u, a)
  \/ next \in 22..27 /\ TrailerState(next, u, a)

LEMMA TrailerMoves ==
  ASSUME NEW s, NEW t \in Seq(Octet), NEW a \in 1..Len(t) + 1, TrailerState(s, t, a), NEW o \in Octet,
         NEW next, next = TrailerShift(s, o), NEW u, u = Append(t, o)
  PROVE  TrailerMoved(next, u, a)
<1>1. PICK l \in Nat : l = Len(t)
  OBVIOUS
<1>2. Len(u) = l + 1 /\ u[l + 1] = o /\ \A j \in 1..l : u[j] = t[j]
  BY <1>1
<1>3. a \in 1..l + 1
  BY <1>1
<1>4. s \in 22..27
  BY DEF TrailerState
<1>16. \/ next = 0 /\ ~(s = 22 /\ o = CR) /\ ~(s = 27 /\ o = LF)
       \/ next = 23 /\ o \in Tchar /\ s \in {22, 23, 26}
       \/ next = 27 /\ o = CR /\ s \in {22, 26}
       \/ next = 24 /\ o # LF /\ s \in {23, 24, 26}
       \/ next = 25 /\ o = CR /\ s = 24
       \/ next = 26 /\ o = LF /\ s = 25
       \/ next = 28 /\ o = LF /\ s = 27
  BY <1>4, TrailerTable
<1>5. PICK x : x = u[a]
  OBVIOUS
<1>6. s = 22 => l = a - 1 /\ x = o
  BY <1>1, <1>2, <1>3, <1>5 DEF TrailerState
<1>7. s # 22 => a <= l /\ x = t[a]
  <2>1. s # 22 => a <= l
    BY <1>1, <1>3 DEF TrailerState
  <2> QED BY <1>2, <1>3, <1>5, <2>1
<1>8. s = 27 => (a = l /\ x = CR) \/ (a + 2 < l /\ x \in Tchar /\ t[l] = CR /\ t[l - 1] = LF /\ t[l - 2] = CR)
  BY <1>1, <1>7 DEF TrailerState
<1>9. s \in {23, 24} => x \in Tchar /\ t[l] # LF
  BY <1>1, <1>7 DEF TrailerState
<1>10. s = 25 => x \in Tchar /\ a < l /\ t[l] = CR /\ t[l - 1] # LF
  BY <1>1, <1>7 DEF TrailerState
<1>11. s = 26 => x \in Tchar /\ a + 1 < l /\ t[l] = LF /\ t[l - 1] = CR /\ t[l - 2] # LF
  BY <1>1, <1>7 DEF TrailerState
<1>12. CASE next = 0
  <2>1. ~(s = 22 /\ o = CR) /\ ~(s = 27 /\ o = LF)
    BY <1>4, <1>12, <1>16
  <2>2. x # CR \/ (a = l /\ o # LF)
    BY <1>4, <1>6, <1>8, <1>9, <1>10, <1>11, <2>1, CrLfClasses
  <2>3. NotBare(u, a)
    BY <1>1, <1>2, <1>3, <1>5, <2>2 DEF NotBare
  <2> QED BY <1>12, <2>3 DEF TrailerMoved
<1>13. CASE next = 28
  <2>1. s = 27 /\ o = LF
    BY <1>4, <1>13, <1>16
  <2>2. TrailerEnds(u, a)
    BY <1>1, <1>2, <1>3, <1>5, <1>8, <2>1 DEF TrailerEnds
  <2> QED BY <1>13, <2>2 DEF TrailerMoved
<1>14. CASE next = 27
  <2>1. o = CR /\ s \in {22, 26}
    BY <1>4, <1>14, <1>16
  <2>2. TrailerState(27, u, a)
    <3>1. CASE s = 22
      BY <1>1, <1>2, <1>3, <1>6, <2>1, <3>1 DEF TrailerState
    <3>2. CASE s = 26
      BY <1>1, <1>2, <1>3, <1>5, <1>11, <2>1, <3>2 DEF TrailerState
    <3> QED BY <2>1, <3>1, <3>2
  <2> QED BY <1>14, <2>2 DEF TrailerMoved
<1>15. CASE next \in 23..26
  <2>1. x \in Tchar /\ a <= l + 1
    BY <1>3, <1>4, <1>6, <1>9, <1>10, <1>11, <1>15, <1>16
  <2>2. CASE next \in {23, 24}
    <3>1. o # LF
      BY <1>4, <2>2, <1>16, CrLfClasses
    <3>2. TrailerState(next, u, a)
      BY <1>2, <1>3, <1>5, <2>1, <2>2, <3>1 DEF TrailerState
    <3> QED BY <2>2, <3>2 DEF TrailerMoved
  <2>3. CASE next = 25
    <3>1. o = CR /\ s = 24
      BY <1>4, <2>3, <1>16
    <3>2. TrailerState(25, u, a)
      BY <1>2, <1>3, <1>5, <1>7, <1>9, <2>1, <3>1 DEF TrailerState
    <3> QED BY <2>3, <3>2 DEF TrailerMoved
  <2>4. CASE next = 26
    <3>1. o = LF /\ s = 25
      BY <1>4, <2>4, <1>16
    <3>2. TrailerState(26, u, a)
      BY <1>2, <1>3, <1>5, <1>10, <2>1, <3>1 DEF TrailerState
    <3> QED BY <2>4, <3>2 DEF TrailerMoved
  <2> QED BY <1>15, <2>2, <2>3, <2>4
<1> QED BY <1>12, <1>13, <1>14, <1>15, <1>16

-----------------------------------------------------------------------------
(* The same of the text from there on. *)
LEMMA TrailerText ==
  ASSUME NEW t \in Seq(Octet), NEW a \in 1..Len(t), NEW w, w = From(t, a)
  PROVE  /\ EndsTrailer(w) <=> TrailerEnds(t, a)
         /\ NotBare(t, a) => w \notin {<< >>, <<CR>>, <<CR, LF>>}
<1>1. PICK l \in Nat : l = Len(t)
  OBVIOUS
<1>2. PICK m : m = l - a + 1
  OBVIOUS
<1>3. /\ w \in Seq(Octet) /\ Len(w) = m /\ m \in Nat /\ m >= 1
      /\ \A k \in 1..m : w[k] = t[a + k - 1]
  <2>1. /\ From(t, a) \in Seq(Octet) /\ Len(From(t, a)) = Len(t) - a + 1
        /\ \A k \in 1..Len(t) - a + 1 : From(t, a)[k] = t[a + k - 1]
    BY FromAt
  <2>2. m = Len(t) - a + 1 /\ m \in Nat /\ m >= 1
    BY <1>1, <1>2
  <2> QED BY <2>1, <2>2
<1>4. w = <<CR, LF>> <=> Len(t) = a + 1 /\ t[a] = CR /\ t[a + 1] = LF
  <2>1. ASSUME w = <<CR, LF>> PROVE Len(t) = a + 1 /\ t[a] = CR /\ t[a + 1] = LF
    <3>1. Len(w) = 2 /\ w[1] = CR /\ w[2] = LF
      BY <2>1
    <3>2. m = 2 /\ 1 \in 1..m /\ 2 \in 1..m /\ a + 1 - 1 = a /\ a + 2 - 1 = a + 1
      BY <1>3, <3>1
    <3> QED BY <1>1, <1>2, <1>3, <3>1, <3>2
  <2>2. ASSUME Len(t) = a + 1, t[a] = CR, t[a + 1] = LF PROVE w = <<CR, LF>>
    <3>1. m = 2 /\ 1 \in 1..m /\ 2 \in 1..m /\ a + 1 - 1 = a /\ a + 2 - 1 = a + 1
      BY <1>1, <1>2, <2>2
    <3>2. Len(w) = 2 /\ w[1] = CR /\ w[2] = LF
      BY <1>3, <2>2, <3>1
    <3>3. PICK x : x = <<CR, LF>>
      OBVIOUS
    <3>4. x \in Seq(Octet) /\ Len(x) = 2 /\ x[1] = CR /\ x[2] = LF
      BY <3>3, CrLfClasses
    <3>5. \A k \in 1..2 : w[k] = x[k]
      BY <3>2, <3>4
    <3> QED BY <1>3, <3>2, <3>3, <3>4, <3>5, SeqEqual
  <2> QED BY <2>1, <2>2
<1>5. ASSUME m > 4
      PROVE  From(w, m - 3) = <<CR, LF, CR, LF>> <=>
             t[l - 3] = CR /\ t[l - 2] = LF /\ t[l - 1] = CR /\ t[l] = LF
  <2>1. /\ w[m - 3] = t[l - 3] /\ w[m - 2] = t[l - 2] /\ w[m - 1] = t[l - 1] /\ w[m] = t[l]
        /\ m - 3 \in 1..Len(w)
    <3>1. m - 3 \in 1..m /\ m - 2 \in 1..m /\ m - 1 \in 1..m /\ m \in 1..m
      BY <1>3, <1>5
    <3>2. /\ a + (m - 3) - 1 = l - 3 /\ a + (m - 2) - 1 = l - 2
          /\ a + (m - 1) - 1 = l - 1 /\ a + m - 1 = l
      BY <1>1, <1>2
    <3> QED BY <1>3, <3>1, <3>2
  <2>2. PICK y : y = From(w, m - 3)
    OBVIOUS
  <2>3. y \in Seq(Octet) /\ Len(y) = 4 /\ \A k \in 1..4 : y[k] = w[(m - 3) + k - 1]
    <3>1. Len(w) - (m - 3) + 1 = 4
      BY <1>3
    <3> QED BY <1>3, <2>1, <2>2, <3>1, FromAt
  <2>4. y[1] = t[l - 3] /\ y[2] = t[l - 2] /\ y[3] = t[l - 1] /\ y[4] = t[l]
    <3>1. (m - 3) + 1 - 1 = m - 3 /\ (m - 3) + 2 - 1 = m - 2 /\ (m - 3) + 3 - 1 = m - 1 /\ (m - 3) + 4 - 1 = m
      BY <1>3
    <3>2. y[1] = w[m - 3] /\ y[2] = w[m - 2] /\ y[3] = w[m - 1] /\ y[4] = w[m]
      BY <2>3, <3>1
    <3> QED BY <2>1, <3>2
  <2>5. PICK x : x = <<CR, LF, CR, LF>>
    OBVIOUS
  <2>6. x \in Seq(Octet) /\ Len(x) = 4 /\ x[1] = CR /\ x[2] = LF /\ x[3] = CR /\ x[4] = LF
    BY <2>5, CrLfClasses
  <2>7. ASSUME y[1] = CR, y[2] = LF, y[3] = CR, y[4] = LF PROVE y = x
    <3>1. \A k \in 1..4 : y[k] = x[k]
      BY <2>6, <2>7
    <3> QED BY <2>3, <2>6, <3>1, SeqEqual
  <2> QED BY <2>2, <2>4, <2>5, <2>6, <2>7
<1>6. m > 4 <=> a + 3 < Len(t)
  BY <1>1, <1>2
<1>7. EndsTrailer(w) <=> TrailerEnds(t, a)
  BY <1>1, <1>3, <1>4, <1>5, <1>6 DEF EndsTrailer, TrailerEnds
<1>8. ASSUME NotBare(t, a) PROVE w \notin {<< >>, <<CR>>, <<CR, LF>>}
  <2>1. w[1] = t[a] /\ (a < Len(t) => m > 1 /\ w[2] = t[a + 1])
    BY <1>1, <1>2, <1>3
  <2>2. w # << >>
    BY <1>3
  <2>3. w # <<CR>>
    <3>1. ASSUME w = <<CR>> PROVE m = 1 /\ w[1] = CR
      BY <1>3, <3>1
    <3> QED BY <1>1, <1>8, <2>1, <3>1 DEF NotBare
  <2>4. w # <<CR, LF>>
    <3>1. ASSUME w = <<CR, LF>> PROVE w[1] = CR /\ w[2] = LF
      BY <3>1
    <3> QED BY <1>1, <1>8, <2>1, <3>1 DEF NotBare
  <2> QED BY <2>2, <2>3, <2>4
<1> QED BY <1>7, <1>8

-----------------------------------------------------------------------------
LEMMA PutTrailer ==
  ASSUME NEW d \in ChunkRecords, NEW s \in 22..27, s = d.next_state, NEW o, NEW e, e = ChunkPut(d, o),
         NEW next, next = TrailerShift(s, o)
  PROVE  e.next_state = next /\ e.body = d.body
<1>1. s # 1 /\ s # 2 /\ s # 3 /\ s # 12 /\ s # 13 /\ s \notin {1, 2} /\ s \notin 4..11 /\ s \notin 14..21
  OBVIOUS
<1>2. ChunkShift(s, o) = next
  BY <1>1, Zenon DEF ChunkShift
<1>3. ~IsData(d, o) /\ ChunkPartial(d)
  BY <1>1 DEF IsData, ChunkPartial
<1>4. NextState(d, o) = next
  BY <1>2, <1>3 DEF NextState
<1>5. next # 3
  BY TrailerTable
<1>6. (e = ChunkAt(d, 0, SizeLeft(d)) /\ next = 0) \/ e = ChunkAt(d, next, SizeSoFar(d))
  BY <1>3, <1>4, <1>5, Zenon DEF ChunkPut
<1> QED BY <1>6 DEF ChunkAt, ChunkRecords

LEMMA TrailerSteps ==
  ASSUME NEW t, NEW p, NEW b, NEW d \in ChunkRecords, NEW o \in Octet,
         Through(t, p, d.body), EndsLine(t, p, b), SizeAt(t, p, b) = 0,
         TrailerState(d.next_state, t, b + 2), NEW e, e = ChunkPut(d, o), NEW u, u = Append(t, o)
  PROVE  ChunkRead(u, e) \/ ChunkOver(u, e)
<1>1. t \in Texts /\ t \in Seq(Octet) /\ Len(t) \in Nat /\ p \in Nat \ {0}
  BY DEF Through, Texts
<1>2. u \in Texts /\ Extends(u, t) /\ u \in Seq(Octet) /\ Len(u) = Len(t) + 1
  BY <1>1, ReadMore
<1>3. EndsLine(u, p, b) /\ SizeAt(u, p, b) = 0
  BY <1>1, <1>2, LineEndKept
<1>4. PICK a : a = b + 2
  OBVIOUS
<1>5. a \in 1..Len(t) + 1 /\ a \in 1..Len(u)
  BY <1>1, <1>2, <1>4 DEF EndsLine
<1>6. Through(u, p, d.body)
  BY ThroughStays
<1>7. PICK s : s = d.next_state
  OBVIOUS
<1>8. TrailerState(s, t, a)
  BY <1>4, <1>7
<1>9. s \in 22..27
  BY <1>8 DEF TrailerState
<1>10. PICK next : next = TrailerShift(s, o)
  OBVIOUS
<1>11. e.next_state = next /\ e.body = d.body
  BY <1>7, <1>9, <1>10, PutTrailer
<1>12. \/ next = 0 /\ NotBare(u, a)
       \/ next = 28 /\ TrailerEnds(u, a)
       \/ next \in 22..27 /\ TrailerState(next, u, a)
  <2>1. a \in 1..Len(t) + 1
    BY <1>5
  <2>2. TrailerMoved(next, u, a)
    BY <1>1, <1>8, <1>10, <2>1, TrailerMoves, Zenon
  <2> QED BY <2>2 DEF TrailerMoved
<1>13. PICK w : w = From(u, a)
  OBVIOUS
<1>14. /\ EndsTrailer(w) <=> TrailerEnds(u, a)
       /\ NotBare(u, a) => w \notin {<< >>, <<CR>>, <<CR, LF>>}
  BY <1>2, <1>5, <1>13, TrailerText
<1>15. /\ EndsTrailer(w) => Complete(u, d.body)
       /\ w \notin {<< >>, <<CR>>, <<CR, LF>>} => Refused(u)
  <2>1. w = From(u, b + 2)
    BY <1>4, <1>13
  <2> QED BY <1>3, <1>6, <2>1, HereTrailer, Zenon
<1>16. CASE next = 0 /\ NotBare(u, a)
  BY <1>11, <1>14, <1>15, <1>16, Zenon DEF ChunkOver
<1>17. CASE next = 28 /\ TrailerEnds(u, a)
  BY <1>11, <1>14, <1>15, <1>17, Zenon DEF ChunkOver
<1>18. CASE next \in 22..27 /\ TrailerState(next, u, a)
  <2>1. Through(u, p, e.body) /\ TrailerState(e.next_state, u, b + 2)
    BY <1>4, <1>6, <1>11, <1>18
  <2>2. TrailerPart(u, e)
    BY <1>3, <2>1, Zenon DEF TrailerPart
  <2> QED BY <2>2 DEF ChunkRead
<1> QED BY <1>12, <1>16, <1>17, <1>18

-----------------------------------------------------------------------------
(* As long as the decoder wants more, so does what it has read. *)
LEMMA SizeWants == ASSUME NEW t, NEW d, SizePart(t, d) PROVE Wants(t)
<1>1. PICK p, q, n :
        /\ Through(t, p, d.body) /\ Digits(t, p, q, n)
        /\ SizeState(d.next_state, t, p, q, n, d.chunk_size) /\ OneCr(d.next_state, t, p)
  BY Zenon DEF SizePart
<1>2. t \in Seq(Octet) /\ p \in Nat \ {0}
  BY <1>1 DEF Through, Texts
<1>3. NoLineAt(t, p)
  <2> SUFFICES ASSUME NEW k \in p..Len(t) - 1, t[k] = CR PROVE FALSE
    BY DEF NoLineAt
  <2>1. k \in p..Len(t) /\ k # Len(t)
    BY <1>2
  <2> QED BY <1>1, <2>1, Zenon DEF OneCr
<1> QED BY <1>1, <1>3, HereNoLine

LEMMA DataWants == ASSUME NEW t, NEW d, DataPart(t, d) PROVE Wants(t)
<1>1. PICK p, B, e, n :
        /\ Through(t, p, B) /\ EndsLine(t, p, e) /\ n = SizeAt(t, p, e) /\ n # 0
        /\ DataState(d, t, e, n, B)
  BY Zenon DEF DataPart
<1>2. t \in Texts /\ Len(t) \in Nat /\ p \in Nat \ {0}
  BY <1>1 DEF Through, Texts
<1>3. n \in Nat /\ e \in Nat
  <2>1. Extends(t, t)
    BY <1>2, ExtendsItself
  <2> QED BY <1>1, <1>2, <2>1, LineEndKept DEF EndsLine
<1>4. PICK next : next = e + 2 + n
  OBVIOUS
<1>5. next > Len(t) \/ (next = Len(t) /\ t[next] = CR)
  <2>1. \/ d.chunk_size \in Nat /\ d.chunk_size = e + 1 + n - Len(t)
        \/ Len(t) = e + 2 + n /\ t[Len(t)] = CR
    BY <1>1, Zenon DEF DataState
  <2> QED BY <1>2, <1>3, <1>4, <2>1
<1> QED BY <1>1, <1>4, <1>5, HereData

LEMMA TrailerWants == ASSUME NEW t, NEW d, TrailerPart(t, d) PROVE Wants(t)
<1>1. PICK p, e :
        /\ Through(t, p, d.body) /\ EndsLine(t, p, e) /\ SizeAt(t, p, e) = 0
        /\ TrailerState(d.next_state, t, e + 2)
  BY Zenon DEF TrailerPart
<1>2. t \in Seq(Octet) /\ p \in Nat \ {0}
  BY <1>1 DEF Through, Texts
<1>3. PICK a \in 1..Len(t) + 1 : a = e + 2
  BY <1>1, <1>2 DEF EndsLine
<1>4. PICK s : s = d.next_state
  OBVIOUS
<1>5. TrailerState(s, t, a)
  BY <1>1, <1>3, <1>4
<1>6. PICK w : w = From(t, a)
  OBVIOUS
<1>7. ~EndsTrailer(w)
  <2>1. CASE a = Len(t) + 1
    <3>1. w = << >>
      BY <1>2, <1>6, <2>1 DEF From
    <3>2. << >> # <<CR, LF>> /\ Len(<< >>) = 0
      OBVIOUS
    <3> QED BY <3>1, <3>2 DEF EndsTrailer
  <2>2. CASE a \in 1..Len(t)
    <3>1. ~TrailerEnds(t, a)
      <4>1. PICK l \in Nat : l = Len(t)
        BY <1>2
      <4>2. a \in 1..l
        BY <2>2, <4>1
      <4>3. CASE a = l
        BY <4>1, <4>3 DEF TrailerEnds
      <4>4. CASE a # l
        <5>1. /\ t[a] \in Tchar
              /\ \/ t[l] # LF
                 \/ a + 1 < l /\ t[l] = LF /\ t[l - 1] = CR /\ t[l - 2] # LF
          BY <1>5, <4>1, <4>2, <4>4, CrLfClasses DEF TrailerState
        <5> QED BY <4>1, <4>2, <5>1, CrLfClasses DEF TrailerEnds
      <4> QED BY <4>3, <4>4
    <3> QED BY <1>2, <1>6, <2>2, <3>1, TrailerText
  <2> QED BY <1>2, <2>1, <2>2
<1>8. w = From(t, e + 2)
  BY <1>3, <1>6
<1> QED BY <1>1, <1>7, <1>8, HereTrailer

-----------------------------------------------------------------------------
LEMMA ChunkReadOn ==
  ASSUME NEW t \in Texts, NEW d \in ChunkRecords, ChunkRead(t, d), NEW o \in Octet,
         NEW e, e = ChunkPut(d, o), NEW u, u = Append(t, o)
  PROVE  ChunkRead(u, e) \/ ChunkOver(u, e)
<1>1. CASE SizePart(t, d)
  <2>1. PICK p, q, n :
          /\ Through(t, p, d.body) /\ Digits(t, p, q, n)
          /\ SizeState(d.next_state, t, p, q, n, d.chunk_size) /\ OneCr(d.next_state, t, p)
    BY <1>1, Zenon DEF SizePart
  <2>2. CASE d.next_state \in 1..3 /\ o \in Hex
    BY <2>1, <2>2, SizeDigit
  <2>3. CASE ~(d.next_state \in 1..3 /\ o \in Hex)
    <3>1. d.next_state \in SizeStates
      BY <2>1 DEF SizeState, SizeStates
    <3> QED BY <2>1, <2>3, <3>1, SizeOther
  <2> QED BY <2>2, <2>3
<1>2. CASE DataPart(t, d)
  <2>1. PICK p, B, a, n :
          /\ Through(t, p, B) /\ EndsLine(t, p, a) /\ n = SizeAt(t, p, a) /\ n # 0
          /\ DataState(d, t, a, n, B)
    BY <1>2, Zenon DEF DataPart
  <2> QED BY <2>1, DataSteps
<1>3. CASE TrailerPart(t, d)
  <2>1. PICK p, b :
          /\ Through(t, p, d.body) /\ EndsLine(t, p, b) /\ SizeAt(t, p, b) = 0
          /\ TrailerState(d.next_state, t, b + 2)
    BY <1>3, Zenon DEF TrailerPart
  <2> QED BY <2>1, TrailerSteps
<1>4. CASE Overruns(t)
  BY <1>4, OverrunsStays DEF ChunkRead
<1> QED BY <1>1, <1>2, <1>3, <1>4 DEF ChunkRead

ChunkInv ==
  kind = "chunk" =>
    src \in Texts /\ ChunkKept(dec) /\ (ChunkRead(src, dec) \/ ChunkOver(src, dec))

LEMMA ChunkStart == DecodersInit => ChunkInv
<1> SUFFICES ASSUME DecodersInit, kind = "chunk"
             PROVE  src \in Texts /\ ChunkKept(dec) /\ ChunkRead(src, dec)
  BY DEF ChunkInv
<1>1. src = << >> /\ dec = FreshChunk
  BY DEF DecodersInit, Fresh
<1>2. ChunkKept(dec) /\ dec.next_state = 1 /\ dec.body = << >>
  BY <1>1, ChunkAssumption DEF FreshChunk, ChunkRecords, ChunkKept
<1>3. src \in Texts /\ Len(src) = 0
  BY <1>1 DEF Texts
<1>4. Through(src, 1, dec.body)
  BY <1>1, <1>2, ThroughNothing
<1>5. Digits(src, 1, 1, 0)
  <2>1. 1 = Len(src) + 1
    BY <1>3
  <2> QED BY <1>3, <2>1, DigitsNone
<1>6. SizeState(dec.next_state, src, 1, 1, 0, dec.chunk_size) /\ OneCr(dec.next_state, src, 1)
  BY <1>2, <1>3 DEF SizeState, OneCr
<1> QED BY <1>2, <1>3, <1>4, <1>5, <1>6, Zenon DEF ChunkRead, SizePart

LEMMA ChunkSteps == ChunkInv /\ [DecodersNext]_decodersVars => ChunkInv'
<1> SUFFICES ASSUME ChunkInv, [DecodersNext]_decodersVars, kind' = "chunk"
             PROVE  src' \in Texts /\ ChunkKept(dec') /\ (ChunkRead(src', dec') \/ ChunkOver(src', dec'))
  BY DEF ChunkInv
<1>1. CASE PutOctet
  <2>1. PICK o \in (Inputs(kind, dec, src) \cap Octet) \cup {End} :
             (o = End => kind \in Values) /\ src' = Append(src, o) /\ dec' = Put(o)
    BY <1>1, Zenon DEF PutOctet
  <2>2. kind = "chunk" /\ Partial
    BY <1>1, Zenon DEF PutOctet
  <2>3. o \in Octet
    <3>1. kind \notin Values
      BY <2>2 DEF Values, Messages, Fresh
    <3> QED BY <2>1, <3>1
  <2>4. dec' = ChunkPut(dec, o)
    BY <2>1, <2>2 DEF Put
  <2>5. src \in Texts /\ dec \in ChunkRecords /\ dec.next_state \in 1..27
    <3>1. kind \notin Values
      BY <2>2 DEF Values, Messages, Fresh
    <3>2. ChunkPartial(dec)
      BY <2>2, <3>1 DEF Partial
    <3> QED BY <2>2, <3>2 DEF ChunkInv, ChunkPartial, ChunkKept
  <2>6. ChunkRead(src, dec)
    <3>1. dec.next_state # 0 /\ dec.next_state # 28
      BY <2>5
    <3> QED BY <2>2, <3>1, Zenon DEF ChunkInv, ChunkOver
  <2>7. src' \in Texts
    BY <2>1, <2>3, <2>5, ReadMore
  <2>8. ChunkKept(dec')
    <3>1. o \in Nat /\ ChunkKept(dec)
      BY <2>2, <2>3 DEF Octet, ChunkInv
    <3> QED BY <2>4, <3>1, ChunkPutKeeps
  <2> QED BY <2>1, <2>3, <2>4, <2>5, <2>6, <2>7, <2>8, ChunkReadOn
<1>2. CASE WriteResponse
  BY <1>2 DEF WriteResponse
<1>3. CASE ResponseStops
  BY <1>3 DEF ResponseStops
<1>4. CASE UNCHANGED decodersVars
  BY <1>4 DEF decodersVars, ChunkInv
<1> QED BY <1>1, <1>2, <1>3, <1>4 DEF DecodersNext

LEMMA ChunkInvWritten == ChunkInv => ChunksAsWritten
<1> SUFFICES ASSUME ChunkInv, kind = "chunk", Message.kind # "overrun"
             PROVE  /\ ChunkGood(dec) => Message.kind = "whole" /\ dec.body = Message.body
                    /\ ChunkPartial(dec) => Message.kind = "more"
                    /\ Message.plain => ~ChunkBad(dec)
  BY Zenon DEF ChunksAsWritten
<1>1. src \in Texts /\ (ChunkRead(src, dec) \/ ChunkOver(src, dec))
  BY DEF ChunkInv
<1>2. Message = Verdicts(src)[1]
  BY MessageVerdict DEF Message
<1>3. ~Overruns(src)
  BY <1>1, <1>2, ExtendsItself DEF Overruns
<1>4. CASE ChunkRead(src, dec)
  <2>1. Wants(src)
    BY <1>3, <1>4, SizeWants, DataWants, TrailerWants DEF ChunkRead
  <2>2. dec.next_state \in 1..27
    <3>1. CASE SizePart(src, dec)
      <4>1. PICK p, q, n : SizeState(dec.next_state, src, p, q, n, dec.chunk_size)
        BY <3>1, Zenon DEF SizePart
      <4> QED BY <4>1 DEF SizeState
    <3>2. CASE DataPart(src, dec)
      <4>1. PICK a, n, B : DataState(dec, src, a, n, B)
        BY <3>2, Zenon DEF DataPart
      <4>2. dec.next_state = 12 \/ dec.next_state = 13
        BY <4>1, Zenon DEF DataState
      <4> QED BY <4>2
    <3>3. CASE TrailerPart(src, dec)
      <4>1. PICK u : TrailerState(dec.next_state, src, u)
        BY <3>3, Zenon DEF TrailerPart
      <4> QED BY <4>1 DEF TrailerState
    <3> QED BY <1>3, <1>4, <3>1, <3>2, <3>3 DEF ChunkRead
  <2> QED BY <1>2, <2>1, <2>2 DEF Wants, ChunkGood, ChunkBad
<1>5. CASE ChunkOver(src, dec)
  BY <1>2, <1>5 DEF ChunkOver, Refused, Complete, ChunkGood, ChunkBad, ChunkPartial
<1> QED BY <1>1, <1>4, <1>5

(* For a message of any length and any limit: the body is what the chunks  *)
(* hold, their sizes and line ends left out; the message ends where its    *)
(* last chunk and its trailer do (decode-chunk.cpp:129-149), neither       *)
(* before nor after; and a plain one within the limits is not refused.     *)
THEOREM ChunksDelimited == DecodersSpec => []ChunksAsWritten
<1>1. DecodersSpec => []ChunkInv
  BY ChunkStart, ChunkSteps, PTL DEF DecodersSpec
<1> QED BY <1>1, ChunkInvWritten, PTL
=============================================================================
