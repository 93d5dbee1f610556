--------------------------- MODULE ConnectionProofs ---------------------------
(***************************************************************************)
(* Proofs about Connection, for any requests, buffers, page sizes and      *)
(* numbers of requests and clients.                                        *)
(***************************************************************************)
EXTENDS Connection, FiniteSetTheorems, SequenceTheorems, TLAPS

(* The continuations that run in memory. *)
MemoryKonts == {"request_line", "request_header", "request_chunked", "request_length",
                "dispatch", "response", "response_end"}

Konts  == ReadKonts \cup WriteKonts \cup MemoryKonts \cup {"none"}
IoType == [kont : Konts, ready : BOOLEAN, mask : {"none", "READ", "WRITE"}]

(* A connection runs in memory, or waits for the system call it will make. *)
IoOK ==
  /\ up \in BOOLEAN /\ io \in IoType
  /\ up => \/ ~io.ready /\ io.mask = "READ" /\ io.kont \in ReadKonts
           \/ ~io.ready /\ io.mask = "WRITE" /\ io.kont \in WriteKonts
           \/ io.ready /\ io.kont \in MemoryKonts

(* A file is open from its dispatch to the end of its answer. *)
FileKonts == {"response", "response_header", "response_file_length", "response_end"}

FilesOK ==
  /\ fd \in Int /\ files \in [open : Int, lost : Int]
  /\ files.open = files.lost + IF up /\ fd # NoFile THEN 1 ELSE 0
  /\ up /\ fd # NoFile => io.kont \in FileKonts

(* Every token on its way, and the request at work, is of a request the    *)
(* client made.                                                            *)
Token == [n : Nat, part : {"line", "header", "body", "end"}, r : RequestType]
Asked == {t \in Token : t.n \in DOMAIN sent /\ t.r = sent[t.n]}
Early == {"none", "request_line_read", "request_line", "teardown"}

StreamOK ==
  /\ sent \in Seq(RequestType)
  /\ buf \in Seq(Asked) /\ rx \in Seq(Asked) /\ todo \in Seq(Asked)
  /\ DOMAIN req = {"n", "r", "body"}
  /\ io.kont \notin Early => req.n \in DOMAIN sent /\ req.r = sent[req.n]

ConnectionInv == IoOK /\ FilesOK /\ StreamOK

USE DEF MemoryKonts, ReadKonts, WriteKonts

-----------------------------------------------------------------------------
(* What the helpers of the model return. *)
LEMMA WaitForFields ==
  ASSUME NEW m \in {"none", "READ", "WRITE"}, NEW k \in Konts
  PROVE  /\ WaitFor(m, k) \in IoType
         /\ WaitFor(m, k).kont = k /\ WaitFor(m, k).mask = m /\ WaitFor(m, k).ready = FALSE
BY DEF WaitFor, IoType

(* iocontinue without a mask goes on, at the continuation it is given. *)
LEMMA GoOnFields ==
  ASSUME io \in IoType, NEW k \in Konts
  PROVE  /\ GoOn(k) \in IoType
         /\ GoOn(k).kont = k /\ GoOn(k).ready = TRUE
<1>1. GoOn(k) \in IoType
  BY Zenon DEF GoOn, IoType
<1>2. GoOn(k).kont = k /\ GoOn(k).ready = TRUE
  BY DEF GoOn, IoType
<1> QED BY <1>1, <1>2

(* After the header comes a body of one of two kinds, or the handler. *)
LEMMA BodyKontValue ==
  ASSUME NEW r
  PROVE  BodyKont(r) \in {"request_chunked", "request_length", "dispatch"}
BY DEF BodyKont

(* A request is refused with one of three codes; a bad header always is. *)
LEMMA RefusalValue ==
  ASSUME NEW r, NEW line, NEW head
  PROVE  /\ Refusal(r, line, head) \in {0, 400, 413, 415}
         /\ BadHeader(r, line, head) => Refusal(r, line, head) # 0
BY DEF Refusal, LengthRefusal

(* A request is refused with an error page, or its body or dispatch is next. *)
LEMMA Prepares ==
  ASSUME NEW line, NEW head, PrepareRequestBody(line, head)
  PROVE  \/ /\ Refusal(req.r, line, head) = 0 /\ io' = GoOn(BodyKont(req.r))
            /\ rsp' = [rsp EXCEPT !.version = req.r.version]
         \/ /\ io' = GoOn("response")
            /\ \E code \in {400, 413, 415} :
                 \/ rsp' = ErrorPage(code)
                 \/ rsp' = [ErrorPage(code) EXCEPT !.version = req.r.version]
<1> DEFINE code == Refusal(req.r, line, head)
<1> DEFINE page == IF code = 0 THEN rsp ELSE ErrorPage(code)
<1> DEFINE wrong == BadHeader(req.r, line, head)
<1>1. code \in {0, 400, 413, 415} /\ (wrong => code # 0)
  BY RefusalValue
<1>2. /\ io' = GoOn(IF code # 0 THEN "response" ELSE BodyKont(req.r))
      /\ rsp' = IF wrong THEN page ELSE [page EXCEPT !.version = req.r.version]
  BY Zenon DEF PrepareRequestBody
<1> HIDE DEF code, wrong
<1>3. CASE code = 0
  <2>1. ~wrong /\ page = rsp
    BY <1>1, <1>3
  <2>2. rsp' = [rsp EXCEPT !.version = req.r.version]
    BY <1>2, <2>1, Zenon
  <2>3. Refusal(req.r, line, head) = 0
    BY <1>3 DEF code
  <2> QED BY <1>2, <1>3, <2>2, <2>3
<1>4. CASE code # 0
  <2>1. page = ErrorPage(code) /\ code \in {400, 413, 415}
    BY <1>1, <1>4
  <2> HIDE DEF page
  <2>2. io' = GoOn("response")
    BY <1>2, <1>4
  <2>3. rsp' = ErrorPage(code) \/ rsp' = [ErrorPage(code) EXCEPT !.version = req.r.version]
    BY <1>2, <2>1, Zenon
  <2> DEFINE Shows(c) == \/ rsp' = ErrorPage(c)
                         \/ rsp' = [ErrorPage(c) EXCEPT !.version = req.r.version]
  <2>4. Shows(code)
    BY <2>3
  <2> HIDE DEF Shows
  <2>5. \E c \in {400, 413, 415} : Shows(c)
    BY <2>1, <2>4
  <2> QED BY <2>2, <2>5, Zenon DEF Shows
<1> QED BY <1>3, <1>4

-----------------------------------------------------------------------------
(* The continuation and the mask. *)
Moves ==
  \/ UNCHANGED <<io, up>>
  \/ up' = FALSE /\ io' \in IoType
  \/ up' = TRUE /\ \E k \in ReadKonts : io' = WaitFor("READ", k)
  \/ up' = up /\ \E k \in ReadKonts : io' = WaitFor("READ", k)
  \/ up' = up /\ \E k \in WriteKonts : io' = WaitFor("WRITE", k)
  \/ up' = up /\ \E k \in MemoryKonts : io' = GoOn(k)

(* Such a move keeps the continuations and the masks in step. *)
LEMMA MovesKeepIo ==
  ASSUME IoOK, Moves
  PROVE  IoOK'
<1> USE DEF Konts
<1>1. CASE UNCHANGED <<io, up>>
  BY <1>1 DEF IoOK, IoType
<1>2. CASE up' = FALSE /\ io' \in IoType
  BY <1>2 DEF IoOK, IoType
<1>3. CASE up' \in BOOLEAN /\ \E k \in ReadKonts : io' = WaitFor("READ", k)
  <2>1. PICK k \in ReadKonts : io' = WaitFor("READ", k)
    BY <1>3
  <2>2. io' \in IoType /\ io'.kont = k /\ io'.mask = "READ" /\ ~io'.ready
    BY <2>1, WaitForFields, Zenon
  <2> QED BY <1>3, <2>2 DEF IoOK
<1>4. CASE up' = up /\ \E k \in WriteKonts : io' = WaitFor("WRITE", k)
  <2>1. PICK k \in WriteKonts : io' = WaitFor("WRITE", k)
    BY <1>4
  <2>2. io' \in IoType /\ io'.kont = k /\ io'.mask = "WRITE" /\ ~io'.ready
    BY <2>1, WaitForFields, Zenon
  <2> QED BY <1>4, <2>2 DEF IoOK
<1>5. CASE up' = up /\ \E k \in MemoryKonts : io' = GoOn(k)
  <2>1. PICK k \in MemoryKonts : io' = GoOn(k)
    BY <1>5
  <2>2. io' \in IoType /\ io'.kont = k /\ io'.ready
    BY <2>1, GoOnFields, Zenon DEF IoOK
  <2> QED BY <1>5, <2>2 DEF IoOK
<1> QED BY <1>1, <1>2, <1>3, <1>4, <1>5 DEF Moves, IoOK

(* A close is such a move, *)
LEMMA CloseMoves ==
  ASSUME IoOK, NEW reason, OnClose(reason)
  PROVE  Moves
<1>1. [io EXCEPT !.kont = "none", !.ready = FALSE] \in IoType
  BY Zenon DEF IoOK, IoType, Konts
<1> QED BY <1>1 DEF OnClose, Moves

(* and so is every step. *)
LEMMA StepMoves ==
  ASSUME IoOK, [ConnectionNext]_connectionVars
  PROVE  Moves
<1> USE DEF lifeVars, ioVars
<1>1. CASE Client
  BY <1>1 DEF Client, MakeRequest, SendToken, HalfClose, Reset, Moves
<1>2. CASE OnAccept
  BY <1>2 DEF OnAccept, WaitFor, Moves
<1>3. CASE OnTimer \/ ReadEof \/ IoFails
  BY <1>3, CloseMoves DEF OnTimer, ReadEof, IoFails
<1>4. CASE \/ KontRequestLineRead \/ KontRequestHeaderRead
           \/ KontRequestChunkedRead \/ KontRequestLengthRead
  BY <1>4 DEF KontRequestLineRead, KontRequestHeaderRead, KontRequestChunkedRead,
              KontRequestLengthRead, Read, Moves
<1>5. CASE KontRequestLine
  BY <1>5 DEF KontRequestLine, Moves
<1>6. CASE KontRequestHeader
  <2>1. CASE io' = WaitFor("READ", "request_header_read")
    BY <1>6, <2>1 DEF KontRequestHeader, Moves
  <2>2. CASE \E line, head : PrepareRequestBody(line, head)
    <3>1. \E k \in MemoryKonts : io' = GoOn(k)
      BY <2>2, Prepares, BodyKontValue
    <3> QED BY <1>6, <3>1 DEF KontRequestHeader, Moves
  <2> QED BY <1>6, <2>1, <2>2 DEF KontRequestHeader
<1>7. CASE KontRequestChunked
  BY <1>7 DEF KontRequestChunked, Moves
<1>8. CASE KontRequestLength
  BY <1>8 DEF KontRequestLength, Moves
<1>9. CASE KontDispatch \/ KontResponse
  BY <1>9 DEF KontDispatch, KontResponse, Moves
<1>10. CASE KontResponseHeader
  BY <1>10 DEF KontResponseHeader, Moves
<1>11. CASE KontResponseFileLength \/ KontResponseBodyLength
  BY <1>11 DEF KontResponseFileLength, KontResponseBodyLength, Moves
<1>12. CASE KontResponseEnd
  BY <1>12 DEF KontResponseEnd, Teardown, NextRequest, Moves
<1>13. CASE KontTeardown
  BY <1>13 DEF KontTeardown, Moves
<1>14. CASE UNCHANGED connectionVars
  BY <1>14 DEF connectionVars, Moves
<1> QED
  BY <1>1, <1>2, <1>3, <1>4, <1>5, <1>6, <1>7, <1>8, <1>9, <1>10, <1>11, <1>12, <1>13, <1>14
  DEF ConnectionNext, Server

-----------------------------------------------------------------------------
(* The open file. *)
LEMMA FilesStay ==
  ASSUME FilesOK, UNCHANGED <<fd, files, up>>,
         up /\ io.kont \in FileKonts => io'.kont \in FileKonts
  PROVE  FilesOK'
BY DEF FilesOK

(* A step where no file is open keeps the account of the files. *)
LEMMA FilesNone ==
  ASSUME FilesOK, UNCHANGED <<fd, files, up>>, up => io.kont \notin FileKonts
  PROVE  FilesOK'
BY DEF FilesOK

(* A close loses the file that is open, and counts it. *)
LEMMA CloseKeepsFiles ==
  ASSUME FilesOK, up = TRUE, NEW reason, OnClose(reason)
  PROVE  FilesOK'
<1> DEFINE gone == IF fd = NoFile THEN 0 ELSE 1
<1>1. /\ files' \in [open : Int, lost : Int]
      /\ files'.open = files.open /\ files'.lost = files.lost + gone
  <2>1. files' = [files EXCEPT !.lost = files.lost + gone]
    BY Zenon DEF OnClose
  <2>2. files.lost + gone \in Int
    BY DEF FilesOK
  <2> HIDE DEF gone
  <2> QED BY <2>1, <2>2, Zenon DEF FilesOK
<1>2. up' = FALSE /\ fd' = fd
  BY DEF OnClose, rspVars
<1> QED BY <1>1, <1>2 DEF FilesOK

(* A handler opens a file only where none is open. *)
LEMMA DispatchKeepsFiles ==
  ASSUME ConnectionAssumption, IoOK, FilesOK, KontDispatch
  PROVE  FilesOK'
<1>1. up = TRUE /\ fd = NoFile /\ io.kont = "dispatch"
  BY DEF KontDispatch, At, FilesOK, FileKonts, IoOK
<1>2. io'.kont = "response" /\ up' = TRUE
  BY <1>1, GoOnFields DEF KontDispatch, IoOK, Konts, lifeVars
<1>3. CASE UNCHANGED <<fd, files>>
  BY <1>1, <1>2, <1>3 DEF FilesOK
<1>4. CASE ~UNCHANGED <<fd, files>>
  <2> DEFINE more == IF fd' = NoFile THEN 0 ELSE 1
  <2>1. files' = [files EXCEPT !.open = files.open + more]
    BY <1>4, Zenon DEF KontDispatch
  <2>2. PICK size \in FileSizes, opens \in BOOLEAN : fd' \in BodyFd(req.r, size, opens)
    BY <1>4 DEF KontDispatch
  <2>3. fd' \in Int
    BY <2>2 DEF BodyFd, NoFile, ConnectionAssumption
  <2>4. files.open + more \in Int
    BY DEF FilesOK
  <2>5. /\ files' \in [open : Int, lost : Int]
        /\ files'.open = files.open + more /\ files'.lost = files.lost
    <3> HIDE DEF more
    <3> QED BY <2>1, <2>4, Zenon DEF FilesOK
  <2> QED BY <1>1, <1>2, <2>3, <2>5 DEF FilesOK, FileKonts
<1> QED BY <1>3, <1>4

(* The end of an answer closes its file. *)
LEMMA EndKeepsFiles ==
  ASSUME IoOK, FilesOK, KontResponseEnd
  PROVE  FilesOK'
<1>1. up' = up /\ up = TRUE /\ fd' = NoFile /\ files' = FilesAfter
  BY DEF KontResponseEnd, At, IoOK, lifeVars
<1>2. CASE fd = NoFile
  BY <1>1, <1>2 DEF FilesAfter, FilesOK, NoFile
<1>3. CASE fd # NoFile
  <2>1. files' = [files EXCEPT !.open = files.open - 1]
    BY <1>1, <1>3, Zenon DEF FilesAfter
  <2>2. files.open - 1 \in Int
    BY DEF FilesOK
  <2>3. /\ files' \in [open : Int, lost : Int]
        /\ files'.open = files.open - 1 /\ files'.lost = files.lost
    BY <2>1, <2>2, Zenon DEF FilesOK
  <2> QED BY <1>1, <1>3, <2>3 DEF FilesOK, NoFile
<1> QED BY <1>2, <1>3

(* Every step keeps the account of the files. *)
LEMMA StepKeepsFiles ==
  ASSUME ConnectionAssumption, IoOK, FilesOK, [ConnectionNext]_connectionVars
  PROVE  FilesOK'
<1> USE DEF lifeVars, ioVars, rspVars, Konts, IoOK, FileKonts
<1>1. CASE Client
  BY <1>1, FilesStay DEF Client, MakeRequest, SendToken, HalfClose, Reset
<1>2. CASE OnAccept
  BY <1>2 DEF OnAccept, FilesOK, NoFile
<1>3. CASE OnTimer \/ ReadEof \/ IoFails
  BY <1>3, CloseKeepsFiles DEF OnTimer, ReadEof, IoFails, Called
<1>4. CASE \/ KontRequestLineRead \/ KontRequestHeaderRead
           \/ KontRequestChunkedRead \/ KontRequestLengthRead
  BY <1>4, FilesNone DEF KontRequestLineRead, KontRequestHeaderRead,
       KontRequestChunkedRead, KontRequestLengthRead, Read, Called
<1>5. CASE KontRequestLine
  BY <1>5, FilesNone DEF KontRequestLine, At
<1>6. CASE KontRequestHeader
  BY <1>6, FilesNone DEF KontRequestHeader, At
<1>7. CASE KontRequestChunked \/ KontRequestLength
  BY <1>7, FilesNone DEF KontRequestChunked, KontRequestLength, At
<1>8. CASE KontDispatch
  BY <1>8, DispatchKeepsFiles
<1>9. CASE KontResponse
  BY <1>9, FilesStay, WaitForFields DEF KontResponse
<1>10. CASE KontResponseHeader
  <2>1. /\ UNCHANGED <<fd, files, up>>
        /\ \/ io' = GoOn("response_end")
           \/ \E k \in {"response_header", "response_file_length"} : io' = WaitFor("WRITE", k)
           \/ fd = NoFile
    BY <1>10 DEF KontResponseHeader
  <2>2. CASE fd = NoFile
    BY <2>1, <2>2 DEF FilesOK
  <2>3. CASE io' = GoOn("response_end")
    BY <2>1, <2>3, FilesStay, GoOnFields
  <2>4. CASE \E k \in {"response_header", "response_file_length"} : io' = WaitFor("WRITE", k)
    <3>1. PICK k \in {"response_header", "response_file_length"} : io' = WaitFor("WRITE", k)
      BY <2>4
    <3>2. io'.kont = k
      BY <3>1, WaitForFields
    <3> QED BY <2>1, <3>2, FilesStay
  <2> QED BY <2>1, <2>2, <2>3, <2>4
<1>11. CASE KontResponseFileLength
  <2>1. /\ up' = up /\ files' = files /\ up = TRUE
        /\ \/ io' = GoOn("response_end") /\ fd' = fd
           \/ /\ io' = WaitFor("WRITE", "response_file_length")
              /\ \E n \in 1..BufferSize : n <= fd /\ fd' = fd - n
    BY <1>11 DEF KontResponseFileLength, Called
  <2>2. io'.kont \in FileKonts
    BY <2>1, GoOnFields, WaitForFields
  <2>3. fd' \in Int /\ (fd' = NoFile <=> fd = NoFile)
    BY <2>1 DEF FilesOK, NoFile, ConnectionAssumption
  <2> QED BY <2>1, <2>2, <2>3 DEF FilesOK
<1>12. CASE KontResponseBodyLength
  BY <1>12, FilesNone DEF KontResponseBodyLength, Called
<1>13. CASE KontResponseEnd
  BY <1>13, EndKeepsFiles
<1>14. CASE KontTeardown
  BY <1>14, FilesNone DEF KontTeardown, Called
<1>15. CASE UNCHANGED connectionVars
  BY <1>15, FilesStay DEF connectionVars
<1> QED
  BY <1>1, <1>2, <1>3, <1>4, <1>5, <1>6, <1>7, <1>8, <1>9, <1>10, <1>11, <1>12, <1>13, <1>14, <1>15
  DEF ConnectionNext, Server

-----------------------------------------------------------------------------
(* The stream of requests. *)
LEMMA SeqMonotone ==
  ASSUME NEW S, NEW T, S \subseteq T, NEW s \in Seq(S)
  PROVE  s \in Seq(T)
OBVIOUS

(* A part of a sequence is made of the same elements. *)
LEMMA SubSeqType ==
  ASSUME NEW S, NEW s \in Seq(S), NEW m \in Int, NEW n \in Int, m >= 1, n <= Len(s)
  PROVE  SubSeq(s, m, n) \in Seq(S)
OBVIOUS

(* The tokens of a new request are tokens of a request that was made, *)
LEMMA TokensAsked ==
  ASSUME StreamOK, NEW r \in RequestType,
         sent' = Append(sent, r)
  PROVE  Tokens(Len(sent) + 1, r) \in Seq(Asked')
<1> DEFINE n == Len(sent) + 1
<1>1. sent \in Seq(RequestType) /\ n \in Nat /\ r.size \in Nat
  BY DEF StreamOK, RequestType
<1>2. n \in DOMAIN sent' /\ sent'[n] = r
  BY <1>1
<1> HIDE DEF n
<1>3. \A part \in {"line", "header", "body", "end"} : Tok(n, part, r) \in Asked'
  BY <1>1, <1>2, Zenon DEF Tok, Asked, Token
<1>4. <<Tok(n, "line", r), Tok(n, "header", r)>> \in Seq(Asked')
  BY <1>3
<1>5. [i \in 1..r.size |-> Tok(n, "body", r)] \in Seq(Asked')
  BY <1>1, <1>3
<1>6. (IF r.te \in {"chunked", "torn"} THEN <<Tok(n, "end", r)>> ELSE << >>) \in Seq(Asked')
  BY <1>3
<1>7. Tokens(n, r) \in Seq(Asked')
  BY <1>4, <1>5, <1>6 DEF Tokens
<1> QED BY <1>7 DEF n

(* and those of the earlier ones remain so. *)
LEMMA AskedGrows ==
  ASSUME StreamOK, NEW r, sent' = Append(sent, r)
  PROVE  Asked \subseteq Asked'
<1>1. \A k \in DOMAIN sent : k \in DOMAIN sent' /\ sent'[k] = sent[k]
  BY DEF StreamOK
<1> QED BY <1>1 DEF Asked

(* Steps that leave the requests alone and move tokens only. *)
LEMMA StreamStays ==
  ASSUME StreamOK, UNCHANGED <<sent, req>>,
         buf' \in Seq(Asked), rx' \in Seq(Asked), todo' \in Seq(Asked),
         io'.kont \notin Early => io.kont \notin Early
  PROVE  StreamOK'
<1>1. Asked' = Asked
  BY DEF Asked
<1> QED BY <1>1 DEF StreamOK

(* A new request adds its tokens. *)
LEMMA MakeRequestKeepsStream ==
  ASSUME ConnectionAssumption, StreamOK, MakeRequest
  PROVE  StreamOK'
<1>1. PICK r \in Requests : sent' = Append(sent, r) /\ todo' = Tokens(Len(sent) + 1, r)
  BY DEF MakeRequest
<1>2. r \in RequestType
  BY DEF ConnectionAssumption
<1>3. todo' \in Seq(Asked')
  BY <1>1, <1>2, TokensAsked
<1>4. buf' \in Seq(Asked') /\ rx' \in Seq(Asked')
  BY <1>1, AskedGrows, SeqMonotone DEF MakeRequest, StreamOK, ioVars
<1>5. sent' \in Seq(RequestType) /\ \A k \in DOMAIN sent : k \in DOMAIN sent' /\ sent'[k] = sent[k]
  BY <1>1, <1>2 DEF StreamOK
<1> QED BY <1>3, <1>4, <1>5 DEF MakeRequest, StreamOK, ioVars

(* The request is decoded from the first token of the buffer. *)
LEMMA LineKeepsStream ==
  ASSUME IoOK, StreamOK, KontRequestLine
  PROVE  StreamOK'
<1> USE DEF ioVars, clientVars, Konts
<1>1. UNCHANGED <<sent, rx, todo>> /\ Asked' = Asked
  BY DEF KontRequestLine, Asked
<1>2. CASE buf = << >> /\ io' = WaitFor("READ", "request_line_read") /\ UNCHANGED <<buf, dec, req>>
  BY <1>1, <1>2, WaitForFields DEF StreamOK, Early
<1>3. CASE buf # << >> /\ buf' = Tail(buf)
           /\ req' = [n |-> Head(buf).n, r |-> Head(buf).r, body |-> << >>]
  <2>1. Head(buf) \in Asked /\ Tail(buf) \in Seq(Asked)
    BY <1>3 DEF StreamOK
  <2>2. req'.n = Head(buf).n /\ req'.r = Head(buf).r
    BY <1>3
  <2>3. req'.n \in DOMAIN sent /\ req'.r = sent[req'.n]
    BY <2>1, <2>2 DEF Asked
  <2>4. DOMAIN req' = {"n", "r", "body"}
    BY <1>3
  <2> QED BY <1>1, <1>3, <2>1, <2>3, <2>4 DEF StreamOK
<1> QED BY <1>2, <1>3, Zenon DEF KontRequestLine

(* Its body apart, the request at work stays the same. *)
LEMMA BodyGrows ==
  ASSUME StreamOK, NEW b, req' = [req EXCEPT !.body = b]
  PROVE  req'.n = req.n /\ req'.r = req.r /\ DOMAIN req' = {"n", "r", "body"}
<1>1. DOMAIN req = {"n", "r", "body"}
  BY DEF StreamOK
<1> QED BY <1>1, Zenon

(* A piece of a chunked body is taken off the buffer. *)
LEMMA ChunkedKeepsStream ==
  ASSUME IoOK, StreamOK, KontRequestChunked
  PROVE  StreamOK'
<1>1. UNCHANGED <<sent, rx, todo>> /\ Asked' = Asked /\ io.kont = "request_chunked"
  BY DEF KontRequestChunked, Asked, At, clientVars
<1>2. \E b : req' = [req EXCEPT !.body = b]
  BY Zenon DEF KontRequestChunked
<1>3. req'.n = req.n /\ req'.r = req.r /\ DOMAIN req' = {"n", "r", "body"}
  BY <1>2, BodyGrows
<1>4. buf' = << >> \/ \E e \in DOMAIN buf : buf' = SubSeq(buf, e + 1, Len(buf))
  BY Zenon DEF KontRequestChunked, ChunkRest
<1>5. buf' \in Seq(Asked)
  <2>1. CASE buf' = << >>
    BY <2>1
  <2>2. CASE \E e \in DOMAIN buf : buf' = SubSeq(buf, e + 1, Len(buf))
    <3>1. buf \in Seq(Asked)
      BY DEF StreamOK
    <3>2. PICK e \in DOMAIN buf : buf' = SubSeq(buf, e + 1, Len(buf))
      BY <2>2
    <3>3. e + 1 \in Int /\ e + 1 >= 1 /\ Len(buf) \in Int
      BY <3>1
    <3> QED BY <3>1, <3>2, <3>3, SubSeqType
  <2> QED BY <1>4, <2>1, <2>2
<1> QED BY <1>1, <1>3, <1>5 DEF StreamOK, Early

(* A piece of a body of known length is taken off the buffer. *)
LEMMA LengthKeepsStream ==
  ASSUME IoOK, StreamOK, KontRequestLength
  PROVE  StreamOK'
<1>1. UNCHANGED <<sent, rx, todo>> /\ Asked' = Asked /\ io.kont = "request_length"
  BY DEF KontRequestLength, Asked, At, clientVars
<1>2. \E b : req' = [req EXCEPT !.body = b]
  BY Zenon DEF KontRequestLength
<1>3. req'.n = req.n /\ req'.r = req.r /\ DOMAIN req' = {"n", "r", "body"}
  BY <1>2, BodyGrows
<1>4. LengthTaken \in Nat /\ LengthTaken <= Len(buf)
  <2>1. req.r \in RequestType
    BY <1>1 DEF StreamOK, Early
  <2>2. req.r.size \in Nat
    BY <2>1 DEF RequestType
  <2> QED BY <2>2 DEF LengthTaken, StreamOK
<1>5. buf' \in Seq(Asked)
  BY <1>4, SubSeqType DEF KontRequestLength, StreamOK
<1> QED BY <1>1, <1>3, <1>5 DEF StreamOK, Early

(* A read moves tokens from the socket to the buffer. *)
LEMMA ReadKeepsStream ==
  ASSUME IoOK, StreamOK, NEW kont \in ReadKonts, NEW next \in MemoryKonts,
         kont \in Early <=> next \in Early, Read(kont, next)
  PROVE  StreamOK'
<1>1. UNCHANGED <<sent, req, todo>> /\ Asked' = Asked /\ io.kont = kont /\ io' = GoOn(next)
  BY DEF Read, Called, Asked
<1>2. io'.kont = next
  BY <1>1, GoOnFields DEF IoOK, Konts
<1>3. buf' \in Seq(Asked) /\ rx' \in Seq(Asked)
  <2>1. PICK n \in Nat : /\ n >= 1 /\ n <= Len(rx)
                          /\ buf' = SubSeq(rx, 1, n) /\ rx' = SubSeq(rx, n + 1, Len(rx))
    BY DEF Read
  <2> QED BY <2>1, SubSeqType DEF StreamOK
<1> QED BY <1>1, <1>2, <1>3 DEF StreamOK

(* Every step keeps the tokens those of requests that were made. *)
LEMMA StepKeepsStream ==
  ASSUME ConnectionAssumption, IoOK, StreamOK, [ConnectionNext]_connectionVars
  PROVE  StreamOK'
<1> USE DEF lifeVars, ioVars, rspVars, clientVars, Konts, Early
<1>0. /\ io \in IoType /\ up \in BOOLEAN
      /\ buf \in Seq(Asked) /\ rx \in Seq(Asked) /\ todo \in Seq(Asked)
  BY DEF IoOK, StreamOK
<1>1. CASE MakeRequest
  BY <1>1, MakeRequestKeepsStream
<1>2. CASE SendToken
  <2>1. Head(todo) \in Asked /\ Tail(todo) \in Seq(Asked)
    BY <1>0, <1>2 DEF SendToken
  <2>2. rx' \in Seq(Asked) /\ todo' \in Seq(Asked)
    BY <1>0, <1>2, <2>1 DEF SendToken
  <2> QED BY <1>0, <1>2, <2>2, StreamStays DEF SendToken
<1>3. CASE HalfClose \/ Reset
  <2>1. UNCHANGED <<sent, req, buf, todo, io>> /\ rx' \in {rx, << >>}
    BY <1>3 DEF HalfClose, Reset
  <2>2. CASE rx' = rx
    BY <1>0, <2>1, <2>2, StreamStays
  <2>3. CASE rx' = << >>
    <3>1. << >> \in Seq(Asked)
      OBVIOUS
    <3> QED BY <1>0, <2>1, <2>3, <3>1, StreamStays
  <2> QED BY <2>1, <2>2, <2>3
<1>4. CASE OnAccept
  <2>1. /\ sent' = << >> /\ buf' = << >> /\ rx' = << >> /\ todo' = << >>
        /\ io'.kont = "request_line_read" /\ req' = NoRequest
    BY <1>4 DEF OnAccept
  <2>2. DOMAIN NoRequest = {"n", "r", "body"}
    BY DEF NoRequest
  <2> QED BY <2>1, <2>2 DEF StreamOK
<1>5. CASE OnTimer \/ ReadEof \/ IoFails
  <2>1. PICK reason : OnClose(reason)
    BY <1>5 DEF OnTimer, ReadEof, IoFails
  <2>2. io'.kont = "none"
    BY <1>0, <2>1, Zenon DEF OnClose, IoType
  <2> QED BY <1>0, <2>1, <2>2, StreamStays DEF OnClose
<1>6. CASE \/ KontRequestLineRead \/ KontRequestHeaderRead
           \/ KontRequestChunkedRead \/ KontRequestLengthRead
  BY <1>6, ReadKeepsStream DEF KontRequestLineRead, KontRequestHeaderRead,
     KontRequestChunkedRead, KontRequestLengthRead
<1>7. CASE KontRequestLine
  BY <1>7, LineKeepsStream
<1>8. CASE KontRequestHeader
  <2>1. /\ io.kont = "request_header" /\ UNCHANGED <<sent, req, rx, todo>>
        /\ buf' = buf \/ (buf # << >> /\ buf' = Tail(buf))
    BY <1>8 DEF KontRequestHeader, At
  <2>2. CASE buf' = buf
    BY <1>0, <2>1, <2>2, StreamStays
  <2>3. CASE buf # << >> /\ buf' = Tail(buf)
    <3>1. buf' \in Seq(Asked)
      BY <1>0, <2>3
    <3> QED BY <1>0, <2>1, <3>1, StreamStays
  <2> QED BY <2>1, <2>2, <2>3
<1>9. CASE KontRequestChunked
  BY <1>9, ChunkedKeepsStream
<1>10. CASE KontRequestLength
  BY <1>10, LengthKeepsStream
<1>11. CASE KontDispatch \/ KontResponse
  BY <1>0, <1>11, StreamStays DEF KontDispatch, KontResponse, At
<1>12. CASE KontResponseHeader \/ KontResponseFileLength \/ KontResponseBodyLength
  BY <1>0, <1>12, StreamStays DEF KontResponseHeader, KontResponseFileLength,
     KontResponseBodyLength, Called
<1>13. CASE KontResponseEnd
  <2>1. UNCHANGED <<sent, buf, rx, todo>> /\ req' = NoRequest /\ Asked' = Asked
    BY <1>13 DEF KontResponseEnd, Asked
  <2>2. io' = WaitFor("READ", "teardown") \/ io' = GoOn("request_line")
    BY <1>13 DEF KontResponseEnd, Teardown, NextRequest
  <2>3. io'.kont \in Early
    BY <1>0, <2>2, WaitForFields, GoOnFields
  <2>4. DOMAIN NoRequest = {"n", "r", "body"}
    BY DEF NoRequest
  <2> QED BY <2>1, <2>3, <2>4 DEF StreamOK
<1>14. CASE KontTeardown
  <2>1. PICK n \in 1..BufferSize : n <= Len(rx) /\ rx' = SubSeq(rx, n + 1, Len(rx))
    BY <1>14 DEF KontTeardown
  <2>2. rx' \in Seq(Asked)
    BY <1>0, <2>1, SubSeqType DEF ConnectionAssumption
  <2> QED BY <1>0, <1>14, <2>2, StreamStays DEF KontTeardown
<1>15. CASE UNCHANGED connectionVars
  BY <1>0, <1>15, StreamStays DEF connectionVars
<1> QED
  BY <1>1, <1>2, <1>3, <1>4, <1>5, <1>6, <1>7, <1>8, <1>9, <1>10, <1>11, <1>12, <1>13, <1>14, <1>15
  DEF ConnectionNext, Client, Server

-----------------------------------------------------------------------------
(* At the start there is no client and no file. *)
LEMMA InitConnection ==
  ASSUME ConnectionInit
  PROVE  ConnectionInv
<1>1. IoOK
  BY DEF ConnectionInit, Idle, IoOK, IoType, Konts
<1>2. FilesOK
  BY DEF ConnectionInit, FilesOK, NoFile
<1>3. StreamOK
  BY DEF ConnectionInit, StreamOK, Idle, Early, NoRequest
<1> QED BY <1>1, <1>2, <1>3 DEF ConnectionInv

(* For any requests, buffers, page sizes and numbers of requests and       *)
(* clients.                                                                *)
LEMMA ConnectionInvariant == ConnectionSpec => []ConnectionInv
<1>1. ConnectionInit => ConnectionInv
  BY InitConnection
<1>2. ConnectionInv /\ [ConnectionNext]_connectionVars => ConnectionInv'
  BY StepMoves, MovesKeepIo, StepKeepsFiles, StepKeepsStream, ConnectionAssumption
  DEF ConnectionInv
<1> QED BY <1>1, <1>2, PTL DEF ConnectionSpec

(* The loop of the server can rely on iowait_mask: a connection that       *)
(* waits, waits for the call its continuation makes (iocontinue).          *)
THEOREM ConnectionSafe == ConnectionSpec => []WaitsForItsCall
<1>1. ConnectionInv => WaitsForItsCall
  BY DEF ConnectionInv, IoOK, WaitsForItsCall
<1> QED BY <1>1, ConnectionInvariant, PTL

(* No file stays open but the one of the answer at work and those counted  *)
(* as lost at a close (on_close, kont_response_end).                       *)
THEOREM NoFileForgotten == ConnectionSpec => []FilesAccounted
<1>1. ConnectionInv => FilesAccounted
  BY DEF ConnectionInv, FilesOK, FileKonts, FilesAccounted
<1> QED BY <1>1, ConnectionInvariant, PTL

-----------------------------------------------------------------------------
(* The answers.  What is announced in a header is what the body will have, *)
(* and what was sent of it and what is left make up the whole, as long as  *)
(* no file changes.  One answer after the other.                           *)
Codes      == {200, 304, 400, 404, 405, 411, 413, 415, 500}
RspType    == [version : Nat, code : Codes, close : BOOLEAN, length : Int, size : Int,
               has_body : BOOLEAN]
AnswerType == [n : Nat, code : Codes, length : Int, body : BOOLEAN, got : Int,
               over : BOOLEAN, last : BOOLEAN]
SendKonts  == {"response_file_length", "response_body_length", "response_end"}

HasBody        == ~NoBody(req.r, rsp.code)
Announced      == HasBody => IF fd = NoFile THEN rsp.length = rsp.size
                                           ELSE FileChanges \/ rsp.length = fd
Bodiless(a)    == a.code = 304 \/ sent[a.n].method = "HEAD"
RightLength(a) == FileChanges \/ a.got = IF a.body THEN a.length ELSE 0

AnswerOK(k) ==
  /\ out[k].n \in DOMAIN sent /\ (~out[k].body <=> Bodiless(out[k]))
  /\ out[k].over => RightLength(out[k])
  /\ k < Len(out) => out[k].over

Sending(a) ==
  /\ io.kont = "response_file_length" => /\ ~a.over /\ a.body
                                         /\ FileChanges \/ a.length = a.got + fd
  /\ io.kont = "response_body_length" => ~a.over /\ a.body /\ a.length = wr.size /\ a.got = wr.pos
  /\ io.kont = "response_end" => RightLength(a)

AnswersOK ==
  /\ rsp \in RspType /\ wr \in [pos : Int, size : Int] /\ out \in Seq(AnswerType)
  /\ up /\ io.kont \in {"response", "response_header"} => Announced
  /\ up /\ io.kont = "response_header" => (rsp.has_body <=> HasBody)
  /\ \A k \in DOMAIN out : AnswerOK(k)
  /\ up /\ io.kont \in SendKonts => out # << >> /\ Sending(out[Len(out)])
  /\ up /\ io.kont \notin SendKonts /\ out # << >> => out[Len(out)].over

(* A page is a response, and announces the size it has. *)
LEMMA PageType ==
  ASSUME ConnectionAssumption, rsp \in RspType, NEW c \in Codes, NEW close \in BOOLEAN
  PROVE  Page(c, close) \in RspType /\ Page(c, close).size = Page(c, close).length
<1>1. PageSize \in Int
  BY DEF ConnectionAssumption
<1>2. Page(c, close) \in RspType
  BY <1>1, Zenon DEF Page, RspType
<1>3. Page(c, close).size = PageSize /\ Page(c, close).length = PageSize
  BY Zenon DEF Page, RspType
<1> QED BY <1>2, <1>3

(* So is an error page, *)
LEMMA ErrorPageType ==
  ASSUME ConnectionAssumption, rsp \in RspType, NEW c \in Codes
  PROVE  ErrorPage(c) \in RspType /\ ErrorPage(c).size = ErrorPage(c).length
<1> DEFINE close == c \in {400, 413, 415}
<1>1. close \in BOOLEAN
  OBVIOUS
<1>2. ErrorPage(c) = Page(c, close)
  BY Zenon DEF ErrorPage
<1> HIDE DEF close
<1> QED BY <1>1, <1>2, PageType

(* whatever version it answers in. *)
LEMMA VersionType ==
  ASSUME NEW page \in RspType, NEW v \in Nat
  PROVE  /\ [page EXCEPT !.version = v] \in RspType
         /\ [page EXCEPT !.version = v].size = page.size
         /\ [page EXCEPT !.version = v].length = page.length
BY Zenon DEF RspType

(* A step that sends nothing. *)
LEMMA AnswersStay ==
  ASSUME IoOK, AnswersOK, UNCHANGED <<wr, out, sent>>, rsp' \in RspType,
         up' => up /\ io.kont \notin SendKonts,
         up' => io'.kont \notin SendKonts \cup {"response_header"},
         up' /\ io'.kont = "response" => Announced'
  PROVE  AnswersOK'
<1>1. \A k \in DOMAIN out : AnswerOK(k)'
  BY DEF AnswersOK, AnswerOK, Bodiless, RightLength
<1> QED BY <1>1 DEF AnswersOK

(* A step of the client. *)
LEMMA ClientKeepsAnswers ==
  ASSUME StreamOK, AnswersOK, UNCHANGED <<io, rsp, fd, req, wr, out, up>>,
         sent' = sent \/ \E r : sent' = Append(sent, r)
  PROVE  AnswersOK'
<1>1. \A k \in DOMAIN sent : k \in DOMAIN sent' /\ sent'[k] = sent[k]
  <2>1. CASE sent' = sent
    BY <2>1
  <2>2. CASE \E r : sent' = Append(sent, r)
    <3>1. PICK r : sent' = Append(sent, r)
      BY <2>2
    <3> QED BY <3>1 DEF StreamOK
  <2> QED BY <2>1, <2>2
<1>2. \A k \in DOMAIN out : AnswerOK(k)'
  BY <1>1 DEF AnswersOK, AnswerOK, Bodiless, RightLength
<1>3. HasBody' = HasBody /\ Announced' = Announced
  BY DEF HasBody, Announced
<1>4. out # << >> => Sending(out[Len(out)])' = Sending(out[Len(out)])
  BY DEF Sending, RightLength
<1> QED BY <1>2, <1>3, <1>4 DEF AnswersOK

-----------------------------------------------------------------------------
(* The header of a file announces the size that stat () found. *)
LEMMA FileHeaderType ==
  ASSUME rsp \in RspType, NEW c \in Codes, NEW size \in Int
  PROVE  /\ FileHeader(c, size) \in RspType
         /\ FileHeader(c, size).code = c /\ FileHeader(c, size).length = size
BY Zenon DEF FileHeader, RspType

(* What the handlers announce is what there is to send, a file's size      *)
(* when its content did not change since stat ().                          *)
LEMMA DispatchAnnounces ==
  ASSUME ConnectionAssumption, IoOK, FilesOK, StreamOK, AnswersOK, KontDispatch
  PROVE  rsp' \in RspType /\ Announced'
<1>1. up = TRUE /\ fd = NoFile /\ io.kont = "dispatch" /\ req' = req /\ rsp \in RspType
  BY DEF KontDispatch, At, FilesOK, FileKonts, IoOK, AnswersOK
<1>2. ASSUME fd' = NoFile, NEW c \in Codes, NEW close \in BOOLEAN,
             rsp' = Page(c, close) \/ rsp' = ErrorPage(c)
      PROVE  rsp' \in RspType /\ Announced'
  BY <1>1, <1>2, PageType, ErrorPageType DEF Announced
<1>3. CASE fd' = fd /\ (rsp' = TestPage(req.r) \/ \E c \in {404, 405} : rsp' = ErrorPage(c))
  <2>1. \/ rsp' = Page(200, FALSE)
        \/ rsp' = ErrorPage(404)
        \/ rsp' = ErrorPage(405)
    BY <1>3 DEF TestPage
  <2>2. fd' = NoFile
    BY <1>1, <1>3
  <2>3. CASE rsp' = Page(200, FALSE)
    <3>1. FALSE \in BOOLEAN /\ 200 \in Codes
      BY DEF Codes
    <3> QED BY <1>2, <2>2, <2>3, <3>1, Zenon
  <2>4. CASE rsp' = ErrorPage(404)
    BY <1>2, <2>2, <2>4 DEF Codes
  <2>5. CASE rsp' = ErrorPage(405)
    BY <1>2, <2>2, <2>5 DEF Codes
  <2> QED BY <2>1, <2>3, <2>4, <2>5
<1>4. CASE \E size \in FileSizes, opens \in BOOLEAN :
             rsp' = FilePage(req.r, size, opens) /\ fd' \in BodyFd(req.r, size, opens)
  <2> DEFINE r == req.r
  <2>1. PICK size \in FileSizes, opens \in BOOLEAN :
           rsp' = FilePage(r, size, opens) /\ fd' \in BodyFd(r, size, opens)
    BY <1>4
  <2>2. r.cond \in {200, 304, 412}
    <3>1. r \in RequestType
      BY <1>1 DEF StreamOK, Early
    <3> QED BY <3>1 DEF RequestType
  <2>3. size \in Int /\ size # NoFile
    BY DEF ConnectionAssumption, NoFile
  <2>4. CASE r.cond = 412
    <3>1. rsp' = ErrorPage(411) /\ fd' = NoFile
      BY <2>1, <2>4 DEF BodyFd, FilePage
    <3> QED BY <1>2, <3>1 DEF Codes
  <2>5. CASE r.cond = 304 \/ (r.cond = 200 /\ r.method = "HEAD")
    <3>1. PICK c \in {200, 304} : /\ rsp' = FileHeader(c, size)
                                  /\ c = 304 \/ r.method = "HEAD"
      BY <2>1, <2>5 DEF FilePage
    <3>2. rsp' \in RspType /\ rsp'.code = c
      BY <1>1, <2>3, <3>1, FileHeaderType DEF Codes
    <3> QED BY <1>1, <3>1, <3>2 DEF Announced, HasBody, NoBody
  <2>6. CASE r.cond = 200 /\ r.method # "HEAD" /\ opens
    <3>0. BodyFd(r, size, opens) = IF FileChanges THEN FileSizes ELSE {size}
      BY <2>6, Zenon DEF BodyFd
    <3>1. FilePage(r, size, opens) = FileHeader(200, size)
      BY <2>6 DEF FilePage
    <3>2. /\ rsp' = FileHeader(200, size) /\ fd' # NoFile
          /\ FileChanges \/ fd' = size
      BY <2>1, <2>3, <3>0, <3>1 DEF ConnectionAssumption, NoFile
    <3>3. rsp' \in RspType /\ rsp'.length = size
      BY <1>1, <2>3, <3>2, FileHeaderType DEF Codes
    <3> QED BY <2>3, <3>2, <3>3 DEF Announced
  <2>7. CASE r.cond = 200 /\ r.method # "HEAD" /\ ~opens
    <3>0. BodyFd(r, size, opens) = {NoFile}
      BY <2>7, Zenon DEF BodyFd
    <3>1. FilePage(r, size, opens) = ErrorPage(404)
      BY <2>7 DEF FilePage
    <3>2. rsp' = ErrorPage(404) /\ fd' = NoFile
      BY <2>1, <3>0, <3>1
    <3> QED BY <1>2, <3>2 DEF Codes
  <2> QED BY <2>2, <2>4, <2>5, <2>6, <2>7
<1>5. \/ fd' = fd /\ rsp' = TestPage(req.r)
      \/ fd' = fd /\ \E c \in {404, 405} : rsp' = ErrorPage(c)
      \/ \E size \in FileSizes, opens \in BOOLEAN :
             rsp' = FilePage(req.r, size, opens) /\ fd' \in BodyFd(req.r, size, opens)
  BY DEF KontDispatch
<1> QED BY <1>3, <1>4, <1>5

-----------------------------------------------------------------------------
(* The answer that is being sent is the last one. *)
LEMMA LastChanged ==
  ASSUME NEW s \in Seq(AnswerType), s # << >>, NEW e \in AnswerType,
         NEW t, t = [s EXCEPT ![Len(s)] = e]
  PROVE  /\ t \in Seq(AnswerType) /\ Len(t) = Len(s) /\ t[Len(s)] = e /\ t # << >>
         /\ \A k \in DOMAIN s : k # Len(s) => t[k] = s[k]
OBVIOUS

(* Only the last answer changes, and stays the answer to its request. *)
LEMMA LastKeepsAnswers ==
  ASSUME AnswersOK, out # << >>, sent' = sent, NEW e \in AnswerType,
         out' = [out EXCEPT ![Len(out)] = e],
         e.n = out[Len(out)].n /\ e.code = out[Len(out)].code /\ e.body = out[Len(out)].body,
         e.over => RightLength(e)
  PROVE  /\ out' \in Seq(AnswerType) /\ out' # << >> /\ out'[Len(out')] = e
         /\ \A k \in DOMAIN out' : AnswerOK(k)'
<1>1. /\ out' \in Seq(AnswerType) /\ Len(out') = Len(out) /\ out'[Len(out)] = e /\ out' # << >>
      /\ \A k \in DOMAIN out : k # Len(out) => out'[k] = out[k]
  BY LastChanged DEF AnswersOK
<1>2. DOMAIN out' = DOMAIN out /\ Len(out) \in DOMAIN out
  BY <1>1 DEF AnswersOK
<1>3. ASSUME NEW k \in DOMAIN out, k # Len(out) PROVE AnswerOK(k)'
  BY <1>1, <1>3 DEF AnswersOK, AnswerOK, Bodiless, RightLength
<1>4. AnswerOK(Len(out))'
  BY <1>1, <1>2 DEF AnswersOK, AnswerOK, Bodiless, RightLength
<1> QED BY <1>1, <1>2, <1>3, <1>4

(* What is sent of a body is counted in the last answer, and changes       *)
(* nothing else of it.                                                     *)
LEMMA BodySentLast ==
  ASSUME out \in Seq(AnswerType), out # << >>, NEW n \in Int
  PROVE  \E e \in AnswerType :
            /\ BodySent(n) = [out EXCEPT ![Len(out)] = e]
            /\ e.n = out[Len(out)].n /\ e.code = out[Len(out)].code
            /\ e.body = out[Len(out)].body /\ e.length = out[Len(out)].length
            /\ e.over = out[Len(out)].over /\ e.got = out[Len(out)].got + n
            /\ e.last = out[Len(out)].last
<1> DEFINE a == out[Len(out)]
<1> DEFINE e == [a EXCEPT !.got = a.got + n]
<1>1. a \in AnswerType
  OBVIOUS
<1>2. a.got + n \in Int
  BY <1>1 DEF AnswerType
<1>3. BodySent(n) = [out EXCEPT ![Len(out)] = e]
  BY Zenon DEF BodySent
<1> HIDE DEF a
<1>4. e \in AnswerType
  BY <1>1, <1>2, Zenon DEF AnswerType
<1>5. /\ e.n = a.n /\ e.code = a.code /\ e.body = a.body /\ e.length = a.length
      /\ e.over = a.over /\ e.got = a.got + n /\ e.last = a.last
  BY <1>1, Zenon DEF AnswerType
<1> HIDE DEF e
<1> QED BY <1>3, <1>4, <1>5 DEF a

(* The end of an answer marks the last one, and changes nothing else of    *)
(* it.                                                                     *)
LEMMA EndLast ==
  ASSUME out \in Seq(AnswerType), out # << >>, NEW last \in BOOLEAN
  PROVE  \E e \in AnswerType :
            /\ [out EXCEPT ![Len(out)].over = TRUE, ![Len(out)].last = last]
                 = [out EXCEPT ![Len(out)] = e]
            /\ e.n = out[Len(out)].n /\ e.code = out[Len(out)].code
            /\ e.body = out[Len(out)].body /\ e.length = out[Len(out)].length
            /\ e.over = TRUE /\ e.got = out[Len(out)].got /\ e.last = last
<1> DEFINE a == out[Len(out)]
<1> DEFINE b == [a EXCEPT !.over = TRUE]
<1> DEFINE e == [b EXCEPT !.last = last]
<1> DEFINE s == [out EXCEPT ![Len(out)] = b]
<1>1. a \in AnswerType
  OBVIOUS
<1>2. [out EXCEPT ![Len(out)].over = TRUE, ![Len(out)].last = last]
        = [s EXCEPT ![Len(out)] = [s[Len(out)] EXCEPT !.last = last]]
  BY Zenon
<1> HIDE DEF a
<1>3. b \in AnswerType
  BY <1>1, Zenon DEF AnswerType
<1>4. e \in AnswerType
  BY <1>3, Zenon DEF AnswerType
<1>5. /\ e.n = a.n /\ e.code = a.code /\ e.body = a.body /\ e.length = a.length
      /\ e.over = TRUE /\ e.got = a.got
  BY <1>1, Zenon DEF AnswerType
<1>9. e.last = last
  BY <1>3, Zenon DEF AnswerType
<1> HIDE DEF b
<1>6. s[Len(out)] = b
  BY <1>3
<1>7. [s[Len(out)] EXCEPT !.last = last] = e
  BY <1>6, Zenon
<1> HIDE DEF e
<1>8. [s EXCEPT ![Len(out)] = e] = [out EXCEPT ![Len(out)] = e]
  BY <1>3, <1>4
<1> HIDE DEF s
<1> QED BY <1>2, <1>4, <1>5, <1>7, <1>8, <1>9 DEF a

-----------------------------------------------------------------------------
(* The steps that announce and send an answer. *)
LEMMA ResponseKeepsAnswers ==
  ASSUME ConnectionAssumption, IoOK, AnswersOK, KontResponse
  PROVE  AnswersOK'
<1> DEFINE b == ~NoBody(req.r, rsp.code)
<1> DEFINE c == rsp.close \/ rsp.length = NoLength
<1>1. /\ up = TRUE /\ up' = up /\ io.kont = "response" /\ rsp \in RspType /\ Announced
      /\ io' = WaitFor("WRITE", "response_header") /\ UNCHANGED <<fd, req, out, sent>>
  BY DEF KontResponse, At, IoOK, AnswersOK, lifeVars, clientVars
<1>2. b \in BOOLEAN /\ c \in BOOLEAN /\ b = HasBody
  BY DEF HasBody
<1>3. rsp' = [rsp EXCEPT !.has_body = b, !.close = c]
  BY Zenon DEF KontResponse
<1> HIDE DEF b, c
<1>4. /\ rsp' \in RspType /\ rsp'.has_body = b /\ rsp'.code = rsp.code
      /\ rsp'.length = rsp.length /\ rsp'.size = rsp.size
  BY <1>1, <1>2, <1>3, Zenon DEF RspType
<1>5. HasBody' = HasBody
  BY <1>1, <1>4 DEF HasBody
<1>6. Announced' /\ rsp'.has_body = HasBody'
  BY <1>1, <1>2, <1>4, <1>5 DEF Announced
<1>7. wr' \in [pos : Int, size : Int]
  BY DEF KontResponse, ConnectionAssumption
<1>8. io'.kont = "response_header"
  BY <1>1, WaitForFields DEF Konts
<1>9. \A k \in DOMAIN out : AnswerOK(k)'
  BY <1>1 DEF AnswersOK, AnswerOK, Bodiless, RightLength
<1> QED BY <1>1, <1>4, <1>6, <1>7, <1>8, <1>9 DEF AnswersOK, SendKonts

(* Of the codes the handlers use, 304 alone has no body. *)
LEMMA BodilessCodes ==
  ASSUME NEW c \in Codes, NEW r
  PROVE  NoBody(r, c) <=> c = 304 \/ r.method = "HEAD"
<1>1. c \notin 100..199 \cup {204}
  BY DEF Codes
<1> QED BY <1>1, Zenon DEF NoBody

(* The header is out: the answer joins the client's. *)
LEMMA HeaderStartsAnswer ==
  ASSUME IoOK, StreamOK, AnswersOK, up = TRUE, io.kont = "response_header",
         UNCHANGED <<sent, req>>, out' = Append(out, HeaderSent)
  PROVE  /\ out' \in Seq(AnswerType) /\ out' # << >>
         /\ out'[Len(out')] = HeaderSent
         /\ \A k \in DOMAIN out' : AnswerOK(k)'
<1>1. /\ rsp \in RspType /\ out \in Seq(AnswerType) /\ (rsp.has_body <=> HasBody)
      /\ req.n \in DOMAIN sent /\ req.r = sent[req.n]
  BY DEF AnswersOK, StreamOK, Early
<1>2. req.n \in Nat
  BY <1>1 DEF StreamOK
<1>3. /\ HeaderSent \in AnswerType /\ HeaderSent.n = req.n /\ HeaderSent.code = rsp.code
      /\ HeaderSent.body = rsp.has_body /\ HeaderSent.over = FALSE
  BY <1>1, <1>2 DEF HeaderSent, AnswerType, RspType
<1>4. ~rsp.has_body <=> rsp.code = 304 \/ sent[req.n].method = "HEAD"
  <2>1. rsp.code \in Codes
    BY <1>1 DEF RspType
  <2>2. NoBody(req.r, rsp.code) <=> rsp.code = 304 \/ req.r.method = "HEAD"
    BY <2>1, BodilessCodes
  <2> QED BY <1>1, <2>2 DEF HasBody
<1>5. /\ Len(out') = Len(out) + 1 /\ out'[Len(out) + 1] = HeaderSent
      /\ \A k \in DOMAIN out : k \in DOMAIN out' /\ out'[k] = out[k]
      /\ DOMAIN out' = DOMAIN out \cup {Len(out) + 1} /\ out' \in Seq(AnswerType)
  BY <1>1, <1>3
<1>6. ASSUME NEW k \in DOMAIN out PROVE AnswerOK(k)'
  <2>1. AnswerOK(k) /\ out[k].over
    BY <1>6 DEF AnswersOK, AnswerOK, SendKonts
  <2> QED BY <1>5, <2>1 DEF AnswerOK, Bodiless, RightLength
<1>7. ASSUME NEW k \in Nat, k = Len(out) + 1 PROVE AnswerOK(k)'
  <2>1. PICK a \in AnswerType : a = HeaderSent
    BY <1>3
  <2>2. /\ out'[k] = a /\ a.n \in DOMAIN sent' /\ ~a.over
        /\ ~a.body <=> a.code = 304 \/ sent'[a.n].method = "HEAD"
    BY <1>1, <1>3, <1>4, <1>5, <1>7, <2>1 DEF AnswerType
  <2>3. ~(k < Len(out'))
    BY <1>5, <1>7
  <2> QED BY <2>2, <2>3 DEF AnswerOK, Bodiless
<1>8. Len(out) + 1 \in Nat
  BY <1>1
<1> QED BY <1>1, <1>5, <1>6, <1>7, <1>8

(* A write moves wrpos only. *)
LEMMA PosGrows ==
  ASSUME wr \in [pos : Int, size : Int], NEW n \in Int, wr' = [wr EXCEPT !.pos = wr.pos + n]
  PROVE  /\ wr' \in [pos : Int, size : Int]
         /\ wr'.pos = wr.pos + n /\ wr'.size = wr.size
<1>1. wr.pos + n \in Int
  OBVIOUS
<1> QED BY <1>1, Zenon

(* The header is sent, and the answer begins. *)
LEMMA HeaderKeepsAnswers ==
  ASSUME ConnectionAssumption, IoOK, FilesOK, StreamOK, AnswersOK, KontResponseHeader
  PROVE  AnswersOK'
<1>1. /\ up = TRUE /\ up' = up /\ io.kont = "response_header" /\ UNCHANGED <<rsp, fd, req, sent>>
      /\ rsp \in RspType /\ wr \in [pos : Int, size : Int] /\ out \in Seq(AnswerType)
      /\ Announced /\ (rsp.has_body <=> HasBody) /\ io \in IoType /\ fd \in Int
  BY DEF KontResponseHeader, Called, IoOK, FilesOK, AnswersOK, lifeVars, clientVars
<1>2. PICK n \in 1..HeaderSize :
        \/ /\ wr' = [wr EXCEPT !.pos = wr.pos + n] /\ out' = out
           /\ io' = WaitFor("WRITE", "response_header")
        \/ /\ ~rsp.has_body
           /\ wr' = [wr EXCEPT !.pos = wr.pos + n] /\ out' = Append(out, HeaderSent)
           /\ io' = GoOn("response_end")
        \/ /\ rsp.has_body /\ out' = Append(out, HeaderSent)
           /\ wr' = [pos |-> 0, size |-> IF fd # NoFile THEN wr.size ELSE rsp.size]
           /\ io' = WaitFor("WRITE", IF fd # NoFile THEN "response_file_length"
                                                   ELSE "response_body_length")
  BY Zenon DEF KontResponseHeader
<1>3. n \in Int
  BY DEF ConnectionAssumption
<1>4. CASE wr' = [wr EXCEPT !.pos = wr.pos + n] /\ out' = out
           /\ io' = WaitFor("WRITE", "response_header")
  <2>1. wr' \in [pos : Int, size : Int] /\ io'.kont = "response_header"
    BY <1>1, <1>3, <1>4, PosGrows, WaitForFields DEF Konts
  <2>2. \A k \in DOMAIN out : AnswerOK(k)'
    BY <1>1, <1>4 DEF AnswersOK, AnswerOK, Bodiless, RightLength
  <2>3. Announced' /\ (rsp'.has_body <=> HasBody')
    BY <1>1 DEF Announced, HasBody
  <2> QED BY <1>1, <1>4, <2>1, <2>2, <2>3 DEF AnswersOK, SendKonts
<1>5. CASE ~rsp.has_body /\ wr' = [wr EXCEPT !.pos = wr.pos + n]
           /\ out' = Append(out, HeaderSent) /\ io' = GoOn("response_end")
  <2>1. wr' \in [pos : Int, size : Int] /\ io'.kont = "response_end"
    BY <1>1, <1>3, <1>5, PosGrows, GoOnFields DEF Konts
  <2>2. RightLength(HeaderSent)
    BY <1>5 DEF RightLength, HeaderSent
  <2>3. Sending(out[Len(out)])'
    BY <1>1, <1>5, <2>1, <2>2, HeaderStartsAnswer DEF Sending, RightLength
  <2> QED BY <1>1, <1>5, <2>1, <2>3, HeaderStartsAnswer DEF AnswersOK, SendKonts
<1>6. CASE rsp.has_body /\ out' = Append(out, HeaderSent)
           /\ wr' = [pos |-> 0, size |-> IF fd # NoFile THEN wr.size ELSE rsp.size]
           /\ io' = WaitFor("WRITE", IF fd # NoFile THEN "response_file_length"
                                                   ELSE "response_body_length")
  <2>1. /\ wr' \in [pos : Int, size : Int] /\ wr'.pos = 0
        /\ fd = NoFile => wr'.size = rsp.size
    BY <1>1, <1>6 DEF RspType
  <2>2. io'.kont = IF fd # NoFile THEN "response_file_length" ELSE "response_body_length"
    BY <1>6, WaitForFields DEF Konts
  <2>3. /\ HeaderSent.body /\ HeaderSent.got = 0 /\ HeaderSent.length = rsp.length
        /\ HeaderSent.over = FALSE
    BY <1>6 DEF HeaderSent
  <2>4. IF fd = NoFile THEN rsp.length = rsp.size ELSE FileChanges \/ rsp.length = fd
    BY <1>1, <1>6 DEF Announced
  <2>5. Sending(out[Len(out)])'
    BY <1>1, <1>6, <2>1, <2>2, <2>3, <2>4, HeaderStartsAnswer DEF Sending
  <2> QED BY <1>1, <1>6, <2>1, <2>2, <2>5, HeaderStartsAnswer DEF AnswersOK, SendKonts
<1> QED BY <1>2, <1>4, <1>5, <1>6

(* A piece of the file is sent. *)
LEMMA FileLengthKeepsAnswers ==
  ASSUME ConnectionAssumption, IoOK, FilesOK, AnswersOK, KontResponseFileLength
  PROVE  AnswersOK'
<1> DEFINE a == out[Len(out)]
<1>1. /\ up = TRUE /\ up' = up /\ UNCHANGED <<rsp, req, sent>> /\ fd \in Int
      /\ rsp \in RspType /\ wr \in [pos : Int, size : Int] /\ out \in Seq(AnswerType)
      /\ out # << >> /\ a \in AnswerType /\ io \in IoType
      /\ ~a.over /\ a.body /\ (FileChanges \/ a.length = a.got + fd)
  <2>1. up = TRUE /\ io.kont = "response_file_length"
    BY DEF KontResponseFileLength, Called, IoOK
  <2>2. out # << >> /\ Sending(a)
    BY <2>1 DEF AnswersOK, SendKonts
  <2>3. ~a.over /\ a.body /\ (FileChanges \/ a.length = a.got + fd)
    BY <2>1, <2>2 DEF Sending
  <2> HIDE DEF a
  <2>4. a \in AnswerType
    BY <2>2 DEF AnswersOK, a
  <2>5. UNCHANGED <<rsp, req, sent, up>>
    BY DEF KontResponseFileLength, lifeVars, clientVars
  <2> QED BY <2>1, <2>2, <2>3, <2>4, <2>5 DEF IoOK, FilesOK, AnswersOK
<1>2. CASE fd = 0 /\ io' = GoOn("response_end") /\ UNCHANGED <<fd, wr, out>>
  <2>1. io'.kont = "response_end"
    BY <1>1, <1>2, GoOnFields DEF Konts
  <2>2. RightLength(a)
    BY <1>1, <1>2 DEF RightLength, AnswerType
  <2>3. \A k \in DOMAIN out : AnswerOK(k)'
    BY <1>1, <1>2 DEF AnswersOK, AnswerOK, Bodiless, RightLength
  <2>4. Sending(out[Len(out)])'
    BY <1>2, <2>1, <2>2 DEF Sending, RightLength
  <2> QED BY <1>1, <1>2, <2>1, <2>3, <2>4 DEF AnswersOK, SendKonts
<1>3. CASE \E n \in 1..BufferSize :
             /\ fd' = fd - n /\ wr' = [wr EXCEPT !.pos = wr.pos + n] /\ out' = BodySent(n)
             /\ io' = WaitFor("WRITE", "response_file_length")
  <2>1. PICK n \in 1..BufferSize :
             /\ fd' = fd - n /\ wr' = [wr EXCEPT !.pos = wr.pos + n] /\ out' = BodySent(n)
             /\ io' = WaitFor("WRITE", "response_file_length")
    BY <1>3, Zenon
  <2>2. n \in Int
    BY DEF ConnectionAssumption
  <2>3. wr' \in [pos : Int, size : Int] /\ io'.kont = "response_file_length"
    BY <1>1, <2>1, <2>2, PosGrows, WaitForFields DEF Konts
  <2>4. PICK e \in AnswerType :
            /\ out' = [out EXCEPT ![Len(out)] = e]
            /\ e.n = a.n /\ e.code = a.code /\ e.body = a.body /\ e.length = a.length
            /\ e.over = a.over /\ e.got = a.got + n
    BY <1>1, <2>1, <2>2, BodySentLast
  <2>5. /\ out' \in Seq(AnswerType) /\ out' # << >> /\ out'[Len(out')] = e
        /\ \A k \in DOMAIN out' : AnswerOK(k)'
    BY <1>1, <2>4, LastKeepsAnswers
  <2>6. FileChanges \/ e.length = e.got + fd'
    <3>1. a.got \in Int /\ (FileChanges \/ a.length = a.got + fd) /\ fd \in Int
      BY <1>1 DEF AnswerType
    <3> HIDE DEF a
    <3> QED BY <2>1, <2>2, <2>4, <3>1
  <2>7. Sending(out[Len(out)])'
    BY <1>1, <2>3, <2>4, <2>5, <2>6 DEF Sending
  <2> QED BY <1>1, <2>3, <2>5, <2>7 DEF AnswersOK, SendKonts
<1> QED BY <1>2, <1>3 DEF KontResponseFileLength

(* A piece of the page is sent. *)
LEMMA BodyLengthKeepsAnswers ==
  ASSUME ConnectionAssumption, IoOK, AnswersOK, KontResponseBodyLength
  PROVE  AnswersOK'
<1> DEFINE a == out[Len(out)]
<1>1. /\ up = TRUE /\ up' = up /\ UNCHANGED <<rsp, req, sent, fd>>
      /\ rsp \in RspType /\ wr \in [pos : Int, size : Int] /\ out \in Seq(AnswerType)
      /\ out # << >> /\ a \in AnswerType /\ io \in IoType
      /\ ~a.over /\ a.body /\ a.length = wr.size /\ a.got = wr.pos
  BY DEF KontResponseBodyLength, Called, IoOK, AnswersOK, SendKonts, Sending, lifeVars, clientVars
<1>2. PICK n \in 1..PageSize :
        /\ wr' = [wr EXCEPT !.pos = wr.pos + n] /\ out' = BodySent(n)
        /\ io' = IF WrittenAll(n) THEN GoOn("response_end")
                                  ELSE WaitFor("WRITE", "response_body_length")
  BY Zenon DEF KontResponseBodyLength
<1>3. n \in Int
  BY DEF ConnectionAssumption
<1>4. /\ wr' \in [pos : Int, size : Int] /\ wr'.pos = wr.pos + n /\ wr'.size = wr.size
      /\ io'.kont = IF WrittenAll(n) THEN "response_end" ELSE "response_body_length"
  BY <1>1, <1>2, <1>3, PosGrows, GoOnFields, WaitForFields DEF Konts
<1>5. PICK e \in AnswerType :
          /\ out' = [out EXCEPT ![Len(out)] = e]
          /\ e.n = a.n /\ e.code = a.code /\ e.body = a.body /\ e.length = a.length
          /\ e.over = a.over /\ e.got = a.got + n
  BY <1>1, <1>2, <1>3, BodySentLast
<1>6. /\ out' \in Seq(AnswerType) /\ out' # << >> /\ out'[Len(out')] = e
      /\ \A k \in DOMAIN out' : AnswerOK(k)'
  BY <1>1, <1>5, LastKeepsAnswers
<1>7. e.body /\ ~e.over /\ e.length = wr'.size /\ e.got = wr'.pos
  BY <1>1, <1>4, <1>5
<1>8. WrittenAll(n) => e.got = e.length
  BY <1>4, <1>7 DEF WrittenAll
<1>9. Sending(out[Len(out)])'
  BY <1>4, <1>6, <1>7, <1>8 DEF Sending, RightLength
<1> QED BY <1>1, <1>4, <1>6, <1>9 DEF AnswersOK, SendKonts

(* The answer is over, with the length it announced. *)
LEMMA EndKeepsAnswers ==
  ASSUME IoOK, AnswersOK, KontResponseEnd
  PROVE  AnswersOK'
<1> DEFINE a == out[Len(out)]
<1> DEFINE last == DoneConnection
<1>1. /\ up = TRUE /\ up' = up /\ UNCHANGED <<sent, wr>> /\ rsp' = FreshResponse
      /\ wr \in [pos : Int, size : Int] /\ out \in Seq(AnswerType)
      /\ out # << >> /\ a \in AnswerType /\ io \in IoType /\ RightLength(a)
  BY DEF KontResponseEnd, At, IoOK, AnswersOK, SendKonts, Sending, lifeVars, clientVars
<1>2. last \in BOOLEAN
  BY DEF DoneConnection
<1>3. out' = [out EXCEPT ![Len(out)].over = TRUE, ![Len(out)].last = last]
  BY Zenon DEF KontResponseEnd
<1>4. io' = WaitFor("READ", "teardown") \/ io' = GoOn("request_line")
  BY DEF KontResponseEnd, Teardown, NextRequest
<1>5. io'.kont \in {"teardown", "request_line"}
  BY <1>1, <1>4, WaitForFields, GoOnFields DEF Konts
<1> HIDE DEF last
<1>6. PICK e \in AnswerType :
          /\ out' = [out EXCEPT ![Len(out)] = e]
          /\ e.n = a.n /\ e.code = a.code /\ e.body = a.body /\ e.length = a.length
          /\ e.over = TRUE /\ e.got = a.got
  BY <1>1, <1>2, <1>3, EndLast
<1>7. RightLength(e)
  BY <1>1, <1>6 DEF RightLength
<1>8. /\ out' \in Seq(AnswerType) /\ out' # << >> /\ out'[Len(out')] = e
      /\ \A k \in DOMAIN out' : AnswerOK(k)'
  BY <1>1, <1>6, <1>7, LastKeepsAnswers
<1>9. FreshResponse \in RspType
  BY DEF FreshResponse, RspType, Codes, NoLength
<1> QED BY <1>1, <1>5, <1>6, <1>8, <1>9 DEF AnswersOK, SendKonts

-----------------------------------------------------------------------------
(* The request is refused, or goes on. *)
LEMMA RequestHeaderKeepsAnswers ==
  ASSUME ConnectionAssumption, IoOK, FilesOK, StreamOK, AnswersOK, KontRequestHeader
  PROVE  AnswersOK'
<1>1. /\ up = TRUE /\ up' = up /\ io.kont = "request_header" /\ io \in IoType
      /\ UNCHANGED <<wr, out, sent, fd, req>> /\ rsp \in RspType /\ fd = NoFile
      /\ req.r \in RequestType
  BY DEF KontRequestHeader, At, IoOK, FilesOK, FileKonts, StreamOK, Early, AnswersOK,
     lifeVars, clientVars
<1>2. CASE io' = WaitFor("READ", "request_header_read") /\ UNCHANGED <<buf, dec, rsp>>
  <2>1. io'.kont = "request_header_read"
    BY <1>2, WaitForFields DEF Konts
  <2> QED BY <1>1, <1>2, <2>1, AnswersStay DEF SendKonts
<1>3. CASE \E line, head : PrepareRequestBody(line, head)
  <2>1. req.r.version \in Nat
    BY <1>1 DEF RequestType
  <2>2. CASE io' = GoOn(BodyKont(req.r)) /\ rsp' = [rsp EXCEPT !.version = req.r.version]
    <3>1. io'.kont \in {"request_chunked", "request_length", "dispatch"}
      BY <1>1, <2>2, GoOnFields, BodyKontValue DEF Konts
    <3>2. rsp' \in RspType
      BY <1>1, <2>1, <2>2, VersionType
    <3> QED BY <1>1, <3>1, <3>2, AnswersStay DEF SendKonts
  <2>3. CASE /\ io' = GoOn("response")
             /\ \E code \in {400, 413, 415} :
                  \/ rsp' = ErrorPage(code)
                  \/ rsp' = [ErrorPage(code) EXCEPT !.version = req.r.version]
    <3>1. io'.kont = "response"
      BY <1>1, <2>3, GoOnFields DEF Konts
    <3>2. rsp' \in RspType /\ rsp'.size = rsp'.length
      <4>1. PICK code \in {400, 413, 415} :
                  \/ rsp' = ErrorPage(code)
                  \/ rsp' = [ErrorPage(code) EXCEPT !.version = req.r.version]
        BY <2>3, Zenon
      <4>2. ErrorPage(code) \in RspType /\ ErrorPage(code).size = ErrorPage(code).length
        BY <1>1, ErrorPageType DEF Codes
      <4>3. CASE rsp' = ErrorPage(code)
        BY <4>2, <4>3
      <4>4. CASE rsp' = [ErrorPage(code) EXCEPT !.version = req.r.version]
        <5> DEFINE page == ErrorPage(code)
        <5> HIDE DEF page
        <5>1. /\ page \in RspType /\ page.size = page.length
              /\ rsp' = [page EXCEPT !.version = req.r.version]
          BY <4>2, <4>4 DEF page
        <5> QED BY <2>1, <5>1, VersionType
      <4> QED BY <4>1, <4>3, <4>4
    <3>3. Announced'
      BY <1>1, <3>2 DEF Announced
    <3> QED BY <1>1, <3>1, <3>2, <3>3, AnswersStay DEF SendKonts
  <2> QED BY <1>3, <2>2, <2>3, Prepares
<1> QED BY <1>2, <1>3 DEF KontRequestHeader

(* A body with a coding error is refused with a page of the announced      *)
(* size.                                                                   *)
LEMMA ChunkedKeepsAnswers ==
  ASSUME ConnectionAssumption, IoOK, FilesOK, AnswersOK, KontRequestChunked
  PROVE  AnswersOK'
<1>1. /\ up = TRUE /\ up' = up /\ io.kont = "request_chunked" /\ io \in IoType
      /\ UNCHANGED <<wr, out, sent, fd>> /\ rsp \in RspType /\ fd = NoFile
  BY DEF KontRequestChunked, At, IoOK, FilesOK, FileKonts, AnswersOK, lifeVars, clientVars
<1>2. \/ io' = WaitFor("READ", "request_chunked_read") /\ rsp' = rsp
      \/ io' = GoOn("dispatch") /\ rsp' = rsp
      \/ io' = GoOn("response") /\ rsp' = [ErrorPage(400) EXCEPT !.version = rsp.version]
  BY DEF KontRequestChunked
<1>3. CASE io' = WaitFor("READ", "request_chunked_read") /\ rsp' = rsp
  <2>1. io'.kont = "request_chunked_read"
    BY <1>3, WaitForFields DEF Konts
  <2> QED BY <1>1, <1>3, <2>1, AnswersStay DEF SendKonts
<1>4. CASE io' = GoOn("dispatch") /\ rsp' = rsp
  <2>1. io'.kont = "dispatch"
    BY <1>1, <1>4, GoOnFields DEF Konts
  <2> QED BY <1>1, <1>4, <2>1, AnswersStay DEF SendKonts
<1>5. CASE io' = GoOn("response") /\ rsp' = [ErrorPage(400) EXCEPT !.version = rsp.version]
  <2>1. io'.kont = "response"
    BY <1>1, <1>5, GoOnFields DEF Konts
  <2>2. ErrorPage(400) \in RspType /\ ErrorPage(400).size = ErrorPage(400).length
    BY <1>1, ErrorPageType DEF Codes
  <2>3. rsp.version \in Nat
    BY <1>1 DEF RspType
  <2>4. rsp' \in RspType /\ rsp'.size = rsp'.length
    BY <1>5, <2>2, <2>3, VersionType
  <2>5. Announced'
    BY <1>1, <2>4 DEF Announced
  <2> QED BY <1>1, <2>1, <2>4, <2>5, AnswersStay DEF SendKonts
<1> QED BY <1>2, <1>3, <1>4, <1>5

(* Every step keeps the answers as they were announced. *)
LEMMA StepKeepsAnswers ==
  ASSUME ConnectionAssumption, IoOK, FilesOK, StreamOK, AnswersOK, [ConnectionNext]_connectionVars
  PROVE  AnswersOK'
<1> USE DEF lifeVars, ioVars, rspVars, clientVars, SendKonts, Konts
<1>0. io \in IoType /\ up \in BOOLEAN /\ rsp \in RspType
  BY DEF IoOK, AnswersOK
<1>1. CASE Client
  BY <1>1, ClientKeepsAnswers DEF Client, MakeRequest, SendToken, HalfClose, Reset
<1>2. CASE OnAccept
  <2>1. /\ rsp' = FreshResponse /\ out' = << >> /\ wr' = wr
        /\ io'.kont = "request_line_read"
    BY <1>2 DEF OnAccept
  <2>2. FreshResponse \in RspType
    BY DEF FreshResponse, RspType, Codes, NoLength
  <2> QED BY <2>1, <2>2 DEF AnswersOK
<1>3. CASE OnTimer \/ ReadEof \/ IoFails
  <2>1. PICK reason : OnClose(reason)
    BY <1>3 DEF OnTimer, ReadEof, IoFails
  <2>2. up' = FALSE
    BY <2>1 DEF OnClose
  <2> QED BY <1>0, <2>1, <2>2, AnswersStay DEF OnClose
<1>4. CASE \/ KontRequestLineRead \/ KontRequestHeaderRead
           \/ KontRequestChunkedRead \/ KontRequestLengthRead
  <2>1. PICK kont \in ReadKonts,
             next \in {"request_line", "request_header", "request_chunked", "request_length"} :
          Read(kont, next)
    BY <1>4 DEF KontRequestLineRead, KontRequestHeaderRead, KontRequestChunkedRead,
       KontRequestLengthRead
  <2>2. io.kont = kont /\ io'.kont = next
    BY <1>0, <2>1, GoOnFields DEF Read, Called
  <2> QED BY <1>0, <2>1, <2>2, AnswersStay DEF Read
<1>5. CASE KontRequestLine
  <2>1. io' = WaitFor("READ", "request_line_read") \/ io' = GoOn("request_header")
    BY <1>5 DEF KontRequestLine
  <2>2. io'.kont \in {"request_line_read", "request_header"}
    BY <1>0, <2>1, WaitForFields, GoOnFields
  <2> QED BY <1>0, <1>5, <2>2, AnswersStay DEF KontRequestLine, At
<1>6. CASE KontRequestHeader
  BY <1>6, RequestHeaderKeepsAnswers
<1>7. CASE KontRequestChunked
  BY <1>7, ChunkedKeepsAnswers
<1>8. CASE KontRequestLength
  <2>1. io' = WaitFor("READ", "request_length_read") \/ io' = GoOn("dispatch")
    BY <1>8 DEF KontRequestLength
  <2>2. io'.kont \in {"request_length_read", "dispatch"}
    BY <1>0, <2>1, WaitForFields, GoOnFields
  <2> QED BY <1>0, <1>8, <2>2, AnswersStay DEF KontRequestLength, At
<1>9. CASE KontDispatch
  <2>1. rsp' \in RspType /\ Announced'
    BY <1>9, DispatchAnnounces
  <2>2. io'.kont = "response"
    BY <1>0, <1>9, GoOnFields DEF KontDispatch
  <2> QED BY <1>0, <1>9, <2>1, <2>2, AnswersStay DEF KontDispatch, At
<1>10. CASE KontResponse
  BY <1>10, ResponseKeepsAnswers
<1>11. CASE KontResponseHeader
  BY <1>11, HeaderKeepsAnswers
<1>12. CASE KontResponseFileLength
  BY <1>12, FileLengthKeepsAnswers
<1>13. CASE KontResponseBodyLength
  BY <1>13, BodyLengthKeepsAnswers
<1>14. CASE KontResponseEnd
  BY <1>14, EndKeepsAnswers
<1>15. CASE KontTeardown
  BY <1>0, <1>15, AnswersStay DEF KontTeardown, Called
<1>16. CASE UNCHANGED connectionVars
  BY <1>16, ClientKeepsAnswers DEF connectionVars
<1> QED
  BY <1>1, <1>2, <1>3, <1>4, <1>5, <1>6, <1>7, <1>8, <1>9, <1>10, <1>11, <1>12, <1>13, <1>14,
     <1>15, <1>16
  DEF ConnectionNext, Server

(* For any requests, files, buffers and pages.                             *)
LEMMA AnswersInvariant == ConnectionSpec => [](ConnectionInv /\ AnswersOK)
<1>1. ConnectionInit => ConnectionInv /\ AnswersOK
  <2>1. ConnectionInit => AnswersOK
    BY DEF ConnectionInit, AnswersOK, FreshResponse, RspType, Codes, NoLength, Idle
  <2> QED BY <2>1, InitConnection
<1>2. ConnectionInv /\ AnswersOK /\ [ConnectionNext]_connectionVars =>
        ConnectionInv' /\ AnswersOK'
  BY StepMoves, MovesKeepIo, StepKeepsFiles, StepKeepsStream, StepKeepsAnswers,
     ConnectionAssumption
  DEF ConnectionInv
<1> QED BY <1>1, <1>2, PTL DEF ConnectionSpec

(* A client that frames answers by their header is never misled (prepare_  *)
(* response, prepare_response_body, the kont_response functions), as long  *)
(* as no file changes its size between stat () and sendfile ().            *)
THEOREM AnswersFramed == ASSUME ~FileChanges PROVE ConnectionSpec => []FramedByLength
<1>1. AnswersOK => FramedByLength
  BY DEF AnswersOK, AnswerOK, RightLength, Bodiless, FramedByLength
<1> QED BY <1>1, AnswersInvariant, PTL

-----------------------------------------------------------------------------
(* The requests in the stream.  W is all the client has written or will    *)
(* write of its requests, request k after its first f[k] tokens; the       *)
(* server has taken a of them.                                             *)
Three(b, r, t) == (b \o r) \o t

Rest == Three(buf, rx, todo)

Follows(W, f) ==
  /\ W \in Seq(Token) /\ f \in [1..(Len(sent) + 1) -> Nat]
  /\ f[Len(sent) + 1] = Len(W)
  /\ \A k, l \in DOMAIN f : k < l => f[k] < f[l]
  /\ \A k \in DOMAIN sent : f[k + 1] = f[k] + Len(Tokens(k, sent[k]))
  /\ \A k \in DOMAIN sent : \A j \in DOMAIN Tokens(k, sent[k]) :
       W[f[k] + j] = Tokens(k, sent[k])[j]

From(W, a) ==
  /\ a \in Nat /\ Len(W) = a + Len(Rest)
  /\ \A i \in DOMAIN Rest : Rest[i] = W[a + i]

(* What a client writes of a request. *)
LEMMA TokensAre ==
  ASSUME NEW k \in Nat, NEW r \in RequestType
  PROVE  LET T    == Tokens(k, r)
             more == IF r.te \in {"chunked", "torn"} THEN 1 ELSE 0
         IN  /\ T \in Seq(Token) /\ Len(T) = 2 + r.size + more /\ r.size \in Nat
             /\ T[1] = Tok(k, "line", r) /\ T[2] = Tok(k, "header", r)
             /\ \A j \in 3..(2 + r.size) : T[j] = Tok(k, "body", r)
             /\ more = 1 => T[3 + r.size] = Tok(k, "end", r)
<1> DEFINE A == <<Tok(k, "line", r), Tok(k, "header", r)>>
           B == [i \in 1..r.size |-> Tok(k, "body", r)]
           C == IF r.te \in {"chunked", "torn"} THEN <<Tok(k, "end", r)>> ELSE << >>
           more == IF r.te \in {"chunked", "torn"} THEN 1 ELSE 0
<1>1. r.size \in Nat
  BY DEF RequestType
<1>2. \A part \in {"line", "header", "body", "end"} : Tok(k, part, r) \in Token
  BY DEF Tok, Token
<1>3. A \in Seq(Token) /\ Len(A) = 2 /\ A[1] = Tok(k, "line", r) /\ A[2] = Tok(k, "header", r)
  BY <1>2
<1>4. B \in Seq(Token) /\ Len(B) = r.size /\ \A i \in 1..r.size : B[i] = Tok(k, "body", r)
  BY <1>1, <1>2
<1>5. C \in Seq(Token) /\ Len(C) = more /\ (more = 1 => C[1] = Tok(k, "end", r))
  BY <1>2
<1>6. Tokens(k, r) = (A \o B) \o C
  BY DEF Tokens
<1>7. more \in {0, 1}
  OBVIOUS
<1> HIDE DEF A, B, C, more
<1> DEFINE D == A \o B
<1>8. /\ D \in Seq(Token) /\ Len(D) = 2 + r.size
      /\ \A i \in 1..(2 + r.size) : D[i] = IF i <= 2 THEN A[i] ELSE B[i - 2]
  <2>1. /\ D \in Seq(Token) /\ Len(D) = Len(A) + Len(B)
        /\ \A i \in 1..(Len(A) + Len(B)) : D[i] = IF i <= Len(A) THEN A[i] ELSE B[i - Len(A)]
    BY <1>3, <1>4, ConcatProperties
  <2> HIDE DEF D
  <2> QED BY <1>3, <1>4, <2>1
<1> HIDE DEF D
<1>9. /\ D \o C \in Seq(Token) /\ Len(D \o C) = 2 + r.size + more
      /\ \A j \in 1..(2 + r.size + more) :
           (D \o C)[j] = IF j <= 2 + r.size THEN D[j] ELSE C[j - (2 + r.size)]
  <2> DEFINE E == D \o C
  <2>1. /\ E \in Seq(Token) /\ Len(E) = Len(D) + Len(C)
        /\ \A i \in 1..(Len(D) + Len(C)) : E[i] = IF i <= Len(D) THEN D[i] ELSE C[i - Len(D)]
    BY <1>5, <1>8, ConcatProperties
  <2> HIDE DEF E
  <2>2. /\ E \in Seq(Token) /\ Len(E) = 2 + r.size + more
        /\ \A j \in 1..(2 + r.size + more) :
             E[j] = IF j <= 2 + r.size THEN D[j] ELSE C[j - (2 + r.size)]
    BY <1>5, <1>8, <2>1
  <2> QED BY <2>2 DEF E
<1>10. Tokens(k, r) = D \o C
  BY <1>6 DEF D
<1>11. \A j \in 3..(2 + r.size) : Tokens(k, r)[j] = Tok(k, "body", r)
  <2> TAKE j \in 3..(2 + r.size)
  <2>1. j - 2 \in 1..r.size /\ ~(j <= 2) /\ j <= 2 + r.size /\ j \in 1..(2 + r.size)
    BY <1>1
  <2>2. j \in 1..(2 + r.size + more)
    BY <1>1, <1>7, <2>1
  <2>3. (D \o C)[j] = D[j]
    BY <1>9, <2>1, <2>2
  <2>4. D[j] = B[j - 2]
    BY <1>8, <2>1
  <2> QED BY <1>4, <1>10, <2>1, <2>3, <2>4
<1>12. /\ Tokens(k, r)[1] = Tok(k, "line", r) /\ Tokens(k, r)[2] = Tok(k, "header", r)
       /\ more = 1 => Tokens(k, r)[3 + r.size] = Tok(k, "end", r)
  <2> DEFINE E == D \o C
  <2>1. /\ Len(E) = 2 + r.size + more
        /\ \A j \in 1..(2 + r.size + more) :
             E[j] = IF j <= 2 + r.size THEN D[j] ELSE C[j - (2 + r.size)]
    BY <1>9
  <2> HIDE DEF E
  <2>2. E[1] = D[1] /\ E[2] = D[2] /\ D[1] = A[1] /\ D[2] = A[2]
    BY <1>1, <1>7, <1>8, <2>1
  <2>3. more = 1 => E[3 + r.size] = C[1]
    BY <1>1, <2>1
  <2> QED BY <1>3, <1>5, <1>10, <2>2, <2>3 DEF E
<1>13. more = IF r.te \in {"chunked", "torn"} THEN 1 ELSE 0
  BY DEF more
<1> QED BY <1>1, <1>9, <1>10, <1>11, <1>12, <1>13

Joined(s, b, r, t) ==
  /\ Len(s) = Len(b) + Len(r) + Len(t)
  /\ \A i \in 1..Len(s) :
       s[i] = IF i <= Len(b) THEN b[i]
              ELSE IF i <= Len(b) + Len(r) THEN r[i - Len(b)]
              ELSE t[i - (Len(b) + Len(r))]

(* Three sequences, one after the other. *)
LEMMA ThreeParts ==
  ASSUME NEW S, NEW b \in Seq(S), NEW r \in Seq(S), NEW t \in Seq(S)
  PROVE  Three(b, r, t) \in Seq(S) /\ Joined(Three(b, r, t), b, r, t)
<1> DEFINE C == b \o r
           s == C \o t
<1>1. /\ C \in Seq(S) /\ Len(C) = Len(b) + Len(r)
      /\ \A i \in 1..(Len(b) + Len(r)) : C[i] = IF i <= Len(b) THEN b[i] ELSE r[i - Len(b)]
  BY ConcatProperties
<1> HIDE DEF C
<1>2. /\ s \in Seq(S) /\ Len(s) = Len(C) + Len(t)
      /\ \A i \in 1..(Len(C) + Len(t)) : s[i] = IF i <= Len(C) THEN C[i] ELSE t[i - Len(C)]
  <2>1. C \in Seq(S)
    BY <1>1
  <2> QED BY <2>1, ConcatProperties, Zenon
<1>3. Len(b) \in Nat /\ Len(r) \in Nat /\ Len(t) \in Nat
  OBVIOUS
<1> HIDE DEF s
<1>4. ASSUME NEW i \in 1..Len(s)
      PROVE  s[i] = IF i <= Len(b) THEN b[i]
                    ELSE IF i <= Len(b) + Len(r) THEN r[i - Len(b)]
                    ELSE t[i - (Len(b) + Len(r))]
  BY <1>1, <1>2, <1>3
<1>5. Three(b, r, t) = s
  BY DEF s, C, Three
<1>6. Joined(s, b, r, t)
  BY <1>1, <1>2, <1>3, <1>4 DEF Joined
<1> QED BY <1>2, <1>5, <1>6

(* A token goes from the client to the socket. *)
LEMMA Regroup ==
  ASSUME NEW S, NEW b \in Seq(S), NEW r \in Seq(S), NEW t \in Seq(S), t # << >>
  PROVE  Three(b, Append(r, Head(t)), Tail(t)) = Three(b, r, t)
<1> DEFINE h == <<Head(t)>>
           u == Tail(t)
<1>1. h \in Seq(S) /\ u \in Seq(S)
  BY HeadTailProperties
<1>2. t = h \o u
  <2>1. Len(t) \in Nat \ {0}
    BY EmptySeq
  <2>2. t = SubSeq(t, 1, Len(t)) /\ Tail(t) = SubSeq(t, 2, Len(t))
    BY SubSeqFull, TailIsSubSeq
  <2>3. SubSeq(t, 1, Len(t)) = <<t[1]>> \o SubSeq(t, 1 + 1, Len(t))
    BY <2>1, SubSeqRecursiveFirst
  <2> QED BY <2>2, <2>3
<1>3. Append(r, Head(t)) = r \o h
  BY <1>1, HeadTailProperties, AppendIsConcat
<1> HIDE DEF h
<1>4. b \o r \in Seq(S)
  BY ConcatProperties
<1>5. b \o (r \o h) = (b \o r) \o h
  BY <1>1, ConcatAssociative
<1>6. ((b \o r) \o h) \o u = (b \o r) \o (h \o u)
  <2> DEFINE c == b \o r
  <2>1. c \in Seq(S)
    BY <1>4
  <2> HIDE DEF c, u
  <2>2. (c \o h) \o u = c \o (h \o u)
    BY <1>1, <2>1, ConcatAssociative
  <2> QED BY <2>2 DEF c
<1>7. (b \o Append(r, Head(t))) \o Tail(t) = (b \o r) \o t
  BY <1>2, <1>3, <1>5, <1>6
<1> QED BY <1>7 DEF Three

(* The buffer is filled from the socket. *)
LEMMA Refill ==
  ASSUME NEW S, NEW r \in Seq(S), NEW t, NEW n \in 1..Len(r)
  PROVE  (SubSeq(r, 1, n) \o SubSeq(r, n + 1, Len(r))) \o t = (<< >> \o r) \o t
<1>1. Len(r) \in Nat
  BY LenProperties
<1>2. 1 \in 1..Len(r) + 1 /\ n \in 1 - 1..Len(r) /\ Len(r) \in n..Len(r)
  BY <1>1
<1>3. SubSeq(r, 1, n) \o SubSeq(r, n + 1, Len(r)) = SubSeq(r, 1, Len(r))
  BY <1>2, ConcatAdjacentSubSeq
<1>4. SubSeq(r, 1, Len(r)) = r /\ << >> \o r = r
  BY SubSeqFull, ConcatEmptySeq
<1> QED BY <1>3, <1>4

Dropped(d, s, b, c) ==
  /\ Len(d) = Len(s) - c /\ Len(d) \in Nat
  /\ \A i \in 1..Len(b) : s[i] = b[i] /\ i \in 1..Len(s)
  /\ \A i \in 1..Len(d) : d[i] = s[c + i]

(* The first c of the buffer are taken. *)
LEMMA Drop ==
  ASSUME NEW S, NEW b \in Seq(S), NEW r \in Seq(S), NEW t \in Seq(S), NEW c \in 0..Len(b),
         NEW D, D = SubSeq(b, c + 1, Len(b))
  PROVE  /\ D \in Seq(S) /\ Three(D, r, t) \in Seq(S)
         /\ Dropped(Three(D, r, t), Three(b, r, t), b, c)
<1> DEFINE s == Three(b, r, t)
           d == Three(D, r, t)
<1>1. Len(b) \in Nat /\ Len(r) \in Nat /\ Len(t) \in Nat /\ c \in Nat
  BY LenProperties
<1>2. /\ D \in Seq(S) /\ Len(D) = Len(b) - c
      /\ \A i \in 1..(Len(b) - c) : D[i] = b[c + i]
  <2>1. \A i \in (c + 1)..Len(b) : b[i] \in S
    BY <1>1, ElementOfSeq
  <2> DEFINE E == SubSeq(b, c + 1, Len(b))
  <2>2. /\ E \in Seq(S) /\ Len(E) = IF c + 1 <= Len(b) THEN Len(b) - (c + 1) + 1 ELSE 0
        /\ \A i \in 1..(Len(b) - (c + 1) + 1) : E[i] = b[c + 1 + i - 1]
    BY <1>1, <2>1, SubSeqProperties
  <2>3. D = E
    OBVIOUS
  <2> HIDE DEF E
  <2> QED BY <1>1, <2>2, <2>3
<1>3. s \in Seq(S) /\ Joined(s, b, r, t)
  BY ThreeParts
<1>4. d \in Seq(S) /\ Joined(d, D, r, t)
  <2>1. D \in Seq(S)
    BY <1>2
  <2> QED BY <2>1, ThreeParts, Zenon
<1> HIDE DEF s, d
<1>5. /\ s \in Seq(S) /\ Len(s) = Len(b) + Len(r) + Len(t)
      /\ \A i \in 1..Len(s) :
           s[i] = IF i <= Len(b) THEN b[i]
                  ELSE IF i <= Len(b) + Len(r) THEN r[i - Len(b)]
                  ELSE t[i - (Len(b) + Len(r))]
  BY <1>3, Zenon DEF Joined
<1>6. /\ d \in Seq(S) /\ Len(d) = Len(D) + Len(r) + Len(t)
      /\ \A i \in 1..Len(d) :
           d[i] = IF i <= Len(D) THEN D[i]
                  ELSE IF i <= Len(D) + Len(r) THEN r[i - Len(D)]
                  ELSE t[i - (Len(D) + Len(r))]
  BY <1>4, Zenon DEF Joined
<1>7. ASSUME NEW i \in 1..Len(b) PROVE s[i] = b[i] /\ i \in 1..Len(s)
  BY <1>1, <1>5
<1>8. Len(d) = Len(s) - c /\ Len(d) \in Nat
  BY <1>1, <1>2, <1>5, <1>6
<1>9. ASSUME NEW i \in 1..Len(d) PROVE d[i] = s[c + i]
  <2>1. c + i \in 1..Len(s)
    BY <1>1, <1>5, <1>8
  <2>2. CASE i <= Len(D)
    <3>1. d[i] = D[i] /\ D[i] = b[c + i] /\ c + i <= Len(b)
      <4>1. i \in 1..(Len(b) - c) /\ c + i <= Len(b)
        BY <1>1, <1>2, <1>8, <2>2
      <4>2. d[i] = D[i]
        BY <1>6, <2>2
      <4>3. D[i] = b[c + i]
        BY <1>2, <4>1
      <4> QED BY <4>1, <4>2, <4>3
    <3>2. s[c + i] = b[c + i]
      BY <1>5, <2>1, <3>1
    <3> QED BY <3>1, <3>2
  <2>3. CASE ~(i <= Len(D)) /\ i <= Len(D) + Len(r)
    <3>1. d[i] = r[i - Len(D)]
      BY <1>6, <2>3
    <3>2. ~(c + i <= Len(b)) /\ c + i <= Len(b) + Len(r) /\ c + i - Len(b) = i - Len(D)
      BY <1>1, <1>2, <2>3
    <3>3. s[c + i] = r[c + i - Len(b)]
      BY <1>5, <2>1, <3>2
    <3> QED BY <3>1, <3>2, <3>3
  <2>4. CASE ~(i <= Len(D) + Len(r))
    <3>1. ~(i <= Len(D))
      BY <1>1, <1>2, <2>4
    <3>2. d[i] = t[i - (Len(D) + Len(r))]
      BY <1>6, <2>4, <3>1
    <3>3. /\ ~(c + i <= Len(b)) /\ ~(c + i <= Len(b) + Len(r))
          /\ c + i - (Len(b) + Len(r)) = i - (Len(D) + Len(r))
      <4>1. PICK lb, lr, ld : lb = Len(b) /\ lr = Len(r) /\ ld = Len(D)
        OBVIOUS
      <4>2. lb \in Nat /\ lr \in Nat /\ ld = lb - c /\ ~(i <= ld + lr)
        BY <1>1, <1>2, <2>4, <4>1
      <4>3. /\ ~(c + i <= lb) /\ ~(c + i <= lb + lr)
            /\ c + i - (lb + lr) = i - (ld + lr)
        BY <1>1, <4>2
      <4> QED BY <4>1, <4>3
    <3> QED BY <1>5, <2>1, <3>2, <3>3
  <2> QED BY <2>2, <2>3, <2>4
<1>10. Dropped(d, s, b, c)
  BY <1>7, <1>8, <1>9 DEF Dropped
<1> QED BY <1>2, <1>6, <1>10 DEF s, d

(* The stream moves on, from the client to the socket to the buffer. *)
LEMMA StreamMoves ==
  ASSUME NEW S, buf \in Seq(S), rx \in Seq(S), todo \in Seq(S),
         \/ /\ buf' = buf /\ todo # << >>
            /\ rx' = Append(rx, Head(todo)) /\ todo' = Tail(todo)
         \/ /\ buf = << >> /\ todo' = todo
            /\ \E n \in 1..Len(rx) : buf' = SubSeq(rx, 1, n) /\ rx' = SubSeq(rx, n + 1, Len(rx))
  PROVE  Rest' = Rest
<1>1. CASE /\ buf' = buf /\ todo # << >>
           /\ rx' = Append(rx, Head(todo)) /\ todo' = Tail(todo)
  <2>1. todo # << >>
    BY <1>1
  <2>2. Three(buf, Append(rx, Head(todo)), Tail(todo)) = Three(buf, rx, todo)
    BY <2>1, Regroup
  <2> QED BY <1>1, <2>2 DEF Rest
<1>2. CASE /\ buf = << >> /\ todo' = todo
           /\ \E n \in 1..Len(rx) : buf' = SubSeq(rx, 1, n) /\ rx' = SubSeq(rx, n + 1, Len(rx))
  <2>1. PICK n \in 1..Len(rx) : buf' = SubSeq(rx, 1, n) /\ rx' = SubSeq(rx, n + 1, Len(rx))
    BY <1>2
  <2>2. (SubSeq(rx, 1, n) \o SubSeq(rx, n + 1, Len(rx))) \o todo = (<< >> \o rx) \o todo
    BY Refill
  <2>3. buf = << >> /\ todo' = todo
    BY <1>2
  <2>4. Rest = (<< >> \o rx) \o todo
    BY <2>3, Zenon DEF Rest, Three
  <2>5. Rest' = (SubSeq(rx, 1, n) \o SubSeq(rx, n + 1, Len(rx))) \o todo
    BY <2>1, <2>3, Zenon DEF Rest, Three
  <2> QED BY <2>2, <2>4, <2>5
<1> QED BY <1>1, <1>2

(* The server takes the first c tokens of the buffer. *)
LEMMA StreamTaken ==
  ASSUME NEW S, buf \in Seq(S), rx \in Seq(S), todo \in Seq(S), UNCHANGED <<rx, todo>>,
         NEW c \in 0..Len(buf), buf' = SubSeq(buf, c + 1, Len(buf)),
         NEW W, NEW a, From(W, a)
  PROVE  From(W, a + c)'
<1> DEFINE D == SubSeq(buf, c + 1, Len(buf))
           d == Three(D, rx, todo)
<1>1. Rest' = d
  BY DEF Rest
<1>2. /\ d \in Seq(S) /\ Len(d) = Len(Rest) - c /\ Len(d) \in Nat
      /\ \A i \in 1..Len(d) : d[i] = Rest[c + i]
  <2>1. D = SubSeq(buf, c + 1, Len(buf))
    OBVIOUS
  <2> HIDE DEF D
  <2>2. d \in Seq(S) /\ Dropped(d, Rest, buf, c)
    BY <2>1, Drop, Zenon DEF Rest
  <2> HIDE DEF d
  <2> QED BY <2>2 DEF Dropped
<1> HIDE DEF d
<1>3. DOMAIN d = 1..Len(d) /\ DOMAIN Rest = 1..Len(Rest) /\ c \in Nat /\ Len(Rest) \in Nat
  <2>1. Rest \in Seq(S)
    BY ThreeParts DEF Rest
  <2> QED BY <1>2, <2>1, LenProperties
<1>4. a \in Nat /\ Len(W) = a + Len(Rest) /\ \A i \in 1..Len(Rest) : Rest[i] = W[a + i]
  BY <1>3 DEF From
<1>5. ASSUME NEW i \in 1..Len(d) PROVE d[i] = W[(a + c) + i]
  <2>1. c + i \in 1..Len(Rest) /\ a + (c + i) = (a + c) + i
    BY <1>2, <1>3, <1>4
  <2> QED BY <1>2, <1>4, <2>1
<1>6. a + c \in Nat /\ Len(W) = (a + c) + Len(d)
  BY <1>2, <1>3, <1>4
<1>7. From(W, a + c)' <=> /\ a + c \in Nat /\ Len(W) = (a + c) + Len(Rest')
                          /\ \A i \in DOMAIN Rest' : Rest'[i] = W[(a + c) + i]
  BY DEF From
<1> QED BY <1>1, <1>3, <1>5, <1>6, <1>7

(* The buffer holds what comes next of the stream. *)
LEMMA BufferIs ==
  ASSUME NEW S, buf \in Seq(S), rx \in Seq(S), todo \in Seq(S), NEW W, NEW a, From(W, a)
  PROVE  /\ a \in Nat /\ Len(W) = a + Len(buf) + Len(rx) + Len(todo)
         /\ \A i \in 1..Len(buf) : buf[i] = W[a + i]
<1>1. /\ Rest \in Seq(S) /\ Len(Rest) = Len(buf) + Len(rx) + Len(todo)
  <2>1. Rest \in Seq(S) /\ Joined(Rest, buf, rx, todo)
    BY ThreeParts, Zenon DEF Rest
  <2> QED BY <2>1 DEF Joined
<1>2. Len(buf) \in Nat /\ Len(rx) \in Nat /\ Len(todo) \in Nat
  BY LenProperties
<1>3. 0 \in 0..Len(buf) /\ buf = SubSeq(buf, 0 + 1, Len(buf))
  BY <1>2, SubSeqFull
<1>4. \A i \in 1..Len(buf) : Rest[i] = buf[i] /\ i \in 1..Len(Rest)
  <2>1. Dropped(Rest, Rest, buf, 0)
    BY <1>3, Drop, Zenon DEF Rest
  <2> QED BY <2>1 DEF Dropped
<1>5. DOMAIN Rest = 1..Len(Rest)
  BY <1>1, LenProperties
<1>6. a \in Nat /\ Len(W) = a + Len(Rest) /\ \A i \in 1..Len(Rest) : Rest[i] = W[a + i]
  BY <1>5 DEF From
<1>7. \A i \in 1..Len(buf) : buf[i] = W[a + i]
  BY <1>4, <1>6
<1>8. Len(W) = a + Len(buf) + Len(rx) + Len(todo)
  BY <1>1, <1>2, <1>6
<1> QED BY <1>6, <1>7, <1>8

(* What the clients are assumed to keep to: a body has its length told,    *)
(* and no request follows at once on one with a content-length, whose body *)
(* kont_request_length may read too much of.                               *)
LengthsTold == \A r \in Requests : r.te = "none" /\ r.cl = "none" => r.size = 0
PostsAlone  == \A r \in Pipelined : BodyKont(r) # "request_length"

(* Where the continuations are in the stream: request n is the one at      *)
(* work, b the pieces of its body that were taken.                         *)
LineKonts   == {"request_line_read", "request_line"}
HeaderKonts == {"request_header_read", "request_header"}
ChunkKonts  == {"request_chunked_read", "request_chunked"}
LengthKonts == {"request_length_read", "request_length"}
BodyKonts   == ChunkKonts \cup LengthKonts
AtWork      == HeaderKonts \cup BodyKonts \cup {"dispatch", "response", "response_header"}
AnswerKonts == {"response", "response_header"} \cup SendKonts

Place(f, a) ==
  /\ io.kont \in LineKonts => a = f[Len(out) + 1]
  /\ io.kont \in HeaderKonts => a = f[req.n] + 1 /\ Len(req.body) = 0
  /\ io.kont \in BodyKonts => a = f[req.n] + 2 + Len(req.body) /\ Len(req.body) <= req.r.size
  /\ io.kont \in ChunkKonts => BodyKont(req.r) = "request_chunked"
  /\ io.kont \in LengthKonts => BodyKont(req.r) = "request_length"
  /\ io.kont = "request_length_read" => Len(req.body) < req.r.size
  /\ io.kont = "dispatch" => /\ a = f[req.n + 1]
                             /\ Len(req.body) = IF BodyKont(req.r) = "dispatch" THEN 0 ELSE req.r.size
  /\ io.kont \in AnswerKonts => rsp.close \/ a = f[req.n + 1]

Unsent(W, f) == todo # << >> => sent # << >> /\ Len(todo) <= Len(W) - f[Len(sent)]

Standing(W, f, a) == Follows(W, f) /\ From(W, a) /\ Place(f, a) /\ Unsent(W, f)

InStream == up /\ peer # "reset" /\ io.kont # "teardown" => \E W, f, a : Standing(W, f, a)

(* One answer for one request. *)
OrderOK ==
  /\ sent \in Seq(Requests) /\ Len(out) <= Len(sent)
  /\ up /\ io.kont \in AtWork => req.n = Len(out) + 1
  /\ up /\ io.kont \in SendKonts => req.n = Len(out)
  /\ \A k \in DOMAIN sent :
       k < Len(sent) => sent[k] \in Pipelined \/ (k \in DOMAIN out /\ out[k].over)

(* The body of the request is its own. *)
BodyOK ==
  /\ req.body \in Seq(Token)
  /\ io.kont \in AtWork => \A i \in DOMAIN req.body : req.body[i] = Tok(req.n, "body", req.r)

(* The sides of the connection, and its end. *)
SidesOK ==
  /\ up /\ peer = "reset" => ~io.ready /\ rx = << >>
  /\ up /\ io.kont \in ReadKonts \ {"teardown"} => buf = << >>
  /\ up /\ io.kont = "teardown" => shut
  /\ up => why = "none"
  /\ EofAnswersAll

Base   == ConnectionInv /\ AnswersOK
Stream == OrderOK /\ BodyOK /\ SidesOK /\ InStream

USE DEF LineKonts, HeaderKonts, ChunkKonts, LengthKonts, BodyKonts, SendKonts

-----------------------------------------------------------------------------
(* Where the tokens of a request are. *)
RequestIn(W, at, k, r, after) ==
  /\ at \in Nat /\ r.size \in Nat
  /\ W[at + 1] = Tok(k, "line", r) /\ W[at + 2] = Tok(k, "header", r)
  /\ \A j \in 1..r.size : W[at + 2 + j] = Tok(k, "body", r)
  /\ r.te \in {"chunked", "torn"} => /\ W[at + 3 + r.size] = Tok(k, "end", r)
                                     /\ after = at + 3 + r.size
  /\ r.te \notin {"chunked", "torn"} => after = at + 2 + r.size

Shift(T, W, p, z, m) ==
  /\ W[p + 1] = T[1] /\ W[p + 2] = T[2] /\ (m = 1 => W[p + 3 + z] = T[3 + z])
  /\ \A i \in 1..z : W[p + 2 + i] = T[2 + i]

(* A sequence found further on in another one. *)
LEMMA Shifted ==
  ASSUME NEW T, NEW W, NEW p \in Nat, NEW z \in Nat, NEW m \in {0, 1},
         DOMAIN T = 1..(2 + z + m), \A i \in DOMAIN T : W[p + i] = T[i]
  PROVE  Shift(T, W, p, z, m)
<1>1. 1 \in DOMAIN T /\ 2 \in DOMAIN T
  OBVIOUS
<1>2. m = 1 => 3 + z \in DOMAIN T /\ p + (3 + z) = p + 3 + z
  OBVIOUS
<1>3. \A i \in 1..z : 2 + i \in DOMAIN T /\ p + (2 + i) = p + 2 + i
  OBVIOUS
<1> QED BY <1>1, <1>2, <1>3 DEF Shift

(* Request k is in the stream where f says. *)
LEMMA RequestsIn ==
  ASSUME sent \in Seq(RequestType), NEW W, NEW f, Follows(W, f), NEW k \in DOMAIN sent
  PROVE  RequestIn(W, f[k], k, sent[k], f[k + 1])
<1> DEFINE r == sent[k]
           T == Tokens(k, r)
           more == IF r.te \in {"chunked", "torn"} THEN 1 ELSE 0
<1>1. k \in Nat /\ r \in RequestType /\ k \in 1..Len(sent) /\ Len(sent) \in Nat
  OBVIOUS
<1>2. /\ T \in Seq(Token) /\ Len(T) = 2 + r.size + more /\ r.size \in Nat
      /\ T[1] = Tok(k, "line", r) /\ T[2] = Tok(k, "header", r)
      /\ \A j \in 3..(2 + r.size) : T[j] = Tok(k, "body", r)
      /\ more = 1 => T[3 + r.size] = Tok(k, "end", r)
  <2> HIDE DEF r
  <2> QED BY <1>1, TokensAre
<1>3. /\ f[k] \in Nat /\ f[k + 1] = f[k] + Len(T)
      /\ \A j \in DOMAIN T : W[f[k] + j] = T[j]
  BY <1>1 DEF Follows
<1>4. more = IF r.te \in {"chunked", "torn"} THEN 1 ELSE 0
  OBVIOUS
<1> HIDE DEF T, more, r
<1>5. PICK p \in Nat, z \in Nat, m \in {0, 1} :
        p = f[k] /\ z = r.size /\ m = more /\ (m = 1 <=> r.te \in {"chunked", "torn"})
  BY <1>2, <1>3, <1>4
<1>6. DOMAIN T = 1..(2 + z + m) /\ \A i \in DOMAIN T : W[p + i] = T[i]
  BY <1>2, <1>3, <1>5
<1>7. Shift(T, W, p, z, m)
  BY <1>6, Shifted
<1>8. \A i \in 1..z : T[2 + i] = Tok(k, "body", r)
  <2>1. \A i \in 1..z : 2 + i \in 3..(2 + z)
    OBVIOUS
  <2> QED BY <1>2, <1>5, <2>1
<1>9. f[k + 1] = p + 2 + z + m
  <2>1. Len(T) = 2 + z + m
    BY <1>2, <1>5
  <2> QED BY <1>3, <1>5, <2>1
<1>10. RequestIn(W, p, k, r, p + 2 + z + m)
  <2>1. W[p + 1] = Tok(k, "line", r) /\ W[p + 2] = Tok(k, "header", r)
    BY <1>2, <1>7 DEF Shift
  <2>2. \A j \in 1..z : W[p + 2 + j] = Tok(k, "body", r)
    BY <1>7, <1>8 DEF Shift
  <2>3. m = 1 => W[p + 3 + z] = Tok(k, "end", r) /\ p + 2 + z + m = p + 3 + z
    <3>1. m = 1 => T[3 + z] = Tok(k, "end", r)
      BY <1>2, <1>5
    <3>2. m = 1 => W[p + 3 + z] = T[3 + z]
      BY <1>7 DEF Shift
    <3> QED BY <3>1, <3>2
  <2>4. m # 1 => p + 2 + z + m = p + 2 + z
    OBVIOUS
  <2>5. z = r.size /\ (m = 1 <=> r.te \in {"chunked", "torn"})
    BY <1>5
  <2> QED BY <2>1, <2>2, <2>3, <2>4, <2>5 DEF RequestIn
<1>11. RequestIn(W, f[k], k, r, f[k + 1])
  BY <1>5, <1>9, <1>10, Zenon
<1> QED BY <1>11 DEF r

-----------------------------------------------------------------------------
(* Steps that leave the stream, move it on, or take of it. *)
LEMMA FollowsStays ==
  ASSUME NEW W, NEW f, Follows(W, f), sent' = sent
  PROVE  Follows(W, f)'
BY DEF Follows

(* Nothing moves. *)
LEMMA Stays ==
  ASSUME NEW W, NEW f, NEW a, Standing(W, f, a), UNCHANGED <<sent, buf, rx, todo>>, Place(f, a)'
  PROVE  Standing(W, f, a)'
<1>1. Follows(W, f)'
  BY FollowsStays DEF Standing
<1>2. Rest' = Rest
  BY DEF Rest
<1>3. From(W, a)' /\ Unsent(W, f)'
  BY <1>2 DEF Standing, From, Unsent
<1> QED BY <1>1, <1>3 DEF Standing

(* The stream moves on. *)
LEMMA MovesOn ==
  ASSUME NEW S, buf \in Seq(S), rx \in Seq(S), todo \in Seq(S), sent' = sent,
         \/ /\ buf' = buf /\ todo # << >>
            /\ rx' = Append(rx, Head(todo)) /\ todo' = Tail(todo)
         \/ /\ buf = << >> /\ todo' = todo
            /\ \E n \in 1..Len(rx) : buf' = SubSeq(rx, 1, n) /\ rx' = SubSeq(rx, n + 1, Len(rx)),
         NEW W, NEW f, NEW a, Standing(W, f, a), Place(f, a)'
  PROVE  Standing(W, f, a)'
<1>1. Follows(W, f)'
  BY FollowsStays DEF Standing
<1>2. Rest' = Rest
  BY StreamMoves
<1>3. From(W, a)'
  BY <1>2 DEF Standing, From
<1>4. todo' = todo \/ (todo # << >> /\ todo' = Tail(todo))
  OBVIOUS
<1>5. Unsent(W, f)'
  <2>1. CASE todo' = todo
    BY <2>1 DEF Standing, Unsent
  <2>2. CASE todo # << >> /\ todo' = Tail(todo)
    <3>1. Len(todo') <= Len(todo) /\ Len(todo') \in Nat /\ Len(todo) \in Nat
      BY <2>2
    <3>2. sent # << >> /\ Len(todo) <= Len(W) - f[Len(sent)]
      BY <2>2 DEF Standing, Unsent
    <3>3. Len(W) \in Nat /\ f[Len(sent)] \in Int
      <4>1. W \in Seq(Token) /\ f \in [1..(Len(sent) + 1) -> Nat]
        BY DEF Standing, Follows
      <4>2. Len(sent) \in 1..(Len(sent) + 1)
        BY <3>2
      <4> QED BY <4>1, <4>2
    <3> QED BY <3>1, <3>2, <3>3 DEF Unsent
  <2> QED BY <1>4, <2>1, <2>2
<1> QED BY <1>1, <1>3, <1>5 DEF Standing

(* The server takes c tokens of the buffer. *)
LEMMA Takes ==
  ASSUME NEW S, buf \in Seq(S), rx \in Seq(S), todo \in Seq(S), UNCHANGED <<sent, rx, todo>>,
         NEW c \in 0..Len(buf), buf' = SubSeq(buf, c + 1, Len(buf)),
         NEW W, NEW f, NEW a, Standing(W, f, a), Place(f, a + c)'
  PROVE  Standing(W, f, a + c)'
<1>1. Follows(W, f)' /\ Unsent(W, f)'
  BY FollowsStays DEF Standing, Unsent
<1>2. From(W, a + c)'
  <2>1. From(W, a)
    BY DEF Standing
  <2> QED BY <2>1, StreamTaken
<1> QED BY <1>1, <1>2 DEF Standing

-----------------------------------------------------------------------------
(* What the client was answered only grows. *)
OutKept == \A k \in DOMAIN out : k \in DOMAIN out' /\ (out[k].over => out'[k].over)

(* Nothing is answered. *)
LEMMA OutStays ==
  ASSUME out' = out
  PROVE  OutKept /\ Len(out') = Len(out)
BY DEF OutKept

(* The next answer begins. *)
LEMMA OutAppended ==
  ASSUME out \in Seq(AnswerType), NEW e, out' = Append(out, e)
  PROVE  OutKept /\ Len(out') = Len(out) + 1
BY DEF OutKept

(* The last answer changes, and stays over if it was. *)
LEMMA OutChanged ==
  ASSUME out \in Seq(AnswerType), out # << >>, NEW e \in AnswerType,
         out' = [out EXCEPT ![Len(out)] = e], out[Len(out)].over => e.over
  PROVE  OutKept /\ Len(out') = Len(out)
<1>1. /\ out' \in Seq(AnswerType) /\ Len(out') = Len(out) /\ out'[Len(out)] = e
      /\ \A k \in DOMAIN out : k # Len(out) => out'[k] = out[k]
  BY LastChanged
<1>2. DOMAIN out' = DOMAIN out
  BY <1>1
<1>3. ASSUME NEW k \in DOMAIN out, out[k].over PROVE out'[k].over
  <2>1. CASE k = Len(out)
    BY <1>1, <1>3, <2>1
  <2>2. CASE k # Len(out)
    BY <1>1, <1>3, <2>2
  <2> QED BY <2>1, <2>2
<1> QED BY <1>1, <1>2, <1>3 DEF OutKept

(* More of its body is sent. *)
LEMMA OutSent ==
  ASSUME out \in Seq(AnswerType), out # << >>, NEW n \in Int, out' = BodySent(n)
  PROVE  OutKept /\ Len(out') = Len(out)
<1>1. PICK e \in AnswerType : BodySent(n) = [out EXCEPT ![Len(out)] = e] /\ e.over = out[Len(out)].over
  BY BodySentLast
<1>2. out[Len(out)].over => e.over
  BY <1>1, Zenon
<1> QED BY <1>1, <1>2, OutChanged, Zenon

(* The last answer is over. *)
LEMMA OutEnded ==
  ASSUME out \in Seq(AnswerType), out # << >>, NEW last \in BOOLEAN,
         out' = [out EXCEPT ![Len(out)].over = TRUE, ![Len(out)].last = last]
  PROVE  OutKept /\ Len(out') = Len(out)
<1>1. \E e \in AnswerType :
         /\ [out EXCEPT ![Len(out)].over = TRUE, ![Len(out)].last = last]
              = [out EXCEPT ![Len(out)] = e]
         /\ e.n = out[Len(out)].n /\ e.code = out[Len(out)].code
         /\ e.body = out[Len(out)].body /\ e.length = out[Len(out)].length
         /\ e.over = TRUE /\ e.got = out[Len(out)].got /\ e.last = last
  BY EndLast
<1>2. PICK e \in AnswerType :
         /\ [out EXCEPT ![Len(out)].over = TRUE, ![Len(out)].last = last]
              = [out EXCEPT ![Len(out)] = e]
         /\ e.over = TRUE
  BY <1>1, Zenon
<1>3. out' = [out EXCEPT ![Len(out)] = e]
  BY <1>2, Zenon
<1>4. out[Len(out)].over => e.over
  BY <1>2, Zenon
<1> QED BY <1>3, <1>4, OutChanged, Zenon

-----------------------------------------------------------------------------
(* A step between two continuations, in memory or about a system call: it  *)
(* keeps the order, the body and the place in the stream when the request  *)
(* at work is the same and the place is still the right one.               *)
LEMMA OrderStays ==
  ASSUME OrderOK, sent' = sent, OutKept, Len(out') <= Len(sent'),
         up' /\ io'.kont \in AtWork => req'.n = Len(out') + 1,
         up' /\ io'.kont \in SendKonts => req'.n = Len(out')
  PROVE  OrderOK'
<1>1. \A k \in DOMAIN sent' :
       k < Len(sent') => sent'[k] \in Pipelined \/ (k \in DOMAIN out' /\ out'[k].over)
  BY DEF OrderOK, OutKept
<1> QED BY <1>1 DEF OrderOK

(* The request at work is the same. *)
LEMMA BodyStays ==
  ASSUME BodyOK, req' = req, io'.kont \in AtWork => io.kont \in AtWork
  PROVE  BodyOK'
BY DEF BodyOK

(* The connection does not end, and the client at most resets it. *)
LEMMA SidesStay ==
  ASSUME SidesOK, up = TRUE, up' = TRUE, why' = why,
         \/ peer # "reset" /\ peer' = peer
         \/ peer' = peer /\ UNCHANGED <<io, rx>>
         \/ ~io'.ready /\ rx' = << >>,
         io'.kont \in ReadKonts \ {"teardown"} => buf' = << >>,
         io'.kont = "teardown" => shut'
  PROVE  SidesOK'
BY DEF SidesOK, EofAnswersAll

(* In memory the client is there, and the place in the stream is known. *)
LEMMA InMemory ==
  ASSUME Base, Stream, NEW k \in MemoryKonts, At(k)
  PROVE  /\ up = TRUE /\ io.kont = k /\ io \in IoType /\ peer # "reset" /\ why = "none"
         /\ \E W, f, a : Standing(W, f, a)
<1>1. up = TRUE /\ io.ready /\ io.kont = k /\ io \in IoType
  BY DEF At, Base, ConnectionInv, IoOK
<1>2. peer # "reset" /\ why = "none"
  BY <1>1 DEF Stream, SidesOK
<1> QED BY <1>1, <1>2 DEF Stream, InStream

(* While it is waiting, too, when the system call succeeds. *)
LEMMA AtCall ==
  ASSUME Base, Stream, NEW k \in (ReadKonts \cup WriteKonts) \ {"teardown"}, Called(k),
         peer # "reset"
  PROVE  /\ up = TRUE /\ io.kont = k /\ io \in IoType /\ why = "none"
         /\ \E W, f, a : Standing(W, f, a)
<1>1. up = TRUE /\ io.kont = k /\ io \in IoType
  BY DEF Called, Base, ConnectionInv, IoOK
<1>2. why = "none"
  BY <1>1 DEF Stream, SidesOK
<1> QED BY <1>1, <1>2 DEF Stream, InStream

(* The steps from the dispatch of a request to the end of its answer. *)
LEMMA AnswerStands ==
  ASSUME Stream, up = TRUE, up' = TRUE, peer # "reset",
         UNCHANGED <<sent, buf, rx, todo, peer, why, req>>, OutKept, Len(out') <= Len(sent'),
         io.kont \in {"dispatch"} \cup AnswerKonts, io'.kont \in AnswerKonts,
         io'.kont \in AtWork => io.kont \in AtWork /\ Len(out') = Len(out),
         io'.kont \in SendKonts => req.n = Len(out'),
         io.kont \in AnswerKonts /\ rsp.close => rsp'.close
  PROVE  Stream'
<1>1. OrderOK'
  BY OrderStays DEF Stream, OrderOK
<1>2. BodyOK'
  BY BodyStays DEF Stream
<1>3. io'.kont \notin ReadKonts
  BY DEF AnswerKonts
<1>4. SidesOK'
  BY <1>3, SidesStay DEF Stream
<1>5. InStream'
  <2>1. PICK W, f, a : Standing(W, f, a)
    BY DEF Stream, InStream, AnswerKonts
  <2>2. rsp'.close \/ a = f[req.n + 1]
    BY <2>1 DEF Standing, Place
  <2>3. Place(f, a)'
    BY <2>2 DEF Place, AnswerKonts
  <2>4. Standing(W, f, a)'
    BY <2>1, <2>3, Stays
  <2> QED BY <2>4 DEF InStream
<1> QED BY <1>1, <1>2, <1>4, <1>5 DEF Stream

(* A handler says what the answer is. *)
LEMMA DispatchStands ==
  ASSUME Base, Stream, KontDispatch
  PROVE  Stream'
<1>1. /\ up = TRUE /\ io.kont = "dispatch" /\ io \in IoType /\ peer # "reset"
      /\ UNCHANGED <<sent, buf, rx, todo, peer, why, req, up, out>>
      /\ io' = GoOn("response")
  BY InMemory DEF KontDispatch, clientVars, lifeVars
<1>2. io'.kont = "response"
  BY <1>1, GoOnFields DEF Konts
<1>3. OutKept /\ Len(out') <= Len(sent')
  BY <1>1, OutStays DEF Stream, OrderOK
<1> QED BY <1>1, <1>2, <1>3, AnswerStands DEF AnswerKonts, AtWork

(* prepare_response closes a connection more, never less. *)
LEMMA ResponseStands ==
  ASSUME Base, Stream, KontResponse
  PROVE  Stream'
<1>1. /\ up = TRUE /\ io.kont = "response" /\ io \in IoType /\ peer # "reset"
      /\ UNCHANGED <<sent, buf, rx, todo, peer, why, req, up, out>>
      /\ io' = WaitFor("WRITE", "response_header")
  BY InMemory DEF KontResponse, clientVars, lifeVars
<1>2. io'.kont = "response_header"
  BY <1>1, WaitForFields DEF Konts
<1>3. OutKept /\ Len(out') <= Len(sent')
  BY <1>1, OutStays DEF Stream, OrderOK
<1>4. rsp.close => rsp'.close
  <2> DEFINE b == ~NoBody(req.r, rsp.code)
             c == rsp.close \/ rsp.length = NoLength
  <2>1. rsp \in RspType /\ rsp' = [rsp EXCEPT !.has_body = b, !.close = c]
    BY Zenon DEF Base, AnswersOK, KontResponse
  <2> HIDE DEF b, c
  <2>2. rsp'.close = c
    BY <2>1, Zenon DEF RspType
  <2> QED BY <2>2 DEF c
<1> QED BY <1>1, <1>2, <1>3, <1>4, AnswerStands DEF AnswerKonts, AtWork

(* The header is sent in parts; with its last the answer begins. *)
LEMMA HeaderStands ==
  ASSUME Base, Stream, KontResponseHeader
  PROVE  Stream'
<1>1. peer # "reset" /\ Called("response_header")
  BY DEF KontResponseHeader, Written
<1>2. /\ up = TRUE /\ io.kont = "response_header" /\ io \in IoType
      /\ UNCHANGED <<sent, buf, rx, todo, peer, why, req, up, rsp>>
      /\ \/ io' = WaitFor("WRITE", "response_header") /\ out' = out
         \/ /\ out' = Append(out, HeaderSent)
            /\ \/ io' = GoOn("response_end")
               \/ io' = WaitFor("WRITE", "response_file_length")
               \/ io' = WaitFor("WRITE", "response_body_length")
  BY <1>1, AtCall DEF KontResponseHeader, clientVars, lifeVars
<1>3. /\ out \in Seq(AnswerType) /\ req.n = Len(out) + 1 /\ req.n \in DOMAIN sent
      /\ sent \in Seq(RequestType) /\ Len(out) <= Len(sent)
  BY <1>2 DEF Base, AnswersOK, ConnectionInv, StreamOK, Early, Stream, OrderOK, AtWork
<1>4. CASE io' = WaitFor("WRITE", "response_header") /\ out' = out
  <2>1. io'.kont = "response_header"
    BY <1>4, WaitForFields DEF Konts
  <2>2. OutKept /\ Len(out') = Len(out)
    BY <1>4, OutStays
  <2> QED BY <1>1, <1>2, <1>3, <2>1, <2>2, AnswerStands DEF AnswerKonts, AtWork
<1>5. CASE /\ out' = Append(out, HeaderSent)
           /\ \/ io' = GoOn("response_end")
              \/ io' = WaitFor("WRITE", "response_file_length")
              \/ io' = WaitFor("WRITE", "response_body_length")
  <2>1. io'.kont \in SendKonts
    BY <1>2, <1>5, WaitForFields, GoOnFields DEF Konts
  <2>2. OutKept /\ Len(out') = Len(out) + 1
    BY <1>3, <1>5, OutAppended
  <2>3. Len(out') <= Len(sent') /\ req.n = Len(out')
    BY <1>2, <1>3, <2>2
  <2> QED BY <1>1, <1>2, <2>1, <2>2, <2>3, AnswerStands DEF AnswerKonts, AtWork
<1> QED BY <1>2, <1>4, <1>5

(* The body is sent in parts. *)
LEMMA BodyStands ==
  ASSUME ConnectionAssumption, Base, Stream, KontResponseFileLength \/ KontResponseBodyLength
  PROVE  Stream'
<1>1. PICK k \in {"response_file_length", "response_body_length"} :
        Called(k) /\ peer # "reset"
  BY DEF KontResponseFileLength, KontResponseBodyLength, Written
<1>2. /\ up = TRUE /\ io.kont = k /\ io \in IoType
      /\ UNCHANGED <<sent, buf, rx, todo, peer, why, req, up, rsp>>
      /\ \/ io' = GoOn("response_end")
         \/ io' = WaitFor("WRITE", "response_file_length")
         \/ io' = WaitFor("WRITE", "response_body_length")
      /\ out' = out \/ \E n \in Int : out' = BodySent(n)
  <2>1. up = TRUE /\ io.kont = k /\ io \in IoType
    BY <1>1, AtCall
  <2>2. /\ \/ io' = GoOn("response_end")
           \/ io' = WaitFor("WRITE", "response_file_length")
           \/ io' = WaitFor("WRITE", "response_body_length")
        /\ UNCHANGED <<sent, buf, rx, todo, peer, why, req, up, rsp>>
    BY DEF KontResponseFileLength, KontResponseBodyLength, clientVars, lifeVars
  <2>3. 1..BufferSize \subseteq Int /\ 1..PageSize \subseteq Int
    BY DEF ConnectionAssumption
  <2>4. out' = out \/ \E n \in Int : out' = BodySent(n)
    BY <2>3, Zenon DEF KontResponseFileLength, KontResponseBodyLength
  <2> QED BY <2>1, <2>2, <2>4
<1>3. /\ out \in Seq(AnswerType) /\ out # << >> /\ req.n = Len(out) /\ Len(out) <= Len(sent)
  BY <1>2 DEF Base, AnswersOK, Stream, OrderOK
<1>4. io'.kont \in SendKonts
  BY <1>2, WaitForFields, GoOnFields DEF Konts
<1>5. OutKept /\ Len(out') = Len(out)
  BY <1>2, <1>3, OutStays, OutSent
<1> QED BY <1>1, <1>2, <1>3, <1>4, <1>5, AnswerStands DEF AnswerKonts, AtWork

(* The next request begins where the stream is, or nothing more is taken. *)
LEMMA EndStands ==
  ASSUME Base, Stream, KontResponseEnd
  PROVE  Stream'
<1>1. /\ up = TRUE /\ io.kont = "response_end" /\ io \in IoType /\ peer # "reset"
      /\ UNCHANGED <<sent, buf, rx, todo, peer, why, up>>
      /\ req' = NoRequest /\ shut' = DoneConnection
      /\ io' = IF DoneConnection THEN Teardown ELSE NextRequest
  BY InMemory DEF KontResponseEnd, clientVars, lifeVars
<1>2. /\ out \in Seq(AnswerType) /\ out # << >> /\ req.n = Len(out) /\ Len(out) <= Len(sent)
  BY <1>1 DEF Base, AnswersOK, Stream, OrderOK
<1>3. OutKept /\ Len(out') = Len(out)
  <2> DEFINE last == DoneConnection
  <2>1. last \in BOOLEAN
    BY DEF DoneConnection
  <2>2. out' = [out EXCEPT ![Len(out)].over = TRUE, ![Len(out)].last = last]
    BY Zenon DEF KontResponseEnd
  <2> HIDE DEF last
  <2> QED BY <1>2, <2>1, <2>2, OutEnded
<1>4. io'.kont = IF DoneConnection THEN "teardown" ELSE "request_line"
  BY <1>1, WaitForFields, GoOnFields DEF Konts, Teardown, NextRequest
<1>5. OrderOK'
  BY <1>1, <1>2, <1>3, <1>4, OrderStays DEF Stream, AtWork
<1>6. BodyOK'
  <2>1. req'.body = << >> /\ << >> \in Seq(Token)
    BY <1>1 DEF NoRequest
  <2> QED BY <1>4, <2>1 DEF BodyOK, AtWork
<1>7. SidesOK'
  BY <1>1, <1>4, SidesStay DEF Stream
<1>8. InStream'
  <2>1. CASE DoneConnection
    BY <1>4, <2>1 DEF InStream
  <2>2. CASE ~DoneConnection
    <3>1. ~rsp.close /\ io'.kont = "request_line"
      BY <1>4, <2>2 DEF DoneConnection
    <3>2. PICK W, f, a : Standing(W, f, a)
      BY <1>1 DEF Stream, InStream
    <3>3. a = f[req.n + 1]
      BY <1>1, <3>1, <3>2 DEF Standing, Place, AnswerKonts
    <3>4. Place(f, a)'
      BY <1>2, <1>3, <3>1, <3>3 DEF Place, AnswerKonts
    <3>5. Standing(W, f, a)'
      BY <1>1, <3>2, <3>4, Stays
    <3> QED BY <3>5 DEF InStream
  <2> QED BY <2>1, <2>2
<1> QED BY <1>5, <1>6, <1>7, <1>8 DEF Stream

(* The tokens on their way are tokens. *)
LEMMA TokensTyped ==
  ASSUME StreamOK
  PROVE  /\ sent \in Seq(RequestType) /\ Len(sent) \in Nat
         /\ buf \in Seq(Token) /\ rx \in Seq(Token) /\ todo \in Seq(Token)
<1>1. Asked \subseteq Token
  BY DEF Asked
<1>2. /\ sent \in Seq(RequestType)
      /\ buf \in Seq(Asked) /\ rx \in Seq(Asked) /\ todo \in Seq(Asked)
  BY DEF StreamOK
<1>3. buf \in Seq(Token) /\ rx \in Seq(Token) /\ todo \in Seq(Token)
  BY <1>1, <1>2, SeqMonotone
<1> QED BY <1>2, <1>3

(* The client writes one request more. *)
Longer(W, f, T) == [k \in 1..(Len(sent) + 2) |-> IF k <= Len(sent) + 1 THEN f[k] ELSE Len(W) + Len(T)]

(* Where the requests are then. *)
LEMMA LongerFields ==
  ASSUME sent \in Seq(RequestType), NEW W, NEW f, Follows(W, f), NEW T \in Seq(Token),
         NEW g, g = Longer(W, f, T)
  PROVE  /\ g \in [1..(Len(sent) + 2) -> Nat] /\ g[Len(sent) + 2] = Len(W) + Len(T)
         /\ \A k \in 1..(Len(sent) + 1) : g[k] = f[k]
<1>1. Len(sent) \in Nat /\ Len(W) \in Nat /\ Len(T) \in Nat /\ f \in [1..(Len(sent) + 1) -> Nat]
  BY DEF Follows
<1> QED BY <1>1 DEF Longer

(* The requests follow each other there. *)
LEMMA FollowsLonger ==
  ASSUME sent \in Seq(RequestType), NEW W, NEW f, Follows(W, f), NEW r \in RequestType,
         sent' = Append(sent, r), NEW T, T = Tokens(Len(sent) + 1, r), T \in Seq(Token), Len(T) > 0,
         NEW V, V = W \o T, NEW g, g = Longer(W, f, T)
  PROVE  Follows(V, g)'
<1> DEFINE m == Len(sent)
<1>1. m \in Nat /\ Len(sent') = m + 1 /\ DOMAIN sent = 1..m /\ DOMAIN sent' = 1..(m + 1)
  OBVIOUS
<1>2. sent'[m + 1] = r /\ \A k \in 1..m : sent'[k] = sent[k]
  OBVIOUS
<1>3. /\ W \in Seq(Token) /\ f \in [1..(m + 1) -> Nat] /\ f[m + 1] = Len(W)
      /\ \A k, l \in 1..(m + 1) : k < l => f[k] < f[l]
  BY DEF Follows
<1>4. /\ g \in [1..(m + 2) -> Nat] /\ g[m + 2] = Len(W) + Len(T)
      /\ \A k \in 1..(m + 1) : g[k] = f[k]
  BY LongerFields
<1>5. /\ V \in Seq(Token) /\ Len(V) = Len(W) + Len(T)
      /\ \A i \in 1..(Len(W) + Len(T)) : V[i] = IF i <= Len(W) THEN W[i] ELSE T[i - Len(W)]
  BY <1>3, ConcatProperties
<1>6. Len(W) \in Nat /\ Len(T) \in Nat
  BY <1>3
<1>7. /\ \A k \in 1..m : f[k + 1] = f[k] + Len(Tokens(k, sent[k]))
      /\ \A k \in 1..m : \A j \in DOMAIN Tokens(k, sent[k]) : W[f[k] + j] = Tokens(k, sent[k])[j]
  BY <1>1 DEF Follows
<1> HIDE DEF m
<1>8. ASSUME NEW k \in 1..(m + 2), NEW l \in 1..(m + 2), k < l PROVE g[k] < g[l]
  <2>1. CASE l <= m + 1
    <3>1. k \in 1..(m + 1) /\ l \in 1..(m + 1)
      BY <1>1, <1>8, <2>1
    <3>2. f[k] < f[l] /\ g[k] = f[k] /\ g[l] = f[l]
      BY <1>3, <1>4, <1>8, <3>1
    <3> QED BY <3>2
  <2>2. CASE l = m + 2
    <3>1. k \in 1..(m + 1)
      BY <1>1, <1>8, <2>2
    <3>2. f[k] <= f[m + 1] /\ f[k] \in Nat
      BY <1>1, <1>3, <3>1
    <3>3. g[k] = f[k] /\ g[l] = Len(W) + Len(T) /\ f[k] <= Len(W)
      BY <1>3, <1>4, <2>2, <3>1, <3>2
    <3> QED BY <1>6, <3>2, <3>3
  <2> QED BY <1>1, <2>1, <2>2
<1>9. ASSUME NEW k \in 1..(m + 1) PROVE g[k + 1] = g[k] + Len(Tokens(k, sent'[k]))
  <2>1. CASE k <= m
    <3>1. k \in 1..m /\ k + 1 \in 1..(m + 1)
      BY <1>1, <2>1
    <3> QED BY <1>2, <1>4, <1>7, <3>1
  <2>2. CASE k = m + 1
    <3>1. Tokens(k, sent'[k]) = T /\ k + 1 = m + 2
      BY <1>1, <1>2, <2>2 DEF m
    <3> QED BY <1>3, <1>4, <2>2, <3>1
  <2> QED BY <1>1, <2>1, <2>2
<1>10. ASSUME NEW k \in 1..(m + 1), NEW j \in DOMAIN Tokens(k, sent'[k])
       PROVE  V[g[k] + j] = Tokens(k, sent'[k])[j]
  <2>1. CASE k <= m
    <3> DEFINE U == Tokens(k, sent[k])
    <3>1. k \in 1..m /\ sent'[k] = sent[k] /\ g[k] = f[k] /\ sent[k] \in RequestType
      BY <1>1, <1>2, <1>4, <2>1
    <3>2. U \in Seq(Token)
      BY <3>1, TokensAre
    <3>3. j \in 1..Len(U) /\ j \in DOMAIN U
      BY <1>10, <3>1, <3>2
    <3>4. W[f[k] + j] = U[j] /\ f[k + 1] = f[k] + Len(U)
      BY <1>7, <3>1, <3>3
    <3> HIDE DEF U
    <3>5. f[k] \in Nat /\ f[k + 1] <= f[m + 1] /\ Len(U) \in Nat
      BY <1>1, <1>3, <3>1, <3>2
    <3>6. f[k] + j \in 1..(Len(W) + Len(T)) /\ f[k] + j <= Len(W)
      BY <1>3, <1>6, <3>3, <3>4, <3>5
    <3>7. V[f[k] + j] = W[f[k] + j]
      BY <1>5, <3>6
    <3> QED BY <3>1, <3>4, <3>7 DEF U
  <2>2. CASE k = m + 1
    <3>1. Tokens(k, sent'[k]) = T /\ g[k] = Len(W)
      BY <1>1, <1>2, <1>3, <1>4, <2>2 DEF m
    <3>2. j \in 1..Len(T)
      BY <1>10, <3>1
    <3>3. /\ Len(W) + j \in 1..(Len(W) + Len(T)) /\ ~(Len(W) + j <= Len(W))
          /\ (Len(W) + j) - Len(W) = j
      BY <1>6, <3>2
    <3>4. V[Len(W) + j] = T[j]
      BY <1>5, <3>3
    <3> QED BY <3>1, <3>4
  <2>3. k <= m \/ k = m + 1
    BY <1>1
  <2> QED BY <2>1, <2>2, <2>3, Zenon
<1>11. Len(sent') + 1 = m + 2 /\ g[m + 2] = Len(V) /\ DOMAIN g = 1..(m + 2)
  BY <1>1, <1>4, <1>5
<1> QED BY <1>1, <1>4, <1>5, <1>8, <1>9, <1>10, <1>11 DEF Follows

(* The server is where it was. *)
LEMMA FromLonger ==
  ASSUME buf \in Seq(Token), rx \in Seq(Token), UNCHANGED <<buf, rx>>, todo = << >>,
         NEW W \in Seq(Token), NEW a, From(W, a), NEW T \in Seq(Token), todo' = T,
         NEW V, V = W \o T
  PROVE  From(V, a)'
<1> DEFINE R == buf \o rx
           R2 == R \o T
<1>1. R \in Seq(Token) /\ Rest = R
  <2>1. R \in Seq(Token)
    BY ConcatProperties
  <2>2. Rest = R \o << >>
    BY DEF Rest, Three
  <2> HIDE DEF R
  <2> QED BY <2>1, <2>2, ConcatEmptySeq
<1>2. Rest' = R2
  BY DEF Rest, Three
<1>3. a \in Nat /\ Len(W) = a + Len(R) /\ \A i \in DOMAIN R : R[i] = W[a + i]
  BY <1>1 DEF From
<1> HIDE DEF R
<1>4. /\ R2 \in Seq(Token) /\ Len(R2) = Len(R) + Len(T)
      /\ \A i \in 1..(Len(R) + Len(T)) : R2[i] = IF i <= Len(R) THEN R[i] ELSE T[i - Len(R)]
  BY <1>1, ConcatProperties
<1>5. /\ Len(V) = Len(W) + Len(T)
      /\ \A i \in 1..(Len(W) + Len(T)) : V[i] = IF i <= Len(W) THEN W[i] ELSE T[i - Len(W)]
  BY ConcatProperties
<1> HIDE DEF R2
<1>6. Len(R) \in Nat /\ Len(T) \in Nat /\ DOMAIN R = 1..Len(R) /\ DOMAIN R2 = 1..(Len(R) + Len(T))
  BY <1>1, <1>4
<1>7. ASSUME NEW i \in 1..(Len(R) + Len(T)) PROVE R2[i] = V[a + i]
  <2>1. a + i \in 1..(Len(W) + Len(T)) /\ (a + i <= Len(W) <=> i <= Len(R))
    BY <1>3, <1>6
  <2>2. CASE i <= Len(R)
    BY <1>3, <1>4, <1>5, <1>6, <2>1, <2>2
  <2>3. CASE ~(i <= Len(R))
    <3>1. (a + i) - Len(W) = i - Len(R)
      BY <1>3, <1>6
    <3> QED BY <1>4, <1>5, <2>1, <2>3, <3>1
  <2> QED BY <2>2, <2>3
<1>8. Len(V) = a + Len(R2)
  BY <1>3, <1>4, <1>5, <1>6
<1>9. From(V, a)' <=> a \in Nat /\ Len(V) = a + Len(R2) /\ \A i \in DOMAIN R2 : R2[i] = V[a + i]
  BY <1>2 DEF From
<1> QED BY <1>3, <1>6, <1>7, <1>8, <1>9

(* The client's steps leave the server where it is. *)
LEMMA PlaceSame ==
  ASSUME Base, OrderOK, UNCHANGED <<io, out, req, rsp>>, NEW f, NEW g, NEW a, Place(f, a),
         \A k \in 1..(Len(sent) + 1) : g[k] = f[k]
  PROVE  Place(g, a)'
<1>1. Len(out) \in Nat /\ Len(out) <= Len(sent) /\ sent \in Seq(RequestType)
  BY DEF Base, ConnectionInv, StreamOK, AnswersOK, OrderOK
<1>2. g[Len(out) + 1] = f[Len(out) + 1]
  BY <1>1
<1>3. io.kont \notin Early => g[req.n] = f[req.n] /\ g[req.n + 1] = f[req.n + 1]
  <2>1. io.kont \notin Early => req.n \in 1..Len(sent)
    BY <1>1 DEF Base, ConnectionInv, StreamOK
  <2> QED BY <1>1, <2>1
<1> QED BY <1>2, <1>3 DEF Place, Early, AnswerKonts

(* As many as there are in a range. *)
LEMMA CountUpTo ==
  ASSUME NEW n \in Nat
  PROVE  IsFiniteSet(1..n) /\ Cardinality(1..n) = n
<1>1. IsFiniteSet(1..n) /\ Cardinality(1..n) = IF 1 > n THEN 0 ELSE n - 1 + 1
  BY FS_Interval
<1> QED BY <1>1

(* Every request is answered when as many answers are over. *)
LEMMA AllOver ==
  ASSUME out \in Seq(AnswerType), Len(out) <= Len(sent), sent \in Seq(RequestType),
         Answered = Len(sent)
  PROVE  \A k \in DOMAIN sent : k \in DOMAIN out /\ out[k].over
<1> DEFINE A == {k \in DOMAIN out : out[k].over}
           B == 1..Len(out)
<1>1. Len(out) \in Nat /\ Len(sent) \in Nat /\ DOMAIN out = B /\ DOMAIN sent = 1..Len(sent)
  OBVIOUS
<1>2. IsFiniteSet(B) /\ Cardinality(B) = Len(out)
  BY <1>1, CountUpTo
<1>3. A \in SUBSET B
  BY <1>1
<1> HIDE DEF B
<1>4. /\ IsFiniteSet(A) /\ Cardinality(A) <= Cardinality(B)
      /\ Cardinality(B) = Cardinality(A) => B = A
  <2> HIDE DEF A
  <2> QED BY <1>2, <1>3, FS_Subset
<1>5. Cardinality(A) = Len(sent)
  BY Zenon DEF Answered
<1>6. Len(out) = Len(sent) /\ B = A
  BY <1>1, <1>2, <1>4, <1>5
<1> QED BY <1>1, <1>6 DEF B

(* When every request is answered, so is every single one. *)
LEMMA AllAnswered ==
  ASSUME out \in Seq(AnswerType), \A k \in DOMAIN out : out[k].over
  PROVE  Answered = Len(out)
<1>1. {k \in DOMAIN out : out[k].over} = 1..Len(out) /\ Len(out) \in Nat
  OBVIOUS
<1>2. Cardinality(1..Len(out)) = Len(out)
  BY <1>1, CountUpTo
<1> QED BY <1>1, <1>2, Zenon DEF Answered

(* A client makes a request: it may, or the last was answered. *)
LEMMA MakeRequestStands ==
  ASSUME ConnectionAssumption, Base, Stream, MakeRequest
  PROVE  Stream'
<1>1. /\ up = TRUE /\ up' = TRUE /\ peer = "open" /\ todo = << >>
      /\ UNCHANGED <<io, buf, rx, peer, why, req, rsp, out, shut>>
      /\ Answered = Len(sent) \/ (sent # << >> /\ Last(sent) \in Pipelined)
  BY DEF MakeRequest, ClientTurn, Base, ConnectionInv, IoOK, ioVars, rspVars, lifeVars
<1>2. PICK r \in Requests : sent' = Append(sent, r) /\ todo' = Tokens(Len(sent) + 1, r)
  BY DEF MakeRequest
<1>2a. PICK T : T = Tokens(Len(sent) + 1, r)
  OBVIOUS
<1>3. r \in RequestType
  BY DEF ConnectionAssumption
<1>4. /\ sent \in Seq(RequestType) /\ Len(sent) \in Nat
      /\ buf \in Seq(Token) /\ rx \in Seq(Token)
  BY TokensTyped DEF Base, ConnectionInv
<1>5. T \in Seq(Token) /\ Len(T) \in Nat /\ Len(T) > 0
  <2>1. Len(sent) + 1 \in Nat
    BY <1>4
  <2>2. T \in Seq(Token) /\ r.size \in Nat
        /\ Len(T) = 2 + r.size + (IF r.te \in {"chunked", "torn"} THEN 1 ELSE 0)
    BY <1>2a, <1>3, <2>1, TokensAre
  <2> QED BY <2>2
<1>6. /\ Len(sent') = Len(sent) + 1 /\ sent' # << >> /\ sent' \in Seq(Requests)
      /\ \A k \in DOMAIN sent : k \in DOMAIN sent' /\ sent'[k] = sent[k]
      /\ \A k \in DOMAIN sent' : k < Len(sent') => k \in DOMAIN sent
  <2>1. sent \in Seq(Requests)
    BY DEF Stream, OrderOK
  <2> QED BY <1>2, <2>1
<1>7. OrderOK'
  <2>1. ASSUME NEW k \in DOMAIN sent
        PROVE  sent'[k] \in Pipelined \/ (k \in DOMAIN out' /\ out'[k].over)
    <3>1. CASE Answered = Len(sent)
      <4>1. out \in Seq(AnswerType) /\ Len(out) <= Len(sent)
        BY DEF Base, AnswersOK, Stream, OrderOK
      <4>2. k \in DOMAIN out /\ out[k].over
        BY <1>4, <3>1, <4>1, AllOver
      <4> QED BY <1>1, <4>2
    <3>2. CASE sent # << >> /\ Last(sent) \in Pipelined
      <4>1. CASE k < Len(sent)
        BY <1>1, <1>6, <4>1 DEF Stream, OrderOK
      <4>2. CASE k = Len(sent)
        BY <1>6, <3>2, <4>2 DEF Last
      <4> QED BY <1>4, <4>1, <4>2
    <3> QED BY <1>1, <3>1, <3>2
  <2>2. Len(out') <= Len(sent')
    BY <1>1, <1>4, <1>6 DEF Stream, OrderOK, Base, AnswersOK
  <2> QED BY <1>1, <1>6, <2>1, <2>2 DEF Stream, OrderOK
<1>8. BodyOK'
  BY <1>1, BodyStays DEF Stream
<1>9. SidesOK'
  BY <1>1, SidesStay DEF Stream, SidesOK
<1>10. InStream'
  <2>1. CASE io.kont = "teardown"
    BY <1>1, <2>1 DEF InStream
  <2>2. CASE io.kont # "teardown"
    <3>1. PICK W, f, a : Standing(W, f, a)
      BY <1>1, <2>2 DEF Stream, InStream
    <3>2. Follows(W, f) /\ From(W, a) /\ Place(f, a) /\ W \in Seq(Token) /\ f[Len(sent) + 1] = Len(W)
      BY <3>1 DEF Standing, Follows
    <3>3. PICK V, g : V = W \o T /\ g = Longer(W, f, T)
      OBVIOUS
    <3>4. /\ g[Len(sent) + 2] = Len(W) + Len(T)
          /\ \A k \in 1..(Len(sent) + 1) : g[k] = f[k]
      <4>1. /\ g \in [1..(Len(sent) + 2) -> Nat] /\ g[Len(sent) + 2] = Len(W) + Len(T)
            /\ \A k \in 1..(Len(sent) + 1) : g[k] = f[k]
        <5>1. sent \in Seq(RequestType) /\ Follows(W, f) /\ T \in Seq(Token) /\ g = Longer(W, f, T)
          BY <1>4, <1>5, <3>2, <3>3
        <5> QED BY <5>1, LongerFields, SMTT(30)
      <4> QED BY <4>1, Zenon
    <3>5. Len(V) = Len(W) + Len(T) /\ Len(W) \in Nat
      BY <1>5, <3>2, <3>3, ConcatProperties
    <3>6. Follows(V, g)'
      BY <1>2, <1>2a, <1>3, <1>4, <1>5, <3>2, <3>3, FollowsLonger
    <3>7. From(V, a)'
      <4>1. todo' = T
        BY <1>2, <1>2a
      <4> QED BY <1>1, <1>4, <1>5, <3>2, <3>3, <4>1, FromLonger
    <3>8. Place(g, a)'
      BY <1>1, <3>2, <3>4, PlaceSame DEF Stream
    <3>9. Unsent(V, g)'
      <4>1. g[Len(sent')] = Len(W)
        BY <1>4, <1>6, <3>2, <3>4
      <4>2. todo' = T
        BY <1>2, <1>2a
      <4> QED BY <1>5, <1>6, <3>5, <4>1, <4>2 DEF Unsent
    <3> QED BY <3>6, <3>7, <3>8, <3>9 DEF InStream, Standing
  <2> QED BY <2>1, <2>2
<1> QED BY <1>7, <1>8, <1>9, <1>10 DEF Stream

(* The client's token arrives. *)
LEMMA SendTokenStands ==
  ASSUME Base, Stream, SendToken
  PROVE  Stream'
<1>1. /\ up = TRUE /\ up' = TRUE /\ ~io.ready /\ peer = "open" /\ todo # << >>
      /\ UNCHANGED <<io, buf, sent, peer, why, req, rsp, out, shut>>
      /\ rx' = Append(rx, Head(todo)) /\ todo' = Tail(todo)
  BY DEF SendToken, ClientTurn, Base, ConnectionInv, IoOK, ioVars, rspVars, lifeVars
<1>2. OrderOK'
  BY <1>1 DEF Stream, OrderOK
<1>3. BodyOK'
  BY <1>1, BodyStays DEF Stream
<1>4. SidesOK'
  BY <1>1, SidesStay DEF Stream, SidesOK
<1>5. InStream'
  <2>1. CASE io.kont = "teardown"
    BY <1>1, <2>1 DEF InStream
  <2>2. CASE io.kont # "teardown"
    <3>1. PICK W, f, a : Standing(W, f, a)
      BY <1>1, <2>2 DEF Stream, InStream
    <3>2. Place(f, a)'
      BY <1>1, <3>1 DEF Standing, Place
    <3>3. buf \in Seq(Token) /\ rx \in Seq(Token) /\ todo \in Seq(Token)
      BY TokensTyped DEF Base, ConnectionInv
    <3>4. Standing(W, f, a)'
      BY <1>1, <3>1, <3>2, <3>3, MovesOn
    <3> QED BY <3>4 DEF InStream
  <2> QED BY <2>1, <2>2
<1> QED BY <1>2, <1>3, <1>4, <1>5 DEF Stream

(* Nothing but the peer changes, if it does. *)
LEMMA PeerStands ==
  ASSUME Base, Stream, UNCHANGED <<io, buf, todo, sent, up, why, req, rsp, out, shut>>,
         \/ rx' = rx /\ peer' = peer
         \/ rx' = rx /\ peer # "reset" /\ peer' # "reset"
         \/ up /\ ~io.ready /\ rx' = << >> /\ peer' = "reset"
  PROVE  Stream'
<1>1. OrderOK'
  BY DEF Stream, OrderOK
<1>2. BodyOK'
  BY BodyStays DEF Stream
<1>3. SidesOK'
  <2>1. EofAnswersAll'
    BY DEF Stream, SidesOK, EofAnswersAll, Answered, Whole
  <2> QED BY <2>1 DEF Stream, SidesOK
<1>4. InStream'
  <2>1. CASE peer' = "reset" \/ ~up \/ io.kont = "teardown"
    BY <2>1 DEF InStream
  <2>2. CASE peer' # "reset" /\ up /\ io.kont # "teardown"
    <3>1. rx' = rx /\ peer # "reset"
      BY <2>2
    <3>2. PICK W, f, a : Standing(W, f, a)
      BY <2>2, <3>1 DEF Stream, InStream
    <3>3. Place(f, a)'
      BY <3>2 DEF Standing, Place
    <3>4. Standing(W, f, a)'
      BY <3>1, <3>2, <3>3, Stays
    <3> QED BY <3>4 DEF InStream
  <2> QED BY <2>1, <2>2
<1> QED BY <1>1, <1>2, <1>3, <1>4 DEF Stream

(* A new client begins with an empty stream. *)
LEMMA AcceptStands ==
  ASSUME OnAccept
  PROVE  Stream'
<1>1. /\ up' = TRUE /\ why' = "none" /\ peer' = "open" /\ req' = NoRequest
      /\ sent' = << >> /\ buf' = << >> /\ rx' = << >> /\ todo' = << >> /\ out' = << >>
      /\ io'.kont = "request_line_read" /\ io'.ready = FALSE
  BY DEF OnAccept
<1>2. OrderOK'
  BY <1>1 DEF OrderOK, AtWork
<1>3. BodyOK'
  <2>1. req'.body = << >> /\ << >> \in Seq(Token)
    BY <1>1 DEF NoRequest
  <2> QED BY <1>1, <2>1 DEF BodyOK
<1>4. SidesOK'
  BY <1>1 DEF SidesOK, EofAnswersAll
<1>5. InStream'
  <2>1. PICK W, f, a : W = << >> /\ f = [k \in 1..1 |-> 0] /\ a = 0
    OBVIOUS
  <2>2. Follows(W, f)'
    <3>1. Len(sent') + 1 = 1 /\ DOMAIN sent' = {} /\ W \in Seq(Token) /\ Len(W) = 0
      BY <1>1, <2>1
    <3>2. f \in [1..1 -> Nat] /\ f[1] = 0 /\ DOMAIN f = 1..1
      BY <2>1
    <3>3. \A k, l \in 1..1 : ~(k < l)
      OBVIOUS
    <3> QED BY <3>1, <3>2, <3>3 DEF Follows
  <2>3. From(W, a)'
    <3>1. Rest' = (<< >> \o << >>) \o << >>
      BY <1>1 DEF Rest, Three
    <3>2. (<< >> \o << >>) \o << >> = << >>
      OBVIOUS
    <3>3. Rest' = << >>
      BY <3>1, <3>2
    <3> QED BY <2>1, <3>3 DEF From
  <2>4. Place(f, a)'
    BY <1>1, <2>1 DEF Place, AnswerKonts
  <2>5. Unsent(W, f)'
    BY <1>1 DEF Unsent
  <2> QED BY <2>2, <2>3, <2>4, <2>5 DEF InStream, Standing
<1> QED BY <1>2, <1>3, <1>4, <1>5 DEF Stream

-----------------------------------------------------------------------------
(* Reading.                                                                *)
LEMMA ReadStands ==
  ASSUME ConnectionAssumption, Base, Stream,
         \/ KontRequestLineRead \/ KontRequestHeaderRead
         \/ KontRequestChunkedRead \/ KontRequestLengthRead
  PROVE  Stream'
<1>1. PICK was, now : /\ was \in ReadKonts \ {"teardown"} /\ now \in MemoryKonts /\ Read(was, now)
                      /\ \/ was = "request_line_read" /\ now = "request_line"
                         \/ was = "request_header_read" /\ now = "request_header"
                         \/ was = "request_chunked_read" /\ now = "request_chunked"
                         \/ was = "request_length_read" /\ now = "request_length"
  BY DEF KontRequestLineRead, KontRequestHeaderRead, KontRequestChunkedRead, KontRequestLengthRead
<1>2. /\ up = TRUE /\ up' = TRUE /\ io.kont = was /\ io \in IoType /\ io' = GoOn(now)
      /\ UNCHANGED <<todo, sent, peer, why, req, rsp, out, shut>>
  BY <1>1 DEF Read, Called, Base, ConnectionInv, IoOK, rspVars, lifeVars
<1>3. io'.kont = now
  BY <1>1, <1>2, GoOnFields DEF Konts
<1>4. buf \in Seq(Token) /\ rx \in Seq(Token) /\ todo \in Seq(Token)
  BY TokensTyped DEF Base, ConnectionInv
<1>5. PICK n \in 1..Len(rx) : buf' = SubSeq(rx, 1, n) /\ rx' = SubSeq(rx, n + 1, Len(rx))
  <2>1. PICK n \in 1..BufferSize :
          n <= Len(rx) /\ buf' = SubSeq(rx, 1, n) /\ rx' = SubSeq(rx, n + 1, Len(rx))
    BY <1>1 DEF Read
  <2>2. n \in 1..Len(rx)
    BY <1>4, <2>1 DEF ConnectionAssumption
  <2> QED BY <2>1, <2>2
<1>6. peer # "reset" /\ buf = << >>
  <2>1. rx # << >>
    BY <1>5
  <2> QED BY <1>1, <1>2, <2>1 DEF Stream, SidesOK
<1>7. OrderOK'
  BY <1>1, <1>2, <1>3, OrderStays, OutStays DEF Stream, OrderOK, AtWork
<1>8. BodyOK'
  BY <1>1, <1>2, <1>3, BodyStays DEF Stream, AtWork
<1>9. SidesOK'
  BY <1>1, <1>2, <1>3, <1>6, SidesStay DEF Stream
<1>10. InStream'
  <2>1. PICK W, f, a : Standing(W, f, a)
    BY <1>1, <1>2, <1>6 DEF Stream, InStream
  <2>2. Place(f, a)
    BY <2>1 DEF Standing
  <2>3. Place(f, a)'
    BY <1>1, <1>2, <1>3, <2>2 DEF Place, AnswerKonts
  <2>4. Standing(W, f, a)'
    BY <1>2, <1>4, <1>5, <1>6, <2>1, <2>3, MovesOn
  <2> QED BY <2>4 DEF InStream
<1> QED BY <1>7, <1>8, <1>9, <1>10 DEF Stream

(* What is read in kont_teardown is of no request. *)
LEMMA TeardownStands ==
  ASSUME ConnectionAssumption, Base, Stream, KontTeardown
  PROVE  Stream'
<1>1. /\ up = TRUE /\ up' = TRUE /\ io.kont = "teardown"
      /\ UNCHANGED <<io, buf, todo, sent, peer, why, req, rsp, out, shut>>
  BY DEF KontTeardown, Called, Base, ConnectionInv, IoOK, ioVars, rspVars, lifeVars
<1>2. PICK n \in 1..BufferSize : n <= Len(rx)
  BY DEF KontTeardown
<1>3. rx # << >>
  BY <1>2 DEF ConnectionAssumption
<1>4. peer # "reset"
  BY <1>1, <1>3 DEF Stream, SidesOK
<1>5. OrderOK'
  BY <1>1 DEF Stream, OrderOK
<1>6. BodyOK'
  BY <1>1, BodyStays DEF Stream
<1>7. SidesOK'
  BY <1>1, <1>4, SidesStay DEF Stream, SidesOK
<1>8. InStream'
  BY <1>1 DEF InStream
<1> QED BY <1>5, <1>6, <1>7, <1>8 DEF Stream

(* The connection ends. *)
LEMMA CloseStands ==
  ASSUME Base, Stream, up = TRUE, NEW reason, OnClose(reason),
         reason = "eof" => shut \/ Answered >= Whole
  PROVE  Stream'
<1>1. /\ up' = FALSE /\ why' = reason /\ UNCHANGED <<req, out, shut, sent, todo>>
      /\ io' = [io EXCEPT !.kont = "none", !.ready = FALSE] /\ io \in IoType
  BY DEF OnClose, clientVars, Base, ConnectionInv, IoOK
<1>2. io'.kont = "none"
  BY <1>1, Zenon DEF IoType
<1>3. OrderOK'
  BY <1>1 DEF Stream, OrderOK
<1>4. BodyOK'
  BY <1>1, <1>2, BodyStays DEF Stream, AtWork
<1>5. SidesOK'
  <2>1. EofAnswersAll'
    BY <1>1 DEF EofAnswersAll, Answered, Whole
  <2> QED BY <1>1, <2>1 DEF SidesOK
<1>6. InStream'
  BY <1>1 DEF InStream
<1> QED BY <1>3, <1>4, <1>5, <1>6 DEF Stream

(* The stream ends while the server is behind the client by one request    *)
(* at most, and that one has not arrived whole.                            *)
LEMMA Behind ==
  ASSUME sent \in Seq(RequestType), buf \in Seq(Token), rx \in Seq(Token), todo \in Seq(Token),
         buf = << >>, rx = << >>,
         NEW W, NEW f, NEW a, Follows(W, f), From(W, a), Unsent(W, f),
         NEW n \in Nat, n >= 1,
         \/ n <= Len(sent) + 1 /\ a = f[n]
         \/ n <= Len(sent) /\ a < f[n + 1]
  PROVE  n - 1 >= Whole
<1> DEFINE m == Len(sent)
           u == Len(todo)
<1>1. m \in Nat /\ u \in Nat /\ (todo = << >> <=> u = 0) /\ (sent = << >> <=> m = 0)
  OBVIOUS
<1>2. /\ f \in [1..(m + 1) -> Nat] /\ f[m + 1] = Len(W) /\ Len(W) \in Nat
      /\ \A k, l \in 1..(m + 1) : k < l => f[k] < f[l]
  <2>1. /\ f \in [1..(m + 1) -> Nat] /\ f[m + 1] = Len(W) /\ W \in Seq(Token)
        /\ \A k, l \in DOMAIN f : k < l => f[k] < f[l]
    BY Zenon DEF Follows
  <2>2. DOMAIN f = 1..(m + 1) /\ Len(W) \in Nat
    BY <2>1
  <2> QED BY <2>1, <2>2
<1>3. a \in Nat /\ Len(W) = a + u
  <2>1. a \in Nat /\ Len(W) = a + Len(buf) + Len(rx) + Len(todo)
    BY BufferIs
  <2>2. Len(buf) = 0 /\ Len(rx) = 0
    OBVIOUS
  <2> QED BY <1>1, <2>1, <2>2
<1>4. u # 0 => m # 0 /\ u <= Len(W) - f[m]
  BY <1>1 DEF Unsent
<1>5. Whole = IF u = 0 THEN m ELSE m - 1
  BY <1>1 DEF Whole
<1> HIDE DEF m, u
<1>6. CASE u = 0
  <2>1. a = f[m + 1]
    BY <1>1, <1>2, <1>3, <1>6
  <2>2. CASE n <= m + 1 /\ a = f[n]
    <3>1. ~(n < m + 1)
      <4>1. ASSUME n < m + 1 PROVE FALSE
        <5>1. n \in 1..(m + 1) /\ m + 1 \in 1..(m + 1)
          BY <1>1, <2>2
        <5>2. f[n] < f[m + 1] /\ f[n] \in Nat
          BY <1>2, <4>1, <5>1
        <5> QED BY <2>1, <2>2, <5>2
      <4> QED BY <4>1
    <3> QED BY <1>1, <1>5, <1>6, <2>2, <3>1
  <2>3. CASE n <= m /\ a < f[n + 1]
    <3>1. n + 1 \in 1..(m + 1) /\ m + 1 \in 1..(m + 1)
      BY <1>1, <2>3
    <3>2. n + 1 < m + 1 => f[n + 1] < f[m + 1]
      BY <1>2, <3>1
    <3>3. f[n + 1] \in Nat /\ f[m + 1] \in Nat
      BY <1>2, <3>1
    <3>4. f[n + 1] <= f[m + 1]
      <4>1. CASE n + 1 < m + 1
        BY <3>2, <3>3, <4>1
      <4>2. CASE ~(n + 1 < m + 1)
        <5>1. n + 1 = m + 1
          BY <1>1, <3>1, <4>2
        <5> QED BY <3>3, <5>1
      <4> QED BY <4>1, <4>2
    <3> QED BY <2>1, <2>3, <3>3, <3>4
  <2> QED BY <2>2, <2>3 DEF m
<1>7. CASE u # 0
  <2>1. m \in 1..(m + 1) /\ f[m] <= a /\ f[m] \in Nat
    <3>1. m \in 1..(m + 1)
      BY <1>1, <1>4, <1>7
    <3>2. f[m] \in Nat
      BY <1>2, <3>1
    <3> QED BY <1>1, <1>2, <1>3, <1>4, <1>7, <3>1, <3>2
  <2>2. CASE n <= m + 1 /\ a = f[n]
    <3>1. n \in 1..(m + 1)
      BY <1>1, <2>2
    <3>2. n < m => f[n] < f[m]
      BY <1>2, <2>1, <3>1
    <3>3. ~(n < m)
      BY <1>3, <2>1, <2>2, <3>2
    <3> QED BY <1>1, <1>5, <1>7, <3>3
  <2>3. CASE n <= m /\ a < f[n + 1]
    <3>1. n + 1 \in 1..(m + 1)
      BY <1>1, <2>3
    <3>2. n + 1 < m => f[n + 1] < f[m]
      BY <1>2, <2>1, <3>1
    <3>3. n + 1 = m => f[n + 1] = f[m]
      OBVIOUS
    <3>4. f[n + 1] \in Nat
      BY <1>2, <3>1
    <3>5. ~(n + 1 < m) /\ n + 1 # m
      BY <1>3, <2>1, <2>3, <3>2, <3>3, <3>4
    <3> QED BY <1>1, <1>5, <1>7, <3>5
  <2> QED BY <2>2, <2>3 DEF m
<1> QED BY <1>6, <1>7

(* read () gives 0: nothing whole is left in the stream. *)
LEMMA EofStands ==
  ASSUME Base, Stream, ReadEof
  PROVE  Stream'
<1>1. PICK k \in ReadKonts : Called(k)
  BY DEF ReadEof
<1>2. up = TRUE /\ io.kont = k /\ rx = << >> /\ peer = "fin" /\ OnClose("eof")
  BY <1>1 DEF ReadEof, Called, Base, ConnectionInv, IoOK
<1>3. CASE k = "teardown"
  <2>1. shut
    BY <1>2, <1>3 DEF Stream, SidesOK
  <2> QED BY <1>2, <2>1, CloseStands
<1>4. CASE k # "teardown"
  <2>1. buf = << >>
    BY <1>1, <1>2, <1>4 DEF Stream, SidesOK
  <2>2. PICK W, f, a : Standing(W, f, a)
    BY <1>2, <1>4 DEF Stream, InStream
  <2>3. /\ sent \in Seq(RequestType) /\ Len(sent) \in Nat
        /\ buf \in Seq(Token) /\ rx \in Seq(Token) /\ todo \in Seq(Token)
    BY TokensTyped DEF Base, ConnectionInv
  <2>4. /\ out \in Seq(AnswerType) /\ Len(out) \in Nat /\ Len(out) <= Len(sent)
        /\ \A i \in DOMAIN out : i < Len(out) => out[i].over
        /\ out # << >> => out[Len(out)].over
    BY <1>1, <1>2 DEF Base, AnswersOK, AnswerOK, Stream, OrderOK
  <2>5. Answered = Len(out)
    <3>1. ASSUME NEW i \in DOMAIN out PROVE out[i].over
      <4>1. CASE i < Len(out)
        BY <2>4, <4>1
      <4>2. CASE i = Len(out)
        BY <2>4, <4>2
      <4> QED BY <2>4, <4>1, <4>2
    <3> QED BY <2>4, <3>1, AllAnswered
  <2> DEFINE n == Len(out) + 1
  <2>6. \/ n <= Len(sent) + 1 /\ a = f[n]
        \/ n <= Len(sent) /\ a < f[n + 1]
    <3>1. CASE k = "request_line_read"
      BY <1>2, <2>2, <2>3, <2>4, <3>1 DEF Standing, Place
    <3>2. CASE k # "request_line_read"
      <4>1. req.n = n /\ n \in DOMAIN sent /\ req.r = sent[n]
        BY <1>1, <1>2, <1>4, <3>2 DEF Stream, OrderOK, AtWork, Base, ConnectionInv, StreamOK, Early
      <4>2. RequestIn(W, f[n], n, sent[n], f[n + 1])
        BY <2>2, <2>3, <4>1, RequestsIn DEF Standing
      <4>3. PICK p, q, r, b : p = f[n] /\ q = f[n + 1] /\ r = req.r /\ b = Len(req.body)
        OBVIOUS
      <4>4. /\ p \in Nat /\ r.size \in Nat
            /\ r.te \in {"chunked", "torn"} => q = p + 3 + r.size
            /\ r.te \notin {"chunked", "torn"} => q = p + 2 + r.size
        BY <4>1, <4>2, <4>3 DEF RequestIn
      <4>5. b \in Nat
        BY <4>3 DEF Stream, BodyOK
      <4>6. Place(f, a)
        BY <2>2 DEF Standing
      <4>7. a < q
        <5>1. CASE k = "request_header_read"
          <6>1. a = p + 1
            BY <1>2, <4>1, <4>3, <4>6, <5>1 DEF Place
          <6> QED BY <4>4, <6>1
        <5>2. CASE k = "request_chunked_read"
          <6>1. a = p + 2 + b /\ b <= r.size /\ r.te \in {"chunked", "torn"}
            BY <1>2, <4>1, <4>3, <4>6, <5>2 DEF Place, BodyKont
          <6> QED BY <4>4, <4>5, <6>1
        <5>3. CASE k = "request_length_read"
          <6>1. a = p + 2 + b /\ b < r.size
            BY <1>2, <4>1, <4>3, <4>6, <5>3 DEF Place
          <6> QED BY <4>4, <4>5, <6>1
        <5> QED BY <1>1, <1>4, <3>2, <5>1, <5>2, <5>3
      <4> QED BY <2>3, <4>1, <4>3, <4>7
    <3> QED BY <3>1, <3>2
  <2>7. Len(out) + 1 - 1 >= Whole
    <3>1. n \in Nat /\ n >= 1
      BY <2>4
    <3>2. Follows(W, f) /\ From(W, a) /\ Unsent(W, f)
      BY <2>2 DEF Standing
    <3>3. n - 1 >= Whole
      <4> HIDE DEF n
      <4> QED BY <1>2, <2>1, <2>3, <2>6, <3>1, <3>2, Behind
    <3> QED BY <3>3
  <2>8. Answered >= Whole
    BY <2>4, <2>5, <2>7
  <2> QED BY <1>2, <2>8, CloseStands
<1> QED BY <1>3, <1>4

(* The ways a connection ends. *)
LEMMA LeaveStands ==
  ASSUME Base, Stream, OnTimer \/ ReadEof \/ IoFails
  PROVE  Stream'
<1>1. CASE OnTimer
  <2>1. up = TRUE /\ OnClose("timeout")
    BY <1>1 DEF OnTimer, Base, ConnectionInv, IoOK
  <2> QED BY <2>1, CloseStands
<1>2. CASE ReadEof
  BY <1>2, EofStands
<1>3. CASE IoFails
  <2>1. up = TRUE /\ OnClose("error")
    BY <1>3 DEF IoFails, Called, Base, ConnectionInv, IoOK
  <2> QED BY <2>1, CloseStands
<1> QED BY <1>1, <1>2, <1>3

(* The request at work, in the stream. *)
LEMMA WorkIn ==
  ASSUME Base, Stream, up = TRUE, io.kont \in AtWork, NEW W, NEW f, NEW a, Standing(W, f, a)
  PROVE  /\ req.n = Len(out) + 1 /\ req.n \in DOMAIN sent /\ req.r = sent[req.n]
         /\ sent \in Seq(RequestType) /\ req.r \in RequestType
         /\ RequestIn(W, f[req.n], req.n, req.r, f[req.n + 1])
<1>1. /\ req.n = Len(out) + 1 /\ req.n \in DOMAIN sent /\ req.r = sent[req.n]
      /\ sent \in Seq(RequestType)
  BY DEF Stream, OrderOK, AtWork, Base, ConnectionInv, StreamOK, Early
<1>2. PICK n, r : n = req.n /\ r = req.r
  OBVIOUS
<1>3. n \in DOMAIN sent /\ r = sent[n] /\ Follows(W, f)
  BY <1>1, <1>2 DEF Standing
<1>4. RequestIn(W, f[n], n, r, f[n + 1])
  BY <1>1, <1>3, RequestsIn
<1>5. r \in RequestType
  BY <1>1, <1>3
<1>6. RequestIn(W, f[req.n], req.n, req.r, f[req.n + 1])
  BY <1>2, <1>4, Zenon
<1> QED BY <1>1, <1>2, <1>5, <1>6

(* The first token of the buffer is taken. *)
LEMMA TailTaken ==
  ASSUME buf \in Seq(Token), buf # << >>
  PROVE  /\ 1 \in 0..Len(buf) /\ 1 \in 1..Len(buf) /\ Tail(buf) = SubSeq(buf, 1 + 1, Len(buf))
         /\ Head(buf) = buf[1]
<1>1. Tail(buf) = SubSeq(buf, 2, Len(buf))
  BY TailIsSubSeq
<1>2. Len(buf) \in Nat /\ Len(buf) >= 1 /\ Head(buf) = buf[1]
  OBVIOUS
<1> QED BY <1>1, <1>2

(* The next token of the stream is the request line of the next request. *)
LEMMA LineNext ==
  ASSUME Base, Stream, At("request_line"), buf # << >>, NEW n, n = Len(out) + 1
  PROVE  n \in DOMAIN sent /\ Head(buf) = Tok(n, "line", sent[n])
<1>1. up = TRUE /\ io.kont = "request_line" /\ \E W, f, a : Standing(W, f, a)
  BY InMemory
<1>2. PICK W, f, a : Standing(W, f, a)
  BY <1>1
<1>3. a = f[Len(out) + 1] /\ From(W, a) /\ Follows(W, f)
  BY <1>1, <1>2 DEF Standing, Place
<1>4. /\ sent \in Seq(RequestType) /\ Len(sent) \in Nat
      /\ buf \in Seq(Token) /\ rx \in Seq(Token) /\ todo \in Seq(Token)
  BY TokensTyped DEF Base, ConnectionInv
<1>5. 1 \in 1..Len(buf) /\ Head(buf) = buf[1]
  BY <1>4, TailTaken
<1>6. /\ a \in Nat /\ Len(W) = a + Len(buf) + Len(rx) + Len(todo)
      /\ \A i \in 1..Len(buf) : buf[i] = W[a + i]
  BY <1>3, <1>4, BufferIs
<1>7. buf[1] = W[a + 1]
  BY <1>5, <1>6
<1>8. n \in 1..Len(sent)
  <2>1. Len(out) \in Nat /\ Len(out) <= Len(sent)
    BY DEF Base, AnswersOK, Stream, OrderOK
  <2>2. f[Len(sent) + 1] = Len(W)
    BY <1>3 DEF Follows
  <2>3. Len(W) # a
    BY <1>4, <1>5, <1>6
  <2> QED BY <1>3, <1>4, <2>1, <2>2, <2>3
<1>9. n \in DOMAIN sent
  BY <1>4, <1>8
<1>10. RequestIn(W, f[n], n, sent[n], f[n + 1])
  BY <1>3, <1>4, <1>9, RequestsIn
<1>11. W[f[n] + 1] = Tok(n, "line", sent[n])
  BY <1>10 DEF RequestIn
<1> QED BY <1>3, <1>5, <1>7, <1>9, <1>11

(* The request line is the next token of the stream. *)
LEMMA LineStands ==
  ASSUME Base, Stream, KontRequestLine
  PROVE  Stream'
<1>1. /\ up = TRUE /\ up' = TRUE /\ io.kont = "request_line" /\ io \in IoType /\ peer # "reset"
      /\ UNCHANGED <<sent, rx, todo, peer, why, out, rsp, shut>>
      /\ \E W, f, a : Standing(W, f, a)
  BY InMemory DEF KontRequestLine, clientVars, lifeVars, rspVars
<1>2. PICK W, f, a : Standing(W, f, a)
  BY <1>1
<1>3. a = f[Len(out) + 1] /\ From(W, a) /\ Follows(W, f)
  BY <1>1, <1>2 DEF Standing, Place
<1>4. CASE buf = << >> /\ io' = WaitFor("READ", "request_line_read") /\ UNCHANGED <<buf, req>>
  <2>1. io'.kont = "request_line_read"
    BY <1>4, WaitForFields DEF Konts
  <2>2. OrderOK'
    BY <1>1, <2>1, OrderStays, OutStays DEF Stream, OrderOK, AtWork
  <2>3. BodyOK'
    BY <1>4, <2>1, BodyStays DEF Stream, AtWork
  <2>4. SidesOK'
    BY <1>1, <1>4, <2>1, SidesStay DEF Stream
  <2>5. Place(f, a)'
    BY <1>1, <1>3, <2>1 DEF Place, AnswerKonts
  <2>6. Standing(W, f, a)'
    BY <1>1, <1>2, <1>4, <2>5, Stays
  <2> QED BY <2>2, <2>3, <2>4, <2>6 DEF Stream, InStream
<1>5. CASE /\ buf # << >> /\ buf' = Tail(buf) /\ io' = GoOn("request_header")
           /\ req' = [n |-> Head(buf).n, r |-> Head(buf).r, body |-> << >>]
  <2> DEFINE n == Len(out) + 1
  <2>1. io'.kont = "request_header"
    BY <1>1, <1>5, GoOnFields DEF Konts
  <2>2. /\ sent \in Seq(RequestType) /\ Len(sent) \in Nat
        /\ buf \in Seq(Token) /\ rx \in Seq(Token) /\ todo \in Seq(Token)
    BY TokensTyped DEF Base, ConnectionInv
  <2>3. /\ 1 \in 0..Len(buf) /\ 1 \in 1..Len(buf) /\ Head(buf) = buf[1]
        /\ buf' = SubSeq(buf, 1 + 1, Len(buf))
    BY <1>5, <2>2, TailTaken
  <2>4. n \in DOMAIN sent /\ Head(buf) = Tok(n, "line", sent[n])
    <3> HIDE DEF n
    <3> QED BY <1>5, LineNext DEF n, KontRequestLine
  <2>5. req'.n = n /\ req'.body = << >>
    BY <1>5, <2>4 DEF Tok
  <2>6. OrderOK'
    BY <1>1, <2>1, <2>5, OrderStays, OutStays DEF Stream, OrderOK, AtWork
  <2>7. BodyOK'
    <3>1. << >> \in Seq(Token) /\ DOMAIN << >> = {}
      OBVIOUS
    <3> QED BY <2>1, <2>5, <3>1 DEF BodyOK, AtWork
  <2>8. SidesOK'
    BY <1>1, <2>1, SidesStay DEF Stream
  <2>9. Place(f, a + 1)'
    <3>1. a + 1 = f[req'.n] + 1 /\ Len(req'.body) = 0
      BY <1>3, <2>5
    <3> QED BY <2>1, <3>1 DEF Place, AnswerKonts
  <2>10. Standing(W, f, a + 1)'
    BY <1>1, <1>2, <2>2, <2>3, <2>9, Takes
  <2> QED BY <2>6, <2>7, <2>8, <2>10 DEF Stream, InStream
<1> QED BY <1>4, <1>5, Zenon DEF KontRequestLine

(* A refusal ends the connection: what follows it need not be framed. *)
Refused(p, c, v) == p = ErrorPage(c) \/ p = [ErrorPage(c) EXCEPT !.version = v]

(* A refusal closes the connection. *)
LEMMA CloseSaid ==
  ASSUME rsp \in RspType, NEW c \in {400, 413, 415}, NEW v, NEW p, Refused(p, c, v)
  PROVE  p.close
<1> DEFINE close == c \in {400, 413, 415}
<1>1. close = TRUE /\ ErrorPage(c) = Page(c, close)
  BY Zenon DEF ErrorPage
<1> HIDE DEF close
<1>2. Page(c, close).close = close /\ "version" # "close"
  BY Zenon DEF Page, RspType
<1>3. DOMAIN Page(c, close) = DOMAIN rsp /\ "close" \in DOMAIN rsp
  BY Zenon DEF Page, RspType
<1>4. [Page(c, close) EXCEPT !.version = v].close = Page(c, close).close
  <2> HIDE DEF close
  <2>1. PICK q : q = Page(c, close)
    OBVIOUS
  <2>2. "close" \in DOMAIN q
    BY <1>3, <2>1
  <2>3. [q EXCEPT !.version = v].close = q.close
    BY <2>2
  <2> QED BY <2>1, <2>3, Zenon
<1>5. p = Page(c, close) \/ p = [Page(c, close) EXCEPT !.version = v]
  BY <1>1, Zenon DEF Refused
<1>6. p.close = Page(c, close).close
  BY <1>4, <1>5, Zenon
<1> QED BY <1>1, <1>2, <1>6

(* prepare_request_body refuses a request and closes, or goes on. *)
LEMMA PreparedCloses ==
  ASSUME AnswersOK, NEW line, NEW head, PrepareRequestBody(line, head)
  PROVE  \/ Refusal(req.r, line, head) = 0 /\ io' = GoOn(BodyKont(req.r))
         \/ io' = GoOn("response") /\ rsp'.close
<1>1. CASE Refusal(req.r, line, head) = 0 /\ io' = GoOn(BodyKont(req.r))
  BY <1>1
<1>2. CASE /\ io' = GoOn("response")
           /\ \E c \in {400, 413, 415} :
                \/ rsp' = ErrorPage(c)
                \/ rsp' = [ErrorPage(c) EXCEPT !.version = req.r.version]
  <2>1. PICK c \in {400, 413, 415} :
          \/ rsp' = ErrorPage(c)
          \/ rsp' = [ErrorPage(c) EXCEPT !.version = req.r.version]
    BY <1>2
  <2>2. PICK v : v = req.r.version
    OBVIOUS
  <2>3. PICK p : p = rsp'
    OBVIOUS
  <2>4. p = ErrorPage(c) \/ p = [ErrorPage(c) EXCEPT !.version = v]
    BY <2>1, <2>2, <2>3, Zenon
  <2>5. Refused(p, c, v)
    BY <2>4, Zenon DEF Refused
  <2>6. rsp \in RspType
    BY DEF AnswersOK
  <2>7. p.close
    BY <2>5, <2>6, CloseSaid
  <2> QED BY <1>2, <2>3, <2>7
<1> QED BY <1>1, <1>2, Prepares, Zenon

(* A request that goes to its handler at once has no body. *)
LEMMA NoBodyToCome ==
  ASSUME LengthsTold, NEW r \in Requests, r \in RequestType, NEW line, NEW head,
         Refusal(r, line, head) = 0, BodyKont(r) = "dispatch"
  PROVE  r.size = 0 /\ r.te \notin {"chunked", "torn"}
<1>1. /\ r.te \in {"none", "chunked", "torn", "other", "bad"}
      /\ r.cl \in {"none", "good", "bad", "big"}
  BY DEF RequestType
<1>2. r.te = "none" /\ r.cl # "good"
  BY <1>1 DEF Refusal, BodyKont
<1>3. LengthRefusal(r) = 0
  BY <1>2 DEF Refusal
<1>4. r.cl = "none"
  BY <1>1, <1>2, <1>3 DEF LengthRefusal
<1> QED BY <1>2, <1>4 DEF LengthsTold

(* The header of the request is the next token of the stream: its body is  *)
(* next, or its handler, or the end of the connection.                     *)
LEMMA FieldsStand ==
  ASSUME LengthsTold, Base, Stream, KontRequestHeader
  PROVE  Stream'
<1>1. /\ up = TRUE /\ up' = TRUE /\ io.kont = "request_header" /\ io \in IoType /\ peer # "reset"
      /\ UNCHANGED <<sent, rx, todo, peer, why, out, req, shut>>
      /\ \E W, f, a : Standing(W, f, a)
  BY InMemory DEF KontRequestHeader, clientVars, lifeVars
<1>2. PICK W, f, a : Standing(W, f, a)
  BY <1>1
<1>3. PICK n, r : n = req.n /\ r = req.r
  OBVIOUS
<1>4. /\ r = sent[n] /\ n \in DOMAIN sent /\ r \in RequestType /\ sent \in Seq(RequestType)
      /\ RequestIn(W, f[n], n, r, f[n + 1])
  BY <1>1, <1>2, <1>3, WorkIn DEF AtWork
<1>5. /\ a = f[n] + 1 /\ Len(req.body) = 0 /\ From(W, a) /\ f[n] \in Nat
  BY <1>1, <1>2, <1>3, <1>4 DEF Standing, Place, RequestIn
<1>6. /\ AnswersOK /\ sent \in Seq(Requests)
      /\ buf \in Seq(Token) /\ rx \in Seq(Token) /\ todo \in Seq(Token)
  BY TokensTyped DEF Base, ConnectionInv, Stream, OrderOK
<1>7. ASSUME io'.kont \in AtWork PROVE OrderOK' /\ BodyOK'
  <2>1. OrderOK'
    BY <1>1, <1>7, OrderStays, OutStays DEF Stream, OrderOK, AtWork
  <2> QED BY <1>1, <1>7, <2>1, BodyStays DEF Stream, AtWork
<1>8. CASE /\ buf = << >> /\ io' = WaitFor("READ", "request_header_read")
           /\ UNCHANGED <<buf, dec, rsp>>
  <2>1. io'.kont = "request_header_read"
    BY <1>8, WaitForFields DEF Konts
  <2>2. SidesOK'
    BY <1>1, <1>8, <2>1, SidesStay DEF Stream
  <2>3. Place(f, a)'
    BY <1>1, <1>3, <1>5, <2>1 DEF Place, AnswerKonts
  <2>4. Standing(W, f, a)'
    BY <1>1, <1>2, <1>8, <2>3, Stays
  <2> QED BY <1>7, <2>1, <2>2, <2>4 DEF Stream, InStream, AtWork
<1>9. ASSUME NEW line, NEW head, PrepareRequestBody(line, head),
             buf # << >> /\ buf' = Tail(buf)
      PROVE  Stream'
  <2>1. /\ 1 \in 0..Len(buf) /\ buf' = SubSeq(buf, 1 + 1, Len(buf))
    BY <1>6, <1>9, TailTaken
  <2>2. \/ Refusal(r, line, head) = 0 /\ io' = GoOn(BodyKont(r))
        \/ io' = GoOn("response") /\ rsp'.close
    BY <1>3, <1>6, <1>9, PreparedCloses
  <2>3. BodyKont(r) \in {"request_chunked", "request_length", "dispatch"}
    BY BodyKontValue
  <2>4. \/ Refusal(r, line, head) = 0 /\ io'.kont = BodyKont(r)
        \/ io'.kont = "response" /\ rsp'.close
    BY <1>1, <2>2, <2>3, GoOnFields DEF Konts
  <2>5. io'.kont \in {"request_chunked", "request_length", "dispatch", "response"}
    BY <2>3, <2>4
  <2>6. SidesOK'
    BY <1>1, <2>5, SidesStay DEF Stream
  <2>7. /\ req'.n = n /\ req'.r = r /\ Len(req'.body) = 0
    BY <1>1, <1>3, <1>5
  <2>8. a + 1 = f[n] + 2 /\ r.size \in Nat
    BY <1>4, <1>5 DEF RequestIn
  <2>9. Place(f, a + 1)'
    <3>1. CASE io'.kont = "response"
      BY <2>3, <2>4, <3>1 DEF Place, AnswerKonts
    <3>2. CASE io'.kont \in {"request_chunked", "request_length"}
      <4>1. io'.kont = BodyKont(r)
        BY <2>4, <3>2
      <4>2. a + 1 = f[req'.n] + 2 + Len(req'.body) /\ Len(req'.body) <= req'.r.size
        BY <1>5, <2>7, <2>8
      <4>3. BodyKont(req'.r) = io'.kont
        BY <2>7, <4>1
      <4>4. BodyKont(req.r)' = io'.kont
        BY <4>3
      <4> QED BY <3>2, <4>2, <4>4 DEF Place, AnswerKonts
    <3>3. CASE io'.kont = "dispatch"
      <4>1. Refusal(r, line, head) = 0 /\ BodyKont(r) = "dispatch" /\ r \in Requests
        BY <1>4, <1>6, <2>4, <3>3
      <4>2. r.size = 0 /\ r.te \notin {"chunked", "torn"}
        BY <1>4, <4>1, NoBodyToCome
      <4>3. f[n + 1] = f[n] + 2
        BY <1>4, <1>5, <4>2 DEF RequestIn
      <4> QED BY <2>7, <2>8, <3>3, <4>1, <4>3 DEF Place, AnswerKonts
    <3> QED BY <2>5, <3>1, <3>2, <3>3
  <2>10. Standing(W, f, a + 1)'
    BY <1>1, <1>2, <1>6, <2>1, <2>9, Takes
  <2> QED BY <1>7, <2>5, <2>6, <2>10 DEF Stream, InStream, AtWork
<1>10. CASE PrepareRequestBody(dec.line, "bad") /\ buf' = buf
  <2>1. Refusal(req.r, dec.line, "bad") # 0
    BY RefusalValue DEF BadHeader
  <2>2. io' = GoOn("response") /\ rsp'.close
    BY <1>6, <1>10, <2>1, PreparedCloses
  <2>3. io'.kont = "response"
    BY <1>1, <2>2, GoOnFields DEF Konts
  <2>4. SidesOK'
    BY <1>1, <2>3, SidesStay DEF Stream
  <2>5. Place(f, a)'
    BY <2>2, <2>3 DEF Place, AnswerKonts
  <2>6. Standing(W, f, a)'
    BY <1>1, <1>2, <1>10, <2>5, Stays
  <2> QED BY <1>7, <2>3, <2>4, <2>6 DEF Stream, InStream, AtWork
<1>11. \/ /\ buf = << >> /\ io' = WaitFor("READ", "request_header_read")
          /\ UNCHANGED <<buf, dec, rsp>>
       \/ \E line, head : PrepareRequestBody(line, head) /\ buf # << >> /\ buf' = Tail(buf)
       \/ PrepareRequestBody(dec.line, "bad") /\ buf' = buf
  BY Zenon DEF KontRequestHeader
<1> QED BY <1>8, <1>9, <1>10, <1>11

-----------------------------------------------------------------------------
(* The body of the request, at the head of the stream. *)
LEMMA BodyNext ==
  ASSUME NEW S, buf \in Seq(S), rx \in Seq(S), todo \in Seq(S), NEW W, NEW a, From(W, a),
         NEW p, NEW n, NEW r, NEW q, RequestIn(W, p, n, r, q),
         NEW b \in 0..r.size, a = p + 2 + b, NEW i \in 1..Len(buf)
  PROVE  /\ b + i <= r.size => buf[i] = Tok(n, "body", r)
         /\ r.te \in {"chunked", "torn"} /\ b + i = r.size + 1 => buf[i] = Tok(n, "end", r)
<1>1. buf[i] = W[a + i]
  <2>1. \A j \in 1..Len(buf) : buf[j] = W[a + j]
    BY BufferIs
  <2> QED BY <2>1
<1>2. /\ p \in Nat /\ r.size \in Nat
      /\ \A j \in 1..r.size : W[p + 2 + j] = Tok(n, "body", r)
      /\ r.te \in {"chunked", "torn"} => W[p + 3 + r.size] = Tok(n, "end", r)
  BY DEF RequestIn
<1>3. PICK z \in Nat : z = r.size
  BY <1>2
<1>4. b \in Nat /\ b <= z /\ i \in Nat /\ i >= 1
  BY <1>2, <1>3
<1>5. ASSUME b + i <= z PROVE buf[i] = Tok(n, "body", r)
  <2>1. b + i \in 1..z /\ a + i = p + 2 + (b + i)
    BY <1>2, <1>4, <1>5
  <2>2. W[p + 2 + (b + i)] = Tok(n, "body", r)
    BY <1>2, <1>3, <2>1
  <2> QED BY <1>1, <2>1, <2>2
<1>6. ASSUME b + i = z + 1, r.te \in {"chunked", "torn"} PROVE buf[i] = Tok(n, "end", r)
  <2>1. a + i = p + 3 + z
    BY <1>2, <1>4, <1>6
  <2> QED BY <1>1, <1>2, <1>3, <1>6, <2>1
<1> QED BY <1>3, <1>5, <1>6

AllAre(s, t)    == \A i \in 1..Len(s) : s[i] = t
Joins(B, R, P)  == B = R \o P

(* The same token all over. *)
LEMMA AllJoined ==
  ASSUME NEW S, NEW R \in Seq(S), NEW P \in Seq(S), NEW t, AllAre(R, t), AllAre(P, t),
         NEW B, Joins(B, R, P)
  PROVE  B \in Seq(S) /\ Len(B) = Len(R) + Len(P) /\ AllAre(B, t)
<1>1. /\ B \in Seq(S) /\ Len(B) = Len(R) + Len(P)
      /\ \A i \in 1..(Len(R) + Len(P)) : B[i] = IF i <= Len(R) THEN R[i] ELSE P[i - Len(R)]
  BY ConcatProperties, Zenon DEF Joins
<1>2. Len(R) \in Nat /\ Len(P) \in Nat
  OBVIOUS
<1>3. ASSUME NEW i \in 1..(Len(R) + Len(P)) PROVE B[i] = t
  <2>1. CASE i <= Len(R)
    BY <1>1, <1>2, <2>1 DEF AllAre
  <2>2. CASE ~ i <= Len(R)
    <3>1. i - Len(R) \in 1..Len(P)
      BY <1>2, <2>2
    <3> QED BY <1>1, <2>2, <3>1 DEF AllAre
  <2> QED BY <2>1, <2>2
<1> QED BY <1>1, <1>3 DEF AllAre

Took(B, c) == B = req.body \o SubSeq(buf, 1, c)

(* The request gets the first c tokens of the buffer. *)
LEMMA BodyTaken ==
  ASSUME req.body \in Seq(Token), buf \in Seq(Token), NEW t, NEW c \in 0..Len(buf),
         AllAre(req.body, t), \A i \in 1..c : buf[i] = t, NEW B, Took(B, c)
  PROVE  B \in Seq(Token) /\ Len(B) = Len(req.body) + c /\ AllAre(B, t)
<1>1. PICK R, P : R = req.body /\ P = SubSeq(buf, 1, c)
  OBVIOUS
<1>2. R \in Seq(Token) /\ AllAre(R, t)
  BY <1>1
<1>3. P \in Seq(Token) /\ Len(P) = c /\ \A i \in 1..c : P[i] = buf[i]
  <2>1. Len(buf) \in Nat /\ c \in Nat /\ c <= Len(buf)
    OBVIOUS
  <2> QED BY <1>1, <2>1, SubSeqProperties
<1>4. AllAre(P, t)
  BY <1>3 DEF AllAre
<1>5. Joins(B, R, P)
  BY <1>1, Zenon DEF Took, Joins
<1>6. B \in Seq(Token) /\ Len(B) = Len(R) + Len(P) /\ AllAre(B, t)
  BY <1>2, <1>3, <1>4, <1>5, AllJoined
<1> QED BY <1>1, <1>3, <1>6

(* The rest of the request is the same. *)
LEMMA BodyFields ==
  ASSUME StreamOK, NEW B, req' = [req EXCEPT !.body = B]
  PROVE  req'.n = req.n /\ req'.r = req.r /\ req'.body = B
<1>1. DOMAIN req = {"n", "r", "body"}
  BY DEF StreamOK
<1> QED BY <1>1, BodyGrows

(* The request whose body is being read. *)
AtBody(W, f, a, n, r, b) ==
  /\ up = TRUE /\ io \in IoType /\ peer # "reset" /\ io.kont \in AtWork
  /\ Standing(W, f, a) /\ From(W, a)
  /\ n = req.n /\ n = Len(out) + 1 /\ n \in DOMAIN sent /\ sent \in Seq(RequestType)
  /\ r = req.r /\ r = sent[n] /\ r \in Requests /\ r \in RequestType
  /\ b = Len(req.body) /\ b \in 0..r.size /\ r.size \in Nat
  /\ a = f[n] + 2 + b /\ RequestIn(W, f[n], n, r, f[n + 1])
  /\ req.body \in Seq(Token) /\ Tok(n, "body", r) \in Token
  /\ \A i \in DOMAIN req.body : req.body[i] = Tok(n, "body", r)
  /\ buf \in Seq(Token) /\ rx \in Seq(Token) /\ todo \in Seq(Token)
  /\ Len(buf) \in Nat /\ f[n] \in Nat /\ a \in Nat

(* A continuation that reads the body has one to read. *)
LEMMA BodyAt ==
  ASSUME Base, Stream, NEW k \in {"request_chunked", "request_length"}, At(k)
  PROVE  BodyKont(req.r) = k /\ \E W, f, a, n, r, b : AtBody(W, f, a, n, r, b)
<1>1. up = TRUE /\ io.kont = k /\ io \in IoType /\ peer # "reset" /\ \E W, f, a : Standing(W, f, a)
  BY InMemory
<1>2. PICK W, f, a : Standing(W, f, a)
  BY <1>1
<1>3. PICK n, r, b : n = req.n /\ r = req.r /\ b = Len(req.body)
  OBVIOUS
<1>4. /\ n = Len(out) + 1 /\ r = sent[n] /\ n \in DOMAIN sent /\ r \in RequestType
      /\ sent \in Seq(RequestType) /\ RequestIn(W, f[n], n, r, f[n + 1])
  BY <1>1, <1>2, <1>3, WorkIn DEF AtWork
<1>5. /\ a = f[n] + 2 + b /\ b <= r.size /\ From(W, a) /\ BodyKont(r) = k
  BY <1>1, <1>2, <1>3 DEF Standing, Place
<1>6. r.size \in Nat /\ f[n] \in Nat
  BY <1>4 DEF RequestIn
<1>7. /\ sent \in Seq(Requests) /\ req.body \in Seq(Token)
      /\ \A i \in DOMAIN req.body : req.body[i] = Tok(n, "body", r)
  BY <1>1, <1>3 DEF Stream, OrderOK, BodyOK, AtWork
<1>8. buf \in Seq(Token) /\ rx \in Seq(Token) /\ todo \in Seq(Token)
  BY TokensTyped DEF Base, ConnectionInv
<1>9. r \in Requests
  BY <1>4, <1>7
<1>10. n \in Nat
  BY <1>4
<1>11. Tok(n, "body", r) \in Token
  BY <1>4, <1>10 DEF Tok, Token
<1>12. Len(buf) \in Nat /\ b \in Nat /\ b \in 0..r.size /\ a \in Nat
  BY <1>3, <1>5, <1>6, <1>7, <1>8
<1>13. AtBody(W, f, a, n, r, b)
  BY <1>1, <1>2, <1>3, <1>4, <1>5, <1>6, <1>7, <1>8, <1>9, <1>11, <1>12 DEF AtBody, AtWork
<1> QED BY <1>3, <1>5, <1>13

(* Some tokens of the body are taken, or all, and the end of the chunks. *)
Pieces(n, r, c) == \A i \in 1..c : buf[i] = Tok(n, "body", r)
PutsBody(c)     == req' = [req EXCEPT !.body = req.body \o SubSeq(buf, 1, c)]
TakesUpTo(e)    == buf' = SubSeq(buf, e + 1, Len(buf))

(* What is taken of the body joins it. *)
LEMMA BodyMoves ==
  ASSUME Base, Stream, NEW W, NEW f, NEW a, NEW n, NEW r, NEW b, AtBody(W, f, a, n, r, b),
         NEW c \in 0..Len(buf), NEW e \in {c, c + 1}, e <= Len(buf),
         Pieces(n, r, c), PutsBody(c), TakesUpTo(e),
         UNCHANGED <<sent, rx, todo, peer, why, out, shut, up>>,
         io'.kont \in AtWork,
         io'.kont \in ReadKonts => buf' = << >>,
         req'.n = n /\ req'.r = r /\ Len(req'.body) = b + c => Place(f, a + e)'
  PROVE  Stream'
<1>1. /\ up = TRUE /\ peer # "reset" /\ n = req.n /\ n = Len(out) + 1 /\ r = req.r
      /\ b = Len(req.body) /\ req.body \in Seq(Token) /\ Tok(n, "body", r) \in Token
      /\ \A i \in DOMAIN req.body : req.body[i] = Tok(n, "body", r)
      /\ buf \in Seq(Token) /\ rx \in Seq(Token) /\ todo \in Seq(Token) /\ Len(buf) \in Nat
      /\ Standing(W, f, a) /\ io.kont \in AtWork
  BY DEF AtBody
<1>2. PICK B : B = req.body \o SubSeq(buf, 1, c)
  OBVIOUS
<1>3. B \in Seq(Token) /\ Len(B) = b + c /\ \A i \in DOMAIN B : B[i] = Tok(n, "body", r)
  <2>1. PICK t \in Token : t = Tok(n, "body", r)
    BY <1>1
  <2>2. AllAre(req.body, t)
    BY <1>1, <2>1 DEF AllAre
  <2>3. Took(B, c)
    BY <1>2 DEF Took
  <2>4. \A i \in 1..c : buf[i] = t
    BY <2>1 DEF Pieces
  <2>5. B \in Seq(Token) /\ Len(B) = Len(req.body) + c /\ AllAre(B, t)
    BY <1>1, <2>2, <2>3, <2>4, BodyTaken
  <2>6. \A i \in 1..Len(B) : B[i] = Tok(n, "body", r)
    BY <2>1, <2>5 DEF AllAre
  <2>7. DOMAIN B = 1..Len(B)
    BY <2>5
  <2> QED BY <1>1, <2>5, <2>6, <2>7
<1>4. req'.n = n /\ req'.r = r /\ req'.body = B
  BY <1>1, <1>2, BodyFields DEF Base, ConnectionInv, PutsBody
<1>5. Place(f, a + e)'
  BY <1>3, <1>4
<1>6. OrderOK'
  BY <1>1, <1>4, OrderStays, OutStays DEF Stream, OrderOK, AtWork
<1>7. BodyOK'
  BY <1>3, <1>4 DEF BodyOK
<1>8. SidesOK'
  BY <1>1, SidesStay DEF Stream, AtWork
<1>9. Standing(W, f, a + e)'
  <2>1. e \in 0..Len(buf)
    BY <1>1
  <2> QED BY <1>1, <1>5, <2>1, Takes DEF TakesUpTo
<1> QED BY <1>6, <1>7, <1>8, <1>9 DEF Stream, InStream

(* All of the buffer is taken. *)
LEMMA WholeTaken ==
  ASSUME buf \in Seq(Token)
  PROVE  SubSeq(buf, 1, Len(buf)) = buf /\ SubSeq(buf, Len(buf) + 1, Len(buf)) = << >>
<1>1. SubSeq(buf, 1, Len(buf)) = buf
  BY SubSeqFull
<1>2. Len(buf) + 1 > Len(buf) /\ Len(buf) \in Int /\ Len(buf) + 1 \in Int
  OBVIOUS
<1>3. SubSeq(buf, Len(buf) + 1, Len(buf)) = << >>
  BY <1>2, SubSeqEmpty
<1> QED BY <1>1, <1>3

(* What is not the end of the chunks is of this request's body. *)
LEMMA PiecesOnly ==
  ASSUME NEW W, NEW f, NEW a, NEW n, NEW r, NEW b, AtBody(W, f, a, n, r, b),
         BodyKont(r) = "request_chunked", NEW c \in 0..Len(buf),
         \A i \in 1..c : buf[i].part = "body"
  PROVE  b + c <= r.size /\ Pieces(n, r, c)
<1>1. /\ buf \in Seq(Token) /\ rx \in Seq(Token) /\ todo \in Seq(Token) /\ Len(buf) \in Nat
      /\ From(W, a) /\ RequestIn(W, f[n], n, r, f[n + 1])
      /\ r.size \in Nat /\ b \in 0..r.size /\ a = f[n] + 2 + b
  BY DEF AtBody
<1>2. r.te \in {"chunked", "torn"}
  BY DEF BodyKont
<1>3. \A i \in 1..Len(buf) : /\ b + i <= r.size => buf[i] = Tok(n, "body", r)
                             /\ b + i = r.size + 1 => buf[i] = Tok(n, "end", r)
  BY <1>1, <1>2, BodyNext
<1>4. b + c <= r.size
  <2>1. SUFFICES ASSUME b + c > r.size PROVE FALSE
    BY <1>1
  <2>2. PICK i : i = r.size + 1 - b
    OBVIOUS
  <2>3. i \in 1..c /\ i \in 1..Len(buf) /\ b + i = r.size + 1
    BY <1>1, <2>1, <2>2
  <2>4. buf[i] = Tok(n, "end", r) /\ buf[i].part = "body"
    BY <1>3, <2>3
  <2> QED BY <2>4 DEF Tok
<1>5. ASSUME NEW i \in 1..c PROVE buf[i] = Tok(n, "body", r)
  <2>1. i \in 1..Len(buf) /\ b + i <= r.size
    BY <1>1, <1>4
  <2> QED BY <1>3, <2>1
<1> QED BY <1>4, <1>5 DEF Pieces

(* The end of the chunks is where the next request begins. *)
LEMMA EndIs ==
  ASSUME NEW W, NEW f, NEW a, NEW n, NEW r, NEW b, AtBody(W, f, a, n, r, b),
         BodyKont(r) = "request_chunked", NEW e \in 1..Len(buf), EndsBody(e)
  PROVE  /\ Pieces(n, r, e - 1)
         /\ b + (e - 1) = r.size /\ a + e = f[n + 1]
<1>1. /\ buf \in Seq(Token) /\ rx \in Seq(Token) /\ todo \in Seq(Token) /\ Len(buf) \in Nat
      /\ From(W, a) /\ RequestIn(W, f[n], n, r, f[n + 1])
      /\ r.size \in Nat /\ b \in 0..r.size /\ a = f[n] + 2 + b /\ f[n] \in Nat
  BY DEF AtBody
<1>2. r.te \in {"chunked", "torn"}
  BY DEF BodyKont
<1>3. \A i \in 1..(e - 1) : buf[i].part = "body"
  <2>1. PICK P : P = SubSeq(buf, 1, e - 1)
    OBVIOUS
  <2>2. DOMAIN P = 1..(e - 1) /\ \A i \in 1..(e - 1) : P[i] = buf[i]
    BY <1>1, <2>1, SubSeqProperties
  <2>3. \A i \in DOMAIN P : P[i].part = "body"
    BY <2>1 DEF EndsBody, InBody
  <2> QED BY <2>2, <2>3
<1>4. /\ b + (e - 1) <= r.size
      /\ Pieces(n, r, e - 1)
  <2>1. e - 1 \in 0..Len(buf)
    BY <1>1
  <2> QED BY <1>3, <2>1, PiecesOnly
<1>5. b + e <= r.size => buf[e] = Tok(n, "body", r)
  BY <1>1, BodyNext
<1>6. buf[e].part # "body"
  BY DEF EndsBody
<1>7. ~(b + e <= r.size)
  BY <1>5, <1>6 DEF Tok
<1>8. f[n + 1] = f[n] + 3 + r.size
  BY <1>1, <1>2 DEF RequestIn
<1>9. PICK z \in Nat : z = r.size
  BY <1>1
<1>10. b + (e - 1) = z
  <2>1. b \in Nat
    BY <1>1
  <2>2. b + (e - 1) <= z
    BY <1>4, <1>9
  <2>3. ~(b + e <= z)
    BY <1>7, <1>9
  <2>4. e \in Nat
    BY <1>1
  <2> QED BY <1>9, <2>1, <2>2, <2>3, <2>4
<1> QED BY <1>1, <1>4, <1>8, <1>9, <1>10

(* The chunk decoder takes the whole body and stops behind it. *)
LEMMA ChunkedStands ==
  ASSUME Base, Stream, KontRequestChunked
  PROVE  Stream'
<1>1. BodyKont(req.r) = "request_chunked" /\ \E W, f, a, n, r, b : AtBody(W, f, a, n, r, b)
  BY BodyAt DEF KontRequestChunked
<1>2. PICK W, f, a, n, r, b : AtBody(W, f, a, n, r, b)
  BY <1>1
<1>3. /\ r = req.r /\ BodyKont(r) = "request_chunked"
      /\ buf \in Seq(Token) /\ Len(buf) \in Nat /\ b \in 0..r.size /\ r.size \in Nat
      /\ a = f[n] + 2 + b /\ f[n] \in Nat /\ up = TRUE /\ io \in IoType
  BY <1>1, <1>2 DEF AtBody
<1>4. UNCHANGED <<sent, rx, todo, peer, why, out, shut, up>>
  BY DEF KontRequestChunked, clientVars, lifeVars
<1>5. CASE /\ InBody(buf) /\ buf' = << >>
           /\ req' = [req EXCEPT !.body = req.body \o buf]
           /\ io' = WaitFor("READ", "request_chunked_read")
  <2>1. PICK c : c = Len(buf)
    OBVIOUS
  <2>2. \A i \in 1..c : buf[i].part = "body"
    BY <1>3, <1>5, <2>1 DEF InBody
  <2>3. c \in 0..Len(buf) /\ c \in {c, c + 1} /\ c <= Len(buf)
    BY <1>3, <2>1
  <2>4. b + c <= r.size /\ Pieces(n, r, c)
    BY <1>2, <1>3, <2>2, <2>3, PiecesOnly
  <2>5. PutsBody(c) /\ TakesUpTo(c) /\ buf' = << >>
    BY <1>3, <1>5, <2>1, WholeTaken, Zenon DEF PutsBody, TakesUpTo
  <2>6. io'.kont = "request_chunked_read"
    BY <1>5, WaitForFields DEF Konts
  <2>7. ASSUME req'.n = n /\ req'.r = r /\ Len(req'.body) = b + c
        PROVE  Place(f, a + c)'
    <3>1. a + c = f[req'.n] + 2 + Len(req'.body) /\ Len(req'.body) <= req'.r.size
      BY <1>3, <2>3, <2>4, <2>7
    <3>2. BodyKont(req'.r) = "request_chunked"
      BY <1>3, <2>7
    <3>3. BodyKont(req.r)' = "request_chunked"
      BY <3>2
    <3> QED BY <2>6, <3>1, <3>3 DEF Place, AnswerKonts
  <2>8. io'.kont \in AtWork
    BY <2>6 DEF AtWork
  <2> QED BY <1>2, <1>4, <2>3, <2>4, <2>5, <2>7, <2>8, BodyMoves
<1>6. ASSUME NEW e \in DOMAIN buf, EndsBody(e),
             req' = [req EXCEPT !.body = req.body \o SubSeq(buf, 1, e - 1)],
             buf' = SubSeq(buf, e + 1, Len(buf)),
             \/ io' = GoOn("dispatch")
             \/ io' = GoOn("response") /\ rsp'.close
      PROVE  Stream'
  <2>1. PICK c : c = e - 1
    OBVIOUS
  <2>2. e \in 1..Len(buf) /\ c \in 0..Len(buf) /\ e \in {c, c + 1} /\ e <= Len(buf)
    BY <1>3, <2>1
  <2>3. /\ Pieces(n, r, e - 1)
        /\ b + (e - 1) = r.size /\ a + e = f[n + 1]
    BY <1>2, <1>3, <1>6, <2>2, EndIs
  <2>4. PutsBody(c) /\ TakesUpTo(e) /\ Pieces(n, r, c)
    BY <1>6, <2>1, <2>3, Zenon DEF PutsBody, TakesUpTo
  <2>5. io'.kont = "dispatch" \/ (io'.kont = "response" /\ rsp'.close)
    BY <1>3, <1>6, GoOnFields DEF Konts
  <2>6. ASSUME req'.n = n /\ req'.r = r /\ Len(req'.body) = b + c
        PROVE  Place(f, a + e)'
    <3>1. a + e = f[req'.n + 1] /\ Len(req'.body) = req'.r.size
      BY <2>1, <2>3, <2>6
    <3>2. BodyKont(req'.r) = "request_chunked"
      BY <1>3, <2>6
    <3>3. BodyKont(req.r)' = "request_chunked"
      BY <3>2
    <3> QED BY <2>5, <3>1, <3>3 DEF Place, AnswerKonts
  <2>7. io'.kont \in AtWork /\ io'.kont \notin ReadKonts
    BY <2>5 DEF AtWork
  <2> QED BY <1>2, <1>4, <1>6, <2>2, <2>4, <2>6, <2>7, BodyMoves
<1>7. \/ /\ InBody(buf) /\ buf' = << >>
         /\ req' = [req EXCEPT !.body = req.body \o buf]
         /\ io' = WaitFor("READ", "request_chunked_read")
      \/ \E e \in DOMAIN buf :
           /\ EndsBody(e)
           /\ req' = [req EXCEPT !.body = req.body \o SubSeq(buf, 1, e - 1)]
           /\ buf' = SubSeq(buf, e + 1, Len(buf))
           /\ LET good == buf[e].part = "end" /\ buf[e].r.te = "chunked"
              IN  /\ rsp' = IF good THEN rsp ELSE [ErrorPage(400) EXCEPT !.version = rsp.version]
                  /\ io' = GoOn(IF good THEN "dispatch" ELSE "response")
  BY Zenon DEF KontRequestChunked, ChunkRest
<1>8. ASSUME rsp' = [ErrorPage(400) EXCEPT !.version = rsp.version]
      PROVE  rsp'.close
  <2>1. PICK p, v : p = rsp' /\ v = rsp.version
    OBVIOUS
  <2>2. p = [ErrorPage(400) EXCEPT !.version = v]
    BY <1>8, <2>1, Zenon
  <2>3. Refused(p, 400, v)
    BY <2>2, Zenon DEF Refused
  <2>4. rsp \in RspType /\ 400 \in {400, 413, 415}
    BY DEF Base, AnswersOK
  <2>5. p.close
    BY <2>3, <2>4, CloseSaid
  <2> QED BY <2>1, <2>5
<1>9. CASE \E e \in DOMAIN buf :
           /\ EndsBody(e)
           /\ req' = [req EXCEPT !.body = req.body \o SubSeq(buf, 1, e - 1)]
           /\ buf' = SubSeq(buf, e + 1, Len(buf))
           /\ LET good == buf[e].part = "end" /\ buf[e].r.te = "chunked"
              IN  /\ rsp' = IF good THEN rsp ELSE [ErrorPage(400) EXCEPT !.version = rsp.version]
                  /\ io' = GoOn(IF good THEN "dispatch" ELSE "response")
  <2>1. PICK e \in DOMAIN buf :
           /\ EndsBody(e)
           /\ req' = [req EXCEPT !.body = req.body \o SubSeq(buf, 1, e - 1)]
           /\ buf' = SubSeq(buf, e + 1, Len(buf))
           /\ LET good == buf[e].part = "end" /\ buf[e].r.te = "chunked"
              IN  /\ rsp' = IF good THEN rsp ELSE [ErrorPage(400) EXCEPT !.version = rsp.version]
                  /\ io' = GoOn(IF good THEN "dispatch" ELSE "response")
    BY <1>9, Zenon
  <2> DEFINE good == buf[e].part = "end" /\ buf[e].r.te = "chunked"
  <2>2. \/ good /\ io' = GoOn("dispatch")
        \/ ~good /\ io' = GoOn("response") /\ rsp' = [ErrorPage(400) EXCEPT !.version = rsp.version]
    BY <2>1, Zenon
  <2>3. io' = GoOn("dispatch") \/ (io' = GoOn("response") /\ rsp'.close)
    BY <1>8, <2>2, Zenon
  <2> QED BY <1>6, <2>1, <2>3, Zenon
<1> QED BY <1>5, <1>7, <1>9, Zenon

(* No request follows at once on one with a content-length: what the       *)
(* buffer holds is of its body.                                            *)
LEMMA AloneInStream ==
  ASSUME PostsAlone, AnswersOK, OrderOK, NEW W, NEW f, NEW a, NEW n, NEW r, NEW b,
         AtBody(W, f, a, n, r, b), BodyKont(r) = "request_length"
  PROVE  /\ b + Len(buf) <= r.size /\ f[n + 1] = f[n] + 2 + r.size
         /\ Pieces(n, r, Len(buf))
<1>1. /\ buf \in Seq(Token) /\ rx \in Seq(Token) /\ todo \in Seq(Token) /\ Len(buf) \in Nat
      /\ From(W, a) /\ RequestIn(W, f[n], n, r, f[n + 1])
      /\ r.size \in Nat /\ b \in 0..r.size /\ a = f[n] + 2 + b /\ f[n] \in Nat
      /\ n = Len(out) + 1 /\ n \in DOMAIN sent /\ sent \in Seq(RequestType) /\ r = sent[n]
      /\ Standing(W, f, a)
  BY DEF AtBody
<1>2. n = Len(sent)
  <2>1. r \notin Pipelined
    BY DEF PostsAlone
  <2>2. n < Len(sent) => r \in Pipelined \/ n \in DOMAIN out
    BY <1>1 DEF OrderOK
  <2>3. n \notin DOMAIN out
    <3>1. out \in Seq(AnswerType)
      BY DEF AnswersOK
    <3> QED BY <1>1, <3>1
  <2> QED BY <1>1, <2>1, <2>2, <2>3
<1>3. f[n + 1] = Len(W)
  BY <1>1, <1>2 DEF Standing, Follows
<1>4. r.te \notin {"chunked", "torn"}
  BY DEF BodyKont
<1>5. f[n + 1] = f[n] + 2 + r.size
  BY <1>1, <1>4 DEF RequestIn
<1>6. Len(W) = a + Len(buf) + Len(rx) + Len(todo)
  BY <1>1, BufferIs
<1>7. b + Len(buf) <= r.size
  <2>1. PICK z, p : z = r.size /\ p = f[n]
    OBVIOUS
  <2>2. PICK lb, lr, lt : lb = Len(buf) /\ lr = Len(rx) /\ lt = Len(todo)
    OBVIOUS
  <2>3. z \in Nat /\ p \in Nat /\ b \in Nat /\ lb \in Nat
    BY <1>1, <2>1, <2>2
  <2>4. lr \in Nat /\ lt \in Nat
    BY <1>1, <2>2
  <2>5. p + 2 + z = a + lb + lr + lt
    BY <1>3, <1>5, <1>6, <2>1, <2>2
  <2>6. a = p + 2 + b
    BY <1>1, <2>1
  <2>7. b + lb <= z
    BY <2>3, <2>4, <2>5, <2>6
  <2> QED BY <2>1, <2>2, <2>7
<1>8. ASSUME NEW i \in 1..Len(buf) PROVE buf[i] = Tok(n, "body", r)
  <2>1. b + i <= r.size
    BY <1>1, <1>7
  <2> QED BY <1>1, <2>1, BodyNext
<1> QED BY <1>5, <1>7, <1>8 DEF Pieces

(* kont_request_length takes what is there, and no more is. *)
LEMMA LengthStands ==
  ASSUME PostsAlone, Base, Stream, KontRequestLength
  PROVE  Stream'
<1>1. BodyKont(req.r) = "request_length" /\ \E W, f, a, n, r, b : AtBody(W, f, a, n, r, b)
  BY BodyAt DEF KontRequestLength
<1>2. PICK W, f, a, n, r, b : AtBody(W, f, a, n, r, b)
  BY <1>1
<1>3. /\ r = req.r /\ BodyKont(r) = "request_length"
      /\ buf \in Seq(Token) /\ Len(buf) \in Nat /\ b \in 0..r.size /\ r.size \in Nat
      /\ a = f[n] + 2 + b /\ f[n] \in Nat /\ up = TRUE /\ io \in IoType
  BY <1>1, <1>2 DEF AtBody
<1>4. UNCHANGED <<sent, rx, todo, peer, why, out, shut, up>>
  BY DEF KontRequestLength, clientVars, lifeVars
<1>5. /\ b + Len(buf) <= r.size /\ f[n + 1] = f[n] + 2 + r.size
      /\ Pieces(n, r, Len(buf))
  BY <1>2, <1>3, AloneInStream DEF Stream, Base
<1>6. PICK c : c = Len(buf)
  OBVIOUS
<1>7. LengthTaken = c
  BY <1>3, <1>5, <1>6 DEF LengthTaken
<1>8. PutsBody(c) /\ TakesUpTo(c)
  BY <1>7, Zenon DEF KontRequestLength, PutsBody, TakesUpTo
<1>9. buf' = << >>
  BY <1>3, <1>6, <1>8, WholeTaken DEF TakesUpTo
<1>10. c \in 0..Len(buf) /\ c \in {c, c + 1} /\ c <= Len(buf) /\ Pieces(n, r, c)
  BY <1>3, <1>5, <1>6
<1>11. PICK B : B = req.body \o SubSeq(buf, 1, c)
  OBVIOUS
<1>12. /\ req' = [req EXCEPT !.body = B]
       /\ io' = IF Len(B) < r.size THEN WaitFor("READ", "request_length_read") ELSE GoOn("dispatch")
  BY <1>3, <1>7, <1>11, Zenon DEF KontRequestLength
<1>13. req'.body = B
  BY <1>12, BodyFields DEF Base, ConnectionInv
<1>14. \/ Len(B) < r.size /\ io'.kont = "request_length_read"
       \/ ~(Len(B) < r.size) /\ io'.kont = "dispatch"
  BY <1>3, <1>12, WaitForFields, GoOnFields DEF Konts
<1>15. ASSUME req'.n = n /\ req'.r = r /\ Len(req'.body) = b + c
       PROVE  Place(f, a + c)'
  <2>1. PICK z \in Nat, p \in Nat : z = r.size /\ p = f[n]
    BY <1>3
  <2>2. b \in Nat /\ c \in Nat /\ b + c <= z /\ a + c = p + 2 + (b + c) /\ Len(B) = b + c
    <3>1. b \in Nat /\ c \in Nat /\ a = p + 2 + b
      BY <1>3, <1>6, <2>1
    <3>2. b + c <= z
      BY <1>5, <1>6, <2>1
    <3>3. Len(B) = b + c
      BY <1>13, <1>15
    <3> QED BY <3>1, <3>2, <3>3
  <2>3. BodyKont(req'.r) = "request_length"
    BY <1>3, <1>15
  <2>4. BodyKont(req.r)' = "request_length"
    BY <2>3
  <2>5. CASE io'.kont = "request_length_read"
    <3>1. a + c = f[req'.n] + 2 + Len(req'.body) /\ Len(req'.body) <= req'.r.size
      BY <1>15, <2>1, <2>2
    <3>2. Len(req'.body) < req'.r.size
      BY <1>13, <1>14, <1>15, <2>5
    <3> QED BY <2>4, <2>5, <3>1, <3>2 DEF Place, AnswerKonts
  <2>6. CASE io'.kont = "dispatch"
    <3>1. b + c = z
      BY <1>14, <2>1, <2>2, <2>6
    <3>2. a + c = f[req'.n + 1] /\ Len(req'.body) = req'.r.size
      BY <1>5, <1>15, <2>1, <2>2, <3>1
    <3> QED BY <2>4, <2>6, <3>2 DEF Place, AnswerKonts
  <2> QED BY <1>14, <2>5, <2>6
<1>16. io'.kont \in AtWork
  BY <1>14 DEF AtWork
<1> QED BY <1>2, <1>4, <1>8, <1>9, <1>10, <1>15, <1>16, BodyMoves

-----------------------------------------------------------------------------
(* Before the first client there is no stream. *)
LEMMA StreamInit == ASSUME ConnectionInit PROVE Stream
<1>1. OrderOK
  BY DEF ConnectionInit, OrderOK, AtWork, Idle
<1>2. BodyOK
  BY DEF ConnectionInit, BodyOK, AtWork, Idle, NoRequest
<1>3. SidesOK
  BY DEF ConnectionInit, SidesOK, Idle, EofAnswersAll
<1>4. InStream
  BY DEF ConnectionInit, InStream
<1> QED BY <1>1, <1>2, <1>3, <1>4 DEF Stream

(* Each step keeps the stream. *)
LEMMA StreamStep ==
  ASSUME LengthsTold, PostsAlone, Base, Stream, [ConnectionNext]_connectionVars
  PROVE  Stream'
<1> USE ConnectionAssumption
<1>1. CASE MakeRequest
  BY <1>1, MakeRequestStands
<1>2. CASE SendToken
  BY <1>2, SendTokenStands
<1>3. CASE HalfClose
  <2>1. /\ UNCHANGED <<io, buf, todo, sent, up, why, req, rsp, out, shut>>
        /\ rx' = rx /\ peer # "reset" /\ peer' # "reset"
    BY <1>3 DEF HalfClose, ioVars, rspVars, lifeVars
  <2> QED BY <2>1, PeerStands
<1>4. CASE Reset
  <2>1. /\ UNCHANGED <<io, buf, todo, sent, up, why, req, rsp, out, shut>>
        /\ up /\ ~io.ready /\ rx' = << >> /\ peer' = "reset"
    BY <1>4 DEF Reset, ClientTurn, ioVars, rspVars, lifeVars
  <2> QED BY <2>1, PeerStands
<1>5. CASE OnAccept
  BY <1>5, AcceptStands
<1>6. CASE OnTimer \/ ReadEof \/ IoFails
  BY <1>6, LeaveStands
<1>7. CASE KontRequestLineRead \/ KontRequestHeaderRead \/ KontRequestChunkedRead \/ KontRequestLengthRead
  BY <1>7, ReadStands
<1>8. CASE KontRequestLine
  BY <1>8, LineStands
<1>9. CASE KontRequestHeader
  BY <1>9, FieldsStand
<1>10. CASE KontRequestChunked
  BY <1>10, ChunkedStands
<1>11. CASE KontRequestLength
  BY <1>11, LengthStands
<1>12. CASE KontDispatch
  BY <1>12, DispatchStands
<1>13. CASE KontResponse
  BY <1>13, ResponseStands
<1>14. CASE KontResponseHeader
  BY <1>14, HeaderStands
<1>15. CASE KontResponseFileLength \/ KontResponseBodyLength
  BY <1>15, BodyStands
<1>16. CASE KontResponseEnd
  BY <1>16, EndStands
<1>17. CASE KontTeardown
  BY <1>17, TeardownStands
<1>18. CASE UNCHANGED connectionVars
  <2>1. /\ UNCHANGED <<io, buf, todo, sent, up, why, req, rsp, out, shut>>
        /\ rx' = rx /\ peer' = peer
    BY <1>18 DEF connectionVars, ioVars, rspVars, clientVars, lifeVars
  <2> QED BY <2>1, PeerStands
<1> QED
  BY <1>1, <1>2, <1>3, <1>4, <1>5, <1>6, <1>7, <1>8, <1>9, <1>10, <1>11, <1>12, <1>13, <1>14,
     <1>15, <1>16, <1>17, <1>18, Zenon
  DEF ConnectionNext, Client, Server

(* For any requests, buffers, pages and numbers of clients. *)
LEMMA StreamInvariant ==
  ASSUME LengthsTold, PostsAlone
  PROVE  ConnectionSpec => [](Base /\ Stream)
<1>1. ConnectionInit => Stream
  BY StreamInit
<1>2. Base /\ Stream /\ [ConnectionNext]_connectionVars => Stream'
  BY StreamStep
<1>3. ConnectionInv /\ AnswersOK <=> Base
  BY DEF Base
<1> QED BY <1>1, <1>2, <1>3, AnswersInvariant, PTL DEF ConnectionSpec

(* The next octet of the stream begins the next request. *)
LEMMA NextBegins ==
  ASSUME sent \in Seq(RequestType), buf \in Seq(Token), rx \in Seq(Token), todo \in Seq(Token),
         NEW W, NEW f, NEW n \in DOMAIN sent, Follows(W, f), From(W, f[n + 1]),
         NEW rest, rest = Rest, rest # << >>
  PROVE  Head(rest) = Tok(n + 1, "line", Head(rest).r)
<1>1. rest \in Seq(Token)
  BY ThreeParts DEF Rest
<1>2. Len(rest) \in Nat /\ Len(rest) > 0 /\ Head(rest) = rest[1] /\ 1 \in DOMAIN rest
  BY <1>1
<1>3. /\ f[n + 1] \in Nat /\ Len(W) = f[n + 1] + Len(rest)
      /\ rest[1] = W[f[n + 1] + 1]
  BY <1>2 DEF From
<1>4. f[Len(sent) + 1] = Len(W)
  BY DEF Follows
<1>5. n \in 1..Len(sent) /\ Len(sent) \in Nat
  OBVIOUS
<1>6. n # Len(sent)
  BY <1>2, <1>3, <1>4
<1>7. PICK k : k = n + 1
  OBVIOUS
<1>8. k \in DOMAIN sent
  BY <1>5, <1>6, <1>7
<1>9. RequestIn(W, f[k], k, sent[k], f[k + 1])
  BY <1>8, RequestsIn
<1>10. W[f[k] + 1] = Tok(k, "line", sent[k])
  BY <1>9 DEF RequestIn
<1>11. Head(rest) = Tok(k, "line", sent[k])
  BY <1>2, <1>3, <1>7, <1>10
<1>12. Head(rest).r = sent[k]
  BY <1>11 DEF Tok
<1> QED BY <1>7, <1>11, <1>12

(* A dispatched request has its body, and nothing of the next one. *)
LEMMA StreamKeepsApart ==
  ASSUME Base, Stream
  PROVE  RequestsKeptApart
<1>1. SUFFICES ASSUME At("dispatch")
               PROVE  /\ req.r = sent[req.n] /\ req.n = Len(out) + 1
                      /\ Len(req.body) = IF BodyKont(req.r) = "dispatch" THEN 0 ELSE req.r.size
                      /\ \A i \in DOMAIN req.body : req.body[i] = Tok(req.n, "body", req.r)
                      /\ Rest # << >> => Head(Rest) = Tok(req.n + 1, "line", Head(Rest).r)
  BY DEF RequestsKeptApart, Rest, Three
<1>2. /\ up = TRUE /\ io.kont = "dispatch"
      /\ \E W, f, a : Standing(W, f, a)
  BY <1>1, InMemory
<1>3. PICK W, f, a : Standing(W, f, a)
  BY <1>2
<1>4. PICK n : n = req.n
  OBVIOUS
<1>5. /\ n = Len(out) + 1 /\ n \in DOMAIN sent /\ req.r = sent[n]
      /\ sent \in Seq(RequestType)
  BY <1>2, <1>3, <1>4, WorkIn DEF AtWork
<1>6. /\ a = f[n + 1] /\ Follows(W, f) /\ From(W, a)
      /\ Len(req.body) = IF BodyKont(req.r) = "dispatch" THEN 0 ELSE req.r.size
  BY <1>2, <1>3, <1>4 DEF Standing, Place
<1>7. buf \in Seq(Token) /\ rx \in Seq(Token) /\ todo \in Seq(Token)
  BY TokensTyped DEF Base, ConnectionInv
<1>8. PICK rest : rest = Rest
  OBVIOUS
<1>9. rest # << >> => Head(rest) = Tok(n + 1, "line", Head(rest).r)
  BY <1>5, <1>6, <1>7, <1>8, NextBegins
<1>10. \A i \in DOMAIN req.body : req.body[i] = Tok(req.n, "body", req.r)
  BY <1>2 DEF Stream, BodyOK, AtWork
<1> QED BY <1>4, <1>5, <1>6, <1>8, <1>9, <1>10

(* For any requests, reads and pipelining: a request that is dispatched    *)
(* has its own body, and what follows begins the next request.             *)
THEOREM RequestsSeparate ==
  ASSUME LengthsTold, PostsAlone
  PROVE  ConnectionSpec => []RequestsKeptApart
<1>1. Base /\ Stream => RequestsKeptApart
  BY StreamKeepsApart
<1> QED BY <1>1, StreamInvariant, PTL

(* The end of the input ends the connection only when every request that   *)
(* arrived whole was answered, or the answers were over (on_read).         *)
THEOREM EofLosesNone ==
  ASSUME LengthsTold, PostsAlone
  PROVE  ConnectionSpec => []EofAnswersAll
<1>1. Base /\ Stream => EofAnswersAll
  BY DEF Stream, SidesOK
<1> QED BY <1>1, StreamInvariant, PTL

-----------------------------------------------------------------------------
(* What the pages of the handlers and of the errors say.                   *)
Says(p, code, close, version, size) ==
  /\ p \in RspType
  /\ p.code = code /\ p.close = close /\ p.version = version /\ p.size = size

(* A page built in memory. *)
LEMMA PageSays ==
  ASSUME ConnectionAssumption, rsp \in RspType, NEW c \in Codes, NEW close \in BOOLEAN
  PROVE  Says(Page(c, close), c, close, rsp.version, PageSize)
<1>1. PageSize \in Int
  BY DEF ConnectionAssumption
<1>2. Page(c, close) \in RspType
  BY <1>1, PageType
<1>3. /\ Page(c, close).code = c /\ Page(c, close).close = close
      /\ Page(c, close).version = rsp.version /\ Page(c, close).size = PageSize
  BY Zenon DEF Page, RspType
<1> QED BY <1>2, <1>3 DEF Says

(* An error page keeps the version, and closes at the codes that end the   *)
(* connection.                                                             *)
LEMMA ErrorPageSays ==
  ASSUME ConnectionAssumption, rsp \in RspType, NEW c \in Codes
  PROVE  Says(ErrorPage(c), c, c \in {400, 413, 415}, rsp.version, PageSize)
<1> DEFINE close == c \in {400, 413, 415}
<1>1. close \in BOOLEAN
  OBVIOUS
<1>2. ErrorPage(c) = Page(c, close)
  BY Zenon DEF ErrorPage
<1> HIDE DEF close
<1>3. Says(Page(c, close), c, close, rsp.version, PageSize)
  BY <1>1, PageSays
<1>4. Says(ErrorPage(c), c, close, rsp.version, PageSize)
  BY <1>2, <1>3, Zenon
<1> QED BY <1>4, Zenon DEF close

(* The version of the request is that of the answer. *)
LEMMA VersionSays ==
  ASSUME NEW p, NEW c, NEW close, NEW version, NEW size, Says(p, c, close, version, size),
         NEW v \in Nat
  PROVE  Says([p EXCEPT !.version = v], c, close, v, size)
<1>1. p \in RspType
  BY DEF Says
<1>2. /\ [p EXCEPT !.version = v] \in RspType
      /\ [p EXCEPT !.version = v].code = p.code /\ [p EXCEPT !.version = v].close = p.close
      /\ [p EXCEPT !.version = v].version = v /\ [p EXCEPT !.version = v].size = p.size
  BY <1>1, Zenon DEF RspType
<1>3. p.code = c /\ p.close = close /\ p.size = size
  BY DEF Says
<1> QED BY <1>2, <1>3, Zenon DEF Says

(* The header of a file says its size, and leaves the rest.                *)
LEMMA FileHeaderSays ==
  ASSUME rsp \in RspType, NEW c \in Codes, NEW size \in Int
  PROVE  Says(FileHeader(c, size), c, rsp.close, rsp.version, rsp.size)
<1>1. FileHeader(c, size) \in RspType /\ FileHeader(c, size).code = c
  BY FileHeaderType
<1>2. /\ FileHeader(c, size).close = rsp.close /\ FileHeader(c, size).version = rsp.version
      /\ FileHeader(c, size).size = rsp.size
  BY Zenon DEF FileHeader, RspType
<1> QED BY <1>1, <1>2 DEF Says

(* prepare_request_body refuses with the code that it finds and closes, or *)
(* goes on.                                                                *)
LEMMA PreparedSays ==
  ASSUME ConnectionAssumption, rsp \in RspType, NEW line, NEW head, NEW r, r = req.r,
         r \in RequestType, PrepareRequestBody(line, head),
         NEW code, code = Refusal(r, line, head)
  PROVE  \/ /\ code = 0 /\ io' = GoOn(BodyKont(r))
            /\ Says(rsp', rsp.code, rsp.close, r.version, rsp.size)
         \/ /\ code \in {400, 413, 415} /\ io' = GoOn("response")
            /\ rsp'.code = code /\ rsp'.close /\ rsp'.size = PageSize
<1> DEFINE page  == IF code = 0 THEN rsp ELSE ErrorPage(code)
           wrong == BadHeader(r, line, head)
<1>1. code \in {0, 400, 413, 415} /\ (wrong => code # 0)
  BY RefusalValue
<1>2. /\ io' = GoOn(IF code # 0 THEN "response" ELSE BodyKont(r))
      /\ rsp' = IF wrong THEN page ELSE [page EXCEPT !.version = r.version]
  BY Zenon DEF PrepareRequestBody
<1>3. r.version \in Nat
  BY DEF RequestType
<1> HIDE DEF wrong
<1>4. CASE code = 0
  <2>1. ~wrong /\ page = rsp
    BY <1>1, <1>4
  <2>2. rsp' = [rsp EXCEPT !.version = r.version]
    BY <1>2, <2>1, Zenon
  <2>3. Says(rsp, rsp.code, rsp.close, rsp.version, rsp.size)
    BY DEF Says
  <2>4. Says([rsp EXCEPT !.version = r.version], rsp.code, rsp.close, r.version, rsp.size)
    BY <1>3, <2>3, VersionSays
  <2> QED BY <1>2, <1>4, <2>2, <2>4, Zenon
<1>5. CASE code # 0
  <2>1. page = ErrorPage(code) /\ code \in {400, 413, 415} /\ io' = GoOn("response")
    BY <1>1, <1>2, <1>5
  <2>2. code \in Codes /\ (code \in {400, 413, 415}) = TRUE
    BY <2>1 DEF Codes
  <2> HIDE DEF page
  <2>3. Says(page, code, TRUE, rsp.version, PageSize)
    <3>1. Says(ErrorPage(code), code, code \in {400, 413, 415}, rsp.version, PageSize)
      BY <2>2, ErrorPageSays
    <3> QED BY <2>1, <2>2, <3>1, Zenon
  <2>4. rsp' = page \/ rsp' = [page EXCEPT !.version = r.version]
    BY <1>2, Zenon DEF page
  <2>5. Says([page EXCEPT !.version = r.version], code, TRUE, r.version, PageSize)
    BY <1>3, <2>3, VersionSays
  <2>6. \E v : Says(rsp', code, TRUE, v, PageSize)
    BY <2>3, <2>4, <2>5, Zenon
  <2>7. rsp'.code = code /\ rsp'.close /\ rsp'.size = PageSize
    BY <2>6 DEF Says
  <2> QED BY <1>5, <2>1, <2>7
<1> QED BY <1>4, <1>5

-----------------------------------------------------------------------------
(* What the abstract session says of a request is what the server finds:   *)
(* a refusal is deserved, ...                                              *)
LEMMA RefusalDeserved ==
  ASSUME NEW r \in RequestType, NEW code, code = Refusal(r, r.line, r.fields), code # 0
  PROVE  Deserves(r) = {code}
<1>1. /\ r.line \in {"good", "bad"} /\ r.fields \in {"good", "bad"} /\ r.version \in {10, 11}
      /\ r.host \in BOOLEAN /\ r.te \in {"none", "chunked", "torn", "other", "bad"}
      /\ r.cl \in {"none", "good", "bad", "big"}
      /\ r.method \in {"GET", "HEAD", "POST", "PUT", "DELETE"}
  BY DEF RequestType
<1>2. r.version >= 11 <=> r.version = 11
  BY <1>1
<1>3. BadHeader(r, r.line, r.fields) => Malformed(r)
  BY <1>2 DEF BadHeader, Malformed
<1>4. CASE BadHeader(r, r.line, r.fields) \/ r.te = "bad"
  <2>1. code = 400 /\ Malformed(r)
    BY <1>3, <1>4 DEF Refusal, Malformed
  <2> QED BY <2>1 DEF Deserves
<1>5. CASE ~BadHeader(r, r.line, r.fields) /\ r.te = "other"
  <2>1. code = 415 /\ ~Malformed(r) /\ ~TooLarge(r)
    BY <1>1, <1>2, <1>5 DEF Refusal, BadHeader, Malformed, TooLarge
  <2> QED BY <1>5, <2>1 DEF Deserves
<1>6. CASE ~BadHeader(r, r.line, r.fields) /\ r.te = "none" /\ r.cl = "bad"
  <2>1. code = 400 /\ Malformed(r)
    BY <1>6 DEF Refusal, LengthRefusal, Malformed
  <2> QED BY <2>1 DEF Deserves
<1>7. CASE ~BadHeader(r, r.line, r.fields) /\ r.te = "none" /\ r.cl # "bad"
  <2>1. code = 413 /\ TooLarge(r)
    BY <1>1, <1>7 DEF Refusal, LengthRefusal, TooLarge
  <2>2. ~Malformed(r)
    BY <1>1, <1>2, <1>7 DEF BadHeader, Malformed
  <2>3. Deserves(r) = {413}
    BY <1>7, <2>1, <2>2, Zenon DEF Deserves
  <2> QED BY <2>1, <2>3
<1> QED BY <1>1, <1>4, <1>5, <1>6, <1>7 DEF Refusal

(* ... and so is the refusal of a body with a coding error, ...            *)
LEMMA TornDeserved ==
  ASSUME NEW r \in RequestType, r.te = "torn"
  PROVE  Deserves(r) = {400}
BY DEF Malformed, Deserves

(* ... a request that is dispatched has none of these faults.              *)
Sound(r) == /\ ~Malformed(r) /\ ~TooLarge(r) /\ r.te # "other"

(* What prepare_request_body lets through, and has no torn body, is sound. *)
LEMMA DispatchedSound ==
  ASSUME NEW r \in RequestType, Refusal(r, r.line, r.fields) = 0, r.te # "torn"
  PROVE  Sound(r)
<1>1. /\ r.line \in {"good", "bad"} /\ r.fields \in {"good", "bad"} /\ r.version \in {10, 11}
      /\ r.host \in BOOLEAN /\ r.te \in {"none", "chunked", "torn", "other", "bad"}
      /\ r.cl \in {"none", "good", "bad", "big"}
      /\ r.method \in {"GET", "HEAD", "POST", "PUT", "DELETE"}
  BY DEF RequestType
<1>2. ~BadHeader(r, r.line, r.fields) /\ r.te \notin {"bad", "other"}
      /\ (r.te = "none" => LengthRefusal(r) = 0)
  BY DEF Refusal
<1>3. r.te = "none" => r.cl \notin {"bad", "big"} /\ (r.cl = "good" => r.method \in {"POST", "PUT"})
  BY <1>2 DEF LengthRefusal
<1>4. ~Malformed(r)
  BY <1>1, <1>2, <1>3 DEF BadHeader, Malformed
<1> QED BY <1>2, <1>3, <1>4 DEF Sound, TooLarge

(* A sound request deserves what its method and its resource call for, *)
LEMMA SoundDeserves ==
  ASSUME NEW r \in RequestType, Sound(r)
  PROVE  /\ r.method \in {"GET", "HEAD"} => Deserves(r) = GetDeserves(r)
         /\ r.method = "POST" /\ r.uri = "test" => Deserves(r) = {200}
         /\ r.method \notin {"GET", "HEAD"} /\ ~(r.method = "POST" /\ r.uri = "test") =>
              Deserves(r) = {405}
BY DEF Sound, Deserves

(* which for GET and HEAD depends on the file and its condition. *)
LEMMA GetDeserved ==
  ASSUME NEW r \in RequestType
  PROVE  /\ r.uri = "test" => GetDeserves(r) = {200}
         /\ r.uri = "none" => GetDeserves(r) = {404}
         /\ r.uri = "file" /\ r.cond = 412 => GetDeserves(r) = {411}
         /\ r.uri = "file" /\ r.cond = 304 => GetDeserves(r) = {304}
         /\ r.uri = "file" /\ r.cond = 200 /\ r.method = "HEAD" => GetDeserves(r) = {200}
         /\ r.uri = "file" /\ r.cond = 200 /\ r.method = "GET" => GetDeserves(r) = {200, 404}
BY DEF GetDeserves

ServesWith(p, r, v, c, close, size) ==
  /\ c \in Deserves(r) \ {400, 413, 415} /\ size \in {PageSize, rsp.size}
  /\ Says(p, c, close, v, size)

Serves(p, r, v) == \E c, close, size : ServesWith(p, r, v, c, close, size)

(* A page with a code the request deserves serves it. *)
LEMMA Served ==
  ASSUME NEW p, NEW r, NEW v, NEW c \in {200, 304, 404, 405, 411}, NEW close,
         NEW size \in {PageSize, rsp.size}, c \in Deserves(r), Says(p, c, close, v, size)
  PROVE  Serves(p, r, v)
<1>1. ServesWith(p, r, v, c, close, size)
  BY DEF ServesWith
<1> QED BY <1>1 DEF Serves

(* A handler gives the answer that the request deserves, and leaves its    *)
(* version; it does not close the connection.                              *)
LEMMA DispatchDeserved ==
  ASSUME ConnectionAssumption, rsp \in RspType, NEW r, r = req.r, r \in RequestType, Sound(r),
         KontDispatch
  PROVE  Serves(rsp', r, rsp.version)
<1>1. /\ r.method \in {"GET", "HEAD", "POST", "PUT", "DELETE"}
      /\ r.uri \in {"test", "file", "none"} /\ r.cond \in {200, 304, 412}
  BY DEF RequestType
<1>2. ASSUME NEW c \in {404, 405, 411}, rsp' = ErrorPage(c), c \in Deserves(r)
      PROVE  Serves(rsp', r, rsp.version)
  <2>1. Says(ErrorPage(c), c, c \in {400, 413, 415}, rsp.version, PageSize)
    BY ErrorPageSays DEF Codes
  <2>2. Says(rsp', c, c \in {400, 413, 415}, rsp.version, PageSize)
    BY <1>2, <2>1, Zenon
  <2>3. c \in {200, 304, 404, 405, 411} /\ c \in Deserves(r)
    BY <1>2
  <2> QED BY <2>2, <2>3, Served
<1>3. ASSUME rsp' = Page(200, FALSE), 200 \in Deserves(r)
      PROVE  Serves(rsp', r, rsp.version)
  <2>1. Says(Page(200, FALSE), 200, FALSE, rsp.version, PageSize)
    <3>1. 200 \in Codes /\ FALSE \in BOOLEAN
      BY DEF Codes
    <3> QED BY <3>1, PageSays, Zenon
  <2>2. PICK close : close = FALSE
    OBVIOUS
  <2>4. Says(rsp', 200, close, rsp.version, PageSize)
    BY <1>3, <2>1, <2>2, Zenon
  <2>3. 200 \in {200, 304, 404, 405, 411} /\ 200 \in Deserves(r)
    BY <1>3
  <2> QED BY <2>3, <2>4, Served
<1>4. ASSUME NEW c \in {200, 304}, NEW size \in Int, rsp' = FileHeader(c, size), c \in Deserves(r)
      PROVE  Serves(rsp', r, rsp.version)
  <2>1. Says(FileHeader(c, size), c, rsp.close, rsp.version, rsp.size)
    BY FileHeaderSays DEF Codes
  <2>2. Says(rsp', c, rsp.close, rsp.version, rsp.size)
    BY <1>4, <2>1, Zenon
  <2>3. c \in {200, 304, 404, 405, 411} /\ c \in Deserves(r)
    BY <1>4
  <2> QED BY <2>2, <2>3, Served
<1>5. CASE r.uri = "test" /\ rsp' = TestPage(r)
  <2>1. CASE r.method \in {"GET", "HEAD", "POST"}
    <3>1. rsp' = Page(200, FALSE)
      BY <1>5, <2>1 DEF TestPage
    <3>2. 200 \in Deserves(r)
      BY <1>5, <2>1, SoundDeserves, GetDeserved
    <3> QED BY <1>3, <3>1, <3>2
  <2>2. CASE r.method \notin {"GET", "HEAD", "POST"}
    <3>1. rsp' = ErrorPage(405)
      BY <1>5, <2>2 DEF TestPage
    <3>2. 405 \in Deserves(r)
      BY <2>2, SoundDeserves
    <3> QED BY <1>2, <3>1, <3>2
  <2> QED BY <2>1, <2>2
<1>6. CASE /\ r.uri # "test" /\ ~FileFound(r)
           /\ rsp' = ErrorPage(IF r.method \in {"GET", "HEAD"} THEN 404 ELSE 405)
  <2>1. CASE r.method \in {"GET", "HEAD"}
    <3>1. r.uri = "none" /\ rsp' = ErrorPage(404)
      BY <1>1, <1>6, <2>1 DEF FileFound
    <3>2. 404 \in Deserves(r)
      BY <2>1, <3>1, SoundDeserves, GetDeserved
    <3> QED BY <1>2, <3>1, <3>2
  <2>2. CASE r.method \notin {"GET", "HEAD"}
    <3>1. rsp' = ErrorPage(405)
      BY <1>6, <2>2
    <3>2. 405 \in Deserves(r)
      BY <1>6, <2>2, SoundDeserves
    <3> QED BY <1>2, <3>1, <3>2
  <2> QED BY <2>1, <2>2
<1>7. ASSUME FileFound(r), NEW size \in FileSizes, NEW opens \in BOOLEAN,
             rsp' = FilePage(r, size, opens)
      PROVE  Serves(rsp', r, rsp.version)
  <2>0. size \in Int
    BY <1>7 DEF ConnectionAssumption
  <2>1. r.method \in {"GET", "HEAD"} /\ r.uri = "file" /\ size \in Int
    BY <1>7, <2>0 DEF FileFound
  <2>2. Deserves(r) = GetDeserves(r)
    BY <2>1, SoundDeserves
  <2>3. CASE r.cond = 412
    <3>1. rsp' = ErrorPage(411) /\ 411 \in Deserves(r)
      BY <1>7, <2>1, <2>2, <2>3, GetDeserved DEF FilePage
    <3> QED BY <1>2, <3>1
  <2>4. CASE r.cond = 304
    <3>1. rsp' = FileHeader(304, size) /\ 304 \in Deserves(r)
      BY <1>7, <2>1, <2>2, <2>4, GetDeserved DEF FilePage
    <3> QED BY <1>4, <2>1, <3>1
  <2>5. CASE r.cond = 200 /\ (r.method = "HEAD" \/ opens)
    <3>1. rsp' = FileHeader(200, size) /\ 200 \in Deserves(r)
      BY <1>7, <2>1, <2>2, <2>5, GetDeserved DEF FilePage
    <3> QED BY <1>4, <2>1, <3>1
  <2>6. CASE r.cond = 200 /\ ~(r.method = "HEAD" \/ opens)
    <3>1. rsp' = ErrorPage(404) /\ 404 \in Deserves(r)
      BY <1>7, <2>1, <2>2, <2>6, GetDeserved DEF FilePage
    <3> QED BY <1>2, <3>1
  <2> QED BY <1>1, <2>3, <2>4, <2>5, <2>6
<1> QED BY <1>5, <1>6, <1>7, Zenon DEF KontDispatch

-----------------------------------------------------------------------------
(* The next token of the stream is its header when the line is read,       *)
LEMMA HeaderNext ==
  ASSUME Base, Stream, At("request_header"), buf # << >>
  PROVE  Head(buf) = Tok(req.n, "header", req.r)
<1>1. up = TRUE /\ io.kont = "request_header" /\ \E W, f, a : Standing(W, f, a)
  BY InMemory
<1>2. PICK W, f, a : Standing(W, f, a)
  BY <1>1
<1>3. PICK n, r : n = req.n /\ r = req.r
  OBVIOUS
<1>4. RequestIn(W, f[n], n, r, f[n + 1])
  BY <1>1, <1>2, <1>3, WorkIn DEF AtWork
<1>5. a = f[n] + 1 /\ From(W, a)
  BY <1>1, <1>2, <1>3 DEF Standing, Place
<1>6. buf \in Seq(Token) /\ rx \in Seq(Token) /\ todo \in Seq(Token)
  BY TokensTyped DEF Base, ConnectionInv
<1>7. 1 \in 1..Len(buf) /\ Head(buf) = buf[1]
  BY <1>6, TailTaken
<1>8. \A i \in 1..Len(buf) : buf[i] = W[a + i]
  BY <1>5, <1>6, BufferIs
<1>9. buf[1] = W[a + 1]
  BY <1>7, <1>8
<1>10. f[n] \in Nat /\ W[f[n] + 2] = Tok(n, "header", r)
  BY <1>4 DEF RequestIn
<1>11. a + 1 = f[n] + 2
  BY <1>5, <1>10
<1> QED BY <1>3, <1>7, <1>9, <1>10, <1>11

(* and the end of its chunks behind the last piece of its body.            *)
LEMMA EndNext ==
  ASSUME Base, Stream, At("request_chunked"), NEW e \in DOMAIN buf, EndsBody(e)
  PROVE  buf[e] = Tok(req.n, "end", req.r) /\ req.r.te \in {"chunked", "torn"}
<1>1. BodyKont(req.r) = "request_chunked" /\ \E W, f, a, n, r, b : AtBody(W, f, a, n, r, b)
  BY BodyAt
<1>2. PICK W, f, a, n, r, b : AtBody(W, f, a, n, r, b)
  BY <1>1
<1>3. /\ buf \in Seq(Token) /\ rx \in Seq(Token) /\ todo \in Seq(Token) /\ Len(buf) \in Nat
      /\ From(W, a) /\ RequestIn(W, f[n], n, r, f[n + 1])
      /\ r.size \in Nat /\ b \in 0..r.size /\ a = f[n] + 2 + b /\ f[n] \in Nat
      /\ r = req.r /\ n = req.n
  BY <1>2 DEF AtBody
<1>4. BodyKont(r) = "request_chunked" /\ e \in 1..Len(buf)
  BY <1>1, <1>3
<1>5. b + (e - 1) = r.size
  BY <1>2, <1>4, EndIs
<1>6. r.te \in {"chunked", "torn"}
  BY <1>4 DEF BodyKont
<1>7. b + e = r.size + 1
  <2>1. PICK z \in Nat : z = r.size
    BY <1>3
  <2> QED BY <1>3, <1>4, <1>5, <2>1
<1>8. buf[e] = Tok(n, "end", r)
  BY <1>3, <1>4, <1>6, <1>7, BodyNext
<1> QED BY <1>3, <1>6, <1>8

-----------------------------------------------------------------------------
DecType == [line : {"partial", "good", "bad"}, head : {"partial", "good", "bad"},
            chunk : {"partial", "good", "bad"}]

(* The answer fits the request at work from the moment there is one, and   *)
(* what prepare_request_body let through is no request to refuse.          *)
Accepted(r) == Refusal(r, r.line, r.fields) = 0

Fitting ==
  /\ rsp.code \in Deserves(req.r)
  /\ rsp.code \in {400, 413, 415} => rsp.close
  /\ rsp.close \/ rsp.version = req.r.version

Answering == out # << >> /\ out[Len(out)].code = rsp.code /\ ~out[Len(out)].over

Judged ==
  /\ up /\ io.kont \in HeaderKonts => dec.line = req.r.line
  /\ up /\ io.kont \in BodyKonts \cup {"dispatch"} =>
       Accepted(req.r) /\ rsp.version = req.r.version
  /\ up /\ io.kont = "dispatch" => req.r.te # "torn"
  /\ up /\ io.kont \in AnswerKonts => Fitting
  /\ up /\ io.kont \in SendKonts => Answering

(* A step that leaves the request and its answer as they are. *)
LEMMA JudgedStays ==
  ASSUME Judged, UNCHANGED <<rsp, out, dec>>, up' => up, req'.r = req.r,
         \/ io'.kont = io.kont
         \/ io'.kont \in LineKonts \cup {"none", "teardown"}
         \/ io.kont \in HeaderKonts /\ io'.kont \in HeaderKonts
         \/ io.kont \in BodyKonts /\ io'.kont \in BodyKonts
         \/ io.kont \in BodyKonts /\ io'.kont = "dispatch" /\ req.r.te # "torn"
  PROVE  Judged'
<1>1. Fitting' = Fitting /\ Answering' = Answering /\ Accepted(req.r)' = Accepted(req.r)
  BY DEF Fitting, Answering, Accepted
<1> QED BY <1>1 DEF Judged, AnswerKonts

(* A step to an answer. *)
LEMMA JudgedAnswers ==
  ASSUME io'.kont \in AnswerKonts, Fitting', io'.kont \in SendKonts => Answering'
  PROVE  Judged'
BY DEF Judged, AnswerKonts

(* The request line is decoded. *)
LEMMA LineJudged ==
  ASSUME Base, Stream, dec \in DecType, Judged, KontRequestLine
  PROVE  Judged'
<1>1. up = TRUE /\ io.kont = "request_line" /\ io \in IoType /\ up' = up /\ rsp' = rsp /\ out' = out
  BY InMemory DEF KontRequestLine, lifeVars, rspVars
<1>2. CASE buf = << >> /\ io' = WaitFor("READ", "request_line_read") /\ UNCHANGED <<dec, req>>
  <2>1. io'.kont = "request_line_read"
    BY <1>2, WaitForFields DEF Konts
  <2> QED BY <1>1, <1>2, <2>1, JudgedStays
<1>3. CASE /\ buf # << >> /\ io' = GoOn("request_header")
           /\ LET t == Head(buf)
              IN  /\ dec' = [dec EXCEPT !.line = IF t.part = "line" THEN t.r.line ELSE "bad"]
                  /\ req' = [n |-> t.n, r |-> t.r, body |-> << >>]
  <2>1. io'.kont = "request_header"
    BY <1>1, <1>3, GoOnFields DEF Konts
  <2>2. PICK n : n = Len(out) + 1
    OBVIOUS
  <2>3. PICK t : t = Head(buf)
    OBVIOUS
  <2>4. t.part = "line"
    <3>1. t = Tok(n, "line", sent[n])
      BY <1>3, <2>2, <2>3, LineNext DEF KontRequestLine
    <3> QED BY <3>1 DEF Tok
  <2>5. dec' = [dec EXCEPT !.line = t.r.line] /\ req'.r = t.r
    BY <1>3, <2>3, <2>4
  <2>6. "line" \in DOMAIN dec
    BY DEF DecType
  <2>7. dec'.line = req'.r.line
    BY <2>5, <2>6
  <2> QED BY <2>1, <2>7 DEF Judged, AnswerKonts
<1> QED BY <1>2, <1>3, Zenon DEF KontRequestLine

(* prepare_request_body refuses a request as it deserves, or lets it        *)
(* through.                                                                *)
LEMMA PrepareJudged ==
  ASSUME ConnectionAssumption, io \in IoType, rsp \in RspType, req.r \in RequestType,
         NEW line, NEW head, PrepareRequestBody(line, head), req' = req,
         Refusal(req.r, line, head) = Refusal(req.r, req.r.line, req.r.fields)
  PROVE  Judged'
<1>1. PICK r : r = req.r
  OBVIOUS
<1>0. r \in RequestType
  BY <1>1
<1>2. PICK code : code = Refusal(r, line, head)
  OBVIOUS
<1>3. \/ /\ code = 0 /\ io' = GoOn(BodyKont(r))
         /\ Says(rsp', rsp.code, rsp.close, r.version, rsp.size)
      \/ /\ code \in {400, 413, 415} /\ io' = GoOn("response")
         /\ rsp'.code = code /\ rsp'.close /\ rsp'.size = PageSize
  BY <1>0, <1>1, <1>2, PreparedSays
<1>4. code = Refusal(r, r.line, r.fields) /\ req'.r = r /\ r \in RequestType
  BY <1>1, <1>2
<1>5. CASE /\ code = 0 /\ io' = GoOn(BodyKont(r))
           /\ Says(rsp', rsp.code, rsp.close, r.version, rsp.size)
  <2>1. BodyKont(r) \in {"request_chunked", "request_length", "dispatch"}
    BY BodyKontValue
  <2>2. io'.kont = BodyKont(r)
    BY <1>5, <2>1, GoOnFields DEF Konts
  <2>3. rsp'.version = r.version
    BY <1>5 DEF Says
  <2>4. Accepted(r)
    BY <1>4, <1>5 DEF Accepted
  <2>5. Accepted(req'.r)
    BY <1>4, <2>4
  <2>6. Accepted(req.r)'
    BY <2>5 DEF Accepted
  <2>7. io'.kont = "dispatch" => r.te # "torn"
    BY <2>2 DEF BodyKont
  <2> QED BY <1>4, <2>1, <2>2, <2>3, <2>6, <2>7 DEF Judged, AnswerKonts
<1>6. CASE /\ code \in {400, 413, 415} /\ io' = GoOn("response")
           /\ rsp'.code = code /\ rsp'.close
  <2>1. io'.kont = "response"
    BY <1>6, GoOnFields DEF Konts
  <2>2. rsp'.code = code /\ rsp'.close
    BY <1>6
  <2>3. Deserves(r) = {code}
    BY <1>4, <1>6, RefusalDeserved
  <2>4. rsp'.code \in Deserves(req'.r)
    BY <1>4, <2>2, <2>3
  <2>5. Fitting'
    BY <2>2, <2>4 DEF Fitting
  <2> QED BY <2>1, <2>5, JudgedAnswers DEF AnswerKonts
<1> QED BY <1>3, <1>5, <1>6

(* The header is decoded. *)
LEMMA HeaderJudged ==
  ASSUME ConnectionAssumption, Base, Stream, Judged, KontRequestHeader
  PROVE  Judged'
<1>1. /\ up = TRUE /\ io.kont = "request_header" /\ io \in IoType /\ up' = up /\ req' = req
      /\ out' = out /\ rsp \in RspType /\ dec.line = req.r.line /\ \E W, f, a : Standing(W, f, a)
  BY InMemory DEF KontRequestHeader, lifeVars, Judged, Base, AnswersOK
<1>2. req.r \in RequestType
  BY <1>1, WorkIn DEF AtWork
<1>3. CASE buf = << >> /\ io' = WaitFor("READ", "request_header_read") /\ UNCHANGED <<dec, rsp>>
  <2>1. io'.kont = "request_header_read"
    BY <1>3, WaitForFields DEF Konts
  <2> QED BY <1>1, <1>3, <2>1, JudgedStays
<1>4. CASE /\ buf # << >>
           /\ LET head == IF Head(buf).part = "header" THEN Head(buf).r.fields ELSE "bad"
              IN  PrepareRequestBody(dec.line, head)
  <2>1. Head(buf) = Tok(req.n, "header", req.r)
    BY <1>4, HeaderNext DEF KontRequestHeader
  <2>2. Head(buf).part = "header" /\ Head(buf).r.fields = req.r.fields
    BY <2>1 DEF Tok
  <2>3. PrepareRequestBody(dec.line, req.r.fields)
    BY <1>4, <2>2
  <2>4. Refusal(req.r, dec.line, req.r.fields) = Refusal(req.r, req.r.line, req.r.fields)
    BY <1>1
  <2> QED BY <1>1, <1>2, <2>3, <2>4, PrepareJudged
<1>5. CASE dec.line = "bad" /\ PrepareRequestBody(dec.line, "bad")
  <2>1. /\ BadHeader(req.r, dec.line, "bad")
        /\ BadHeader(req.r, req.r.line, req.r.fields)
    BY <1>1, <1>5 DEF BadHeader
  <2>2. Refusal(req.r, dec.line, "bad") = Refusal(req.r, req.r.line, req.r.fields)
    BY <2>1 DEF Refusal
  <2> QED BY <1>1, <1>2, <1>5, <2>2, PrepareJudged
<1> QED BY <1>3, <1>4, <1>5, Zenon DEF KontRequestHeader

(* The end of the chunks, good or torn. *)
LEMMA ChunkedJudged ==
  ASSUME ConnectionAssumption, Base, Stream, Judged, KontRequestChunked
  PROVE  Judged'
<1>1. /\ up = TRUE /\ io.kont = "request_chunked" /\ io \in IoType /\ up' = up
      /\ out' = out /\ rsp \in RspType /\ \E W, f, a : Standing(W, f, a)
      /\ rsp.version = req.r.version
  BY InMemory DEF KontRequestChunked, lifeVars, Judged, Base, AnswersOK
<1>2. req.r \in RequestType
  BY <1>1, WorkIn DEF AtWork
<1>3. req'.r = req.r
  <2>1. \E B : req' = [req EXCEPT !.body = B]
    BY Zenon DEF KontRequestChunked
  <2> QED BY <2>1, BodyFields DEF Base, ConnectionInv
<1>4. CASE io' = WaitFor("READ", "request_chunked_read") /\ UNCHANGED <<dec, rsp>>
  <2>1. io'.kont = "request_chunked_read"
    BY <1>4, WaitForFields DEF Konts
  <2> QED BY <1>1, <1>3, <1>4, <2>1, JudgedStays
<1>5. ASSUME NEW e \in DOMAIN buf, EndsBody(e),
             LET good == buf[e].part = "end" /\ buf[e].r.te = "chunked"
             IN  /\ rsp' = IF good THEN rsp ELSE [ErrorPage(400) EXCEPT !.version = rsp.version]
                 /\ io' = GoOn(IF good THEN "dispatch" ELSE "response")
      PROVE  Judged'
  <2> DEFINE good == buf[e].part = "end" /\ buf[e].r.te = "chunked"
  <2>1. buf[e] = Tok(req.n, "end", req.r) /\ req.r.te \in {"chunked", "torn"}
    BY <1>5, EndNext DEF KontRequestChunked
  <2>2. good <=> req.r.te = "chunked"
    BY <2>1 DEF Tok
  <2>3. CASE req.r.te = "chunked"
    <3>1. rsp' = rsp /\ io' = GoOn("dispatch")
      BY <1>5, <2>2, <2>3
    <3>2. io'.kont = "dispatch"
      BY <1>1, <3>1, GoOnFields DEF Konts
    <3>3. Accepted(req.r)' = Accepted(req.r)
      BY <1>3 DEF Accepted
    <3>4. Accepted(req.r)
      BY <1>1 DEF Judged
    <3> QED BY <1>1, <1>3, <2>3, <3>1, <3>2, <3>3, <3>4 DEF Judged, AnswerKonts
  <2>4. CASE req.r.te = "torn"
    <3>1. rsp' = [ErrorPage(400) EXCEPT !.version = rsp.version] /\ io' = GoOn("response")
      BY <1>5, <2>2, <2>4, Zenon
    <3>2. io'.kont = "response"
      BY <1>1, <3>1, GoOnFields DEF Konts
    <3>3. Says(ErrorPage(400), 400, 400 \in {400, 413, 415}, rsp.version, PageSize)
      BY <1>1, ErrorPageSays DEF Codes
    <3>4. ErrorPage(400).code = 400 /\ ErrorPage(400).close /\ ErrorPage(400) \in RspType
      BY <3>3 DEF Says
    <3>5. PICK p, v : p = ErrorPage(400) /\ v = rsp.version
      OBVIOUS
    <3>6. p.code = 400 /\ p.close /\ p \in RspType /\ rsp' = [p EXCEPT !.version = v]
      BY <3>1, <3>4, <3>5, Zenon
    <3>7. rsp'.code = 400 /\ rsp'.close
      BY <3>6 DEF RspType
    <3>8. rsp'.code \in Deserves(req'.r)
      BY <1>2, <1>3, <2>4, <3>7, TornDeserved
    <3>9. Fitting'
      BY <3>7, <3>8 DEF Fitting
    <3> QED BY <3>2, <3>9, JudgedAnswers DEF AnswerKonts
  <2> QED BY <2>1, <2>3, <2>4
<1> QED BY <1>4, <1>5, Zenon DEF KontRequestChunked

(* The body with a content-length. *)
LEMMA LengthJudged ==
  ASSUME Base, Stream, Judged, KontRequestLength
  PROVE  Judged'
<1>1. /\ up = TRUE /\ io.kont = "request_length" /\ io \in IoType /\ up' = up
      /\ UNCHANGED <<out, rsp, dec>>
  BY InMemory DEF KontRequestLength, lifeVars, rspVars
<1>2. req.r.te # "torn"
  <2>1. BodyKont(req.r) = "request_length"
    BY BodyAt DEF KontRequestLength
  <2> QED BY <2>1 DEF BodyKont
<1>3. req'.r = req.r
  <2>1. \E B : req' = [req EXCEPT !.body = B]
    BY Zenon DEF KontRequestLength
  <2> QED BY <2>1, BodyFields DEF Base, ConnectionInv
<1>4. io' = WaitFor("READ", "request_length_read") \/ io' = GoOn("dispatch")
  BY DEF KontRequestLength
<1>5. io'.kont \in {"request_length_read", "dispatch"}
  BY <1>1, <1>4, WaitForFields, GoOnFields DEF Konts
<1> QED BY <1>1, <1>2, <1>3, <1>5, JudgedStays

-----------------------------------------------------------------------------
(* The handler's answer. *)
LEMMA DispatchServes ==
  ASSUME ConnectionAssumption, Base, Stream, Judged, KontDispatch
  PROVE  /\ Serves(rsp', req.r, rsp.version) /\ rsp.version = req.r.version
         /\ io'.kont = "response" /\ req' = req
<1>1. /\ up = TRUE /\ io.kont = "dispatch" /\ io \in IoType /\ req' = req
      /\ io' = GoOn("response") /\ rsp \in RspType /\ \E W, f, a : Standing(W, f, a)
  BY InMemory DEF KontDispatch, Base, AnswersOK
<1>2. PICK r : r = req.r
  OBVIOUS
<1>3. r \in RequestType
  BY <1>1, <1>2, WorkIn DEF AtWork
<1>4. Accepted(r) /\ rsp.version = r.version /\ r.te # "torn"
  BY <1>1, <1>2 DEF Judged
<1>5. Sound(r)
  BY <1>3, <1>4, DispatchedSound DEF Accepted
<1>6. Serves(rsp', r, rsp.version)
  BY <1>1, <1>2, <1>3, <1>5, DispatchDeserved
<1>7. io'.kont = "response"
  BY <1>1, GoOnFields DEF Konts
<1> QED BY <1>1, <1>2, <1>4, <1>6, <1>7, Zenon

(* A handler gives the request an answer it deserves. *)
LEMMA DispatchJudged ==
  ASSUME ConnectionAssumption, Base, Stream, Judged, KontDispatch
  PROVE  Judged'
<1>1. PICK r : r = req.r
  OBVIOUS
<1>2. /\ Serves(rsp', r, rsp.version) /\ rsp.version = r.version
      /\ io'.kont = "response" /\ req' = req
  BY <1>1, DispatchServes, Zenon
<1>3. PICK c, close, size : ServesWith(rsp', r, rsp.version, c, close, size)
  BY <1>2, Zenon DEF Serves
<1>4. c \in Deserves(r) \ {400, 413, 415} /\ rsp'.code = c /\ rsp'.version = rsp.version
  BY <1>3 DEF Says, ServesWith
<1>5. req'.r = r
  BY <1>1, <1>2
<1>6. /\ rsp'.code \in Deserves(req'.r) /\ rsp'.code \notin {400, 413, 415}
      /\ rsp'.version = req'.r.version
  BY <1>2, <1>4, <1>5
<1>7. Fitting'
  BY <1>6 DEF Fitting
<1> QED BY <1>2, <1>7, JudgedAnswers DEF AnswerKonts

(* prepare_response closes a connection more, never less. *)
LEMMA ResponseJudged ==
  ASSUME Base, Stream, Judged, KontResponse
  PROVE  Judged'
<1>1. /\ up = TRUE /\ io.kont = "response" /\ io \in IoType /\ req' = req
      /\ io' = WaitFor("WRITE", "response_header")
  BY InMemory DEF KontResponse
<1>2. io'.kont = "response_header"
  BY <1>1, WaitForFields DEF Konts
<1>3. rsp'.code = rsp.code /\ rsp'.version = rsp.version /\ (rsp.close => rsp'.close)
  <2> DEFINE b == ~NoBody(req.r, rsp.code)
             c == rsp.close \/ rsp.length = NoLength
  <2>1. rsp \in RspType /\ rsp' = [rsp EXCEPT !.has_body = b, !.close = c]
    BY Zenon DEF Base, AnswersOK, KontResponse
  <2> HIDE DEF b, c
  <2>2. rsp'.close = c /\ rsp'.code = rsp.code /\ rsp'.version = rsp.version
    BY <2>1, Zenon DEF RspType
  <2> QED BY <2>2 DEF c
<1>4. Fitting
  BY <1>1 DEF Judged, AnswerKonts
<1>5. Fitting'
  BY <1>1, <1>3, <1>4 DEF Fitting
<1> QED BY <1>2, <1>5, JudgedAnswers DEF AnswerKonts

(* The answer that begins is the one that was judged. *)
LEMMA ResponseHeaderJudged ==
  ASSUME Base, Stream, Judged, KontResponseHeader
  PROVE  Judged'
<1>1. peer # "reset" /\ Called("response_header")
  BY DEF KontResponseHeader, Written
<1>2. /\ up = TRUE /\ io.kont = "response_header" /\ io \in IoType
      /\ UNCHANGED <<req, up, rsp>>
      /\ \/ io' = WaitFor("WRITE", "response_header") /\ out' = out
         \/ /\ out' = Append(out, HeaderSent)
            /\ \/ io' = GoOn("response_end")
               \/ io' = WaitFor("WRITE", "response_file_length")
               \/ io' = WaitFor("WRITE", "response_body_length")
  BY <1>1, AtCall DEF KontResponseHeader, clientVars, lifeVars
<1>3. Fitting
  BY <1>2 DEF Judged, AnswerKonts
<1>4. Fitting'
  BY <1>2, <1>3 DEF Fitting
<1>5. CASE io' = WaitFor("WRITE", "response_header")
  <2>1. io'.kont = "response_header"
    BY <1>5, WaitForFields DEF Konts
  <2> QED BY <1>4, <2>1, JudgedAnswers DEF AnswerKonts
<1>6. CASE /\ out' = Append(out, HeaderSent)
           /\ \/ io' = GoOn("response_end")
              \/ io' = WaitFor("WRITE", "response_file_length")
              \/ io' = WaitFor("WRITE", "response_body_length")
  <2>1. io'.kont \in SendKonts
    BY <1>2, <1>6, WaitForFields, GoOnFields DEF Konts
  <2>2. out \in Seq(AnswerType)
    BY DEF Base, AnswersOK
  <2>3. PICK e : e = HeaderSent
    OBVIOUS
  <2>4. e.code = rsp.code /\ ~e.over
    BY <2>3 DEF HeaderSent
  <2>5. out' # << >> /\ out'[Len(out')] = e
    BY <1>6, <2>2, <2>3
  <2>6. Answering'
    BY <1>2, <2>4, <2>5 DEF Answering
  <2> QED BY <1>4, <2>1, <2>6, JudgedAnswers DEF AnswerKonts
<1> QED BY <1>2, <1>5, <1>6

(* Sending the body changes neither its status nor that it is the last. *)
LEMMA SentKeeps ==
  ASSUME out \in Seq(AnswerType), out # << >>, NEW n \in Int, out' = BodySent(n)
  PROVE  /\ out' \in Seq(AnswerType) /\ Len(out') = Len(out) /\ out' # << >>
         /\ \A k \in DOMAIN out : /\ out'[k].code = out[k].code /\ out'[k].over = out[k].over
                                  /\ out'[k].last = out[k].last
<1>1. \E e \in AnswerType :
            /\ BodySent(n) = [out EXCEPT ![Len(out)] = e]
            /\ e.n = out[Len(out)].n /\ e.code = out[Len(out)].code
            /\ e.body = out[Len(out)].body /\ e.length = out[Len(out)].length
            /\ e.over = out[Len(out)].over /\ e.got = out[Len(out)].got + n
            /\ e.last = out[Len(out)].last
  BY BodySentLast
<1>2. PICK e \in AnswerType :
            /\ BodySent(n) = [out EXCEPT ![Len(out)] = e]
            /\ e.code = out[Len(out)].code /\ e.over = out[Len(out)].over
            /\ e.last = out[Len(out)].last
  BY <1>1, Zenon
<1>3. /\ out' \in Seq(AnswerType) /\ Len(out') = Len(out) /\ out'[Len(out)] = e /\ out' # << >>
      /\ \A k \in DOMAIN out : k # Len(out) => out'[k] = out[k]
  <2>1. out' = [out EXCEPT ![Len(out)] = e]
    BY <1>2, Zenon
  <2> QED BY <2>1, LastChanged
<1>4. ASSUME NEW k \in DOMAIN out
      PROVE  /\ out'[k].code = out[k].code /\ out'[k].over = out[k].over
             /\ out'[k].last = out[k].last
  <2>1. CASE k = Len(out)
    BY <1>2, <1>3, <2>1, Zenon
  <2>2. CASE k # Len(out)
    BY <1>3, <2>2, Zenon
  <2> QED BY <2>1, <2>2
<1> QED BY <1>3, <1>4

(* Sending the body leaves the judgement alone. *)
LEMMA BodyJudged ==
  ASSUME ConnectionAssumption, Base, Stream, Judged,
         KontResponseFileLength \/ KontResponseBodyLength
  PROVE  Judged'
<1>1. PICK k \in {"response_file_length", "response_body_length"} :
        Called(k) /\ peer # "reset"
  BY DEF KontResponseFileLength, KontResponseBodyLength, Written
<1>2. up = TRUE /\ io.kont = k /\ io \in IoType
  BY <1>1, AtCall
<1>3. /\ \/ io' = GoOn("response_end")
         \/ io' = WaitFor("WRITE", "response_file_length")
         \/ io' = WaitFor("WRITE", "response_body_length")
      /\ UNCHANGED <<req, rsp>>
  BY DEF KontResponseFileLength, KontResponseBodyLength
<1>4. out' = out \/ \E n \in Int : out' = BodySent(n)
  <2>1. 1..BufferSize \subseteq Int /\ 1..PageSize \subseteq Int
    BY DEF ConnectionAssumption
  <2> QED BY <2>1, Zenon DEF KontResponseFileLength, KontResponseBodyLength
<1>5. io'.kont \in SendKonts
  BY <1>2, <1>3, WaitForFields, GoOnFields DEF Konts
<1>6. Fitting /\ Answering
  BY <1>2 DEF Judged, AnswerKonts
<1>7. Fitting'
  BY <1>3, <1>6 DEF Fitting
<1>8. out \in Seq(AnswerType) /\ out # << >>
  BY <1>6 DEF Base, AnswersOK, Answering
<1>9. Answering'
  <2>1. CASE out' = out
    BY <1>3, <1>6, <2>1 DEF Answering
  <2>2. CASE \E n \in Int : out' = BodySent(n)
    <3>1. /\ Len(out') = Len(out) /\ out' # << >>
          /\ \A j \in DOMAIN out : out'[j].code = out[j].code /\ out'[j].over = out[j].over
      BY <1>8, <2>2, SentKeeps
    <3>2. Len(out) \in DOMAIN out
      BY <1>8
    <3>3. out'[Len(out')].code = rsp'.code /\ ~out'[Len(out')].over
      BY <1>3, <1>6, <3>1, <3>2, Zenon DEF Answering
    <3> QED BY <3>1, <3>3 DEF Answering
  <2> QED BY <1>4, <2>1, <2>2
<1> QED BY <1>5, <1>7, <1>9, JudgedAnswers DEF AnswerKonts

(* The next request, or the end. *)
LEMMA EndJudged ==
  ASSUME Base, Stream, Judged, KontResponseEnd
  PROVE  Judged'
<1>1. io \in IoType /\ io' = IF DoneConnection THEN Teardown ELSE NextRequest
  BY InMemory DEF KontResponseEnd
<1>2. io'.kont = IF DoneConnection THEN "teardown" ELSE "request_line"
  BY <1>1, WaitForFields, GoOnFields DEF Konts, Teardown, NextRequest
<1> QED BY <1>2 DEF Judged, AnswerKonts

(* Every step keeps the answer fitting the request. *)
LEMMA StepJudged ==
  ASSUME ConnectionAssumption, Base, Stream, dec \in DecType, Judged,
         [ConnectionNext]_connectionVars
  PROVE  Judged'
<1>0. io \in IoType /\ up \in BOOLEAN
  BY DEF Base, ConnectionInv, IoOK
<1>1. CASE Client \/ UNCHANGED connectionVars
  <2>1. UNCHANGED <<io, dec, req, rsp, out, up>>
    BY <1>1 DEF Client, MakeRequest, SendToken, HalfClose, Reset, ioVars, rspVars, lifeVars,
       connectionVars
  <2> QED BY <2>1, JudgedStays
<1>2. CASE OnAccept
  <2>1. io'.kont = "request_line_read"
    BY <1>2 DEF OnAccept
  <2> QED BY <2>1 DEF Judged, AnswerKonts
<1>3. CASE OnTimer \/ ReadEof \/ IoFails
  <2>1. up' = FALSE
    BY <1>3 DEF OnTimer, ReadEof, IoFails, OnClose
  <2> QED BY <2>1 DEF Judged
<1>4. CASE \/ KontRequestLineRead \/ KontRequestHeaderRead
           \/ KontRequestChunkedRead \/ KontRequestLengthRead
  <2>1. PICK kont \in ReadKonts,
             next \in {"request_line", "request_header", "request_chunked", "request_length"} :
          /\ Read(kont, next)
          /\ kont = "request_line_read" => next = "request_line"
          /\ kont = "request_header_read" => next = "request_header"
          /\ kont \in {"request_chunked_read", "request_length_read"} =>
               next \in {"request_chunked", "request_length"}
          /\ kont # "teardown"
    BY <1>4 DEF KontRequestLineRead, KontRequestHeaderRead, KontRequestChunkedRead,
       KontRequestLengthRead
  <2>2. /\ io.kont = kont /\ io' = GoOn(next) /\ up' = up
        /\ UNCHANGED <<dec, req, rsp, out>>
    BY <2>1 DEF Read, Called, rspVars, lifeVars
  <2>3. io'.kont = next
    BY <1>0, <2>2, GoOnFields DEF Konts
  <2> QED BY <2>1, <2>2, <2>3, JudgedStays
<1>5. CASE KontRequestLine
  BY <1>5, LineJudged
<1>6. CASE KontRequestHeader
  BY <1>6, HeaderJudged
<1>7. CASE KontRequestChunked
  BY <1>7, ChunkedJudged
<1>8. CASE KontRequestLength
  BY <1>8, LengthJudged
<1>9. CASE KontDispatch
  BY <1>9, DispatchJudged
<1>10. CASE KontResponse
  BY <1>10, ResponseJudged
<1>11. CASE KontResponseHeader
  BY <1>11, ResponseHeaderJudged
<1>12. CASE KontResponseFileLength \/ KontResponseBodyLength
  BY <1>12, BodyJudged
<1>13. CASE KontResponseEnd
  BY <1>13, EndJudged
<1>14. CASE KontTeardown
  <2>1. UNCHANGED <<io, dec, req, rsp, out, up>>
    BY <1>14 DEF KontTeardown, ioVars, rspVars, lifeVars
  <2> QED BY <2>1, JudgedStays
<1> QED
  BY <1>1, <1>2, <1>3, <1>4, <1>5, <1>6, <1>7, <1>8, <1>9, <1>10, <1>11, <1>12, <1>13, <1>14, Zenon
  DEF ConnectionNext, Server

-----------------------------------------------------------------------------
(* The buffer never holds more than fits, the decoders are in one of their *)
(* states, and sizes and files are what they may be.                       *)
Sizes == [pos : Nat, size : Nat]

Typed ==
  /\ Len(buf) <= BufferSize /\ dec \in DecType
  /\ wr \in Sizes /\ rsp.size \in Nat /\ fd \in Nat \cup {NoFile}
  /\ shut \in BOOLEAN /\ why \in {"none", "eof", "error", "timeout"}

(* The rest of the buffer is no longer than the buffer. *)
LEMMA BufShrinks ==
  ASSUME buf \in Seq(Token), NEW c \in 0..Len(buf), buf' = SubSeq(buf, c + 1, Len(buf))
  PROVE  Len(buf') <= Len(buf)
<1>1. PICK l \in Nat : l = Len(buf)
  OBVIOUS
<1>2. PICK s : s = SubSeq(buf, c + 1, l)
  OBVIOUS
<1>3. Len(s) = IF c + 1 <= l THEN l - c ELSE 0
  BY <1>1, <1>2, SubSeqProperties
<1> QED BY <1>1, <1>2, <1>3

(* A token taken off the buffer makes it shorter. *)
LEMMA BufTail ==
  ASSUME buf \in Seq(Token), buf # << >>, buf' = Tail(buf)
  PROVE  buf' \in Seq(Token) /\ Len(buf') <= Len(buf)
OBVIOUS

(* A read fills the buffer at most. *)
LEMMA ReadTyped ==
  ASSUME ConnectionAssumption, Base, Typed, NEW k, NEW next, Read(k, next)
  PROVE  Typed'
<1>1. PICK n \in 1..BufferSize : n <= Len(rx) /\ buf' = SubSeq(rx, 1, n)
  BY DEF Read
<1>2. rx \in Seq(Token) /\ BufferSize \in Nat
  BY TokensTyped DEF Base, ConnectionInv, ConnectionAssumption
<1>3. Len(buf') = n /\ n <= BufferSize
  BY <1>1, <1>2, SubSeqProperties
<1>4. UNCHANGED <<dec, wr, rsp, fd, shut, why>>
  BY DEF Read, rspVars, lifeVars
<1> QED BY <1>3, <1>4 DEF Typed

(* The request line is decoded. *)
LEMMA LineTyped ==
  ASSUME ConnectionAssumption, Base, Typed, KontRequestLine
  PROVE  Typed'
<1>1. UNCHANGED <<wr, rsp, fd, shut, why>> /\ BufferSize \in Nat /\ buf \in Seq(Token)
  BY TokensTyped DEF KontRequestLine, rspVars, lifeVars, Base, ConnectionInv, ConnectionAssumption
<1>2. CASE buf' = buf /\ dec' = dec
  BY <1>1, <1>2 DEF Typed
<1>3. CASE /\ buf # << >> /\ buf' = Tail(buf)
           /\ LET t == Head(buf)
              IN  dec' = [dec EXCEPT !.line = IF t.part = "line" THEN t.r.line ELSE "bad"]
  <2>1. PICK v : v = IF Head(buf).part = "line" THEN Head(buf).r.line ELSE "bad"
    OBVIOUS
  <2>2. v \in {"partial", "good", "bad"}
    <3>1. Head(buf) \in Token
      BY <1>1, <1>3
    <3>2. Head(buf).r \in RequestType
      BY <3>1 DEF Token
    <3>3. Head(buf).r.line \in {"good", "bad"}
      BY <3>2 DEF RequestType
    <3> QED BY <2>1, <3>3
  <2>3. dec' = [dec EXCEPT !.line = v]
    BY <1>3, <2>1, Zenon
  <2>4. dec' \in DecType
    BY <2>2, <2>3, Zenon DEF Typed, DecType
  <2>5. buf' \in Seq(Token) /\ Len(buf') <= Len(buf)
    BY <1>1, <1>3, BufTail
  <2>6. Len(buf') <= BufferSize
    BY <1>1, <1>3, <2>5 DEF Typed
  <2> QED BY <1>1, <2>4, <2>6 DEF Typed
<1> QED BY <1>2, <1>3, Zenon DEF KontRequestLine

(* The header is decoded. *)
LEMMA PrepareTyped ==
  ASSUME ConnectionAssumption, rsp \in RspType, req.r \in RequestType, rsp.size \in Nat,
         NEW line, NEW head, PrepareRequestBody(line, head)
  PROVE  rsp'.size \in Nat
<1>1. PICK r : r = req.r
  OBVIOUS
<1>2. PICK code : code = Refusal(r, line, head)
  OBVIOUS
<1>3. r \in RequestType
  BY <1>1
<1>4. \/ /\ code = 0 /\ io' = GoOn(BodyKont(r))
         /\ Says(rsp', rsp.code, rsp.close, r.version, rsp.size)
      \/ /\ code \in {400, 413, 415} /\ io' = GoOn("response")
         /\ rsp'.code = code /\ rsp'.close /\ rsp'.size = PageSize
  BY <1>1, <1>2, <1>3, PreparedSays
<1>5. rsp'.size = rsp.size \/ rsp'.size = PageSize
  BY <1>4 DEF Says
<1> QED BY <1>5 DEF ConnectionAssumption

(* The header fields are decoded. *)
LEMMA HeaderTyped ==
  ASSUME ConnectionAssumption, Base, Typed, KontRequestHeader
  PROVE  Typed'
<1>1. /\ UNCHANGED <<wr, fd, shut, why>> /\ BufferSize \in Nat /\ buf \in Seq(Token)
      /\ rsp \in RspType /\ rsp.size \in Nat /\ Len(buf) <= BufferSize
  BY TokensTyped DEF KontRequestHeader, lifeVars, Base, ConnectionInv, ConnectionAssumption,
     AnswersOK, Typed
<1>2. req.r \in RequestType
  BY DEF KontRequestHeader, At, Base, ConnectionInv, StreamOK, Early, IoOK
<1>3. CASE UNCHANGED <<buf, dec, rsp>>
  BY <1>1, <1>3 DEF Typed
<1>4. ASSUME NEW head \in {"good", "bad"}, dec' = [dec EXCEPT !.head = head],
             PrepareRequestBody(dec.line, head), buf' \in Seq(Token), Len(buf') <= Len(buf)
      PROVE  Typed'
  <2>1. dec' \in DecType
    BY <1>4, Zenon DEF Typed, DecType
  <2>2. rsp'.size \in Nat
    BY <1>1, <1>2, <1>4, PrepareTyped
  <2>3. Len(buf') <= BufferSize
    BY <1>1, <1>4
  <2> QED BY <1>1, <2>1, <2>2, <2>3 DEF Typed
<1>5. CASE /\ buf # << >> /\ buf' = Tail(buf)
           /\ LET head == IF Head(buf).part = "header" THEN Head(buf).r.fields ELSE "bad"
              IN  dec' = [dec EXCEPT !.head = head] /\ PrepareRequestBody(dec.line, head)
  <2>1. PICK head : head = IF Head(buf).part = "header" THEN Head(buf).r.fields ELSE "bad"
    OBVIOUS
  <2>2. head \in {"good", "bad"}
    <3>1. Head(buf) \in Token
      BY <1>1, <1>5
    <3>2. Head(buf).r \in RequestType
      BY <3>1 DEF Token
    <3>3. Head(buf).r.fields \in {"good", "bad"}
      BY <3>2 DEF RequestType
    <3> QED BY <2>1, <3>3
  <2>3. dec' = [dec EXCEPT !.head = head] /\ PrepareRequestBody(dec.line, head)
    BY <1>5, <2>1, Zenon
  <2>4. buf' \in Seq(Token) /\ Len(buf') <= Len(buf)
    BY <1>1, <1>5, BufTail
  <2> QED BY <1>4, <2>2, <2>3, <2>4
<1>6. CASE dec' = [dec EXCEPT !.head = "bad"] /\ PrepareRequestBody(dec.line, "bad") /\ buf' = buf
  <2>1. buf' \in Seq(Token) /\ Len(buf') <= Len(buf)
    BY <1>1, <1>6
  <2> QED BY <1>4, <1>6, <2>1
<1> QED BY <1>3, <1>5, <1>6, Zenon DEF KontRequestHeader

(* The end of the chunks, or more of the body. *)
LEMMA ChunkedTyped ==
  ASSUME ConnectionAssumption, Base, Typed, KontRequestChunked
  PROVE  Typed'
<1>1. /\ UNCHANGED <<wr, fd, shut, why>> /\ BufferSize \in Nat /\ buf \in Seq(Token)
      /\ rsp \in RspType /\ rsp.size \in Nat /\ Len(buf) <= BufferSize
  BY TokensTyped DEF KontRequestChunked, lifeVars, Base, ConnectionInv, ConnectionAssumption,
     AnswersOK, Typed
<1>2. CASE buf' = << >> /\ UNCHANGED <<dec, rsp>>
  BY <1>1, <1>2 DEF Typed
<1>3. ASSUME NEW e \in DOMAIN buf, buf' = ChunkRest(e), NEW good \in BOOLEAN,
             dec' = [dec EXCEPT !.chunk = IF good THEN "good" ELSE "bad"],
             rsp' = IF good THEN rsp ELSE [ErrorPage(400) EXCEPT !.version = rsp.version]
      PROVE  Typed'
  <2>1. Len(buf') <= BufferSize
    <3>1. e \in 0..Len(buf) /\ buf' = SubSeq(buf, e + 1, Len(buf))
      BY <1>1, <1>3 DEF ChunkRest
    <3>2. Len(buf') <= Len(buf)
      BY <1>1, <3>1, BufShrinks
    <3>3. buf' \in Seq(Token)
      BY <1>1, <3>1, SubSeqType
    <3> QED BY <1>1, <3>2, <3>3
  <2>2. dec' \in DecType
    BY <1>3, Zenon DEF Typed, DecType
  <2>3. rsp'.size \in Nat
    <3>1. CASE good
      BY <1>1, <1>3, <3>1
    <3>2. CASE ~good
      <4>1. Says(ErrorPage(400), 400, 400 \in {400, 413, 415}, rsp.version, PageSize)
        BY <1>1, ErrorPageSays DEF Codes
      <4>2. ErrorPage(400) \in RspType /\ ErrorPage(400).size = PageSize
        BY <4>1 DEF Says
      <4>3. PICK p, v : p = ErrorPage(400) /\ v = rsp.version
        OBVIOUS
      <4>4. rsp' = [p EXCEPT !.version = v] /\ p \in RspType /\ p.size = PageSize
        BY <1>3, <3>2, <4>2, <4>3, Zenon
      <4>5. rsp'.size = PageSize
        BY <4>4 DEF RspType
      <4> QED BY <4>5 DEF ConnectionAssumption
    <3> QED BY <3>1, <3>2
  <2> QED BY <1>1, <2>1, <2>2, <2>3 DEF Typed
<1>4. CASE \E e \in DOMAIN buf :
           /\ buf' = ChunkRest(e)
           /\ LET good == buf[e].part = "end" /\ buf[e].r.te = "chunked"
              IN  /\ dec' = [dec EXCEPT !.chunk = IF good THEN "good" ELSE "bad"]
                  /\ rsp' = IF good THEN rsp ELSE [ErrorPage(400) EXCEPT !.version = rsp.version]
  <2>1. PICK e \in DOMAIN buf :
           /\ buf' = ChunkRest(e)
           /\ LET good == buf[e].part = "end" /\ buf[e].r.te = "chunked"
              IN  /\ dec' = [dec EXCEPT !.chunk = IF good THEN "good" ELSE "bad"]
                  /\ rsp' = IF good THEN rsp ELSE [ErrorPage(400) EXCEPT !.version = rsp.version]
    BY <1>4, Zenon
  <2>2. PICK good \in BOOLEAN : good = (buf[e].part = "end" /\ buf[e].r.te = "chunked")
    BY Zenon
  <2> QED BY <1>3, <2>1, <2>2, Zenon
<1> QED BY <1>2, <1>4, Zenon DEF KontRequestChunked

(* A piece of a body of known length is taken. *)
LEMMA LengthTyped ==
  ASSUME ConnectionAssumption, Base, Typed, KontRequestLength
  PROVE  Typed'
<1>1. /\ UNCHANGED <<dec, wr, rsp, fd, shut, why>> /\ BufferSize \in Nat /\ buf \in Seq(Token)
      /\ Len(buf) <= BufferSize
  BY TokensTyped DEF KontRequestLength, rspVars, lifeVars, Base, ConnectionInv,
     ConnectionAssumption, Typed
<1>2. req.r \in RequestType
  BY DEF KontRequestLength, At, Base, ConnectionInv, StreamOK, Early, IoOK
<1>3. LengthTaken \in 0..Len(buf)
  <2>1. req.r.size \in Nat /\ Len(buf) \in Nat
    BY <1>1, <1>2 DEF RequestType
  <2> QED BY <2>1 DEF LengthTaken
<1>4. buf' = SubSeq(buf, LengthTaken + 1, Len(buf))
  BY DEF KontRequestLength
<1>5. Len(buf') <= Len(buf)
  <2>1. PICK c : c = LengthTaken
    OBVIOUS
  <2> QED BY <1>1, <1>3, <1>4, <2>1, BufShrinks
<1>6. buf' \in Seq(Token)
  BY <1>1, <1>3, <1>4, SubSeqType
<1>7. Len(buf') <= BufferSize
  BY <1>1, <1>5, <1>6
<1> QED BY <1>1, <1>7 DEF Typed

(* The page of a handler, and the file it opens. *)
LEMMA DispatchTyped ==
  ASSUME ConnectionAssumption, Base, Stream, Judged, Typed, KontDispatch
  PROVE  Typed'
<1>1. UNCHANGED <<buf, dec, wr, shut, why>>
  BY DEF KontDispatch, lifeVars
<1>2. PICK r : r = req.r
  OBVIOUS
<1>3. Serves(rsp', r, rsp.version)
  BY <1>2, DispatchServes, Zenon
<1>4. PICK c, close, size : ServesWith(rsp', r, rsp.version, c, close, size)
  BY <1>3, Zenon DEF Serves
<1>5. rsp'.size \in {PageSize, rsp.size}
  BY <1>4 DEF Says, ServesWith
<1>6. rsp'.size \in Nat
  BY <1>5 DEF Typed, ConnectionAssumption
<1>7. fd' \in Nat \cup {NoFile}
  <2>1. CASE fd' = fd
    BY <2>1 DEF Typed
  <2>2. CASE fd' # fd
    <3>1. PICK s \in FileSizes, opens \in BOOLEAN : fd' \in BodyFd(req.r, s, opens)
      BY <2>2 DEF KontDispatch
    <3>2. s \in Nat /\ FileSizes \subseteq Nat
      BY <3>1 DEF ConnectionAssumption
    <3>3. fd' = NoFile \/ fd' \in FileSizes \/ fd' = s
      BY <3>1, Zenon DEF BodyFd
    <3> QED BY <3>2, <3>3
  <2> QED BY <2>1, <2>2
<1> QED BY <1>1, <1>6, <1>7 DEF Typed

(* A write moves wrpos on. *)
LEMMA SizesGrow ==
  ASSUME wr \in Sizes, NEW n \in Nat, wr' = [wr EXCEPT !.pos = wr.pos + n]
  PROVE  wr' \in Sizes
<1>1. wr.pos + n \in Nat
  BY DEF Sizes
<1> QED BY <1>1, Zenon DEF Sizes

(* The steps of the response. *)
LEMMA ResponseTyped ==
  ASSUME ConnectionAssumption, Base, Typed, KontResponse
  PROVE  Typed'
<1>1. UNCHANGED <<buf, dec, fd, shut, why>>
  BY DEF KontResponse, lifeVars
<1>2. wr' \in Sizes
  BY DEF KontResponse, ConnectionAssumption, Sizes
<1>3. rsp'.size = rsp.size
  <2> DEFINE b == ~NoBody(req.r, rsp.code)
             c == rsp.close \/ rsp.length = NoLength
  <2>1. rsp \in RspType /\ rsp' = [rsp EXCEPT !.has_body = b, !.close = c]
    BY Zenon DEF Base, AnswersOK, KontResponse
  <2> HIDE DEF b, c
  <2> QED BY <2>1, Zenon DEF RspType
<1> QED BY <1>1, <1>2, <1>3 DEF Typed

(* The header is sent, and the position set for the body. *)
LEMMA ResponseHeaderTyped ==
  ASSUME ConnectionAssumption, Typed, KontResponseHeader
  PROVE  Typed'
<1>1. UNCHANGED <<buf, dec, rsp, fd, shut, why>>
  BY DEF KontResponseHeader, lifeVars
<1>2. wr \in Sizes /\ rsp.size \in Nat
  BY DEF Typed
<1>3. 1..HeaderSize \subseteq Nat
  BY DEF ConnectionAssumption
<1>4. \/ \E n \in Nat : wr' = [wr EXCEPT !.pos = wr.pos + n]
      \/ \E s \in {wr.size, rsp.size} : wr' = [pos |-> 0, size |-> s]
  BY <1>3 DEF KontResponseHeader
<1>5. wr' \in Sizes
  <2>1. CASE \E n \in Nat : wr' = [wr EXCEPT !.pos = wr.pos + n]
    BY <1>2, <2>1, SizesGrow
  <2>2. CASE \E s \in {wr.size, rsp.size} : wr' = [pos |-> 0, size |-> s]
    BY <1>2, <2>2 DEF Sizes
  <2> QED BY <1>4, <2>1, <2>2
<1> QED BY <1>1, <1>5 DEF Typed

(* A piece of the file or of the page is sent. *)
LEMMA BodyTyped ==
  ASSUME ConnectionAssumption, Typed, KontResponseFileLength \/ KontResponseBodyLength
  PROVE  Typed'
<1>1. UNCHANGED <<buf, dec, rsp, shut, why>>
  BY DEF KontResponseFileLength, KontResponseBodyLength, lifeVars
<1>2. wr \in Sizes /\ fd \in Nat \cup {NoFile}
  BY DEF Typed
<1>3. 1..BufferSize \subseteq Nat /\ 1..PageSize \subseteq Nat
  BY DEF ConnectionAssumption
<1>4. wr' \in Sizes
  <2>1. wr' = wr \/ \E n \in Nat : wr' = [wr EXCEPT !.pos = wr.pos + n]
    BY <1>3, Zenon DEF KontResponseFileLength, KontResponseBodyLength
  <2> QED BY <1>2, <2>1, SizesGrow
<1>5. fd' \in Nat \cup {NoFile}
  <2>1. fd' = fd \/ \E n \in 1..BufferSize : n <= fd /\ fd' = fd - n
    BY DEF KontResponseFileLength, KontResponseBodyLength
  <2>2. CASE \E n \in 1..BufferSize : n <= fd /\ fd' = fd - n
    BY <1>2, <1>3, <2>2 DEF NoFile
  <2> QED BY <1>2, <2>1, <2>2
<1> QED BY <1>1, <1>4, <1>5 DEF Typed

(* The end of an answer makes the decoders and the response afresh. *)
LEMMA EndTyped ==
  ASSUME Typed, KontResponseEnd
  PROVE  Typed'
<1>1. UNCHANGED <<buf, wr, why>> /\ fd' = NoFile /\ shut' = DoneConnection
  BY DEF KontResponseEnd, lifeVars
<1>2. rsp'.size \in Nat
  BY DEF KontResponseEnd, FreshResponse
<1>3. dec' \in DecType
  BY DEF KontResponseEnd, FreshDecoders, DecType
<1>4. shut' \in BOOLEAN
  BY <1>1 DEF DoneConnection
<1> QED BY <1>1, <1>2, <1>3, <1>4 DEF Typed

(* Every step keeps the types. *)
LEMMA StepTyped ==
  ASSUME ConnectionAssumption, Base, Stream, Judged, Typed, [ConnectionNext]_connectionVars
  PROVE  Typed'
<1>1. CASE Client \/ KontTeardown \/ UNCHANGED connectionVars
  <2>1. UNCHANGED <<buf, dec, wr, rsp, fd, shut, why>>
    BY <1>1 DEF Client, MakeRequest, SendToken, HalfClose, Reset, KontTeardown, ioVars, rspVars,
       lifeVars, connectionVars
  <2> QED BY <2>1 DEF Typed
<1>2. CASE OnAccept
  <2>1. /\ buf' = << >> /\ dec' = FreshDecoders /\ wr' = wr /\ rsp' = FreshResponse
        /\ fd' = NoFile /\ shut' = FALSE /\ why' = "none"
    BY <1>2 DEF OnAccept
  <2>2. Len(buf') <= BufferSize
    BY <2>1 DEF ConnectionAssumption
  <2>3. dec' \in DecType /\ rsp'.size \in Nat
    BY <2>1 DEF FreshDecoders, DecType, FreshResponse
  <2> QED BY <2>1, <2>2, <2>3 DEF Typed
<1>3. CASE OnTimer \/ ReadEof \/ IoFails
  <2>1. UNCHANGED <<buf, dec, wr, rsp, fd, shut>> /\ why' \in {"timeout", "eof", "error"}
    BY <1>3 DEF OnTimer, ReadEof, IoFails, OnClose, rspVars
  <2> QED BY <2>1 DEF Typed
<1>4. CASE \/ KontRequestLineRead \/ KontRequestHeaderRead
           \/ KontRequestChunkedRead \/ KontRequestLengthRead
  <2>1. \E k, next : Read(k, next)
    BY <1>4, Zenon DEF KontRequestLineRead, KontRequestHeaderRead, KontRequestChunkedRead,
       KontRequestLengthRead
  <2> QED BY <2>1, ReadTyped
<1>5. CASE KontRequestLine
  BY <1>5, LineTyped
<1>6. CASE KontRequestHeader
  BY <1>6, HeaderTyped
<1>7. CASE KontRequestChunked
  BY <1>7, ChunkedTyped
<1>8. CASE KontRequestLength
  BY <1>8, LengthTyped
<1>9. CASE KontDispatch
  BY <1>9, DispatchTyped
<1>10. CASE KontResponse
  BY <1>10, ResponseTyped
<1>11. CASE KontResponseHeader
  BY <1>11, ResponseHeaderTyped
<1>12. CASE KontResponseFileLength \/ KontResponseBodyLength
  BY <1>12, BodyTyped
<1>13. CASE KontResponseEnd
  BY <1>13, EndTyped
<1> QED
  BY <1>1, <1>2, <1>3, <1>4, <1>5, <1>6, <1>7, <1>8, <1>9, <1>10, <1>11, <1>12, <1>13, Zenon
  DEF ConnectionNext, Server

-----------------------------------------------------------------------------
(* keepalive_requests counts the answers of the connection, and none after *)
(* the last; until the last there is room for another.                     *)
Goes ==
  /\ keepalive < MaxKeepalive
  /\ keepalive = IF io.kont \in SendKonts THEN Len(out) - 1 ELSE Len(out)
  /\ \A k \in DOMAIN out : out[k].over => ~out[k].last

Kept == keepalive \in 0..MaxKeepalive /\ (up /\ io.kont # "teardown" => Goes)

(* Steps that neither begin nor end an answer. *)
LEMMA KeptStays ==
  ASSUME Kept, UNCHANGED <<keepalive, out>>,
         up' => up,
         \/ io'.kont = "teardown"
         \/ io.kont # "teardown" /\ (io'.kont \in SendKonts <=> io.kont \in SendKonts)
  PROVE  Kept'
BY DEF Kept, Goes

(* The step into an answer, *)
LEMMA ResponseHeaderKept ==
  ASSUME Base, Stream, Kept, KontResponseHeader
  PROVE  Kept'
<1>1. peer # "reset" /\ Called("response_header")
  BY DEF KontResponseHeader, Written
<1>2. /\ up = TRUE /\ io.kont = "response_header" /\ io \in IoType
      /\ UNCHANGED <<keepalive, up>>
      /\ \/ io' = WaitFor("WRITE", "response_header") /\ out' = out
         \/ /\ out' = Append(out, HeaderSent)
            /\ \/ io' = GoOn("response_end")
               \/ io' = WaitFor("WRITE", "response_file_length")
               \/ io' = WaitFor("WRITE", "response_body_length")
  BY <1>1, AtCall DEF KontResponseHeader, lifeVars
<1>3. CASE io' = WaitFor("WRITE", "response_header") /\ out' = out
  <2>1. io'.kont = "response_header"
    BY <1>3, WaitForFields DEF Konts
  <2> QED BY <1>2, <1>3, <2>1, KeptStays
<1>4. CASE /\ out' = Append(out, HeaderSent)
           /\ \/ io' = GoOn("response_end")
              \/ io' = WaitFor("WRITE", "response_file_length")
              \/ io' = WaitFor("WRITE", "response_body_length")
  <2>1. io'.kont \in SendKonts
    BY <1>2, <1>4, WaitForFields, GoOnFields DEF Konts
  <2>2. out \in Seq(AnswerType)
    BY DEF Base, AnswersOK
  <2>3. PICK e : e = HeaderSent
    OBVIOUS
  <2>4. ~e.over
    BY <2>3 DEF HeaderSent
  <2>5. /\ Len(out') = Len(out) + 1 /\ DOMAIN out' = DOMAIN out \cup {Len(out) + 1}
        /\ out'[Len(out) + 1] = e /\ \A k \in DOMAIN out : out'[k] = out[k]
    BY <1>4, <2>2, <2>3
  <2>6. Goes
    BY <1>2 DEF Kept
  <2>7. \A k \in DOMAIN out' : out'[k].over => ~out'[k].last
    BY <2>4, <2>5, <2>6 DEF Goes
  <2>8. keepalive' = Len(out') - 1
    BY <1>2, <2>2, <2>5, <2>6 DEF Goes
  <2>9. Goes'
    BY <1>2, <2>1, <2>6, <2>7, <2>8 DEF Goes
  <2> QED BY <1>2, <2>9 DEF Kept
<1> QED BY <1>2, <1>3, <1>4

(* while its body is sent, *)
LEMMA BodyKept ==
  ASSUME ConnectionAssumption, Base, Stream, Judged, Kept,
         KontResponseFileLength \/ KontResponseBodyLength
  PROVE  Kept'
<1>1. PICK k \in {"response_file_length", "response_body_length"} :
        Called(k) /\ peer # "reset"
  BY DEF KontResponseFileLength, KontResponseBodyLength, Written
<1>2. up = TRUE /\ io.kont = k /\ io \in IoType
  BY <1>1, AtCall
<1>3. /\ \/ io' = GoOn("response_end")
         \/ io' = WaitFor("WRITE", "response_file_length")
         \/ io' = WaitFor("WRITE", "response_body_length")
      /\ UNCHANGED <<keepalive, up>>
  BY DEF KontResponseFileLength, KontResponseBodyLength, lifeVars
<1>4. out' = out \/ \E n \in Int : out' = BodySent(n)
  <2>1. 1..BufferSize \subseteq Int /\ 1..PageSize \subseteq Int
    BY DEF ConnectionAssumption
  <2> QED BY <2>1, Zenon DEF KontResponseFileLength, KontResponseBodyLength
<1>5. io'.kont \in SendKonts
  BY <1>2, <1>3, WaitForFields, GoOnFields DEF Konts
<1>6. out \in Seq(AnswerType) /\ out # << >> /\ Goes
  BY <1>2 DEF Base, AnswersOK, Judged, Answering, Kept
<1>7. CASE out' = out
  BY <1>2, <1>3, <1>5, <1>7, KeptStays
<1>8. CASE \E n \in Int : out' = BodySent(n)
  <2>1. /\ out' \in Seq(AnswerType) /\ Len(out') = Len(out)
        /\ \A j \in DOMAIN out : out'[j].over = out[j].over /\ out'[j].last = out[j].last
    BY <1>6, <1>8, SentKeeps
  <2>2. DOMAIN out' = DOMAIN out
    BY <1>6, <2>1
  <2>3. \A j \in DOMAIN out' : out'[j].over => ~out'[j].last
    BY <1>6, <2>1, <2>2 DEF Goes
  <2>4. Goes'
    BY <1>2, <1>3, <1>5, <1>6, <2>1, <2>3 DEF Goes
  <2> QED BY <1>3, <2>4 DEF Kept
<1> QED BY <1>4, <1>7, <1>8

(* What the end of an answer changes. *)
Ends(last) ==
  /\ out' \in Seq(AnswerType) /\ Len(out') = Len(out) /\ DOMAIN out' = DOMAIN out
  /\ out'[Len(out)].over /\ out'[Len(out)].last = last
  /\ out'[Len(out)].code = out[Len(out)].code
  /\ \A k \in DOMAIN out : k # Len(out) => out'[k] = out[k]

(* kont_response_end changes that, and no more. *)
LEMMA EndedLast ==
  ASSUME out \in Seq(AnswerType), out # << >>, NEW last \in BOOLEAN,
         out' = [out EXCEPT ![Len(out)].over = TRUE, ![Len(out)].last = last]
  PROVE  Ends(last)
<1>1. \E e \in AnswerType :
         /\ [out EXCEPT ![Len(out)].over = TRUE, ![Len(out)].last = last]
              = [out EXCEPT ![Len(out)] = e]
         /\ e.n = out[Len(out)].n /\ e.code = out[Len(out)].code
         /\ e.body = out[Len(out)].body /\ e.length = out[Len(out)].length
         /\ e.over = TRUE /\ e.got = out[Len(out)].got /\ e.last = last
  BY EndLast
<1>2. PICK e \in AnswerType :
         /\ [out EXCEPT ![Len(out)].over = TRUE, ![Len(out)].last = last]
              = [out EXCEPT ![Len(out)] = e]
         /\ e.code = out[Len(out)].code /\ e.over = TRUE /\ e.last = last
  BY <1>1, Zenon
<1>3. out' = [out EXCEPT ![Len(out)] = e]
  BY <1>2, Zenon
<1>4. /\ out' \in Seq(AnswerType) /\ Len(out') = Len(out) /\ out'[Len(out)] = e
      /\ \A k \in DOMAIN out : k # Len(out) => out'[k] = out[k]
  BY <1>3, LastChanged
<1>5. DOMAIN out' = DOMAIN out
  BY <1>4
<1>6. /\ out'[Len(out)].over /\ out'[Len(out)].last = last
      /\ out'[Len(out)].code = out[Len(out)].code
  BY <1>2, <1>4, Zenon
<1> QED BY <1>4, <1>5, <1>6 DEF Ends

(* to its end, which leaves room for another answer or is the last. *)
LEMMA EndKept ==
  ASSUME ConnectionAssumption, Base, Stream, Judged, Kept, KontResponseEnd
  PROVE  Kept'
<1>1. /\ up = TRUE /\ io.kont = "response_end" /\ io \in IoType /\ up' = up
      /\ keepalive' = keepalive + 1
      /\ io' = IF DoneConnection THEN Teardown ELSE NextRequest
  BY InMemory DEF KontResponseEnd, lifeVars
<1>2. out \in Seq(AnswerType) /\ out # << >> /\ Goes
  BY <1>1 DEF Base, AnswersOK, Kept
<1>3. PICK last \in BOOLEAN : last = DoneConnection
  BY DEF DoneConnection
<1>4. Ends(last)
  <2>1. out' = [out EXCEPT ![Len(out)].over = TRUE, ![Len(out)].last = last]
    BY <1>3, Zenon DEF KontResponseEnd
  <2> QED BY <1>2, <2>1, EndedLast
<1>5. io'.kont = IF last THEN "teardown" ELSE "request_line"
  BY <1>1, <1>3, WaitForFields, GoOnFields DEF Konts, Teardown, NextRequest
<1>6. MaxKeepalive \in Nat /\ keepalive \in 0..MaxKeepalive /\ keepalive < MaxKeepalive
  BY <1>2 DEF ConnectionAssumption, Kept, Goes
<1>7. keepalive' \in 0..MaxKeepalive
  BY <1>1, <1>6
<1>8. CASE last
  BY <1>5, <1>7, <1>8 DEF Kept
<1>9. CASE ~last
  <2>1. keepalive' < MaxKeepalive
    BY <1>1, <1>3, <1>6, <1>9 DEF DoneConnection
  <2>2. keepalive' = Len(out')
    BY <1>1, <1>2, <1>4, <1>6 DEF Goes, Ends
  <2>3. \A k \in DOMAIN out' : out'[k].over => ~out'[k].last
    BY <1>2, <1>4, <1>9 DEF Goes, Ends
  <2>4. Goes'
    BY <1>5, <1>9, <2>1, <2>2, <2>3 DEF Goes
  <2> QED BY <1>7, <2>4 DEF Kept
<1> QED BY <1>8, <1>9

(* Every step. *)
LEMMA StepKept ==
  ASSUME ConnectionAssumption, Base, Stream, Judged, Kept, [ConnectionNext]_connectionVars
  PROVE  Kept'
<1>0. io \in IoType /\ up \in BOOLEAN
  BY DEF Base, ConnectionInv, IoOK
<1>1. CASE Client \/ KontTeardown \/ UNCHANGED connectionVars
  <2>1. UNCHANGED <<io, keepalive, out, up>>
    BY <1>1 DEF Client, MakeRequest, SendToken, HalfClose, Reset, KontTeardown, ioVars, rspVars,
       lifeVars, connectionVars
  <2> QED BY <2>1 DEF Kept, Goes
<1>2. CASE OnAccept
  <2>1. io'.kont = "request_line_read" /\ keepalive' = 0 /\ out' = << >>
    BY <1>2 DEF OnAccept
  <2>2. MaxKeepalive \in Nat \ {0}
    BY DEF ConnectionAssumption
  <2>3. Goes' /\ keepalive' \in 0..MaxKeepalive
    BY <2>1, <2>2 DEF Goes
  <2> QED BY <2>3 DEF Kept
<1>3. CASE OnTimer \/ ReadEof \/ IoFails
  <2>1. up' = FALSE /\ keepalive' = keepalive
    BY <1>3 DEF OnTimer, ReadEof, IoFails, OnClose, rspVars
  <2> QED BY <2>1 DEF Kept
<1>4. CASE \/ KontRequestLineRead \/ KontRequestHeaderRead
           \/ KontRequestChunkedRead \/ KontRequestLengthRead
  <2>1. PICK kont \in ReadKonts \ {"teardown"},
             next \in {"request_line", "request_header", "request_chunked", "request_length"} :
          Read(kont, next)
    BY <1>4 DEF KontRequestLineRead, KontRequestHeaderRead, KontRequestChunkedRead,
       KontRequestLengthRead
  <2>2. io.kont = kont /\ io' = GoOn(next) /\ up' = up /\ UNCHANGED <<keepalive, out>>
    BY <2>1 DEF Read, Called, rspVars, lifeVars
  <2>3. io'.kont = next
    BY <1>0, <2>2, GoOnFields DEF Konts
  <2> QED BY <2>1, <2>2, <2>3, KeptStays
<1>5. CASE KontRequestLine
  <2>1. /\ io.kont = "request_line" /\ UNCHANGED <<keepalive, out, up>>
        /\ io' = WaitFor("READ", "request_line_read") \/ io' = GoOn("request_header")
    BY <1>5 DEF KontRequestLine, At, rspVars, lifeVars
  <2>2. io'.kont \in {"request_line_read", "request_header"}
    BY <1>0, <2>1, WaitForFields, GoOnFields DEF Konts
  <2> QED BY <2>1, <2>2, KeptStays
<1>6. CASE KontRequestHeader
  <2>1. /\ io.kont = "request_header" /\ UNCHANGED <<keepalive, out, up>>
        /\ \/ io' = WaitFor("READ", "request_header_read")
           \/ \E k \in {"response", BodyKont(req.r)} : io' = GoOn(k)
    BY <1>6 DEF KontRequestHeader, PrepareRequestBody, At, lifeVars
  <2>2. BodyKont(req.r) \in {"request_chunked", "request_length", "dispatch"}
    BY BodyKontValue
  <2>3. io'.kont \in {"request_header_read", "response", "request_chunked", "request_length",
                      "dispatch"}
    BY <1>0, <2>1, <2>2, WaitForFields, GoOnFields DEF Konts
  <2> QED BY <2>1, <2>3, KeptStays
<1>7. CASE KontRequestChunked
  <2>1. /\ io.kont = "request_chunked" /\ UNCHANGED <<keepalive, out, up>>
        /\ \/ io' = WaitFor("READ", "request_chunked_read")
           \/ \E k \in {"dispatch", "response"} : io' = GoOn(k)
    BY <1>7 DEF KontRequestChunked, At, lifeVars
  <2>2. io'.kont \in {"request_chunked_read", "dispatch", "response"}
    BY <1>0, <2>1, WaitForFields, GoOnFields DEF Konts
  <2> QED BY <2>1, <2>2, KeptStays
<1>8. CASE KontRequestLength
  <2>1. /\ io.kont = "request_length" /\ UNCHANGED <<keepalive, out, up>>
        /\ io' = WaitFor("READ", "request_length_read") \/ io' = GoOn("dispatch")
    BY <1>8 DEF KontRequestLength, At, rspVars, lifeVars
  <2>2. io'.kont \in {"request_length_read", "dispatch"}
    BY <1>0, <2>1, WaitForFields, GoOnFields DEF Konts
  <2> QED BY <2>1, <2>2, KeptStays
<1>9. CASE KontDispatch
  <2>1. io.kont = "dispatch" /\ UNCHANGED <<keepalive, out, up>> /\ io' = GoOn("response")
    BY <1>9 DEF KontDispatch, At, lifeVars
  <2>2. io'.kont = "response"
    BY <1>0, <2>1, GoOnFields DEF Konts
  <2> QED BY <2>1, <2>2, KeptStays
<1>10. CASE KontResponse
  <2>1. /\ io.kont = "response" /\ UNCHANGED <<keepalive, out, up>>
        /\ io' = WaitFor("WRITE", "response_header")
    BY <1>10 DEF KontResponse, At, lifeVars
  <2>2. io'.kont = "response_header"
    BY <1>0, <2>1, WaitForFields DEF Konts
  <2> QED BY <2>1, <2>2, KeptStays
<1>11. CASE KontResponseHeader
  BY <1>11, ResponseHeaderKept
<1>12. CASE KontResponseFileLength \/ KontResponseBodyLength
  BY <1>12, BodyKept
<1>13. CASE KontResponseEnd
  BY <1>13, EndKept
<1> QED
  BY <1>1, <1>2, <1>3, <1>4, <1>5, <1>6, <1>7, <1>8, <1>9, <1>10, <1>11, <1>12, <1>13, Zenon
  DEF ConnectionNext, Server

(* At the start there is no client. *)
LEMMA ServiceInit ==
  ASSUME ConnectionAssumption, ConnectionInit
  PROVE  Judged /\ Typed /\ Kept
<1>1. Judged
  BY DEF ConnectionInit, Judged
<1>2. Typed
  <2>1. /\ buf = << >> /\ fd = NoFile /\ shut = FALSE /\ why = "none" /\ dec = FreshDecoders
        /\ rsp = FreshResponse /\ wr = [pos |-> 0, size |-> 0]
    BY DEF ConnectionInit
  <2>2. Len(buf) <= BufferSize
    BY <2>1 DEF ConnectionAssumption
  <2>3. dec \in DecType /\ rsp.size \in Nat /\ wr \in Sizes
    BY <2>1 DEF FreshDecoders, DecType, FreshResponse, Sizes
  <2> QED BY <2>1, <2>2, <2>3 DEF Typed
<1>3. Kept
  BY DEF ConnectionInit, ConnectionAssumption, Kept
<1> QED BY <1>1, <1>2, <1>3

(* For any requests, buffers, pages and numbers of clients. *)
Service == Base /\ Stream /\ Judged /\ Typed /\ Kept

(* All of it holds, for any requests, buffers, pages and numbers of        *)
(* clients.                                                                *)
LEMMA ServiceInvariant ==
  ASSUME LengthsTold, PostsAlone
  PROVE  ConnectionSpec => []Service
<1>1. ConnectionInit => Judged /\ Typed /\ Kept
  BY ServiceInit, ConnectionAssumption
<1>2. /\ Base /\ Stream /\ Judged /\ Typed /\ Kept /\ [ConnectionNext]_connectionVars
        => Judged' /\ Typed' /\ Kept'
  <2>1. Typed => dec \in DecType
    BY DEF Typed
  <2> QED BY <2>1, StepJudged, StepTyped, StepKept, ConnectionAssumption
<1>3. Base /\ Stream /\ Judged /\ Typed /\ Kept <=> Service
  BY DEF Service
<1> QED BY <1>1, <1>2, <1>3, StreamInvariant, PTL DEF ConnectionSpec

(* The connection's state is of its type: the buffer never holds more than *)
(* fits, the sizes and the number of answers stay within their bounds, and *)
(* there is never an answer without a request.                             *)
THEOREM ConnectionTyped ==
  ASSUME LengthsTold, PostsAlone
  PROVE  ConnectionSpec => []ConnectionTypeOK
<1>1. Service => ConnectionTypeOK
  <2> SUFFICES ASSUME Service PROVE ConnectionTypeOK
    OBVIOUS
  <2>1. up \in BOOLEAN /\ io \in IoType /\ Len(out) <= Len(sent)
    BY DEF Service, Base, ConnectionInv, IoOK, Stream, OrderOK
  <2>2. io.ready \in BOOLEAN /\ io.mask \in {"none", "READ", "WRITE"}
    BY <2>1 DEF IoType
  <2>3. Len(buf) <= BufferSize /\ fd \in Nat \cup {NoFile} /\ shut \in BOOLEAN
        /\ why \in {"none", "eof", "error", "timeout"} /\ dec \in DecType /\ wr \in Sizes
    BY DEF Service, Typed
  <2>4. /\ \A d \in {"line", "head", "chunk"} : dec[d] \in {"partial", "good", "bad"}
        /\ wr.pos \in Nat /\ wr.size \in Nat
    BY <2>3 DEF DecType, Sizes
  <2>5. keepalive \in 0..MaxKeepalive
    BY DEF Service, Kept
  <2> QED BY <2>1, <2>2, <2>3, <2>4, <2>5 DEF ConnectionTypeOK
<1> QED BY <1>1, ServiceInvariant, PTL

-----------------------------------------------------------------------------
(* What the client was told: of the answers all but the last are over.     *)
InTurn(o) == o \in Seq(AnswerType) /\ \A k \in DOMAIN o : k < Len(o) => o[k].over
Closed(o) == IF o = << >> \/ o[Len(o)].over THEN Len(o) ELSE Len(o) - 1
Said(o)   == [k \in 1..Closed(o) |-> [code |-> o[k].code, last |-> o[k].last]]
Told      == [k \in 1..Answered |-> [code |-> out[k].code, last |-> out[k].last]]

(* The answers that are over are those up to the last, or to the one       *)
(* before.                                                                 *)
LEMMA ClosedCounts ==
  ASSUME NEW o, InTurn(o)
  PROVE  Cardinality({k \in DOMAIN o : o[k].over}) = Closed(o) /\ Closed(o) \in 0..Len(o)
<1>1. o \in Seq(AnswerType) /\ Len(o) \in Nat /\ DOMAIN o = 1..Len(o)
  BY DEF InTurn
<1>2. Closed(o) \in 0..Len(o)
  <2>1. o = << >> \/ Len(o) >= 1
    BY <1>1
  <2> QED BY <1>1, <2>1 DEF Closed
<1>3. PICK c : c = Closed(o)
  OBVIOUS
<1>0. PICK n \in Nat : n = Len(o)
  BY <1>1
<1>4. ASSUME NEW k \in 1..n
      PROVE  o[k].over <=> k <= c
  <2>1. k < n => o[k].over /\ k <= c
    BY <1>0, <1>1, <1>3, <1>4 DEF InTurn, Closed
  <2>2. k = n => (o[k].over <=> k <= c)
    BY <1>0, <1>1, <1>3, <1>4 DEF Closed
  <2>3. k < n \/ k = n
    BY <1>0, <1>4
  <2> QED BY <2>1, <2>2, <2>3
<1>5. {k \in DOMAIN o : o[k].over} = 1..c
  BY <1>0, <1>1, <1>2, <1>3, <1>4
<1>6. c \in Nat
  BY <1>1, <1>2, <1>3
<1> QED BY <1>2, <1>3, <1>5, <1>6, CountUpTo

(* What the client was told is what the answers say, now *)
LEMMA TurnsAre ==
  ASSUME Base
  PROVE  InTurn(out) /\ Told = Said(out)
<1>1. InTurn(out)
  BY DEF Base, AnswersOK, AnswerOK, InTurn
<1>2. Answered = Closed(out)
  BY <1>1, ClosedCounts DEF Answered
<1> QED BY <1>1, <1>2 DEF Told, Said

(* and after the step. *)
LEMMA TurnsNext ==
  ASSUME Base'
  PROVE  InTurn(out') /\ Told' = Said(out')
<1>1. InTurn(out')
  BY DEF Base, AnswersOK, AnswerOK, InTurn
<1>2. Answered' = Closed(out')
  BY <1>1, ClosedCounts DEF Answered
<1> QED BY <1>1, <1>2 DEF Told, Said

(* An answer that begins, and what is sent of its body, say nothing yet. *)
LEMMA BegunSaysNothing ==
  ASSUME NEW o, InTurn(o), Closed(o) = Len(o), NEW e, ~e.over, NEW p, p = Append(o, e)
  PROVE  Said(p) = Said(o)
<1>1. o \in Seq(AnswerType) /\ Len(o) \in Nat
  BY DEF InTurn
<1>2. p # << >> /\ Len(p) = Len(o) + 1 /\ p[Len(p)] = e /\ \A k \in 1..Len(o) : p[k] = o[k]
  BY <1>1
<1>3. Closed(p) = Closed(o)
  BY <1>1, <1>2 DEF Closed
<1> QED BY <1>2, <1>3 DEF Said

(* nor does what is sent of its body. *)
LEMMA SentSaysNothing ==
  ASSUME NEW o, InTurn(o), o # << >>, NEW p, p # << >>, Len(p) = Len(o),
         \A k \in DOMAIN o : /\ p[k].code = o[k].code /\ p[k].over = o[k].over
                             /\ p[k].last = o[k].last
  PROVE  Said(p) = Said(o)
<1>1. o \in Seq(AnswerType) /\ Len(o) \in Nat /\ DOMAIN o = 1..Len(o) /\ Len(o) >= 1
  BY DEF InTurn
<1>2. Closed(p) = Closed(o)
  <2>1. Len(o) \in DOMAIN o
    BY <1>1
  <2>2. p[Len(p)].over = o[Len(o)].over
    BY <2>1, Zenon
  <2> QED BY <2>2, Zenon DEF Closed
<1>3. 1..Closed(o) \subseteq DOMAIN o
  <2>1. Closed(o) \in 0..Len(o)
    BY ClosedCounts
  <2> QED BY <1>1, <2>1
<1>4. PICK c : c = Closed(o)
  OBVIOUS
<1>5. \A k \in 1..c : p[k].code = o[k].code /\ p[k].last = o[k].last
  BY <1>3, <1>4
<1>6. Said(o) = [k \in 1..c |-> [code |-> o[k].code, last |-> o[k].last]]
  BY <1>4, Zenon DEF Said
<1>7. Said(p) = [k \in 1..c |-> [code |-> p[k].code, last |-> p[k].last]]
  BY <1>2, <1>4, Zenon DEF Said
<1> QED BY <1>5, <1>6, <1>7

(* The end of an answer tells its status, and whether it is the last. *)
LEMMA EndSays ==
  ASSUME InTurn(out), out # << >>, ~out[Len(out)].over, NEW last \in BOOLEAN, Ends(last)
  PROVE  /\ Len(Said(out)) = Len(out) - 1
         /\ Said(out') = Append(Said(out), [code |-> out[Len(out)].code, last |-> last])
<1>0. PICK n \in Nat : n = Len(out)
  BY DEF InTurn
<1>1. n >= 1 /\ DOMAIN out = 1..n
  BY <1>0 DEF InTurn
<1>2. Closed(out) = n - 1 /\ Closed(out') = n
  BY <1>0, <1>1 DEF Closed, Ends
<1>3. PICK m \in Nat : m = n - 1
  BY <1>1
<1>4. PICK s : s = Said(out)
  OBVIOUS
<1>5. PICK t : t = Said(out')
  OBVIOUS
<1>6. s = [k \in 1..m |-> [code |-> out[k].code, last |-> out[k].last]]
  BY <1>2, <1>3, <1>4, Zenon DEF Said
<1>7. t = [k \in 1..n |-> [code |-> out'[k].code, last |-> out'[k].last]]
  BY <1>2, <1>5, Zenon DEF Said
<1>8. out'[n].code = out[n].code /\ out'[n].last = last
      /\ \A k \in 1..m : out'[k] = out[k]
  BY <1>0, <1>1, <1>3 DEF Ends
<1>9. PICK x : x = [code |-> out[n].code, last |-> last]
  OBVIOUS
<1>10. PICK S : s \in Seq(S) /\ x \in S /\ Len(s) = m
  <2>1. s \in Seq({s[k] : k \in 1..m} \cup {x}) /\ Len(s) = m
    BY <1>6
  <2> QED BY <2>1
<1>11. t = [k \in 1..n |-> IF k = n THEN x ELSE s[k]]
  BY <1>3, <1>6, <1>7, <1>8, <1>9
<1>12. t = Append(s, x)
  <2>1. t \in Seq(S) /\ Len(t) = n
    BY <1>3, <1>10, <1>11
  <2>2. /\ Append(s, x) \in Seq(S) /\ Len(Append(s, x)) = n
        /\ Append(s, x)[n] = x /\ \A k \in 1..m : Append(s, x)[k] = s[k]
    BY <1>1, <1>3, <1>10
  <2>3. \A k \in 1..n : t[k] = Append(s, x)[k]
    BY <1>3, <1>11, <2>2
  <2> QED BY <2>1, <2>2, <2>3, SeqEqual
<1>13. x = [code |-> out[Len(out)].code, last |-> last]
  BY <1>0, <1>9, Zenon
<1>14. Len(s) = Len(out) - 1
  BY <1>0, <1>3, <1>10
<1> QED BY <1>4, <1>5, <1>12, <1>13, <1>14, Zenon

(* An answer that ends is the answer its request deserves, in its turn. *)
LEMMA EndGives ==
  ASSUME ConnectionAssumption, Base, Base', Stream, Judged, Kept, KontResponseEnd
  PROVE  Session!GiveAnswer
<1>1. up = TRUE /\ io.kont = "response_end" /\ UNCHANGED <<sent, up>>
  BY InMemory DEF KontResponseEnd, clientVars, lifeVars
<1>2. /\ out \in Seq(AnswerType) /\ out # << >> /\ req.n = Len(out) /\ Len(out) <= Len(sent)
      /\ Goes /\ Fitting /\ out[Len(out)].code = rsp.code /\ ~out[Len(out)].over
  BY <1>1 DEF Base, AnswersOK, Stream, OrderOK, Judged, Answering, AnswerKonts, Kept
<1>3. PICK n \in Nat : n = Len(out)
  BY <1>2
<1>4. n >= 1 /\ n <= Len(sent) /\ sent[n] = req.r /\ sent \in Seq(RequestType)
  BY <1>1, <1>2, <1>3 DEF Base, ConnectionInv, StreamOK, Early
<1>5. PICK last \in BOOLEAN : last = DoneConnection
  BY DEF DoneConnection
<1>6. Ends(last)
  <2>1. out' = [out EXCEPT ![Len(out)].over = TRUE, ![Len(out)].last = last]
    BY <1>5, Zenon DEF KontResponseEnd
  <2> QED BY <1>2, <2>1, EndedLast
<1>7. InTurn(out) /\ Told = Said(out) /\ Told' = Said(out')
  BY TurnsAre, TurnsNext
<1>8. PICK c : c = rsp.code
  OBVIOUS
<1>9. Len(Told) = n - 1 /\ Told' = Append(Told, [code |-> c, last |-> last])
  BY <1>2, <1>3, <1>6, <1>7, <1>8, EndSays
<1>10. Len(Told) + 1 = n /\ Len(Told) < Len(sent)
  BY <1>3, <1>4, <1>9
<1>11. Len(Told) < MaxKeepalive
  BY <1>1, <1>2, <1>3, <1>9 DEF Goes
<1>12. \A k \in DOMAIN Told : ~Told[k].last
  <2>1. PICK m \in Nat : m = n - 1
    BY <1>4
  <2>2. Closed(out) = m
    BY <1>2, <1>3, <2>1 DEF Closed
  <2>3. Told = [k \in 1..m |-> [code |-> out[k].code, last |-> out[k].last]]
    BY <1>7, <2>2, Zenon DEF Said
  <2>4. \A k \in 1..m : ~out[k].last
    BY <1>2, <1>3, <1>7, <2>1 DEF Goes, InTurn
  <2> QED BY <2>3, <2>4
<1>13. c \in Deserves(sent[n]) /\ (EndsSession(sent[n]) => last)
  <2>1. EndsSession(req.r) => DoneConnection
    BY <1>2 DEF EndsSession, Fitting, DoneConnection
  <2> QED BY <1>2, <1>4, <1>5, <1>8, <2>1 DEF Fitting
<1>14. c \in Deserves(sent[Len(Told) + 1]) /\ (EndsSession(sent[Len(Told) + 1]) => last)
  BY <1>10, <1>13, Zenon
<1> QED BY <1>1, <1>9, <1>10, <1>11, <1>12, <1>14, Zenon DEF Session!GiveAnswer, Told

(* Every step is one of the session, or none. *)
LEMMA StepSession ==
  ASSUME ConnectionAssumption, Base, Base', Stream, Judged, Kept,
         [ConnectionNext]_connectionVars
  PROVE  [Session!SessionNext]_(Session!sessionVars)
<1> DEFINE Silent == UNCHANGED <<sent, up>> /\ Said(out') = Said(out)
<1>0. InTurn(out) /\ Told = Said(out) /\ Told' = Said(out')
  BY TurnsAre, TurnsNext
<1>1. ASSUME Silent
      PROVE  UNCHANGED Session!sessionVars
  <2>1. Told' = Told /\ sent' = sent /\ up' = up
    BY <1>0, <1>1
  <2> QED BY <2>1, Zenon DEF Told, Session!sessionVars
<1>2. CASE MakeRequest
  <2>1. PICK r \in Requests : sent' = Append(sent, r)
    BY <1>2 DEF MakeRequest
  <2>2. up /\ up' = up /\ out' = out
    BY <1>2 DEF MakeRequest, ClientTurn, lifeVars
  <2>3. Told' = Told
    BY <1>0, <2>2
  <2>4. Session!MakeRequest
    BY <2>1, <2>2, <2>3, Zenon DEF Told, Session!MakeRequest
  <2> QED BY <2>4 DEF Session!SessionNext
<1>3. CASE OnAccept
  <2>1. ~up /\ up' = TRUE /\ sent' = << >> /\ out' = << >>
    BY <1>3 DEF OnAccept
  <2>2. Told' = << >>
    <3>1. Closed(out') = 0
      BY <2>1 DEF Closed
    <3>2. Said(out') = [k \in 1..0 |-> [code |-> out'[k].code, last |-> out'[k].last]]
      BY <3>1, Zenon DEF Said
    <3>3. Said(out') = << >>
      BY <3>2
    <3> QED BY <1>0, <3>3
  <2>3. Session!NewClient
    BY <2>1, <2>2, Zenon DEF Told, Session!NewClient
  <2> QED BY <2>3 DEF Session!SessionNext
<1>4. CASE OnTimer \/ ReadEof \/ IoFails
  <2>1. up /\ up' = FALSE /\ UNCHANGED <<sent, out>>
    BY <1>4 DEF OnTimer, ReadEof, IoFails, OnClose, Called, clientVars
  <2>2. Told' = Told
    BY <1>0, <2>1
  <2>3. Session!HangUp
    BY <2>1, <2>2, Zenon DEF Told, Session!HangUp
  <2> QED BY <2>3 DEF Session!SessionNext
<1>5. CASE \/ SendToken \/ HalfClose \/ Reset \/ KontTeardown \/ UNCHANGED connectionVars
           \/ KontRequestLine \/ KontRequestHeader \/ KontRequestChunked \/ KontRequestLength
           \/ KontDispatch \/ KontResponse
  <2>1. UNCHANGED <<sent, up, out>>
    BY <1>5 DEF SendToken, HalfClose, Reset, KontTeardown, KontRequestLine, KontRequestHeader,
       KontRequestChunked, KontRequestLength, KontDispatch, KontResponse, clientVars, lifeVars,
       connectionVars
  <2> QED BY <1>1, <2>1
<1>6. CASE \/ KontRequestLineRead \/ KontRequestHeaderRead
           \/ KontRequestChunkedRead \/ KontRequestLengthRead
  <2>1. \E kont, next : Read(kont, next)
    BY <1>6, Zenon DEF KontRequestLineRead, KontRequestHeaderRead, KontRequestChunkedRead,
       KontRequestLengthRead
  <2>2. UNCHANGED <<sent, up, out>>
    BY <2>1 DEF Read, lifeVars
  <2> QED BY <1>1, <2>2
<1>7. CASE KontResponseHeader
  <2>1. peer # "reset" /\ Called("response_header")
    BY <1>7 DEF KontResponseHeader, Written
  <2>2. /\ up = TRUE /\ io.kont = "response_header" /\ UNCHANGED <<sent, up>>
        /\ out' = out \/ out' = Append(out, HeaderSent)
    BY <1>7, <2>1, AtCall DEF KontResponseHeader, clientVars, lifeVars
  <2>3. out # << >> => out[Len(out)].over
    BY <2>2 DEF Base, AnswersOK
  <2>4. Closed(out) = Len(out) /\ ~HeaderSent.over
    BY <2>3 DEF Closed, HeaderSent
  <2>5. Said(out') = Said(out)
    BY <1>0, <2>2, <2>4, BegunSaysNothing
  <2> QED BY <1>1, <2>2, <2>5
<1>8. CASE KontResponseFileLength \/ KontResponseBodyLength
  <2>1. PICK k \in {"response_file_length", "response_body_length"} :
          Called(k) /\ peer # "reset"
    BY <1>8 DEF KontResponseFileLength, KontResponseBodyLength, Written
  <2>2. up = TRUE /\ io.kont = k
    BY <2>1, AtCall
  <2>3. out' = out \/ \E n \in Int : out' = BodySent(n)
    <3>1. 1..BufferSize \subseteq Int /\ 1..PageSize \subseteq Int
      BY DEF ConnectionAssumption
    <3> QED BY <1>8, <3>1, Zenon DEF KontResponseFileLength, KontResponseBodyLength
  <2>4. out \in Seq(AnswerType) /\ out # << >> /\ UNCHANGED <<sent, up>>
    BY <1>8, <2>2 DEF Base, AnswersOK, KontResponseFileLength, KontResponseBodyLength, clientVars,
       lifeVars
  <2>5. Said(out') = Said(out)
    <3>1. CASE \E n \in Int : out' = BodySent(n)
      <4>1. /\ Len(out') = Len(out) /\ out' # << >>
            /\ \A j \in DOMAIN out : /\ out'[j].code = out[j].code
                                     /\ out'[j].over = out[j].over
                                     /\ out'[j].last = out[j].last
        BY <2>4, <3>1, SentKeeps
      <4> QED BY <1>0, <2>4, <4>1, SentSaysNothing
    <3> QED BY <2>3, <3>1
  <2> QED BY <1>1, <2>4, <2>5
<1>9. CASE KontResponseEnd
  BY <1>9, EndGives DEF Session!SessionNext
<1> QED
  BY <1>1, <1>2, <1>3, <1>4, <1>5, <1>6, <1>7, <1>8, <1>9, Zenon
  DEF ConnectionNext, Client, Server

(* There is no client, and no answer. *)
LEMMA SessionStarts ==
  ASSUME ConnectionInit, Base
  PROVE  Session!SessionInit
<1>1. sent = << >> /\ out = << >> /\ up = FALSE
  BY DEF ConnectionInit
<1>2. Told = << >>
  <2>1. Told = Said(out) /\ Closed(out) = 0
    BY <1>1, TurnsAre DEF Closed
  <2>2. Told = [k \in 1..0 |-> [code |-> out[k].code, last |-> out[k].last]]
    BY <2>1, Zenon DEF Said
  <2> QED BY <2>2
<1> QED BY <1>1, <1>2, Zenon DEF Told, Session!SessionInit

(* The connection implements HttpSession for any requests, reads, buffers, *)
(* files and numbers of requests and clients: the requests are answered    *)
(* one at a time and in order, each with a status it deserves, an error    *)
(* that must end the connection ends it, and nothing follows the last.     *)
THEOREM ConnectionIsASession ==
  ASSUME LengthsTold, PostsAlone
  PROVE  ConnectionSpec => ImplementsSession
<1>1. ConnectionInit /\ Service => Session!SessionInit
  BY SessionStarts DEF Service
<1>2. Service /\ Service' /\ [ConnectionNext]_connectionVars
        => [Session!SessionNext]_(Session!sessionVars)
  BY StepSession, ConnectionAssumption DEF Service
<1> QED
  BY <1>1, <1>2, ServiceInvariant, PTL DEF ConnectionSpec, ImplementsSession, Session!SessionSpec
=============================================================================
