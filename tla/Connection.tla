----------------------------- MODULE Connection -----------------------------
(***************************************************************************)
(* connection_type (http-connection.cpp): the continuations that read a    *)
(* request, dispatch it to a handler (handler.cpp, handler-file.cpp,       *)
(* handler-test.cpp) and write the response, one connection object with    *)
(* the clients it serves one after the other.                              *)
(*                                                                         *)
(* A request travels as tokens: its line, its header fields, the pieces of *)
(* its body, the end of its chunks.  The decoders take whole tokens, so    *)
(* that `partial` means: the token has not arrived.  A read returns any    *)
(* prefix of what the socket holds, up to BufferSize tokens; a write takes *)
(* any part of what it is given.  EAGAIN and EINTR leave the connection as *)
(* it is, to be called again (module TcpServer); they are no step here.    *)
(*                                                                         *)
(* iotransfer runs continuations while `io.ready`; when it is FALSE the    *)
(* connection is back in the server's loop, which calls it for the events  *)
(* of `io.mask`.  The client takes no step in between: the continuations   *)
(* that run there touch the server's memory only.                          *)
(***************************************************************************)
EXTENDS Integers, Sequences, FiniteSets, SequencesExt

CONSTANTS Requests,       \* the requests a client may make (RequestType)
          Pipelined,      \* those the next request may follow at once
          FileSizes,      \* sizes of the static files there are
          BufferSize,     \* BUFFER_SIZE, in tokens
          HeaderSize,     \* size of a response header, in writes
          PageSize,       \* size of a page a handler builds
          MaxKeepalive,   \* MAX_KEEPALIVE_REQUESTS
          MaxRequests,    \* bound: requests per client
          Repeated,       \* bound: those of clients that make more than two
          MaxClients,     \* bound: clients of this connection object
          FileChanges     \* may a file change between stat () and sendfile ()?

(* What the server distinguishes about a request.  te and cl are the       *)
(* fields transfer-encoding and content-length: "torn" is chunked with a   *)
(* coding error after the `size` pieces of the body.  cond is what the     *)
(* file's condition_type::check finds.                                     *)
RequestType ==
  [line : {"good", "bad"}, fields : {"good", "bad"}, version : {10, 11},
   host : BOOLEAN, method : {"GET", "HEAD", "POST", "PUT", "DELETE"},
   uri : {"test", "file", "none"}, te : {"none", "chunked", "torn", "other", "bad"},
   cl : {"none", "good", "bad", "big"}, size : Nat,
   conn : {"none", "close", "keep-alive"}, cond : {200, 304, 412}]

ASSUME ConnectionAssumption ==
  /\ Requests \subseteq RequestType
  /\ Pipelined \subseteq Requests /\ Repeated \subseteq Requests
  /\ FileSizes \subseteq Nat
  /\ {BufferSize, HeaderSize, PageSize, MaxKeepalive} \subseteq Nat \ {0}
  /\ {MaxRequests, MaxClients} \subseteq Nat /\ FileChanges \in BOOLEAN

VARIABLES
  io,          \* kont, kont_ready and iowait_mask
  buf,         \* the rest of rdbuf, from rdpos to rdsize
  dec,         \* the decoders: "partial", "good" or "bad"
  req,         \* request: the number and fields it was decoded from, its body
  rsp,         \* response
  fd,          \* response.body_fd: what is left to send of the open file
  wr,          \* wrpos and wrsize
  keepalive,   \* keepalive_requests
  up,          \* is there a client on this connection?
  rx,          \* the client's tokens in the socket
  todo,        \* the rest of the request that the client is sending
  sent,        \* the requests of this client so far
  peer,        \* the client's side: "open", "fin" (half closed) or "reset"
  out,         \* what the client was answered so far
  shut,        \* shutdown (SHUT_WR) done?
  why,         \* why the last client's connection ended
  clients,     \* clients so far
  files        \* history: file descriptors open, and lost by a close

ioVars     == <<io, buf, dec, req>>
rspVars    == <<rsp, fd, wr, keepalive>>
clientVars == <<rx, todo, sent, peer>>
lifeVars   == <<up, why, clients>>
connectionVars == <<ioVars, rspVars, clientVars, lifeVars, out, shut, files>>

NoFile    == -1
NoLength  == -1
NoRequest == [n |-> 0, r |-> [line |-> "none"], body |-> << >>]

(* response.clear () *)
FreshResponse == [version |-> 11, code |-> 500, close |-> FALSE, length |-> NoLength,
                  size |-> 0, has_body |-> FALSE]
FreshDecoders == [line |-> "partial", head |-> "partial", chunk |-> "partial"]
Idle          == [kont |-> "none", ready |-> FALSE, mask |-> "none"]

ConnectionInit ==
  /\ io = Idle /\ buf = << >> /\ dec = FreshDecoders /\ req = NoRequest
  /\ rsp = FreshResponse /\ fd = NoFile /\ wr = [pos |-> 0, size |-> 0] /\ keepalive = 0
  /\ up = FALSE /\ why = "none" /\ clients = 0
  /\ rx = << >> /\ todo = << >> /\ sent = << >> /\ peer = "open"
  /\ out = << >> /\ shut = FALSE
  /\ files = [open |-> 0, lost |-> 0]

-----------------------------------------------------------------------------
(* The client.                                                             *)
Tok(n, part, r) == [n |-> n, part |-> part, r |-> r]

Tokens(n, r) ==
  <<Tok(n, "line", r), Tok(n, "header", r)>>
  \o [i \in 1..r.size |-> Tok(n, "body", r)]
  \o (IF r.te \in {"chunked", "torn"} THEN <<Tok(n, "end", r)>> ELSE << >>)

Answered == Cardinality({k \in DOMAIN out : out[k].over})

ClientTurn == up /\ ~io.ready

MakeRequest ==
  /\ ClientTurn /\ peer = "open" /\ todo = << >>
  /\ Len(sent) < MaxRequests
  /\ Answered = Len(sent) \/ (sent # << >> /\ Last(sent) \in Pipelined)
  /\ \E r \in Requests :
       /\ Len(sent) < 2 \/ ToSet(Append(sent, r)) \subseteq Repeated
       /\ sent' = Append(sent, r)
       /\ todo' = Tokens(Len(sent) + 1, r)
  /\ UNCHANGED <<ioVars, rspVars, lifeVars, rx, peer, out, shut, files>>

SendToken ==
  /\ ClientTurn /\ peer = "open" /\ todo # << >>
  /\ rx' = Append(rx, Head(todo)) /\ todo' = Tail(todo)
  /\ UNCHANGED <<ioVars, rspVars, lifeVars, sent, peer, out, shut, files>>

HalfClose ==
  /\ ClientTurn /\ peer = "open"
  /\ peer' = "fin"
  /\ UNCHANGED <<ioVars, rspVars, lifeVars, rx, todo, sent, out, shut, files>>

Reset ==
  /\ ClientTurn /\ peer # "reset"
  /\ peer' = "reset" /\ rx' = << >>
  /\ UNCHANGED <<ioVars, rspVars, lifeVars, todo, sent, out, shut, files>>

Client == MakeRequest \/ SendToken \/ HalfClose \/ Reset

-----------------------------------------------------------------------------
(* on_accept and clear (): a new client on this object.  response.clear () *)
(* forgets body_fd.                                                        *)
OnAccept ==
  /\ ~up /\ clients < MaxClients
  /\ clients' = clients + 1 /\ up' = TRUE /\ why' = "none"
  /\ keepalive' = 0 /\ buf' = << >> /\ req' = NoRequest
  /\ rsp' = FreshResponse /\ fd' = NoFile /\ dec' = FreshDecoders
  /\ io' = [kont |-> "request_line_read", ready |-> FALSE, mask |-> "READ"]
  /\ rx' = << >> /\ todo' = << >> /\ sent' = << >> /\ peer' = "open"
  /\ out' = << >> /\ shut' = FALSE
  /\ UNCHANGED <<wr, files>>

(* on_close, by remove_handler: the socket is closed, a file that is being *)
(* sent is not.                                                            *)
OnClose(reason) ==
  /\ up' = FALSE /\ why' = reason
  /\ io' = [io EXCEPT !.kont = "none", !.ready = FALSE]
  /\ files' = [files EXCEPT !.lost = @ + IF fd = NoFile THEN 0 ELSE 1]
  /\ UNCHANGED <<buf, dec, req, rspVars, clientVars, clients, out, shut>>

OnTimer == up /\ ~io.ready /\ OnClose("timeout")

-----------------------------------------------------------------------------
(* iocontinue: with a mask the connection waits, without one it goes on.   *)
WaitFor(mask, kont) == [kont |-> kont, ready |-> FALSE, mask |-> mask]
GoOn(kont)          == [io EXCEPT !.kont = kont, !.ready = TRUE]

At(kont) == up /\ io.ready /\ io.kont = kont

(* on_read and on_write: the server calls for the events of the mask, and  *)
(* the continuation makes its system call.                                 *)
Called(kont) ==
  /\ up /\ ~io.ready /\ io.kont = kont
  /\ \/ io.mask = "READ" /\ (rx # << >> \/ peer # "open")
     \/ io.mask = "WRITE"

(* write (sock, ...) took n of what was to be written. *)
Written(n)     == n \in 1..(wr.size - wr.pos) /\ peer # "reset"
WrittenAll(n)  == wr.pos + n = wr.size

ReadKonts  == {"request_line_read", "request_header_read", "request_chunked_read",
               "request_length_read", "teardown"}
WriteKonts == {"response_header", "response_file_length", "response_body_length"}

(* The system call fails, or reads the end of the input: remove_handler. *)
ReadEof    == /\ \E k \in ReadKonts : Called(k)
              /\ rx = << >> /\ peer = "fin"
              /\ OnClose("eof")
IoFails    == /\ \E k \in ReadKonts \cup WriteKonts : Called(k)
              /\ peer = "reset"
              /\ OnClose("error")

(* read_with_kontinuation: the buffer is overwritten. *)
Read(kont, next) ==
  /\ Called(kont)
  /\ \E n \in 1..BufferSize :
       /\ n <= Len(rx)
       /\ buf' = SubSeq(rx, 1, n) /\ rx' = SubSeq(rx, n + 1, Len(rx))
  /\ io' = GoOn(next)
  /\ UNCHANGED <<dec, req, rspVars, lifeVars, todo, sent, peer, out, shut, files>>

KontRequestLineRead    == Read("request_line_read", "request_line")
KontRequestHeaderRead  == Read("request_header_read", "request_header")
KontRequestChunkedRead == Read("request_chunked_read", "request_chunked")
KontRequestLengthRead  == Read("request_length_read", "request_length")

-----------------------------------------------------------------------------
(* Handlers.  A page is built in memory; error_end starts its header       *)
(* afresh, and these codes end the connection.                             *)
Page(code, close) ==
  [rsp EXCEPT !.code = code, !.close = close, !.length = PageSize, !.size = PageSize]

ErrorPage(code) == Page(code, code \in {400, 413, 415})

(* handler_test_type: get (for HEAD too) and post; put is not allowed. *)
TestPage(r) ==
  IF r.method \in {"GET", "HEAD", "POST"} THEN Page(200, FALSE) ELSE ErrorPage(405)

(* handler_file_type: what get makes of a file of `size`, which open       *)
(* finds when `opens`; precondition_failed sends 411.                      *)
FileHeader(code, size) == [rsp EXCEPT !.code = code, !.length = size]

FileFound(r) == r.method \in {"GET", "HEAD"} /\ r.uri = "file"

FilePage(r, size, opens) ==
  IF r.cond = 412 THEN ErrorPage(411)
  ELSE IF r.cond = 304 THEN FileHeader(304, size)
  ELSE IF r.method = "HEAD" \/ opens THEN FileHeader(200, size) ELSE ErrorPage(404)

BodyFd(r, size, opens) ==
  IF r.cond # 200 \/ r.method = "HEAD" \/ ~opens THEN {NoFile}
  ELSE IF FileChanges THEN FileSizes ELSE {size}

-----------------------------------------------------------------------------
(* The request.                                                            *)
KontRequestLine ==
  /\ At("request_line")
  /\ \/ /\ buf = << >>
        /\ io' = WaitFor("READ", "request_line_read")
        /\ UNCHANGED <<buf, dec, req>>
     \/ /\ buf # << >>
        /\ LET t == Head(buf)
           IN  /\ dec' = [dec EXCEPT !.line = IF t.part = "line" THEN t.r.line ELSE "bad"]
               /\ req' = [n |-> t.n, r |-> t.r, body |-> << >>]
        /\ buf' = Tail(buf)
        /\ io' = GoOn("request_header")
  /\ UNCHANGED <<rspVars, clientVars, lifeVars, out, shut, files>>

(* prepare_request_body, prepare_request_chunked, prepare_request_length:  *)
(* refused with an error page, or a body to come, or none.                 *)
BadHeader(r, line, head) == line = "bad" \/ head = "bad" \/ (r.version >= 11 /\ ~r.host)

LengthRefusal(r) ==
  IF r.cl = "bad" THEN 400
  ELSE IF r.cl = "big" \/ (r.cl = "good" /\ r.method \notin {"POST", "PUT"}) THEN 413 ELSE 0

Refusal(r, line, head) ==
  IF BadHeader(r, line, head) \/ r.te = "bad" THEN 400
  ELSE IF r.te = "other" THEN 415
  ELSE IF r.te = "none" THEN LengthRefusal(r) ELSE 0

BodyKont(r) ==
  IF r.te \in {"chunked", "torn"} THEN "request_chunked"
  ELSE IF r.te = "none" /\ r.cl = "good" THEN "request_length" ELSE "dispatch"

PrepareRequestBody(line, head) ==
  LET code == Refusal(req.r, line, head)
      page == IF code = 0 THEN rsp ELSE ErrorPage(code)
  IN  /\ rsp' = IF BadHeader(req.r, line, head) THEN page
                ELSE [page EXCEPT !.version = req.r.version]
      /\ io' = GoOn(IF code # 0 THEN "response" ELSE BodyKont(req.r))

(* After a bad line the decoder of the header gets the rest of the line,   *)
(* and may refuse that at once.                                            *)
KontRequestHeader ==
  /\ At("request_header")
  /\ \/ /\ buf = << >>
        /\ io' = WaitFor("READ", "request_header_read")
        /\ UNCHANGED <<buf, dec, rsp>>
     \/ /\ buf # << >>
        /\ LET head == IF Head(buf).part = "header" THEN Head(buf).r.fields ELSE "bad"
           IN  dec' = [dec EXCEPT !.head = head] /\ PrepareRequestBody(dec.line, head)
        /\ buf' = Tail(buf)
     \/ /\ dec.line = "bad"
        /\ dec' = [dec EXCEPT !.head = "bad"]
        /\ PrepareRequestBody(dec.line, "bad")
        /\ UNCHANGED buf
  /\ UNCHANGED <<req, fd, wr, keepalive, clientVars, lifeVars, out, shut, files>>

(* The chunk decoder stops after the last chunk, or at a coding error. *)
InBody(part) == \A i \in DOMAIN part : part[i].part = "body"
EndsBody(e)  == buf[e].part # "body" /\ InBody(SubSeq(buf, 1, e - 1))

(* Wrong variant of ChunkRest: what follows the last chunk is dropped. *)
ChunkRestDropped(e) == << >>

ChunkRest(e) == SubSeq(buf, e + 1, Len(buf))

KontRequestChunked ==
  /\ At("request_chunked")
  /\ \/ /\ InBody(buf)
        /\ req' = [req EXCEPT !.body = @ \o buf]
        /\ buf' = << >>
        /\ io' = WaitFor("READ", "request_chunked_read")
        /\ UNCHANGED <<dec, rsp>>
     \/ \E e \in DOMAIN buf :
        /\ EndsBody(e)
        /\ LET good == buf[e].part = "end" /\ buf[e].r.te = "chunked"
           IN  /\ dec' = [dec EXCEPT !.chunk = IF good THEN "good" ELSE "bad"]
               /\ rsp' = IF good THEN rsp ELSE [ErrorPage(400) EXCEPT !.version = rsp.version]
               /\ io' = GoOn(IF good THEN "dispatch" ELSE "response")
        /\ req' = [req EXCEPT !.body = @ \o SubSeq(buf, 1, e - 1)]
        /\ buf' = ChunkRest(e)
  /\ UNCHANGED <<fd, wr, keepalive, clientVars, lifeVars, out, shut, files>>

(* What kont_request_length takes of the buffer: the content-length, not   *)
(* what is missing of it.                                                  *)
LengthTaken == IF Len(buf) < req.r.size THEN Len(buf) ELSE req.r.size

KontRequestLength ==
  /\ At("request_length")
  /\ LET body == req.body \o SubSeq(buf, 1, LengthTaken)
     IN  /\ req' = [req EXCEPT !.body = body]
         /\ io' = IF Len(body) < req.r.size THEN WaitFor("READ", "request_length_read")
                                            ELSE GoOn("dispatch")
  /\ buf' = SubSeq(buf, LengthTaken + 1, Len(buf))
  /\ UNCHANGED <<dec, rspVars, clientVars, lifeVars, out, shut, files>>

KontDispatch ==
  /\ At("dispatch")
  /\ \/ /\ req.r.uri = "test"
        /\ rsp' = TestPage(req.r)
        /\ UNCHANGED <<fd, files>>
     \/ /\ req.r.uri # "test"
        /\ ~FileFound(req.r)
        /\ rsp' = ErrorPage(IF req.r.method \in {"GET", "HEAD"} THEN 404 ELSE 405)
        /\ UNCHANGED <<fd, files>>
     \/ /\ FileFound(req.r)
        /\ \E size \in FileSizes, opens \in BOOLEAN :
             /\ rsp' = FilePage(req.r, size, opens)
             /\ fd' \in BodyFd(req.r, size, opens)
        /\ files' = [files EXCEPT !.open = @ + IF fd' = NoFile THEN 0 ELSE 1]
  /\ io' = GoOn("response")
  /\ UNCHANGED <<buf, dec, req, wr, keepalive, clientVars, lifeVars, out, shut>>

-----------------------------------------------------------------------------
(* The response.                                                           *)
(* Wrong variant of NoBody: an answer to HEAD gets a body. *)
NoBodyHead(r, code) == code = 304 \/ code \in 100..199 \cup {204}

NoBody(r, code) == r.method = "HEAD" \/ code = 304 \/ code \in 100..199 \cup {204}

(* prepare_response: no transfer-encoding is ever set by the handlers; an  *)
(* answer without content-length ends with the connection.                 *)
KontResponse ==
  /\ At("response")
  /\ rsp' = [rsp EXCEPT !.has_body = ~NoBody(req.r, rsp.code),
                        !.close = @ \/ rsp.length = NoLength]
  /\ wr' = [pos |-> 0, size |-> HeaderSize]
  /\ io' = WaitFor("WRITE", "response_header")
  /\ UNCHANGED <<buf, dec, req, fd, keepalive, clientVars, lifeVars, out, shut, files>>

(* What the client learns from the header, and has got of the body. *)
HeaderSent == [n |-> req.n, code |-> rsp.code, length |-> rsp.length,
               body |-> rsp.has_body, got |-> 0, over |-> FALSE, last |-> FALSE]

(* prepare_response_body *)
KontResponseHeader ==
  /\ Called("response_header")
  /\ \E n \in 1..HeaderSize :
       /\ Written(n)
       /\ \/ /\ ~WrittenAll(n)
             /\ wr' = [wr EXCEPT !.pos = @ + n]
             /\ io' = WaitFor("WRITE", "response_header")
             /\ UNCHANGED out
          \/ /\ WrittenAll(n) /\ ~rsp.has_body
             /\ wr' = [wr EXCEPT !.pos = @ + n]
             /\ out' = Append(out, HeaderSent)
             /\ io' = GoOn("response_end")
          \/ /\ WrittenAll(n) /\ rsp.has_body
             /\ wr' = [pos |-> 0, size |-> IF fd # NoFile THEN wr.size ELSE rsp.size]
             /\ out' = Append(out, HeaderSent)
             /\ io' = WaitFor("WRITE", IF fd # NoFile THEN "response_file_length"
                                                     ELSE "response_body_length")
  /\ UNCHANGED <<buf, dec, req, rsp, fd, keepalive, clientVars, lifeVars, shut, files>>

BodySent(n) == [out EXCEPT ![Len(out)].got = @ + n]

(* sendfile sends what the file holds, whatever the header said. *)
KontResponseFileLength ==
  /\ Called("response_file_length") /\ peer # "reset"
  /\ \/ /\ fd = 0
        /\ io' = GoOn("response_end")
        /\ UNCHANGED <<fd, wr, out>>
     \/ \E n \in 1..BufferSize :
          /\ n <= fd
          /\ fd' = fd - n
          /\ wr' = [wr EXCEPT !.pos = @ + n]
          /\ out' = BodySent(n)
          /\ io' = WaitFor("WRITE", "response_file_length")
  /\ UNCHANGED <<buf, dec, req, rsp, keepalive, clientVars, lifeVars, shut, files>>

KontResponseBodyLength ==
  /\ Called("response_body_length")
  /\ \E n \in 1..PageSize :
       /\ Written(n)
       /\ wr' = [wr EXCEPT !.pos = @ + n]
       /\ out' = BodySent(n)
       /\ io' = IF WrittenAll(n) THEN GoOn("response_end")
                                 ELSE WaitFor("WRITE", "response_body_length")
  /\ UNCHANGED <<buf, dec, req, rsp, fd, keepalive, clientVars, lifeVars, shut, files>>

(* Wrong variants of DoneConnection: one request too many; the response's  *)
(* own connection field is not looked at.                                  *)
DoneLate ==
  \/ MaxKeepalive < keepalive + 1
  \/ req.r.conn = "close" \/ rsp.close
  \/ rsp.version < 11 /\ req.r.conn # "keep-alive"

DoneRequestOnly ==
  \/ MaxKeepalive <= keepalive + 1
  \/ req.r.conn = "close"
  \/ rsp.version < 11 /\ req.r.conn # "keep-alive"

(* done_connection *)
DoneConnection ==
  \/ MaxKeepalive <= keepalive + 1
  \/ req.r.conn = "close" \/ rsp.close
  \/ rsp.version < 11 /\ req.r.conn # "keep-alive"

(* Wrong variant of FilesAfter: body_fd is forgotten, not closed. *)
FilesAfterKept == files

FilesAfter == IF fd = NoFile THEN files ELSE [files EXCEPT !.open = @ - 1]

(* Wrong variant of NextRequest: waits for input, the buffer is not empty. *)
NextRequestReads == WaitFor("READ", "request_line_read")

NextRequest == GoOn("request_line")

(* Wrong variant of Teardown: the events of the mask stay those of before. *)
TeardownUnasked == WaitFor("WRITE", "teardown")

Teardown == WaitFor("READ", "teardown")

(* finalize_response, and the next request or the end of the output. *)
KontResponseEnd ==
  /\ At("response_end")
  /\ fd' = NoFile /\ files' = FilesAfter
  /\ rsp' = FreshResponse /\ req' = NoRequest /\ dec' = FreshDecoders
  /\ keepalive' = keepalive + 1
  /\ out' = [out EXCEPT ![Len(out)].over = TRUE, ![Len(out)].last = DoneConnection]
  /\ shut' = DoneConnection
  /\ io' = IF DoneConnection THEN Teardown ELSE NextRequest
  /\ UNCHANGED <<buf, wr, clientVars, lifeVars>>

(* kont_teardown reads until the client closes, and looks at nothing. *)
KontTeardown ==
  /\ Called("teardown")
  /\ \E n \in 1..BufferSize : n <= Len(rx) /\ rx' = SubSeq(rx, n + 1, Len(rx))
  /\ UNCHANGED <<ioVars, rspVars, lifeVars, todo, sent, peer, out, shut, files>>

-----------------------------------------------------------------------------
Server ==
  \/ KontRequestLineRead \/ KontRequestHeaderRead
  \/ KontRequestChunkedRead \/ KontRequestLengthRead
  \/ KontRequestLine \/ KontRequestHeader \/ KontRequestChunked \/ KontRequestLength
  \/ KontDispatch \/ KontResponse \/ KontResponseHeader
  \/ KontResponseFileLength \/ KontResponseBodyLength
  \/ KontResponseEnd \/ KontTeardown
  \/ ReadEof \/ IoFails

ConnectionNext == Client \/ OnAccept \/ OnTimer \/ Server

ConnectionSpec == ConnectionInit /\ [][ConnectionNext]_connectionVars

(* The server's loop calls a connection whose events are ready (module     *)
(* TcpServer), and the client takes what is written to it.                 *)
ConnectionFairSpec == ConnectionSpec /\ WF_connectionVars(Server)

-----------------------------------------------------------------------------
ConnectionTypeOK ==
  /\ io.ready \in BOOLEAN /\ io.mask \in {"none", "READ", "WRITE"}
  /\ Len(buf) <= BufferSize
  /\ \A d \in {"line", "head", "chunk"} : dec[d] \in {"partial", "good", "bad"}
  /\ wr.pos \in Nat /\ wr.size \in Nat
  /\ keepalive \in 0..MaxKeepalive
  /\ fd \in Nat \cup {NoFile}
  /\ {up, shut} \subseteq BOOLEAN
  /\ why \in {"none", "eof", "error", "timeout"}
  /\ Len(out) <= Len(sent)

(* The requests on one connection are kept apart, however the reads cut    *)
(* the stream and however far ahead the client is: when a request is       *)
(* dispatched it has exactly its own body (prepare_request_length,         *)
(* kont_request_chunked), and the next octet of the stream begins the next *)
(* request.                                                                *)
RequestsKeptApart ==
  At("dispatch") =>
    /\ req.r = sent[req.n] /\ req.n = Len(out) + 1
    /\ Len(req.body) = IF BodyKont(req.r) = "dispatch" THEN 0 ELSE req.r.size
    /\ \A i \in DOMAIN req.body : req.body[i] = Tok(req.n, "body", req.r)
    /\ LET rest == buf \o rx \o todo
       IN  rest # << >> => Head(rest) = Tok(req.n + 1, "line", Head(rest).r)

(* A client that frames answers by their header is never misled: a         *)
(* finished answer carries as many octets as its content-length says, or   *)
(* none if it has no body (prepare_response, prepare_response_body and the *)
(* kont_response functions); and no answer begins before the last is over. *)
FramedByLength ==
  \A k \in DOMAIN out :
    /\ k < Len(out) => out[k].over
    /\ out[k].over => out[k].got = IF out[k].body THEN out[k].length ELSE 0
    /\ ~out[k].body <=> out[k].code = 304 \/ sent[out[k].n].method = "HEAD"

(* Files: outside the sending of its content no file is open for this      *)
(* connection, and of those it ever opened only the ones that were being   *)
(* sent when the connection ended stay open (on_close, http-connection.cpp *)
(* :104, does not close body_fd, and clear () forgets it).                 *)
FilesAccounted ==
  /\ files.open = files.lost + IF up /\ fd # NoFile THEN 1 ELSE 0
  /\ up /\ fd # NoFile =>
       io.kont \in {"response", "response_header", "response_file_length", "response_end"}

(* The server's loop calls a connection for the events of iowait_mask and  *)
(* the continuation makes the system call of its own: it must be the one   *)
(* that can succeed, or the connection is called in vain for ever.         *)
WaitsForItsCall ==
  up /\ ~io.ready => io.mask = IF io.kont \in ReadKonts THEN "READ" ELSE "WRITE"

(* A client that sends its requests and then half-closes loses no answer:  *)
(* the end of the input ends the connection (on_read) only when every      *)
(* request that arrived whole was answered, or the answers were over.      *)
Whole == Len(sent) - IF todo = << >> THEN 0 ELSE 1

EofAnswersAll == why = "eof" => shut \/ Answered >= Whole

(* Every request that arrives whole is answered in the end, unless the     *)
(* connection ends: none stays in rdbuf waiting for input that is there    *)
(* already.                                                                *)
EveryRequestAnswered ==
  \A k \in 1..MaxRequests : (up /\ Whole >= k) ~> (Answered >= k \/ shut \/ ~up)

(* The connection is an HTTP session: one answer to a request, in order,   *)
(* of a status the request deserves, and none after the last.  The status  *)
(* codes are those of the handlers, by what is asked for.                  *)
Malformed(r) == \/ r.line = "bad" \/ r.fields = "bad" \/ (r.version = 11 /\ ~r.host)
                \/ r.te \in {"bad", "torn"} \/ (r.te = "none" /\ r.cl = "bad")

TooLarge(r)  == /\ r.te = "none"
                /\ r.cl = "big" \/ (r.cl = "good" /\ r.method \notin {"POST", "PUT"})

GetDeserves(r) ==
  CASE r.uri = "test"                               -> {200}
    [] r.uri = "none"                               -> {404}
    [] r.uri = "file" /\ r.cond = 412               -> {411}
    [] r.uri = "file" /\ r.cond = 304               -> {304}
    [] r.uri = "file" /\ r.cond = 200 /\ r.method = "HEAD" -> {200}
    [] r.uri = "file" /\ r.cond = 200 /\ r.method = "GET"  -> {200, 404}

Deserves(r) ==
  CASE Malformed(r)                                 -> {400}
    [] ~Malformed(r) /\ TooLarge(r)                 -> {413}
    [] ~Malformed(r) /\ r.te = "other"              -> {415}
    [] ~Malformed(r) /\ ~TooLarge(r) /\ r.te # "other" ->
         (CASE r.method \in {"GET", "HEAD"}         -> GetDeserves(r)
            [] r.method = "POST" /\ r.uri = "test"  -> {200}
            [] OTHER                                -> {405})

EndsSession(r) ==
  \/ Deserves(r) \subseteq {400, 413, 415}
  \/ r.conn = "close"
  \/ r.version = 10 /\ r.conn # "keep-alive"

Session == INSTANCE HttpSession WITH
  Ask <- Requests, Allowed <- Deserves, Last <- EndsSession, MostAnswers <- MaxKeepalive,
  asked <- sent,
  answers <- [k \in 1..Answered |-> [code |-> out[k].code, last |-> out[k].last]]

ImplementsSession == Session!SessionSpec

(* An answer to a request whose precondition failed says so (handler.cpp,  *)
(* precondition_failed; handler-file.cpp:46).                              *)
PreconditionFailed412 ==
  \A k \in DOMAIN out :
    (sent[out[k].n].cond = 412 /\ FileFound(sent[out[k].n])) => out[k].code = 412
=============================================================================
