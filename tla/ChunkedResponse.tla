---------------------------- MODULE ChunkedResponse ----------------------------
(***************************************************************************)
(* The continuations of connection_type that write a chunked response      *)
(* (prepare_response_body and kont_response_chunk_header, _body and _crlf, *)
(* http-connection.cpp).  The record holds the fields of the connection    *)
(* and its response; `content` is the body in memory, or what the open     *)
(* file holds when sendfile reads it; wrbuf is what is left of it.         *)
(***************************************************************************)
EXTENDS Octets, Sequences

CONSTANT ChunkMost          \* BUFFER_SIZE - 16

ASSUME ResponseAssumption == ChunkMost \in Nat \ {0}

Least(m, n) == IF m < n THEN m ELSE n

Crlf == <<CR, LF>>

Xdigit(x) == IF x < 10 THEN x + 48 ELSE x + 87

ToXdigits(n) ==
  LET loop[k \in 0..n] == IF k = 0 THEN << >>
                          ELSE Append(loop[k \div 16], Xdigit(k % 16))
  IN  IF n = 0 THEN <<48>> ELSE loop[n]

NextChunk(w) ==
  LET size == Least(w.content_length - w.wrpos, ChunkMost)
  IN  [w EXCEPT !.kont = "chunk_header", !.chunk_size = size,
                !.wrbuf = ToXdigits(size) \o Crlf]

(* prepare_response_body: content_length is the size of the body, or what  *)
(* stat () said of the file.                                               *)
PrepareChunked(content, content_length) ==
  NextChunk([kont |-> "response_header", content |-> content, chunk_size |-> 0,
             content_length |-> content_length, wrpos |-> 0, wrsize |-> 0, wrbuf |-> << >>])

(* What write or sendfile may take now. *)
Offered(w) ==
  IF w.kont = "chunk_body"
  THEN SubSeq(w.content, w.wrpos + 1, Least(w.wrsize, Len(w.content)))
  ELSE w.wrbuf

(* Wrong variant of EndsResponse: the last chunk is the last with data. *)
EndsResponseEarly(w) == w.wrpos = w.content_length

EndsResponse(w) == w.chunk_size = 0

(* One call of the continuation, which takes n of what is offered. *)
Write(w, n) ==
  LET all  == n = Len(w.wrbuf)
      more == [w EXCEPT !.wrbuf = SubSeq(@, n + 1, Len(@))]
      crlf == [w EXCEPT !.kont = "chunk_crlf", !.wrbuf = Crlf]
  IN  CASE w.kont = "chunk_header" /\ all /\ w.chunk_size > 0 ->
             [more EXCEPT !.kont = "chunk_body", !.wrsize = w.wrpos + w.chunk_size]
        [] w.kont = "chunk_header" /\ all /\ w.chunk_size = 0 -> crlf
        [] w.kont = "chunk_body" /\ w.wrpos + n < w.wrsize -> [w EXCEPT !.wrpos = @ + n]
        [] w.kont = "chunk_body" /\ w.wrpos + n >= w.wrsize -> [crlf EXCEPT !.wrpos = @ + n]
        [] w.kont = "chunk_crlf" /\ all /\ EndsResponse(w) -> [more EXCEPT !.kont = "response_end"]
        [] w.kont = "chunk_crlf" /\ all /\ ~EndsResponse(w) -> NextChunk(w)
        [] OTHER -> more

Writing(w) == w.kont \in {"chunk_header", "chunk_body", "chunk_crlf"}

(* A call that writes nothing (the file is shorter than it was, or the     *)
(* client is gone) ends the connection.                                    *)
WriteStops(w) == [w EXCEPT !.kont = "stopped"]
=============================================================================
