------------------------------- MODULE Decoders -------------------------------
(***************************************************************************)
(* The decoders at work, one of them at a time.  The connection and the    *)
(* handlers feed a decoder octet after octet, as the reads bring them      *)
(* (kont_request_line, kont_request_header, kont_request_chunked), or the  *)
(* value of a field and its End; a chunked response is written part by     *)
(* part, and its reader, who decodes chunks as decoder_chunk does, sees    *)
(* what was written so far.  After an error or the end of its text a       *)
(* decoder is given nothing more.                                          *)
(***************************************************************************)
EXTENDS ChunkDecoder, LineDecoder, HeaderDecoder, FieldDecoders, Location,
        ChunkedResponse, MessageSyntax

CONSTANTS Kinds,            \* the decoders of interest, "response" for the writer
          Inputs(_, _, _),  \* bound: the octets a decoder is given after a text
          MaxLen,           \* bound: octets given to each kind of decoder
          Bodies,           \* bodies of chunked responses
          SizeLies          \* may a file have changed its size since stat ()?

VARIABLES kind,             \* which decoder is at work
          src,              \* the octets it was given
          dec,              \* the decoder
          rsp               \* the chunked response, if that is the source

decodersVars == <<kind, src, dec, rsp>>

Fresh ==
  [line |-> FreshLine, header |-> FreshHeader, chunk |-> FreshChunk, length |-> FreshLength,
   tokens |-> FreshTokens(1), any_tokens |-> FreshTokens(0), parameters |-> FreshParameters(1),
   tags |-> FreshTags, path |-> FreshPath]

Messages == {"line", "header", "chunk"}
Values   == DOMAIN Fresh \ Messages

NoResponse == [kont |-> "none"]

ASSUME DecodersAssumption ==
  /\ Kinds \subseteq DOMAIN Fresh \cup {"response"}
  /\ MaxLen \in [DOMAIN Fresh -> Nat]
  /\ \A b \in Bodies : b \in Seq(Octet)
  /\ SizeLies \in BOOLEAN

(* A chunk that is written is not larger than the decoder takes: at most   *)
(* BUFFER_SIZE - 16 octets of a CHUNK_SIZE_LIMIT (server.hpp:23, http.hpp  *)
(* :165).                                                                  *)
ASSUME SizesFit == ChunkMost \div 16 < ChunkSizeLimit

DecodersInit ==
  /\ kind \in Kinds /\ src = << >>
  /\ \/ kind # "response" /\ dec = Fresh[kind] /\ rsp = NoResponse
     \/ /\ kind = "response" /\ dec = FreshChunk
        /\ \E content \in Bodies, cut \in 0..2 :
             /\ cut > 0 => SizeLies
             /\ rsp = PrepareChunked(content, Len(content) + cut)

Put(o) ==
  CASE kind \in {"chunk", "response"}      -> ChunkPut(dec, o)
    [] kind = "line"                       -> LinePut(dec, o)
    [] kind = "header"                     -> HeaderPut(dec, o)
    [] kind = "length"                     -> LengthPut(dec, o)
    [] kind \in {"tokens", "any_tokens"}   -> TokensPut(dec, o)
    [] kind = "parameters"                 -> ParametersPut(dec, o)
    [] kind = "tags"                       -> TagsPut(dec, o)
    [] kind = "path" /\ o # End            -> PathPut(dec, o)
    [] kind = "path" /\ o = End            -> PathEnd(dec)

Ended == src # << >> /\ Last(src) = End

Partial ==
  CASE kind \in {"chunk", "response"} -> ChunkPartial(dec)
    [] kind = "line"                  -> LinePartial(dec)
    [] kind = "header"                -> HeaderPartial(dec)
    [] kind \in Values                -> dec.next_state # 0 /\ ~Ended

(* A decoder is given the next octet, or the end of the value. *)
PutOctet ==
  /\ kind # "response" /\ Partial
  /\ \E o \in (Inputs(kind, dec, src) \cap Octet) \cup {End} :
       /\ o = End => kind \in Values
       /\ o # End => Len(src) < MaxLen[kind]
       /\ src' = Append(src, o) /\ dec' = Put(o)
  /\ UNCHANGED <<kind, rsp>>

(* The connection writes a part of the response, and the reader reads it. *)
WriteResponse ==
  /\ kind = "response" /\ Writing(rsp)
  /\ \E n \in DOMAIN Offered(rsp) :
       LET part == SubSeq(Offered(rsp), 1, n)
       IN  /\ rsp' = Write(rsp, n)
           /\ dec' = FoldLeft(ChunkPut, dec, part)
           /\ src' = src \o part
  /\ UNCHANGED kind

(* Nothing more to send of the file, an error, the time out. *)
ResponseStops ==
  /\ kind = "response" /\ Writing(rsp)
  /\ rsp' = WriteStops(rsp)
  /\ UNCHANGED <<kind, src, dec>>

DecodersNext == PutOctet \/ WriteResponse \/ ResponseStops

DecodersSpec == DecodersInit /\ [][DecodersNext]_decodersVars

-----------------------------------------------------------------------------
Plain == IF Ended THEN Front(src) ELSE src

(* The counters keep within the limits whatever is read: the size of a     *)
(* chunk is compared with its limit before it is multiplied                *)
(* (decode-chunk.cpp:137), a length before it is multiplied and added to   *)
(* (decode-content-length.cpp:53), and a decoder past a limit has failed.  *)
DecodersTypeOK ==
  /\ kind \in {"chunk", "response"} =>
       /\ dec.next_state \in 0..28
       /\ dec.chunk_size < 16 * ChunkSizeLimit
       /\ dec.content_length = Len(dec.body)
  /\ kind = "line" =>
       /\ dec.next_state \in 0..16
       /\ dec.nbyte <= LineLimit + 1 /\ (dec.nbyte > LineLimit => dec.next_state = 0)
  /\ kind = "header" =>
       /\ dec.next_state \in 0..8
       /\ dec.nbyte <= FieldSizeLimit + 1 /\ dec.nfield <= FieldLimit + 1
       /\ dec.nbyte > FieldSizeLimit \/ dec.nfield > FieldLimit => dec.next_state = 0
       /\ DOMAIN dec.header # {} => dec.nfield >= 1
  /\ kind = "length" => dec.value <= MostLength /\ dec.length \in -1..MostLength

(* A request line is taken exactly when it is one, and its parts are the   *)
(* parts of the text, whatever the reads cut it into (decode-request-line  *)
(* .cpp:38).                                                               *)
LineAsWritten ==
  kind = "line" =>
    /\ LineGood(dec) => IsRequestLine(src, dec.method, dec.uri, dec.http_version, Pchar)
    /\ (Len(src) <= LineLimit /\ dec.next_state = 0) =>
         \A i, j \in DOMAIN src :
           i + 1 < j => ~IsRequestLine(src, SubSeq(src, 1, i - 1), SubSeq(src, i + 1, j - 1),
                                       SubSeq(src, j + 1, Len(src) - 2), Pchar)

(* The fields of a request are those of its lines: names in small letters, *)
(* values without the blanks around them, continued lines joined by a      *)
(* space, repeated fields by a comma (decode-request-header.cpp:79).  What *)
(* is read that way is within the limits, and what is within them and well *)
(* written is not refused.  Lines that begin with what no name begins with *)
(* are left out: see OddLines.                                             *)
OddLines == \E i \in DOMAIN Lines(src) :
              i > 1 /\ Lines(src)[i] # << >> /\ Lines(src)[i][1] \notin Tchar \cup Blank

WrittenLines == Front(Lines(src))

HeaderAsWritten ==
  (kind = "header" /\ ~OddLines) =>
    /\ HeaderGood(dec) =>
         LET lines == Front(WrittenLines)
         IN  /\ WellWritten(lines)
             /\ dec.header = HeaderOf(FieldsOf(lines))
             /\ Len(FieldSizes(lines)) <= FieldLimit
             /\ \A k \in DOMAIN FieldSizes(lines) :
                  FieldSizes(lines)[k] + (IF k = 1 THEN 1 ELSE 0) <= FieldSizeLimit
    /\ (HeaderBad(dec) /\ Len(src) <= FieldSizeLimit) =>
         \/ Len(FieldSizes(WrittenLines)) > FieldLimit
         \/ ~WellWritten(WrittenLines)
         \/ StrayLineEnd(src)
         \/ ~WellBegun(Lines(src), Last(src) = CR)

(* The body is what the chunks hold, their sizes and line ends left out,   *)
(* and a message ends where its last chunk and its trailer do              *)
(* (decode-chunk.cpp:129-149): none is cut off or runs into the next, and  *)
(* a plain one within the limits is not refused.  One whose chunk is       *)
(* followed by something else is left out: see ExactChunks.                *)
Message == ChunksOf(src, ChunkSizeLimit)

ChunksAsWritten ==
  (kind = "chunk" /\ Message.kind # "overrun") =>
    /\ ChunkGood(dec) => Message.kind = "whole" /\ dec.body = Message.body
    /\ ChunkPartial(dec) => Message.kind = "more"
    /\ Message.plain => ~ChunkBad(dec)

(* A reader of a chunked response has a prefix of the body at any time,    *)
(* and takes it for complete only when it is: when the connection ends on  *)
(* the way, or the file became shorter, the reader can tell (the three     *)
(* continuations of http-connection.cpp:476-540).                          *)
ChunksRoundTrip ==
  kind = "response" =>
    /\ ~ChunkBad(dec) /\ IsPrefix(dec.body, rsp.content)
    /\ ChunkGood(dec) <=> rsp.kont = "response_end"
    /\ ChunkGood(dec) => dec.body = rsp.content /\ Len(rsp.content) = rsp.content_length

(* A content-length is taken when it is a list of one and the same number  *)
(* that fits (decode-content-length.cpp:60): two lengths never leave it    *)
(* open which one frames the body.                                         *)
LengthAsWritten ==
  (kind = "length" /\ (Ended \/ dec.next_state = 0)) =>
    LET numbers == {Number(run, 10) : run \in ToSet(Runs(Plain, Digit))}
    IN  /\ LengthMatched(dec) <=>
             Ended /\ IsList(Plain, Digit, 1) /\ \E n \in 0..MostLength : numbers = {n}
        /\ LengthMatched(dec) => numbers = {dec.result}
        /\ dec.status = 413 => \E n \in numbers : n > MostLength

(* The tokens of a list are those between its commas, in small letters     *)
(* (decode-simple-token.cpp:73).                                           *)
TokensAsWritten ==
  (kind \in {"tokens", "any_tokens"} /\ (Ended \/ dec.next_state = 0)) =>
    /\ TokensMatched(dec) <=>
         Ended /\ IsList(Plain, Tchar, IF kind = "tokens" THEN 1 ELSE 0)
    /\ TokensMatched(dec) =>
         dec.list = [k \in DOMAIN Runs(Plain, Tchar) |-> Lowered(Runs(Plain, Tchar)[k])]

(* Where the elements of a list have parts: a separator in a quoted value  *)
(* separates nothing, and each parameter belongs to the token it follows   *)
(* (decode-token.cpp:130-146); the entity tags are those the list quotes,  *)
(* or it is "*", and it holds one: if_none_match reads the first without   *)
(* looking (http-condition.cpp:49).                                        *)
ElementsAsWritten ==
  /\ (kind = "parameters" /\ (Ended \/ dec.next_state = 0)) =>
       LET elements == Elements(Plain)
       IN  /\ ParametersMatched(dec) <=>
                Ended /\ elements # << >> /\ \A k \in DOMAIN elements : IsElement(elements[k])
           /\ ParametersMatched(dec) =>
                dec.list = [k \in DOMAIN elements |-> ElementOf(elements[k])]
  /\ (kind = "tags" /\ (Ended \/ dec.next_state = 0)) =>
       LET star == /\ STAR \in ToSet(Plain) /\ Trimmed(Plain) = <<STAR>>
       IN  /\ TagsMatched(dec) <=> Ended /\ (star \/ IsTagList(Plain))
           /\ TagsMatched(dec) =>
                /\ dec.list # << >>
                /\ dec.list = IF star THEN <<[weak |-> FALSE, opaque |-> <<STAR>>]>> ELSE TagsOf(Plain)

(* The file a path leads to is below the document root, by the names the   *)
(* path has: none is empty, "." or ".."; a directory's is its index.html;  *)
(* the extension is what follows the last dot (handler-file.cpp:90).       *)
PathAsWritten ==
  (kind = "path" /\ (Ended \/ dec.next_state = 0)) =>
    /\ (Ended /\ PathOk(dec)) <=> IsPath(Plain) /\ Ended
    /\ (Ended /\ PathOk(dec)) =>
         LET parts == SplitAt(PathName(dec), SLASH)
             index == IF Last(Plain) = SLASH THEN IndexHtml
                      ELSE IF DOT \in ToSet(LastPart(Plain)) THEN << >> ELSE <<SLASH>> \o IndexHtml
         IN  /\ PathName(dec) = Plain \o index
             /\ Head(parts) = << >>
             /\ \A k \in 2..Len(parts) : parts[k] \notin {<< >>, <<DOT>>, <<DOT, DOT>>}
             /\ dec.ext = Lowered(Last(SplitAt(LastPart(PathName(dec)), DOT)))

(* The comment on state 12 (decode-chunk.cpp:30): as many octets of data   *)
(* as the size of the chunk says, then the end of the line.                *)
ExactChunks == (kind = "chunk" /\ ChunkGood(dec)) => Message.kind = "whole"
=============================================================================
