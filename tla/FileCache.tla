------------------------------- MODULE FileCache -------------------------------
(***************************************************************************)
(* A static file, the handler that serves it (handler_file_type::get,      *)
(* handler-file.cpp) and a client that keeps a copy and asks with          *)
(* conditions.  get () looks at the file twice, with stat () and open (),  *)
(* and its content is read later still, by sendfile; the file may change   *)
(* in between, in place or by another file that takes its name.            *)
(*                                                                         *)
(* What is assumed of the file system: two contents that had the same      *)
(* inode, size and time in seconds do not occur (fresh, in Change).        *)
(***************************************************************************)
EXTENDS Condition, FiniteSets

CONSTANTS Inodes, Sizes,    \* of the files that have the name, in turn
          MaxVersions,      \* bound: contents
          MaxTime           \* bound of the clock

ASSUME FileCacheAssumption ==
  /\ Inodes \subseteq Nat \ {0} /\ Sizes \subseteq Nat /\ Inodes # {} /\ Sizes # {}
  /\ MaxVersions \in Nat \ {0} /\ MaxTime \in Nat

VARIABLES now,              \* seconds
          file,             \* the file that has the name, or NoFile
          past,             \* history: the files there were
          copy,             \* the client's copy: content, etag, last-modified
          ask,              \* the request and its conditions
          stat,             \* what stat () saw
          fd,               \* the open file: its inode and what was read
          answer            \* what the request was answered

cacheVars == <<now, file, past, copy, ask, stat, fd, answer>>

NoFile  == [version |-> 0, ino |-> 0, mtime |-> 0, size |-> 0]
NoCopy  == [version |-> 0, etag |-> Star, mtime |-> 0]
NoAsk   == [method |-> "none"]
NoFd    == [ino |-> 0, version |-> 0]
Torn    == MaxVersions + 1  \* content that is part of one, part of another

(* Wrong variant of Etag: a change that keeps the size goes unnoticed. *)
EtagOfSize(f) == Tag(FALSE, <<f.ino, f.size>>)

Etag(f) == Tag(FALSE, <<f.ino, f.mtime, f.size>>)

FileCacheInit ==
  /\ now = 0
  /\ \E ino \in Inodes, size \in Sizes :
       file = [version |-> 1, ino |-> ino, mtime |-> 0, size |-> size]
  /\ past = {file}
  /\ copy = NoCopy /\ ask = NoAsk /\ stat = NoFile /\ fd = NoFd /\ answer = 0

-----------------------------------------------------------------------------
(* The clock and the file. *)
Tick ==
  /\ now < MaxTime /\ now' = now + 1
  /\ UNCHANGED <<file, past, copy, ask, stat, fd, answer>>

(* The content changes: the file is rewritten, or another takes its name.  *)
(* What is being read of a rewritten file is torn.                         *)
Change ==
  /\ Cardinality(past) < MaxVersions
  /\ \E ino \in Inodes, size \in Sizes :
       LET f == [version |-> Cardinality(past) + 1, ino |-> ino, mtime |-> now, size |-> size]
           fresh == \A old \in past : <<old.ino, old.mtime, old.size>> # <<f.ino, f.mtime, f.size>>
       IN  /\ fresh
           /\ file' = f /\ past' = past \cup {f}
           /\ fd' = IF fd.ino = ino /\ file.ino = ino /\ fd # NoFd THEN [fd EXCEPT !.version = Torn] ELSE fd
  /\ UNCHANGED <<now, copy, ask, stat, answer>>

Remove ==
  /\ file # NoFile /\ file' = NoFile
  /\ UNCHANGED <<now, past, copy, ask, stat, fd, answer>>

-----------------------------------------------------------------------------
(* The client asks, with the tag or the date of its copy, or others.  It   *)
(* may send tags that are weak, several, or not readable.                  *)
TagFields ==
  {NoField, BadField, Field(<<Star>>), Field(<<copy.etag>>),
   Field(<<Tag(TRUE, copy.etag.opaque)>>), Field(<<Tag(FALSE, <<0, 0, 0>>), copy.etag>>)}

Dates == {NoDate, BadDate, 0, copy.mtime}

Unconditional ==
  [method |-> "GET", match |-> NoField, none |-> NoField, unmodified |-> NoDate, modified |-> NoDate]

Requests ==
  IF copy = NoCopy THEN {Unconditional}
  ELSE [method : {"GET", "HEAD"}, match : TagFields, none : TagFields,
        unmodified : Dates, modified : Dates]

(* A request is read and get () runs up to open (): the answer is settled  *)
(* unless content is to come.                                              *)
Serve ==
  /\ ask = NoAsk
  /\ ask' \in Requests
  /\ stat' = file
  /\ LET code == Check(ask', Etag(file), file.mtime)
     IN  answer' = CASE file = NoFile                  -> 404
                     [] file # NoFile /\ code = 412    -> 411
                     [] file # NoFile /\ code # 412    -> code
  /\ UNCHANGED <<now, file, past, copy, fd>>

Sending == answer = 200 /\ ask.method = "GET"

Open ==
  /\ ask # NoAsk /\ Sending /\ fd = NoFd
  /\ \/ file # NoFile /\ fd' = [ino |-> file.ino, version |-> file.version] /\ UNCHANGED answer
     \/ answer' = 404 /\ UNCHANGED fd
  /\ UNCHANGED <<now, file, past, copy, ask, stat>>

(* The client has its answer; content becomes its copy. *)
Finish ==
  /\ ask # NoAsk /\ answer # 0 /\ (Sending => fd # NoFd)
  /\ copy' = IF Sending THEN [version |-> fd.version, etag |-> Etag(stat), mtime |-> stat.mtime]
             ELSE copy
  /\ ask' = NoAsk /\ fd' = NoFd /\ stat' = NoFile /\ answer' = 0
  /\ UNCHANGED <<now, file, past>>

FileCacheNext == Tick \/ Change \/ Remove \/ Serve \/ Open \/ Finish

FileCacheSpec == FileCacheInit /\ [][FileCacheNext]_cacheVars

-----------------------------------------------------------------------------
Answered == ask # NoAsk /\ answer # 0 /\ stat # NoFile

Names(f) == f.good /\ \E i \in DOMAIN f.list : f.list[i] = copy.etag
Lists(f) == f.good /\ f.list # <<Star>>

(* A copy is taken for current only when it is: when If-None-Match made    *)
(* the answer 304, or If-Match let the request pass, then stat () saw the  *)
(* very content the client has, although the client's etag may be of an    *)
(* earlier stat () than its content.  By the dates alone it may have       *)
(* changed within the second (http-condition.cpp:64, mtime > since).       *)
CopyTrusted ==
  (Answered /\ copy # NoCopy) =>
    /\ (answer = 304 /\ Lists(ask.none)) => stat.version = copy.version
    /\ (answer \in {200, 304} /\ Lists(ask.match)) => stat.version = copy.version
    /\ (answer = 304 /\ ~ask.none.there /\ ask.modified = copy.mtime) =>
         stat.version = copy.version \/ stat.mtime = copy.mtime

(* A client whose copy is current, and is named by its strong tag, is not  *)
(* refused, nor sent the content again, whatever dates it sends as well    *)
(* (http-condition.cpp:14 and 20: the tags come first).                    *)
CurrentRecognised ==
  (Answered /\ copy.etag = Etag(stat) /\ answer # 404) =>
    /\ (Names(ask.match) \/ (~ask.match.there /\ ask.unmodified = NoDate)) => answer # 411
    /\ (Names(ask.none) /\ answer # 411) => answer = 304
=============================================================================
