--------------------------- MODULE FileCacheProofs ---------------------------
(***************************************************************************)
(* What the conditions of a request say of a client's copy is right for    *)
(* any number of contents and seconds, although get () looks at the file   *)
(* more than once.                                                         *)
(*                                                                         *)
(* The tag and the time of a copy are those of one stat (), its content is *)
(* of a later open ().  The two may differ, but not while that file is     *)
(* still there (Matched): a file that was replaced or rewritten does not   *)
(* come back.                                                              *)
(***************************************************************************)
EXTENDS FileCache, TLAPS

Key(f) == <<f.ino, f.mtime, f.size>>

(* The files there were are told apart by their tags; the one that is      *)
(* there is the last of them to have changed.                              *)
History ==
  /\ now \in Nat
  /\ \A f \in past : f.ino \in Inodes /\ f.mtime \in Nat /\ f.mtime <= now
  /\ \A f, g \in past : Key(f) = Key(g) => f = g
  /\ file # NoFile => file \in past /\ \A f \in past : f.mtime <= file.mtime
  /\ stat # NoFile => stat \in past

(* get () at work. *)
Serving ==
  /\ ask = NoAsk => fd = NoFd
  /\ (ask # NoAsk /\ answer # 404) => stat # NoFile

(* What was opened as a file that is still there is its content; so is     *)
(* what was copied with its tag.                                           *)
Matched ==
  /\ (fd # NoFd /\ stat # NoFile /\ file = stat) => fd.version = stat.version
  /\ copy # NoCopy =>
       \E f \in past : /\ copy.etag = Etag(f) /\ copy.mtime = f.mtime
                       /\ file = f => copy.version = f.version

CacheInv == History /\ Serving /\ Matched /\ CopyTrusted /\ CurrentRecognised

-----------------------------------------------------------------------------
(* The tag of a file is that of no other, and not the list "*". *)
LEMMA TagsApart ==
  ASSUME History, NEW f \in past, NEW g \in past
  PROVE  /\ Etag(f).opaque = Etag(g).opaque => f = g
         /\ Etag(f).weak = FALSE /\ Etag(f) # Star /\ f # NoFile
         /\ Etag(f).opaque # <<0, 0, 0>> /\ Etag(f).opaque # << >>
<1>1. Etag(f).opaque = Key(f) /\ Etag(g).opaque = Key(g) /\ Etag(f).weak = FALSE
  BY DEF Etag, Tag, Key
<1>2. f.ino # 0
  BY FileCacheAssumption DEF History
<1>3. Key(f) # <<0, 0, 0>> /\ Key(f) # << >>
  BY <1>2 DEF Key
<1>4. f # NoFile
  BY <1>2 DEF NoFile
<1>5. Etag(f) # Star
  BY <1>1, <1>3 DEF Star, Tag
<1> QED BY <1>1, <1>3, <1>4, <1>5 DEF History

(* What a field of tags that the client sends holds, when its copy has the *)
(* tag o.                                                                  *)
LEMMA FieldOfTags ==
  ASSUME NEW o, o # << >>, copy.etag = Tag(FALSE, o), NEW t \in TagFields
  PROVE  /\ t.good \in BOOLEAN /\ t.there \in BOOLEAN
         /\ t.good => t.there
         /\ Lists(t) =>
              /\ t.list # << >> /\ t.list[1] # Star
              /\ \A i \in DOMAIN t.list : t.list[i].opaque \in {o, <<0, 0, 0>>}
<1> DEFINE Weak == Tag(TRUE, o)
           Own  == Tag(FALSE, o)
           None == Tag(FALSE, <<0, 0, 0>>)
<1>1. copy.etag = Own /\ copy.etag.opaque = o
  BY DEF Tag
<1>2. t \in {NoField, BadField, Field(<<Star>>), Field(<<Own>>), Field(<<Weak>>),
             Field(<<None, Own>>)}
  BY <1>1 DEF TagFields
<1>3. /\ Own.opaque = o /\ Weak.opaque = o /\ None.opaque = <<0, 0, 0>>
      /\ Star.opaque = << >> /\ <<0, 0, 0>> # << >>
  BY DEF Tag, Star
<1>4. Own # Star /\ Weak # Star /\ None # Star
  BY <1>3
<1> HIDE DEF Weak, Own, None
<1>5. CASE t \in {NoField, BadField}
  <2>1. t.good = FALSE /\ t.there \in BOOLEAN
    <3>1. CASE t = NoField
      BY <3>1 DEF NoField
    <3>2. CASE t = BadField
      BY <3>2 DEF BadField
    <3> QED BY <1>5, <3>1, <3>2
  <2>2. ~Lists(t)
    BY <2>1 DEF Lists
  <2> QED BY <2>1, <2>2
<1>6. CASE t = Field(<<Star>>)
  <2>1. t.good = TRUE /\ t.there = TRUE /\ t.list = <<Star>>
    BY <1>6 DEF Field
  <2> QED BY <2>1 DEF Lists
<1>7. CASE t = Field(<<Own>>)
  <2>1. t.good = TRUE /\ t.there = TRUE /\ t.list = <<Own>>
    BY <1>7 DEF Field
  <2>2. t.list # << >> /\ t.list[1] = Own /\ DOMAIN t.list = {1}
    BY <2>1
  <2> QED BY <1>3, <1>4, <2>1, <2>2
<1>8. CASE t = Field(<<Weak>>)
  <2>1. t.good = TRUE /\ t.there = TRUE /\ t.list = <<Weak>>
    BY <1>8 DEF Field
  <2>2. t.list # << >> /\ t.list[1] = Weak /\ DOMAIN t.list = {1}
    BY <2>1
  <2> QED BY <1>3, <1>4, <2>1, <2>2
<1>9. CASE t = Field(<<None, Own>>)
  <2>1. t.good = TRUE /\ t.there = TRUE /\ t.list = <<None, Own>>
    BY <1>9 DEF Field
  <2>2. t.list # << >> /\ t.list[1] = None /\ t.list[2] = Own /\ DOMAIN t.list = {1, 2}
    BY <2>1
  <2> QED BY <1>3, <1>4, <2>1, <2>2
<1> QED BY <1>2, <1>5, <1>6, <1>7, <1>8, <1>9

(* The answers that check () can give. *)
LEMMA CheckIs ==
  ASSUME NEW h, NEW e, NEW m
  PROVE  /\ Check(h, e, m) \in {200, 304, 412}
         /\ Check(h, e, m) = 412 <=> ~MatchOk(h, e, m)
         /\ Check(h, e, m) = 304 => ~NoneOk(h, e, m)
         /\ Check(h, e, m) = 200 => NoneOk(h, e, m)
<1>1. CASE ~MatchOk(h, e, m)
  <2>1. Check(h, e, m) = 412
    BY <1>1 DEF Check
  <2> QED BY <1>1, <2>1
<1>2. CASE MatchOk(h, e, m) /\ ~NoneOk(h, e, m)
  <2>1. Check(h, e, m) = 304
    BY <1>2 DEF Check
  <2> QED BY <1>2, <2>1
<1>3. CASE MatchOk(h, e, m) /\ NoneOk(h, e, m)
  <2>1. Check(h, e, m) = 200
    BY <1>3 DEF Check
  <2> QED BY <1>3, <2>1
<1> QED BY <1>1, <1>2, <1>3

(* Whoever has a copy asks with fields of these kinds. *)
LEMMA AskOf ==
  ASSUME copy # NoCopy, NEW h \in Requests
  PROVE  h.match \in TagFields /\ h.none \in TagFields
BY DEF Requests

(* A copy taken for current is: its tag, or its time, is the file's. *)
LEMMA TrustIsRight ==
  ASSUME History, Matched, file # NoFile, copy # NoCopy, NEW h \in Requests
  PROVE  LET code == Check(h, Etag(file), file.mtime)
         IN  /\ (code = 304 /\ Lists(h.none)) => file.version = copy.version
             /\ (code \in {200, 304} /\ Lists(h.match)) => file.version = copy.version
             /\ (code = 304 /\ ~h.none.there /\ h.modified = copy.mtime) =>
                  file.mtime = copy.mtime
<1> DEFINE e == Etag(file)
           m == file.mtime
           code == Check(h, e, m)
<1>1. PICK f \in past : /\ copy.etag = Etag(f) /\ copy.mtime = f.mtime
                        /\ file = f => copy.version = f.version
  BY DEF Matched
<1>2. file \in past
  BY DEF History
<1>3. /\ e.opaque = Etag(f).opaque => file = f
      /\ e.opaque # <<0, 0, 0>>
  BY <1>2, TagsApart
<1>4. Etag(f).opaque # << >> /\ Etag(f) = Tag(FALSE, Etag(f).opaque)
  BY TagsApart DEF Etag, Tag
<1>5. h.match \in TagFields /\ h.none \in TagFields
  BY AskOf
<1> DEFINE o == Etag(f).opaque
<1>6. copy.etag = Tag(FALSE, o) /\ o # << >>
  BY <1>1, <1>4
<1>7. /\ code = 412 <=> ~MatchOk(h, e, m)
      /\ code = 304 => ~NoneOk(h, e, m)
  BY CheckIs
<1>8. \A t \in TagFields : Lists(t) => t.list[1] # Star
  <2> HIDE DEF o
  <2> QED BY <1>6, FieldOfTags
<1>9. ASSUME NEW t \in TagFields, Lists(t), NEW i \in DOMAIN t.list,
             e.opaque = t.list[i].opaque
      PROVE  file.version = copy.version
  <2>1. t.list[i].opaque \in {o, <<0, 0, 0>>}
    BY <1>6, <1>9, FieldOfTags
  <2> QED BY <1>1, <1>3, <1>9, <2>1
<1>10. ASSUME code = 304, Lists(h.none)
      PROVE  file.version = copy.version
  <2>1. ~NoneOk(h, e, m)
    BY <1>7, <1>10
  <2>2. h.none.good /\ h.none.there /\ h.none.list[1] # Star
    <3>1. h.none.good
      BY <1>10 DEF Lists
    <3>2. h.none.good => h.none.there
      BY <1>5, <1>6, FieldOfTags
    <3>3. h.none.list[1] # Star
      BY <1>5, <1>10, <1>8
    <3> QED BY <3>1, <3>2, <3>3
  <2>3. ~IfNoneMatch(e, h.none)
    BY <2>1, <2>2 DEF NoneOk
  <2>4. PICK i \in DOMAIN h.none.list : EqualWeak(e, h.none.list[i])
    BY <2>2, <2>3 DEF IfNoneMatch
  <2>5. e.opaque = h.none.list[i].opaque
    BY <2>4 DEF EqualWeak
  <2> QED BY <1>5, <1>9, <1>10, <2>5
<1>11. ASSUME code \in {200, 304}, Lists(h.match)
       PROVE  file.version = copy.version
  <2>1. MatchOk(h, e, m)
    BY <1>7, <1>11
  <2>2. h.match.good /\ h.match.there /\ h.match.list[1] # Star
    <3>1. h.match.good
      BY <1>11 DEF Lists
    <3>2. h.match.good => h.match.there
      BY <1>5, <1>6, FieldOfTags
    <3>3. h.match.list[1] # Star
      BY <1>5, <1>11, <1>8
    <3> QED BY <3>1, <3>2, <3>3
  <2>3. IfMatch(e, h.match)
    BY <2>1, <2>2 DEF MatchOk
  <2>4. PICK i \in DOMAIN h.match.list : EqualStrong(e, h.match.list[i])
    BY <2>2, <2>3 DEF IfMatch
  <2>5. e.opaque = h.match.list[i].opaque
    BY <2>4 DEF EqualStrong
  <2> QED BY <1>5, <1>9, <1>11, <2>5
<1>12. ASSUME code = 304, ~h.none.there, h.modified = copy.mtime
       PROVE  file.mtime = copy.mtime
  <2>1. ~IfModifiedSince(m, h.modified)
    BY <1>7, <1>12 DEF NoneOk
  <2>2. m <= copy.mtime
    BY <1>1, <1>2, <1>12, <2>1 DEF IfModifiedSince, History
  <2> QED BY <1>1, <1>2, <2>2 DEF History
<1> QED BY <1>10, <1>11, <1>12

(* A copy that is current, named by its tag, is taken for current. *)
LEMMA CurrentIsRight ==
  ASSUME History, Matched, file # NoFile, copy.etag = Etag(file), NEW h \in Requests
  PROVE  LET code == Check(h, Etag(file), file.mtime)
         IN  /\ (Names(h.match) \/ (~h.match.there /\ h.unmodified = NoDate)) => code # 412
             /\ (Names(h.none) /\ code # 412) => code = 304
<1> DEFINE e == Etag(file)
           m == file.mtime
           code == Check(h, e, m)
<1>1. file \in past
  BY DEF History
<1>2. Etag(file) # Star /\ Etag(file).weak = FALSE /\ Etag(file).opaque # << >>
  BY <1>1, TagsApart
<1>3. copy # NoCopy
  BY <1>2 DEF NoCopy
<1>4. h.match \in TagFields /\ h.none \in TagFields
  BY <1>3, AskOf
<1>5. copy.etag = Tag(FALSE, e.opaque)
  BY DEF Etag, Tag
<1>6. /\ code \in {200, 304, 412} /\ (code = 412 <=> ~MatchOk(h, e, m))
      /\ code = 200 => NoneOk(h, e, m)
  BY CheckIs
<1>7. ASSUME ~h.match.there, h.unmodified = NoDate
      PROVE  code # 412
  BY <1>6, <1>7 DEF MatchOk
<1>8. ASSUME Names(h.match)
      PROVE  code # 412
  <2>1. PICK i \in DOMAIN h.match.list : h.match.list[i] = e
    BY <1>8 DEF Names
  <2>2. IfMatch(e, h.match)
    BY <1>2, <2>1 DEF IfMatch, EqualStrong
  <2>3. h.match.there
    BY <1>2, <1>4, <1>5, <1>8, FieldOfTags DEF Names
  <2> QED BY <1>6, <2>2, <2>3 DEF MatchOk
<1>9. ASSUME Names(h.none), code # 412
      PROVE  code = 304
  <2>1. PICK i \in DOMAIN h.none.list : h.none.list[i] = e
    BY <1>9 DEF Names
  <2>2. h.none.good /\ h.none.there
    BY <1>2, <1>4, <1>5, <1>9, FieldOfTags DEF Names
  <2>3. ~IfNoneMatch(e, h.none)
    BY <2>1, <2>2 DEF IfNoneMatch, EqualWeak
  <2>4. ~NoneOk(h, e, m)
    BY <2>2, <2>3 DEF NoneOk
  <2> QED BY <1>6, <1>9, <2>4
<1> QED BY <1>7, <1>8, <1>9

-----------------------------------------------------------------------------
LEMMA CacheInvInit ==
  FileCacheInit => CacheInv
<1> SUFFICES ASSUME FileCacheInit PROVE CacheInv
  OBVIOUS
<1>1. PICK ino \in Inodes, size \in Sizes :
        file = [version |-> 1, ino |-> ino, mtime |-> 0, size |-> size]
  BY DEF FileCacheInit
<1>2. past = {file} /\ now = 0 /\ stat = NoFile /\ fd = NoFd /\ copy = NoCopy /\ ask = NoAsk
  BY DEF FileCacheInit
<1>3. file.ino \in Inodes /\ file.mtime = 0
  BY <1>1
<1>4. History
  BY <1>2, <1>3 DEF History
<1>5. Serving /\ Matched
  BY <1>2 DEF Serving, Matched
<1>6. CopyTrusted /\ CurrentRecognised
  BY <1>2 DEF CopyTrusted, CurrentRecognised, Answered
<1> QED BY <1>4, <1>5, <1>6 DEF CacheInv

(* What was answered stays right: it says nothing of the file of now. *)
LEMMA AnswersStay ==
  ASSUME CopyTrusted, CurrentRecognised, UNCHANGED <<copy, ask, stat, answer>>
  PROVE  CopyTrusted' /\ CurrentRecognised'
<1>1. CopyTrusted'
  BY DEF CopyTrusted, Answered, Lists
<1>2. /\ Answered' <=> Answered
      /\ Etag(stat)' = Etag(stat)
      /\ Names(ask.match)' <=> Names(ask.match)
      /\ Names(ask.none)' <=> Names(ask.none)
  BY Zenon DEF Answered, Etag, Names
<1>3. CurrentRecognised'
  BY <1>2 DEF CurrentRecognised
<1> QED BY <1>1, <1>3

LEMMA TickKeeps ==
  ASSUME CacheInv, Tick
  PROVE  CacheInv'
<1>1. now \in Nat /\ now' = now + 1 /\ UNCHANGED <<file, past, copy, ask, stat, fd, answer>>
  BY DEF Tick, CacheInv, History
<1>2. History'
  BY <1>1 DEF CacheInv, History, Key
<1>3. Serving' /\ Matched'
  BY <1>1 DEF CacheInv, Serving, Matched, Etag
<1>4. CopyTrusted' /\ CurrentRecognised'
  BY <1>1, AnswersStay DEF CacheInv
<1> QED BY <1>2, <1>3, <1>4 DEF CacheInv

(* The new content is the last to have changed and has no earlier tag. *)
LEMMA ChangeKeeps ==
  ASSUME CacheInv, Change
  PROVE  CacheInv'
<1>1. PICK ino \in Inodes, size \in Sizes :
        LET f == [version |-> Cardinality(past) + 1, ino |-> ino, mtime |-> now, size |-> size]
            fresh == \A old \in past : <<old.ino, old.mtime, old.size>> # <<f.ino, f.mtime, f.size>>
        IN  /\ fresh
            /\ file' = f /\ past' = past \cup {f}
            /\ fd' = IF fd.ino = ino /\ file.ino = ino /\ fd # NoFd THEN [fd EXCEPT !.version = Torn] ELSE fd
  BY DEF Change
<1>2. /\ file'.ino = ino /\ file'.mtime = now /\ past' = past \cup {file'}
      /\ \A old \in past : Key(old) # Key(file')
      /\ fd = NoFd => fd' = fd
  BY <1>1 DEF Key
<1>3. UNCHANGED <<now, copy, ask, stat, answer>>
  BY DEF Change
<1>4. History /\ Serving /\ Matched /\ CopyTrusted /\ CurrentRecognised
  BY DEF CacheInv
<1>5. \A old \in past : old # file'
  BY <1>2
<1>6. History'
  <2>1. \A f \in past' : f.ino \in Inodes /\ f.mtime \in Nat /\ f.mtime <= now
    BY <1>2, <1>4 DEF History
  <2>2. \A f, g \in past' : Key(f) = Key(g) => f = g
    BY <1>2, <1>4 DEF History
  <2>3. file' \in past' /\ \A f \in past' : f.mtime <= file'.mtime
    BY <1>2, <2>1
  <2>4. stat # NoFile => stat \in past'
    BY <1>2, <1>4 DEF History
  <2>5. now \in Nat
    BY <1>4 DEF History
  <2> QED BY <1>3, <2>1, <2>2, <2>3, <2>4, <2>5 DEF History, Key
<1>7. Serving'
  BY <1>2, <1>3, <1>4 DEF Serving
<1>8. Matched'
  <2>1. stat # NoFile => file' # stat
    BY <1>4, <1>5 DEF History
  <2>2. copy # NoCopy => \E f \in past' : /\ copy.etag = Etag(f) /\ copy.mtime = f.mtime
                                          /\ file' = f => copy.version = f.version
    BY <1>2, <1>4, <1>5 DEF Matched
  <2> QED BY <1>3, <2>1, <2>2 DEF Matched, Etag
<1>9. CopyTrusted' /\ CurrentRecognised'
  BY <1>3, <1>4, AnswersStay
<1> QED BY <1>6, <1>7, <1>8, <1>9 DEF CacheInv

LEMMA RemoveKeeps ==
  ASSUME CacheInv, Remove
  PROVE  CacheInv'
<1>1. file' = NoFile /\ UNCHANGED <<now, past, copy, ask, stat, fd, answer>>
  BY DEF Remove
<1>2. History /\ Serving /\ Matched /\ CopyTrusted /\ CurrentRecognised
  BY DEF CacheInv
<1>3. History'
  BY <1>1, <1>2 DEF History, Key
<1>4. Serving'
  BY <1>1, <1>2 DEF Serving
<1>5. \A f \in past : f # NoFile
  BY <1>2, TagsApart
<1>6. copy # NoCopy => \E f \in past : /\ copy.etag = Etag(f) /\ copy.mtime = f.mtime
                                       /\ file' = f => copy.version = f.version
  BY <1>1, <1>2, <1>5 DEF Matched
<1>7. Matched'
  BY <1>1, <1>6 DEF Matched, Etag
<1>8. CopyTrusted' /\ CurrentRecognised'
  BY <1>1, <1>2, AnswersStay
<1> QED BY <1>3, <1>4, <1>7, <1>8 DEF CacheInv

(* The answer is given on the file of now, which stat () saw. *)
LEMMA ServeKeeps ==
  ASSUME CacheInv, Serve
  PROVE  CacheInv'
<1> DEFINE code == Check(ask', Etag(file), file.mtime)
<1>1. /\ ask = NoAsk /\ ask' \in Requests /\ stat' = file
      /\ file = NoFile => answer' = 404
      /\ UNCHANGED <<now, file, past, copy, fd>>
  BY DEF Serve
<1>2. file # NoFile => /\ code = 412 => answer' = 411
                       /\ code # 412 => answer' = code
  <2>1. CASE file # NoFile /\ code = 412
    BY <2>1 DEF Serve
  <2>2. CASE file # NoFile /\ code # 412
    BY <2>2 DEF Serve
  <2> QED BY <2>1, <2>2
<1>3. code \in {200, 304, 412}
  BY CheckIs
<1>4. History /\ Serving /\ Matched
  BY DEF CacheInv
<1>5. History'
  BY <1>1, <1>4 DEF History, Key
<1>6. fd = NoFd
  BY <1>1, <1>4 DEF Serving
<1>7. Serving'
  BY <1>1, <1>2, <1>6 DEF Serving
<1>8. Matched'
  BY <1>1, <1>4, <1>6 DEF Matched, Etag
<1>9. CopyTrusted'
  <2> SUFFICES ASSUME file # NoFile, copy # NoCopy
               PROVE  /\ (answer' = 304 /\ Lists(ask'.none)) => file.version = copy.version
                      /\ (answer' \in {200, 304} /\ Lists(ask'.match)) => file.version = copy.version
                      /\ (answer' = 304 /\ ~ask'.none.there /\ ask'.modified = copy.mtime) =>
                           file.version = copy.version \/ file.mtime = copy.mtime
    BY <1>1 DEF CopyTrusted, Answered, Lists
  <2>1. /\ (code = 304 /\ Lists(ask'.none)) => file.version = copy.version
        /\ (code \in {200, 304} /\ Lists(ask'.match)) => file.version = copy.version
        /\ (code = 304 /\ ~ask'.none.there /\ ask'.modified = copy.mtime) =>
             file.mtime = copy.mtime
    BY <1>1, <1>4, TrustIsRight
  <2>2. answer' \in {200, 304} => answer' = code
    BY <1>2
  <2> QED BY <2>1, <2>2
<1>10. CurrentRecognised'
  <2> SUFFICES ASSUME file # NoFile, copy.etag = Etag(file)
               PROVE  /\ (Names(ask'.match) \/ (~ask'.match.there /\ ask'.unmodified = NoDate)) =>
                           answer' # 411
                      /\ (Names(ask'.none) /\ answer' # 411) => answer' = 304
    <3>1. Answered' => file # NoFile
      BY <1>1 DEF Answered, NoFile
    <3>2. stat' = file /\ copy' = copy
      BY <1>1
    <3>3. (copy.etag = Etag(stat))' => copy.etag = Etag(file)
      BY <3>2 DEF Etag
    <3>4. Names(ask.match)' <=> Names(ask'.match)
      BY <3>2 DEF Names
    <3>5. Names(ask.none)' <=> Names(ask'.none)
      BY <3>2 DEF Names
    <3> QED BY <3>1, <3>3, <3>4, <3>5 DEF CurrentRecognised
  <2>1. /\ (Names(ask'.match) \/ (~ask'.match.there /\ ask'.unmodified = NoDate)) => code # 412
        /\ (Names(ask'.none) /\ code # 412) => code = 304
    BY <1>1, <1>4, CurrentIsRight
  <2> QED BY <1>2, <1>3, <2>1
<1> QED BY <1>5, <1>7, <1>8, <1>9, <1>10 DEF CacheInv

(* open () finds the file of now, or none: then there is no content. *)
LEMMA OpenKeeps ==
  ASSUME CacheInv, Open
  PROVE  CacheInv'
<1>1. /\ ask # NoAsk /\ UNCHANGED <<now, file, past, copy, ask, stat>>
      /\ \/ fd' = [ino |-> file.ino, version |-> file.version] /\ answer' = answer
         \/ answer' = 404 /\ fd' = fd
  BY DEF Open
<1>2. History /\ Serving /\ Matched /\ CopyTrusted /\ CurrentRecognised
  BY DEF CacheInv
<1>3. History'
  BY <1>1, <1>2 DEF History, Key
<1>4. Serving'
  BY <1>1, <1>2 DEF Serving
<1>5. (fd' # NoFd /\ stat # NoFile /\ file = stat) => fd'.version = stat.version
  BY <1>1, <1>2 DEF Matched
<1>6. Matched'
  BY <1>1, <1>2, <1>5 DEF Matched, Etag
<1>7. CASE answer' = answer
  <2>1. CopyTrusted' /\ CurrentRecognised'
    BY <1>1, <1>2, <1>7, AnswersStay
  <2> QED BY <1>3, <1>4, <1>6, <2>1 DEF CacheInv
<1>8. CASE answer' = 404
  <2>1. CopyTrusted' /\ CurrentRecognised'
    BY <1>8 DEF CopyTrusted, CurrentRecognised
  <2> QED BY <1>3, <1>4, <1>6, <2>1 DEF CacheInv
<1> QED BY <1>1, <1>7, <1>8

(* What stat () saw is the file whose tag the new copy has. *)
LEMMA FinishKeeps ==
  ASSUME CacheInv, Finish
  PROVE  CacheInv'
<1>1. /\ ask # NoAsk /\ (Sending => fd # NoFd)
      /\ ask' = NoAsk /\ fd' = NoFd /\ stat' = NoFile
      /\ UNCHANGED <<now, file, past>>
  BY DEF Finish
<1>2. /\ Sending => copy' = [version |-> fd.version, etag |-> Etag(stat), mtime |-> stat.mtime]
      /\ ~Sending => copy' = copy
  BY DEF Finish
<1>3. History /\ Serving /\ Matched
  BY DEF CacheInv
<1>4. History'
  BY <1>1, <1>3 DEF History, Key
<1>5. Serving'
  BY <1>1 DEF Serving
<1>6. Sending => stat \in past
  BY <1>1, <1>3 DEF Sending, Serving, History
<1>7. Sending => \E f \in past : /\ copy'.etag = Etag(f) /\ copy'.mtime = f.mtime
                                 /\ file = f => copy'.version = f.version
  <2> SUFFICES ASSUME Sending
               PROVE  /\ stat \in past
                      /\ copy'.etag = Etag(stat) /\ copy'.mtime = stat.mtime
                      /\ file = stat => copy'.version = stat.version
    OBVIOUS
  <2>1. stat \in past
    BY <1>6
  <2>2. copy' = [version |-> fd.version, etag |-> Etag(stat), mtime |-> stat.mtime]
    BY <1>2
  <2>3. stat # NoFile
    BY <1>3, <2>1, TagsApart
  <2>4. file = stat => fd.version = stat.version
    BY <1>1, <1>3, <2>3 DEF Matched
  <2> QED BY <2>1, <2>2, <2>4
<1>8. copy' # NoCopy => \E f \in past : /\ copy'.etag = Etag(f) /\ copy'.mtime = f.mtime
                                        /\ file = f => copy'.version = f.version
  BY <1>2, <1>3, <1>7 DEF Matched
<1>9. Matched'
  BY <1>1, <1>8 DEF Matched, Etag
<1>10. CopyTrusted' /\ CurrentRecognised'
  BY <1>1 DEF CopyTrusted, CurrentRecognised, Answered
<1> QED BY <1>4, <1>5, <1>9, <1>10 DEF CacheInv

LEMMA CacheInvNext ==
  CacheInv /\ [FileCacheNext]_cacheVars => CacheInv'
<1> SUFFICES ASSUME CacheInv, [FileCacheNext]_cacheVars PROVE CacheInv'
  OBVIOUS
<1>1. CASE UNCHANGED cacheVars
  <2>1. UNCHANGED <<now, file, past, copy, ask, stat, fd, answer>>
    BY <1>1 DEF cacheVars
  <2>2. History' /\ Serving' /\ Matched'
    BY <2>1 DEF CacheInv, History, Key, Serving, Matched, Etag
  <2>3. CopyTrusted' /\ CurrentRecognised'
    BY <2>1, AnswersStay DEF CacheInv
  <2> QED BY <2>2, <2>3 DEF CacheInv
<1> QED BY <1>1, TickKeeps, ChangeKeeps, RemoveKeeps, ServeKeeps, OpenKeeps, FinishKeeps
        DEF FileCacheNext

LEMMA CacheInvariant ==
  FileCacheSpec => []CacheInv
BY CacheInvInit, CacheInvNext, PTL DEF FileCacheSpec

(* A copy that the conditions of a request (http-condition.cpp) made pass  *)
(* for current is the content that stat () saw, or by dates alone has its  *)
(* second: for any number of changes of the file between the two looks     *)
(* that get () takes at it (handler-file.cpp).                             *)
THEOREM CopyIsTrusted ==
  FileCacheSpec => []CopyTrusted
<1>1. CacheInv => CopyTrusted
  BY DEF CacheInv
<1> QED BY <1>1, CacheInvariant, PTL

(* A copy that is current and named by its strong tag is neither refused   *)
(* nor sent again, whatever dates come with it.                            *)
THEOREM CurrentIsRecognised ==
  FileCacheSpec => []CurrentRecognised
<1>1. CacheInv => CurrentRecognised
  BY DEF CacheInv
<1> QED BY <1>1, CacheInvariant, PTL
=============================================================================
