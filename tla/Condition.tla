------------------------------- MODULE Condition -------------------------------
(***************************************************************************)
(* condition_type (http-condition.cpp): the conditions of a request        *)
(* against the entity tag and the time of last change of a file.  A field  *)
(* of tags is a record of what decode () makes of it (module               *)
(* FieldDecoders); a date is a time, or says why there is none.            *)
(***************************************************************************)
EXTENDS Integers, Sequences

Tag(weak, opaque) == [weak |-> weak, opaque |-> opaque]
Star              == Tag(FALSE, << >>)      \* the list "*"

NoField       == [there |-> FALSE, good |-> FALSE, list |-> << >>]
Field(list)   == [there |-> TRUE,  good |-> TRUE,  list |-> list]
BadField      == [there |-> TRUE,  good |-> FALSE, list |-> << >>]

NoDate  == -2      \* no such field
BadDate == -1      \* what time_decode returns for a date it cannot read

EqualStrong(t, x) == ~t.weak /\ ~x.weak /\ t.opaque = x.opaque
EqualWeak(t, x)   == t.opaque = x.opaque

(* The four conditions; each is TRUE for OK. *)
IfMatch(etag, f) ==
  \/ ~f.good
  \/ f.list # << >> /\ f.list[1] = Star
  \/ \E i \in DOMAIN f.list : EqualStrong(etag, f.list[i])

IfNoneMatch(etag, f) ==
  \/ ~f.good
  \/ f.list[1] # Star /\ \A i \in DOMAIN f.list : ~EqualWeak(etag, f.list[i])

IfUnmodifiedSince(mtime, since) == since < 0 \/ mtime <= since
IfModifiedSince(mtime, since)   == since < 0 \/ mtime > since

(* Wrong variant of MatchOk: the date decides although there are tags. *)
MatchOkBoth(h, etag, mtime) ==
  /\ h.match.there => IfMatch(etag, h.match)
  /\ h.unmodified # NoDate => IfUnmodifiedSince(mtime, h.unmodified)

(* A date decides only where there are no tags. *)
MatchOk(h, etag, mtime) ==
  IF h.match.there THEN IfMatch(etag, h.match)
  ELSE h.unmodified # NoDate => IfUnmodifiedSince(mtime, h.unmodified)

NoneOk(h, etag, mtime) ==
  IF h.none.there THEN IfNoneMatch(etag, h.none)
  ELSE h.modified # NoDate => IfModifiedSince(mtime, h.modified)

(* check (method, header), for GET and HEAD: no other method gets here. *)
Check(h, etag, mtime) ==
  CASE ~MatchOk(h, etag, mtime)                              -> 412
    [] MatchOk(h, etag, mtime) /\ ~NoneOk(h, etag, mtime)    -> 304
    [] MatchOk(h, etag, mtime) /\ NoneOk(h, etag, mtime)     -> 200
=============================================================================
