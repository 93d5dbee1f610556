---------------------------- MODULE MCConnection ----------------------------
(* Connection for TLC: the kinds of request that take different paths.     *)
EXTENDS Connection

Get == [line |-> "good", fields |-> "good", version |-> 11, host |-> TRUE, method |-> "GET",
        uri |-> "test", te |-> "none", cl |-> "none", size |-> 0, conn |-> "none", cond |-> 200]

GetFile   == [Get EXCEPT !.uri = "file"]
HeadFile  == [GetFile EXCEPT !.method = "HEAD"]
Unchanged == [GetFile EXCEPT !.cond = 304]
Failed    == [GetFile EXCEPT !.cond = 412]
Missing   == [Get EXCEPT !.uri = "none"]
Delete    == [Get EXCEPT !.method = "DELETE"]
Post      == [Get EXCEPT !.method = "POST", !.cl = "good", !.size = 2]
PostPage  == [Post EXCEPT !.uri = "file"]
Chunked   == [Get EXCEPT !.method = "POST", !.te = "chunked", !.size = 2]
Torn      == [Chunked EXCEPT !.te = "torn", !.size = 1]
BadLine   == [Get EXCEPT !.line = "bad"]
BadFields == [Get EXCEPT !.fields = "bad"]
NoHost    == [Get EXCEPT !.host = FALSE]
BadTe     == [Post EXCEPT !.te = "bad", !.cl = "none"]
OtherTe   == [BadTe EXCEPT !.te = "other"]
BadCl     == [Get EXCEPT !.method = "POST", !.cl = "bad"]
BigCl     == [BadCl EXCEPT !.cl = "big"]
GetBody   == [Get EXCEPT !.cl = "good", !.size = 1]
Close     == [Get EXCEPT !.conn = "close"]
Old       == [Get EXCEPT !.version = 10, !.host = FALSE]
OldKept   == [Old EXCEPT !.conn = "keep-alive"]

(* Every kind, one or two requests on a connection. *)
AllKinds == {Get, GetFile, HeadFile, Unchanged, Failed, Missing, Delete, Post, PostPage,
             Chunked, Torn, BadLine, BadFields, NoHost, BadTe, OtherTe, BadCl, BigCl,
             GetBody, Close, Old, OldKept}

AllPipelined    == {Get, GetFile, HeadFile, Chunked, Torn, Delete, BadLine, Close, OldKept}
PostKinds       == {Get, Post}
FailedKinds     == {Failed}

(* The connections that reach MaxKeepalive and ask once more. *)
LongSession == {Get, Chunked}
=============================================================================
