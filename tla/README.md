# epoll HTTP server: specifications, model checking and proofs

This directory holds TLA+ modules for the server in `src/`: a single process that
serves static files and a test page over HTTP/1.1 with edge triggered epoll. The
modules are translated from the C++ source; `PROJECT.json` maps every definition
to the lines it stands for, names what each run checks, and lists the hazards the
properties are for.

    tlc -workers 2 -config MCConnection.cfg MCConnection     # one run
    tlapm MplexProofs.tla                                    # the proofs of one part

## 1. The system

| Part | Source | State | Operations |
| --- | --- | --- | --- |
| rings in a vector | `server.hpp:36-88` | `prev`, `next` of every node; the first nodes head the rings | `resize`, `insert` (at the tail), `erase`, `empty` |
| multiplexer, handles and timers | `server.hpp:90-142`, `mplex-io.cpp` | a handle: `fd`, `handler_id`, `state`, `ev_mask`, `events`, `ev_permit`, `uptime`; rings FREE, WAIT, READY; the multimap `timers`; `looptime_` | `add_timer`, `mod_timer`, `stop_timer`, `run_timer` |
| multiplexer, epoll | `mplex-epoll.cpp` | the interest list of the epoll instance, `evset` | `add`, `drop`, `mod`, `del`, `wait` |
| server loop | `tcpserver.cpp` | connection objects on rings FREE and WAIT, the two signal flags, the cursor of the pass | `initialize`, `run`, `register_handler`, `remove_handler`, `shutdown` |
| connection | `http-connection.cpp` | the continuation (`kont`, `kont_ready`, `iowait_mask`), the read and write buffers, request, response, decoders, `keepalive_requests` | `on_accept`, `on_read`, `on_write`, `on_timer`, `on_close`, the `kont_*` functions |
| handlers | `handler.cpp`, `handler-file.cpp`, `handler-test.cpp` | none | `process`, `get`, `post`, `put`, the error pages |
| conditional requests | `http-condition.cpp` | none | `check` |
| message decoders | `decode-request-line.cpp`, `decode-request-header.cpp`, `decode-chunk.cpp` | state of an automaton, counters against limits, what was read so far; they live across reads | `put`, `clear`, `good`, `bad`, `partial` |
| field decoders | `decode-content-length.cpp`, `decode-simple-token.cpp`, `decode-token.cpp`, `decode-etag.cpp` | none after the call | the overloads of `decode` (`decode-token.cpp` is called by the tests only) |
| time, logging, HTML, header text | `time_*.cpp`, `logger.cpp`, `html-builder.*`, `http-response.cpp` | none | conversions and output |

How they interact. `run` is one thread. At the top of its loop it either lets
expired timers move handles to READY (`run_timer`, after SIGALRM) or waits for
epoll and moves reported handles there (`wait`). It then walks the READY ring once,
reading the successor of a handle before it calls the handler. The handlers call
back into the multiplexer (`mod`, `drop`, `mod_timer`, `del`), which moves and frees
handles while the walk goes on. `on_read` and `on_write` call `iotransfer`, which
runs continuations until one has to wait for the socket; the result of the *last*
system call and `iowait_mask` are all the caller learns. The kernel reports an edge
once: an event is kept in `handle.events` until a system call fails with EAGAIN.

What is hard here:

* interleavings with the kernel and the clients: an edge between the EAGAIN of a
  read and the `drop` that follows, or between a change of direction and
  `EPOLL_CTL_MOD`;
* shared rings changed under a running loop; `state` and ring of a handle differ,
  because `wait` and `run_timer` move a handle without writing `state`;
* handles and connection objects that are reused while timer entries of their
  former owner are still in the multimap;
* signals at any point: SIGALRM that is reset after the work, SIGINT anywhere;
* the byte stream: requests cut anywhere by reads, several requests in a buffer,
  answers cut anywhere by writes, and what is left in the buffer when an answer ends;
* a client that half-closes, resets, or says nothing;
* decoders of up to 28 states, written as tables of numbers, that compare counters with
  limits before or after they change them, and whose actions depend on the class of an
  octet or on the state it leads to, not always on the same of the two;
* a static file that changes between `stat`, `open` and `sendfile`, or between the
  answer a client keeps and the condition it asks with.

What makes each part correct: the rings stay rings and behave as queues; handle
state, ring, kernel registration and descriptor agree; no wakeup is lost; the
pass ends; each connection owns its handle and descriptor and gives them back;
time outs fire; requests are kept apart and answered once, in order, with the right
status and framing; every complete request is answered. A decoder takes what is well
written and within its limits, and only that, makes of it what the text says, and never
reads past its end; a chunked response is decoded to its body, or not taken for whole;
a path leads below the document root; a copy is taken for current only when it is.

## 2. Modules

| Module | What it is |
| --- | --- |
| `RingQueue` | abstract: what rings promise, one first-in first-out queue per head |
| `Ring` | the ring operations as operators on values |
| `RingInVector` | rings driven by arbitrary moves; implements `RingQueue` |
| `MplexIo` | the multiplexer's methods and the kernel's side as operators on a record |
| `Mplex` | the multiplexer driven by an arbitrary client |
| `TcpServer` | the loop and the event side of the connections, with clients, clock, signals and sockets; uses `MplexIo` |
| `ConnPool` | abstract: what the loop promises, clients that are admitted, served and closed |
| `HttpSession` | abstract: what a persistent connection promises its client |
| `Connection` | the continuations, the handlers' answers, the client's stream; implements `HttpSession` |
| `Octets` | classes of octets, as `server.hpp` and the decoders name them |
| `LineDecoder`, `HeaderDecoder`, `ChunkDecoder` | the message decoders, one `put` at a time |
| `FieldDecoders` | the four overloads of `decode`, one turn of their loops at a time |
| `Location` | `splitpath` and `catpath` |
| `ChunkedResponse` | the continuations that write a chunked response |
| `MessageSyntax` | no code: what a request line, a header, chunks, lists of tokens or tags and a path *are*, by quantifiers over the text and without automata |
| `Decoders` | each decoder fed octet by octet, and the chunked response with its reader; compares them with `MessageSyntax` |
| `Condition` | `condition_type::check` |
| `FileCache` | `get` against a file that changes and a client that asks with the conditions; uses `Condition` |
| `RingLemmas`, `MplexLemmas` | lemmas about the operators of `Ring` and `MplexIo`, used by the proofs of every module built on them |
| `RingProofs`, `MplexProofs`, `TcpServerProofs`, `ConnectionProofs`, `DecoderProofs`, `FileCacheProofs` | the theorems about each module, with their inductive invariants |
| `MC*` | values of the constants for TLC |

**Rings.** A ring value has `prev`, `next` and the history field `home`, the head
of the ring a node is on, which the code does not keep; `RingInv` says that the
links and `home` agree. `Relink` is the pair erase, insert that the code always uses
together.

**Multiplexer.** The methods are functions of a record `s` (the C++ object, with the
interest list and ready list of the kernel beside it), so that `Mplex` and
`TcpServer` share them. `armed` is the kernel's ready list; a wakeup of a file puts
its handle there, `epoll_wait` takes the edge triggered ones off it. `timers` is a
set of pairs (time, handle): the code's multimap may hold a pair twice, and the two
do the same.

**Loop.** `pc` is where `run` is. A step is one stretch between system calls:
`Iotransfer` is the system call, `Progress`, `NoProgress` and `Hangup` are what
`on_read` and `on_write` do with its result, and the clients may act in between.
What a connection does with the octets is left open: after a successful call it
waits for either direction.

**Connection.** The other side of that contract. `iotransfer` runs
continuations while `io.ready`, and each is an action. A request travels as tokens
(line, header, pieces of the body, end of the chunks); the decoders take whole
tokens, and `partial` means that the token has not arrived. A read returns any
prefix of what is in the socket up to `BufferSize`, a write takes any part. What the
server distinguishes of a request is the record `RequestType`; the verdict of
each field decoder and of the file's conditions is one of its fields.

**Decoders.** A decoder is a record of the fields its `put` keeps from one octet to the
next; `Put(o)` is the step. The tables `SHIFT` are written out as the moves they make,
octets stand for themselves where the value matters (digits, letters to be made small)
and for their class elsewhere. After an error or the end of its text a decoder is given
nothing more, as the continuations do. `src` is the text so far: the properties compare
the decoder at *every* prefix with the definition of what the text says, so it does not
matter where reads cut it. `Connection` uses only the verdicts; what it assumes of the
decoders (a decoder stops at the end of its part, and takes whole tokens) is what
`LineAsWritten`, `HeaderAsWritten` and `ChunksAsWritten` show.

**Files.** `FileCache` splits `get` where the file system may act: `Serve` is up to
`stat`, `Open` is `open`, `Finish` the end of `sendfile`. The client's etag comes from
`stat`, its content from the descriptor, so the two may be of different files.

`TcpServer` and `Connection` meet at `iotransfer`: `Connection` establishes that the
mask a connection waits with is that of its next system call (`WaitsForItsCall`),
and `TcpServer`, which leaves the choice of the mask open, that the mask is what
epoll watches (`MaskIsIowait`) and that a connection which can make progress will
be called (`WakeupKept`, `InputRead`).

## 3. Runs

| Run | Properties | Shows |
| --- | --- | --- |
| `rings` | `RingInv`, `ImplementsQueue` | rings with four movable nodes: linked at all times, and a queue per head |
| `mplex` | `MplexTypeOK`, `RingsAgree`, `NoLostWakeup`, `KernelAgrees`, `MovesOneHandle` | any order of calls, events and ticks; a file epoll refuses (EPERM); each step moves at most one handle, to the tail of a ring |
| `server_one` | `Ownership`, `Capacity`, `ShutdownClosesAll`, `InterruptStops`, `ImplementsPool` | two connections at once, five clients: objects, handles and descriptors used again, every failure of the kernel, SIGINT; the loop is a pool of connections |
| `server_two` | `TcpServerTypeOK`, `MaskIsIowait`, `CursorOnReady`, `WakeupKept` | two connections at once, input in two parts |
| `server_time` | `LifetimeBounded`, `EveryConnectionCloses`, `PassEnds`, `InputRead`, `ClientAccepted` | clock and alarms, stale timer entries; liveness of the loop |
| `server_early` | `TimerIsDue` (violated) | a time out before its time, see 6 |
| `conn` | `ConnectionTypeOK`, `RequestsKeptApart`, `FramedByLength`, `FilesAccounted`, `WaitsForItsCall`, `EofAnswersAll`, `ImplementsSession`, `EveryRequestAnswered` | 22 kinds of request, alone and pipelined, streams cut anywhere, a second client on the object, three requests where two are allowed; no complete request is left in a buffer |
| `conn_post` | `RequestsKeptApart` (violated) | a request after a POST, see 6 |
| `conn_failed` | `PreconditionFailed412` (violated) | the status of a failed precondition, see 6 |
| `decoders` | `DecodersTypeOK`, `LineAsWritten`, `HeaderAsWritten`, `ChunksAsWritten`, `ChunksRoundTrip`, `LengthAsWritten`, `TokensAsWritten`, `ElementsAsWritten`, `PathAsWritten` | each decoder on every text of a few octets of each class; the chunked response and its reader |
| `chunk_overrun` | `ExactChunks` (violated) | data past the size of a chunk, see 6 |
| `file_cache` | `CopyTrusted`, `CurrentRecognised` | a file that changes at any moment, every combination of conditions |

Bounds and why they are enough.

* `rings`: four nodes besides the heads: a move between neighbours, non-neighbours,
  the only node and the last node all occur.
* `mplex`: `MaxEvents = 2` handles, one pollable file and one that is not, three
  triggers, time 0 and 1. A method touches one handle and its neighbours; two
  handles give the ring every shape those neighbours can have.
* `TcpServer`: `MaxConnections = 2` means one usable connection object (two nodes of
  the vector are heads), 3 means two. `MaxRx` reads' worth of input, `MaxClients`
  clients, so that objects, handles and descriptors are reused. `MaxTime` ends the
  clock; `Timeout` is 1 or 2 ticks instead of 60. `server_one` has five clients and no
  input but its end (`MaxRx = 0`), so that two objects are used up to three times
  each; `server_two` has two clients with two reads' worth of input each, for the
  changes of mask and the moves on READY. The constants KernelFails,
  FcntlFails and Signals switch sources of failure, so that each run
  concentrates on one question.
* `Connection`: two requests on a connection, three when they are of the kinds
  `Repeated`, buffers of two
  tokens, header and page written in up to two parts, `MaxKeepalive = 2` for 5, so
  that the last allowed request occurs and is followed by another. Every kind of
  request of `AllKinds` may follow every other that permits it. A POST or PUT with a
  content-length is not followed at once in `conn`: that is the case
  `conn_post` shows. Files do not change while they are sent (`FileChanges`); with
  TRUE, `FramedByLength` fails, as `sendfile` sends what it finds.
* `Decoders`: a text has at most `MaxLen` octets (16 for a line, 14 for a header, 18 for
  chunks, 6 to 9 for the fields and the path), and the octets offered in a state are
  those its row of the table tells apart, with one that is refused (`MCInputs`). The
  limits are small enough to be met: 15 octets for a line, 2 fields of 11 octets, lengths
  to 21, sizes of chunks compared with 2. Sizes of two digits, and with letters, are read
  from the chunked responses of 11, 16 and 17 octets, with chunks of at most 16. A file
  that became shorter misses one or two octets (`SizeLies`).
* `FileCache`: three contents of one name, of two inodes, two sizes and two seconds, so
  that each part of an etag alone is seen to matter, and a file can change twice within
  an answer or within a second. It assumes that two contents of the same inode, size
  and second do not occur (`fresh`): an etag cannot tell them apart.
* Deadlock is not checked where the program or the bounded client may end: after
  SIGINT or a failing `epoll_wait`, when the clients of the bound are gone, and when a
  decoder has come to its end.

Fairness. `FairSpec` of `TcpServer` assumes that the loop's thread runs (weak
fairness of the loop as a whole: it is one thread and every call it makes returns,
`epoll_wait` after a second at the latest) and that the interval timer ticks
(strong fairness of `Tick`, which is confined to two places of the loop only because
it commutes elsewhere). Clients owe nothing: they may be silent for ever.
`ConnectionFairSpec` assumes that the server calls a connection whose event is
ready, which is what `InputRead` and `WakeupKept` show of the loop, and that a
client takes what is written to it; a client that does not is given up by the time
out.

## 4. Properties worth a comment

* `WakeupKept`: when a socket can make the progress its connection waits for, the
  connection is on READY with the event, or epoll is about to report it, or a
  handler is at work. With edge triggers this is what a late `drop` or a missing
  `mod` breaks, and only with unlucky timing.
* `Ownership`: no two connections share a handle or a descriptor, and each handle in
  use has its owner. It also holds when `fcntl` fails in `on_accept`, where `on_close`
  deletes the handle that the object had in its previous life. In every state of
  `server_one` that handle is still free then, and the multiplexer refuses the
  call: objects and handles are both taken from the front of their rings and given
  back at the tail. Nothing in `on_accept` itself guarantees it.
* `CursorOnReady`: `next_i` never leaves READY. It holds because a handler moves no
  handle but its own, save `on_accept`, which links a fresh one.
* `LifetimeBounded`: no connection outlives TIMEOUT after its accept. It holds only
  because of the defect that `TimerIsDue` shows: `mod_timer` makes no timer entry
  for a handle whose `state` is READY, so a `stop_timer` that really removed the
  old entry would leave connections without any (this is the mutant).
* `RequestsKeptApart`: at its dispatch a request has its own body, and the next
  octet of the stream, wherever it is, begins the next request.
* `EofAnswersAll`: a client that half-closes after its requests loses no answer.
* `ImplementsSession`: each finished answer is a step of `HttpSession`, which allows
  the statuses `Deserves` lists for the request and stops after the last one.
* `ImplementsPool`: seen from outside, the loop admits one waiting client at a time, to a
  descriptor and an object no other has, and is down only after it closed every one. The
  mapping reads the sessions off the ring of used objects; the steps of the multiplexer
  stutter.
* `ChunksAsWritten`: at every prefix, the decoder has failed, wants more or has ended
  exactly when the text says so, and the body is that of the chunks. Texts whose chunk
  holds more than its size are left out; they are the finding of `chunk_overrun`.
* `HeaderAsWritten`: the same for the fields, with continued lines and repeated names. A
  line that begins with an octet no name begins with is left out (`OddLines`), see 6.
* `ChunksRoundTrip`: a reader of a chunked response, cut off anywhere, has a prefix of the
  body, and takes it for complete only when it is, also if the file became shorter.
* `LengthAsWritten`: a content-length that is a list is taken only if all its numbers are
  the same, so that it is never open where the next request begins.
* `TokensAsWritten`: a list of tokens is taken exactly when it is one, and gives its tokens.
* `ElementsAsWritten`: a parameter belongs to the token it follows, and a separator in a
  quoted value separates nothing; a list of tags that is taken is not empty, which
  `if_none_match` relies on when it reads the first tag.
* `PathAsWritten`: an accepted path has no empty name, no `.` and no `..`.
* `CopyTrusted`: a 304, or an If-Match that passes, means the very content the client
  has, although its etag and its content may come from different moments.
  By dates alone a change within the second goes unnoticed, which the property allows.
* `CurrentRecognised`: a client that names its current copy by tag is neither refused nor
  sent it again, whatever dates it adds.

## 5. Proofs

Every safety invariant a run checks is also proved for all values of the constants, but
for some of what the decoders make of a text (the last list of this section); so are
the refinements of `RingQueue`, `ConnPool` and `HttpSession`. The only assumptions are those the modules name, which TLC
evaluates on every run, and the hypotheses written in a theorem.

| Module | Theorem | States |
| --- | --- | --- |
| `RingProofs` | `RingsStayLinked`, `RingsAreQueues` | `RingInv`, `ImplementsQueue` |
| `MplexProofs` | `MplexTyped`, `RingsFollowState`, `NoEventParked`, `KernelListInStep` | `MplexTypeOK`, `RingsAgree`, `NoLostWakeup`, `KernelAgrees` |
| | `HandlesAreQueued` | `MovesOneHandle` |
| `TcpServerProofs` | `TcpServerSafe` | the inductive invariant |
| | `TcpServerTyped`, `EveryFileOwned`, `RegisteredForIowait`, `CursorStaysOnReady` | `TcpServerTypeOK`, `Ownership`, `MaskIsIowait`, `CursorOnReady` |
| | `NoWakeupLost`, `NobodyOutlivesTimeout`, `FreeObjectHasHandle`, `NothingLeftOpen` | `WakeupKept`, `LifetimeBounded`, `Capacity`, `ShutdownClosesAll` |
| | `ServerIsAPool` | `ImplementsPool` |
| `ConnectionProofs` | `ConnectionSafe`, `NoFileForgotten` | `WaitsForItsCall`, `FilesAccounted` |
| | `AnswersFramed` (files do not change) | `FramedByLength` |
| | `RequestsSeparate`, `EofLosesNone`, `ConnectionTyped` (`LengthsTold`, `PostsAlone`) | `RequestsKeptApart`, `EofAnswersAll`, `ConnectionTypeOK` |
| | `ConnectionIsASession` (the same) | `ImplementsSession` |
| `DecoderProofs` | `DecoderLimits` | `DecodersTypeOK` |
| | `LinesRead`, `ResponsesRead`, `PathsNamed` | `LineAsWritten`, `ChunksRoundTrip`, `PathAsWritten` |
| | `LengthsAgree`, `TokensListed`, `ChunksDelimited` | `LengthAsWritten`, `TokensAsWritten`, `ChunksAsWritten` |
| `FileCacheProofs` | `CopyIsTrusted`, `CurrentIsRecognised` | `CopyTrusted`, `CurrentRecognised` |

**Rings.** `RingLemmas` says what `Erase`, `Insert` and `Relink` do to links and homes,
for any set of nodes. Links and homes alone do not say that a node can be *reached* from
its head: four nodes may be linked in a circle under a head that is not on it. `Rooted`
says so without recursion: no set of nodes without a head is closed under `prev`. From
it follow that only a head is ever alone (`RootedNotAlone`) and that a head which is
alone has nothing (`RootedEmpty`), which `Capacity` and `ShutdownClosesAll` need.

`RingsAreQueues` and `HandlesAreQueued` are about the whole of a ring, not about
neighbours: the queue of a head is what `Walk` meets on the way along `next` until it
is back at the head. `Walk` is a function on the number of steps that are left, so that
what it meets is shown by induction on that number (`WFMin` of the library, for the set
of the numbers for which it fails); `WalksEnd` says the steps suffice for each ring. A
move takes one node out of its walk, which leaves the rest in order (`Without`), and
puts it in front of the head, so last.

**Multiplexer.** None of the four invariants is inductive alone. `MplexLemmas` puts them
together as `Sound(s)`: the rings are linked and rooted, and each handle is `HandleOK`
(`home` and `state` agree but for a handle that was moved to READY while its `state`
says WAIT; a handle that waits has no event it is enabled for; a registered one is in
use). There is one lemma per method (`AddSound`, `DropSound`, `ModSound`, ...), built on
two: `MoveSound`, when the method relinks the handle, and `StaySound`, when it does not.
`MplexIInv` adds that `evset` holds registered handles only. The lemmas also say what a
method leaves alone, which is what `TcpServerProofs` uses them for.

**Server loop.** `TcpServerIInv` joins the objects, the handles, the sockets, the kernel
and the place of the loop. Besides types and `Sound(m)`:

* `Owners`: a connection that is served, its handle and its descriptor name each other,
  and there is no open descriptor or handle in use beyond these and the listener's;
* `Registrations` and `Settling`: a handle's mask, its registration and the direction
  its connection waits for, at rest and between a system call and what the handler makes
  of its result;
* `Lockstep`: objects and handles are taken from the front of their rings FREE and come
  back at the tail, so that from the second free handle on the ring of handles is the
  image of the ring of objects (`InStep`, by a function from free objects to handles).
  This is why a failing `fcntl` in `on_accept`, which makes `on_close` delete the handle
  of the object's *previous* life, deletes nothing (section 4, `Ownership`), and why a
  free object always finds a handle (`Capacity`);
* `Lives` and `InTime`: the first timer entry of a connection is still in the multimap
  or has been noticed; when an alarm was handled, all handles noticed are a piece of
  READY that begins at the cursor (`Ahead`: closed under `prev` down to the cursor), so
  that the pass that begins reaches each before the loop waits again, whatever the
  handlers do to the ring on the way.

The proof that a step keeps the invariant first reduces the step to what it leaves alone
(`BooksKept`: nobody comes or goes; `Calm`: no registration changes; `PassedBy`,
`Welcomed`, `Removed`: what a pass, `on_accept` and `remove_handler` come to), then has a
lemma for each conjunct.

`ServerIsAPool` is the refinement of `ConnPool`. Its mapping reads the sessions off the
open sockets, by their owner; `Gone` (what `shutdown` has closed has no descriptor) and
the invariant make that the same as what the connections hold (`SessionsServed`). Each
action is then a move of the pool (`PoolMoves`) or a stutter.

**Connection.** Four invariants, each built on the one before.

* `ConnectionInv`: a connection runs in memory or waits with the mask of its call
  (`IoOK`); a file is open only from dispatch to the end of the answer (`FilesOK`);
  every token on its way, and the request at work, is of a request the client made
  (`StreamOK`).
* `AnswersOK`: what a header announces is what there is to send, what was sent plus what
  is left is the announced length, and only the last answer is not over. For
  `FramedByLength` the theorem asks that no file changes (`~FileChanges`): with TRUE TLC
  finds it violated (section 3).
* `Stream`: where the server is in the octets of the client. `InStream` says there are a
  sequence `W`, all that this client sent or will send of the requests made so far, a
  function `f`, where in it each request begins, and a number `a`, what the server has
  taken, such that the buffer, the socket and what is to be sent are `W` from `a` on
  (`From`), each request stands in `W` with its own tokens (`Follows`), and `a` is where
  the continuation must be: behind the line, behind the header, behind as much of the
  body as was taken, or at the beginning of the next request (`Place`). It is a history of
  what the reads have cut up, and every lemma about a step moves `a`, or makes `W` longer.
  `OrderOK`, `BodyOK` and `SidesOK` hold the number of the request, its body, and the
  state of both sides beside it.
* `Service`: the answer is `Judged`, `Typed` and `Kept`. `Judged` follows the verdict
  from the line to the answer: from dispatch or refusal on, the code is one the request
  deserves, it closes the connection when the code must, and it is in the request's
  version (`Fitting`). That the handlers' choices are those of `Deserves` is shown by
  itself, as lemmas about the two definitions (`RefusalDeserved`, `DispatchedSound`,
  `DispatchDeserved`). `Kept` counts the answers and says none is given after the last.

`RequestsSeparate`, `EofLosesNone`, `ConnectionTyped` and `ConnectionIsASession` have two
hypotheses about the requests a client makes. `LengthsTold`: one with neither
content-length nor transfer-encoding has no body, as HTTP defines it. `PostsAlone`: none
is pipelined behind one whose body is read by `kont_request_length`; without it the
code fails, which run `conn_post` shows. The constants of run `conn` satisfy both.
`ConnectionIsASession` maps the finished answers to those of `HttpSession`: only
`KontResponseEnd` adds one, and by `Service` it is the next, deserved, allowed and, if it
must be, the last.

**Decoders.** `DecoderLimits`: for any octets, texts of any length, and any limits under the
assumptions of the modules, no counter passes its limit by more than the one that makes
the decoder fail, and no size or length overflows what its limit allows. The invariant
is `DecodersInv`, one conjunct per decoder (`ChunkKept`, `LineKept`, `HeaderKept`,
`LengthKept`). The reader of a chunked response takes a part of any length in one step,
by `FoldLeft`. A fold is reasoned about by its *trace*, the function from 0..n to the
values it takes on the way: `FoldTrace` says there is one, `FoldedTrace` that its last
value is the fold, and both are shown by induction over the length (`AllNumbers`, from
the library's `WFMin`).

The others say what a decoder has made of the text, each with an invariant that
says of every state what has been read to get there:

* `LineInv`: the text is a method, a target and a version with what stands between them
  (`LineText`), as far as the state has got, the pieces are those the decoder holds, and
  `LaidOut` makes this the only way to cut the text, which is why a refused text is no
  request line.
* `ResponseInv` (`Follows`): what the writer has still to send leads the reader from
  where it is to where the writer's continuation says: the octets of a size line to state
  12 with that size (`ReadsSize`), the data back to a line end, the last chunk to the end
  (`Leads`, composed along the text). So however the writes are cut, the reader's body is
  always the part of the content that was taken. `SizesFit` is assumed: no part is
  so long that the reader's limit refuses its size.
* `PathInv` (`PathReads`, `PathEnds`): the text so far obeys the rule for the marks and the slash
  (`PathSoFar`); the directories and the name are its division at the slashes
  (`PathDivided`) and the extension is what follows the name's last dot (`PathExt`). The
  division and the joining of the directories into a path are folds, and one more octet
  is one more step of their traces (`SplitFold`, `PathJoins`).
* `TokensInv` and `LengthInv` share `InList`. `Separated`: every part between commas but the
  last, trimmed, is an element or empty, and the state says of the last whether it is
  blank, goes on or is over. `Gathered`: the runs of element octets, those that are over
  and the one that goes on. A decoder of tokens holds the former in small letters. One
  of lengths has found each of the former to be the number it keeps, and the value of
  the latter so far; it fails by 413 only for a number too large, since a prefix of a
  number is no greater than the number.
* `ChunkInv`: the verdict on a message is a recursion from its end, the decoder begins at
  the other. So the invariant speaks of all texts that the present one may become:
  `Through(t, p, B)` says that for *every* text that extends `t` the verdict is the one
  from `p` on with the body `B` put in front (`Verdicts` has the values of the recursion).
  What stands from `p` on is a size line, data or the trailer as far as the state has
  got (`SizePart`, `DataPart`, `TrailerPart`). The line end of a chunk's data is what moves
  `p`. A text that is an overrun stays one whatever follows (`Overruns`).

**Files.** `CacheInv` has the history of the files there were (`History`), `get` at work
(`Serving`), and `Matched`: what was opened under a name whose file is still the one
`stat` saw is that file's content. A client's tag and content may be of different files,
but then the file of the tag is gone and does not come back; so a request whose
condition names the tag can pass only on a copy that is right. `FileCacheAssumption`
includes that no inode has number 0, which the tag of no file relies on.

Only model-checked, and why:

* liveness under fairness (`InterruptStops`, `EveryConnectionCloses`, `PassEnds`,
  `InputRead`, `ClientAccepted`, `EveryRequestAnswered`): beyond this prover;
* `HeaderAsWritten` and `ElementsAsWritten`: what the text says is written with folds over the
  parts of folds, `CHOOSE` and `SelectInSeq`; the invariants would have to follow each of
  them, as `PathInv` follows two;

## 6. Disagreements found

* `server_early`: `stop_timer` (`mplex-io.cpp:65`) clears `uptime` before it searches the
  multimap for it, so it never removes an entry. A connection that was active a
  second ago is closed when the entry made at its accept expires.
* `conn_post`: `kont_request_length` (`http-connection.cpp:319`) takes up to
  `content_length` octets of each buffer instead of what the body still lacks. When a
  read splits a body and the next also brings the next request, the beginning of
  that request ends up in the body.
* `conn_failed`: `precondition_failed` (`handler.cpp:117`) sends 411 where its caller, the
  condition's tests and the table of reasons say 412.

* `chunk_overrun`: the comment on state 12 (`decode-chunk.cpp:30`) takes as many octets as
  the size says. The table leads from state 12 to itself for the octets of class 1 as
  well (line 97), and line 146 appends them: `(`, `)`, `,`, `/` and others are taken for
  data past the size of the chunk.

Other effects are visible in the models but make no run of their own:

* a descriptor of a file that is being sent is lost when its client leaves (`on_close`;
  `FilesAccounted` counts them);
* the table of the header decoder (`decode-request-header.cpp:63`) begins a name after the
  first line with any visible character, where the comment above it (line 48) says tchar;
  `OddLines` leaves these texts out of `HeaderAsWritten`;
* the first field of a header may have one octet less than the others
  (`HeaderAsWritten` states it so);
* nothing in the repository sends a chunked response: `ChunkedResponse` models
  continuations that wait for a handler to ask for them.

## 7. Not modelled, and the plan

Not modelled: the conversion of dates (`time_*.cpp`), the text of a response header, the
logger and the HTML builder, `mime_type`: conversions and output on which no control
depends. The sockets API appears by the outcomes of its calls only. EINTR is modelled in
the loop, where it matters, and not in `Connection`. Clients, public files, tests and
build files are not part of the program; the tests were read for what they say of it.

Done: rings, multiplexer, loop, connection, decoders, conditions and files, with the
abstract specifications `RingQueue`, `ConnPool` and `HttpSession`.

Proved: the safety invariants of all of them and the refinements of `RingQueue`,
`ConnPool` and `HttpSession`, with the exceptions section 5 lists. What remains:

1. proofs of `HeaderAsWritten` and `ElementsAsWritten`;
2. `RequestsSeparate` for a POST that is followed by requests, when no read brings more
   than its body: the exact condition under which `kont_request_length` is right.
