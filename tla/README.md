# TreasureChest: verification project

TreasureChest is an iOS toolbox in Objective-C: small subsystems (downloading,
sockets, recording, timers, media and drawing tools) with a demo screen each.
Most of the repository is vendored or third-party. This directory holds TLA+
models of the author's own logic, the TLC configurations that check them, and
the TLAPS proofs about them.

- `PROJECT.json` lists components, runs, mutants, the map from definitions to
  source lines, findings, hazards and theorems.
- `tlc -config X.cfg M` checks a run, `tlapm M.tla` checks a proof module.

## 1. Inventory

Paths are under `src/`. "Main queue" is the main dispatch queue.

| Component | State it keeps | Operations | Interacts with | What is hard |
|---|---|---|---|---|
| DownloadManager (`TreasureChest/待归类/下载相机的proRes照片/Download`) | queue, done and failed lists, the info being downloaded, socket, cached file and handle, paused flag | add, remove, resume, pause, redownload; socket callbacks; save results | GCDAsyncSocket (delegate blocks on the main queue), photo library (handler on its own thread), delegate (DownloadViewModel) | blocks that run after the state they were posted for is gone |
| DownloadViewModel / -Controller (same folder) | table contents | forwards resume/pause, adds the demo item, also from inside `failedDownload:` | DownloadManager | re-entrancy |
| HttpRequestQueue (`TreasureChest/ThirdModule/EasyGCDAsyncSocket/EasyTCPSocket`) | pending requests, current request, socket, lost count, inner-disconnect flag | add, connect, disconnect, cancel, socket callbacks | GCDAsyncSocket | backlog shedding, answers after a disconnect, a completion per request |
| EasyGCDAsyncSocket (same folder) | socket, host, tag | connect, send, receive | GCDAsyncSocket (delegate on a concurrent queue) | tags of old connections |
| ICamController, ICamServer, ICamTcpRelay, ICamConnection (`ZZZ_OtherDemo/07-TestSpeedDemo/icam`) | channel numbers taken, channels in use, channels to announce, the link | connect, send and close a local connection; camera connects, is lost, answers; pause, resume | GCDAsyncSocket on both sides, the camera | numbers used again while frames are under way, a link lost without notice |
| EasySocketQueuesManager (`ZZZ_OtherDemo/07-TestSpeedDemo/EasyTCPSocket`) | one request queue per host | connect, stop all | a copy of HttpRequestQueue | the host is set after the lookup |
| RequestQueue, Request, SocketHttpsController (`TreasureChestDemo/.../TabSecond/GCDSocketHttps`) | two lists of requests, current request, header, socket, cookie | request, cancel, digest login with one retry | GCDAsyncSocket over TLS | unsigned content length, header of an earlier answer, requests made inside completions |
| ResidentThread (`TreasureChest/Tool/ThreadResident`) | thread, semaphore and its count, action list, timer | start, cancel, push an action | run loop of its own thread | unguarded shared counter and list |
| MediaRecorder, ScreenRecorder (`TreasureChest/Tool/MediaRecorder`) | writer, recording flag, two semaphores | start, stop, pause, render and append frames | AVAssetWriter, render and append queues | semaphores on early returns, stop while frames are in flight |
| LottieLoader, LottieLoaderManager (`TreasureChest/Tool/LottieLoader`) | at most five loaders, current loader | load, play, evict, clean | CoreAnimation | current loader outside the cache |
| URLDownloadTask with the screen URLSessionTaskCtl, URLOfflineDownloadTask (`TreasureChest/Tool/DownloadUpload`) | task, resume data or file offset | start, pause, continue, stop | NSURLSession | resume data arrives after pause; refused ranges |
| PingManager, CameraStatusLoop (`TabSecond/PingController`) | ping, timer, two sockets | start, stop, results | SimplePing | timer of a failed ping |
| DelayTimer (`TreasureChest/Tool/Timer`) | timer, countdown, block | start | MSWeakTimer | restart while running |
| FMDBManager, FMDictManager (`TreasureChest/ThirdModule/FMDB`) | database queues | copy, query | SQLite | - |
| UDP, web socket and BSD socket wrappers; audio; pixels and OpenGL; charts, files, regular expressions; views and categories; demo screens | little or none of their own | - | system frameworks | - |

Correctness in a phrase each: *DownloadManager* - every item asked for is
downloaded, failed aloud or removed, saves only whole files, never mixes two
items. *HttpRequestQueue, RequestQueue* - requests are served in order, each
completes at most once and with its own answer, none waits for ever.
*ResidentThread* - an action pushed is run in the order of its number or
discarded, never left. *ICam tunnel* - data stays with its connection and in
order, and every connection is linked or closed in the end. *Recorders* - after any stop the next recording records.
*LottieLoaderManager* - the cache stays within its bound and holds what is
shown. *URL tasks* - the file is a prefix of the resource. *EasyGCDAsyncSocket* -
no message of an old host is posted, and reading never stops while connected.

## 2. Plan

Order: what carries the most behaviour first. The modules:

| Module | Composes | Stands for |
|---|---|---|
| `DownloadManager` | - | section 3 |
| `HttpRequestQueue` | implements `RequestPromise` | section 4 |
| `RequestQueue`, `SocketHttpsController` | the controller extends the queue with the client that calls it from completions | section 5 |
| `ResidentThread` | - | section 6 |
| `ICamMessage`, `ICamTunnel` | the tunnel sends frames made by the functions of the message module | section 7 |
| `MediaRecorder` | - | section 8 |
| `URLDownloadTask`, `URLOfflineDownloadTask` | - | section 9 |
| `DownloadManagerProofs`, `HttpRequestQueueProofs`, `SocketHttpsControllerProofs`, `ResidentThreadProofs`, `ICamTunnelProofs`, `MediaRecorderProofs`, `URLDownloadTaskProofs`, `URLOfflineDownloadTaskProofs` | each extends the module it is about with its inductive invariant and its theorems | the end of each section |

`MC...` modules give values to the constants for TLC, one configuration a run.

The models are complete as planned, and every component has its safety properties
proved. Liveness stays with TLC.

## 3. DownloadManager

`DownloadManager.tla` translates `DownloadManager.m`. Variables have the names
of the properties. `info` holds the `DownloadInfo` objects, addressed by a
number because the code compares them by identity; `disk` is the cache folder;
`socket` is `self.socket`; `mainQueue` is the main dispatch queue; `saves` is
what the photo library still owes. `downloadingItem` is always the item of
`downloadingInfo` and is left out.

Actions are of four kinds. `ClientStep`: public methods called on the main
thread, and `Relaunch` (the process dies and `init` runs again). `SocketStep`
and `SocketCloses`: GCDAsyncSocket posts a delegate block to the main queue.
`MainStep`: the head block runs, with the whole handler: for instance
`ShouldTimeout` includes `handleDownloadVideoFailed`, the delegate that adds
its item again, the removed file, the closed socket and the next download.
`SaveStep`: the photo library calls its handler on a thread of its own.
Handlers are operators that take the values already computed (queue, objects,
disk, socket, main queue), so that a chain of calls reads in the order of the code.

External parts are modelled from how the code uses them. The socket posts only
while it has a delegate, one read at a time, and blocks already queued still
run after a cancel (the code knows this: comment at `DownloadManager.m:361-363`).
The server honours the Range header or answers without a body. `Faults` says
what else the environment does: `pause`, `cancel`, `close`, `twice`, `diskfull`.

| Run | Question |
|---|---|
| dm_faults | all faults at once, and a delegate that adds its item again from inside `failedDownload:`: the head is what is downloading, an info is in one place, no item is lost, a download that is not paused ends |
| dm_bytes | bytes counted and bytes on disk agree, no cached file leaks, only whole files are saved; two of three items share a file name |
| dm_cancel_while_saving | a comment says the index check covers a cancel during a save; it does not |

A read block that runs when nothing is being downloaded (after a cancel, before the
next socket is made) counts for nil: 0 of 0 is complete (lines 394-395), and a save
begins. `DidReadBody` keeps it (`Savers` has `Nil`); the library finds no file then,
which `SavesWholeFiles` also says, and its handler finishes whatever is saved by the
time its block runs. Bound: one handler call is owed to such a save.

The status check of the handler (line 469) and the dispatch of its block (line 472)
run on the library's thread; `SaveHandler` takes them as one step. What may come
between them on the main thread may as well come between the dispatch and the run
of the handler's block, which the model has; lost is only that a socket's block
posted in between would stand ahead of the handler's. A model with two steps is too
large for the runs.

Seen without a run of its own: `socketDidDisconnect:` (line 334) does not compare
the socket with `self.socket`, as the read handler does; the comment above it says
that it is not called for a cancelled socket. A disconnect block queued before the
cancel still runs, and fails the download that came after.

`SaveFinishesItsItem` also fails with `Faults = {"twice"}` (the handler's status
check reads what only the main thread changes later), with `"pause"`, and with
`"close"` (a server that closes after the last byte fails a download that is
being saved).

Bounds: `Size` 1 or 2 chunks (2 is needed for a partial file), `MaxInfos` 2 or
3 objects alive (a current one, a next one and one on a list), `MaxBlocks` 2
blocks on the main queue (a late one and the one that overtakes it). Infos that
end keep only their item: the manager reads nothing else of them.

Fairness: the main queue is served; a socket with an outstanding operation
answers or times out (the code gives 5 to 20 s to each); the photo library
calls its handler. Nothing is assumed of the client.

Proved in `DownloadManagerProofs.tla` for every value of the constants:
`TypeCorrect`, `HeadIsDownloading`, and `IndexTellsNothing`, which is why the
index check in `doneOneItem` cannot do what its comment says. The inductive
invariant is `IInv == TypeOK /\ DownloadingIsHead`: the type of the lists needs
that the index every handler looks up is that of the head (or none), and the
head needs the lists' types. `ProcessNextRequestType` carries the argument:
whatever a handler did before, it ends in `processNextRequest`, which makes the
head of the queue the download under way or stops downloading.

The byte and list properties need a second invariant, `Safe`, proved on top of
`IInv`. `ListsInv`: no info is twice on the three lists, and one that waits is
as `addItem:` made it, so a download that starts has counted nothing. `ReadInv`:
at most one read is live, on the socket or on the main queue, so no chunk is
counted twice. `CacheInv`: only the download under way has a file in the cache.
`FileInv`: the file holds what has been counted and the length is unknown or that
of the resource; or the download is doomed (its file could not be created, or is
full): the block that fails it is on the main queue ahead of any chunk that counts. `Safe` is
kept by a chain of calls as a whole, not by its parts, so the lemmas speak of
states in which the next download may start (`Ready`), in which a read may follow
(`Later`), and of the handlers that lead from one to the other. From it:
`OnePlace`, `OneCached`, `ResumesRight`, `SavesWhole`.

`NothingVanishes` (`NoItemVanishes`) has the hypothesis `OwnFiles`: no two items
have files of one name. Without it the property is false: `addFailedInfo:` compares
names only, so of two failed items of one name, from two folders, the second is
dropped. `Kept` is the argument: but for a removal and the end of the process,
every step leaves for each info on a list an info of the same item on a list. The
one place that needs more than the lists' shape is `EndKeeps`: the info under way
goes to the failed list, or is refused there for an info of the same file, which by
`OwnFiles` is one of the same item.

With TLC only: `DownloadEnds`, which is liveness.

## 4. HttpRequestQueue

`HttpRequestQueue.tla` translates `HttpRequestQueue.m`. `queue`,
`currentRequest`, `lostCount` and `isDisconnectInner` are its properties;
`content` is the part of `self.content` that matters, whose bytes are in it;
`main` is the main dispatch queue. A request is the number of the call of
`request:` that made it; `Sets` are those with parameters.

- *Client*: `ConnectWithHost`, `CancelAll`, `Disconnect`, `Request`. `Request` is
  the whole of `request:`, in the three ways it can go: added
  (`RequestWithoutPurge`), added after `processDelayRequest` purged the backlog
  (`RequestAfterPurge`), or dropped because the purge found the loss count at its
  limit (`RequestGivesUp`).
- *MainQueue*: one action per delegate callback, which takes the head block of
  `main` and runs the whole handler: completion, removal, next request, next
  read. `SocketConnect` is the block `processConnect:` posts.
- *Socket*: GCDAsyncSocket as the code uses it. It connects, writes and reads in
  order, posts a block for each, drops operations given to it while closed, and
  posts a disconnect when it goes down. The server answers each request with a
  header and, but for a length of 0, data. A header read takes all up to the first
  blank line: the next header with what is left before it, or a body left over that
  holds one, as a chunked body does. Another read takes the next part. All parts are
  taken to be of one length.

History variables: `calls` and `answer` (what each completion was given, as the
set of requests whose bytes it holds), `told` (what the delegate heard last) and
`astray`. The last is set by a purge, a give-up and a `cancelAll` with a request
under way, and by a disconnect that ends a request after the next connection was
made; a disconnect that finds the connection down and no other block of it waiting
resets it.

Assumed: completions do not call the queue (no client in the repository does);
the host has been set before the first request. `MaxBlocks` limits how many
blocks may be waiting when a client connects anew, and nothing else.

| Run | Question |
|---|---|
| hq_faults | cancel, refusals, closed connections and purges in any order: types, the head is served, one completion each, bounded backlog, no stall, only a purge hides a loss; refinement of `RequestPromise` |
| hq_answers | a completion holds bytes of its own request's answer; while `astray`, of earlier requests' answers, never of a later one's |
| hq_live | every request leaves the queue |

Bounds: three requests are a current one, one waiting and the one whose arrival
purges when the limits are 1; in `hq_answers` the fourth request finds the purge
count at its limit and gives the connection up, with `cancelAll` and connections
closed by the server at any moment and all three kinds of answer. A stale block needs one block waiting while a new connection
starts; `hq_faults` allows two. Larger limits repeat the same steps, and the
proofs cover every value. `hq_answers` may stop: without new requests nothing is
left to do.

`AnswersMatch` says when answers may mix, because they do: after `cancelAll` the
read of the cancelled request stays outstanding and the next request gets its
answer (the code has a TODO there); a purge that keeps nothing has its own
disconnect complete the new request (line 160), whose bytes are on their way; and
a late disconnect does the same, see below. The property says that nothing else
mixes them, that a connection down for good ends it, and that an answer never
reaches a request made earlier than its own.

Fairness (`hq_live`): the main queue is served; a connection attempt, a write and a
read each end, because the code gives each a time limit. Nothing is assumed of
the client or the server.

`RequestPromise` is what a client may rely on: requests wait in the order they
were made, only the first is completed, and each ends once, completed or
forgotten. A forgotten request never has its completion called: that is what a
purge, a `cancelAll` and a give-up do.

Seen without a run of their own:

- A disconnect block queued for an old connection runs when the next one is
  already being made (line 160): it completes the current request with an error
  and starts the next, so two exchanges run on the new connection and a
  completion can get another request's bytes.
- The request a purge keeps is completed unanswered by the disconnect of the
  purge itself (line 274).
- After a purge a connection that fails is hidden from the delegate as well as
  the one that was dropped on purpose (lines 152, 190).
- `lostCount` is cleared by a body of known length only. The comment at line 61
  says any data clears it: with `Answers = {"empty"}` the action property
  `[][DidReadData => lostCount' = 0]_vars` fails, and a camera that answers every
  request with an empty body is given up after enough purges.
- A purge while the first connection is being made hides that connection, which
  then succeeds, from the delegate.
- The request kept by a purge may have been sent already, and is sent again.
- The test of `lostCount` at the head of `request:` can hold only right after a
  purge in the same call.

Proved in `HttpRequestQueueProofs.tla` for every value of the constants
(`CountsAssumption`: the request bound is a natural number, the backlog limit a
positive one, the loss limit a natural number): `TypeCorrect`, `FirstIsServed`,
`CompletesOnce`, `BacklogBounded`, `NeverStalls`. The inductive invariant is
`IInv == TypeOK /\ QueueIsServed /\ Ordered /\ BacklogIsBounded /\ NoStall`, where
`Ordered` says that the queue is increasing, below the next request, and holds
nobody completed. The argument: because the queue is ordered its entries are
distinct, so removing the current request removes the head; because every handler
that ends a request serves the new head, the head is what is served; and serving
starts the connection and gives it a write, which with the blocks still on the
main queue is what `NoStall` needs. `NoStall` needs the disconnect disjunct only
for a main queue that is not empty when a connection starts, which a bound of one
block would not show and the proof does.

The same module proves `QueueKeepsPromise`, that is `Spec =>
KeepsPromise`: `request:` is `Make`, the end of an exchange is `CompleteFirst`
when a request is current, `cancelAll` is `ForgetAll`, every other step is a
stutter. It uses `IInv` of the step's two states: the ordered queue is why what
leaves it is its first request and why the others keep their fate.

`LossKnown`: the delegate learns of every loss the queue does not hide itself. The
invariant `LossInv` orders the blocks: when the socket is closed, either a
disconnect is on the main queue with no connect behind it, or no connect is
there and the delegate has been told, or is told by the handler that runs next, or
a purge hides the loss.

`AnswersAreMatched` has no hypothesis beyond the assumptions on the constants: all
faults, purges and late blocks are in it. Its invariant is `AnswersInv`, three
parts on top of `IInv`. `DownIsIdle`: a closed connection has nothing to do.
`NoneLater`: nothing to be written, on the wire, on the main queue or in the
buffer is of a later request than the current one, which is why even a stray
answer is of an earlier request. `Matched`: while `astray` is FALSE, the exchange is
at one stage (idle, to be written, waiting for its header, for its data, lost),
and reads, wire and main queue hold one thing of the current request at most. That
a disconnect handled while the connection is down restores `Matched` from nothing
is where `DownIsIdle` is needed.

With TLC only: `RequestsLeave`, because liveness under fairness is out of the
prover's reach.

## 5. RequestQueue and SocketHttpsController

`RequestQueue.tla` translates `RequestQueue.m` of the HTTPS demo, a relative of
`HttpRequestQueue` with a second list for priority requests and TLS;
`SocketHttpsController.tla` extends it with the screen that uses it. Variables
are the properties of both. The socket is modelled as in section 4, with TLS as
GCDAsyncSocket has it: one more packet in the lists of writes and of reads,
which it comes to when the packets before it are done.

A digest login is three requests, each made by the completion of the one before:
session, login and, if refused, a second login. `Nested` says which request a
completion makes, from the command and the header it was given; the handlers of
`RequestQueue` put it into the queue where the code does, before the finished
request is taken out. Other buttons make single requests at any time.

The run `rq_login` takes three requests, which are one login, or three requests of
any command and priority, and all faults: lost, refused and closed connections,
failed handshakes, timeouts, `cancelAll`, `disconnect`. It checks that a waiting
request is served (`QueueIsServed`), in order (`OrderKept`), that a completion
gets one answer and, until a body is left on the wire, its own (`AnswersMatch`),
that the cookie kept is never an older one
again (`CookieNeverGoesBack`), and that the queues drain (`QueuesDrain`).
`Owed` and `Depth` reserve room within `MaxRequests` for the requests a login
will still make, so that the bound never cuts a login short. The run may stop
when all requests are made and done, so deadlock is not checked.

Fairness: the main queue is served; connecting, writing and reading end because
the code gives each a time limit. A handshake has none in the code; it is taken to
end because the server answers or closes.

What the code does, and the properties therefore leave room for:

- `didConnectToHost:` asks for TLS (line 84), but a request made without a
  connection has been given to the socket before that (line 239) and goes out in
  plain bytes, which an HTTPS server drops. So only requests made while the first
  connection is up are answered, although the comment at lines 149-150 says they
  are sent after the handshake.
- A disconnect hands the completion the header of an earlier answer (line 91;
  a comment there says so). A login that ends so may keep a cookie it already has, or
  try once more.
- `contentLength` is unsigned, so the test for an unknown length is never true:
  an answer without a length ends at its header, and its body is left on the wire.
  The next header read goes to the first blank line (line 106). A chunked body ends
  in one, so that body is handed to the next request as its answer, and every later
  request on the connection gets what belongs to one before it. `ReadsPart` lets a
  header read stop at a body left over or pass it; `bodyLeft` records that there has been
  one, and `AnswersMatch` then still says that the header and the body of a completion
  are of one answer.
- `cancelAll` forgets the request under way but not its answer, which the next
  request gets: `AnswersMatch` is stated for runs without `cancelAll`.

Proved in `SocketHttpsControllerProofs.tla` for every number of requests, every
set of faults and every set of commands that holds those of the screen, with
`icam` as the only priority one among those (`LoginAssumption`):
`TypeCorrect`, `ServedAlways`, `OrderCorrect`, `AnswersCorrect`, `CookieCorrect`.
The parts of the inductive invariant `IInv`:

- `Queues`, `Served`: both lists are in order of their numbers, so taking out the
  request that ended takes out a head; what is current is the head of one of them.
- `RoomIsKept`: the requests that logins will still make fit within the bound,
  so that the bound never decides what a completion does.
- `Connects`: a socket that has something to write before the handshake never
  gets TLS; one that has nothing carries one block and no read.
- `Exchange`, `AnswerIsOwn`, `HeaderFirst`: over a secured connection an exchange
  is at one of seven stages, each of which says what is to be written, on the
  wire, to be read and on the main queue; so a header or a body that arrives is the
  current request's. This is where `cancelAll` is excluded, and, for whose answer
  it is, a body left on the wire (`bodyLeft`); the stages hold with such a body.
- `Logins`: the logins whose answers can still become the cookie stand in a
  chain, from the cookie over the header kept, the main queue, the wire and the
  writes to the requests that wait, and are in the order they were made. It holds
  with `cancelAll`, which lets requests go but turns none around; that is why the
  cookie never goes back although answers go astray.

With TLC only: `QueuesDrain` (liveness).

## 6. ResidentThread

`ResidentThread.tla` translates `ResidentThread.m`: a thread that waits on a
semaphore and carries out numbered actions, lowest first. `semaphoreCount` is an
`int` that every thread tests and changes without a lock, so reading and writing
it are separate steps (`pc`, `read`). The list is a set, because equal numbers
are equal objects and removed together; an access to it is one step, since
nothing defines what overlapping accesses to an `NSMutableArray` do.

The worker's steps follow `run`: look at the flag, choose the kind of wait, wait
(`WaitReturns`, `WaitTimesOut`), count, `doAction` (`CarryOut`, `Discard`,
`StartTimer`), and the run loop that waits 4 s for a missing number. `cancel` is
two steps, with the worker in between; an access to a list that was emptied in
between raises, which ends the model (`PickRaises`).

The run `rt_all`: one pushing thread (a race needs two threads, the worker is the
other), three pushes of the numbers 1, 2, 4, 6 (a neighbour and two gaps).

- `CounterIsCovered`: the counter never claims a signal the semaphore does not
  have, however many waits timed out. This is why a push that does not signal is
  right.
- `ActionsAreHandled`: every action pushed is run or discarded.
- `RunsInOrder`, `EveryJumpWaits`: numbers increase, and each gap is waited for.
- `CancelIsFinal`: at most one action runs after a cancel.

Exception, kept in the history variable `lost`: when the worker's decrement is
overwritten by a push between its read and its write, the counter stays at 1 over
an empty semaphore. From then on no push signals, and an idle worker sleeps for
ever; the code has no remedy, and the properties about work end there. Also
seen: `cancel` does not wake the worker, so a thread asleep ends only with the
next push; `start` does not clear `cancelAction`, so a thread started again ends at
once.

Clients: `cancel` may be called at any time and again, from one thread; `start` is
called again only after a `cancel` (nobody in the repository calls it twice), but
without waiting for the old thread to end. The old one then goes on with the new
list and counter; if it waits, it waits on the old semaphore, which nobody signals
any more (`waitOld`).

Fairness: threads that can run do, waits time out, timers fire. Nobody has to
push, and a run loop need not notice that its timer was invalidated from another
thread. The program may stop with nothing to do, so deadlock is not checked.

Proved in `ResidentThreadProofs.tla` for every set of pushing threads, of action
numbers and any number of pushes: `TypeCorrect`, `CounterCovered`, `CancelFinal`,
`InOrder`, `JumpsWait`. For the counter it is not enough to compare it with the
semaphore: the invariant `Counted` gives each thread that has signalled and not
yet counted (`Pending`) its own place below the semaphore, so that a stale value
some other thread still writes is covered too; this is where more than one
pushing thread matters, which the run does not have. `Cancelled` says that an
action carried out after the cancel leaves the worker before its next look at
the flag. `Progress` says that what has run lies below `currentIndex`, and that
permission to jump comes from a whole wait. With TLC only: `ActionsAreHandled`
(liveness).

## 7. ICam tunnel

`ICamMessage.tla` has the frames of `icam_message.c` as functions on bytes
(16-bit numbers, high byte first); `ICamTunnel.tla` the controller, server, relay
and connection objects, which all run on the main queue. A local connection and
its channel are one number; `owner` in a frame is for the properties and is not
sent. The camera is external: it opens what is announced, sends and takes data,
confirms deletes and may close channels, as the handlers of `ICamServer` expect.
`Faults`: `closes` (the camera closes), `silent` (the link is lost and no socket
tells), `answers` (the camera confirms a delete of what it no longer has; not in
the run, see below).

The run `icam` lets two local connections compete for one number (3 numbers, of
which 0 and 1 are reserved) over two links, each sending two chunks: a number is
used again, a connection is left without one, a second link follows a loss, and
kept data meets fresh data.

- `NeverMixed`: data of one connection never reaches another.
- `FreeIdIsIdle`: why, namely that a number free at the server is unknown to the
  camera and nothing is under way about it.
- `InOrder`: the camera gets what the app sent, in order, without holes.
- `EachIsSettled`: again and again every open connection with a number is linked,
  unless the link is lost, or one was and the server has not been told (`deaf`).
  One recurrence says this for all connections, because a connection is used once.
  It was the costliest part of the run and is stated without a quantifier over
  temporal formulas for that reason.

What the code does, and the properties leave room for:

- With all numbers taken the error is reported and the channel made with number 0
  (line 212): it is announced as channel 0, its data is never sent, and it
  overwrites the one before it.
- A channel closed before it was announced keeps its number until the link ends
  (line 240).
- A link lost before its accept block has run tells the server's own socket
  delegate, which ignores it (`deaf = "missed"`); `conn` stays set and new channels
  are announced to nobody.
- A link lost in silence keeps its socket open at the server. If the camera connects
  again, and the old socket is closed by a pause (`stop`, line 184) or times out
  before the accept block has run, its disconnect block comes after the accept, and
  `handleDisconnected`, which looks at no socket, drops the connection of the new
  link (`OldSocketCloses`). The camera keeps a link nobody reads, and waits until
  the app is paused again. The model counts such a link as lost, so `EachIsSettled`
  says nothing of it; the other properties hold through it.
- If both ends close a channel at the same time and the camera confirms both
  deletes (`answers`), the second confirmation frees the number of the next channel
  and `NeverMixed` fails. Whether cameras do so is not to be seen in this code; the
  camera end in the repository, `ICamUsbHost`, is never created, and is left out.
- `icam_message.c` declares `encode_setup` with a size of 2 and writes 3 bytes;
  nothing calls it.

Proved in `ICamTunnelProofs`, for any number of connections, channel numbers,
chunks and links: `TypeOK`, `NeverMixed`, `InOrder` and `FreeIdIsIdle`, all under
the hypothesis `"answers" \notin Faults`, without which `NeverMixed` is false (see
above), and `KMaxChannelNum <= 65536`, because a number has 16 bits on the wire.
The other faults may all happen.

The bytes come first. `ControlFrames` and `ChunkFrame` say what is decoded from
what the encoders make, of payloads of any length up to the 65535 the code cuts; they rest on `PackedNumber` (`unpack_u16` undoes
`pack_u16`). All the rest speaks of frames only by what they are decoded as:
`Opens`, `Deletes`, `Ups`, `Downs`, `Carries`. The inductive invariant `IInv` has
these parts beside the types and the three properties:

- `Links`: unless the camera's link is the server's, nothing is under way to the
  camera and the camera has nothing; what it sent is read before any news of the
  link; a link that is up and not the server's has its accept block as the last one
  on the main queue.
- `Numbers`: a free number is unknown to the camera and nothing names it, and the
  same holds behind a confirmation under way. This is what `FreeIdIsIdle` needs to be
  inductive: the confirmation makes the number free. A number is announced at most
  once at a time, and no data of it is ahead of the announcement.
- `Owners`: a number in a table, in a frame or at the camera leads to the connection
  that has it, which is why data does not mix.
- `Connections`: a connection not made yet has left no trace; one that is open, or
  waits to be announced, is in the table under its number.
- `Kept`, `Begins`, `Streams`: what is kept is the first chunks in order; a connection
  whose announcement or answer is still to come has sent nothing; the chunks under
  way to a camera that has the connection go on where it has got to. `InOrder` is
  inductive with these only: kept data goes out once, at the answer, and meets no
  fresh data ahead of it.

There is a lemma for each action; those of a kind share what they keep (`QuietStep`
for steps of the link, `Added...` for steps that write frames, `Comes...` for steps
of the camera). TLC checks `IInv` on the instance of the run. The proof found one
fault of the model: `icam_message_decode` was a `CASE` with guards that overlap, of
which TLA+ may choose any; it is now a chain of IFs, like the code. With TLC only:
`EachIsSettled` (liveness).

Left out: ping and pong, the live stream (channel 1), chunks above 64 KB and a port
that cannot be opened. Local connections that the relay accepted before a pause may
reach the controller after it, one at a time (a bound). Fairness: the main queue is served and the camera
reads what has arrived. Deadlock is not checked: apps need not go on.

## 8. MediaRecorder

`MediaRecorder.tla` translates `MediaRecorder.m`. A frame takes
`frameRenderingSemaphore` on the main thread, is rendered on the render queue
(which waits for the main thread to draw), takes `pixelAppendSemaphore` and is
appended on the append queue; a frame that finds a semaphore taken is dropped. A
stop sends a block down both queues and the writer calls back when the file is
done. Frames carry the recording they were drawn for; `clock` counts the display's
frames. Every start makes a display link without a timestamp; one it replaces may
still be on the run loop, and its frames are timed by the timestamp of the new one, as
in the code (lines 153-156). The writer may refuse to start or fail at any time in a
recording.

The run `mr_all` takes three recordings and six frames: a recording that follows one
that follows one, each long enough for a frame being drawn, one being appended
and one dropped.

- `SlotsKept`: each semaphore is free or held by a frame that will give it back.
- `FramesStayInTheirFile`: no frame reaches the next recording's file or a writer
  that is finishing.
- `PlayableTimes`: of every append, the first of a file has time 0 and each later one
  a greater time than the one before.
- `StopsFinish`: a stop ends with the recorder free.

What the code does, and the properties leave room for:

- A frame that finds the writer's input not ready returns without giving the
  rendering semaphore back (line 148): no frame of any later recording is drawn.
- `resetRecorder` clears `isRecording` (line 316) before the time (line 320): a
  recording started in between begins at the old time and goes back to 0.
- A recording ended by a second finish leaves its display link on the run loop (the
  stop that would remove it never comes, and the next start replaces it). A frame of
  this link before the new one's first reads timestamp 0 and leaves `previousStamp` at
  its sentinel, so time 0 is appended twice; later ones repeat a timestamp.
- `PlayableTimes` leaves both out: `early` marks a recording started during a reset, or
  with a display link or a queued frame of an earlier one left. Without either of the
  first two exemptions TLC finds the repeated or falling time.
- A writer that fails during a recording turns frames away, and the finish at its end
  raises (line 120); `StopsFinish` accepts the raise.
- A second stop before the writer has finished sends a second finish block, which
  raises when the writer is no longer writing, or makes the next recording end at
  once.

Fairness: both queues run their blocks, the main thread draws, and the writer
finishes. Deadlock is not checked: a recorder may be left alone.

Proved in `MediaRecorderProofs.tla` for every number of recordings and frames:
`TypeCorrect`, `SlotsAreKept`, `NoStrayFrame`, `TimesIncrease`. `Control` says who
works on what: frames are drawn and wait to be written only while the writer of their
recording is open, and the end of a recording is the last block of the append
queue. `Slots`: a free semaphore has no frame to protect. `Stamps` and `Times`
chain the times of the frame written last, the frame that waits and the frame being
drawn, down to the first of a recording at 0. The exceptions are those of the
properties (`slotLost`, `early`, `raised`). With TLC only: `StopsFinish` (liveness).

## 9. URLDownloadTask and URLOfflineDownloadTask

`URLDownloadTask.tla` is the download task with its screen: one button starts,
pauses and continues in turn, another stops. A pause cancels the NSURLSession task;
its resume data comes later, in a block on the main queue, or not at all. The run
`url_pause` (4 bytes, 3 tasks, 2 blocks waiting) checks that a download shown as
paused takes no data (`PausedIsQuiet`), goes on where it stopped
(`ResumesWhereItStopped`) and is delivered if left running (`DownloadIsDelivered`).

The last two hold until one of these, which the variable `broken` marks: continue
before the resume data has come, a pause before the first byte or after the end, a
failed task, a stop. After each of them the button can show a running download
where nothing runs: `continueDownload` finds a task that is over and no data, and does
nothing. A stop is not final, against the comment at line 56, when data of an
earlier pause is still kept.

`URLOfflineDownloadTask.tla` keeps the file on disk and asks for what it lacks. The
run `url_offline` (4 bytes, 3 restarts of the app, four kinds of server) checks that
the file is a prefix of the resource (`FileIsPrefix`) and that what the client is
told is true (`ReportIsTrue`), if the server sends what it is asked for (`odd` is
set when not). What the code does otherwise: the status of the answer is not
looked at (line 59), so an error page or a whole resource sent again is added to
the file; and any error while `totalSize` is still 0, or with a length of -1, is
reported as a finished download (line 84). `ReportIsTrue` names that case
(`LengthIsKnown` is false) and says that a report of done is true in every other,
and a report of failure always.

The run checks safety only, so no fairness is needed for it. Fairness of `url_pause`:
NSURLSession goes on with a running task and ends a cancelled one, and the main
queue is served. Deadlock is not checked in either: a user may stop pressing. Left out:
`easyDownload` (one request, no state) and two objects on one file, which happens
when the screen is opened twice.

Proved, for every size of the resource and any number of tasks, restarts and blocks:
in `URLDownloadTaskProofs.tla` `TypeCorrect`, `Quiet`, `SamePlace`; in
`URLOfflineDownloadTaskProofs.tla` `TypeCorrect`, `PrefixOnDisk`, `TrueReport`. The
first rests on `EarlierAreOver` (only the last task made can still run) and
`PauseKeepsPlace` (resume data on the main queue, or kept, are those of the last
task). The second rests on `Shape` (which blocks can be on the main queue at each
stage of the request), `Announced` (data to come do not go beyond the total) and
`Continues` (the bytes queued, and then those to come, go on where the file ends).
With TLC only: `DownloadIsDelivered` (liveness).

## 10. What is proved and what is model-checked

Proved for every value of the constants that meets the named assumptions: every
safety property and action property the runs check, `AnswersMatch` of
`HttpRequestQueue` under the hypotheses named in section 4, and the refinement of
`RequestPromise`. The theorems about `ICamTunnel` have the hypothesis that the camera
confirms only deletes of what it has (section 7). `NoItemVanishes` has that
of section 3. Out of the prover's reach, and with TLC only:
liveness (`DownloadEnds`, `RequestsLeave`, `QueuesDrain`,
`ActionsAreHandled`, `EachIsSettled`, `StopsFinish`, `DownloadIsDelivered`).

## 11. Not modelled

- `ScreenRecorder`: the pipeline of `MediaRecorder` with pause and a forced stop, which
  nothing calls while a frame is under way.
- `LottieLoaderManager`: a cache called from one thread, and by nothing in the
  repository.
- `EasyGCDAsyncSocket`: what `HttpRequestQueue` replaced. A read of an old tag
  (line 171) is not followed by another, so reading stops until the next write;
  its clients do nothing with answers.
- `EasySocketQueuesManager`: a demo's copy of `HttpRequestQueue`.
- `URLUploadTask` is empty; `DelayTimer` is one timer and one block; `PingManager`
  and `CameraStatusLoop` call a library and have empty handlers; the UDP, web and BSD
  socket classes forward calls and log.
- Database, audio, drawing, pixels, files, views and demo screens: no protocol, or
  data and device calls that a model checker has nothing to say about.
- Third-party and vendored code, which is most of the C and C++ lines of the repository
  (dyld, objc4, RTMP, OpenSSL, FFmpeg headers): not this project's own logic. The
  code modelled here is Objective-C (`.m`), apart from `icam_message.c`.
