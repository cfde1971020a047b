-------------------------- MODULE HttpRequestQueue --------------------------
(***************************************************************************)
(* HttpRequestQueue.m: HTTP requests to a camera, one at a time over one   *)
(* kept-alive GCDAsyncSocket.                                              *)
(*                                                                         *)
(* The queue object lives on the main thread.  The socket works on a queue *)
(* of its own and calls its delegate by blocks on the main queue, so a     *)
(* block may run after the connection or the request it speaks of is gone. *)
(* When more than KHttpRequestDelayCount requests wait, the next one       *)
(* purges the queue: the waiting requests are dropped but for the last one *)
(* that carries parameters (a "set"), and the connection is dropped in     *)
(* silence; after more than KHttpJudgeLostCount purges with no answer the  *)
(* connection is given up aloud.                                           *)
(*                                                                         *)
(* One action is one public method, one block taken from the main queue    *)
(* with the whole handler it runs, or one step of the socket.  An answer   *)
(* of the server is the one or two parts a read of the socket may return;  *)
(* status codes, URLs and bodies are left out, whose answer it is is not.  *)
(***************************************************************************)
EXTENDS Integers, Sequences, SequencesExt

CONSTANTS
    MaxRequests,            \* bound: calls of request:
    Sets,                   \* the requests with params
    Answers,                \* how the server announces the length of answers
    KHttpRequestDelayCount, \* requests that may wait (4 in the code)
    KHttpJudgeLostCount,    \* purges before the connection is given up (3)
    MaxBlocks,              \* bound: main-queue blocks before a connect
    Faults                  \* what the environment may do

FaultKinds ==
    { "cancel",      \* the client calls cancelAll
      "disconnect",  \* the client calls disconnect
      "refuse",      \* a connection attempt fails or times out
      "timeout",     \* a read or a write times out
      "close" }      \* the server closes the connection

(* "counted": Content-Length > 0; "empty": Content-Length 0; "uncounted":  *)
(* no Content-Length; "data": the bytes after such a header.               *)
AnswerKinds == {"counted", "empty", "uncounted"}

ASSUME CountsAssumption ==
    /\ MaxRequests \in Nat
    /\ KHttpRequestDelayCount \in Nat \ {0}
    /\ KHttpJudgeLostCount \in Nat
    /\ MaxBlocks \in Nat
ASSUME SetsAssumption == Sets \subseteq 1 .. MaxRequests
ASSUME AnswersAssumption == Answers \subseteq AnswerKinds /\ Answers # {}
ASSUME FaultsAssumption == Faults \subseteq FaultKinds

Requests == 1 .. MaxRequests
NoRequest == 0                    \* currentRequest = nil

VARIABLES
    queue,             \* waiting requests, the one being served first
    currentRequest,
    lostCount,
    isDisconnectInner,
    content,           \* whose answers the buffer of uncounted data holds
    sock,              \* the connection: "closed", "connecting", "connected"
    writes,            \* requests the socket has to write
    reads,             \* reads the socket has to do, by their tag
    wire,              \* answers of the server the socket has not read
    main,              \* blocks on the main queue
    issued,            \* calls of request: so far; request n is the n-th
    calls,             \* how often each request's completion ran
    answer,            \* whose answers those calls carried
    told,              \* the last connection state told to the delegate
    astray             \* an answer may arrive for another request than its own

queueVars == <<queue, currentRequest, content>>
socketVars == <<sock, writes, reads, wire>>
historyVars == <<calls, answer>>
vars == <<queueVars, lostCount, isDisconnectInner, socketVars, main, issued,
          historyVars, told, astray>>

SocketStates == {"closed", "connecting", "connected"}
Tags == {"header", "body", "rest"}
Parts == [req : Requests, is : AnswerKinds \cup {"data"}]
Blocks ==
    [event : {"connect", "write"}]
        \cup [event : {"disconnect"}, error : BOOLEAN]
        \cup [event : {"read"}, tag : Tags, part : Parts]
        \cup [event : {"tell"}, state : {"connected", "disconnected"}]

ConnectBlock == [event |-> "connect"]
WriteBlock == [event |-> "write"]
DisconnectBlock(error) == [event |-> "disconnect", error |-> error]
ReadBlock(tag, part) == [event |-> "read", tag |-> tag, part |-> part]
TellBlock(state) == [event |-> "tell", state |-> state]

Init ==
    /\ queue = <<>> /\ currentRequest = NoRequest /\ content = {}
    /\ lostCount = 0 /\ isDisconnectInner = FALSE
    /\ sock = "closed" /\ writes = <<>> /\ reads = <<>> /\ wire = <<>>
    /\ main = <<>> /\ issued = 0
    /\ calls = [r \in Requests |-> 0] /\ answer = [r \in Requests |-> {}]
    /\ told = "nothing" /\ astray = FALSE

-----------------------------------------------------------------------------
(* The socket, as the queue uses it: GCDAsyncSocket, a pod outside src/.   *)

(* connectToHost: fails on a socket that is connecting or connected.       *)
Started(s) == IF s = "closed" THEN "connecting" ELSE s

(* A read or a write queued on a closed socket is dropped.                 *)
Queued(s, ops, op) == IF s = "closed" THEN ops ELSE Append(ops, op)

(* The socket goes down, forgets what it had to do and says so on main.    *)
SocketCloses(error) ==
    /\ sock' = "closed" /\ writes' = <<>> /\ reads' = <<>> /\ wire' = <<>>
    /\ main' = Append(main, DisconnectBlock(error))
    /\ UNCHANGED <<queueVars, lostCount, isDisconnectInner, issued,
                   historyVars, told, astray>>

SocketConnects ==
    /\ sock = "connecting"
    /\ sock' = "connected"
    /\ main' = Append(main, ConnectBlock)
    /\ UNCHANGED <<queueVars, lostCount, isDisconnectInner, writes, reads,
                   wire, issued, historyVars, told, astray>>

ConnectFails ==
    /\ "refuse" \in Faults /\ sock = "connecting"
    /\ SocketCloses(TRUE)

(* The request goes out; the server will answer it in its turn.            *)
AnswerTo(r, kind) ==
    IF kind = "empty" THEN << [req |-> r, is |-> kind] >>
    ELSE << [req |-> r, is |-> kind], [req |-> r, is |-> "data"] >>

SocketWrites ==
    /\ sock = "connected" /\ writes # <<>>
    /\ writes' = Tail(writes)
    /\ \E kind \in Answers : wire' = wire \o AnswerTo(Head(writes), kind)
    /\ main' = Append(main, WriteBlock)
    /\ UNCHANGED <<queueVars, lostCount, isDisconnectInner, sock, reads,
                   issued, historyVars, told, astray>>

WriteTimesOut ==
    /\ "timeout" \in Faults /\ sock = "connected" /\ writes # <<>>
    /\ SocketCloses(TRUE)

(* A header read takes all up to the first blank line.  That ends the next *)
(* header; but a body may hold one too, as a chunked body does at its end, *)
(* and is then taken whole, for a header.  Another read takes what comes   *)
(* next (all parts are taken to be of one length).                         *)
ReadsPart(i) ==
    IF Head(reads) = "header"
    THEN \A j \in DOMAIN wire : j < i => wire[j].is = "data"
    ELSE i = 1

SocketReads ==
    /\ sock = "connected" /\ reads # <<>>
    /\ \E i \in DOMAIN wire :
        /\ ReadsPart(i)
        /\ wire' = SubSeq(wire, i + 1, Len(wire))
        /\ main' = Append(main, ReadBlock(Head(reads), wire[i]))
    /\ reads' = Tail(reads)
    /\ UNCHANGED <<queueVars, lostCount, isDisconnectInner, sock, writes,
                   issued, historyVars, told, astray>>

ReadTimesOut ==
    /\ "timeout" \in Faults /\ sock = "connected" /\ reads # <<>>
    /\ SocketCloses(TRUE)

(* What is left on the wire is then what the server never sent.            *)
ServerCloses ==
    /\ "close" \in Faults /\ sock = "connected"
    /\ SocketCloses(TRUE)

-----------------------------------------------------------------------------
(* HttpRequestQueue                                                        *)

(* Mutants of processNextRequest: no reconnect; the buffer not emptied.    *)
ProcessNextUnconnected(q, cur, s, w) ==
    /\ queue' = q
    /\ IF q = <<>> \/ cur # NoRequest
       THEN currentRequest' = cur /\ sock' = s /\ writes' = w
       ELSE /\ currentRequest' = Head(q)
            /\ sock' = s /\ writes' = Queued(s, w, Head(q))
    /\ UNCHANGED content
ProcessNextUncleared(q, cur, s, w) ==
    /\ queue' = q
    /\ IF q = <<>> \/ cur # NoRequest
       THEN currentRequest' = cur /\ sock' = s /\ writes' = w
       ELSE /\ currentRequest' = Head(q)
            /\ sock' = Started(s) /\ writes' = Append(w, Head(q))
    /\ UNCHANGED content

(* processNextRequest on queue q, current request cur, socket s, writes w. *)
ProcessNextRequest(q, cur, s, w) ==
    /\ queue' = q
    /\ IF q = <<>> \/ cur # NoRequest
       THEN /\ currentRequest' = cur
            /\ sock' = s /\ writes' = w
            /\ UNCHANGED content
       ELSE /\ currentRequest' = Head(q)
            /\ sock' = Started(s) /\ writes' = Append(w, Head(q))
            /\ content' = {}

(* addHttpRequest: the first one executes, those behind it queue up.       *)
AddHttpRequest(q, cur, r, s, w) ==
    IF q = <<>> THEN ProcessNextRequest(<<r>>, cur, s, w)
    ELSE /\ queue' = Append(q, r)
         /\ currentRequest' = cur /\ sock' = s /\ writes' = w
         /\ UNCHANGED content

(* Mutants of removeHttpRequest: nothing removed; the last one removed.    *)
RemoveNothing(q, r) == q
RemoveLast(q, r) == IF q = <<>> THEN q ELSE Front(q)

(* removeHttpRequest: a request object is in the queue at most once.       *)
RemoveHttpRequest(q, r) ==
    IF \E i \in DOMAIN q : q[i] = r
    THEN RemoveAt(q, CHOOSE i \in DOMAIN q : q[i] = r)
    ELSE q

(* Mutant: the handlers forget to serve the next request.                  *)
FinishWithoutNext(from) ==
    /\ IF currentRequest = NoRequest
       THEN UNCHANGED <<historyVars, queue>>
       ELSE /\ calls' = [calls EXCEPT ![currentRequest] = @ + 1]
            /\ answer' = [answer EXCEPT ![currentRequest] = from]
            /\ queue' = RemoveHttpRequest(queue, currentRequest)
    /\ currentRequest' = NoRequest
    /\ UNCHANGED <<content, sock, writes>>

(* The end of an exchange, common to the handlers: the completion of the   *)
(* current request runs with the answers of the requests in "from", the    *)
(* request leaves the queue and the next one is served.                    *)
FinishCurrent(from) ==
    /\ IF currentRequest = NoRequest
       THEN UNCHANGED historyVars
       ELSE /\ calls' = [calls EXCEPT ![currentRequest] = @ + 1]
            /\ answer' = [answer EXCEPT ![currentRequest] = from]
    /\ ProcessNextRequest(
          IF currentRequest = NoRequest THEN queue
          ELSE RemoveHttpRequest(queue, currentRequest),
          NoRequest, sock, writes)

(* Mutant of processConnect: a loss is told by the socket's own word.      *)
ProcessConnectSocket(state) ==
    <<TellBlock(IF state = "connected" THEN state ELSE "closed")>>

(* processConnect: told in a block of its own.                             *)
ProcessConnect(state) == <<TellBlock(state)>>

ConnectWithHost ==
    /\ Len(main) < MaxBlocks
    /\ lostCount' = 0
    /\ sock' = Started(sock)
    /\ UNCHANGED <<queueVars, isDisconnectInner, writes, reads, wire, main,
                   issued, historyVars, told, astray>>

(* Mutant of cancelAll: the current request stays.                         *)
CancelWaiting ==
    /\ "cancel" \in Faults
    /\ queue' = <<>>
    /\ UNCHANGED <<currentRequest, content, lostCount, isDisconnectInner,
                   socketVars, main, issued, historyVars, told, astray>>

CancelAll ==
    /\ "cancel" \in Faults
    /\ queue' = <<>> /\ currentRequest' = NoRequest
    /\ astray' = (astray \/ currentRequest # NoRequest)
    /\ UNCHANGED <<content, lostCount, isDisconnectInner, socketVars, main,
                   issued, historyVars, told>>

Disconnect ==
    /\ "disconnect" \in Faults /\ sock # "closed"
    /\ SocketCloses(FALSE)

(* Mutant: one more request may wait.                                      *)
BackloggedLate == Len(queue) > KHttpRequestDelayCount + 1

Backlogged == Len(queue) > KHttpRequestDelayCount

(* What a purge leaves in the queue: the last request with params.         *)
PurgeLeaves(kept) ==
    \/ kept = <<>> /\ \A i \in DOMAIN queue : queue[i] \notin Sets
    \/ \E i \in DOMAIN queue :
        /\ kept = <<queue[i]>> /\ queue[i] \in Sets
        /\ \A j \in DOMAIN queue : j > i => queue[j] \notin Sets

(* processDelayRequest up to its disconnect: the request kept is served at *)
(* once, on the connection about to go down; its bytes may still get out.  *)
ProcessDelayRequest(kept, out) ==
    /\ PurgeLeaves(kept)
    /\ out => kept # <<>> /\ sock = "connected" /\ writes = <<>>
    /\ reads' = <<>> /\ wire' = <<>>
    /\ main' = main
                 \o (IF out THEN <<WriteBlock>> ELSE <<>>)
                 \o (IF sock # "closed" \/ kept # <<>>
                     THEN <<DisconnectBlock(FALSE)>> ELSE <<>>)

LeaveKept(kept) ==
    /\ queue' = kept
    /\ currentRequest' = IF kept = <<>> THEN NoRequest ELSE Head(kept)
    /\ content' = IF kept = <<>> THEN content ELSE {}
    /\ sock' = "closed" /\ writes' = <<>>

RequestWithoutPurge ==
    /\ ~ Backlogged /\ lostCount <= KHttpJudgeLostCount
    /\ AddHttpRequest(queue, currentRequest, issued + 1, sock, writes)
    /\ UNCHANGED <<lostCount, isDisconnectInner, reads, wire, main, astray>>

RequestAfterPurge ==
    /\ Backlogged /\ lostCount + 1 <= KHttpJudgeLostCount
    /\ \E kept \in {<<>>} \cup {<<r>> : r \in Requests}, out \in BOOLEAN :
        /\ ProcessDelayRequest(kept, out)
        /\ IF kept = <<>>
           THEN ProcessNextRequest(<<issued + 1>>, NoRequest, "closed", <<>>)
           ELSE /\ queue' = Append(kept, issued + 1)
                /\ currentRequest' = Head(kept) /\ content' = {}
                /\ sock' = "closed" /\ writes' = <<>>
    /\ isDisconnectInner' = TRUE
    /\ lostCount' = lostCount + 1
    /\ astray' = TRUE

(* The connection is given up and the new request forgotten.               *)
RequestGivesUp ==
    /\ Backlogged /\ lostCount + 1 > KHttpJudgeLostCount
    /\ \E kept \in {<<>>} \cup {<<r>> : r \in Requests}, out \in BOOLEAN :
        ProcessDelayRequest(kept, out) /\ LeaveKept(kept)
    /\ isDisconnectInner' = FALSE
    /\ lostCount' = 0
    /\ astray' = TRUE

Request ==
    /\ issued < MaxRequests
    /\ issued' = issued + 1
    /\ \/ RequestWithoutPurge
       \/ RequestAfterPurge
       \/ RequestGivesUp
    /\ UNCHANGED <<historyVars, told>>

(* didConnectToHost:                                                       *)
DidConnect ==
    /\ main # <<>> /\ Head(main) = ConnectBlock
    /\ main' = Tail(main) \o
                 IF isDisconnectInner THEN <<>> ELSE ProcessConnect("connected")
    /\ isDisconnectInner' = FALSE
    /\ UNCHANGED <<queueVars, lostCount, socketVars, issued, historyVars, told,
                   astray>>

(* A disconnect that comes while the connection is down, with nothing of   *)
(* it left on the main queue, puts matters straight.  One that comes later *)
(* may end a request that waits for its answer on another connection.      *)
Straight ==
    sock = "closed" /\ \A i \in 2 .. Len(main) :
                          main[i].event \notin {"write", "read"}
StaysAstray == ~ Straight /\ (astray \/ currentRequest # NoRequest)

(* Mutant of socketDidDisconnect: tells of a loss only when it cost a      *)
(* request.                                                                *)
DidDisconnectOfRequest ==
    /\ main # <<>> /\ Head(main).event = "disconnect"
    /\ FinishCurrent(content)
    /\ main' = Tail(main) \o
                 IF isDisconnectInner \/ currentRequest = NoRequest THEN <<>>
                 ELSE ProcessConnect("disconnected")
    /\ astray' = StaysAstray
    /\ UNCHANGED <<lostCount, isDisconnectInner, reads, wire, issued, told>>

(* socketDidDisconnect:                                                    *)
DidDisconnect ==
    /\ main # <<>> /\ Head(main).event = "disconnect"
    /\ FinishCurrent(content)
    /\ main' = Tail(main) \o
                 IF isDisconnectInner THEN <<>>
                 ELSE ProcessConnect("disconnected")
    /\ astray' = StaysAstray
    /\ UNCHANGED <<lostCount, isDisconnectInner, reads, wire, issued, told>>

(* didWriteDataWithTag:                                                    *)
DidWriteData ==
    /\ main # <<>> /\ Head(main) = WriteBlock
    /\ main' = Tail(main)
    /\ reads' = Queued(sock, reads, "header")
    /\ UNCHANGED <<queueVars, lostCount, isDisconnectInner, sock, writes, wire,
                   issued, historyVars, told, astray>>

(* didReadData:withTag:, by the tag and, for a header, by its length; what *)
(* is only taken for a header gives none.                                  *)
DidReadHeader(part) ==
    \/ /\ part.is = "counted"
       /\ reads' = Queued(sock, reads, "body")
       /\ UNCHANGED <<queueVars, sock, writes, historyVars>>
    \/ /\ part.is \in {"uncounted", "data"}
       /\ content' = {}
       /\ reads' = Queued(sock, reads, "rest")
       /\ UNCHANGED <<queue, currentRequest, sock, writes, historyVars>>
    \/ /\ part.is = "empty"
       /\ FinishCurrent({part.req})
       /\ UNCHANGED reads

DidReadData ==
    /\ main # <<>> /\ Head(main).event = "read"
    /\ LET tag == Head(main).tag
           part == Head(main).part
       IN \/ /\ tag = "header"
             /\ DidReadHeader(part)
             /\ UNCHANGED lostCount
          \/ /\ tag = "body"
             /\ FinishCurrent({part.req})
             /\ lostCount' = 0
             /\ UNCHANGED reads
          \/ /\ tag = "rest"
             /\ content' = content \cup {part.req}
             /\ reads' = Queued(sock, reads, "rest")
             /\ UNCHANGED <<queue, currentRequest, lostCount, sock, writes,
                            historyVars>>
    /\ main' = Tail(main)
    /\ UNCHANGED <<isDisconnectInner, wire, issued, told, astray>>

(* The block of processConnect: reaches the delegate and its notification. *)
SocketConnect ==
    /\ main # <<>> /\ Head(main).event = "tell"
    /\ told' = Head(main).state
    /\ main' = Tail(main)
    /\ UNCHANGED <<queueVars, lostCount, isDisconnectInner, socketVars, issued,
                   historyVars, astray>>

-----------------------------------------------------------------------------
Client == ConnectWithHost \/ CancelAll \/ Disconnect \/ Request
MainQueue ==
    DidConnect \/ DidDisconnect \/ DidWriteData \/ DidReadData \/ SocketConnect
ConnectEnds == SocketConnects \/ ConnectFails
WriteEnds == SocketWrites \/ WriteTimesOut
ReadEnds == SocketReads \/ ReadTimesOut

Next ==
    \/ Client \/ MainQueue
    \/ ConnectEnds \/ WriteEnds \/ ReadEnds \/ ServerCloses

Spec == Init /\ [][Next]_vars

(* The main queue runs its blocks.  The socket gives each connection       *)
(* attempt, write and read a time limit, so each of them ends.             *)
Fairness ==
    /\ WF_vars(MainQueue)
    /\ WF_vars(ConnectEnds) /\ WF_vars(WriteEnds) /\ WF_vars(ReadEnds)
FairSpec == Spec /\ Fairness

-----------------------------------------------------------------------------
(* Properties                                                              *)

TypeOK ==
    /\ queue \in Seq(Requests)
    /\ currentRequest \in Requests \cup {NoRequest}
    /\ lostCount \in Nat
    /\ isDisconnectInner \in BOOLEAN
    /\ content \in SUBSET Requests
    /\ sock \in SocketStates
    /\ writes \in Seq(Requests)
    /\ reads \in Seq(Tags)
    /\ wire \in Seq(Parts)
    /\ main \in Seq(Blocks)
    /\ issued \in 0 .. MaxRequests
    /\ calls \in [Requests -> Nat]
    /\ answer \in [Requests -> SUBSET Requests]
    /\ told \in {"nothing", "connected", "disconnected"}
    /\ astray \in BOOLEAN

(* Between two blocks of the main thread the current request is the first  *)
(* of the queue: no request waits unserved after a disconnect, a purge, a  *)
(* cancelAll or the late answer of a request that is gone, and none that   *)
(* has left the queue is still completed by didReadData or                 *)
(* socketDidDisconnect.                                                    *)
QueueIsServed ==
    currentRequest = IF queue = <<>> THEN NoRequest ELSE Head(queue)

(* The completion of a request runs at most once, and not while the        *)
(* request still waits: the answer, the disconnect and the purge's own     *)
(* disconnect may all arrive for one request.                              *)
CompletedOnce ==
    \A r \in Requests :
        /\ calls[r] <= 1
        /\ r > issued \/ r \in ToSet(queue) => calls[r] = 0

(* processDelayRequest keeps the backlog at what the code calls the most   *)
(* that may pile up, the request being added aside, and the count of       *)
(* purges below the point where the connection is given up.                *)
BacklogIsBounded ==
    /\ Len(queue) <= KHttpRequestDelayCount + 1
    /\ lostCount <= KHttpJudgeLostCount

(* A request being served is never left with nothing that could end it: a  *)
(* disconnect is on its way to the main queue, or the connection has       *)
(* something to do for the queue, or a block that will give it something.  *)
Waking(events) == \E i \in DOMAIN main : main[i].event \in events
NoStall ==
    currentRequest # NoRequest =>
        \/ Waking({"disconnect"})
        \/ /\ sock # "closed"
           /\ writes # <<>> \/ reads # <<>> \/ Waking({"write", "read"})

(* A completion carries data of its own request's answer or none, unless   *)
(* since the connection was last down for good a purge, a cancelAll or a   *)
(* give-up forgot a request, or the disconnect of an earlier connection    *)
(* ended one that was being served.  Then it may carry answers of requests *)
(* before its own, and never of a later one.                               *)
AnswersMatch ==
    [][\A r \in Requests :
         answer'[r] # answer[r] =>
            answer'[r] \subseteq IF astray THEN 1 .. r ELSE {r}]_vars

(* When nothing is under way on the main queue and the connection is down, *)
(* a delegate that was told "connected" last was not told of the loss only *)
(* because the queue's own purge hides it.                                 *)
LossIsKnown ==
    main = <<>> /\ sock = "closed" /\ told = "connected" => isDisconnectInner

(* A request that waits leaves the queue: completed, purged or cancelled.  *)
RequestsLeave ==
    \A r \in Requests : r \in ToSet(queue) ~> r \notin ToSet(queue)

(* The queue keeps what RequestPromise promises: FIFO, one end for each    *)
(* request, completed or forgotten by a purge, a cancelAll or a give-up.   *)
FateOf(r) ==
    CASE r > issued             -> "unmade"
      [] r \in ToSet(queue)     -> "waits"
      [] r <= issued /\ calls[r] > 0 /\ r \notin ToSet(queue) -> "completed"
      [] OTHER                  -> "forgotten"
Promise == INSTANCE RequestPromise
             WITH waiting <- queue, fate <- [r \in Requests |-> FateOf(r)]
KeepsPromise == Promise!Spec
=============================================================================
