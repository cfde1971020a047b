---------------------------- MODULE RequestQueue ----------------------------
(***************************************************************************)
(* RequestQueue.m: HTTPS requests to a camera, one at a time over one      *)
(* GCDAsyncSocket, with a queue of priority requests served first.         *)
(*                                                                         *)
(* As in HttpRequestQueue, the socket works on a queue of its own and      *)
(* calls its delegate by blocks on the main queue.  A connection is made   *)
(* in two steps: once connected, the delegate asks for TLS, which the      *)
(* socket queues as one more read and one more write.  A request written   *)
(* before that goes out in plain bytes, and a server of HTTPS then drops   *)
(* the connection.                                                         *)
(*                                                                         *)
(* A completion may make requests; the handlers take their commands as     *)
(* "nested".  A header is kept as whose answer it is and what it says:     *)
(* "accepted" (302 to www/index.html, with a cookie), "refused" (401) or   *)
(* "other".                                                                *)
(***************************************************************************)
EXTENDS Integers, Sequences, SequencesExt

CONSTANTS
    MaxRequests,   \* bound: calls of request:completion:
    Cmds,          \* the commands
    PriorityCmds,  \* those that contain /ctrl/icam?
    Answers,       \* how the server announces the length of answers
    Faults         \* what the environment may do

FaultKinds ==
    { "cancel",      \* the client calls cancelAll
      "disconnect",  \* the client calls disconnect
      "refuse",      \* a connection attempt or a handshake fails
      "timeout",     \* a read or a write times out
      "close" }      \* the server closes the connection

(* "counted": Content-Length > 0; "empty": Content-Length 0; "uncounted":  *)
(* no Content-Length; "data": the bytes after the first and the last.      *)
AnswerKinds == {"counted", "empty", "uncounted"}
Statuses == {"accepted", "refused", "other"}

ASSUME BoundAssumption == MaxRequests \in Nat
ASSUME CmdsAssumption == PriorityCmds \subseteq Cmds /\ "none" \notin Cmds
ASSUME EnvironmentAssumption ==
    Answers \subseteq AnswerKinds /\ Faults \subseteq FaultKinds

Requests == 1 .. MaxRequests
NoRequest == 0                            \* nil
NoHeader == [req |-> 0, status |-> "none"]

VARIABLES
    queue, priorityQueue,  \* the waiting requests
    currentRequest,
    currentResponseHeader,
    sock,       \* the connection; "spoilt" once it carried plain bytes
    writes,     \* requests the socket has to write, and TLS
    reads,      \* reads the socket has to do, by their tag, and "tls"
    wire,       \* answers of the server the socket has not read
    main,       \* blocks on the main queue
    cmd,        \* the command of each request
    issued,     \* requests made so far; request n is the n-th
    calls,      \* how often each request's completion ran
    answer,     \* whose answer those calls without an error carried
    cancelled,  \* cancelAll has been called
    bodyLeft    \* a header without a length ended an answer before its body

queues == <<queue, priorityQueue, currentRequest>>
socketVars == <<sock, writes, reads, wire>>
historyVars == <<cmd, issued, calls, answer>>
queueVars == <<queues, currentResponseHeader, socketVars, main, historyVars,
               cancelled, bodyLeft>>

TLS == 0                                  \* the TLS packet among the writes
SocketStates == {"closed", "connecting", "connected", "spoilt", "secured"}
Tags == {"tls", "header", "body"}
Parts == [req : Requests, status : Statuses, is : AnswerKinds \cup {"data"}]
Headers == [req : Requests, status : Statuses] \cup {NoHeader}
Blocks ==
    [event : {"connect", "write", "disconnect"}]
        \cup [event : {"read"}, tag : Tags, part : Parts]

ConnectBlock == [event |-> "connect"]
WriteBlock == [event |-> "write"]
DisconnectBlock == [event |-> "disconnect"]
ReadBlock(tag, part) == [event |-> "read", tag |-> tag, part |-> part]

(* initWithIP: connects at once.                                           *)
QueueInit ==
    /\ queue = <<>> /\ priorityQueue = <<>> /\ currentRequest = NoRequest
    /\ currentResponseHeader = NoHeader
    /\ sock = "connecting" /\ writes = <<>> /\ reads = <<>> /\ wire = <<>>
    /\ main = <<>>
    /\ cmd = [r \in Requests |-> "none"] /\ issued = 0
    /\ calls = [r \in Requests |-> 0] /\ answer = [r \in Requests |-> {}]
    /\ cancelled = FALSE /\ bodyLeft = FALSE

-----------------------------------------------------------------------------
(* The socket, as the queue uses it: GCDAsyncSocket, a pod outside src/.   *)

(* connectToHost: fails on a socket that is connecting or connected.       *)
Started(s) == IF s = "closed" THEN "connecting" ELSE s

(* A read or a write queued on a closed socket is dropped.                 *)
Queued(s, ops, op) == IF s = "closed" THEN ops ELSE Append(ops, op)

SocketCloses ==
    /\ sock' = "closed" /\ writes' = <<>> /\ reads' = <<>> /\ wire' = <<>>
    /\ main' = Append(main, DisconnectBlock)
    /\ UNCHANGED <<queues, currentResponseHeader, historyVars, cancelled,
                   bodyLeft>>

IsConnected == sock \in {"connected", "spoilt", "secured"}

SocketConnects ==
    /\ sock = "connecting"
    /\ sock' = "connected"
    /\ main' = Append(main, ConnectBlock)
    /\ UNCHANGED <<queues, currentResponseHeader, writes, reads, wire,
                   historyVars, cancelled, bodyLeft>>

ConnectFails ==
    /\ "refuse" \in Faults /\ sock = "connecting"
    /\ SocketCloses

(* The handshake starts when TLS is the next write and the next read.      *)
HandshakeIsDue ==
    /\ sock \in {"connected", "spoilt"}
    /\ writes # <<>> /\ Head(writes) = TLS
    /\ reads # <<>> /\ Head(reads) = "tls"

SocketSecures ==
    /\ HandshakeIsDue /\ sock = "connected"
    /\ sock' = "secured"
    /\ writes' = Tail(writes) /\ reads' = Tail(reads)
    /\ UNCHANGED <<queues, currentResponseHeader, wire, main, historyVars,
                   cancelled, bodyLeft>>

HandshakeFails ==
    /\ HandshakeIsDue
    /\ sock = "spoilt" \/ "refuse" \in Faults
    /\ SocketCloses

(* A request goes out: in plain before the handshake, and is not answered. *)
(* The bytes of a body say nothing a header would.                         *)
AnswerTo(r, status, kind) ==
    LET header == [req |-> r, status |-> status, is |-> kind]
        body == [req |-> r, status |-> "other", is |-> "data"]
    IN IF kind = "empty" THEN <<header>> ELSE <<header, body>>

SocketWrites(status) ==
    /\ IsConnected /\ writes # <<>> /\ Head(writes) # TLS
    /\ writes' = Tail(writes)
    /\ IF sock = "secured"
       THEN /\ \E kind \in Answers :
                  wire' = wire \o AnswerTo(Head(writes), status, kind)
            /\ UNCHANGED sock
       ELSE sock' = "spoilt" /\ UNCHANGED wire
    /\ main' = Append(main, WriteBlock)
    /\ UNCHANGED <<queues, currentResponseHeader, reads, historyVars,
                   cancelled, bodyLeft>>

WriteTimesOut ==
    /\ "timeout" \in Faults
    /\ IsConnected /\ writes # <<>> /\ Head(writes) # TLS
    /\ SocketCloses

(* A header read takes all up to the first blank line.  That ends the next *)
(* header, whose status the bytes before it may hide; but a body left on   *)
(* the wire may hold one too: a chunked body does at its end, and is then  *)
(* taken whole.  A body read takes what comes next (all parts are taken to *)
(* be of one length).                                                      *)
ReadsPart(i) ==
    IF Head(reads) = "header"
    THEN \A j \in DOMAIN wire : j < i => wire[j].is = "data"
    ELSE i = 1

SocketReads ==
    /\ sock = "secured" /\ reads # <<>> /\ Head(reads) # "tls"
    /\ \E i \in DOMAIN wire, status \in Statuses :
        /\ ReadsPart(i)
        /\ status = wire[i].status \/ (i > 1 /\ status = "other")
        /\ wire' = SubSeq(wire, i + 1, Len(wire))
        /\ main' = Append(main,
              ReadBlock(Head(reads), [wire[i] EXCEPT !.status = status]))
    /\ reads' = Tail(reads)
    /\ UNCHANGED <<queues, currentResponseHeader, sock, writes, historyVars,
                   cancelled, bodyLeft>>

ReadTimesOut ==
    /\ "timeout" \in Faults
    /\ IsConnected /\ reads # <<>> /\ Head(reads) # "tls"
    /\ SocketCloses

ServerCloses ==
    /\ IsConnected
    /\ sock = "spoilt" \/ "close" \in Faults
    /\ SocketCloses

-----------------------------------------------------------------------------
(* RequestQueue                                                            *)

(* Mutants of processNextRequest: it does not connect; it serves the       *)
(* ordinary requests first.                                                *)
ProcessNextUnconnected(q, p, cur, s, w) ==
    /\ queue' = q /\ priorityQueue' = p
    /\ IF p \o q = <<>> \/ cur # NoRequest
       THEN currentRequest' = cur /\ sock' = s /\ writes' = w
       ELSE /\ currentRequest' = Head(p \o q)
            /\ sock' = s /\ writes' = Queued(s, w, Head(p \o q))
ProcessNextOrdinary(q, p, cur, s, w) ==
    /\ queue' = q /\ priorityQueue' = p
    /\ IF p \o q = <<>> \/ cur # NoRequest
       THEN currentRequest' = cur /\ sock' = s /\ writes' = w
       ELSE /\ currentRequest' = Head(q \o p)
            /\ sock' = Started(s) /\ writes' = Append(w, Head(q \o p))

(* processNextRequest on queues q and p, current request cur, socket s,    *)
(* writes w.                                                               *)
ProcessNextRequest(q, p, cur, s, w) ==
    /\ queue' = q /\ priorityQueue' = p
    /\ IF p \o q = <<>> \/ cur # NoRequest
       THEN currentRequest' = cur /\ sock' = s /\ writes' = w
       ELSE /\ currentRequest' = Head(p \o q)
            /\ sock' = Started(s) /\ writes' = Append(w, Head(p \o q))

(* Mutant: only an ordinary request kicks the queue off.                   *)
KicksOffOrdinary(q, p) == Len(q) = 1

KicksOff(q, p) == Len(q) = 1 \/ (q = <<>> /\ Len(p) = 1)

(* addHttpRequest:                                                         *)
AddHttpRequest(r, c) ==
    LET q == IF c \in PriorityCmds THEN queue ELSE Append(queue, r)
        p == IF c \in PriorityCmds THEN Append(priorityQueue, r)
                                   ELSE priorityQueue
    IN IF KicksOff(q, p)
       THEN ProcessNextRequest(q, p, currentRequest, sock, writes)
       ELSE /\ queue' = q /\ priorityQueue' = p
            /\ UNCHANGED <<currentRequest, sock, writes>>

Request(c) ==
    /\ issued < MaxRequests
    /\ issued' = issued + 1
    /\ cmd' = [cmd EXCEPT ![issued + 1] = c]
    /\ AddHttpRequest(issued + 1, c)
    /\ UNCHANGED <<currentResponseHeader, reads, wire, main, calls, answer,
                   cancelled, bodyLeft>>

(* cancelAll: the request on its way is let go of, its answer is not.      *)
CancelAll ==
    /\ "cancel" \in Faults
    /\ queue' = <<>> /\ priorityQueue' = <<>> /\ currentRequest' = NoRequest
    /\ cancelled' = TRUE
    /\ UNCHANGED <<currentResponseHeader, socketVars, main, historyVars,
                   bodyLeft>>

Disconnect ==
    /\ "disconnect" \in Faults /\ sock # "closed"
    /\ SocketCloses

(* removeHttpRequest: on one of the two queues, which hold a request once. *)
RemoveHttpRequest(q, r) ==
    IF r \in ToSet(q)
    THEN RemoveAt(q, CHOOSE i \in DOMAIN q : q[i] = r)
    ELSE q

(* The requests a completion makes are ordinary ones.  They find a current *)
(* request, so the kick-off of addHttpRequest returns.                     *)
Made(nested) == [i \in DOMAIN nested |-> issued + i]

(* The end of an exchange, common to the handlers: the completion runs,    *)
(* the request leaves its queue and the next one is served.                *)
FinishCurrent(from, nested) ==
    /\ IF currentRequest = NoRequest
       THEN UNCHANGED historyVars
       ELSE /\ calls' = [calls EXCEPT ![currentRequest] = @ + 1]
            /\ answer' = [answer EXCEPT ![currentRequest] = from]
            /\ issued' = issued + Len(nested)
            /\ cmd' = [r \in Requests |->
                          IF r \in issued + 1 .. issued + Len(nested)
                          THEN nested[r - issued] ELSE cmd[r]]
    /\ ProcessNextRequest(
          RemoveHttpRequest(queue \o Made(nested), currentRequest),
          RemoveHttpRequest(priorityQueue, currentRequest),
          NoRequest, sock, writes)

(* startTLS: once for a connection.                                        *)
StartSSL ==
    IF sock = "secured" \/ TLS \in ToSet(writes)
    THEN UNCHANGED <<writes, reads>>
    ELSE /\ writes' = Queued(sock, writes, TLS)
         /\ reads' = Queued(sock, reads, "tls")

(* didConnectToHost:                                                       *)
DidConnect ==
    /\ main # <<>> /\ Head(main) = ConnectBlock
    /\ main' = Tail(main)
    /\ StartSSL
    /\ UNCHANGED <<queues, currentResponseHeader, sock, wire, historyVars,
                   cancelled, bodyLeft>>

(* socketDidDisconnect:                                                    *)
DidDisconnect(nested) ==
    /\ main # <<>> /\ Head(main) = DisconnectBlock
    /\ main' = Tail(main)
    /\ FinishCurrent({}, nested)
    /\ UNCHANGED <<currentResponseHeader, reads, wire, cancelled, bodyLeft>>

(* didWriteDataWithTag:                                                    *)
DidWriteData ==
    /\ main # <<>> /\ Head(main) = WriteBlock
    /\ main' = Tail(main)
    /\ reads' = Queued(sock, reads, "header")
    /\ UNCHANGED <<queues, currentResponseHeader, sock, writes, wire,
                   historyVars, cancelled, bodyLeft>>

HeaderOf(part) == [req |-> part.req, status |-> part.status]

(* Mutants of didReadData: the header is kept only for the body to come;   *)
(* the first one read is kept.                                             *)
KeepHeaderWithBody(part) ==
    currentResponseHeader' = IF part.is = "counted" THEN HeaderOf(part)
                             ELSE currentResponseHeader

KeepFirstHeader(part) ==
    currentResponseHeader' = IF currentResponseHeader = NoHeader
                             THEN HeaderOf(part) ELSE currentResponseHeader

KeepHeader(part) == currentResponseHeader' = HeaderOf(part)

(* didReadData:withTag: for a header.  contentLength is unsigned and 0     *)
(* when the header gives none, so an answer without one ends there and its *)
(* body stays on the wire; a body taken for a header gives none either.    *)
DidReadHeader(part, nested) ==
    IF part.is = "counted"
    THEN /\ reads' = Queued(sock, reads, "body")
         /\ UNCHANGED <<queues, sock, writes, historyVars>>
    ELSE /\ FinishCurrent({part.req}, nested)
         /\ UNCHANGED reads

DidReadData(nested) ==
    /\ main # <<>> /\ Head(main).event = "read"
    /\ LET part == Head(main).part
       IN \/ /\ Head(main).tag = "header"
             /\ KeepHeader(part)
             /\ DidReadHeader(part, nested)
             /\ bodyLeft' = (bodyLeft \/ part.is = "uncounted")
          \/ /\ Head(main).tag = "body"
             /\ FinishCurrent({currentResponseHeader.req, part.req}, nested)
             /\ UNCHANGED <<currentResponseHeader, reads, bodyLeft>>
    /\ main' = Tail(main)
    /\ UNCHANGED <<wire, cancelled>>

(* Whether the block at the head of the main queue runs the completion of  *)
(* the current request, and the header it then gets: the one just read, or *)
(* the last one read, for whatever request.                                *)
Completes ==
    /\ main # <<>> /\ currentRequest # NoRequest
    /\ \/ Head(main) = DisconnectBlock
       \/ /\ Head(main).event = "read"
          /\ Head(main).tag = "header" => Head(main).part.is # "counted"

GivenHeader ==
    IF Head(main).event = "read" /\ Head(main).tag = "header"
    THEN HeaderOf(Head(main).part) ELSE currentResponseHeader

=============================================================================
