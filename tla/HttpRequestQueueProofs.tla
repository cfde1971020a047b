----------------------- MODULE HttpRequestQueueProofs -----------------------
(***************************************************************************)
(* Theorems about HttpRequestQueue, for every number of requests, every    *)
(* backlog and loss limit, every kind of answer and every set of faults.   *)
(***************************************************************************)
EXTENDS HttpRequestQueue, SequenceTheorems, TLAPS

(* The queue holds requests already made, in the order they were made, and *)
(* none of them has been completed.                                        *)
Ordered ==
    /\ \A i, j \in DOMAIN queue : i < j => queue[i] < queue[j]
    /\ \A i \in DOMAIN queue : queue[i] <= issued /\ calls[queue[i]] = 0
    /\ \A r \in Requests : calls[r] <= 1 /\ (r > issued => calls[r] = 0)

(* The inductive invariant.                                                *)
IInv == TypeOK /\ QueueIsServed /\ Ordered /\ BacklogIsBounded /\ NoStall

BlocksType == main' \in Seq(Blocks)
SocketType ==
    /\ sock' \in SocketStates
    /\ writes' \in Seq(Requests)
QueueType ==
    /\ queue' \in Seq(Requests)
    /\ currentRequest' \in Requests \cup {NoRequest}
    /\ content' \in SUBSET Requests
    /\ SocketType

-----------------------------------------------------------------------------
(* The blocks of the main queue.                                           *)

(* Each kind of block is a block. *)
LEMMA BlocksAreBlocks ==
    /\ ConnectBlock \in Blocks
    /\ WriteBlock \in Blocks
    /\ \A e \in BOOLEAN : DisconnectBlock(e) \in Blocks
    /\ \A t \in Tags, p \in Parts : ReadBlock(t, p) \in Blocks
    /\ \A s \in {"connected", "disconnected"} : TellBlock(s) \in Blocks
BY DEF Blocks, ConnectBlock, WriteBlock, DisconnectBlock, ReadBlock, TellBlock

(* What each kind of block carries. *)
LEMMA BlockFields ==
    ASSUME NEW b \in Blocks
    PROVE  /\ b.event = "read" => b.tag \in Tags /\ b.part \in Parts
           /\ b.event = "tell" => b.state \in {"connected", "disconnected"}
           /\ b.event = "disconnect" => b.error \in BOOLEAN
BY DEF Blocks

(* Removing the first of a sequence of different elements leaves its tail. *)
LEMMA RemoveHead ==
    ASSUME NEW q \in Seq(Requests), q # <<>>,
           \A i, j \in DOMAIN q : i < j => q[i] < q[j]
    PROVE  RemoveHttpRequest(q, Head(q)) = Tail(q)
<1>1. 1 \in DOMAIN q /\ q[1] = Head(q) /\ Len(q) >= 1 /\ Len(q) \in Nat
      /\ DOMAIN q = 1 .. Len(q)
  OBVIOUS
<1>2. ASSUME NEW i \in DOMAIN q, q[i] = Head(q)
      PROVE  i = 1
  <2>1. q[i] \in Nat /\ q[1] \in Nat /\ i \in 1 .. Len(q)
    BY <1>1, CountsAssumption DEF Requests
  <2>2. ~ (1 < i)
    <3>1. 1 < i => q[1] < q[i]
      BY <1>1
    <3> QED BY <1>1, <1>2, <2>1, <3>1
  <2> QED BY <2>1, <2>2
<1>3. (CHOOSE i \in DOMAIN q : q[i] = Head(q)) = 1
  BY <1>1, <1>2
<1>4. RemoveHttpRequest(q, Head(q)) = RemoveAt(q, 1)
  BY <1>1, <1>3 DEF RemoveHttpRequest
<1>5. RemoveAt(q, 1) = SubSeq(q, 1, 0) \o SubSeq(q, 2, Len(q))
  BY DEF RemoveAt
<1>6. SubSeq(q, 1, 0) = <<>>
  BY SubSeqEmpty
<1>7. SubSeq(q, 2, Len(q)) = Tail(q)
  BY TailIsSubSeq
<1>8. Tail(q) \in Seq(Requests)
  OBVIOUS
<1>9. <<>> \o Tail(q) = Tail(q)
  BY <1>8, ConcatEmptySeq
<1> QED BY <1>4, <1>5, <1>6, <1>7, <1>9

(* What processNextRequest leaves.                                         *)
LEMMA NextType ==
    ASSUME NEW q \in Seq(Requests), NEW cur \in Requests \cup {NoRequest},
           NEW s \in SocketStates, NEW w \in Seq(Requests),
           content \in SUBSET Requests,
           ProcessNextRequest(q, cur, s, w)
    PROVE  QueueType
BY SMTT(30) DEF ProcessNextRequest, QueueType, SocketType, SocketStates, Started,
       NoRequest

(* Whatever ends a request, the head of what is left is served next. *)
LEMMA NextServes ==
    ASSUME NEW q \in Seq(Requests), NEW s \in SocketStates,
           NEW w \in Seq(Requests),
           ProcessNextRequest(q, NoRequest, s, w)
    PROVE  /\ queue' = q
           /\ QueueIsServed'
           /\ currentRequest' # NoRequest => sock' # "closed" /\ writes' # <<>>
BY DEF ProcessNextRequest, QueueIsServed, Started, SocketStates, NoRequest

(* There is a current request as long as the queue holds one.              *)
LEMMA CurrentIsNone ==
    ASSUME queue \in Seq(Requests), QueueIsServed
    PROVE  currentRequest = NoRequest <=> queue = <<>>
<1>1. NoRequest \notin Requests
  BY DEF Requests, NoRequest
<1>2. queue # <<>> => Head(queue) \in Requests
  BY HeadTailProperties
<1> QED BY <1>1, <1>2 DEF QueueIsServed

(* The end of an exchange: the current request, if any, leaves the head of *)
(* the queue, is completed for the first time, and the next one is served. *)
LEMMA FinishQueue ==
    ASSUME TypeOK, QueueIsServed, Ordered, NEW from \in SUBSET Requests,
           FinishCurrent(from)
    PROVE  /\ QueueType /\ QueueIsServed'
           /\ queue' = IF queue = <<>> THEN <<>> ELSE Tail(queue)
           /\ currentRequest' # NoRequest =>
                sock' # "closed" /\ writes' # <<>>
<1> DEFINE rest == IF currentRequest = NoRequest THEN queue
                   ELSE RemoveHttpRequest(queue, currentRequest)
<1>1. currentRequest = NoRequest <=> queue = <<>>
  BY CurrentIsNone DEF TypeOK
<1>2. rest = IF queue = <<>> THEN <<>> ELSE Tail(queue)
  <2>1. CASE queue = <<>>
    BY <1>1, <2>1
  <2>2. CASE queue # <<>>
    <3>1. \A i, j \in DOMAIN queue : i < j => queue[i] < queue[j]
      BY DEF Ordered
    <3>2. RemoveHttpRequest(queue, Head(queue)) = Tail(queue)
      BY <2>2, <3>1, RemoveHead DEF TypeOK
    <3> QED BY <1>1, <2>2, <3>2 DEF QueueIsServed
  <2> QED BY <2>1, <2>2
<1>3. rest \in Seq(Requests)
  <2>1. queue \in Seq(Requests) /\ <<>> \in Seq(Requests)
    BY DEF TypeOK
  <2>2. queue # <<>> => Tail(queue) \in Seq(Requests)
    BY <2>1, HeadTailProperties
  <2> HIDE DEF rest
  <2> QED BY <1>2, <2>1, <2>2
<1>4. ProcessNextRequest(rest, NoRequest, sock, writes)
  BY DEF FinishCurrent
<1> HIDE DEF rest
<1>5. sock \in SocketStates /\ writes \in Seq(Requests)
      /\ content \in SUBSET Requests
  BY DEF TypeOK
<1>6. QueueType
  BY <1>3, <1>4, <1>5, NextType
<1>7. /\ queue' = rest /\ QueueIsServed'
      /\ currentRequest' # NoRequest => sock' # "closed" /\ writes' # <<>>
  BY <1>3, <1>4, <1>5, NextServes
<1> QED BY <1>2, <1>6, <1>7

(* Ending a request gives its completion one answer, and the others what they had. *)
LEMMA FinishHistory ==
    ASSUME TypeOK, QueueIsServed, Ordered, NEW from \in SUBSET Requests,
           FinishCurrent(from), issued' = issued
    PROVE  /\ calls' \in [Requests -> Nat]
           /\ answer' \in [Requests -> SUBSET Requests]
           /\ Ordered'
           /\ BacklogIsBounded => Len(queue') <= KHttpRequestDelayCount + 1
<1>1. currentRequest = NoRequest <=> queue = <<>>
  BY CurrentIsNone DEF TypeOK
<1>2. queue' = IF queue = <<>> THEN <<>> ELSE Tail(queue)
  BY FinishQueue
<1>3. /\ calls \in [Requests -> Nat] /\ answer \in [Requests -> SUBSET Requests]
      /\ queue \in Seq(Requests) /\ issued \in Nat
  BY CountsAssumption DEF TypeOK
<1>4. CASE queue = <<>>
  <2>1. UNCHANGED historyVars /\ queue' = <<>>
    BY <1>1, <1>2, <1>4 DEF FinishCurrent
  <2> QED BY <1>3, <1>4, <2>1, CountsAssumption DEF historyVars, Ordered, BacklogIsBounded
<1>5. CASE queue # <<>>
  <2> DEFINE c == Head(queue)
  <2>1. currentRequest = c /\ c \in Requests /\ queue[1] = c /\ 1 \in DOMAIN queue
    BY <1>3, <1>5 DEF QueueIsServed
  <2>2. /\ calls' = [calls EXCEPT ![c] = @ + 1]
        /\ answer' = [answer EXCEPT ![c] = from]
    BY <1>1, <1>5, <2>1 DEF FinishCurrent
  <2>3. queue' = Tail(queue)
    BY <1>2, <1>5
  <2>4. /\ Len(queue') = Len(queue) - 1 /\ DOMAIN queue' = 1 .. Len(queue) - 1
        /\ \A i \in DOMAIN queue' : queue'[i] = queue[i + 1]
        /\ DOMAIN queue = 1 .. Len(queue) /\ Len(queue) \in Nat
    BY <1>3, <1>5, <2>3
  <2>5. calls[c] = 0 /\ c <= issued
    BY <2>1 DEF Ordered
  <2>6. \A i, j \in DOMAIN queue' : i < j => queue'[i] < queue'[j]
    BY <2>4 DEF Ordered
  <2>7. ASSUME NEW i \in DOMAIN queue'
        PROVE  queue'[i] <= issued' /\ calls'[queue'[i]] = 0
    <3>1. i + 1 \in DOMAIN queue /\ 1 < i + 1 /\ queue'[i] = queue[i + 1]
      BY <2>4
    <3>2. queue[1] < queue[i + 1] /\ queue[i + 1] <= issued
          /\ calls[queue[i + 1]] = 0
      BY <2>1, <3>1 DEF Ordered
    <3>3. queue[i + 1] \in Requests /\ queue[i + 1] \in Nat /\ c \in Nat
      BY <1>3, <2>1, <3>1, CountsAssumption DEF Requests
    <3> QED BY <1>3, <2>1, <2>2, <3>1, <3>2, <3>3
  <2>8. ASSUME NEW r \in Requests
        PROVE  calls'[r] <= 1 /\ (r > issued' => calls'[r] = 0)
    <3>1. calls[r] <= 1 /\ (r > issued => calls[r] = 0) /\ r \in Nat
      BY CountsAssumption DEF Ordered, Requests
    <3> QED BY <1>3, <2>1, <2>2, <2>5, <3>1
  <2>9. Ordered'
    BY <2>6, <2>7, <2>8 DEF Ordered
  <2>10. calls' \in [Requests -> Nat] /\ answer' \in [Requests -> SUBSET Requests]
    BY <1>3, <2>1, <2>2
  <2> QED BY <2>4, <2>9, <2>10, CountsAssumption DEF BacklogIsBounded
<1> QED BY <1>4, <1>5

(* Blocks reach the main queue at its end and leave it at its head.        *)
LEMMA PostType ==
    ASSUME main \in Seq(Blocks), NEW b \in Blocks
    PROVE  /\ Append(main, b) \in Seq(Blocks)
           /\ main # <<>> => /\ Tail(main) \in Seq(Blocks)
                             /\ Tail(main) \o <<b>> \in Seq(Blocks)
                             /\ Tail(main) \o <<>> \in Seq(Blocks)
OBVIOUS

(* A connection that goes down leaves the state well typed. *)
LEMMA ClosesType ==
    ASSUME TypeOK, NEW e \in BOOLEAN, SocketCloses(e)
    PROVE  TypeOK'
<1>1. main' \in Seq(Blocks)
  BY BlocksAreBlocks, PostType DEF TypeOK, SocketCloses
<1> QED BY <1>1 DEF TypeOK, SocketCloses, SocketStates, queueVars, historyVars

(* What request: leaves when it purges the queue.                          *)
LEMMA PurgeType ==
    ASSUME TypeOK, NEW kept \in {<<>>} \cup {<<r>> : r \in Requests},
           NEW out \in BOOLEAN, ProcessDelayRequest(kept, out)
    PROVE  /\ reads' \in Seq(Tags) /\ wire' \in Seq(Parts)
           /\ main' \in Seq(Blocks)
           /\ kept \in Seq(Requests)
<1>1. reads' \in Seq(Tags) /\ wire' \in Seq(Parts) /\ kept \in Seq(Requests)
  <2>1. reads' = <<>> /\ wire' = <<>>
    BY DEF ProcessDelayRequest
  <2>2. <<>> \in Seq(Tags) /\ <<>> \in Seq(Parts)
    OBVIOUS
  <2>3. kept \in Seq(Requests)
    <3>1. \A r \in Requests : <<r>> \in Seq(Requests)
      OBVIOUS
    <3>2. <<>> \in Seq(Requests)
      OBVIOUS
    <3> QED BY <3>1, <3>2
  <2> QED BY <2>1, <2>2, <2>3
<1> DEFINE a == IF out THEN <<WriteBlock>> ELSE <<>>
           b == IF sock # "closed" \/ kept # <<>>
                THEN <<DisconnectBlock(FALSE)>> ELSE <<>>
<1>2. main \in Seq(Blocks) /\ a \in Seq(Blocks) /\ b \in Seq(Blocks)
  <2>1. <<WriteBlock>> \in Seq(Blocks) /\ <<DisconnectBlock(FALSE)>> \in Seq(Blocks)
    <3>1. \A c \in Blocks : <<c>> \in Seq(Blocks)
      OBVIOUS
    <3>2. WriteBlock \in Blocks /\ DisconnectBlock(FALSE) \in Blocks
      BY BlocksAreBlocks
    <3> QED BY <3>1, <3>2
  <2>2. <<>> \in Seq(Blocks) /\ main \in Seq(Blocks)
    BY DEF TypeOK
  <2> QED BY <2>1, <2>2
<1>3. main' = main \o a \o b
  BY DEF ProcessDelayRequest
<1> HIDE DEF a, b
<1> QED BY <1>1, <1>2, <1>3

(* Each way request: can go leaves the state well typed. *)
LEMMA RequestType ==
    ASSUME TypeOK, QueueIsServed, Request
    PROVE  TypeOK'
<1>1. /\ issued' \in 1 .. MaxRequests /\ issued' = issued + 1
      /\ issued' \in 0 .. MaxRequests
      /\ calls' \in [Requests -> Nat] /\ answer' \in [Requests -> SUBSET Requests]
      /\ told' \in {"nothing", "connected", "disconnected"}
  BY CountsAssumption DEF Request, TypeOK, historyVars
<1>2. issued + 1 \in Requests /\ <<issued + 1>> \in Seq(Requests)
  BY <1>1 DEF Requests
<1>3. CASE RequestWithoutPurge
  <2>1. /\ lostCount' \in Nat /\ isDisconnectInner' \in BOOLEAN
        /\ reads' \in Seq(Tags) /\ wire' \in Seq(Parts) /\ main' \in Seq(Blocks)
        /\ astray' \in BOOLEAN
    BY <1>3 DEF RequestWithoutPurge, TypeOK
  <2>2. QueueType
    <3>1. CASE queue = <<>>
      <4>1. ProcessNextRequest(<<issued + 1>>, currentRequest, sock, writes)
        BY <1>3, <3>1 DEF RequestWithoutPurge, AddHttpRequest
      <4> QED BY <1>2, <4>1, NextType DEF TypeOK
    <3>2. CASE queue # <<>>
      <4>1. /\ queue' = Append(queue, issued + 1)
            /\ currentRequest' = currentRequest
            /\ sock' = sock /\ writes' = writes /\ content' = content
        BY <1>3, <3>2 DEF RequestWithoutPurge, AddHttpRequest
      <4>2. Append(queue, issued + 1) \in Seq(Requests)
        BY <1>2, AppendProperties DEF TypeOK
      <4> QED BY <4>1, <4>2 DEF TypeOK, QueueType, SocketType
    <3> QED BY <3>1, <3>2
  <2> QED BY <1>1, <2>1, <2>2, Zenon DEF TypeOK, QueueType, SocketType
<1>4. CASE RequestAfterPurge
  <2>1. PICK kept \in {<<>>} \cup {<<r>> : r \in Requests}, out \in BOOLEAN :
          /\ ProcessDelayRequest(kept, out)
          /\ IF kept = <<>>
             THEN ProcessNextRequest(<<issued + 1>>, NoRequest, "closed", <<>>)
             ELSE /\ queue' = Append(kept, issued + 1)
                  /\ currentRequest' = Head(kept) /\ content' = {}
                  /\ sock' = "closed" /\ writes' = <<>>
    BY <1>4 DEF RequestAfterPurge
  <2>2. /\ reads' \in Seq(Tags) /\ wire' \in Seq(Parts) /\ main' \in Seq(Blocks)
        /\ kept \in Seq(Requests)
    BY <2>1, PurgeType
  <2>3. lostCount' \in Nat /\ isDisconnectInner' \in BOOLEAN /\ astray' \in BOOLEAN
    BY <1>4 DEF RequestAfterPurge, TypeOK
  <2>4. QueueType
    <3>1. CASE kept = <<>>
      <4>1. ProcessNextRequest(<<issued + 1>>, NoRequest, "closed", <<>>)
        BY <2>1, <3>1
      <4>2. "closed" \in SocketStates /\ <<>> \in Seq(Requests)
            /\ content \in SUBSET Requests
        BY DEF SocketStates, TypeOK
      <4> QED BY <1>2, <4>1, <4>2, NextType
    <3>2. CASE kept # <<>>
      BY <1>2, <2>1, <2>2, <3>2, HeadTailProperties
         DEF QueueType, SocketType, SocketStates
    <3> QED BY <3>1, <3>2
  <2> QED BY <1>1, <2>2, <2>3, <2>4, Zenon DEF TypeOK, QueueType, SocketType
<1>5. CASE RequestGivesUp
  <2>1. PICK kept \in {<<>>} \cup {<<r>> : r \in Requests}, out \in BOOLEAN :
          ProcessDelayRequest(kept, out) /\ LeaveKept(kept)
    BY <1>5 DEF RequestGivesUp
  <2>2. /\ reads' \in Seq(Tags) /\ wire' \in Seq(Parts) /\ main' \in Seq(Blocks)
        /\ kept \in Seq(Requests)
    BY <2>1, PurgeType
  <2>3. lostCount' \in Nat /\ isDisconnectInner' \in BOOLEAN /\ astray' \in BOOLEAN
    BY <1>5 DEF RequestGivesUp
  <2>4. QueueType
    <3>1. kept # <<>> => Head(kept) \in Requests
      BY <2>2, HeadTailProperties
    <3> QED BY <2>1, <2>2, <3>1
          DEF LeaveKept, QueueType, SocketType, SocketStates, TypeOK
  <2> QED BY <1>1, <2>2, <2>3, <2>4, Zenon DEF TypeOK, QueueType, SocketType
<1> QED BY <1>3, <1>4, <1>5 DEF Request

(* Each delegate callback leaves the state well typed. *)
LEMMA HandlerType ==
    ASSUME TypeOK, QueueIsServed, Ordered, MainQueue
    PROVE  TypeOK'
<1>1. /\ main \in Seq(Blocks) /\ main # <<>> /\ Head(main) \in Blocks
      /\ Tail(main) \in Seq(Blocks)
  <2>1. main \in Seq(Blocks) /\ main # <<>>
    BY DEF TypeOK, MainQueue, DidConnect, DidDisconnect, DidWriteData,
           DidReadData, SocketConnect
  <2> QED BY <2>1, HeadTailProperties
<1>2. \A s \in {"connected", "disconnected"} :
        Tail(main) \o ProcessConnect(s) \in Seq(Blocks)
  BY <1>1, BlocksAreBlocks, PostType DEF ProcessConnect
<1>3. Tail(main) \o <<>> \in Seq(Blocks)
  BY <1>1
<1>4. CASE DidConnect
  <2>1. main' \in Seq(Blocks)
    BY <1>2, <1>3, <1>4 DEF DidConnect
  <2> QED BY <1>4, <2>1
        DEF TypeOK, DidConnect, queueVars, socketVars, historyVars
<1>5. CASE DidDisconnect
  <2>1. main' \in Seq(Blocks)
    BY <1>2, <1>3, <1>5 DEF DidDisconnect
  <2>2. /\ content \in SUBSET Requests /\ FinishCurrent(content)
        /\ UNCHANGED <<lostCount, isDisconnectInner, reads, wire, issued, told>>
    BY <1>5 DEF TypeOK, DidDisconnect
  <2>3. /\ QueueType
        /\ calls' \in [Requests -> Nat] /\ answer' \in [Requests -> SUBSET Requests]
    BY <2>2, FinishQueue, FinishHistory
  <2>4. astray' \in BOOLEAN
    BY <1>5 DEF DidDisconnect, StaysAstray
  <2> QED BY <2>1, <2>2, <2>3, <2>4, Zenon DEF TypeOK, QueueType, SocketType
<1>6. CASE DidWriteData
  <2>1. main' \in Seq(Blocks)
    BY <1>1, <1>6 DEF DidWriteData
  <2>2. reads' \in Seq(Tags)
    BY <1>6 DEF TypeOK, DidWriteData, Queued, Tags
  <2> QED BY <1>6, <2>1, <2>2
        DEF TypeOK, DidWriteData, queueVars, historyVars
<1>7. CASE DidReadData
  <2> DEFINE part == Head(main).part
  <2>1. part \in Parts /\ part.req \in Requests
    BY <1>1, <1>7, BlockFields DEF DidReadData, Parts
  <2>2. /\ main' \in Seq(Blocks)
        /\ UNCHANGED <<isDisconnectInner, wire, issued, told, astray>>
    BY <1>1, <1>7 DEF DidReadData
  <2>3. Append(reads, "body") \in Seq(Tags) /\ Append(reads, "rest") \in Seq(Tags)
    BY DEF TypeOK, Tags
  <2>4. ASSUME FinishCurrent({part.req}), UNCHANGED reads, lostCount' \in Nat
        PROVE  TypeOK'
    <3>1. {part.req} \in SUBSET Requests
      BY <2>1
    <3> HIDE DEF part
    <3>2. /\ QueueType
          /\ calls' \in [Requests -> Nat] /\ answer' \in [Requests -> SUBSET Requests]
      BY <2>2, <2>4, <3>1, FinishQueue, FinishHistory
    <3> QED BY <2>2, <2>4, <3>2 DEF TypeOK, QueueType, SocketType
  <2>5. CASE DidReadHeader(part) /\ UNCHANGED lostCount
    <3>1. CASE FinishCurrent({part.req}) /\ UNCHANGED reads
      BY <2>4, <2>5, <3>1 DEF TypeOK
    <3>2. CASE ~ (FinishCurrent({part.req}) /\ UNCHANGED reads)
      <4>1. /\ reads' = Queued(sock, reads, "body") \/ reads' = Queued(sock, reads, "rest")
            /\ content' = content \/ content' = {}
            /\ UNCHANGED <<queue, currentRequest, sock, writes, historyVars>>
        BY <2>5, <3>2 DEF DidReadHeader, queueVars
      <4>2. reads' \in Seq(Tags) /\ content' \in SUBSET Requests
        BY <2>3, <4>1 DEF Queued, TypeOK
      <4> QED BY <2>2, <2>5, <4>1, <4>2 DEF TypeOK, historyVars
    <3> QED BY <3>1, <3>2
  <2>6. CASE FinishCurrent({part.req}) /\ lostCount' = 0 /\ UNCHANGED reads
    BY <2>4, <2>6
  <2>7. CASE /\ content' = content \cup {part.req}
             /\ reads' = Queued(sock, reads, "rest")
             /\ UNCHANGED <<queue, currentRequest, lostCount, sock, writes,
                            historyVars>>
    <3>1. content' \in SUBSET Requests
      BY <2>1, <2>7 DEF TypeOK
    <3>2. reads' \in Seq(Tags)
      BY <2>3, <2>7 DEF Queued, TypeOK
    <3> QED BY <2>2, <2>7, <3>1, <3>2 DEF TypeOK, historyVars
  <2> QED BY <1>7, <2>5, <2>6, <2>7 DEF DidReadData
<1>8. CASE SocketConnect
  <2>1. told' \in {"connected", "disconnected"} /\ main' \in Seq(Blocks)
    BY <1>1, <1>8, BlockFields DEF SocketConnect
  <2> QED BY <1>8, <2>1
        DEF TypeOK, SocketConnect, queueVars, socketVars, historyVars
<1> QED BY <1>4, <1>5, <1>6, <1>7, <1>8 DEF MainQueue

(* Every step keeps the type invariant. *)
LEMMA TypeStep ==
    ASSUME TypeOK, QueueIsServed, Ordered, [Next]_vars
    PROVE  TypeOK'
<1>1. CASE ConnectWithHost
  <2>1. sock' \in SocketStates
    BY <1>1 DEF ConnectWithHost, Started, SocketStates, TypeOK
  <2> QED BY <1>1, <2>1 DEF TypeOK, ConnectWithHost, queueVars, historyVars
<1>2. CASE CancelAll
  BY <1>2 DEF TypeOK, CancelAll, socketVars, historyVars
<1>3. CASE Request
  BY <1>3, RequestType
<1>4. CASE MainQueue
  BY <1>4, HandlerType
<1>5. CASE SocketConnects
  <2>1. main' \in Seq(Blocks)
    BY <1>5, BlocksAreBlocks, PostType DEF SocketConnects, TypeOK
  <2> QED BY <1>5, <2>1
        DEF TypeOK, SocketConnects, SocketStates, queueVars, historyVars
<1>6. CASE SocketWrites
  <2>1. main' \in Seq(Blocks)
    BY <1>6, BlocksAreBlocks, PostType DEF SocketWrites, TypeOK
  <2>2. Head(writes) \in Requests /\ writes' \in Seq(Requests)
    BY <1>6, HeadTailProperties DEF SocketWrites, TypeOK
  <2>3. PICK kind \in Answers : wire' = wire \o AnswerTo(Head(writes), kind)
    BY <1>6 DEF SocketWrites
  <2>4. AnswerTo(Head(writes), kind) \in Seq(Parts)
    <3>1. kind \in AnswerKinds
      BY AnswersAssumption
    <3>2. /\ [req |-> Head(writes), is |-> kind] \in Parts
          /\ [req |-> Head(writes), is |-> "data"] \in Parts
      BY <2>2, <3>1 DEF Parts
    <3> QED BY <3>2 DEF AnswerTo
  <2>5. wire' \in Seq(Parts)
    BY <2>3, <2>4 DEF TypeOK
  <2> QED BY <1>6, <2>1, <2>2, <2>5
        DEF TypeOK, SocketWrites, queueVars, historyVars
<1>7. CASE SocketReads
  <2>1. PICK i \in DOMAIN wire :
          /\ wire' = SubSeq(wire, i + 1, Len(wire))
          /\ main' = Append(main, ReadBlock(Head(reads), wire[i]))
    BY <1>7 DEF SocketReads
  <2>2. Head(reads) \in Tags /\ reads' \in Seq(Tags)
    BY <1>7, HeadTailProperties DEF SocketReads, TypeOK
  <2>3. wire[i] \in Parts /\ wire \in Seq(Parts)
    BY <2>1 DEF TypeOK
  <2>4. main' \in Seq(Blocks)
    BY <2>1, <2>2, <2>3, BlocksAreBlocks, PostType DEF TypeOK
  <2>5. wire' \in Seq(Parts)
    BY <2>1, <2>3
  <2> QED BY <1>7, <2>2, <2>4, <2>5
        DEF TypeOK, SocketReads, queueVars, historyVars
<1>8. CASE SocketCloses(TRUE) \/ SocketCloses(FALSE)
  BY <1>8, ClosesType
<1>9. CASE UNCHANGED vars
  BY <1>9 DEF TypeOK, vars, queueVars, socketVars, historyVars
<1> QED BY <1>1, <1>2, <1>3, <1>4, <1>5, <1>6, <1>7, <1>8, <1>9
      DEF Next, Client, ConnectEnds, WriteEnds, ReadEnds, Disconnect,
          ConnectFails, WriteTimesOut, ReadTimesOut, ServerCloses

-----------------------------------------------------------------------------
(* The queue.                                                              *)

(* A step that leaves queue, issue count and completions alone.            *)
LEMMA QueueAlone ==
    ASSUME TypeOK, QueueIsServed, Ordered, BacklogIsBounded,
           UNCHANGED <<queue, currentRequest, issued, calls>>,
           lostCount' = lostCount \/ lostCount' = 0
    PROVE  QueueIsServed' /\ Ordered' /\ BacklogIsBounded'
<1>1. QueueIsServed' /\ Ordered'
  BY DEF QueueIsServed, Ordered
<1>2. BacklogIsBounded'
  BY CountsAssumption DEF BacklogIsBounded
<1> QED BY <1>1, <1>2

(* A sequence of two or more entries has a first and a second. *)
LEMMA ShortSequence ==
    ASSUME NEW a, NEW b, NEW q, q = <<a>> \/ q = <<a, b>>
    PROVE  /\ \A k \in DOMAIN q :
                (k = 1 /\ q[k] = a) \/ (k = 2 /\ q[k] = b)
           /\ Len(q) <= 2
<1>1. CASE q = <<a>>
  <2>1. DOMAIN q = 1 .. 1 /\ q[1] = a
    BY <1>1
  <2>2. \A k \in 1 .. 1 : k = 1
    OBVIOUS
  <2>3. Len(q) <= 2
    BY <1>1
  <2> QED BY <2>1, <2>2, <2>3
<1>2. CASE q = <<a, b>>
  <2>1. DOMAIN q = 1 .. 2 /\ q[1] = a /\ q[2] = b
    BY <1>2
  <2>2. \A k \in 1 .. 2 : k = 1 \/ k = 2
    OBVIOUS
  <2>3. Len(q) <= 2
    BY <1>2
  <2> QED BY <2>1, <2>2, <2>3
<1> QED BY <1>1, <1>2

(* A queue that is left with at most one of its requests, and then the new *)
(* one or not, is still in order.                                          *)
LEMMA PurgedIsOrdered ==
    ASSUME TypeOK, Ordered, issued < MaxRequests, issued' = issued + 1,
           UNCHANGED calls,
           NEW kept \in {<<>>} \cup {<<r>> : r \in Requests}, PurgeLeaves(kept),
           queue' = kept \/ queue' = Append(kept, issued + 1)
    PROVE  Ordered' /\ Len(queue') <= 2
<1>1. \A r \in Requests : calls[r] <= 1 /\ (r > issued => calls[r] = 0)
  BY DEF Ordered
<1>2. issued \in Nat /\ issued + 1 \in Requests
  BY CountsAssumption DEF TypeOK, Requests
<1>3. \A r \in Requests : r \in Nat
  BY CountsAssumption DEF Requests
<1>4. CASE kept = <<>>
  <2>1. queue' = <<>> \/ queue' = <<issued + 1>>
    BY <1>4
  <2>2. calls[issued + 1] = 0
    BY <1>1, <1>2
  <2>3. \A k \in DOMAIN queue' : k = 1 /\ queue'[k] = issued + 1
    BY <2>1
  <2>4. Len(queue') <= 2
    BY <2>1
  <2> QED BY <1>1, <1>2, <1>3, <2>2, <2>3, <2>4 DEF Ordered
<1>5. CASE kept # <<>>
  <2>1. PICK i \in DOMAIN queue : kept = <<queue[i]>>
    BY <1>5 DEF PurgeLeaves
  <2>2. queue[i] \in Requests /\ queue[i] <= issued /\ calls[queue[i]] = 0
    BY DEF TypeOK, Ordered
  <2>3. queue' = <<queue[i]>> \/ queue' = <<queue[i], issued + 1>>
    BY <2>1
  <2>4. calls[issued + 1] = 0
    BY <1>1, <1>2
  <2>5. /\ \A k \in DOMAIN queue' :
              (k = 1 /\ queue'[k] = queue[i]) \/ (k = 2 /\ queue'[k] = issued + 1)
        /\ Len(queue') <= 2
    BY <2>3, ShortSequence
  <2>6. \A k, l \in DOMAIN queue' : k < l => queue'[k] < queue'[l]
    BY <1>2, <1>3, <2>2, <2>5
  <2>7. \A k \in DOMAIN queue' : queue'[k] <= issued' /\ calls'[queue'[k]] = 0
    BY <1>2, <1>3, <2>2, <2>4, <2>5
  <2>8. \A r \in Requests : calls'[r] <= 1 /\ (r > issued' => calls'[r] = 0)
    BY <1>1, <1>2, <1>3
  <2> QED BY <2>5, <2>6, <2>7, <2>8 DEF Ordered
<1> QED BY <1>4, <1>5

(* A new request joins the queue at its end, or what a purge left of it. *)
LEMMA RequestQueue ==
    ASSUME TypeOK, QueueIsServed, Ordered, BacklogIsBounded, Request
    PROVE  QueueIsServed' /\ Ordered' /\ BacklogIsBounded'
<1>1. /\ issued < MaxRequests /\ issued' = issued + 1
      /\ calls' = calls /\ issued \in Nat /\ issued + 1 \in Requests
  BY CountsAssumption DEF Request, TypeOK, historyVars, Requests
<1>2. CASE RequestWithoutPurge
  <2>1. Len(queue) <= KHttpRequestDelayCount /\ lostCount' = lostCount
    BY <1>2, CountsAssumption DEF RequestWithoutPurge, Backlogged, TypeOK
  <2>2. queue' = Append(queue, issued + 1) /\ QueueIsServed'
    <3>1. CASE queue = <<>>
      <4>1. ProcessNextRequest(<<issued + 1>>, NoRequest, sock, writes)
        BY <1>2, <3>1 DEF RequestWithoutPurge, AddHttpRequest, QueueIsServed
      <4>2. <<issued + 1>> \in Seq(Requests)
            /\ Append(queue, issued + 1) = <<issued + 1>>
        BY <1>1, <3>1
      <4> QED BY <4>1, <4>2, NextServes DEF TypeOK
    <3>2. CASE queue # <<>>
      <4>1. queue' = Append(queue, issued + 1) /\ currentRequest' = currentRequest
        BY <1>2, <3>2 DEF RequestWithoutPurge, AddHttpRequest
      <4>2. Head(Append(queue, issued + 1)) = Head(queue)
            /\ Append(queue, issued + 1) # <<>>
        <5>1. queue \in Seq(Requests)
          BY DEF TypeOK
        <5> QED BY <1>1, <3>2, <5>1, HeadTailAppend, AppendProperties
      <4> QED BY <3>2, <4>1, <4>2 DEF QueueIsServed
    <3> QED BY <3>1, <3>2
  <2>3. Ordered'
    <3>1. /\ DOMAIN queue' = 1 .. Len(queue) + 1 /\ DOMAIN queue = 1 .. Len(queue)
          /\ Len(queue) \in Nat
          /\ \A i \in DOMAIN queue : queue'[i] = queue[i]
          /\ queue'[Len(queue) + 1] = issued + 1
      BY <2>2 DEF TypeOK
    <3>2. \A i \in DOMAIN queue : queue[i] <= issued /\ queue[i] \in Nat
      BY SMTT(30), CountsAssumption DEF Ordered, TypeOK, Requests
    <3>3. \A i, j \in DOMAIN queue' : i < j => queue'[i] < queue'[j]
      BY <1>1, <3>1, <3>2 DEF Ordered
    <3>4. \A i \in DOMAIN queue' : queue'[i] <= issued' /\ calls'[queue'[i]] = 0
      BY <1>1, <3>1, <3>2 DEF Ordered
    <3>5. \A r \in Requests : calls'[r] <= 1 /\ (r > issued' => calls'[r] = 0)
      BY <1>1, CountsAssumption DEF Ordered, Requests
    <3> QED BY <3>3, <3>4, <3>5 DEF Ordered
  <2>4. BacklogIsBounded'
    <3>1. Len(queue') = Len(queue) + 1 /\ Len(queue) \in Nat
      BY <2>2 DEF TypeOK
    <3> QED BY <2>1, <3>1, CountsAssumption DEF BacklogIsBounded
  <2> QED BY <2>2, <2>3, <2>4
<1>3. CASE RequestAfterPurge
  <2>1. PICK kept \in {<<>>} \cup {<<r>> : r \in Requests}, out \in BOOLEAN :
          /\ ProcessDelayRequest(kept, out)
          /\ IF kept = <<>>
             THEN ProcessNextRequest(<<issued + 1>>, NoRequest, "closed", <<>>)
             ELSE /\ queue' = Append(kept, issued + 1)
                  /\ currentRequest' = Head(kept) /\ content' = {}
                  /\ sock' = "closed" /\ writes' = <<>>
    BY <1>3 DEF RequestAfterPurge
  <2>2. queue' = Append(kept, issued + 1) /\ QueueIsServed'
    <3>1. CASE kept = <<>>
      <4>1. "closed" \in SocketStates /\ <<>> \in Seq(Requests)
            /\ <<issued + 1>> \in Seq(Requests)
        BY <1>1 DEF SocketStates
      <4>2. Append(kept, issued + 1) = <<issued + 1>>
        BY <3>1
      <4>3. queue' = <<issued + 1>> /\ QueueIsServed'
        BY <2>1, <3>1, <4>1, NextServes
      <4> QED BY <4>2, <4>3
    <3>2. CASE kept # <<>>
      <4>1. PICK r \in Requests : kept = <<r>>
        BY <3>2
      <4> QED BY <2>1, <3>2, <4>1 DEF QueueIsServed
    <3> QED BY <3>1, <3>2
  <2>3. Ordered' /\ Len(queue') <= 2
    BY <1>1, <2>1, <2>2, PurgedIsOrdered DEF ProcessDelayRequest
  <2>4. BacklogIsBounded'
    BY <1>3, <2>3, CountsAssumption DEF RequestAfterPurge, BacklogIsBounded
  <2> QED BY <2>2, <2>3, <2>4
<1>4. CASE RequestGivesUp
  <2>1. PICK kept \in {<<>>} \cup {<<r>> : r \in Requests}, out \in BOOLEAN :
          ProcessDelayRequest(kept, out) /\ LeaveKept(kept)
    BY <1>4 DEF RequestGivesUp
  <2>2. queue' = kept /\ QueueIsServed'
    BY <2>1 DEF LeaveKept, QueueIsServed
  <2>3. Ordered' /\ Len(queue') <= 2
    BY <1>1, <2>1, <2>2, PurgedIsOrdered DEF ProcessDelayRequest
  <2>4. BacklogIsBounded'
    BY <1>4, <2>3, CountsAssumption DEF RequestGivesUp, BacklogIsBounded
  <2> QED BY <2>2, <2>3, <2>4
<1> QED BY <1>2, <1>3, <1>4 DEF Request

-----------------------------------------------------------------------------
(* No stall.                                                               *)

(* What is on its way to the main queue stays on its way when a block is   *)
(* posted, or when another one is taken.                                   *)
LEMMA WakingPosted ==
    ASSUME main \in Seq(Blocks), NEW b \in Blocks, main' = Append(main, b),
           NEW events
    PROVE  /\ Waking(events) => Waking(events)'
           /\ b.event \in events => Waking(events)'
<1>1. /\ DOMAIN main' = 1 .. Len(main) + 1 /\ DOMAIN main = 1 .. Len(main)
      /\ Len(main) \in Nat
      /\ \A i \in DOMAIN main : main'[i] = main[i]
      /\ main'[Len(main) + 1] = b
  OBVIOUS
<1>2. /\ Len(main) + 1 \in DOMAIN main'
      /\ \A i \in DOMAIN main : i \in DOMAIN main'
  BY <1>1
<1> QED BY <1>1, <1>2 DEF Waking

(* A block that wakes the queue stays when a block of another kind is taken. *)
LEMMA WakingLeft ==
    ASSUME main \in Seq(Blocks), main # <<>>, NEW events,
           Head(main).event \notin events, Waking(events),
           NEW more \in Seq(Blocks), main' = Tail(main) \o more
    PROVE  Waking(events)'
<1>1. PICK i \in DOMAIN main : main[i].event \in events
  BY DEF Waking
<1>2. /\ DOMAIN main = 1 .. Len(main) /\ Len(main) \in Nat /\ main[1] = Head(main)
  OBVIOUS
<1>3. i # 1 /\ i \in 1 .. Len(main)
  BY <1>1, <1>2
<1>4. /\ Tail(main) \in Seq(Blocks) /\ Len(Tail(main)) = Len(main) - 1
      /\ \A k \in 1 .. Len(Tail(main)) : Tail(main)[k] = main[k + 1]
  BY HeadTailProperties
<1>5. i - 1 \in 1 .. Len(Tail(main)) /\ Tail(main)[i - 1] = main[i]
  BY <1>2, <1>3, <1>4
<1>6. /\ Len(main') = Len(Tail(main)) + Len(more)
      /\ main' \in Seq(Blocks) /\ Len(more) \in Nat /\ Len(Tail(main)) \in Nat
      /\ \A k \in 1 .. Len(Tail(main)) + Len(more) :
            main'[k] = IF k <= Len(Tail(main)) THEN Tail(main)[k]
                       ELSE more[k - Len(Tail(main))]
  BY <1>4, ConcatProperties
<1>7. i - 1 \in DOMAIN main' /\ main'[i - 1] = main[i]
  BY <1>5, <1>6
<1> QED BY <1>1, <1>7 DEF Waking

(* A connection that goes down posts the block that wakes the queue. *)
LEMMA ClosesWakes ==
    ASSUME main \in Seq(Blocks), NEW e \in BOOLEAN, SocketCloses(e)
    PROVE  NoStall'
<1>1. main' = Append(main, DisconnectBlock(e)) /\ DisconnectBlock(e) \in Blocks
  BY BlocksAreBlocks DEF SocketCloses
<1>2. DisconnectBlock(e).event \in {"disconnect"}
  BY DEF DisconnectBlock
<1>3. Waking({"disconnect"})'
  BY <1>1, <1>2, WakingPosted
<1> QED BY <1>3 DEF NoStall

(* A purge ends with a disconnect on its way if it leaves a request.       *)
LEMMA PurgeWakes ==
    ASSUME TypeOK, NEW kept \in {<<>>} \cup {<<r>> : r \in Requests},
           NEW out \in BOOLEAN, ProcessDelayRequest(kept, out), kept # <<>>
    PROVE  Waking({"disconnect"})'
<1> DEFINE a == IF out THEN <<WriteBlock>> ELSE <<>>
           b == DisconnectBlock(FALSE)
           c == main \o a
<1>1. main' = c \o <<b>>
  BY DEF ProcessDelayRequest
<1>2. b \in Blocks /\ WriteBlock \in Blocks /\ b.event = "disconnect"
  BY BlocksAreBlocks DEF DisconnectBlock
<1>3. a \in Seq(Blocks)
  BY <1>2
<1>4. c \in Seq(Blocks)
  BY <1>3 DEF TypeOK
<1> HIDE DEF a, b, c
<1>5. Len(c) + 1 \in DOMAIN main' /\ main'[Len(c) + 1] = b
  BY <1>1, <1>2, <1>4
<1> QED BY <1>2, <1>5 DEF Waking

(* Ending an exchange leaves the next request written, or none.            *)
LEMMA FinishServes ==
    ASSUME TypeOK, QueueIsServed, Ordered, NEW from \in SUBSET Requests,
           FinishCurrent(from)
    PROVE  NoStall'
BY FinishQueue DEF NoStall

(* Every step keeps a request that is served from being left without anything under way. *)
LEMMA StallStep ==
    ASSUME TypeOK, QueueIsServed, Ordered, NoStall, [Next]_vars
    PROVE  NoStall'
<1> USE DEF NoStall
<1>1. main \in Seq(Blocks)
  BY DEF TypeOK
<1>2. CASE ConnectWithHost
  <2>1. /\ UNCHANGED <<currentRequest, main, writes, reads>>
        /\ sock # "closed" => sock' # "closed"
    BY <1>2 DEF ConnectWithHost, queueVars, Started
  <2> QED BY <2>1 DEF Waking
<1>3. CASE CancelAll
  BY <1>3 DEF CancelAll
<1>4. CASE Request
  <2>1. CASE RequestWithoutPurge
    <3>1. CASE queue = <<>>
      <4>1. ProcessNextRequest(<<issued + 1>>, NoRequest, sock, writes)
        BY <2>1, <3>1 DEF RequestWithoutPurge, AddHttpRequest, QueueIsServed
      <4>2. <<issued + 1>> \in Seq(Requests)
        <5>1. issued + 1 \in Requests
          BY <1>4, CountsAssumption DEF Request, TypeOK, Requests
        <5> QED BY <5>1
      <4> QED BY <4>1, <4>2, NextServes DEF TypeOK
    <3>2. CASE queue # <<>>
      BY <2>1, <3>2 DEF RequestWithoutPurge, AddHttpRequest, Waking
    <3> QED BY <3>1, <3>2
  <2>2. CASE RequestAfterPurge
    <3>1. PICK kept \in {<<>>} \cup {<<r>> : r \in Requests}, out \in BOOLEAN :
            /\ ProcessDelayRequest(kept, out)
            /\ kept = <<>> =>
                 ProcessNextRequest(<<issued + 1>>, NoRequest, "closed", <<>>)
      BY <2>2 DEF RequestAfterPurge
    <3>2. CASE kept = <<>>
      BY <3>1, <3>2 DEF ProcessNextRequest, Started
    <3>3. CASE kept # <<>>
      BY <3>1, <3>3, PurgeWakes
    <3> QED BY <3>2, <3>3
  <2>3. CASE RequestGivesUp
    <3>1. PICK kept \in {<<>>} \cup {<<r>> : r \in Requests}, out \in BOOLEAN :
            ProcessDelayRequest(kept, out) /\ LeaveKept(kept)
      BY <2>3 DEF RequestGivesUp
    <3>2. CASE kept = <<>>
      BY <3>1, <3>2 DEF LeaveKept
    <3>3. CASE kept # <<>>
      BY <3>1, <3>3, PurgeWakes
    <3> QED BY <3>2, <3>3
  <2> QED BY <1>4, <2>1, <2>2, <2>3 DEF Request
<1>5. CASE DidConnect
  <2>1. Head(main).event = "connect" /\ main # <<>>
    BY <1>5 DEF DidConnect, ConnectBlock
  <2>2. PICK more \in Seq(Blocks) : main' = Tail(main) \o more
    <3>1. <<>> \in Seq(Blocks) /\ ProcessConnect("connected") \in Seq(Blocks)
      BY BlocksAreBlocks DEF ProcessConnect
    <3> QED BY <1>5, <3>1 DEF DidConnect
  <2>3. UNCHANGED <<currentRequest, sock, writes, reads>>
    BY <1>5 DEF DidConnect, queueVars, socketVars
  <2>4. /\ Waking({"disconnect"}) => Waking({"disconnect"})'
        /\ Waking({"write", "read"}) => Waking({"write", "read"})'
    BY <1>1, <2>1, <2>2, WakingLeft
  <2> QED BY <2>3, <2>4
<1>6. CASE DidDisconnect
  <2>1. content \in SUBSET Requests /\ FinishCurrent(content)
    BY <1>6 DEF DidDisconnect, TypeOK
  <2> QED BY <2>1, FinishServes
<1>7. CASE DidWriteData
  <2>1. Head(main).event = "write" /\ main # <<>>
    BY <1>7 DEF DidWriteData, WriteBlock
  <2>2. main' = Tail(main) \o <<>> /\ <<>> \in Seq(Blocks)
    BY <1>1, <1>7, <2>1 DEF DidWriteData
  <2>3. Waking({"disconnect"}) => Waking({"disconnect"})'
    BY <1>1, <2>1, <2>2, WakingLeft
  <2>4. sock # "closed" => reads' # <<>> /\ sock' # "closed"
    <3>1. reads \in Seq(Tags) /\ "header" \in Tags
      BY DEF TypeOK, Tags
    <3>2. Append(reads, "header") # <<>>
      BY <3>1
    <3> QED BY <1>7, <3>2 DEF DidWriteData, Queued
  <2>5. currentRequest' = currentRequest
    BY <1>7 DEF DidWriteData, queueVars
  <2> QED BY <2>3, <2>4, <2>5
<1>8. CASE DidReadData
  <2> DEFINE part == Head(main).part
  <2>1. /\ Head(main).event = "read" /\ main # <<>>
        /\ Head(main) \in Blocks
    BY <1>1, <1>8, HeadTailProperties DEF DidReadData
  <2>2. {part.req} \in SUBSET Requests
    BY <2>1, BlockFields DEF Parts
  <2>3. main' = Tail(main) \o <<>> /\ <<>> \in Seq(Blocks)
    BY <1>1, <1>8, <2>1 DEF DidReadData
  <2>4. Waking({"disconnect"}) => Waking({"disconnect"})'
    BY <1>1, <2>1, <2>3, WakingLeft
  <2>5. CASE FinishCurrent({part.req})
    BY <2>2, <2>5, FinishServes
  <2>6. CASE /\ UNCHANGED <<currentRequest, sock>>
             /\ reads' = Queued(sock, reads, "body") \/ reads' = Queued(sock, reads, "rest")
    <3>1. sock # "closed" => reads' # <<>>
      BY <2>6 DEF Queued, TypeOK
    <3> QED BY <2>4, <2>6, <3>1
  <2> QED BY <1>8, <2>5, <2>6 DEF DidReadData, DidReadHeader, queueVars
<1>9. CASE SocketConnect
  <2>1. Head(main).event = "tell" /\ main # <<>>
    BY <1>9 DEF SocketConnect
  <2>2. main' = Tail(main) \o <<>> /\ <<>> \in Seq(Blocks)
    BY <1>1, <1>9, <2>1 DEF SocketConnect
  <2>3. /\ Waking({"disconnect"}) => Waking({"disconnect"})'
        /\ Waking({"write", "read"}) => Waking({"write", "read"})'
    BY <1>1, <2>1, <2>2, WakingLeft
  <2>4. UNCHANGED <<currentRequest, sock, writes, reads>>
    BY <1>9 DEF SocketConnect, queueVars, socketVars
  <2> QED BY <2>3, <2>4
<1>10. CASE SocketConnects
  <2>1. main' = Append(main, ConnectBlock) /\ ConnectBlock \in Blocks
    BY <1>10, BlocksAreBlocks DEF SocketConnects
  <2>2. /\ Waking({"disconnect"}) => Waking({"disconnect"})'
        /\ Waking({"write", "read"}) => Waking({"write", "read"})'
    BY <1>1, <2>1, WakingPosted
  <2>3. UNCHANGED <<currentRequest, writes, reads>> /\ sock' # "closed"
    BY <1>10 DEF SocketConnects, queueVars
  <2> QED BY <1>10, <2>2, <2>3 DEF SocketConnects
<1>11. CASE SocketWrites
  <2>1. main' = Append(main, WriteBlock) /\ WriteBlock \in Blocks
        /\ WriteBlock.event \in {"write", "read"}
    BY <1>11, BlocksAreBlocks DEF SocketWrites, WriteBlock
  <2>2. Waking({"write", "read"})' /\ sock' # "closed"
    BY <1>1, <1>11, <2>1, WakingPosted DEF SocketWrites
  <2> QED BY <2>2
<1>12. CASE SocketReads
  <2>1. PICK i \in DOMAIN wire : main' = Append(main, ReadBlock(Head(reads), wire[i]))
    BY <1>12 DEF SocketReads
  <2>2. Head(reads) \in Tags /\ wire[i] \in Parts
    BY <1>12, <2>1, HeadTailProperties DEF SocketReads, TypeOK
  <2>3. /\ ReadBlock(Head(reads), wire[i]) \in Blocks
        /\ ReadBlock(Head(reads), wire[i]).event \in {"write", "read"}
    BY <2>2, BlocksAreBlocks DEF ReadBlock
  <2>4. Waking({"write", "read"})' /\ sock' # "closed"
    BY <1>1, <1>12, <2>1, <2>3, WakingPosted DEF SocketReads
  <2> QED BY <2>4
<1>13. CASE SocketCloses(TRUE) \/ SocketCloses(FALSE)
  BY <1>1, <1>13, ClosesWakes
<1>14. CASE UNCHANGED vars
  BY <1>14 DEF vars, queueVars, socketVars, Waking
<1> QED BY <1>2, <1>3, <1>4, <1>5, <1>6, <1>7, <1>8, <1>9, <1>10, <1>11, <1>12,
           <1>13, <1>14
      DEF Next, Client, MainQueue, ConnectEnds, WriteEnds, ReadEnds, Disconnect,
          ConnectFails, WriteTimesOut, ReadTimesOut, ServerCloses

-----------------------------------------------------------------------------
(* Theorems.                                                               *)

(* Every step keeps the queue ordered, served at its head and bounded. *)
LEMMA QueueStep ==
    ASSUME TypeOK, QueueIsServed, Ordered, BacklogIsBounded, [Next]_vars
    PROVE  QueueIsServed' /\ Ordered' /\ BacklogIsBounded'
<1>1. CASE CancelAll
  <2>1. /\ queue' = <<>> /\ currentRequest' = NoRequest
        /\ UNCHANGED <<issued, calls, lostCount>>
    BY <1>1 DEF CancelAll, historyVars
  <2> QED BY <2>1, CountsAssumption
        DEF QueueIsServed, Ordered, BacklogIsBounded
<1>2. CASE Request
  BY <1>2, RequestQueue
<1>3. ASSUME NEW from \in SUBSET Requests, FinishCurrent(from),
             issued' = issued, lostCount' = lostCount \/ lostCount' = 0
      PROVE  QueueIsServed' /\ Ordered' /\ BacklogIsBounded'
  <2>1. QueueIsServed' /\ Ordered' /\ Len(queue') <= KHttpRequestDelayCount + 1
    BY <1>3, FinishQueue, FinishHistory
  <2>2. lostCount' <= KHttpJudgeLostCount
    BY <1>3, CountsAssumption DEF BacklogIsBounded
  <2> QED BY <2>1, <2>2 DEF BacklogIsBounded
<1>4. CASE DidDisconnect
  BY <1>3, <1>4 DEF DidDisconnect, TypeOK
<1>5. CASE DidReadData
  <2> DEFINE part == Head(main).part
  <2>1. {part.req} \in SUBSET Requests
    BY <1>5, HeadTailProperties, BlockFields DEF DidReadData, TypeOK, Parts
  <2>2. issued' = issued /\ (lostCount' = lostCount \/ lostCount' = 0)
    BY <1>5 DEF DidReadData
  <2>3. \/ FinishCurrent({part.req})
        \/ UNCHANGED <<queue, currentRequest, calls>>
    BY <1>5 DEF DidReadData, DidReadHeader, queueVars, historyVars
  <2> HIDE DEF part
  <2> QED BY <1>3, <2>1, <2>2, <2>3, QueueAlone
<1>6. CASE ConnectWithHost
  BY <1>6, QueueAlone DEF ConnectWithHost, queueVars, historyVars
<1>7. CASE DidConnect \/ DidWriteData \/ SocketConnect
  BY <1>7, QueueAlone
     DEF DidConnect, DidWriteData, SocketConnect, queueVars, historyVars
<1>8. CASE SocketConnects \/ SocketWrites \/ SocketReads
  BY <1>8, QueueAlone
     DEF SocketConnects, SocketWrites, SocketReads, queueVars, historyVars
<1>9. CASE SocketCloses(TRUE) \/ SocketCloses(FALSE)
  BY <1>9, QueueAlone DEF SocketCloses, queueVars, historyVars
<1>10. CASE UNCHANGED vars
  BY <1>10, QueueAlone DEF vars, queueVars, historyVars
<1> QED BY <1>1, <1>2, <1>4, <1>5, <1>6, <1>7, <1>8, <1>9, <1>10
      DEF Next, Client, MainQueue, ConnectEnds, WriteEnds, ReadEnds, Disconnect,
          ConnectFails, WriteTimesOut, ReadTimesOut, ServerCloses

(* The queue starts empty and with no request made.                        *)
LEMMA InitIInv == Init => IInv
<1> SUFFICES ASSUME Init PROVE IInv
  OBVIOUS
<1>1. TypeOK
  <2>1. /\ queue \in Seq(Requests) /\ writes \in Seq(Requests)
        /\ reads \in Seq(Tags) /\ wire \in Seq(Parts) /\ main \in Seq(Blocks)
    BY DEF Init
  <2>2. issued \in 0 .. MaxRequests /\ lostCount \in Nat
    BY CountsAssumption DEF Init
  <2>3. calls \in [Requests -> Nat] /\ answer \in [Requests -> SUBSET Requests]
    BY DEF Init
  <2> QED BY <2>1, <2>2, <2>3 DEF Init, TypeOK, SocketStates
<1>2. Ordered
  BY DEF Init, Ordered
<1> QED BY <1>1, <1>2, CountsAssumption
      DEF Init, IInv, QueueIsServed, BacklogIsBounded, NoStall

(* The four parts of the invariant hold together: the queue's order makes  *)
(* "remove the current request" remove its head, which is what serves the  *)
(* next one, which is what leaves no request without an end.               *)
THEOREM Inductive == Spec => []IInv
<1>1. IInv /\ [Next]_vars => IInv'
  <2> SUFFICES ASSUME IInv, [Next]_vars PROVE IInv'
    OBVIOUS
  <2> QED BY TypeStep, QueueStep, StallStep DEF IInv
<1> QED BY <1>1, InitIInv, PTL DEF Spec

(* Every variable keeps its type whatever block runs late: no stale read,  *)
(* purge or cancel makes the handlers touch a request that is not there.   *)
THEOREM TypeCorrect == Spec => []TypeOK
<1>1. IInv => TypeOK
  BY DEF IInv
<1> QED BY <1>1, Inductive, PTL

(* After every handler the first request of the queue is being served and  *)
(* no other: addHttpRequest starts only the first one, so every other path *)
(* must start the next (processNextRequest).                               *)
THEOREM FirstIsServed == Spec => []QueueIsServed
<1>1. IInv => QueueIsServed
  BY DEF IInv
<1> QED BY <1>1, Inductive, PTL

(* No completion runs twice, however disconnects, answers and purges race. *)
THEOREM CompletesOnce == Spec => []CompletedOnce
<1>1. IInv => CompletedOnce
  <2> SUFFICES ASSUME IInv PROVE CompletedOnce
    OBVIOUS
  <2> QED BY DEF IInv, Ordered, CompletedOnce, ToSet
<1> QED BY <1>1, Inductive, PTL

(* The backlog and the loss count stay within what request: allows.        *)
THEOREM BacklogBounded == Spec => []BacklogIsBounded
<1>1. IInv => BacklogIsBounded
  BY DEF IInv
<1> QED BY <1>1, Inductive, PTL

(* A request that is being served always has something that will end it:   *)
(* the safety half of "every request leaves the queue".                    *)
THEOREM NeverStalls == Spec => []NoStall
<1>1. IInv => NoStall
  BY DEF IInv
<1> QED BY <1>1, Inductive, PTL

-----------------------------------------------------------------------------
(* A loss is known.                                                        *)

NoConnect(m) == \A j \in DOMAIN m : m[j].event # "connect"
Up(b) == b.event = "tell" /\ b.state = "connected"
Down(b) == b.event = "tell" /\ b.state = "disconnected"

(* A disconnect is on its way, with no newer connection behind it.         *)
LossComes(m) ==
    \E k \in DOMAIN m :
        /\ m[k].event = "disconnect"
        /\ \A j \in DOMAIN m : j > k => m[j].event # "connect"

(* The last word the delegate has or will have is not "connected".         *)
LossTold(m, t) ==
    \/ t # "connected" /\ \A j \in DOMAIN m : ~ Up(m[j])
    \/ \E k \in DOMAIN m : Down(m[k]) /\ \A j \in DOMAIN m : j > k => ~ Up(m[j])

Known(m, inner, t) ==
    \/ LossComes(m)
    \/ NoConnect(m) /\ (inner \/ LossTold(m, t))

(* The inductive invariant behind LossIsKnown.                             *)
LossInv == sock = "closed" => Known(main, isDisconnectInner, told)

(* A block posted comes last.                                              *)
LEMMA LastPosted ==
    ASSUME NEW m \in Seq(Blocks), NEW e \in BOOLEAN
    PROVE  LossComes(Append(m, DisconnectBlock(e)))
<1> DEFINE b == DisconnectBlock(e)
           n == Append(m, b)
<1>1. b \in Blocks /\ b.event = "disconnect"
  BY BlocksAreBlocks DEF DisconnectBlock
<1> HIDE DEF b
<1>2. /\ Len(m) + 1 \in DOMAIN n /\ n[Len(m) + 1] = b
      /\ \A j \in DOMAIN n : ~ (j > Len(m) + 1)
  BY <1>1
<1> HIDE DEF n
<1>3. LossComes(n)
  BY <1>1, <1>2 DEF LossComes
<1> QED BY <1>3 DEF n, b

(* What a handler leaves: the blocks behind the first, then its own.       *)
LEMMA Shifted ==
    ASSUME NEW m \in Seq(Blocks), m # <<>>,
           NEW more \in Seq(Blocks), Len(more) <= 1
    PROVE  /\ Len(m) \in Nat /\ DOMAIN m = 1 .. Len(m) /\ m[1] = Head(m)
           /\ \A k \in DOMAIN m : k > 1 =>
                /\ k - 1 \in DOMAIN (Tail(m) \o more)
                /\ (Tail(m) \o more)[k - 1] = m[k]
           /\ \A j \in DOMAIN (Tail(m) \o more) :
                \/ j + 1 \in DOMAIN m /\ (Tail(m) \o more)[j] = m[j + 1]
                \/ /\ j = Len(m) /\ more # <<>>
                   /\ (Tail(m) \o more)[j] = more[1]
           /\ \A j \in DOMAIN (Tail(m) \o more) : j \in Int
           /\ more # <<>> =>
                /\ Len(m) \in DOMAIN (Tail(m) \o more)
                /\ (Tail(m) \o more)[Len(m)] = more[1]
<1> DEFINE n == Tail(m) \o more
<1>1. /\ DOMAIN m = 1 .. Len(m) /\ Len(m) \in Nat /\ m[1] = Head(m) /\ Len(m) >= 1
  OBVIOUS
<1>2. /\ Tail(m) \in Seq(Blocks) /\ Len(Tail(m)) = Len(m) - 1
      /\ \A k \in 1 .. Len(Tail(m)) : Tail(m)[k] = m[k + 1]
  BY HeadTailProperties
<1>3. /\ Len(n) = Len(Tail(m)) + Len(more) /\ n \in Seq(Blocks)
      /\ Len(more) \in Nat
      /\ \A k \in 1 .. Len(Tail(m)) + Len(more) :
            n[k] = IF k <= Len(Tail(m)) THEN Tail(m)[k]
                   ELSE more[k - Len(Tail(m))]
  BY <1>2, ConcatProperties
<1>4. DOMAIN n = 1 .. Len(m) - 1 + Len(more)
  BY <1>1, <1>2, <1>3
<1> HIDE DEF n
<1>9. Len(more) = 0 \/ Len(more) = 1
  <2>1. Len(more) \in Nat
    OBVIOUS
  <2>2. \A k \in Nat : k <= 1 => k = 0 \/ k = 1
    OBVIOUS
  <2> QED BY <2>1, <2>2
<1>6. more = <<>> => Len(more) = 0
  OBVIOUS
<1>5. more # <<>> => Len(more) = 1
  <2>1. Len(more) = 0 => more = <<>>
    BY EmptySeq
  <2> QED BY <1>9, <2>1
<1>7. \A k \in DOMAIN m : k > 1 => k - 1 \in DOMAIN n /\ n[k - 1] = m[k]
  BY <1>1, <1>2, <1>3, <1>4
<1>8. \A j \in DOMAIN n :
        /\ j \in Int
        /\ \/ j + 1 \in DOMAIN m /\ n[j] = m[j + 1]
           \/ j = Len(m) /\ more # <<>> /\ n[j] = more[1]
  <2> SUFFICES ASSUME NEW j \in DOMAIN n
               PROVE  /\ j \in Int
                      /\ \/ j + 1 \in DOMAIN m /\ n[j] = m[j + 1]
                         \/ j = Len(m) /\ more # <<>> /\ n[j] = more[1]
    OBVIOUS
  <2>1. j \in Int /\ 1 <= j /\ j <= Len(m) - 1 + Len(more)
    BY <1>1, <1>3, <1>4
  <2>2. CASE j <= Len(m) - 1
    BY <1>1, <1>2, <1>3, <2>1, <2>2
  <2>3. CASE j > Len(m) - 1
    <3>1. j = Len(m) /\ Len(more) = 1
      BY <1>1, <1>9, <2>1, <2>3
    <3>2. n[j] = more[1]
      BY <1>1, <1>2, <1>3, <3>1
    <3> QED BY <1>6, <2>1, <3>1, <3>2
  <2> QED BY <1>1, <2>1, <2>2, <2>3
<1>10. more # <<>> => Len(m) \in DOMAIN n /\ n[Len(m)] = more[1]
  <2> SUFFICES ASSUME more # <<>> PROVE Len(m) \in DOMAIN n /\ n[Len(m)] = more[1]
    OBVIOUS
  <2>1. Len(m) \in 1 .. Len(m) - 1 + Len(more)
    BY <1>1, <1>5
  <2> QED BY <1>1, <1>2, <1>3, <1>4, <1>5, <2>1
<1> QED BY <1>1, <1>7, <1>8, <1>10 DEF n

(* A handler that posts no "connect" leaves a loss on its way, unless that *)
(* was the block it took.                                                  *)
LEMMA LossStays ==
    ASSUME NEW m \in Seq(Blocks), m # <<>>,
           NEW more \in Seq(Blocks), Len(more) <= 1,
           more # <<>> => more[1].event # "connect"
    PROVE  /\ LossComes(m) /\ Head(m).event # "disconnect"
                => LossComes(Tail(m) \o more)
           /\ LossComes(m) => LossComes(Tail(m) \o more) \/ NoConnect(Tail(m) \o more)
           /\ NoConnect(m) => NoConnect(Tail(m) \o more)
<1> DEFINE n == Tail(m) \o more
<1>1. /\ Len(m) \in Nat /\ DOMAIN m = 1 .. Len(m) /\ m[1] = Head(m)
      /\ \A k \in DOMAIN m : k > 1 => k - 1 \in DOMAIN n /\ n[k - 1] = m[k]
      /\ \A j \in DOMAIN n :
            \/ j + 1 \in DOMAIN m /\ n[j] = m[j + 1]
            \/ j = Len(m) /\ more # <<>> /\ n[j] = more[1]
      /\ \A j \in DOMAIN n : j \in Int
  BY Shifted
<1> HIDE DEF n
<1>2. ASSUME LossComes(m)
      PROVE  /\ Head(m).event # "disconnect" => LossComes(n)
             /\ LossComes(n) \/ NoConnect(n)
  <2>1. PICK k \in DOMAIN m :
          /\ m[k].event = "disconnect"
          /\ \A j \in DOMAIN m : j > k => m[j].event # "connect"
    BY <1>2 DEF LossComes
  <2>2. \A j \in DOMAIN n : j > k - 1 => n[j].event # "connect"
    <3> SUFFICES ASSUME NEW j \in DOMAIN n, j > k - 1
                 PROVE  n[j].event # "connect"
      OBVIOUS
    <3>1. CASE j + 1 \in DOMAIN m /\ n[j] = m[j + 1]
      <4>1. j + 1 > k
        BY <1>1
      <4> QED BY <2>1, <3>1, <4>1
    <3>2. CASE more # <<>> /\ n[j] = more[1]
      BY <3>2
    <3> QED BY <1>1, <3>1, <3>2
  <2>3. CASE k > 1
    <3>1. k - 1 \in DOMAIN n /\ n[k - 1].event = "disconnect"
      BY <1>1, <2>1, <2>3
    <3> QED BY <2>2, <3>1 DEF LossComes
  <2>4. CASE k = 1
    <3>1. Head(m).event = "disconnect"
      BY <1>1, <2>1, <2>4
    <3>2. \A j \in DOMAIN n : j > k - 1
      <4> SUFFICES ASSUME NEW j \in DOMAIN n PROVE j > k - 1
        OBVIOUS
      <4>1. j + 1 \in 1 .. Len(m) \/ j = Len(m)
        BY <1>1
      <4>2. j \in Int /\ Len(m) >= 1
        BY <1>1
      <4>3. j >= 1
        <5>1. 1 \in DOMAIN n => j \in Int
          BY <1>1
        <5>2. j \in DOMAIN (Tail(m) \o more)
          BY DEF n
        <5>3. Tail(m) \in Seq(Blocks)
          BY HeadTailProperties
        <5>4. Tail(m) \o more \in Seq(Blocks)
          BY <5>3, ConcatProperties
        <5> HIDE DEF n
        <5> QED BY <5>2, <5>4
      <4> QED BY <2>4, <4>2, <4>3
    <3> QED BY <2>2, <3>1, <3>2 DEF NoConnect
  <2> QED BY <1>1, <2>3, <2>4
<1>3. ASSUME NoConnect(m) PROVE NoConnect(n)
  BY <1>1, <1>3 DEF NoConnect
<1> QED BY <1>2, <1>3 DEF n

(* So does a handler that takes and posts nothing told with what is told.  *)
LEMMA ToldStays ==
    ASSUME NEW m \in Seq(Blocks), m # <<>>, NEW t, LossTold(m, t)
    PROVE  /\ Head(m).event # "tell" => LossTold(Tail(m), t)
           /\ Head(m).event = "tell" => LossTold(Tail(m), Head(m).state)
<1> DEFINE n == Tail(m)
<1>1. <<>> \in Seq(Blocks) /\ Len(<<>>) <= 1 /\ Tail(m) \o <<>> = Tail(m)
  <2>1. Tail(m) \in Seq(Blocks)
    BY HeadTailProperties
  <2> QED BY <2>1, ConcatEmptySeq
<1>2. /\ Len(m) \in Nat /\ DOMAIN m = 1 .. Len(m) /\ m[1] = Head(m)
      /\ \A k \in DOMAIN m : k > 1 => k - 1 \in DOMAIN n /\ n[k - 1] = m[k]
      /\ \A j \in DOMAIN n : j + 1 \in DOMAIN m /\ n[j] = m[j + 1]
      /\ \A j \in DOMAIN n : j \in Int
  BY <1>1, Shifted
<1>3. \A j \in DOMAIN n : j + 1 > 1
  <2>1. n \in Seq(Blocks)
    BY HeadTailProperties
  <2> HIDE DEF n
  <2> QED BY <2>1
<1>4. Head(m) \in Blocks
  BY HeadTailProperties
<1>5. Head(m).event = "tell" => Head(m).state \in {"connected", "disconnected"}
  BY <1>4, BlockFields
<1>6. 1 \in DOMAIN m
  BY <1>2
<1> HIDE DEF n
<1>7. CASE t # "connected" /\ \A j \in DOMAIN m : ~ Up(m[j])
  <2>1. \A j \in DOMAIN n : ~ Up(n[j])
    BY <1>2, <1>7
  <2>2. Head(m).event = "tell" => Head(m).state # "connected"
    BY <1>2, <1>6, <1>7 DEF Up
  <2> QED BY <1>7, <2>1, <2>2 DEF LossTold, n
<1>8. ASSUME NEW k \in DOMAIN m, Down(m[k]),
             \A j \in DOMAIN m : j > k => ~ Up(m[j])
      PROVE  /\ Head(m).event # "tell" => LossTold(n, t)
             /\ Head(m).event = "tell" => LossTold(n, Head(m).state)
  <2>1. CASE k > 1
    <3>1. k - 1 \in DOMAIN n /\ Down(n[k - 1])
      BY <1>2, <1>8, <2>1
    <3>2. \A j \in DOMAIN n : j > k - 1 => ~ Up(n[j])
      <4> SUFFICES ASSUME NEW j \in DOMAIN n, j > k - 1 PROVE ~ Up(n[j])
        OBVIOUS
      <4>1. j + 1 > k /\ j + 1 \in DOMAIN m /\ n[j] = m[j + 1]
        BY <1>2
      <4> QED BY <1>8, <4>1
    <3> QED BY <3>1, <3>2 DEF LossTold
  <2>2. CASE k = 1
    <3>1. Head(m).event = "tell" /\ Head(m).state = "disconnected"
      BY <1>2, <1>8, <2>2 DEF Down
    <3>2. \A j \in DOMAIN n : ~ Up(n[j])
      BY <1>2, <1>3, <1>8, <2>2
    <3> QED BY <3>1, <3>2 DEF LossTold
  <2> QED BY <1>2, <2>1, <2>2
<1> QED BY <1>7, <1>8 DEF LossTold, n

(* The socket only opens when a handler serves the next request.           *)
LEMMA NextOpens ==
    ASSUME NEW q, NEW cur, NEW s, NEW w, ProcessNextRequest(q, cur, s, w)
    PROVE  sock' = "closed" => s = "closed"
BY DEF ProcessNextRequest, Started

(* Each delegate callback keeps a loss known, or on its way to the delegate. *)
LEMMA LossHandlers ==
    ASSUME IInv, LossInv, MainQueue
    PROVE  LossInv'
<1> SUFFICES ASSUME sock' = "closed"
             PROVE  Known(main', isDisconnectInner', told')
  BY DEF LossInv
<1> DEFINE rest == Tail(main)
<1>1. main \in Seq(Blocks) /\ main # <<>> /\ Head(main) \in Blocks
  <2>1. main \in Seq(Blocks) /\ main # <<>>
    BY DEF IInv, TypeOK, MainQueue, DidConnect, DidDisconnect, DidWriteData,
           DidReadData, SocketConnect
  <2> QED BY <2>1, HeadTailProperties
<1>2. rest \in Seq(Blocks) /\ rest \o <<>> = rest
  <2>1. rest \in Seq(Blocks)
    BY <1>1, HeadTailProperties
  <2> QED BY <2>1, ConcatEmptySeq
<1>3. sock = "closed"
  BY NextOpens DEF MainQueue, DidConnect, DidDisconnect, DidWriteData,
                   DidReadData, DidReadHeader, SocketConnect, FinishCurrent,
                   socketVars, queueVars
<1>4. Known(main, isDisconnectInner, told)
  BY <1>3 DEF LossInv
<1> HIDE DEF rest
<1>5. /\ LossComes(main) /\ Head(main).event # "disconnect" => LossComes(rest)
      /\ LossComes(main) => LossComes(rest) \/ NoConnect(rest)
      /\ NoConnect(main) => NoConnect(rest)
  <2>1. <<>> \in Seq(Blocks) /\ Len(<<>>) <= 1
    OBVIOUS
  <2> QED BY <1>1, <1>2, <2>1, LossStays DEF rest
<1>6. \A s \in {"connected", "disconnected"} :
        /\ ProcessConnect(s) = <<TellBlock(s)>> /\ TellBlock(s) \in Blocks
        /\ TellBlock(s).event = "tell" /\ TellBlock(s).state = s
  BY BlocksAreBlocks DEF ProcessConnect, TellBlock
<1>7. CASE DidConnect
  <2>1. Head(main).event = "connect"
    BY <1>7 DEF DidConnect, ConnectBlock
  <2>2. LossComes(main)
    <3>1. 1 \in DOMAIN main /\ main[1] = Head(main)
      BY <1>1
    <3> QED BY <1>4, <2>1, <3>1 DEF Known, NoConnect
  <2>3. main' = rest \/ main' = rest \o <<TellBlock("connected")>>
    BY <1>2, <1>6, <1>7 DEF DidConnect, rest
  <2>4. LossComes(rest \o <<TellBlock("connected")>>)
    <3> DEFINE more == <<TellBlock("connected")>>
    <3>1. /\ more \in Seq(Blocks) /\ Len(more) <= 1 /\ more # <<>>
          /\ more[1].event # "connect"
      BY <1>6
    <3> HIDE DEF more
    <3>2. LossComes(rest \o more)
      BY <1>1, <2>1, <2>2, <3>1, LossStays DEF rest
    <3> QED BY <3>2 DEF more
  <2>5. LossComes(main')
    BY <1>5, <2>1, <2>2, <2>3, <2>4
  <2> QED BY <2>5 DEF Known
<1>8. CASE DidDisconnect
  <2>1. UNCHANGED <<isDisconnectInner, told>>
    BY <1>8 DEF DidDisconnect
  <2>2. CASE isDisconnectInner
    <3>1. main' = rest
      BY <1>2, <1>8, <2>2 DEF DidDisconnect, rest
    <3>2. LossComes(rest) \/ NoConnect(rest)
      BY <1>4, <1>5 DEF Known
    <3> QED BY <2>1, <2>2, <3>1, <3>2 DEF Known
  <2>3. CASE ~ isDisconnectInner
    <3> DEFINE b == TellBlock("disconnected")
               more == <<b>>
    <3>1. main' = rest \o more
      BY <1>6, <1>8, <2>3 DEF DidDisconnect, rest
    <3>2. /\ more \in Seq(Blocks) /\ Len(more) <= 1 /\ more # <<>>
          /\ more[1] = b /\ more[1].event # "connect"
          /\ b.event = "tell" /\ b.state = "disconnected"
      BY <1>6
    <3> HIDE DEF b, more
    <3>3. LossComes(main') \/ NoConnect(main')
      BY <1>1, <1>4, <3>1, <3>2, LossStays DEF Known, rest
    <3>4. /\ Len(main) \in DOMAIN main' /\ main'[Len(main)] = b
          /\ \A j \in DOMAIN main' : ~ (j > Len(main))
      <4>1. /\ Len(main) \in Nat /\ DOMAIN main = 1 .. Len(main)
            /\ Len(main) \in DOMAIN (rest \o more)
            /\ (rest \o more)[Len(main)] = b
            /\ \A j \in DOMAIN (rest \o more) :
                  j + 1 \in DOMAIN main \/ j = Len(main)
            /\ \A j \in DOMAIN (rest \o more) : j \in Int
        BY <1>1, <3>2, Shifted DEF rest
      <4>2. \A j \in DOMAIN (rest \o more) : ~ (j > Len(main))
        BY <4>1
      <4> QED BY <3>1, <4>1, <4>2
    <3>5. LossTold(main', told')
      BY <3>2, <3>4 DEF LossTold, Down
    <3> QED BY <3>3, <3>5 DEF Known
  <2> QED BY <2>2, <2>3
<1>9. CASE DidWriteData \/ DidReadData
  <2>1. Head(main).event \in {"write", "read"}
    BY <1>9 DEF DidWriteData, DidReadData, WriteBlock
  <2>2. main' = rest /\ UNCHANGED <<isDisconnectInner, told>>
    BY <1>9 DEF DidWriteData, DidReadData, rest
  <2>3. LossTold(main, told) => LossTold(rest, told)
    BY <1>1, <2>1, ToldStays DEF rest
  <2> QED BY <1>4, <1>5, <2>1, <2>2, <2>3 DEF Known
<1>10. CASE SocketConnect
  <2>1. Head(main).event = "tell"
    BY <1>10 DEF SocketConnect
  <2>2. main' = rest /\ UNCHANGED isDisconnectInner /\ told' = Head(main).state
    BY <1>10 DEF SocketConnect, rest
  <2>3. LossTold(main, told) => LossTold(rest, told')
    BY <1>1, <2>1, <2>2, ToldStays DEF rest
  <2> QED BY <1>4, <1>5, <2>1, <2>2, <2>3 DEF Known
<1> QED BY <1>7, <1>8, <1>9, <1>10 DEF MainQueue

(* A purge of an open or a used connection posts its disconnect last.      *)
LEMMA PurgeLoses ==
    ASSUME IInv, NEW kept \in {<<>>} \cup {<<r>> : r \in Requests},
           NEW out \in BOOLEAN, ProcessDelayRequest(kept, out)
    PROVE  /\ sock # "closed" \/ kept # <<>> => LossComes(main')
           /\ sock = "closed" /\ kept = <<>> => main' = main
<1>1. main \in Seq(Blocks)
  BY DEF IInv, TypeOK
<1>2. ASSUME sock # "closed" \/ kept # <<>>
      PROVE  LossComes(main')
  <2> DEFINE a == IF out THEN <<WriteBlock>> ELSE <<>>
             c == main \o a
  <2>1. main' = c \o <<DisconnectBlock(FALSE)>>
    BY <1>2 DEF ProcessDelayRequest
  <2>2. c \in Seq(Blocks)
    <3>1. a \in Seq(Blocks)
      BY BlocksAreBlocks
    <3> QED BY <1>1, <3>1
  <2> HIDE DEF c
  <2>3. c \o <<DisconnectBlock(FALSE)>> = Append(c, DisconnectBlock(FALSE))
    BY <2>2, BlocksAreBlocks, AppendIsConcat
  <2> QED BY <2>1, <2>2, <2>3, LastPosted
<1>3. ASSUME sock = "closed", kept = <<>>
      PROVE  main' = main
  <2>1. main' = main \o <<>> \o <<>>
    BY <1>3 DEF ProcessDelayRequest
  <2> QED BY <1>1, <2>1, ConcatEmptySeq
<1> QED BY <1>2, <1>3

(* So does request:, whose purge alone may hide one. *)
LEMMA LossRequest ==
    ASSUME IInv, LossInv, Request
    PROVE  LossInv'
<1> SUFFICES ASSUME sock' = "closed"
             PROVE  Known(main', isDisconnectInner', told')
  BY DEF LossInv
<1>1. told' = told /\ main \in Seq(Blocks)
  BY DEF Request, IInv, TypeOK
<1>2. CASE RequestWithoutPurge
  <2>1. /\ UNCHANGED <<isDisconnectInner, main>>
        /\ AddHttpRequest(queue, currentRequest, issued + 1, sock, writes)
    BY <1>2 DEF RequestWithoutPurge
  <2>2. sock = "closed"
    BY <2>1, NextOpens DEF AddHttpRequest
  <2> QED BY <1>1, <2>1, <2>2 DEF LossInv
<1>3. CASE RequestAfterPurge
  <2>1. PICK kept \in {<<>>} \cup {<<r>> : r \in Requests}, out \in BOOLEAN :
          /\ ProcessDelayRequest(kept, out)
          /\ kept = <<>> =>
               ProcessNextRequest(<<issued + 1>>, NoRequest, "closed", <<>>)
    BY <1>3 DEF RequestAfterPurge
  <2>2. kept # <<>>
    BY <2>1 DEF ProcessNextRequest, Started
  <2>3. LossComes(main')
    BY <2>1, <2>2, PurgeLoses
  <2> QED BY <2>3 DEF Known
<1>4. CASE RequestGivesUp
  <2>1. PICK kept \in {<<>>} \cup {<<r>> : r \in Requests}, out \in BOOLEAN :
          ProcessDelayRequest(kept, out)
    BY <1>4 DEF RequestGivesUp
  <2>2. CASE sock # "closed" \/ kept # <<>>
    <3>1. LossComes(main')
      BY <2>1, <2>2, PurgeLoses
    <3> QED BY <3>1 DEF Known
  <2>3. CASE sock = "closed" /\ kept = <<>>
    <3>1. main' = main
      BY <2>1, <2>3, PurgeLoses
    <3>2. currentRequest # NoRequest
      <4>1. queue # <<>>
        BY <1>4, CountsAssumption DEF RequestGivesUp, Backlogged
      <4> QED BY <4>1, CurrentIsNone DEF IInv, TypeOK
    <3>3. Waking({"disconnect"})
      BY <2>3, <3>2 DEF IInv, NoStall
    <3>4. LossComes(main)
      BY <2>3, <3>3 DEF LossInv, Known, Waking, NoConnect, LossComes
    <3> QED BY <3>1, <3>4 DEF Known
  <2> QED BY <2>2, <2>3
<1> QED BY <1>2, <1>3, <1>4 DEF Request

(* Every step does. *)
LEMMA LossStep ==
    ASSUME IInv, LossInv, [Next]_vars
    PROVE  LossInv'
<1>1. CASE MainQueue
  BY <1>1, LossHandlers
<1>2. CASE Request
  BY <1>2, LossRequest
<1>3. CASE ConnectWithHost \/ SocketConnects \/ SocketWrites \/ SocketReads
  <2>1. sock' # "closed"
    BY <1>3 DEF ConnectWithHost, Started, SocketConnects, SocketWrites, SocketReads
  <2> QED BY <2>1 DEF LossInv
<1>4. CASE CancelAll
  BY <1>4 DEF CancelAll, LossInv, socketVars
<1>5. CASE SocketCloses(TRUE) \/ SocketCloses(FALSE)
  <2>1. LossComes(main')
    BY <1>5, LastPosted DEF SocketCloses, IInv, TypeOK
  <2> QED BY <2>1 DEF LossInv, Known
<1>6. CASE UNCHANGED vars
  BY <1>6 DEF vars, LossInv, socketVars
<1> QED BY <1>1, <1>2, <1>3, <1>4, <1>5, <1>6
      DEF Next, Client, ConnectEnds, WriteEnds, ReadEnds, Disconnect,
          ConnectFails, WriteTimesOut, ReadTimesOut, ServerCloses

(* A delegate told "connected" learns of every loss but one the queue hid. *)
THEOREM LossKnown == Spec => []LossIsKnown
<1>1. Init => LossInv
  BY DEF Init, LossInv, Known, NoConnect, LossTold
<1>2. IInv /\ LossInv /\ [Next]_vars => LossInv'
  BY LossStep
<1>3. LossInv => LossIsKnown
  BY DEF LossInv, LossIsKnown, Known, LossComes, LossTold
<1> QED BY <1>1, <1>2, <1>3, Inductive, PTL DEF Spec

-----------------------------------------------------------------------------
(* HttpRequestQueue implements RequestPromise: every step of the queue, of *)
(* the socket or of the client is a step of the promise or leaves what the *)
(* promise speaks of alone.                                                *)

(* FateOf as a function of what it reads: queue, issued and calls.         *)
Fated(q, n, c, r) ==
    IF r > n THEN "unmade"
    ELSE IF r \in ToSet(q) THEN "waits"
    ELSE IF c[r] > 0 THEN "completed"
    ELSE "forgotten"

FateIs == \A r \in Requests : FateOf(r) = Fated(queue, issued, calls, r)

(* In an ordered queue the fate of a request is told by its place and its calls. *)
LEMMA FateIsFated == TypeOK /\ Ordered => FateIs
<1> SUFFICES ASSUME TypeOK, Ordered, NEW r \in Requests
             PROVE  FateOf(r) = Fated(queue, issued, calls, r)
  BY DEF FateIs
<1>1. r \in ToSet(queue) => r <= issued
  BY DEF ToSet, Ordered
<1>2. r \in Nat /\ issued \in Nat /\ calls[r] \in Nat
  BY CountsAssumption DEF TypeOK, Requests
<1>3. CASE r > issued
  BY <1>1, <1>2, <1>3 DEF FateOf, Fated
<1>4. CASE r \in ToSet(queue)
  BY <1>1, <1>2, <1>4 DEF FateOf, Fated
<1>5. CASE r <= issued /\ r \notin ToSet(queue)
  BY <1>2, <1>5 DEF FateOf, Fated
<1> QED BY <1>2, <1>3, <1>4, <1>5

(* The same of the next state. *)
LEMMA FateIsFatedNext == TypeOK' /\ Ordered' => FateIs'
BY FateIsFated, PTL

(* A step that leaves queue, issued and calls alone is a stutter.          *)
LEMMA Stutters ==
    ASSUME UNCHANGED <<queue, issued, calls>>
    PROVE  [Promise!Next]_<<queue, [r \in Requests |-> FateOf(r)]>>
BY DEF FateOf

(* In an ordered queue the tail holds all but the head.                    *)
LEMMA TailHolds ==
    ASSUME TypeOK, Ordered, queue # <<>>, NEW r \in Requests
    PROVE  r \in ToSet(Tail(queue)) <=> r \in ToSet(queue) /\ r # Head(queue)
<1>1. /\ DOMAIN queue = 1 .. Len(queue) /\ Len(queue) \in Nat \ {0}
      /\ DOMAIN Tail(queue) = 1 .. (Len(queue) - 1)
      /\ \A i \in 1 .. (Len(queue) - 1) : Tail(queue)[i] = queue[i + 1]
      /\ Head(queue) = queue[1]
  BY DEF TypeOK
<1>2. \A i \in 1 .. (Len(queue) - 1) : queue[i + 1] # queue[1]
  <2> TAKE i \in 1 .. (Len(queue) - 1)
  <2>1. 1 \in DOMAIN queue /\ i + 1 \in DOMAIN queue /\ 1 < i + 1
    BY <1>1
  <2>2. queue[1] < queue[i + 1]
    BY <2>1 DEF Ordered
  <2>3. queue[1] \in Nat /\ queue[i + 1] \in Nat
    BY SMTT(30), <2>1, CountsAssumption DEF TypeOK, Requests
  <2> QED BY <2>2, <2>3
<1>3. ASSUME r \in ToSet(Tail(queue))
      PROVE  r \in ToSet(queue) /\ r # Head(queue)
  <2>1. PICK i \in 1 .. (Len(queue) - 1) : r = queue[i + 1]
    BY <1>1, <1>3 DEF ToSet
  <2>2. i + 1 \in DOMAIN queue
    BY <1>1
  <2> QED BY <1>1, <1>2, <2>1, <2>2 DEF ToSet
<1>4. ASSUME r \in ToSet(queue), r # Head(queue)
      PROVE  r \in ToSet(Tail(queue))
  <2>1. PICK i \in DOMAIN queue : r = queue[i]
    BY <1>4 DEF ToSet
  <2>2. i - 1 \in 1 .. (Len(queue) - 1) /\ Tail(queue)[i - 1] = queue[(i - 1) + 1]
    BY <1>1, <1>4, <2>1
  <2>3. Tail(queue)[i - 1] = r
    BY <1>1, <2>1, <2>2
  <2> QED BY <1>1, <2>2, <2>3 DEF ToSet
<1> QED BY <1>3, <1>4

(* The end of an exchange completes the first request, if there is one.    *)
LEMMA FinishCompletes ==
    ASSUME TypeOK, QueueIsServed, Ordered, TypeOK', Ordered',
           NEW from \in SUBSET Requests, FinishCurrent(from), issued' = issued
    PROVE  [Promise!Next]_<<queue, [r \in Requests |-> FateOf(r)]>>
<1>1. FateIs /\ FateIs'
  BY FateIsFated, FateIsFatedNext
<1>2. CASE queue = <<>>
  <2>1. currentRequest = NoRequest /\ queue' = queue /\ calls' = calls
    BY <1>2, FinishQueue, CurrentIsNone DEF TypeOK, FinishCurrent, historyVars
  <2> QED BY <2>1, Stutters
<1>3. CASE queue # <<>>
  <2> DEFINE h == Head(queue)
  <2>1. /\ h \in Requests /\ currentRequest = h /\ h # NoRequest
    BY <1>3, CurrentIsNone DEF TypeOK, QueueIsServed
  <2>2. /\ queue' = Tail(queue)
        /\ calls' = [calls EXCEPT ![h] = @ + 1]
    BY <1>3, <2>1, FinishQueue DEF FinishCurrent
  <2>3. h \in ToSet(queue) /\ h <= issued /\ calls[h] = 0
    <3>1. 1 \in DOMAIN queue /\ h = queue[1]
      BY <1>3 DEF TypeOK
    <3> QED BY <3>1 DEF ToSet, Ordered
  <2>4. ASSUME NEW r \in Requests
        PROVE  FateOf(r)' = IF r = h THEN "completed" ELSE FateOf(r)
    <3>1. calls'[r] = IF r = h THEN 1 ELSE calls[r]
      BY <2>1, <2>2, <2>3 DEF TypeOK
    <3>2. r \in ToSet(queue') <=> r \in ToSet(queue) /\ r # h
      BY <1>3, <2>2, TailHolds
    <3>3. FateOf(r)' = Fated(queue', issued', calls', r)
      BY <1>1 DEF FateIs
    <3>4. FateOf(r) = Fated(queue, issued, calls, r)
      BY <1>1 DEF FateIs
    <3>5. r \in Nat /\ issued \in Nat
      BY CountsAssumption DEF TypeOK, Requests
    <3> QED BY <2>3, <3>1, <3>2, <3>3, <3>4, <3>5 DEF Fated
  <2>5. [r \in Requests |-> FateOf(r)]'
          = [[r \in Requests |-> FateOf(r)] EXCEPT ![h] = "completed"]
    BY <2>1, <2>4
  <2>6. Promise!CompleteFirst
    BY <1>3, <2>2, <2>5 DEF Promise!CompleteFirst
  <2> QED BY <2>6 DEF Promise!Next
<1> QED BY <1>2, <1>3

(* A call of request: makes the next request, and waits on at most what    *)
(* was kept and itself.                                                    *)
LEMMA RequestMakes ==
    ASSUME TypeOK, Ordered, TypeOK', Ordered',
           NEW n \in Requests, n = issued + 1, issued' = n, calls' = calls,
           NEW kept \in Promise!Leftovers,
           queue' = kept \/ queue' = Append(kept, n)
    PROVE  Promise!Make(n)
<1> DEFINE fate == [r \in Requests |-> FateOf(r)]
<1>1. FateIs /\ FateIs'
  BY FateIsFated, FateIsFatedNext
<1>2. n \in Requests /\ n > issued /\ issued \in Nat
  BY CountsAssumption DEF TypeOK, Requests
<1>3. kept \in Seq(Requests) /\ \A i \in DOMAIN kept : kept[i] \in ToSet(queue)
  <2>1. queue \in Seq(Requests) /\ \A i \in DOMAIN queue : queue[i] \in ToSet(queue)
    BY DEF TypeOK, ToSet
  <2>2. CASE kept = queue
    BY <2>1, <2>2
  <2>3. CASE kept = <<>>
    BY <2>3
  <2>4. CASE \E i \in DOMAIN queue : kept = <<queue[i]>>
    <3>1. PICK i \in DOMAIN queue : kept = <<queue[i]>>
      BY <2>4
    <3>2. queue[i] \in Requests
      BY <2>1
    <3>3. kept \in Seq(Requests) /\ DOMAIN kept = {1} /\ kept[1] = queue[i]
      BY <3>1, <3>2
    <3> QED BY <2>1, <3>3
  <2> QED BY <2>2, <2>3, <2>4 DEF Promise!Leftovers
<1>4. ASSUME NEW r \in Requests
      PROVE  r \in ToSet(queue) => r <= issued
  BY DEF ToSet, Ordered
<1>5. ASSUME NEW r \in Requests, r # n
      PROVE  FateOf(r)' = Promise!Forget(kept)[r]
  <2>1. r \in ToSet(queue') <=> \E i \in DOMAIN kept : kept[i] = r
    <3>1. CASE queue' = kept
      BY <3>1 DEF ToSet
    <3>2. CASE queue' = Append(kept, n)
      BY <1>3, <1>5, <3>2 DEF ToSet
    <3> QED BY <3>1, <3>2
  <2>2. (\E i \in DOMAIN kept : kept[i] = r) => r \in ToSet(queue)
    BY <1>3
  <2>3. r \in ToSet(queue) => calls[r] = 0
    BY DEF ToSet, Ordered
  <2>4. FateOf(r)' = Fated(queue', n, calls, r)
    BY <1>1 DEF FateIs
  <2>5. FateOf(r) = Fated(queue, issued, calls, r)
    BY <1>1 DEF FateIs
  <2>6. r \in Nat /\ calls[r] \in Nat
    BY CountsAssumption DEF TypeOK, Requests
  <2>7. r > n <=> r > issued
    BY <1>2, <1>5, <2>6
  <2>8. FateOf(r)' = IF FateOf(r) = "waits" /\ \A i \in DOMAIN kept : kept[i] # r
                     THEN "forgotten" ELSE FateOf(r)
    BY <1>4, <2>1, <2>2, <2>3, <2>4, <2>5, <2>6, <2>7 DEF Fated
  <2> QED BY <2>8 DEF Promise!Forget
<1>6. FateOf(n) = "unmade"
  BY <1>1, <1>2 DEF FateIs, Fated
<1>7. /\ queue' = kept => FateOf(n)' = "forgotten"
      /\ queue' = Append(kept, n) => FateOf(n)' = "waits"
  <2>1. FateOf(n)' = Fated(queue', n, calls, n)
    BY <1>1, <1>2 DEF FateIs
  <2>2. calls[n] = 0
    BY <1>2 DEF Ordered
  <2>3. n \notin ToSet(kept)
    BY <1>2, <1>3, <1>4 DEF ToSet
  <2>4. n \in ToSet(Append(kept, n))
    BY <1>2, <1>3 DEF ToSet
  <2>5. ~ (n > n) /\ ~ (calls[n] > 0)
    BY <1>2, <2>2
  <2>6. CASE queue' = kept
    <3>1. queue' # Append(kept, n)
      BY <2>3, <2>4, <2>6
    <3> QED BY <2>1, <2>3, <2>5, <2>6, <3>1 DEF Fated
  <2>7. CASE queue' = Append(kept, n)
    <3>1. queue' # kept
      BY <2>3, <2>4, <2>7
    <3> QED BY <2>1, <2>4, <2>5, <2>7, <3>1 DEF Fated
  <2> QED BY <2>6, <2>7
<1>8. ASSUME NEW end, FateOf(n)' = end
      PROVE  fate' = [Promise!Forget(kept) EXCEPT ![n] = end]
  <2>1. Promise!Forget(kept) = [r \in Requests |-> Promise!Forget(kept)[r]]
    BY DEF Promise!Forget
  <2> QED BY <1>2, <1>5, <1>8, <2>1
<1> HIDE DEF fate
<1>9. fate[n] = "unmade"
  BY <1>2, <1>6 DEF fate
<1>10. \/ /\ queue' = Append(kept, n)
          /\ fate' = [Promise!Forget(kept) EXCEPT ![n] = "waits"]
       \/ /\ queue' = kept
          /\ fate' = [Promise!Forget(kept) EXCEPT ![n] = "forgotten"]
  BY <1>7, <1>8
<1> QED BY <1>9, <1>10 DEF Promise!Make, fate

(* What a purge leaves is among the leftovers the promise allows.          *)
LEMMA PurgeKeeps ==
    ASSUME NEW kept, PurgeLeaves(kept)
    PROVE  kept \in Promise!Leftovers
BY DEF PurgeLeaves, Promise!Leftovers

(* Each way request: can go is a Make of the promise. *)
LEMMA RequestStep ==
    ASSUME TypeOK, Ordered, TypeOK', Ordered', Request
    PROVE  \E r \in Requests : Promise!Make(r)
<1> PICK n \in Requests : n = issued + 1
  BY CountsAssumption DEF Request, TypeOK, Requests
<1>1. issued' = n /\ calls' = calls
  BY DEF Request, historyVars
<1>2. \E kept \in Promise!Leftovers : queue' = kept \/ queue' = Append(kept, n)
  <2>1. Append(<<>>, n) = <<n>>
    OBVIOUS
  <2>2. CASE RequestWithoutPurge
    <3>1. queue' = Append(queue, n)
      BY <2>1, <2>2 DEF RequestWithoutPurge, AddHttpRequest, ProcessNextRequest
    <3>2. queue \in Promise!Leftovers
      BY DEF Promise!Leftovers
    <3> QED BY <3>1, <3>2
  <2>3. CASE RequestAfterPurge
    <3>1. PICK kept \in {<<>>} \cup {<<r>> : r \in Requests}, out \in BOOLEAN :
            /\ ProcessDelayRequest(kept, out)
            /\ IF kept = <<>>
               THEN ProcessNextRequest(<<issued + 1>>, NoRequest, "closed", <<>>)
               ELSE /\ queue' = Append(kept, issued + 1)
                    /\ currentRequest' = Head(kept) /\ content' = {}
                    /\ sock' = "closed" /\ writes' = <<>>
      BY <2>3 DEF RequestAfterPurge
    <3>2. kept \in Promise!Leftovers
      BY <3>1, PurgeKeeps DEF ProcessDelayRequest
    <3>3. queue' = Append(kept, n)
      BY <2>1, <3>1 DEF ProcessNextRequest
    <3> QED BY <3>2, <3>3
  <2>4. CASE RequestGivesUp
    <3>1. PICK kept \in {<<>>} \cup {<<r>> : r \in Requests}, out \in BOOLEAN :
            ProcessDelayRequest(kept, out) /\ LeaveKept(kept)
      BY <2>4 DEF RequestGivesUp
    <3>2. kept \in Promise!Leftovers /\ queue' = kept
      BY <3>1, PurgeKeeps DEF ProcessDelayRequest, LeaveKept
    <3> QED BY <3>2
  <2> QED BY <2>2, <2>3, <2>4 DEF Request
<1> QED BY <1>1, <1>2, RequestMakes

(* cancelAll is a ForgetAll of the promise. *)
LEMMA CancelForgets ==
    ASSUME TypeOK, Ordered, TypeOK', Ordered', CancelAll
    PROVE  Promise!ForgetAll
<1>1. queue' = <<>> /\ issued' = issued /\ calls' = calls
  BY DEF CancelAll, historyVars
<1>2. FateIs /\ FateIs'
  BY FateIsFated, FateIsFatedNext
<1>3. ASSUME NEW r \in Requests
      PROVE  FateOf(r)' = IF FateOf(r) = "waits" THEN "forgotten" ELSE FateOf(r)
  <2>1. /\ FateOf(r)' = Fated(<<>>, issued, calls, r)
        /\ FateOf(r) = Fated(queue, issued, calls, r)
    BY <1>1, <1>2 DEF FateIs
  <2>2. r \notin ToSet(<<>>)
    BY DEF ToSet
  <2>3. r \in ToSet(queue) => ~ (calls[r] > 0)
    BY DEF ToSet, Ordered
  <2> QED BY <2>1, <2>2, <2>3 DEF Fated
<1>4. \A r \in Requests : \A i \in DOMAIN <<>> : <<>>[i] # r
  OBVIOUS
<1>5. [r \in Requests |-> FateOf(r)]' = Promise!Forget(<<>>)
  BY <1>3, <1>4 DEF Promise!Forget
<1> QED BY <1>1, <1>5 DEF Promise!ForgetAll

-----------------------------------------------------------------------------
(* The queue starts as the promise does. *)
LEMMA PromiseInit == Init => Promise!Init
<1> SUFFICES ASSUME Init PROVE Promise!Init
  OBVIOUS
<1>1. queue = <<>> /\ issued = 0
  BY DEF Init
<1>2. ASSUME NEW r \in Requests PROVE FateOf(r) = "unmade"
  <2>1. r > issued /\ ~ (r <= issued) /\ r \notin ToSet(queue)
    BY <1>1, CountsAssumption DEF ToSet, Requests
  <2> QED BY <2>1 DEF FateOf
<1> QED BY <1>1, <1>2 DEF Promise!Init

(* Every step of the queue is one of the promise, or a stutter. *)
LEMMA PromiseStep ==
    ASSUME IInv, IInv', [Next]_vars
    PROVE  [Promise!Next]_<<queue, [r \in Requests |-> FateOf(r)]>>
<1> USE DEF IInv
<1>1. CASE CancelAll
  BY <1>1, CancelForgets DEF Promise!Next
<1>2. CASE Request
  BY <1>2, RequestStep DEF Promise!Next
<1>3. CASE DidDisconnect
  <2>1. content \in SUBSET Requests /\ FinishCurrent(content) /\ issued' = issued
    BY <1>3 DEF DidDisconnect, TypeOK
  <2> QED BY <2>1, FinishCompletes
<1>4. CASE DidReadData
  <2>1. issued' = issued
    BY <1>4 DEF DidReadData
  <2>2. Head(main).part.req \in Requests
    <3>1. main # <<>> /\ Head(main) \in Blocks /\ Head(main).event = "read"
      BY <1>4 DEF DidReadData, TypeOK
    <3> QED BY <3>1, BlockFields DEF Parts
  <2>3. \/ FinishCurrent({Head(main).part.req})
        \/ UNCHANGED <<queue, calls>>
    BY <1>4 DEF DidReadData, DidReadHeader, queueVars, historyVars
  <2>4. CASE FinishCurrent({Head(main).part.req})
    BY <2>1, <2>2, <2>4, FinishCompletes
  <2>5. CASE UNCHANGED <<queue, calls>>
    BY <2>1, <2>5, Stutters
  <2> QED BY <2>3, <2>4, <2>5
<1>5. CASE UNCHANGED <<queue, issued, calls>>
  BY <1>5, Stutters
<1>6. CASE ConnectWithHost \/ Disconnect \/ ServerCloses
  BY <1>5, <1>6 DEF ConnectWithHost, Disconnect, ServerCloses, SocketCloses,
                    queueVars, historyVars
<1>7. CASE DidConnect \/ DidWriteData \/ SocketConnect
  BY <1>5, <1>7 DEF DidConnect, DidWriteData, SocketConnect, queueVars,
                    historyVars
<1>8. CASE ConnectEnds \/ WriteEnds \/ ReadEnds
  BY <1>5, <1>8 DEF ConnectEnds, WriteEnds, ReadEnds, SocketConnects,
                    ConnectFails, SocketWrites, WriteTimesOut, SocketReads,
                    ReadTimesOut, SocketCloses, queueVars, historyVars
<1>9. CASE UNCHANGED vars
  BY <1>5, <1>9 DEF vars, queueVars, historyVars
<1> QED BY <1>1, <1>2, <1>3, <1>4, <1>6, <1>7, <1>8, <1>9
        DEF Next, Client, MainQueue

(* The queue of HttpRequestQueue.m keeps the promise for every number of   *)
(* requests, every limit and every behaviour of socket and server: its     *)
(* requests wait in order, only the first is completed, and each ends once.*)
THEOREM QueueKeepsPromise == Spec => KeepsPromise
<1>1. Init => Promise!Init
  BY PromiseInit
<1>2. IInv /\ IInv' /\ [Next]_vars
        => [Promise!Next]_<<queue, [r \in Requests |-> FateOf(r)]>>
  BY PromiseStep
<1> QED BY <1>1, <1>2, Inductive, PTL DEF Spec, KeepsPromise, Promise!Spec

-----------------------------------------------------------------------------
(* Whose answer it is.                                                     *)

(* A connection that is down has nothing left to do.                       *)
DownIsIdle ==
    sock = "closed" => writes = <<>> /\ reads = <<>> /\ wire = <<>>

(* No request, answer or data under way is of a later request than the one *)
(* being served.                                                           *)
Latest == IF currentRequest = NoRequest THEN issued ELSE currentRequest
PartsTo(n) == [req : 1 .. n, is : AnswerKinds \cup {"data"}]
IsTo(b, n) == b.event = "read" => b.part \in PartsTo(n)
AllTo(m, n) == \A i \in DOMAIN m : IsTo(m[i], n)
CarriedTo(n) ==
    /\ \A i \in DOMAIN writes : writes[i] \in 1 .. n
    /\ \A i \in DOMAIN wire : wire[i] \in PartsTo(n)
    /\ AllTo(main, n)
    /\ content \subseteq 1 .. n
NoneLater == CarriedTo(Latest)

(* Nothing, or nothing but block b, on the main queue concerns an exchange.*)
CalmBlock(b) == b.event \notin {"write", "read"}
Calm(m) == \A j \in DOMAIN m : CalmBlock(m[j])
Only(m, b) ==
    \E k \in DOMAIN m : m[k] = b /\ \A j \in DOMAIN m : j # k => CalmBlock(m[j])

HeaderOf(r, kind) == [req |-> r, is |-> kind]
DataOf(r) == [req |-> r, is |-> "data"]
Behind(r, kind) == IF kind = "empty" THEN <<>> ELSE <<DataOf(r)>>

(* The stages of the one exchange under way, that of request r.  What is   *)
(* left of it on the wire is gone once the connection has been down.       *)
Idle == Calm(main) /\ writes = <<>> /\ reads = <<>> /\ wire = <<>>
ToWrite(r) == Calm(main) /\ writes = <<r>> /\ reads = <<>> /\ wire = <<>>
Lost == Calm(main) /\ writes = <<>> /\ wire = <<>>
Done(b, rest) ==
    /\ Only(main, b) /\ writes = <<>> /\ reads = <<>>
    /\ wire = rest \/ wire = <<>>
ToRead(tag, rest) ==
    Calm(main) /\ writes = <<>> /\ reads = <<tag>> /\ wire = rest
WithHeader(r, kind) ==
    \/ Done(WriteBlock, AnswerTo(r, kind))
    \/ ToRead("header", AnswerTo(r, kind))
    \/ Done(ReadBlock("header", HeaderOf(r, kind)), Behind(r, kind))
WithData(r, tag) ==
    \/ ToRead(tag, <<DataOf(r)>>)
    \/ Done(ReadBlock(tag, DataOf(r)), <<>>)
Exchange(r) ==
    \/ ToWrite(r) \/ Lost
    \/ \E kind \in AnswerKinds : WithHeader(r, kind)
    \/ \E tag \in {"body", "rest"} : WithData(r, tag)

(* As long as no answer may go astray, the exchange under way is that of   *)
(* the current request.                                                    *)
Matched ==
    ~ astray =>
        /\ currentRequest = NoRequest => Idle
        /\ currentRequest # NoRequest =>
              Exchange(currentRequest) /\ content \subseteq {currentRequest}

(* The inductive invariant behind AnswersMatch.                            *)
AnswersInv == DownIsIdle /\ NoneLater /\ Matched

(* The blocks of an exchange.                                              *)
LEMMA StageBlocks ==
    /\ WriteBlock \in Blocks /\ WriteBlock.event = "write"
    /\ \A r \in Requests, kind \in AnswerKinds :
          /\ HeaderOf(r, kind) \in Parts
          /\ HeaderOf(r, kind).req = r /\ HeaderOf(r, kind).is = kind
    /\ \A r \in Requests :
          /\ DataOf(r) \in Parts
          /\ DataOf(r).req = r /\ DataOf(r).is = "data"
    /\ \A tag \in Tags, p \in Parts :
          /\ ReadBlock(tag, p) \in Blocks
          /\ ReadBlock(tag, p).event = "read"
          /\ ReadBlock(tag, p).tag = tag /\ ReadBlock(tag, p).part = p
    /\ \A e \in BOOLEAN :
          /\ DisconnectBlock(e) \in Blocks /\ CalmBlock(DisconnectBlock(e))
          /\ DisconnectBlock(e).event = "disconnect"
    /\ ConnectBlock \in Blocks /\ ConnectBlock.event = "connect"
    /\ CalmBlock(ConnectBlock)
    /\ \A s \in {"connected", "disconnected"} :
          /\ TellBlock(s) \in Blocks /\ CalmBlock(TellBlock(s))
          /\ TellBlock(s).event = "tell"
<1>1. \A r \in Requests, kind \in AnswerKinds :
          /\ HeaderOf(r, kind) \in Parts
          /\ HeaderOf(r, kind).req = r /\ HeaderOf(r, kind).is = kind
  BY DEF HeaderOf, Parts
<1>2. \A r \in Requests :
          /\ DataOf(r) \in Parts
          /\ DataOf(r).req = r /\ DataOf(r).is = "data"
  BY DEF DataOf, Parts
<1>3. \A tag \in Tags, p \in Parts :
          /\ ReadBlock(tag, p) \in Blocks
          /\ ReadBlock(tag, p).event = "read"
          /\ ReadBlock(tag, p).tag = tag /\ ReadBlock(tag, p).part = p
  BY DEF ReadBlock, Blocks
<1>4. \A e \in BOOLEAN :
          /\ DisconnectBlock(e) \in Blocks /\ CalmBlock(DisconnectBlock(e))
          /\ DisconnectBlock(e).event = "disconnect"
  BY BlocksAreBlocks DEF DisconnectBlock, CalmBlock
<1>5. \A s \in {"connected", "disconnected"} :
          /\ TellBlock(s) \in Blocks /\ CalmBlock(TellBlock(s))
          /\ TellBlock(s).event = "tell"
  BY BlocksAreBlocks DEF TellBlock, CalmBlock
<1>6. /\ WriteBlock \in Blocks /\ WriteBlock.event = "write"
      /\ ConnectBlock \in Blocks /\ ConnectBlock.event = "connect"
      /\ CalmBlock(ConnectBlock)
  BY BlocksAreBlocks DEF WriteBlock, ConnectBlock, CalmBlock
<1> QED BY <1>1, <1>2, <1>3, <1>4, <1>5, <1>6

-----------------------------------------------------------------------------
(* A connection that is down has nothing left to do.                       *)

(* What processNextRequest and the handlers queue, they queue on a         *)
(* connection that is up or coming up.                                     *)
LEMMA DownStep ==
    ASSUME TypeOK, DownIsIdle, [Next]_vars
    PROVE  DownIsIdle'
<1> USE DEF DownIsIdle
<1>1. ASSUME NEW q, NEW cur, UNCHANGED <<reads, wire>>,
             ProcessNextRequest(q, cur, sock, writes)
      PROVE  DownIsIdle'
  BY <1>1 DEF ProcessNextRequest, Started
<1>2. ASSUME NEW from, FinishCurrent(from), UNCHANGED <<reads, wire>>
      PROVE  DownIsIdle'
  BY <1>1, <1>2, Zenon DEF FinishCurrent
<1>3. CASE RequestWithoutPurge
  BY <1>1, <1>3 DEF RequestWithoutPurge, AddHttpRequest
<1>4. CASE RequestAfterPurge
  BY <1>4 DEF RequestAfterPurge, ProcessDelayRequest, ProcessNextRequest, Started
<1>5. CASE RequestGivesUp
  BY <1>5 DEF RequestGivesUp, ProcessDelayRequest, LeaveKept
<1>6. CASE DidDisconnect
  BY <1>2, <1>6 DEF DidDisconnect
<1>7. CASE DidReadData
  <2>1. PICK part : \/ DidReadHeader(part)
                    \/ FinishCurrent({part.req}) /\ UNCHANGED reads
                    \/ /\ reads' = Queued(sock, reads, "rest")
                       /\ UNCHANGED <<sock, writes>>
    BY <1>7 DEF DidReadData
  <2>2. UNCHANGED wire
    BY <1>7 DEF DidReadData
  <2>3. CASE FinishCurrent({part.req}) /\ UNCHANGED reads
    BY <1>2, <2>2, <2>3
  <2> QED BY <2>1, <2>2, <2>3 DEF DidReadHeader, Queued
<1>8. CASE SocketWrites
  BY <1>8 DEF SocketWrites
<1>9. CASE SocketReads
  BY <1>9 DEF SocketReads
<1>10. CASE SocketConnects
  BY <1>10 DEF SocketConnects
<1>11. CASE SocketCloses(TRUE) \/ SocketCloses(FALSE)
  BY <1>11 DEF SocketCloses
<1>12. CASE DidWriteData
  BY <1>12 DEF DidWriteData, Queued
<1>13. CASE ConnectWithHost
  BY <1>13 DEF ConnectWithHost, Started
<1>14. CASE CancelAll \/ DidConnect \/ SocketConnect \/ UNCHANGED vars
  BY <1>14 DEF CancelAll, DidConnect, SocketConnect, socketVars, vars
<1> QED BY <1>3, <1>4, <1>5, <1>6, <1>7, <1>8, <1>9, <1>10, <1>11, <1>12,
           <1>13, <1>14
      DEF Next, Client, Request, MainQueue, ConnectEnds, WriteEnds, ReadEnds,
          Disconnect, ConnectFails, WriteTimesOut, ReadTimesOut, ServerCloses

-----------------------------------------------------------------------------
(* Nothing under way is of a later request.                                *)

(* The order of the queue bounds what is under way: what is first in the   *)
(* queue next, waits now or is not made yet.                               *)
LEMMA HeadComes ==
    ASSUME IInv, IInv', [Next]_vars, queue' # <<>>
    PROVE  Head(queue') \in ToSet(queue) \/ Head(queue') > issued
<1>1. queue \in Seq(Requests) /\ queue' \in Seq(Requests)
  BY DEF IInv, TypeOK
<1>2. \A i \in DOMAIN queue : queue[i] \in ToSet(queue)
  BY DEF ToSet
<1>3. queue # <<>> => Head(queue) \in ToSet(queue)
  <2>1. queue # <<>> => 1 \in DOMAIN queue /\ Head(queue) = queue[1]
    BY <1>1
  <2> QED BY <1>2, <2>1
<1>4. CASE queue' = queue
  BY <1>3, <1>4
<1>5. ASSUME NEW r \in Requests, Promise!Make(r)
      PROVE  Head(queue') \in ToSet(queue) \/ Head(queue') > issued
  <2>1. PICK kept \in Promise!Leftovers : queue' = Append(kept, r) \/ queue' = kept
    BY <1>5 DEF Promise!Make
  <2>2. r > issued
    <3>1. FateOf(r) = "unmade"
      BY <1>5 DEF Promise!Make
    <3> QED BY <3>1, FateIsFated DEF FateIs, Fated, IInv
  <2>3. CASE kept = queue
    <3>1. queue # <<>> => Head(Append(queue, r)) = Head(queue)
      BY <1>1
    <3>2. queue = <<>> => Head(Append(queue, r)) = r
      OBVIOUS
    <3> QED BY <1>3, <2>1, <2>2, <2>3, <3>1, <3>2
  <2>4. CASE kept = <<>>
    <3>1. Head(Append(<<>>, r)) = r
      OBVIOUS
    <3> QED BY <2>1, <2>2, <2>4, <3>1
  <2>5. CASE \E i \in DOMAIN queue : kept = <<queue[i]>>
    <3>1. PICK i \in DOMAIN queue : kept = <<queue[i]>>
      BY <2>5
    <3>2. Head(<<queue[i]>>) = queue[i] /\ Head(Append(<<queue[i]>>, r)) = queue[i]
      OBVIOUS
    <3> QED BY <1>2, <2>1, <3>1, <3>2
  <2> QED BY <2>3, <2>4, <2>5 DEF Promise!Leftovers
<1>6. CASE Promise!CompleteFirst
  <2>1. queue # <<>> /\ queue' = Tail(queue)
    BY <1>6 DEF Promise!CompleteFirst
  <2>2. 2 \in DOMAIN queue /\ Head(Tail(queue)) = queue[2]
    BY <1>1, <2>1
  <2> QED BY <1>2, <2>1, <2>2
<1>7. CASE Promise!ForgetAll
  BY <1>7 DEF Promise!ForgetAll
<1> QED BY <1>4, <1>5, <1>6, <1>7, PromiseStep DEF Promise!Next

LEMMA LatestGrows ==
    ASSUME IInv, IInv', [Next]_vars
    PROVE  Latest \in Nat /\ Latest' \in Nat /\ Latest <= Latest'
<1>1. /\ issued \in Nat /\ issued' \in Nat /\ NoRequest = 0
      /\ queue \in Seq(Requests) /\ queue' \in Seq(Requests)
      /\ \A r \in Requests : r \in Nat /\ r # 0
  BY CountsAssumption DEF IInv, TypeOK, Requests, NoRequest
<1>2. currentRequest = NoRequest <=> queue = <<>>
  BY CurrentIsNone DEF IInv, TypeOK
<1>3. /\ queue' = <<>> => currentRequest' = NoRequest
      /\ queue' # <<>> => currentRequest' = Head(queue') /\ currentRequest' \in Requests
  BY <1>1, HeadTailProperties DEF IInv, QueueIsServed
<1>4. queue # <<>> => /\ currentRequest \in Requests /\ currentRequest <= issued
                      /\ \A r \in ToSet(queue) : currentRequest <= r
  <2> SUFFICES ASSUME queue # <<>>
               PROVE  /\ currentRequest \in Requests /\ currentRequest <= issued
                      /\ \A r \in ToSet(queue) : currentRequest <= r
    OBVIOUS
  <2>1. /\ 1 \in DOMAIN queue /\ queue[1] = Head(queue)
        /\ DOMAIN queue = 1 .. Len(queue) /\ Len(queue) \in Nat
        /\ \A i \in DOMAIN queue : queue[i] \in Requests
    BY <1>1
  <2>2. currentRequest = queue[1]
    BY <2>1 DEF IInv, QueueIsServed
  <2>3. ASSUME NEW r \in ToSet(queue) PROVE currentRequest <= r
    <3>1. PICK i \in DOMAIN queue : queue[i] = r
      BY DEF ToSet
    <3>2. i = 1 \/ 1 < i
      BY <2>1
    <3>3. 1 < i => queue[1] < queue[i]
      BY <2>1 DEF IInv, Ordered
    <3> QED BY <1>1, <2>1, <2>2, <3>1, <3>2, <3>3
  <2> QED BY <2>1, <2>2, <2>3 DEF IInv, Ordered
<1>5. issued' >= issued
  <2>1. CASE Request
    BY <1>1, <2>1 DEF Request
  <2>2. CASE ~ Request
    <3>1. issued' = issued
      BY <2>2
         DEF Next, vars, Client, ConnectWithHost, CancelAll, Disconnect,
             MainQueue, DidConnect, DidDisconnect, DidWriteData, DidReadData,
             SocketConnect, ConnectEnds, SocketConnects, ConnectFails,
             WriteEnds, SocketWrites, WriteTimesOut, ReadEnds, SocketReads,
             ReadTimesOut, ServerCloses, SocketCloses
    <3> QED BY <1>1, <3>1
  <2> QED BY <2>1, <2>2
<1>6. CASE queue' = <<>>
  BY <1>1, <1>2, <1>3, <1>4, <1>5, <1>6 DEF Latest
<1>7. CASE queue' # <<>>
  <2>1. currentRequest' \in ToSet(queue) \/ currentRequest' > issued
    BY <1>3, <1>7, HeadComes
  <2>2. Latest' = currentRequest' /\ currentRequest' \in Nat
    BY <1>1, <1>3, <1>7 DEF Latest
  <2>3. CASE queue = <<>>
    <3>1. ToSet(queue) = {}
      BY <2>3 DEF ToSet
    <3> QED BY <1>1, <1>2, <2>1, <2>2, <2>3, <3>1 DEF Latest
  <2>4. CASE queue # <<>>
    <3>1. /\ currentRequest \in Requests /\ currentRequest <= issued
          /\ \A r \in ToSet(queue) : currentRequest <= r
      BY <1>4, <2>4
    <3>2. Latest = currentRequest /\ currentRequest \in Nat
      BY <1>1, <3>1 DEF Latest
    <3> QED BY <1>1, <2>1, <2>2, <3>1, <3>2
  <2> QED BY <2>3, <2>4
<1> QED BY <1>6, <1>7

(* What is within a bound is within a higher one.                          *)
LEMMA CarriedFurther ==
    ASSUME NEW n \in Nat, NEW k \in Nat, n <= k
    PROVE  /\ \A x \in 1 .. n : x \in 1 .. k
           /\ \A p \in PartsTo(n) : p \in PartsTo(k)
           /\ \A b : IsTo(b, n) => IsTo(b, k)
           /\ CarriedTo(n) => CarriedTo(k)
<1>1. \A x \in 1 .. n : x \in 1 .. k
  OBVIOUS
<1>2. \A p \in PartsTo(n) : p \in PartsTo(k)
  BY <1>1 DEF PartsTo
<1>3. \A b : IsTo(b, n) => IsTo(b, k)
  BY <1>2 DEF IsTo
<1> QED BY <1>1, <1>2, <1>3 DEF CarriedTo, AllTo

(* What a sequence holds with one entry more.                              *)
LEMMA Appended ==
    ASSUME NEW S, NEW s \in Seq(S), NEW e \in S
    PROVE  \A i \in DOMAIN Append(s, e) :
              Append(s, e)[i] = e \/ (i \in DOMAIN s /\ Append(s, e)[i] = s[i])
<1> DEFINE t == Append(s, e)
<1>1. /\ Len(s) \in Nat /\ DOMAIN s = 1 .. Len(s) /\ DOMAIN t = 1 .. Len(s) + 1
      /\ t[Len(s) + 1] = e
      /\ \A k \in 1 .. Len(s) : t[k] = s[k]
  OBVIOUS
<1> HIDE DEF t
<1>2. \A i \in DOMAIN t : i = Len(s) + 1 \/ i \in 1 .. Len(s)
  BY <1>1
<1>3. \A i \in DOMAIN t : t[i] = e \/ (i \in DOMAIN s /\ t[i] = s[i])
  BY <1>1, <1>2
<1> QED BY <1>3 DEF t

(* What a sequence holds behind its i-th entry.                            *)
LEMMA Rest ==
    ASSUME NEW S, NEW s \in Seq(S), NEW i \in DOMAIN s
    PROVE  /\ Len(SubSeq(s, i + 1, Len(s))) = Len(s) - i
           /\ \A k \in DOMAIN SubSeq(s, i + 1, Len(s)) :
                k + i \in DOMAIN s /\ SubSeq(s, i + 1, Len(s))[k] = s[k + i]
<1>1. Len(s) \in Nat /\ DOMAIN s = 1 .. Len(s) /\ i \in 1 .. Len(s)
  OBVIOUS
<1>2. /\ Len(SubSeq(s, i + 1, Len(s))) = Len(s) - i
      /\ DOMAIN SubSeq(s, i + 1, Len(s)) = 1 .. Len(s) - i
      /\ \A k \in 1 .. Len(s) - i : SubSeq(s, i + 1, Len(s))[k] = s[k + i]
  BY <1>1
<1>3. \A k \in 1 .. Len(s) - i : k + i \in 1 .. Len(s)
  BY <1>1
<1> QED BY <1>1, <1>2, <1>3

(* What two sequences hold together.                                       *)
LEMMA Joined ==
    ASSUME NEW S, NEW s \in Seq(S), NEW t \in Seq(S), NEW i \in DOMAIN (s \o t)
    PROVE  \/ i \in DOMAIN s /\ (s \o t)[i] = s[i]
           \/ i - Len(s) \in DOMAIN t /\ (s \o t)[i] = t[i - Len(s)]
<1>1. /\ i \in 1 .. Len(s) + Len(t) /\ Len(s) \in Nat /\ Len(t) \in Nat
      /\ DOMAIN s = 1 .. Len(s) /\ DOMAIN t = 1 .. Len(t)
      /\ i <= Len(s) => (s \o t)[i] = s[i]
      /\ i > Len(s) => (s \o t)[i] = t[i - Len(s)]
  OBVIOUS
<1>2. i <= Len(s) => i \in DOMAIN s
  BY <1>1
<1>3. i > Len(s) => i - Len(s) \in DOMAIN t
  BY <1>1
<1>4. i <= Len(s) \/ i > Len(s)
  BY <1>1
<1> QED BY <1>1, <1>2, <1>3, <1>4

(* What is posted to the main queue and what leaves it.                    *)
LEMMA MainTo ==
    ASSUME NEW n \in Nat, NEW m \in Seq(Blocks), AllTo(m, n)
    PROVE  /\ \A b \in Blocks : IsTo(b, n) => AllTo(Append(m, b), n)
           /\ m # <<>> => IsTo(Head(m), n) /\ AllTo(Tail(m), n)
           /\ \A t \in Seq(Blocks) : AllTo(t, n) => AllTo(m \o t, n)
<1>1. ASSUME NEW b \in Blocks, IsTo(b, n) PROVE AllTo(Append(m, b), n)
  <2>1. \A i \in DOMAIN Append(m, b) :
           Append(m, b)[i] = b \/ (i \in DOMAIN m /\ Append(m, b)[i] = m[i])
    BY Appended
  <2> QED BY <1>1, <2>1 DEF AllTo
<1>2. ASSUME m # <<>> PROVE IsTo(Head(m), n) /\ AllTo(Tail(m), n)
  <2>1. 1 \in DOMAIN m /\ Head(m) = m[1]
    BY <1>2
  <2>2. \A i \in DOMAIN Tail(m) : i + 1 \in DOMAIN m /\ Tail(m)[i] = m[i + 1]
    BY <1>2
  <2> QED BY <2>1, <2>2 DEF AllTo
<1>3. ASSUME NEW t \in Seq(Blocks), AllTo(t, n) PROVE AllTo(m \o t, n)
  <2>1. \A i \in DOMAIN (m \o t) :
          \/ i \in DOMAIN m /\ (m \o t)[i] = m[i]
          \/ i - Len(m) \in DOMAIN t /\ (m \o t)[i] = t[i - Len(m)]
    BY Joined
  <2> QED BY <1>3, <2>1 DEF AllTo
<1> QED BY <1>1, <1>2, <1>3

(* processNextRequest writes the request it makes current.                 *)
LEMMA NextTo ==
    ASSUME NEW n \in Nat, NEW q \in Seq(Requests), NEW cur, NEW s,
           NEW w \in Seq(Requests), \A i \in DOMAIN w : w[i] \in 1 .. n,
           content \subseteq 1 .. n, ProcessNextRequest(q, cur, s, w),
           currentRequest' = cur \/ currentRequest' \in 1 .. n
    PROVE  /\ \A i \in DOMAIN writes' : writes'[i] \in 1 .. n
           /\ content' \subseteq 1 .. n
<1>1. CASE q = <<>> \/ cur # NoRequest
  BY <1>1 DEF ProcessNextRequest
<1>2. CASE ~ (q = <<>> \/ cur # NoRequest)
  <2>1. /\ currentRequest' = Head(q) /\ writes' = Append(w, Head(q)) /\ content' = {}
        /\ cur = NoRequest /\ q # <<>>
    BY <1>2 DEF ProcessNextRequest
  <2>2. Head(q) \in Requests
    BY <2>1, HeadTailProperties
  <2>3. Head(q) \in 1 .. n
    <3>1. NoRequest \notin Requests
      BY DEF Requests, NoRequest
    <3> QED BY <2>1, <2>2, <3>1
  <2>4. \A i \in DOMAIN Append(w, Head(q)) :
           \/ Append(w, Head(q))[i] = Head(q)
           \/ i \in DOMAIN w /\ Append(w, Head(q))[i] = w[i]
    BY <2>2, Appended
  <2> QED BY <2>1, <2>3, <2>4
<1> QED BY <1>1, <1>2

(* Each step adds at most what the request being served then carries.      *)
LEMMA NoneLaterStep ==
    ASSUME IInv, IInv', NoneLater, [Next]_vars
    PROVE  NoneLater'
<1>1. Latest \in Nat /\ Latest' \in Nat /\ Latest <= Latest'
  BY LatestGrows
<1> PICK n \in Nat : n = Latest'
  BY <1>1
<1>2. /\ writes \in Seq(Requests) /\ wire \in Seq(Parts) /\ main \in Seq(Blocks)
      /\ content \in SUBSET Requests /\ reads \in Seq(Tags)
      /\ queue' \in Seq(Requests) /\ currentRequest' \in Requests \cup {NoRequest}
      /\ writes' \in Seq(Requests) /\ <<>> \in Seq(Blocks) /\ <<>> \in Seq(Requests)
      /\ DOMAIN <<>> = {}
  BY DEF IInv, TypeOK
<1>3. CarriedTo(n)
  BY <1>1, CarriedFurther DEF NoneLater
<1>4. /\ \A i \in DOMAIN writes : writes[i] \in 1 .. n
      /\ \A i \in DOMAIN wire : wire[i] \in PartsTo(n)
      /\ AllTo(main, n) /\ content \subseteq 1 .. n
  BY <1>3 DEF CarriedTo
<1>5. currentRequest' = NoRequest \/ currentRequest' \in 1 .. n
  BY <1>1, <1>2, CountsAssumption DEF Latest, Requests
<1> SUFFICES CarriedTo(n)'
  BY DEF NoneLater
<1>6. /\ \A i \in DOMAIN <<>> : <<>>[i] \in 1 .. n
      /\ \A i \in DOMAIN <<>> : <<>>[i] \in PartsTo(n)
      /\ AllTo(<<>>, n)
  BY DEF AllTo
<1>7. /\ IsTo(WriteBlock, n) /\ IsTo(ConnectBlock, n)
      /\ \A e \in BOOLEAN : IsTo(DisconnectBlock(e), n)
      /\ \A s \in {"connected", "disconnected"} : IsTo(TellBlock(s), n)
  BY StageBlocks DEF IsTo
<1>8. /\ \A b \in Blocks : IsTo(b, n) => AllTo(Append(main, b), n)
      /\ main # <<>> => IsTo(Head(main), n) /\ AllTo(Tail(main), n)
                        /\ Tail(main) \in Seq(Blocks)
      /\ \A t \in Seq(Blocks) : AllTo(t, n) => AllTo(main \o t, n)
  <2>1. main # <<>> => Tail(main) \in Seq(Blocks)
    BY <1>2, HeadTailProperties
  <2> QED BY <1>2, <1>4, <2>1, MainTo
<1>9. ASSUME NEW b \in Blocks, IsTo(b, n) PROVE <<b>> \in Seq(Blocks) /\ AllTo(<<b>>, n)
  <2>1. <<b>> \in Seq(Blocks) /\ DOMAIN <<b>> = {1} /\ <<b>>[1] = b
    OBVIOUS
  <2> QED BY <1>9, <2>1 DEF AllTo
<1>10. ASSUME main # <<>>, NEW s \in {"connected", "disconnected"}
       PROVE  /\ AllTo(Tail(main) \o ProcessConnect(s), n)
              /\ AllTo(Tail(main) \o <<>>, n)
  <2>1. ProcessConnect(s) \in Seq(Blocks) /\ AllTo(ProcessConnect(s), n)
    BY <1>7, <1>9, StageBlocks DEF ProcessConnect
  <2> QED BY <1>2, <1>6, <1>8, <1>10, <2>1, MainTo
<1>11. ASSUME NEW q, NEW w \in Seq(Requests), NEW s, NEW cur,
              \A i \in DOMAIN w : w[i] \in 1 .. n,
              ProcessNextRequest(q, cur, s, w), cur \in {NoRequest, currentRequest'}
       PROVE  /\ \A i \in DOMAIN writes' : writes'[i] \in 1 .. n
              /\ content' \subseteq 1 .. n
  <2>1. q \in Seq(Requests)
    BY <1>2, <1>11 DEF ProcessNextRequest
  <2> QED BY <1>4, <1>5, <1>11, <2>1, NextTo
<1>12. ASSUME NEW from, FinishCurrent(from)
       PROVE  /\ \A i \in DOMAIN writes' : writes'[i] \in 1 .. n
              /\ content' \subseteq 1 .. n
  <2>1. PICK q : ProcessNextRequest(q, NoRequest, sock, writes)
    BY <1>12 DEF FinishCurrent
  <2> QED BY <1>2, <1>4, <1>11, <2>1
<1>13. CASE SocketCloses(TRUE) \/ SocketCloses(FALSE)
  <2>1. \A e \in BOOLEAN : AllTo(Append(main, DisconnectBlock(e)), n)
    BY <1>7, <1>8, StageBlocks
  <2> QED BY <1>4, <1>6, <1>13, <2>1 DEF SocketCloses, CarriedTo, queueVars
<1>14. CASE SocketConnects
  <2>1. AllTo(Append(main, ConnectBlock), n)
    BY <1>7, <1>8, StageBlocks
  <2> QED BY <1>4, <1>14, <2>1 DEF SocketConnects, CarriedTo, queueVars
<1>15. CASE SocketWrites
  <2>1. AllTo(main', n)
    BY <1>7, <1>8, <1>15, StageBlocks DEF SocketWrites
  <2>2. PICK kind \in AnswerKinds : wire' = wire \o AnswerTo(Head(writes), kind)
    BY <1>15, AnswersAssumption DEF SocketWrites
  <2>3. writes # <<>> /\ writes' = Tail(writes) /\ content' = content
    BY <1>15 DEF SocketWrites, queueVars
  <2>4. /\ 1 \in DOMAIN writes /\ Head(writes) = writes[1]
        /\ \A i \in DOMAIN Tail(writes) :
              i + 1 \in DOMAIN writes /\ Tail(writes)[i] = writes[i + 1]
    BY <1>2, <2>3
  <2>5. \A i \in DOMAIN writes' : writes'[i] \in 1 .. n
    BY <1>4, <2>3, <2>4
  <2>6. \A i \in DOMAIN wire' : wire'[i] \in PartsTo(n)
    <3> DEFINE a == AnswerTo(Head(writes), kind)
    <3>1. Head(writes) \in 1 .. n /\ Head(writes) \in Requests
      BY <1>2, <1>4, <2>4
    <3>2. /\ HeaderOf(Head(writes), kind) \in PartsTo(n) \cap Parts
          /\ DataOf(Head(writes)) \in PartsTo(n) \cap Parts
      BY <3>1, StageBlocks DEF PartsTo, HeaderOf, DataOf
    <3>3. /\ a \in Seq(Parts)
          /\ \A i \in DOMAIN a : a[i] \in PartsTo(n)
      <4>1. a = IF kind = "empty" THEN <<HeaderOf(Head(writes), kind)>>
                ELSE <<HeaderOf(Head(writes), kind), DataOf(Head(writes))>>
        BY DEF AnswerTo, HeaderOf, DataOf
      <4> HIDE DEF a
      <4> QED BY <3>2, <4>1
    <3>4. wire' = wire \o a
      BY <2>2
    <3> HIDE DEF a
    <3>5. \A i \in DOMAIN (wire \o a) :
            \/ i \in DOMAIN wire /\ (wire \o a)[i] = wire[i]
            \/ i - Len(wire) \in DOMAIN a /\ (wire \o a)[i] = a[i - Len(wire)]
      BY <1>2, <3>3, Joined
    <3> QED BY <1>4, <3>3, <3>4, <3>5
  <2> QED BY <1>4, <2>1, <2>3, <2>5, <2>6 DEF CarriedTo
<1>16. CASE SocketReads
  <2>1. PICK i \in DOMAIN wire :
          /\ wire' = SubSeq(wire, i + 1, Len(wire))
          /\ main' = Append(main, ReadBlock(Head(reads), wire[i]))
    BY <1>16 DEF SocketReads
  <2>2. Head(reads) \in Tags /\ wire[i] \in Parts
    BY <1>2, <1>16, <2>1, HeadTailProperties DEF SocketReads
  <2>3. AllTo(main', n)
    <3>1. IsTo(ReadBlock(Head(reads), wire[i]), n)
      BY <1>4, <2>2, StageBlocks DEF IsTo
    <3> QED BY <1>8, <2>1, <2>2, <3>1, StageBlocks
  <2>4. \A k \in DOMAIN wire' : k + i \in DOMAIN wire /\ wire'[k] = wire[k + i]
    <3>1. \A k \in DOMAIN SubSeq(wire, i + 1, Len(wire)) :
             k + i \in DOMAIN wire /\ SubSeq(wire, i + 1, Len(wire))[k] = wire[k + i]
      <4>1. wire \in Seq(Parts)
        BY <1>2
      <4> QED BY <4>1, Rest, Zenon
    <3> QED BY <2>1, <3>1, Zenon
  <2> QED BY <1>4, <1>16, <2>3, <2>4 DEF SocketReads, CarriedTo, queueVars
<1>17. CASE DidDisconnect
  <2>1. FinishCurrent(content) /\ UNCHANGED wire /\ main # <<>>
    BY <1>17 DEF DidDisconnect
  <2>2. AllTo(main', n)
    BY <1>10, <1>17 DEF DidDisconnect
  <2> QED BY <1>4, <1>12, <2>1, <2>2 DEF CarriedTo
<1>18. CASE DidReadData
  <2> DEFINE part == Head(main).part
  <2>1. main # <<>> /\ AllTo(main', n) /\ UNCHANGED wire
    BY <1>8, <1>18 DEF DidReadData
  <2>2. part.req \in 1 .. n
    BY <1>8, <1>18, <2>1 DEF IsTo, PartsTo, DidReadData
  <2>3. \/ FinishCurrent({part.req})
        \/ UNCHANGED writes /\ content' \in {content, {}, content \cup {part.req}}
    BY <1>18 DEF DidReadData, DidReadHeader, queueVars
  <2> HIDE DEF part
  <2>4. CASE FinishCurrent({part.req})
    BY <1>4, <1>12, <2>1, <2>4 DEF CarriedTo
  <2>5. CASE UNCHANGED writes /\ content' \in {content, {}, content \cup {part.req}}
    BY <1>4, <2>1, <2>2, <2>5 DEF CarriedTo
  <2> QED BY <2>3, <2>4, <2>5
<1>19. CASE DidConnect
  <2>1. AllTo(main', n)
    BY <1>10, <1>19 DEF DidConnect
  <2> QED BY <1>4, <1>19, <2>1 DEF DidConnect, CarriedTo, queueVars, socketVars
<1>20. CASE DidWriteData \/ SocketConnect
  <2>1. AllTo(main', n)
    BY <1>8, <1>20 DEF DidWriteData, SocketConnect
  <2> QED BY <1>4, <1>20, <2>1
        DEF DidWriteData, SocketConnect, CarriedTo, queueVars, socketVars
<1>21. CASE RequestWithoutPurge
  <2>1. UNCHANGED <<wire, main>>
    BY <1>21 DEF RequestWithoutPurge
  <2>2. CASE queue = <<>>
    <3>1. ProcessNextRequest(<<issued + 1>>, currentRequest, sock, writes)
      BY <1>21, <2>2 DEF RequestWithoutPurge, AddHttpRequest
    <3>2. currentRequest = NoRequest
      BY <2>2 DEF IInv, QueueIsServed
    <3> QED BY <1>2, <1>4, <1>11, <2>1, <3>1, <3>2 DEF CarriedTo
  <2>3. CASE queue # <<>>
    BY <1>4, <1>21, <2>1, <2>3 DEF RequestWithoutPurge, AddHttpRequest, CarriedTo
  <2> QED BY <2>2, <2>3
<1>22. ASSUME NEW kept, NEW out \in BOOLEAN, ProcessDelayRequest(kept, out)
       PROVE  AllTo(main', n) /\ wire' = <<>>
  <2> DEFINE a == IF out THEN <<WriteBlock>> ELSE <<>>
             b == IF sock # "closed" \/ kept # <<>>
                  THEN <<DisconnectBlock(FALSE)>> ELSE <<>>
  <2>1. main' = main \o a \o b /\ wire' = <<>>
    BY <1>22 DEF ProcessDelayRequest
  <2>2. a \in Seq(Blocks) /\ AllTo(a, n) /\ b \in Seq(Blocks) /\ AllTo(b, n)
    <3>1. \A e \in BOOLEAN : /\ <<DisconnectBlock(e)>> \in Seq(Blocks)
                             /\ AllTo(<<DisconnectBlock(e)>>, n)
      BY <1>7, <1>9, StageBlocks
    <3>2. <<WriteBlock>> \in Seq(Blocks) /\ AllTo(<<WriteBlock>>, n)
      BY <1>7, <1>9, StageBlocks
    <3> QED BY <1>2, <1>6, <3>1, <3>2
  <2> HIDE DEF a, b
  <2>3. main \o a \in Seq(Blocks) /\ AllTo(main \o a, n)
    BY <1>2, <1>8, <2>2, ConcatProperties
  <2>4. AllTo((main \o a) \o b, n)
    BY <2>2, <2>3, MainTo
  <2> QED BY <2>1, <2>4
<1>23. CASE RequestAfterPurge
  <2>1. PICK kept \in {<<>>} \cup {<<r>> : r \in Requests}, out \in BOOLEAN :
          /\ ProcessDelayRequest(kept, out)
          /\ IF kept = <<>>
             THEN ProcessNextRequest(<<issued + 1>>, NoRequest, "closed", <<>>)
             ELSE /\ queue' = Append(kept, issued + 1)
                  /\ currentRequest' = Head(kept) /\ content' = {}
                  /\ sock' = "closed" /\ writes' = <<>>
    BY <1>23 DEF RequestAfterPurge
  <2>2. /\ \A i \in DOMAIN writes' : writes'[i] \in 1 .. n
        /\ content' \subseteq 1 .. n
    BY <1>2, <1>6, <1>11, <2>1
  <2> QED BY <1>6, <1>22, <2>1, <2>2 DEF CarriedTo
<1>24. CASE RequestGivesUp
  <2>1. PICK kept \in {<<>>} \cup {<<r>> : r \in Requests}, out \in BOOLEAN :
          ProcessDelayRequest(kept, out) /\ LeaveKept(kept)
    BY <1>24 DEF RequestGivesUp
  <2>2. writes' = <<>> /\ content' \in {content, {}}
    BY <2>1 DEF LeaveKept
  <2> QED BY <1>4, <1>6, <1>22, <2>1, <2>2 DEF CarriedTo
<1>25. CASE ConnectWithHost \/ CancelAll \/ UNCHANGED vars
  BY <1>4, <1>25
     DEF ConnectWithHost, CancelAll, vars, CarriedTo, queueVars, socketVars
<1> QED BY <1>13, <1>14, <1>15, <1>16, <1>17, <1>18, <1>19, <1>20, <1>21,
           <1>23, <1>24, <1>25
      DEF Next, Client, Request, MainQueue, ConnectEnds, WriteEnds, ReadEnds,
          Disconnect, ConnectFails, WriteTimesOut, ReadTimesOut, ServerCloses

-----------------------------------------------------------------------------
(* The exchange under way is that of the current request.                  *)

(* A block posted to the main queue.                                       *)
LEMMA CalmPosted ==
    ASSUME NEW m \in Seq(Blocks), NEW b \in Blocks
    PROVE  /\ Calm(m) => Only(Append(m, b), b)
           /\ Calm(m) /\ CalmBlock(b) => Calm(Append(m, b))
           /\ \A c : Only(m, c) /\ CalmBlock(b) => Only(Append(m, b), c)
<1> DEFINE n == Append(m, b)
<1>1. /\ DOMAIN n = 1 .. Len(m) + 1 /\ DOMAIN m = 1 .. Len(m) /\ Len(m) \in Nat
      /\ \A j \in DOMAIN m : n[j] = m[j]
      /\ n[Len(m) + 1] = b
  OBVIOUS
<1> HIDE DEF n
<1>2. /\ \A j \in DOMAIN n : j \in DOMAIN m \/ j = Len(m) + 1
      /\ \A j \in DOMAIN m : j \in DOMAIN n /\ j # Len(m) + 1
      /\ Len(m) + 1 \in DOMAIN n
  BY <1>1
<1>3. Calm(m) => Only(n, b)
  BY <1>1, <1>2 DEF Only, Calm
<1>4. Calm(m) /\ CalmBlock(b) => Calm(n)
  BY <1>1, <1>2 DEF Calm
<1>5. ASSUME NEW c, Only(m, c), CalmBlock(b) PROVE Only(n, c)
  <2>1. PICK k \in DOMAIN m : m[k] = c /\ \A j \in DOMAIN m : j # k => CalmBlock(m[j])
    BY <1>5 DEF Only
  <2>2. k \in DOMAIN n /\ n[k] = c
    BY <1>1, <1>2, <2>1
  <2>3. \A j \in DOMAIN n : j # k => CalmBlock(n[j])
    BY <1>1, <1>2, <1>5, <2>1
  <2> QED BY <2>2, <2>3 DEF Only
<1> QED BY <1>3, <1>4, <1>5 DEF n

(* A block taken from the main queue.                                      *)
LEMMA CalmTaken ==
    ASSUME NEW m \in Seq(Blocks), m # <<>>
    PROVE  /\ Calm(m) => CalmBlock(Head(m)) /\ Calm(Tail(m))
           /\ \A b : Only(m, b) /\ CalmBlock(Head(m)) /\ ~ CalmBlock(b)
                        => Only(Tail(m), b)
           /\ \A b : Only(m, b) /\ ~ CalmBlock(Head(m))
                        => Head(m) = b /\ Calm(Tail(m))
<1> DEFINE n == Tail(m)
<1>1. /\ Len(m) \in Nat /\ Len(m) >= 1 /\ DOMAIN m = 1 .. Len(m) /\ m[1] = Head(m)
      /\ DOMAIN n = 1 .. Len(m) - 1
      /\ \A j \in DOMAIN n : n[j] = m[j + 1]
  OBVIOUS
<1> HIDE DEF n
<1>2. /\ 1 \in DOMAIN m
      /\ \A j \in DOMAIN n : j + 1 \in DOMAIN m /\ j + 1 # 1
      /\ \A k \in DOMAIN m : k # 1 => k - 1 \in DOMAIN n /\ (k - 1) + 1 = k
      /\ \A j \in DOMAIN n, k \in DOMAIN m : j # k - 1 => j + 1 # k
  BY <1>1
<1>3. Calm(m) => CalmBlock(Head(m)) /\ Calm(n)
  BY <1>1, <1>2 DEF Calm
<1>4. ASSUME NEW b, Only(m, b), CalmBlock(Head(m)), ~ CalmBlock(b)
      PROVE  Only(n, b)
  <2>1. PICK k \in DOMAIN m : m[k] = b /\ \A j \in DOMAIN m : j # k => CalmBlock(m[j])
    BY <1>4 DEF Only
  <2>2. k # 1
    BY <1>1, <1>4, <2>1
  <2>3. k - 1 \in DOMAIN n /\ n[k - 1] = b
    BY <1>1, <1>2, <2>1, <2>2
  <2>4. \A j \in DOMAIN n : j # k - 1 => CalmBlock(n[j])
    BY <1>1, <1>2, <2>1
  <2> QED BY <2>3, <2>4 DEF Only
<1>5. ASSUME NEW b, Only(m, b), ~ CalmBlock(Head(m))
      PROVE  Head(m) = b /\ Calm(n)
  <2>1. PICK k \in DOMAIN m : m[k] = b /\ \A j \in DOMAIN m : j # k => CalmBlock(m[j])
    BY <1>5 DEF Only
  <2>2. k = 1
    BY <1>1, <1>2, <1>5, <2>1
  <2>3. \A j \in DOMAIN n : CalmBlock(n[j])
    BY <1>1, <1>2, <2>1, <2>2
  <2> QED BY <1>1, <2>1, <2>2, <2>3 DEF Calm
<1> QED BY <1>3, <1>4, <1>5 DEF n

(* A step of what concerns no exchange leaves the exchange where it is.    *)
LEMMA StageStays ==
    ASSUME UNCHANGED <<writes, reads, wire>>, Calm(main) => Calm(main'),
           \A b : Only(main, b) /\ ~ CalmBlock(b) => Only(main', b),
           NEW r \in Requests
    PROVE  (Idle => Idle') /\ (Exchange(r) => Exchange(r)')
<1>1. Idle => Idle'
  BY DEF Idle
<1>2. (ToWrite(r) => ToWrite(r)') /\ (Lost => Lost')
  BY DEF ToWrite, Lost
<1>3. ASSUME NEW b, ~ CalmBlock(b), NEW rest, Done(b, rest) PROVE Done(b, rest)'
  BY <1>3 DEF Done
<1>4. ASSUME NEW tag, NEW rest, ToRead(tag, rest) PROVE ToRead(tag, rest)'
  BY <1>4 DEF ToRead
<1>5. /\ ~ CalmBlock(WriteBlock)
      /\ \A tag \in Tags, p \in Parts : ~ CalmBlock(ReadBlock(tag, p))
  BY StageBlocks DEF CalmBlock
<1>6. ASSUME NEW tag \in {"body", "rest"}, WithData(r, tag) PROVE WithData(r, tag)'
  <2>1. ~ CalmBlock(ReadBlock(tag, DataOf(r)))
    BY <1>5, StageBlocks DEF Tags
  <2> QED BY <1>3, <1>4, <1>6, <2>1 DEF WithData
<1>7. ASSUME NEW kind \in AnswerKinds, WithHeader(r, kind) PROVE WithHeader(r, kind)'
  <2>1. ~ CalmBlock(ReadBlock("header", HeaderOf(r, kind)))
    BY <1>5, StageBlocks DEF Tags
  <2> QED BY <1>3, <1>4, <1>5, <1>7, <2>1 DEF WithHeader
<1> QED BY <1>1, <1>2, <1>6, <1>7 DEF Exchange

(* The connection goes down: what it had to do is gone.                    *)
LEMMA StageLost ==
    ASSUME writes' = <<>>, reads' = <<>>, wire' = <<>>, Calm(main) => Calm(main'),
           \A b : Only(main, b) /\ ~ CalmBlock(b) => Only(main', b),
           NEW r \in Requests
    PROVE  (Idle => Idle') /\ (Exchange(r) => Exchange(r)')
<1>1. Idle => Idle'
  BY DEF Idle
<1>2. ToWrite(r) \/ Lost => Lost'
  BY DEF ToWrite, Lost
<1>3. ASSUME NEW b, ~ CalmBlock(b), NEW rest, Done(b, rest) PROVE Done(b, rest)'
  BY <1>3 DEF Done
<1>4. ASSUME NEW tag, NEW rest, ToRead(tag, rest) PROVE Lost'
  BY <1>4 DEF ToRead, Lost
<1>5. /\ ~ CalmBlock(WriteBlock)
      /\ \A tag \in Tags, p \in Parts : ~ CalmBlock(ReadBlock(tag, p))
  BY StageBlocks DEF CalmBlock
<1>6. ASSUME NEW tag \in {"body", "rest"}, WithData(r, tag)
      PROVE  Lost' \/ WithData(r, tag)'
  <2>1. ~ CalmBlock(ReadBlock(tag, DataOf(r)))
    BY <1>5, StageBlocks DEF Tags
  <2> QED BY <1>3, <1>4, <1>6, <2>1 DEF WithData
<1>7. ASSUME NEW kind \in AnswerKinds, WithHeader(r, kind)
      PROVE  Lost' \/ WithHeader(r, kind)'
  <2>1. ~ CalmBlock(ReadBlock("header", HeaderOf(r, kind)))
    BY <1>5, StageBlocks DEF Tags
  <2> QED BY <1>3, <1>4, <1>5, <1>7, <2>1 DEF WithHeader
<1> QED BY <1>1, <1>2, <1>6, <1>7 DEF Exchange

(* Such steps keep the current request matched.                            *)
LEMMA CalmMatched ==
    ASSUME IInv, Matched, Calm(main) => Calm(main'),
           \A b : Only(main, b) /\ ~ CalmBlock(b) => Only(main', b),
           UNCHANGED <<currentRequest, content, astray>>,
           \/ UNCHANGED <<writes, reads, wire>>
           \/ writes' = <<>> /\ reads' = <<>> /\ wire' = <<>>
    PROVE  Matched'
<1>1. currentRequest \in Requests \cup {NoRequest}
  BY DEF IInv, TypeOK
<1>2. ASSUME NEW r \in Requests PROVE (Idle => Idle') /\ (Exchange(r) => Exchange(r)')
  <2>1. CASE UNCHANGED <<writes, reads, wire>>
    BY <2>1, StageStays
  <2>2. CASE writes' = <<>> /\ reads' = <<>> /\ wire' = <<>>
    BY <2>2, StageLost
  <2> QED BY <2>1, <2>2
<1>3. Idle => Idle'
  BY DEF Idle
<1>4. ASSUME NEW r \in Requests, r = currentRequest
      PROVE  Exchange(currentRequest) => Exchange(currentRequest)'
  <2>1. Exchange(r) => Exchange(r)'
    BY <1>2
  <2>2. r = currentRequest'
    BY <1>4
  <2> QED BY <1>4, <2>1, <2>2
<1> QED BY <1>1, <1>3, <1>4 DEF Matched

(* processNextRequest on a connection that has nothing to do.              *)
LEMMA NextMatched ==
    ASSUME NEW q \in Seq(Requests), NEW s, ProcessNextRequest(q, NoRequest, s, <<>>),
           Calm(main'), reads' = <<>>, wire' = <<>>
    PROVE  Matched'
<1>1. CASE q = <<>>
  <2>1. currentRequest' = NoRequest /\ writes' = <<>>
    BY <1>1 DEF ProcessNextRequest
  <2> QED BY <2>1 DEF Matched, Idle
<1>2. CASE q # <<>>
  <2>1. /\ currentRequest' = Head(q) /\ writes' = Append(<<>>, Head(q))
        /\ content' = {}
    BY <1>2 DEF ProcessNextRequest
  <2>2. Head(q) \in Requests /\ NoRequest \notin Requests
    <3>1. NoRequest \notin Requests
      BY DEF NoRequest, Requests
    <3> QED BY <1>2, <3>1, HeadTailProperties
  <2>3. Append(<<>>, Head(q)) = <<Head(q)>>
    OBVIOUS
  <2>4. Exchange(currentRequest)'
    BY <2>1, <2>3 DEF ToWrite, Exchange
  <2> QED BY <2>1, <2>2, <2>4 DEF Matched
<1> QED BY <1>1, <1>2

(* The end of an exchange whose connection has nothing left to do.         *)
LEMMA FinishMatched ==
    ASSUME IInv', NEW from, FinishCurrent(from), writes = <<>>,
           Calm(main'), reads' = <<>>, wire' = <<>>
    PROVE  Matched'
<1>1. PICK q : ProcessNextRequest(q, NoRequest, sock, <<>>)
  BY DEF FinishCurrent
<1>2. q \in Seq(Requests)
  BY <1>1 DEF ProcessNextRequest, IInv, TypeOK
<1> QED BY <1>1, <1>2, NextMatched

(* A handler takes its block and may tell of the connection.               *)
LEMMA Handled ==
    ASSUME main \in Seq(Blocks), main # <<>>,
           \/ main' = Tail(main) \/ main' = Tail(main) \o <<>>
           \/ \E s \in {"connected", "disconnected"} :
                 main' = Tail(main) \o ProcessConnect(s)
    PROVE  /\ Calm(Tail(main)) => Calm(main')
           /\ \A b : Only(Tail(main), b) => Only(main', b)
<1>1. Tail(main) \in Seq(Blocks) /\ Tail(main) \o <<>> = Tail(main)
  <2>1. Tail(main) \in Seq(Blocks)
    BY HeadTailProperties
  <2> QED BY <2>1, ConcatEmptySeq
<1>2. ASSUME NEW s \in {"connected", "disconnected"}
      PROVE  /\ Tail(main) \o ProcessConnect(s) = Append(Tail(main), TellBlock(s))
             /\ TellBlock(s) \in Blocks /\ CalmBlock(TellBlock(s))
  <2>1. TellBlock(s) \in Blocks /\ CalmBlock(TellBlock(s))
    BY StageBlocks
  <2> QED BY <1>1, <2>1 DEF ProcessConnect
<1>3. CASE main' = Tail(main)
  BY <1>3
<1>4. ASSUME NEW s \in {"connected", "disconnected"},
             main' = Tail(main) \o ProcessConnect(s)
      PROVE  /\ Calm(Tail(main)) => Calm(main')
             /\ \A b : Only(Tail(main), b) => Only(main', b)
  <2>1. main' = Append(Tail(main), TellBlock(s))
    BY <1>2, <1>4
  <2> QED BY <1>1, <1>2, <2>1, CalmPosted
<1> QED BY <1>1, <1>3, <1>4

(* The stage of an exchange is told by its block at the head of the main   *)
(* queue.                                                                  *)
LEMMA StageOfMain ==
    ASSUME main \in Seq(Blocks), main # <<>>, ~ CalmBlock(Head(main)),
           NEW r \in Requests, Exchange(r)
    PROVE  /\ writes = <<>> /\ reads = <<>> /\ Calm(Tail(main))
           /\ \/ \E kind \in AnswerKinds :
                    /\ Head(main) = WriteBlock
                    /\ wire = AnswerTo(r, kind) \/ wire = <<>>
              \/ \E kind \in AnswerKinds :
                    /\ Head(main) = ReadBlock("header", HeaderOf(r, kind))
                    /\ wire = Behind(r, kind) \/ wire = <<>>
              \/ /\ wire = <<>>
                 /\ \E tag \in {"body", "rest"} :
                       Head(main) = ReadBlock(tag, DataOf(r))
<1>1. /\ ~ Calm(main)
      /\ \A b : Only(main, b) => Head(main) = b /\ Calm(Tail(main))
  BY CalmTaken
<1>2. ASSUME NEW b, NEW rest, Done(b, rest)
      PROVE  /\ writes = <<>> /\ reads = <<>> /\ Calm(Tail(main))
             /\ Head(main) = b /\ (wire = rest \/ wire = <<>>)
  BY <1>1, <1>2 DEF Done
<1>3. \/ \E kind \in AnswerKinds : WithHeader(r, kind)
      \/ \E tag \in {"body", "rest"} : WithData(r, tag)
  BY <1>1 DEF Exchange, ToWrite, Lost
<1>4. ASSUME NEW kind \in AnswerKinds, WithHeader(r, kind)
      PROVE  \/ Done(WriteBlock, AnswerTo(r, kind))
             \/ Done(ReadBlock("header", HeaderOf(r, kind)), Behind(r, kind))
  BY <1>1, <1>4 DEF WithHeader, ToRead
<1>5. ASSUME NEW tag \in {"body", "rest"}, WithData(r, tag)
      PROVE  Done(ReadBlock(tag, DataOf(r)), <<>>)
  BY <1>1, <1>5 DEF WithData, ToRead
<1>6. CASE \E kind \in AnswerKinds : WithHeader(r, kind)
  <2>1. PICK kind \in AnswerKinds : WithHeader(r, kind)
    BY <1>6
  <2>2. CASE Done(WriteBlock, AnswerTo(r, kind))
    BY <1>2, <2>2
  <2>3. CASE Done(ReadBlock("header", HeaderOf(r, kind)), Behind(r, kind))
    BY <1>2, <2>3
  <2> QED BY <1>4, <2>1, <2>2, <2>3
<1>7. CASE \E tag \in {"body", "rest"} : WithData(r, tag)
  <2>1. PICK tag \in {"body", "rest"} : WithData(r, tag)
    BY <1>7
  <2>2. Done(ReadBlock(tag, DataOf(r)), <<>>)
    BY <1>5, <2>1
  <2> QED BY <1>2, <2>2
<1> QED BY <1>3, <1>6, <1>7

(* The head of the main queue belongs to the exchange of the current       *)
(* request, unless it is calm.                                             *)
LEMMA ServedIsCurrent ==
    ASSUME IInv, Matched, ~ astray, main # <<>>, ~ CalmBlock(Head(main))
    PROVE  /\ currentRequest \in Requests /\ Exchange(currentRequest)
           /\ content \subseteq {currentRequest} /\ main \in Seq(Blocks)
<1>1. /\ main \in Seq(Blocks)
      /\ currentRequest \in Requests \cup {NoRequest}
  BY DEF IInv, TypeOK
<1>2. ~ Idle
  BY <1>1, CalmTaken DEF Idle
<1> QED BY <1>1, <1>2 DEF Matched

(* The current request is that of the next stage, too.                     *)
LEMMA Moved ==
    ASSUME NEW r \in Requests, currentRequest' = r, content' \subseteq {r}, Exchange(r)'
    PROVE  Matched'
<1>1. Exchange(currentRequest)'
  BY Zenon
<1>2. r # NoRequest
  BY DEF Requests, NoRequest
<1> QED BY <1>1, <1>2 DEF Matched

(* What a read reads next: something, or nothing on a connection that is   *)
(* down or was.                                                            *)
LEMMA ReadsOn ==
    ASSUME DownIsIdle, reads = <<>>, NEW tag, reads' = Queued(sock, reads, tag),
           NEW rest, wire = rest \/ wire = <<>>, writes' = <<>>, Calm(main'),
           wire' = wire
    PROVE  ToRead(tag, rest)' \/ Lost'
<1>1. CASE wire = <<>>
  BY <1>1 DEF Lost
<1>2. CASE wire # <<>>
  <2>1. sock # "closed"
    BY <1>2 DEF DownIsIdle
  <2>2. reads' = <<tag>>
    BY <2>1 DEF Queued
  <2> QED BY <1>2, <2>2 DEF ToRead
<1> QED BY <1>1, <1>2

LEMMA WriteMatched ==
    ASSUME IInv, AnswersInv, ~ astray, DidWriteData
    PROVE  Matched'
<1>1. /\ main # <<>> /\ Head(main) = WriteBlock /\ main' = Tail(main)
      /\ reads' = Queued(sock, reads, "header")
      /\ UNCHANGED <<currentRequest, content, writes, wire>>
  BY DEF DidWriteData, queueVars
<1>2. ~ CalmBlock(Head(main))
  BY <1>1, StageBlocks DEF CalmBlock
<1>3. PICK r \in Requests : /\ r = currentRequest /\ Exchange(r)
                            /\ content \subseteq {r} /\ main \in Seq(Blocks)
  BY <1>1, <1>2, ServedIsCurrent DEF AnswersInv
<1>4. /\ writes = <<>> /\ reads = <<>> /\ Calm(Tail(main))
      /\ \/ \E kind \in AnswerKinds :
              /\ Head(main) = WriteBlock
              /\ wire = AnswerTo(r, kind) \/ wire = <<>>
         \/ \E kind \in AnswerKinds :
              Head(main) = ReadBlock("header", HeaderOf(r, kind))
         \/ \E tag \in {"body", "rest"} : Head(main) = ReadBlock(tag, DataOf(r))
  BY <1>1, <1>2, <1>3, StageOfMain
<1>5. PICK kind \in AnswerKinds : wire = AnswerTo(r, kind) \/ wire = <<>>
  <2>1. /\ WriteBlock.event # "read"
        /\ \A k \in AnswerKinds : ReadBlock("header", HeaderOf(r, k)).event = "read"
        /\ \A tag \in {"body", "rest"} : ReadBlock(tag, DataOf(r)).event = "read"
    BY StageBlocks DEF Tags
  <2> QED BY <1>1, <1>4, <2>1
<1>6. ToRead("header", AnswerTo(r, kind))' \/ Lost'
  <2> DEFINE a == AnswerTo(r, kind)
  <2> HIDE DEF a
  <2>1. wire = a \/ wire = <<>>
    BY <1>5 DEF a
  <2>2. ToRead("header", a)' \/ Lost'
    BY <1>1, <1>4, <2>1, ReadsOn DEF AnswersInv
  <2> QED BY <2>2 DEF a, AnswerTo
<1>7. Exchange(r)'
  BY <1>6 DEF Exchange, WithHeader
<1> QED BY <1>1, <1>3, <1>7, Moved

LEMMA ReadMatched ==
    ASSUME IInv, IInv', AnswersInv, ~ astray, DidReadData
    PROVE  Matched'
<1> DEFINE part == Head(main).part
           tag == Head(main).tag
<1>1. /\ main # <<>> /\ Head(main).event = "read" /\ main' = Tail(main)
      /\ UNCHANGED wire
  BY DEF DidReadData
<1>2. ~ CalmBlock(Head(main))
  BY <1>1 DEF CalmBlock
<1>3. PICK r \in Requests : /\ r = currentRequest /\ Exchange(r)
                            /\ content \subseteq {r} /\ main \in Seq(Blocks)
  BY <1>1, <1>2, ServedIsCurrent DEF AnswersInv
<1>4. /\ writes = <<>> /\ reads = <<>> /\ Calm(main')
      /\ \/ \E kind \in AnswerKinds :
              /\ Head(main) = ReadBlock("header", HeaderOf(r, kind))
              /\ wire = Behind(r, kind) \/ wire = <<>>
         \/ /\ wire = <<>>
            /\ \E t \in {"body", "rest"} : Head(main) = ReadBlock(t, DataOf(r))
  <2>1. Head(main) # WriteBlock
    BY <1>1, StageBlocks
  <2> QED BY <1>1, <1>2, <1>3, <2>1, StageOfMain
<1>5. ASSUME NEW from, FinishCurrent(from), UNCHANGED reads, wire = <<>>
      PROVE  Matched'
  BY <1>1, <1>4, <1>5, FinishMatched
<1>6. ASSUME NEW t \in {"body", "rest"}, NEW rest, wire = rest \/ wire = <<>>,
             reads' = Queued(sock, reads, t),
             UNCHANGED <<currentRequest, writes>>, content' \subseteq {r},
             rest = <<DataOf(r)>> \/ rest = <<>>
      PROVE  Matched'
  <2>1. ToRead(t, rest)' \/ Lost'
    BY <1>1, <1>4, <1>6, ReadsOn DEF AnswersInv
  <2>2. rest = <<>> /\ ToRead(t, rest)' => Lost'
    BY DEF ToRead, Lost
  <2>3. rest = <<DataOf(r)>> /\ ToRead(t, rest)' => WithData(r, t)'
    BY DEF WithData, ToRead, DataOf
  <2>4. Exchange(r)'
    BY <1>6, <2>1, <2>2, <2>3 DEF Exchange
  <2> QED BY <1>3, <1>6, <2>4, Moved
<1>7. ASSUME NEW kind \in AnswerKinds,
             Head(main) = ReadBlock("header", HeaderOf(r, kind)),
             wire = Behind(r, kind) \/ wire = <<>>
      PROVE  Matched'
  <2>1. part.req = r /\ part.is = kind /\ tag = "header" /\ kind # "data"
    BY <1>7, StageBlocks DEF Tags, AnswerKinds
  <2>2. DidReadHeader(part)
    BY <2>1 DEF DidReadData
  <2> HIDE DEF part
  <2>3. CASE kind = "counted"
    <3>1. reads' = Queued(sock, reads, "body") /\ UNCHANGED <<queueVars, writes>>
      BY <2>1, <2>2, <2>3 DEF DidReadHeader
    <3>2. Behind(r, kind) = <<DataOf(r)>>
      BY <2>3 DEF Behind
    <3> QED BY <1>3, <1>6, <1>7, <3>1, <3>2 DEF queueVars
  <2>4. CASE kind = "uncounted"
    <3>1. /\ reads' = Queued(sock, reads, "rest") /\ content' = {}
          /\ UNCHANGED <<currentRequest, writes>>
      BY <2>1, <2>2, <2>4 DEF DidReadHeader
    <3>2. Behind(r, kind) = <<DataOf(r)>>
      BY <2>4 DEF Behind
    <3> QED BY <1>6, <1>7, <3>1, <3>2
  <2>5. CASE kind = "empty"
    <3>1. FinishCurrent({part.req}) /\ UNCHANGED reads
      BY <2>1, <2>2, <2>5 DEF DidReadHeader
    <3>2. wire = <<>>
      BY <1>7, <2>5 DEF Behind
    <3> QED BY <1>5, <3>1, <3>2
  <2> QED BY <2>3, <2>4, <2>5 DEF AnswerKinds
<1>8. ASSUME Head(main) = ReadBlock("body", DataOf(r)), wire = <<>>
      PROVE  Matched'
  <2>1. tag = "body"
    BY <1>8, StageBlocks DEF Tags
  <2>2. FinishCurrent({part.req}) /\ UNCHANGED reads
    BY <2>1 DEF DidReadData
  <2> QED BY <1>5, <1>8, <2>2
<1>9. ASSUME Head(main) = ReadBlock("rest", DataOf(r)), wire = <<>>
      PROVE  Matched'
  <2>1. part.req = r /\ tag = "rest"
    BY <1>9, StageBlocks DEF Tags
  <2>2. /\ content' = content \cup {r}
        /\ reads' = Queued(sock, reads, "rest")
        /\ UNCHANGED <<currentRequest, writes>>
    BY <2>1 DEF DidReadData
  <2> QED BY <1>3, <1>6, <1>9, <2>2
<1> QED BY <1>4, <1>7, <1>8, <1>9

(* A disconnect puts matters straight, or may leave an answer astray.      *)
LEMMA DisconnectMatched ==
    ASSUME IInv, IInv', AnswersInv, DidDisconnect
    PROVE  Matched'
<1>1. /\ main # <<>> /\ Head(main).event = "disconnect" /\ FinishCurrent(content)
      /\ UNCHANGED <<reads, wire>> /\ astray' = StaysAstray
      /\ \/ main' = Tail(main) \o <<>>
         \/ main' = Tail(main) \o ProcessConnect("disconnected")
  BY DEF DidDisconnect
<1>2. main \in Seq(Blocks) /\ queue \in Seq(Requests)
  BY DEF IInv, TypeOK
<1>3. /\ Calm(Tail(main)) => Calm(main')
      /\ \A b : Only(Tail(main), b) => Only(main', b)
  BY <1>1, <1>2, Handled
<1>4. CASE Straight
  <2>1. Calm(Tail(main))
    <3>1. \A j \in DOMAIN Tail(main) :
             j + 1 \in 2 .. Len(main) /\ Tail(main)[j] = main[j + 1]
      BY <1>1, <1>2
    <3> QED BY <1>4, <3>1 DEF Straight, Calm, CalmBlock
  <2>2. writes = <<>> /\ reads = <<>> /\ wire = <<>>
    BY <1>4 DEF Straight, AnswersInv, DownIsIdle
  <2> QED BY <1>1, <1>3, <2>1, <2>2, FinishMatched
<1>5. CASE ~ Straight /\ (astray \/ currentRequest # NoRequest)
  BY <1>1, <1>5 DEF StaysAstray, Matched
<1>6. CASE ~ Straight /\ ~ astray /\ currentRequest = NoRequest
  <2>1. Idle
    BY <1>6 DEF AnswersInv, Matched
  <2>2. Calm(main')
    BY <1>1, <1>2, <1>3, <2>1, CalmTaken DEF Idle
  <2> QED BY <1>1, <2>1, <2>2, FinishMatched DEF Idle
<1> QED BY <1>4, <1>5, <1>6

(* The second entry of two is the rest of them.                            *)
LEMMA SecondOfTwo ==
    ASSUME NEW a, NEW b
    PROVE  SubSeq(<<a, b>>, 2, 2) = <<b>>
<1>1. <<a, b>> \in Seq({a, b}) /\ <<a, b>> # <<>> /\ Len(<<a, b>>) = 2
  OBVIOUS
<1>2. Tail(<<a, b>>) = SubSeq(<<a, b>>, 2, 2)
  BY <1>1, TailIsSubSeq
<1>3. Tail(<<a, b>>) = <<b>>
  OBVIOUS
<1> QED BY <1>2, <1>3

(* What the socket reads is of the exchange under way.                     *)
LEMMA SocketReadsMatched ==
    ASSUME IInv, AnswersInv, ~ astray, SocketReads
    PROVE  Matched'
<1>1. /\ reads # <<>> /\ reads' = Tail(reads)
      /\ UNCHANGED <<currentRequest, content, writes>>
  BY DEF SocketReads, queueVars
<1>2. PICK i \in DOMAIN wire :
        /\ ReadsPart(i)
        /\ wire' = SubSeq(wire, i + 1, Len(wire))
        /\ main' = Append(main, ReadBlock(Head(reads), wire[i]))
  BY DEF SocketReads
<1>3. /\ main \in Seq(Blocks) /\ wire \in Seq(Parts) /\ wire # <<>>
      /\ currentRequest \in Requests \cup {NoRequest}
  BY <1>2 DEF IInv, TypeOK
<1>4. PICK r \in Requests : /\ r = currentRequest /\ Exchange(r)
                            /\ content \subseteq {r}
  BY <1>1, <1>3 DEF AnswersInv, Matched, Idle
<1>5. \/ \E kind \in AnswerKinds : ToRead("header", AnswerTo(r, kind))
      \/ \E tag \in {"body", "rest"} : ToRead(tag, <<DataOf(r)>>)
  BY <1>1, <1>3, <1>4 DEF Exchange, ToWrite, Lost, WithHeader, WithData, Done
<1>6. ASSUME NEW tag \in Tags, NEW p \in Parts, NEW rest, Calm(main), writes = <<>>,
             reads = <<tag>>, wire[i] = p, SubSeq(wire, i + 1, Len(wire)) = rest
      PROVE  Done(ReadBlock(tag, p), rest)'
  <2>1. ReadBlock(tag, p) \in Blocks /\ main' = Append(main, ReadBlock(tag, p))
    BY <1>2, <1>6, StageBlocks
  <2>2. Only(main', ReadBlock(tag, p))
    BY <1>3, <1>6, <2>1, CalmPosted
  <2>3. reads' = <<>> /\ wire' = rest /\ writes' = <<>>
    BY <1>1, <1>2, <1>6
  <2> QED BY <2>2, <2>3 DEF Done
<1>7. ASSUME NEW p, wire = <<p>>
      PROVE  i = 1 /\ wire[i] = p /\ SubSeq(wire, i + 1, Len(wire)) = <<>>
  <2>1. i = 1 /\ Len(wire) = 1
    BY <1>7
  <2> QED BY <1>7, <2>1
<1>8. ASSUME NEW kind \in AnswerKinds, ToRead("header", AnswerTo(r, kind))
      PROVE  Matched'
  <2>1. /\ reads = <<"header">> /\ wire = AnswerTo(r, kind) /\ Head(reads) = "header"
        /\ Calm(main) /\ writes = <<>>
    BY <1>8 DEF ToRead
  <2>2. HeaderOf(r, kind) \in Parts /\ HeaderOf(r, kind).is # "data"
    BY StageBlocks DEF AnswerKinds
  <2>3. /\ wire[i] = HeaderOf(r, kind)
        /\ SubSeq(wire, i + 1, Len(wire)) = Behind(r, kind)
    <3>1. CASE kind = "empty"
      BY <1>7, <2>1, <3>1 DEF AnswerTo, HeaderOf, Behind
    <3>2. CASE kind # "empty"
      <4>1. wire = <<HeaderOf(r, kind), DataOf(r)>>
        BY <2>1, <3>2 DEF AnswerTo, HeaderOf, DataOf
      <4>2. wire[1] = HeaderOf(r, kind) /\ Len(wire) = 2 /\ DOMAIN wire = 1 .. 2
        BY <4>1
      <4>3. \A j \in DOMAIN wire : j < i => wire[j].is = "data"
        BY <1>2, <2>1 DEF ReadsPart
      <4>4. i = 1
        <5>1. i \in 1 .. 2 /\ 1 \in DOMAIN wire
          BY <4>2
        <5> QED BY <2>2, <4>2, <4>3, <5>1
      <4>5. SubSeq(wire, 2, 2) = <<DataOf(r)>>
        BY <4>1, SecondOfTwo
      <4> QED BY <3>2, <4>2, <4>4, <4>5 DEF Behind
    <3> QED BY <3>1, <3>2
  <2>4. Done(ReadBlock("header", HeaderOf(r, kind)), Behind(r, kind))'
    <3>1. "header" \in Tags
      BY DEF Tags
    <3> QED BY <1>6, <2>1, <2>2, <2>3, <3>1 DEF HeaderOf, Behind, DataOf
  <2>5. Exchange(r)'
    BY <2>4 DEF Exchange, WithHeader
  <2> QED BY <1>1, <1>4, <2>5, Moved
<1>9. ASSUME NEW tag \in {"body", "rest"}, ToRead(tag, <<DataOf(r)>>)
      PROVE  Matched'
  <2>1. /\ DataOf(r) \in Parts /\ tag \in Tags
        /\ reads = <<tag>> /\ wire = <<DataOf(r)>> /\ Calm(main) /\ writes = <<>>
    BY <1>9, StageBlocks DEF ToRead, Tags
  <2>2. Done(ReadBlock(tag, DataOf(r)), <<>>)'
    BY <1>6, <1>7, <2>1 DEF DataOf
  <2>3. Exchange(r)'
    BY <2>2 DEF Exchange, WithData
  <2> QED BY <1>1, <1>4, <2>3, Moved
<1> QED BY <1>5, <1>8, <1>9

(* Every step keeps bytes and request matched, or says that they may not be*)
LEMMA MatchedStep ==
    ASSUME IInv, IInv', AnswersInv, [Next]_vars
    PROVE  Matched'
<1>1. main \in Seq(Blocks) /\ Matched
  BY DEF IInv, TypeOK, AnswersInv
<1>2. ASSUME NEW c \in Blocks, CalmBlock(c), main' = Append(main, c),
             UNCHANGED <<currentRequest, content, astray>>,
             \/ UNCHANGED <<writes, reads, wire>>
             \/ writes' = <<>> /\ reads' = <<>> /\ wire' = <<>>
      PROVE  Matched'
  BY <1>1, <1>2, CalmPosted, CalmMatched
<1>3. CASE SocketCloses(TRUE) \/ SocketCloses(FALSE)
  <2>1. PICK e \in BOOLEAN : SocketCloses(e)
    BY <1>3
  <2>2. DisconnectBlock(e) \in Blocks /\ CalmBlock(DisconnectBlock(e))
    BY StageBlocks
  <2> QED BY <1>2, <2>1, <2>2 DEF SocketCloses, queueVars
<1>4. CASE SocketConnects
  <2>1. ConnectBlock \in Blocks /\ CalmBlock(ConnectBlock)
    BY StageBlocks
  <2> QED BY <1>2, <1>4, <2>1 DEF SocketConnects, queueVars
<1>5. CASE ConnectWithHost \/ UNCHANGED vars
  BY <1>1, <1>5, CalmMatched DEF ConnectWithHost, vars, queueVars, socketVars
<1>6. CASE DidConnect \/ SocketConnect
  <2>1. main # <<>> /\ CalmBlock(Head(main))
    BY <1>6, StageBlocks DEF DidConnect, SocketConnect, CalmBlock
  <2>2. /\ \/ main' = Tail(main) \/ main' = Tail(main) \o <<>>
           \/ main' = Tail(main) \o ProcessConnect("connected")
        /\ UNCHANGED <<currentRequest, content, astray, writes, reads, wire>>
    BY <1>6 DEF DidConnect, SocketConnect, queueVars, socketVars
  <2>3. /\ Calm(Tail(main)) => Calm(main')
        /\ \A b : Only(Tail(main), b) => Only(main', b)
    BY <1>1, <2>1, <2>2, Handled
  <2>4. /\ Calm(main) => Calm(Tail(main))
        /\ \A b : Only(main, b) /\ ~ CalmBlock(b) => Only(Tail(main), b)
    BY <1>1, <2>1, CalmTaken
  <2> QED BY <1>1, <2>2, <2>3, <2>4, CalmMatched
<1>7. CASE astray'
  BY <1>7 DEF Matched
<1>8. CASE CancelAll
  <2>1. /\ currentRequest' = NoRequest /\ UNCHANGED <<main, writes, reads, wire>>
        /\ astray' = (astray \/ currentRequest # NoRequest)
    BY <1>8 DEF CancelAll, socketVars
  <2>2. CASE currentRequest = NoRequest /\ ~ astray
    BY <1>1, <2>1, <2>2 DEF Matched, Idle
  <2> QED BY <1>7, <2>1, <2>2
<1>9. CASE DidDisconnect
  BY <1>9, DisconnectMatched
<1>10. ASSUME UNCHANGED astray, ~ astray => Matched' PROVE Matched'
  BY <1>7, <1>10
<1>11. CASE DidWriteData
  BY <1>10, <1>11, WriteMatched DEF DidWriteData
<1>12. CASE DidReadData
  BY <1>10, <1>12, ReadMatched DEF DidReadData
<1>13. CASE SocketReads
  BY <1>10, <1>13, SocketReadsMatched DEF SocketReads
<1>14. CASE SocketWrites
  <2>1. /\ writes # <<>> /\ writes' = Tail(writes) /\ main' = Append(main, WriteBlock)
        /\ UNCHANGED <<currentRequest, content, reads, astray>>
    BY <1>14 DEF SocketWrites, queueVars
  <2>2. PICK kind \in AnswerKinds : wire' = wire \o AnswerTo(Head(writes), kind)
    BY <1>14, AnswersAssumption DEF SocketWrites
  <2> SUFFICES ASSUME ~ astray PROVE Matched'
    BY <1>10, <2>1
  <2>3. PICK r \in Requests : /\ r = currentRequest /\ Exchange(r)
                              /\ content \subseteq {r}
    BY <1>1, <2>1 DEF Matched, Idle, IInv, TypeOK
  <2>4. ToWrite(r)
    BY <2>1, <2>3 DEF Exchange, Lost, WithData, WithHeader, Done, ToRead
  <2>5. Only(main', WriteBlock)
    BY <1>1, <2>1, <2>4, StageBlocks, CalmPosted DEF ToWrite
  <2>6. writes' = <<>> /\ Head(writes) = r /\ reads' = <<>>
    BY <2>1, <2>4 DEF ToWrite
  <2>7. wire' = AnswerTo(r, kind)
    <3>1. AnswerTo(r, kind) \in Seq(Parts)
      BY StageBlocks DEF AnswerTo, HeaderOf, DataOf
    <3> QED BY <2>2, <2>4, <2>6, <3>1, ConcatEmptySeq DEF ToWrite
  <2>8. Done(WriteBlock, AnswerTo(r, kind))'
    BY <2>5, <2>6, <2>7 DEF Done, AnswerTo
  <2>9. Exchange(r)'
    BY <2>8 DEF Exchange, WithHeader
  <2> QED BY <2>1, <2>3, <2>9, Moved
<1>15. CASE RequestWithoutPurge
  <2>1. /\ UNCHANGED <<reads, wire, main, astray>>
        /\ AddHttpRequest(queue, currentRequest, issued + 1, sock, writes)
    BY <1>15 DEF RequestWithoutPurge
  <2>2. CASE queue # <<>>
    <3>1. UNCHANGED <<currentRequest, writes, content>>
      BY <2>1, <2>2 DEF AddHttpRequest
    <3> QED BY <1>1, <2>1, <3>1, CalmMatched
  <2>3. CASE queue = <<>>
    <3> SUFFICES ASSUME ~ astray PROVE Matched'
      BY <1>10, <2>1
    <3>1. currentRequest = NoRequest
      BY <2>3 DEF IInv, QueueIsServed
    <3>2. Idle
      BY <1>1, <3>1 DEF Matched
    <3>3. PICK q : q = <<issued + 1>> /\ ProcessNextRequest(q, NoRequest, sock, <<>>)
      BY <2>1, <2>3, <3>1, <3>2 DEF AddHttpRequest, Idle
    <3>4. q \in Seq(Requests)
      BY <3>3 DEF ProcessNextRequest, IInv, TypeOK
    <3>5. Calm(main') /\ reads' = <<>> /\ wire' = <<>>
      BY <2>1, <3>2 DEF Idle
    <3> QED BY <3>3, <3>4, <3>5, NextMatched
  <2> QED BY <2>2, <2>3
<1>16. CASE RequestAfterPurge \/ RequestGivesUp
  BY <1>7, <1>16 DEF RequestAfterPurge, RequestGivesUp
<1> QED BY <1>3, <1>4, <1>5, <1>6, <1>8, <1>9, <1>11, <1>12, <1>13, <1>14,
           <1>15, <1>16
      DEF Next, Client, Request, MainQueue, ConnectEnds, WriteEnds, ReadEnds,
          Disconnect, ConnectFails, WriteTimesOut, ReadTimesOut, ServerCloses

(* The invariant holds at first, when nothing is under way, and later.     *)
LEMMA AnswersInvAlways == Spec => []AnswersInv
<1>1. Init => AnswersInv
  <2> SUFFICES ASSUME Init PROVE AnswersInv
    OBVIOUS
  <2>1. /\ main = <<>> /\ writes = <<>> /\ reads = <<>> /\ wire = <<>>
        /\ content = {} /\ currentRequest = NoRequest
    BY DEF Init
  <2>2. DOMAIN <<>> = {}
    OBVIOUS
  <2> QED BY <2>1, <2>2
        DEF AnswersInv, DownIsIdle, NoneLater, CarriedTo, AllTo, Matched, Idle, Calm
<1>2. IInv /\ IInv' /\ AnswersInv /\ [Next]_vars => AnswersInv'
  <2> SUFFICES ASSUME IInv, IInv', AnswersInv, [Next]_vars PROVE AnswersInv'
    OBVIOUS
  <2>1. DownIsIdle'
    BY DownStep DEF IInv, AnswersInv
  <2>2. NoneLater'
    BY NoneLaterStep DEF AnswersInv
  <2>3. Matched'
    BY MatchedStep
  <2> QED BY <2>1, <2>2, <2>3 DEF AnswersInv
<1> QED BY <1>1, <1>2, Inductive, PTL DEF Spec

(* What a handler gives a completion is of the request it completes, or of *)
(* one before it.                                                          *)
LEMMA GivenAnswers ==
    ASSUME IInv, AnswersInv, NEW from \in SUBSET Requests, FinishCurrent(from),
           from \subseteq 1 .. Latest,
           ~ astray /\ currentRequest # NoRequest => from \subseteq {currentRequest},
           NEW r \in Requests, answer'[r] # answer[r]
    PROVE  answer'[r] \subseteq IF astray THEN 1 .. r ELSE {r}
<1>1. currentRequest # NoRequest
  BY DEF FinishCurrent, historyVars
<1>2. answer' = [answer EXCEPT ![currentRequest] = from]
  BY <1>1 DEF FinishCurrent
<1>3. answer \in [Requests -> SUBSET Requests]
  BY DEF IInv, TypeOK
<1>4. r = currentRequest /\ answer'[r] = from
  BY <1>2, <1>3
<1>5. from \subseteq 1 .. r
  BY <1>1, <1>4 DEF Latest
<1> QED BY <1>1, <1>4, <1>5

(* A completion carries the answer to its own request, whatever fails and  *)
(* is lost, unless since the connection was last down for good a request   *)
(* was forgotten or ended by an earlier connection's disconnect; then it   *)
(* may carry answers of earlier requests, never of later ones.             *)
THEOREM AnswersAreMatched == Spec => AnswersMatch
<1> DEFINE Given == \A r \in Requests :
                       answer'[r] # answer[r] =>
                          answer'[r] \subseteq IF astray THEN 1 .. r ELSE {r}
<1>1. IInv /\ AnswersInv /\ [Next]_vars => [Given]_vars
  <2> SUFFICES ASSUME IInv, AnswersInv, [Next]_vars PROVE Given
    OBVIOUS
  <2>1. CASE UNCHANGED answer
    BY <2>1
  <2>2. CASE DidDisconnect
    <3>1. FinishCurrent(content) /\ content \in SUBSET Requests
      BY <2>2 DEF DidDisconnect, IInv, TypeOK
    <3>2. /\ content \subseteq 1 .. Latest
          /\ ~ astray /\ currentRequest # NoRequest => content \subseteq {currentRequest}
      BY DEF AnswersInv, NoneLater, CarriedTo, Matched
    <3> QED BY <3>1, <3>2, GivenAnswers
  <2>3. CASE DidReadData
    <3> DEFINE part == Head(main).part
    <3>1. main # <<>> /\ Head(main).event = "read" /\ main \in Seq(Blocks)
      BY <2>3 DEF DidReadData, IInv, TypeOK
    <3>2. FinishCurrent({part.req}) \/ UNCHANGED answer
      BY <2>3 DEF DidReadData, DidReadHeader, historyVars
    <3>3. {part.req} \in SUBSET Requests
      BY <3>1, HeadTailProperties, BlockFields DEF Parts
    <3>4. {part.req} \subseteq 1 .. Latest
      <4>1. IsTo(Head(main), Latest)
        <5>1. 1 \in DOMAIN main /\ Head(main) = main[1]
          BY <3>1
        <5> QED BY <5>1 DEF AnswersInv, NoneLater, CarriedTo, AllTo
      <4> QED BY <3>1, <4>1 DEF IsTo, PartsTo
    <3>5. ~ astray => {part.req} \subseteq {currentRequest}
      <4> SUFFICES ASSUME ~ astray PROVE part.req = currentRequest
        OBVIOUS
      <4>1. ~ CalmBlock(Head(main))
        BY <3>1 DEF CalmBlock
      <4>2. PICK r \in Requests : r = currentRequest /\ Exchange(r)
        BY <3>1, <4>1, ServedIsCurrent DEF AnswersInv
      <4>3. \/ Head(main) = WriteBlock
            \/ \E kind \in AnswerKinds :
                  Head(main) = ReadBlock("header", HeaderOf(r, kind))
            \/ \E tag \in {"body", "rest"} : Head(main) = ReadBlock(tag, DataOf(r))
        BY <3>1, <4>1, <4>2, StageOfMain
      <4> QED BY <3>1, <4>2, <4>3, StageBlocks DEF Tags
    <3> HIDE DEF part
    <3> QED BY <3>2, <3>3, <3>4, <3>5, GivenAnswers
  <2>4. CASE ~ (DidDisconnect \/ DidReadData)
    <3>1. UNCHANGED answer
      BY <2>4
         DEF Next, vars, Client, Request, ConnectWithHost, CancelAll, Disconnect,
             MainQueue, DidConnect, DidWriteData, SocketConnect, ConnectEnds,
             SocketConnects, ConnectFails, WriteEnds, SocketWrites,
             WriteTimesOut, ReadEnds, SocketReads, ReadTimesOut, ServerCloses,
             SocketCloses, historyVars
    <3> QED BY <3>1
  <2> QED BY <2>2, <2>3, <2>4
<1> QED BY <1>1, Inductive, AnswersInvAlways, PTL DEF Spec, AnswersMatch
=============================================================================
