-------------------- MODULE SocketHttpsControllerProofs ---------------------
(***************************************************************************)
(* Theorems about SocketHttpsController, for every number of requests,     *)
(* every kind of answer and every set of faults.                           *)
(***************************************************************************)
EXTENDS SocketHttpsController, SequenceTheorems, FiniteSetTheorems, TLAPS

(* The waiting requests: each queue is in the order they were made, and    *)
(* the current request is at the head of one of them.                      *)
Sorted(q) == \A i, j \in DOMAIN q : i < j => q[i] < q[j]
Ordinary(r) == cmd[r] \in LoginCmds \ IcamCmds
Queues ==
    /\ Sorted(queue) /\ Sorted(priorityQueue)
    /\ \A r \in Requests : r <= issued <=> cmd[r] # "none"
    /\ \A i \in DOMAIN queue : Ordinary(queue[i])
    /\ \A i \in DOMAIN priorityQueue : cmd[priorityQueue[i]] \in IcamCmds
    /\ \A i \in DOMAIN writes : writes[i] = TLS \/ cmd[writes[i]] # "none"
Served ==
    \/ queue = <<>> /\ priorityQueue = <<>> /\ currentRequest = NoRequest
    \/ queue # <<>> /\ currentRequest = Head(queue)
    \/ priorityQueue # <<>> /\ currentRequest = Head(priorityQueue)

(* Room is kept for the logins that waiting requests may make.             *)
RoomIsKept == issued + Owed <= MaxRequests

(* A connection that was started with a request to write never gets as far *)
(* as TLS: nothing waits for a connection that does.                       *)
Fresh == sock \in {"connecting", "connected"} /\ writes = <<>>
Handshakes == sock = "connected" /\ writes # <<>> /\ Head(writes) = TLS

Connects ==
    /\ sock # "secured" => wire = <<>>
    /\ sock = "closed" => writes = <<>>
    /\ Fresh =>
         /\ currentRequest = NoRequest /\ reads = <<>>
         /\ main = IF sock = "connecting" THEN <<>> ELSE <<ConnectBlock>>
    /\ sock = "connecting" /\ writes # <<>> => Head(writes) # TLS
    /\ Handshakes /\ ~ cancelled =>
         /\ main = <<>> /\ reads = <<"tls">>
         /\ writes = IF currentRequest = NoRequest THEN <<TLS>>
                     ELSE <<TLS, currentRequest>>

(* The stages of an exchange over a secured connection.                    *)
(* Stream: on the wire the bytes a header announces come next.  Whole: the *)
(* answer to request c, and nothing else.  LeftBy: what its header leaves. *)
Stream(w) ==
    \A i \in DOMAIN w : w[i].is = "counted" =>
        i + 1 \in DOMAIN w /\ w[i + 1].req = w[i].req
Whole(w, c) ==
    /\ Len(w) \in 1 .. 2 /\ w[1].is # "data" /\ w[1].req = c
    /\ w[1].is = "counted" => Len(w) = 2
    /\ w[1].is = "empty" => Len(w) = 1
LeftBy(w, part) ==
    /\ part.is # "data"
    /\ part.is = "counted" => Len(w) = 1
    /\ part.is = "empty" => w = <<>>

Idle ==
    /\ currentRequest = NoRequest
    /\ writes = <<>> /\ reads = <<>> /\ main = <<>>
    /\ Stream(wire) /\ (~ bodyLeft => wire = <<>>)
ToWrite ==
    /\ currentRequest # NoRequest
    /\ writes = <<currentRequest>> /\ reads = <<>> /\ main = <<>>
    /\ Stream(wire) /\ (~ bodyLeft => wire = <<>>)
Written ==
    /\ currentRequest # NoRequest
    /\ writes = <<>> /\ reads = <<>> /\ main = <<WriteBlock>>
    /\ Stream(wire) /\ (~ bodyLeft => Whole(wire, currentRequest))
HeaderDue ==
    /\ currentRequest # NoRequest
    /\ writes = <<>> /\ reads = <<"header">> /\ main = <<>>
    /\ Stream(wire) /\ (~ bodyLeft => Whole(wire, currentRequest))
HeaderRead ==
    /\ currentRequest # NoRequest
    /\ writes = <<>> /\ reads = <<>> /\ Len(main) = 1
    /\ main[1].event = "read" /\ main[1].tag = "header"
    /\ Stream(wire)
    /\ main[1].part.is = "counted" =>
         1 \in DOMAIN wire /\ wire[1].req = main[1].part.req
    /\ ~ bodyLeft => LeftBy(wire, main[1].part)
BodyDue ==
    /\ currentRequest # NoRequest
    /\ writes = <<>> /\ reads = <<"body">> /\ main = <<>>
    /\ Stream(wire)
    /\ 1 \in DOMAIN wire /\ wire[1].req = currentResponseHeader.req
    /\ ~ bodyLeft => /\ currentResponseHeader.req = currentRequest
                     /\ Len(wire) = 1
BodyRead ==
    /\ currentRequest # NoRequest
    /\ writes = <<>> /\ reads = <<>> /\ Len(main) = 1
    /\ main[1].event = "read" /\ main[1].tag = "body"
    /\ Stream(wire) /\ (~ bodyLeft => wire = <<>>)
Exchange ==
    sock = "secured" /\ ~ cancelled =>
        \/ Idle \/ ToWrite \/ Written \/ HeaderDue \/ HeaderRead
        \/ BodyDue \/ BodyRead

(* What the main queue is told of is one answer, body after header, and    *)
(* until a body is left on the wire that to the current request.           *)
IsRead(i) == main[i].event = "read"
AnswerIsOwn ==
    ~ cancelled =>
        \A i \in DOMAIN main : IsRead(i) =>
            /\ i = 1
            /\ main[1].tag = "body" =>
                 main[1].part.req = currentResponseHeader.req
            /\ ~ bodyLeft => main[1].part.req = currentRequest

(* A body is read after its header.                                        *)
HeaderFirst ==
    /\ \A i \in DOMAIN reads :
          reads[i] = "body" => currentResponseHeader # NoHeader
    /\ \A i \in DOMAIN main : IsRead(i) /\ main[i].tag = "body" =>
          currentResponseHeader # NoHeader

(* The logins on their way, from the one whose cookie is kept to those     *)
(* that wait, are in the order in which they were made.                    *)
IsAccepted(i) ==
    /\ main[i].event = "read" /\ main[i].tag = "header"
    /\ main[i].part.status = "accepted"
WillBeAccepted(i) == wire[i].status = "accepted"
IsLogin(i) == writes[i] # TLS /\ cmd[writes[i]] \in {"login", "again"}

MainLogins ==
    [i \in DOMAIN main |-> IF IsAccepted(i) THEN main[i].part.req ELSE 0]
WireLogins ==
    [i \in DOMAIN wire |-> IF WillBeAccepted(i) THEN wire[i].req ELSE 0]
WriteLogins == [i \in DOMAIN writes |-> IF IsLogin(i) THEN writes[i] ELSE 0]
HeaderLogin ==
    IF currentResponseHeader.status = "accepted"
    THEN {currentResponseHeader.req} ELSE {}

Found(f) == {f[i] : i \in DOMAIN f} \ {0}
Ascending(f) ==
    \A i, j \in DOMAIN f : i < j /\ f[i] # 0 /\ f[j] # 0 => f[i] <= f[j]

Precede(s, t) == \A a \in s, b \in t : a <= b
Chain(c, h, m, w, r, q, n) ==
    /\ Precede(c, h \cup m \cup w \cup r \cup q \cup {n})
    /\ Precede(h, m \cup w \cup r \cup q \cup {n})
    /\ Precede(m, w \cup r \cup q \cup {n})
    /\ Precede(w, r \cup q \cup {n})
    /\ Precede(r, q \cup {n})
    /\ Precede(q, {n})
Logins ==
    /\ Chain({userDefalutsCookie}, HeaderLogin, Found(MainLogins),
             Found(WireLogins), Found(WriteLogins), ToSet(queue), issued)
    /\ Ascending(MainLogins) /\ Ascending(WireLogins)
    /\ Ascending(WriteLogins)

IInv ==
    /\ TypeOK /\ Queues /\ Served /\ RoomIsKept
    /\ Connects /\ Exchange /\ AnswerIsOwn /\ AnswersMatch
    /\ HeaderFirst /\ Logins

-----------------------------------------------------------------------------
(* Sequences and the queues.                                               *)

(* What a sequence is after one more element.                              *)
LEMMA AppendShape ==
    ASSUME NEW S, NEW s \in Seq(S), NEW x \in S
    PROVE  /\ Append(s, x) \in Seq(S) /\ Append(s, x) # <<>>
           /\ Len(Append(s, x)) = Len(s) + 1 /\ Len(s) \in Nat
           /\ DOMAIN s = 1 .. Len(s)
           /\ DOMAIN Append(s, x) = 1 .. Len(s) + 1
           /\ \A k \in DOMAIN s : k \in DOMAIN Append(s, x) /\ Append(s, x)[k] = s[k]
           /\ Append(s, x)[Len(s) + 1] = x
OBVIOUS

(* What it is without the first.                                           *)
LEMMA TailShape ==
    ASSUME NEW S, NEW s \in Seq(S), s # <<>>
    PROVE  /\ Tail(s) \in Seq(S) /\ Len(Tail(s)) = Len(s) - 1 /\ Len(s) \in Nat \ {0}
           /\ DOMAIN s = 1 .. Len(s) /\ DOMAIN Tail(s) = 1 .. Len(s) - 1
           /\ 1 \in DOMAIN s /\ Head(s) = s[1] /\ s[1] \in S
           /\ \A k \in DOMAIN Tail(s) : k + 1 \in DOMAIN s /\ Tail(s)[k] = s[k + 1]
           /\ \A k \in DOMAIN s : k # 1 => k - 1 \in DOMAIN Tail(s) /\ Tail(s)[k - 1] = s[k]
OBVIOUS

(* A sequence of one element, with one more.                               *)
LEMMA AppendOne ==
    ASSUME NEW S, NEW x \in S, NEW y \in S
    PROVE  Append(<<x>>, y) = <<x, y>>
<1>1. <<x>> \in Seq(S) /\ <<x, y>> \in Seq(S)
  OBVIOUS
<1>2. Append(<<x>>, y) \in Seq(S)
  BY <1>1, AppendShape
<1>3. /\ Len(Append(<<x>>, y)) = 2 /\ Append(<<x>>, y)[1] = x
      /\ Append(<<x>>, y)[2] = y
  BY <1>1, AppendShape
<1>4. Len(<<x, y>>) = 2 /\ <<x, y>>[1] = x /\ <<x, y>>[2] = y
  OBVIOUS
<1> DEFINE u == Append(<<x>>, y)
           v == <<x, y>>
<1>5. u \in Seq(S) /\ v \in Seq(S) /\ Len(u) = 2 /\ Len(v) = 2
      /\ u[1] = v[1] /\ u[2] = v[2]
  BY <1>1, <1>2, <1>3, <1>4
<1> HIDE DEF u, v
<1>6. \A i \in 1 .. Len(u) : u[i] = v[i]
  BY <1>5
<1>7. u = v
  BY <1>5, <1>6, SeqEqual
<1> QED BY <1>7 DEF u, v

(* The head of a priority queue and an ordinary one, one after the other.  *)
LEMMA HeadOfBoth ==
    ASSUME NEW p \in Seq(Requests), NEW q \in Seq(Requests)
    PROVE  /\ p \o q = <<>> <=> p = <<>> /\ q = <<>>
           /\ p # <<>> => Head(p \o q) = Head(p) /\ Head(p) \in Requests
           /\ q # <<>> => Head(q) \in Requests
           /\ p = <<>> => Head(p \o q) = Head(q)
<1>1. p \o q \in Seq(Requests) /\ Len(p \o q) = Len(p) + Len(q)
      /\ Len(p) \in Nat /\ Len(q) \in Nat
      /\ \A i \in 1 .. Len(p) + Len(q) :
            (p \o q)[i] = IF i <= Len(p) THEN p[i] ELSE q[i - Len(p)]
  BY ConcatProperties, LenProperties
<1>2. p = <<>> <=> Len(p) = 0
  BY EmptySeq
<1>3. p # <<>> => p \o q # <<>>
  BY ConcatEqualIffEmpty
<1>4. p # <<>> => Head(p) = p[1] /\ p[1] \in Requests
  BY TailShape
<1>5. q # <<>> => Head(q) = q[1] /\ q[1] \in Requests
  BY TailShape
<1>6. p # <<>> => Head(p \o q) = p[1]
  <2> SUFFICES ASSUME p # <<>> PROVE Head(p \o q) = p[1]
    OBVIOUS
  <2>1. p \o q # <<>> /\ Len(p) >= 1
    BY <1>1, <1>2, <1>3
  <2>2. Head(p \o q) = (p \o q)[1]
    BY <1>1, <2>1, TailShape
  <2> QED BY <1>1, <2>1, <2>2
<1>7. p = <<>> => p \o q = q
  BY ConcatEmptySeq
<1>8. p \o q = <<>> <=> p = <<>> /\ q = <<>>
  BY ConcatEqualIffEmpty
<1> QED BY <1>4, <1>5, <1>6, <1>7, <1>8

(* Removing the first of a sorted queue leaves its tail; removing what it  *)
(* does not hold leaves the queue.                                         *)
LEMMA RemoveHead ==
    ASSUME NEW q \in Seq(Requests), q # <<>>, Sorted(q)
    PROVE  /\ RemoveHttpRequest(q, Head(q)) = Tail(q)
           /\ Head(q) \notin ToSet(Tail(q))
<1> USE BoundAssumption DEF Requests
<1>1. 1 \in DOMAIN q /\ q[1] = Head(q) /\ Len(q) >= 1 /\ Len(q) \in Nat
      /\ DOMAIN q = 1 .. Len(q)
  BY TailShape
<1>2. ASSUME NEW i \in DOMAIN q, q[i] = Head(q)
      PROVE  i = 1
  <2>1. q[i] \in Nat /\ q[1] \in Nat /\ i \in 1 .. Len(q)
    BY <1>1
  <2>2. ~ (1 < i)
    <3>1. 1 < i => q[1] < q[i]
      BY <1>1 DEF Sorted
    <3> QED BY <1>1, <1>2, <2>1, <3>1
  <2> QED BY <2>1, <2>2
<1>3. (CHOOSE i \in DOMAIN q : q[i] = Head(q)) = 1
  BY <1>1, <1>2
<1>4. RemoveHttpRequest(q, Head(q)) = RemoveAt(q, 1)
  BY <1>1, <1>3 DEF RemoveHttpRequest, ToSet
<1>5. RemoveAt(q, 1) = SubSeq(q, 1, 0) \o SubSeq(q, 2, Len(q))
  BY DEF RemoveAt
<1>6. SubSeq(q, 1, 0) = <<>>
  BY SubSeqEmpty
<1>7. SubSeq(q, 2, Len(q)) = Tail(q)
  BY TailIsSubSeq
<1>8. Tail(q) \in Seq(Requests)
  BY TailShape
<1>9. <<>> \o Tail(q) = Tail(q)
  BY <1>8, ConcatEmptySeq
<1>10. Head(q) \notin ToSet(Tail(q))
  <2> SUFFICES ASSUME NEW k \in DOMAIN Tail(q), Tail(q)[k] = Head(q)
               PROVE  FALSE
    BY DEF ToSet
  <2>1. k + 1 \in DOMAIN q /\ q[k + 1] = Head(q) /\ k \in Nat \ {0}
    BY TailShape
  <2> QED BY <1>2, <2>1
<1> QED BY <1>4, <1>5, <1>6, <1>7, <1>9, <1>10

(* Removing a request a queue does not hold leaves it as it is.            *)
LEMMA RemoveAbsent ==
    ASSUME NEW q, NEW r, r \notin ToSet(q)
    PROVE  RemoveHttpRequest(q, r) = q
BY DEF RemoveHttpRequest

-----------------------------------------------------------------------------
(* What the handlers do to the queues.                                     *)

(* No request was current: the next one is served, if any waits.           *)
Serves ==
    \/ /\ queue' = <<>> /\ priorityQueue' = <<>>
       /\ currentRequest' = NoRequest /\ sock' = sock /\ writes' = writes
    \/ /\ \/ priorityQueue' # <<>> /\ currentRequest' = Head(priorityQueue')
          \/ /\ priorityQueue' = <<>> /\ queue' # <<>>
             /\ currentRequest' = Head(queue')
       /\ currentRequest' \in Requests
       /\ sock' = Started(sock) /\ writes' = Append(writes, currentRequest')

(* Whatever ends a request, the head of what is left is served next. *)
LEMMA NextServes ==
    ASSUME NEW q \in Seq(Requests), NEW p \in Seq(Requests),
           ProcessNextRequest(q, p, NoRequest, sock, writes)
    PROVE  queue' = q /\ priorityQueue' = p /\ Serves
<1>1. queue' = q /\ priorityQueue' = p
  BY DEF ProcessNextRequest
<1>2. CASE p = <<>> /\ q = <<>>
  BY <1>1, <1>2, HeadOfBoth DEF ProcessNextRequest, Serves
<1>3. CASE ~ (p = <<>> /\ q = <<>>)
  <2>1. /\ currentRequest' = Head(p \o q)
        /\ sock' = Started(sock) /\ writes' = Append(writes, Head(p \o q))
    BY <1>3, HeadOfBoth DEF ProcessNextRequest, NoRequest
  <2> QED BY <1>1, <1>3, <2>1, HeadOfBoth DEF Serves
<1> QED BY <1>1, <1>2, <1>3

(* A request made joins the queue of its command, and is served when it    *)
(* waits alone.                                                            *)
Joins(c) ==
    /\ issued' = issued + 1 /\ issued + 1 \in Requests
    /\ cmd' = [cmd EXCEPT ![issued + 1] = c]
    /\ IF c \in PriorityCmds
       THEN /\ queue' = queue
            /\ priorityQueue' = Append(priorityQueue, issued + 1)
       ELSE /\ queue' = Append(queue, issued + 1)
            /\ priorityQueue' = priorityQueue
    /\ IF currentRequest = NoRequest
       THEN /\ queue = <<>> /\ priorityQueue = <<>>
            /\ currentRequest' = issued + 1
            /\ sock' = Started(sock) /\ writes' = Append(writes, issued + 1)
       ELSE UNCHANGED <<currentRequest, sock, writes>>

(* A new request joins one of the two lists at its end, and is served if it is alone. *)
LEMMA RequestJoins ==
    ASSUME TypeOK, Served, NEW c \in LoginCmds, Request(c)
    PROVE  Joins(c)
<1> DEFINE r == issued + 1
           q == IF c \in PriorityCmds THEN queue ELSE Append(queue, r)
           p == IF c \in PriorityCmds THEN Append(priorityQueue, r)
                ELSE priorityQueue
<1>1. r \in Requests /\ issued' = r /\ cmd' = [cmd EXCEPT ![r] = c]
  BY BoundAssumption DEF Request, TypeOK, Requests
<1>2. queue \in Seq(Requests) /\ priorityQueue \in Seq(Requests)
  BY DEF TypeOK
<1>3. q \in Seq(Requests) /\ p \in Seq(Requests)
  BY <1>1, <1>2, AppendShape
<1>4. IF KicksOff(q, p)
      THEN ProcessNextRequest(q, p, currentRequest, sock, writes)
      ELSE /\ queue' = q /\ priorityQueue' = p
           /\ UNCHANGED <<currentRequest, sock, writes>>
  BY DEF Request, AddHttpRequest
<1>5. queue' = q /\ priorityQueue' = p
  BY <1>4 DEF ProcessNextRequest
<1>6. CASE currentRequest = NoRequest
  <2>1. queue = <<>> /\ priorityQueue = <<>>
    <3>1. NoRequest \notin Requests
      BY DEF NoRequest, Requests
    <3> QED BY <1>2, <1>6, <3>1, TailShape DEF Served
  <2>2. Append(<<>>, r) = <<r>> /\ Len(<<r>>) = 1 /\ Head(<<r>>) = r
        /\ <<r>> # <<>> /\ Len(<<>>) = 0
    OBVIOUS
  <2>3. IF c \in PriorityCmds THEN q = <<>> /\ p = <<r>>
        ELSE q = <<r>> /\ p = <<>>
    BY <2>1, <2>2
  <2>4. KicksOff(q, p)
    BY <2>2, <2>3 DEF KicksOff
  <2>5. ProcessNextRequest(q, p, NoRequest, sock, writes)
    BY <1>4, <1>6, <2>4
  <2>6. Serves
    BY <1>3, <2>5, NextServes
  <2>7. /\ currentRequest' = r
        /\ sock' = Started(sock) /\ writes' = Append(writes, r)
    BY <1>5, <2>2, <2>3, <2>6 DEF Serves
  <2> QED BY <1>1, <1>5, <1>6, <2>1, <2>7 DEF Joins
<1>7. CASE currentRequest # NoRequest
  <2>1. UNCHANGED <<currentRequest, sock, writes>>
    BY <1>4, <1>7 DEF ProcessNextRequest
  <2> QED BY <1>1, <1>5, <1>7, <2>1 DEF Joins
<1> QED BY <1>6, <1>7

(* The elements and the order of a queue with one more or one less.        *)
LEMMA QueueAppend ==
    ASSUME NEW q \in Seq(Requests), NEW x \in Requests, Sorted(q),
           \A i \in DOMAIN q : q[i] < x
    PROVE  Sorted(Append(q, x)) /\ ToSet(Append(q, x)) = ToSet(q) \cup {x}
<1> DEFINE t == Append(q, x)
<1>1. /\ DOMAIN q = 1 .. Len(q) /\ Len(q) \in Nat /\ DOMAIN t = 1 .. Len(q) + 1
      /\ t[Len(q) + 1] = x /\ \A k \in DOMAIN q : k \in DOMAIN t /\ t[k] = q[k]
  BY AppendShape
<1> HIDE DEF t
<1>2. Len(q) + 1 \in DOMAIN t
      /\ \A k \in DOMAIN t : k \in DOMAIN q \/ k = Len(q) + 1
  BY <1>1
<1>3. Sorted(t)
  <2> SUFFICES ASSUME NEW i \in DOMAIN t, NEW j \in DOMAIN t, i < j
               PROVE  t[i] < t[j]
    BY DEF Sorted
  <2>1. i \in DOMAIN q
    BY <1>1
  <2>2. j \in DOMAIN q => q[i] < q[j]
    BY <2>1 DEF Sorted
  <2> QED BY <1>1, <1>2, <2>1, <2>2
<1>4. ToSet(t) = ToSet(q) \cup {x}
  BY <1>1, <1>2 DEF ToSet
<1> QED BY <1>3, <1>4 DEF t

(* Without its first entry an ordered list is ordered and holds the others. *)
LEMMA QueueTail ==
    ASSUME NEW q \in Seq(Requests), q # <<>>, Sorted(q)
    PROVE  /\ Sorted(Tail(q)) /\ ToSet(Tail(q)) = ToSet(q) \ {Head(q)}
           /\ Head(q) \in ToSet(q)
           /\ \A k \in DOMAIN Tail(q) : Tail(q)[k] \in ToSet(q)
<1> DEFINE t == Tail(q)
<1>1. /\ Len(q) \in Nat \ {0}
      /\ DOMAIN q = 1 .. Len(q) /\ DOMAIN t = 1 .. Len(q) - 1
      /\ 1 \in DOMAIN q /\ Head(q) = q[1]
      /\ \A k \in DOMAIN t : k + 1 \in DOMAIN q /\ t[k] = q[k + 1]
      /\ \A k \in DOMAIN q : k # 1 => k - 1 \in DOMAIN t /\ t[k - 1] = q[k]
  BY TailShape
<1>2. Head(q) \notin ToSet(t)
  BY RemoveHead
<1> HIDE DEF t
<1>3. Sorted(t)
  <2> SUFFICES ASSUME NEW i \in DOMAIN t, NEW j \in DOMAIN t, i < j
               PROVE  t[i] < t[j]
    BY DEF Sorted
  <2>1. i + 1 < j + 1
    BY <1>1
  <2> QED BY <1>1, <2>1 DEF Sorted
<1>4. ToSet(t) \subseteq ToSet(q)
  BY <1>1 DEF ToSet
<1>5. \A x \in ToSet(q) : x = Head(q) \/ x \in ToSet(t)
  BY <1>1 DEF ToSet
<1>6. Head(q) \in ToSet(q)
  BY <1>1 DEF ToSet
<1>7. \A k \in DOMAIN t : t[k] \in ToSet(q)
  BY <1>1 DEF ToSet
<1> QED BY <1>2, <1>3, <1>4, <1>5, <1>6, <1>7 DEF t

(* The requests that wait with a command.                                  *)
Asking(c) == {r \in Waiting : cmd[r] = c}

(* The waiting requests are finitely many. *)
LEMMA WaitingIsFinite ==
    ASSUME TypeOK
    PROVE  /\ Waiting \subseteq Requests
           /\ \A c : IsFiniteSet(Asking(c)) /\ Cardinality(Asking(c)) \in Nat
           /\ \A c : Asking(c) # {} => Cardinality(Asking(c)) >= 1
           /\ Owed = 2 * Cardinality(Asking("session"))
                         + Cardinality(Asking("login"))
<1>1. Waiting \subseteq Requests
  <2>1. ToSet(queue) \subseteq Requests
    BY DEF TypeOK, ToSet
  <2>2. ToSet(priorityQueue) \subseteq Requests
    BY DEF TypeOK, ToSet
  <2> QED BY <2>1, <2>2 DEF Waiting
<1>2. IsFiniteSet(Requests)
  BY BoundAssumption, FS_Interval DEF Requests
<1>3. \A c : IsFiniteSet(Asking(c))
  BY <1>1, <1>2, FS_Subset DEF Asking
<1>4. \A c : Cardinality(Asking(c)) \in Nat
  BY <1>3, FS_CardinalityType
<1>5. \A c : Asking(c) # {} => Cardinality(Asking(c)) # 0
  BY <1>3, FS_EmptySet
<1>6. \A c : Asking(c) # {} => Cardinality(Asking(c)) >= 1
  BY <1>4, <1>5
<1>7. Owed = 2 * Cardinality(Asking("session")) + Cardinality(Asking("login"))
  BY DEF Owed, Asking
<1> QED BY <1>1, <1>3, <1>4, <1>6, <1>7

(* The current request waits, and the commands tell the queues apart.      *)
LEMMA CurrentWaits ==
    ASSUME TypeOK, Served, Queues
    PROVE  /\ currentRequest = NoRequest <=> Waiting = {}
           /\ currentRequest = NoRequest <=> queue = <<>> /\ priorityQueue = <<>>
           /\ currentRequest # NoRequest => currentRequest \in Waiting
           /\ ToSet(queue) \cap ToSet(priorityQueue) = {}
           /\ \A r \in Waiting : r <= issued /\ r \in Requests
<1>1. NoRequest \notin Requests
  BY DEF NoRequest, Requests
<1>2. \A q \in Seq(Requests) : q # <<>> => Head(q) \in ToSet(q) /\ Head(q) \in Requests
  BY TailShape DEF ToSet
<1>3. ToSet(<<>>) = {}
  BY DEF ToSet
<1>4. queue \in Seq(Requests) /\ priorityQueue \in Seq(Requests)
  BY DEF TypeOK
<1>5. \A r \in ToSet(queue) : Ordinary(r)
  BY DEF Queues, ToSet
<1>6. \A r \in ToSet(priorityQueue) : cmd[r] \in IcamCmds
  BY DEF Queues, ToSet
<1>7. ToSet(queue) \cap ToSet(priorityQueue) = {}
  BY <1>5, <1>6 DEF Ordinary
<1>8. \A r \in Waiting : r <= issued /\ r \in Requests
  <2> SUFFICES ASSUME NEW r \in Waiting PROVE r <= issued /\ r \in Requests
    OBVIOUS
  <2>1. r \in Requests
    BY WaitingIsFinite
  <2>2. cmd[r] # "none"
    BY <1>5, <1>6, CmdsAssumption DEF Waiting, Ordinary, LoginCmds, IcamCmds
  <2> QED BY <2>1, <2>2 DEF Queues
<1>9. CASE queue = <<>> /\ priorityQueue = <<>> /\ currentRequest = NoRequest
  <2>1. Waiting = {}
    BY <1>9, <1>3 DEF Waiting
  <2> QED BY <1>7, <1>8, <1>9, <2>1
<1>10. CASE queue # <<>> /\ currentRequest = Head(queue)
  <2>1. currentRequest \in Waiting /\ currentRequest \in Requests
    BY <1>2, <1>4, <1>10 DEF Waiting
  <2> QED BY <1>1, <1>7, <1>8, <1>10, <2>1
<1>11. CASE priorityQueue # <<>> /\ currentRequest = Head(priorityQueue)
  <2>1. currentRequest \in Waiting /\ currentRequest \in Requests
    BY <1>2, <1>4, <1>11 DEF Waiting
  <2> QED BY <1>1, <1>7, <1>8, <1>11, <2>1
<1> QED BY <1>9, <1>10, <1>11 DEF Served

(* The requests a completion makes, and the room kept for them.            *)
LEMMA NestedShape ==
    ASSUME TypeOK, Served, Queues, RoomIsKept
    PROVE  \/ Nested = <<>>
           \/ /\ \/ Nested = <<"login">> /\ cmd[currentRequest] = "session"
                 \/ Nested = <<"again">> /\ cmd[currentRequest] = "login"
              /\ currentRequest # NoRequest /\ issued + 1 \in Requests
<1>1. CASE Nested = <<>>
  BY <1>1
<1>2. CASE Nested # <<>>
  <2>1. Completes /\ Nested = Follows(cmd[currentRequest], GivenHeader)
    BY <1>2 DEF Nested
  <2>2. currentRequest # NoRequest
    BY <2>1 DEF Completes
  <2>3. \/ Nested = <<"login">> /\ cmd[currentRequest] = "session"
        \/ Nested = <<"again">> /\ cmd[currentRequest] = "login"
    BY <1>2, <2>1 DEF Follows
  <2>4. currentRequest \in Waiting
    BY <2>2, CurrentWaits
  <2>5. Asking("session") # {} \/ Asking("login") # {}
    BY <2>3, <2>4 DEF Asking
  <2>6. Owed \in Nat /\ Owed >= 1
    BY <2>5, WaitingIsFinite
  <2>7. issued + 1 \in Requests
    BY <2>6, BoundAssumption DEF RoomIsKept, TypeOK, Requests
  <2> QED BY <2>2, <2>3, <2>7
<1> QED BY <1>1, <1>2


(* The end of an exchange: the current request leaves the head of its      *)
(* queue, what its completion makes joins the ordinary ones, and the next  *)
(* request is served.                                                      *)
Makes(base) ==
    \/ /\ Nested = <<>> /\ queue' = base
       /\ issued' = issued /\ cmd' = cmd
    \/ /\ issued + 1 \in Requests
       /\ cmd[currentRequest] \in {"session", "login"}
       /\ queue' = Append(base, issued + 1) /\ issued' = issued + 1
       /\ \/ /\ cmd' = [cmd EXCEPT ![issued + 1] = "login"]
             /\ cmd[currentRequest] = "session"
          \/ /\ cmd' = [cmd EXCEPT ![issued + 1] = "again"]
             /\ cmd[currentRequest] = "login"
Leaves ==
    \/ /\ queue # <<>> /\ currentRequest = Head(queue)
       /\ priorityQueue' = priorityQueue
       /\ Makes(Tail(queue))
    \/ /\ priorityQueue # <<>> /\ currentRequest = Head(priorityQueue)
       /\ priorityQueue' = Tail(priorityQueue)
       /\ Makes(queue)
Finishes(from) ==
    /\ Serves
    /\ \/ /\ currentRequest = NoRequest
          /\ queue' = <<>> /\ priorityQueue' = <<>>
          /\ UNCHANGED historyVars
       \/ /\ currentRequest \in Requests
          /\ calls' = [calls EXCEPT ![currentRequest] = @ + 1]
          /\ answer' = [answer EXCEPT ![currentRequest] = from]
          /\ Leaves

(* What the completion makes, at the end of the ordinary queue.            *)
LEMMA MadeShape ==
    ASSUME TypeOK, Served, Queues, RoomIsKept
    PROVE  \/ Nested = <<>> /\ queue \o Made(Nested) = queue
           \/ /\ Nested = <<"login">> \/ Nested = <<"again">>
              /\ queue \o Made(Nested) = Append(queue, issued + 1)
<1>1. queue \in Seq(Requests)
  BY DEF TypeOK
<1>2. CASE Nested = <<>>
  <2>1. Made(Nested) = <<>>
    BY <1>2 DEF Made
  <2> QED BY <1>1, <1>2, <2>1, ConcatEmptySeq
<1>3. CASE Nested # <<>>
  <2>1. /\ Nested = <<"login">> \/ Nested = <<"again">>
        /\ issued + 1 \in Requests
    BY <1>3, NestedShape
  <2>2. DOMAIN Nested = {1}
    BY <2>1
  <2>3. Made(Nested) = <<issued + 1>>
    BY <2>2 DEF Made
  <2> QED BY <1>1, <2>1, <2>3, AppendIsConcat
<1> QED BY <1>2, <1>3

(* The end of a request: the one its completion makes joins, then it leaves. *)
LEMMA FinishShape ==
    ASSUME TypeOK, Served, Queues, RoomIsKept,
           NEW from, FinishCurrent(from, Nested)
    PROVE  Finishes(from)
<1> DEFINE q == RemoveHttpRequest(queue \o Made(Nested), currentRequest)
           p == RemoveHttpRequest(priorityQueue, currentRequest)
           c == Nested[1]
<1>1. ProcessNextRequest(q, p, NoRequest, sock, writes)
  BY DEF FinishCurrent
<1>2. queue \in Seq(Requests) /\ priorityQueue \in Seq(Requests)
      /\ <<>> \in Seq(Requests) /\ ToSet(<<>>) = {}
  BY DEF TypeOK, ToSet
<1>3. Sorted(queue) /\ Sorted(priorityQueue)
  BY DEF Queues
<1>4. NoRequest \notin Requests
  BY DEF NoRequest, Requests
<1>5. CASE currentRequest = NoRequest
  <2>1. queue = <<>> /\ priorityQueue = <<>> /\ Nested = <<>>
    BY <1>5, CurrentWaits, NestedShape
  <2>2. queue \o Made(Nested) = <<>>
    BY <2>1, MadeShape
  <2>3. q = <<>> /\ p = <<>>
    BY <1>2, <2>1, <2>2, RemoveAbsent
  <2>4. queue' = <<>> /\ priorityQueue' = <<>> /\ Serves
    BY <1>1, <1>2, <2>3, NextServes
  <2> QED BY <1>5, <2>4 DEF FinishCurrent, Finishes
<1>6. CASE currentRequest # NoRequest
  <2>1. currentRequest \in Requests /\ currentRequest <= issued
        /\ currentRequest \in Waiting
    BY <1>6, CurrentWaits
  <2>2. issued \in Nat /\ currentRequest # issued + 1
    BY <2>1, BoundAssumption DEF TypeOK, Requests
  <2>3. \/ /\ queue # <<>> /\ currentRequest = Head(queue)
           /\ currentRequest \notin ToSet(priorityQueue)
        \/ /\ priorityQueue # <<>> /\ currentRequest = Head(priorityQueue)
           /\ currentRequest \notin ToSet(queue)
    <3>1. queue # <<>> => Head(queue) \in ToSet(queue)
      BY <1>2, <1>3, QueueTail
    <3>2. priorityQueue # <<>> => Head(priorityQueue) \in ToSet(priorityQueue)
      BY <1>2, <1>3, QueueTail
    <3> QED BY <1>6, <3>1, <3>2, CurrentWaits DEF Served
  <2> DEFINE made == issued + 1
             Ends(base) == q = IF Nested = <<>> THEN base ELSE Append(base, made)
  <2>4. Nested # <<>> => made \in Requests
    BY NestedShape
  <2>5. \/ Nested = <<>> /\ queue \o Made(Nested) = queue
        \/ Nested # <<>> /\ queue \o Made(Nested) = Append(queue, made)
    <3>1. <<"login">> # <<>> /\ <<"again">> # <<>>
      OBVIOUS
    <3> QED BY <3>1, MadeShape
  <2>6. Nested # <<>> => /\ Sorted(Append(queue, made))
                         /\ ToSet(Append(queue, made)) = ToSet(queue) \cup {made}
    <3>1. \A i \in DOMAIN queue : queue[i] \in Waiting
      BY DEF Waiting, ToSet
    <3>2. \A i \in DOMAIN queue : queue[i] < made
      BY <2>2, <3>1, CurrentWaits, BoundAssumption DEF Requests
    <3> QED BY <1>2, <1>3, <2>4, <3>2, QueueAppend
  <2>9. ASSUME NEW base,
               queue' = IF Nested = <<>> THEN base ELSE Append(base, made)
        PROVE  Makes(base)
    <3>1. CASE Nested = <<>>
      <4>1. issued' = issued /\ \A r \in Requests : cmd'[r] = cmd[r]
        BY <1>6, <2>2, <3>1 DEF FinishCurrent
      <4>2. cmd' = [r \in Requests |-> cmd'[r]]
        BY <1>6 DEF FinishCurrent
      <4>3. cmd' = cmd
        BY <4>1, <4>2 DEF TypeOK
      <4> QED BY <2>9, <3>1, <4>1, <4>3 DEF Makes
    <3>2. CASE Nested # <<>>
      <4>1. Len(Nested) = 1 /\ issued + 1 .. issued + Len(Nested) = {made}
            /\ made - issued = 1
        <5>1. Len(Nested) = 1
          BY <3>2, NestedShape
        <5> QED BY <2>2, <5>1
      <4>2. issued' = made
            /\ cmd' = [r \in Requests |-> IF r = made THEN Nested[1] ELSE cmd[r]]
        BY <1>6, <4>1 DEF FinishCurrent
      <4>3. cmd' = [cmd EXCEPT ![made] = Nested[1]]
        BY <4>2 DEF TypeOK
      <4>4. \/ Nested[1] = "login" /\ cmd[currentRequest] = "session"
            \/ Nested[1] = "again" /\ cmd[currentRequest] = "login"
        BY <3>2, NestedShape
      <4> QED BY <2>4, <2>9, <3>2, <4>2, <4>3, <4>4 DEF Makes
    <3> QED BY <3>1, <3>2
  <2>7. CASE queue # <<>> /\ currentRequest = Head(queue)
             /\ currentRequest \notin ToSet(priorityQueue)
    <3>1. p = priorityQueue
      BY <2>7, RemoveAbsent
    <3>2. Ends(Tail(queue))
      <4>1. CASE Nested = <<>>
        BY <1>2, <1>3, <2>5, <2>7, <4>1, RemoveHead
      <4>2. CASE Nested # <<>>
        <5>1. Append(queue, made) \in Seq(Requests) /\ Append(queue, made) # <<>>
          BY <1>2, <2>4, <4>2, AppendShape
        <5>2. Head(Append(queue, made)) = Head(queue)
              /\ Tail(Append(queue, made)) = Append(Tail(queue), made)
          BY <1>2, <2>7, HeadTailAppend
        <5>3. q = Tail(Append(queue, made))
          BY <2>5, <2>6, <2>7, <4>2, <5>1, <5>2, RemoveHead
        <5> QED BY <4>2, <5>2, <5>3
      <4> QED BY <4>1, <4>2
    <3>3. Tail(queue) \in Seq(Requests)
      BY <1>2, <2>7, TailShape
    <3>4. q \in Seq(Requests)
      BY <2>4, <3>2, <3>3, AppendShape
    <3> HIDE DEF q, p
    <3>5. queue' = q /\ priorityQueue' = p /\ Serves
      BY <1>1, <1>2, <3>1, <3>4, NextServes
    <3>6. Makes(Tail(queue))
      BY <2>9, <3>2, <3>5
    <3> QED BY <1>6, <2>1, <2>7, <3>1, <3>5, <3>6
            DEF Finishes, Leaves, FinishCurrent
  <2>8. CASE priorityQueue # <<>> /\ currentRequest = Head(priorityQueue)
             /\ currentRequest \notin ToSet(queue)
    <3>1. p = Tail(priorityQueue) /\ p \in Seq(Requests)
      <4>1. RemoveHttpRequest(priorityQueue, Head(priorityQueue)) = Tail(priorityQueue)
        BY <1>2, <1>3, <2>8, RemoveHead
      <4>2. Tail(priorityQueue) \in Seq(Requests)
        BY <1>2, <2>8, TailShape
      <4> QED BY <2>8, <4>1, <4>2
    <3>2. Ends(queue)
      <4>1. currentRequest \notin ToSet(queue \o Made(Nested))
        BY <2>2, <2>5, <2>6, <2>8
      <4>2. q = queue \o Made(Nested)
        BY <4>1, RemoveAbsent
      <4> HIDE DEF q
      <4> QED BY <2>5, <4>2
    <3>3. q \in Seq(Requests)
      BY <1>2, <2>4, <3>2, AppendShape
    <3> HIDE DEF q, p
    <3>5. queue' = q /\ priorityQueue' = p /\ Serves
      BY <1>1, <1>2, <3>1, <3>3, NextServes
    <3>6. Makes(queue)
      BY <2>9, <3>2, <3>5
    <3> QED BY <1>6, <2>1, <2>8, <3>1, <3>5, <3>6
            DEF Finishes, Leaves, FinishCurrent
  <2> QED BY <2>3, <2>7, <2>8
<1> QED BY <1>5, <1>6


-----------------------------------------------------------------------------
(* The steps of the specification, by what they do to the requests.        *)

JoinStep(c) ==
    /\ Joins(c)
    /\ UNCHANGED <<currentResponseHeader, reads, wire, main, calls, answer,
                   cancelled, bodyLeft, userDefalutsCookie>>

(* A block of the main queue that ends an exchange.                        *)
FinishStep ==
    /\ main # <<>> /\ main' = Tail(main)
    /\ \/ /\ Head(main) = DisconnectBlock
          /\ Finishes({}) /\ UNCHANGED <<currentResponseHeader, bodyLeft>>
       \/ /\ Head(main).event = "read" /\ Head(main).tag = "header"
          /\ Head(main).part.is # "counted"
          /\ Finishes({Head(main).part.req}) /\ KeepHeader(Head(main).part)
          /\ bodyLeft' = (bodyLeft \/ Head(main).part.is = "uncounted")
       \/ /\ Head(main).event = "read" /\ Head(main).tag = "body"
          /\ Finishes({currentResponseHeader.req, Head(main).part.req})
          /\ UNCHANGED <<currentResponseHeader, bodyLeft>>
    /\ userDefalutsCookie' =
          IF Completes THEN CookieAfter(cmd[currentRequest], GivenHeader)
          ELSE userDefalutsCookie
    /\ UNCHANGED <<reads, wire, cancelled>>

(* A header that announces a body.                                         *)
HeaderStep ==
    /\ main # <<>> /\ main' = Tail(main)
    /\ Head(main).event = "read" /\ Head(main).tag = "header"
    /\ Head(main).part.is = "counted" /\ KeepHeader(Head(main).part)
    /\ reads' = Queued(sock, reads, "body")
    /\ bodyLeft' = (bodyLeft \/ Head(main).part.is = "uncounted")
    /\ UNCHANGED <<queues, sock, writes, wire, historyVars, cancelled,
                   userDefalutsCookie>>

ConnectStep == DidConnect /\ UNCHANGED userDefalutsCookie
WriteStep == DidWriteData /\ UNCHANGED userDefalutsCookie
CloseStep == SocketCloses /\ sock # "closed" /\ UNCHANGED userDefalutsCookie
CancelStep == CancelAll /\ UNCHANGED userDefalutsCookie
OpenStep == SocketConnects /\ UNCHANGED userDefalutsCookie
SecureStep == SocketSecures /\ UNCHANGED userDefalutsCookie
ReadStep == SocketReads /\ UNCHANGED userDefalutsCookie

(* Every step is one of these, told apart by what it does to the lists. *)
LEMMA NextCases ==
    ASSUME TypeOK, Served, Queues, RoomIsKept, [Next]_vars
    PROVE  \/ \E c \in LoginCmds : Ask(c) /\ JoinStep(c)
           \/ FinishStep \/ HeaderStep \/ ConnectStep \/ WriteStep
           \/ ServerAnswers \/ CloseStep \/ CancelStep \/ OpenStep
           \/ SecureStep \/ ReadStep \/ UNCHANGED vars
<1>1. CASE Presses
  <2>1. PICK c \in LoginCmds : Ask(c)
    BY <1>1 DEF Presses, DigestEvent, BasicEvent, BasicGetEvent, IcamRequest,
                LoginCmds
  <2>2. JoinStep(c)
    BY <2>1, RequestJoins DEF Ask, Request, JoinStep
  <2> QED BY <2>1, <2>2
<1>2. CASE MainQueue
  <2>1. main # <<>> /\ main' = Tail(main)
    BY <1>2 DEF MainQueue, DidConnect, DidDisconnect, DidWriteData, DidReadData
  <2>2. userDefalutsCookie' =
          IF Completes THEN CookieAfter(cmd[currentRequest], GivenHeader)
          ELSE userDefalutsCookie
    BY <1>2 DEF MainQueue
  <2>3. CASE DidConnect
    <3>1. ~ Completes
      BY <2>3 DEF DidConnect, Completes, ConnectBlock, DisconnectBlock
    <3> QED BY <2>2, <2>3, <3>1 DEF ConnectStep
  <2>4. CASE DidWriteData
    <3>1. ~ Completes
      BY <2>4 DEF DidWriteData, Completes, WriteBlock, DisconnectBlock
    <3> QED BY <2>2, <2>4, <3>1 DEF WriteStep
  <2>5. CASE DidDisconnect(Nested)
    <3>1. Head(main) = DisconnectBlock /\ FinishCurrent({}, Nested)
          /\ UNCHANGED <<currentResponseHeader, reads, wire, cancelled, bodyLeft>>
      BY <2>5 DEF DidDisconnect
    <3>2. Finishes({})
      BY <3>1, FinishShape
    <3> QED BY <2>1, <2>2, <3>1, <3>2 DEF FinishStep
  <2>6. CASE DidReadData(Nested)
    <3>1. Head(main).event = "read" /\ UNCHANGED <<wire, cancelled>>
      BY <2>6 DEF DidReadData
    <3>2. CASE Head(main).tag = "header" /\ Head(main).part.is = "counted"
               /\ KeepHeader(Head(main).part)
               /\ DidReadHeader(Head(main).part, Nested)
               /\ bodyLeft' = (bodyLeft \/ Head(main).part.is = "uncounted")
      <4>1. ~ Completes
        BY <3>1, <3>2 DEF Completes, DisconnectBlock
      <4> QED BY <2>1, <2>2, <3>1, <3>2, <4>1 DEF HeaderStep, DidReadHeader
    <3>3. CASE Head(main).tag = "header" /\ Head(main).part.is # "counted"
               /\ KeepHeader(Head(main).part)
               /\ DidReadHeader(Head(main).part, Nested)
               /\ bodyLeft' = (bodyLeft \/ Head(main).part.is = "uncounted")
      <4>1. FinishCurrent({Head(main).part.req}, Nested) /\ UNCHANGED reads
        BY <3>3 DEF DidReadHeader
      <4>2. Finishes({Head(main).part.req})
        BY <4>1, FinishShape
      <4> QED BY <2>1, <2>2, <3>1, <3>3, <4>1, <4>2 DEF FinishStep
    <3>4. CASE /\ Head(main).tag = "body"
               /\ FinishCurrent({currentResponseHeader.req, Head(main).part.req},
                                Nested)
               /\ UNCHANGED <<currentResponseHeader, reads, bodyLeft>>
      <4>1. Finishes({currentResponseHeader.req, Head(main).part.req})
        BY <3>4, FinishShape
      <4> QED BY <2>1, <2>2, <3>1, <3>4, <4>1 DEF FinishStep
    <3> QED BY <2>6, <3>2, <3>3, <3>4 DEF DidReadData
  <2> QED BY <1>2, <2>3, <2>4, <2>5, <2>6 DEF MainQueue
<1>3. CASE ServerAnswers
  BY <1>3
<1>4. CASE (Drops \/ Socket) /\ UNCHANGED userDefalutsCookie
  BY <1>4 DEF Drops, Socket, ConnectEnds, HandshakeEnds, ReadEnds, Disconnect,
      ConnectFails, HandshakeFails, HandshakeIsDue, WriteTimesOut, ReadTimesOut,
      ServerCloses, IsConnected, CloseStep, CancelStep, OpenStep, SecureStep,
      ReadStep
<1>5. CASE UNCHANGED vars
  BY <1>5
<1> QED BY <1>1, <1>2, <1>3, <1>4, <1>5 DEF Next

(* A step that leaves the requests alone takes from the writes, or adds    *)
(* the TLS packet.                                                         *)
Keeps ==
    /\ UNCHANGED <<queues, cmd, issued, calls, answer>>
    /\ \/ writes' \in {writes, <<>>, Append(writes, TLS)}
       \/ writes # <<>> /\ writes' = Tail(writes)

(* The steps that touch no list. *)
LEMMA QuietSteps ==
    ASSUME TypeOK,
           \/ HeaderStep \/ ConnectStep \/ WriteStep \/ ServerAnswers
           \/ CloseStep \/ OpenStep \/ SecureStep \/ ReadStep
           \/ UNCHANGED vars
    PROVE  Keeps
<1> USE DEF Keeps, queues, historyVars
<1>1. CASE HeaderStep
  BY <1>1 DEF HeaderStep
<1>2. CASE ConnectStep
  BY <1>2 DEF ConnectStep, DidConnect, StartSSL, Queued
<1>3. CASE WriteStep
  BY <1>3 DEF WriteStep, DidWriteData
<1>4. CASE ServerAnswers
  BY <1>4 DEF ServerAnswers, SocketWrites
<1>5. CASE CloseStep
  BY <1>5 DEF CloseStep, SocketCloses
<1>6. CASE OpenStep
  BY <1>6 DEF OpenStep, SocketConnects
<1>7. CASE SecureStep
  BY <1>7 DEF SecureStep, SocketSecures, HandshakeIsDue
<1>8. CASE ReadStep
  BY <1>8 DEF ReadStep, SocketReads
<1>9. CASE UNCHANGED vars
  BY <1>9 DEF vars, queueVars, socketVars
<1> QED BY <1>1, <1>2, <1>3, <1>4, <1>5, <1>6, <1>7, <1>8, <1>9


-----------------------------------------------------------------------------
(* The queues after a step.                                                *)

(* The elements of a sequence with one more and with one less.             *)
LEMMA ToSetAppend ==
    ASSUME NEW S, NEW s \in Seq(S), NEW x \in S
    PROVE  ToSet(Append(s, x)) = ToSet(s) \cup {x}
<1> DEFINE t == Append(s, x)
<1>1. /\ DOMAIN s = 1 .. Len(s) /\ Len(s) \in Nat /\ DOMAIN t = 1 .. Len(s) + 1
      /\ t[Len(s) + 1] = x /\ \A k \in DOMAIN s : k \in DOMAIN t /\ t[k] = s[k]
  BY AppendShape
<1> HIDE DEF t
<1>2. Len(s) + 1 \in DOMAIN t
      /\ \A k \in DOMAIN t : k \in DOMAIN s \/ k = Len(s) + 1
  BY <1>1
<1>3. ToSet(t) = ToSet(s) \cup {x}
  BY <1>1, <1>2 DEF ToSet
<1> QED BY <1>3 DEF t

(* Without its first entry a list holds the others. *)
LEMMA ToSetTail ==
    ASSUME NEW S, NEW s \in Seq(S), s # <<>>
    PROVE  ToSet(Tail(s)) \subseteq ToSet(s) /\ Head(s) \in ToSet(s)
BY TailShape DEF ToSet

(* The requests already made, and those of the queues among them.          *)
LEMMA WaitingMade ==
    ASSUME TypeOK, Served, Queues
    PROVE  /\ issued \in Nat /\ issued + 1 \notin Waiting
           /\ issued + 1 \in Requests => cmd[issued + 1] = "none"
           /\ \A i \in DOMAIN queue : queue[i] \in Waiting /\ queue[i] < issued + 1
           /\ \A i \in DOMAIN priorityQueue :
                 priorityQueue[i] \in Waiting /\ priorityQueue[i] < issued + 1
           /\ \A r \in Waiting : r \in Nat /\ r <= issued
<1>1. issued \in Nat
  BY BoundAssumption DEF TypeOK
<1>2. \A r \in Waiting : r \in Nat /\ r <= issued
  BY CurrentWaits DEF Requests
<1>3. \A i \in DOMAIN queue : queue[i] \in Waiting
  BY DEF Waiting, ToSet
<1>4. \A i \in DOMAIN priorityQueue : priorityQueue[i] \in Waiting
  BY DEF Waiting, ToSet
<1>5. issued + 1 \in Requests => cmd[issued + 1] = "none"
  <2>1. ~ (issued + 1 <= issued)
    BY <1>1
  <2> QED BY <2>1 DEF Queues
<1> QED BY <1>1, <1>2, <1>3, <1>4, <1>5

(* The waiting requests after one has joined. *)
LEMMA JoinSets ==
    ASSUME TypeOK, Served, Queues, NEW c \in LoginCmds, Joins(c)
    PROVE  /\ queue' \in Seq(Requests) /\ priorityQueue' \in Seq(Requests)
           /\ Sorted(queue)' /\ Sorted(priorityQueue)'
           /\ ToSet(queue)' = ToSet(queue)
                 \cup IF c \in PriorityCmds THEN {} ELSE {issued + 1}
           /\ ToSet(priorityQueue)' = ToSet(priorityQueue)
                 \cup IF c \in PriorityCmds THEN {issued + 1} ELSE {}
           /\ Served'
<1>1. issued + 1 \in Requests
  BY DEF Joins
<1>2. /\ queue \in Seq(Requests) /\ priorityQueue \in Seq(Requests)
      /\ Sorted(queue) /\ Sorted(priorityQueue)
  BY DEF TypeOK, Queues
<1>3. /\ Append(queue, issued + 1) \in Seq(Requests)
      /\ Append(queue, issued + 1) # <<>>
      /\ Head(Append(queue, issued + 1)) =
            IF queue = <<>> THEN issued + 1 ELSE Head(queue)
      /\ Sorted(Append(queue, issued + 1))
      /\ ToSet(Append(queue, issued + 1)) = ToSet(queue) \cup {issued + 1}
  BY <1>1, <1>2, AppendShape, HeadTailAppend, QueueAppend, WaitingMade
<1>4. LET t == Append(priorityQueue, issued + 1)
      IN /\ t \in Seq(Requests) /\ t # <<>>
         /\ Head(t) = IF priorityQueue = <<>> THEN issued + 1
                      ELSE Head(priorityQueue)
         /\ Sorted(t) /\ ToSet(t) = ToSet(priorityQueue) \cup {issued + 1}
  BY <1>1, <1>2, AppendShape, HeadTailAppend, QueueAppend, WaitingMade
<1>5. CASE c \in PriorityCmds
  <2>1. queue' = queue /\ priorityQueue' = Append(priorityQueue, issued + 1)
    BY <1>5 DEF Joins
  <2>2. Served'
    BY <1>4, <2>1, CurrentWaits DEF Joins, Served
  <2> QED BY <1>2, <1>4, <1>5, <2>1, <2>2 DEF Sorted, ToSet
<1>6. CASE c \notin PriorityCmds
  <2>1. queue' = Append(queue, issued + 1) /\ priorityQueue' = priorityQueue
    BY <1>6 DEF Joins
  <2>2. Served'
    BY <1>3, <2>1, CurrentWaits DEF Joins, Served
  <2> QED BY <1>2, <1>3, <1>6, <2>1, <2>2 DEF Sorted, ToSet
<1> QED BY <1>5, <1>6

(* The waiting requests after one has left. *)
LEMMA LeaveSets ==
    ASSUME TypeOK, Served, Queues, currentRequest \in Requests, Leaves
    PROVE  /\ queue' \in Seq(Requests) /\ priorityQueue' \in Seq(Requests)
           /\ Sorted(queue)' /\ Sorted(priorityQueue)'
           /\ ToSet(priorityQueue)' = ToSet(priorityQueue) \ {currentRequest}
           /\ \/ /\ ToSet(queue)' = ToSet(queue) \ {currentRequest}
                 /\ issued' = issued /\ cmd' = cmd
              \/ /\ ToSet(queue)' =
                       (ToSet(queue) \ {currentRequest}) \cup {issued + 1}
                 /\ issued' = issued + 1 /\ issued + 1 \in Requests
                 /\ \/ /\ cmd' = [cmd EXCEPT ![issued + 1] = "login"]
                       /\ cmd[currentRequest] = "session"
                    \/ /\ cmd' = [cmd EXCEPT ![issued + 1] = "again"]
                       /\ cmd[currentRequest] = "login"
<1>2. /\ queue \in Seq(Requests) /\ priorityQueue \in Seq(Requests)
      /\ Sorted(queue) /\ Sorted(priorityQueue)
  BY DEF TypeOK, Queues
<1>3. ASSUME NEW base \in Seq(Requests), Sorted(base), Makes(base),
             ToSet(base) = ToSet(queue) \ {currentRequest}
      PROVE  /\ queue' \in Seq(Requests) /\ Sorted(queue)'
             /\ \/ /\ ToSet(queue)' = ToSet(queue) \ {currentRequest}
                   /\ issued' = issued /\ cmd' = cmd
                \/ /\ ToSet(queue)' =
                         (ToSet(queue) \ {currentRequest}) \cup {issued + 1}
                   /\ issued' = issued + 1 /\ issued + 1 \in Requests
                   /\ \/ /\ cmd' = [cmd EXCEPT ![issued + 1] = "login"]
                         /\ cmd[currentRequest] = "session"
                      \/ /\ cmd' = [cmd EXCEPT ![issued + 1] = "again"]
                         /\ cmd[currentRequest] = "login"
  <2>1. CASE queue' = base /\ issued' = issued /\ cmd' = cmd
    BY <1>3, <2>1 DEF Sorted, ToSet
  <2>2. CASE ~ (queue' = base /\ issued' = issued /\ cmd' = cmd)
    <3>1. issued + 1 \in Requests /\ queue' = Append(base, issued + 1)
      BY <1>3, <2>2 DEF Makes
    <3>2. \A i \in DOMAIN base : base[i] < issued + 1
      <4>1. \A i \in DOMAIN base : base[i] \in ToSet(queue)
        BY <1>3 DEF ToSet
      <4> QED BY <4>1, WaitingMade DEF Waiting
    <3>3. /\ queue' \in Seq(Requests) /\ Sorted(Append(base, issued + 1))
          /\ ToSet(Append(base, issued + 1)) = ToSet(base) \cup {issued + 1}
      BY <3>1, <3>2, <1>3, AppendShape, QueueAppend
    <3>4. Sorted(queue)' /\ ToSet(queue)' = ToSet(base) \cup {issued + 1}
      BY <3>1, <3>3 DEF Sorted, ToSet
    <3>5. /\ issued' = issued + 1
          /\ \/ /\ cmd' = [cmd EXCEPT ![issued + 1] = "login"]
                /\ cmd[currentRequest] = "session"
             \/ /\ cmd' = [cmd EXCEPT ![issued + 1] = "again"]
                /\ cmd[currentRequest] = "login"
      BY <1>3, <2>2 DEF Makes
    <3> QED BY <1>3, <3>1, <3>3, <3>4, <3>5
  <2> QED BY <2>1, <2>2
<1>4. CASE /\ queue # <<>> /\ currentRequest = Head(queue)
           /\ priorityQueue' = priorityQueue /\ Makes(Tail(queue))
  <2>1. /\ Tail(queue) \in Seq(Requests) /\ Sorted(Tail(queue))
        /\ ToSet(Tail(queue)) = ToSet(queue) \ {currentRequest}
        /\ currentRequest \in ToSet(queue)
    BY <1>2, <1>4, TailShape, QueueTail
  <2>2. currentRequest \notin ToSet(priorityQueue)
    BY <2>1, CurrentWaits
  <2>3. Sorted(priorityQueue)' /\ ToSet(priorityQueue)' = ToSet(priorityQueue)
    BY <1>2, <1>4 DEF Sorted, ToSet
  <2> QED BY <1>2, <1>3, <1>4, <2>1, <2>2, <2>3
<1>5. CASE /\ priorityQueue # <<>> /\ currentRequest = Head(priorityQueue)
           /\ priorityQueue' = Tail(priorityQueue) /\ Makes(queue)
  <2>1. /\ Tail(priorityQueue) \in Seq(Requests) /\ Sorted(Tail(priorityQueue))
        /\ ToSet(Tail(priorityQueue)) = ToSet(priorityQueue) \ {currentRequest}
        /\ currentRequest \in ToSet(priorityQueue)
    BY <1>2, <1>5, TailShape, QueueTail
  <2>2. ToSet(queue) = ToSet(queue) \ {currentRequest}
    BY <2>1, CurrentWaits
  <2>3. Sorted(priorityQueue)' /\ priorityQueue' \in Seq(Requests)
        /\ ToSet(priorityQueue)' = ToSet(priorityQueue) \ {currentRequest}
    BY <1>5, <2>1 DEF Sorted, ToSet
  <2> QED BY <1>2, <1>3, <1>5, <2>2, <2>3
<1> QED BY <1>4, <1>5 DEF Leaves


(* The parts that make the lists right again. *)
LEMMA QueuesAgain ==
    ASSUME Sorted(queue)', Sorted(priorityQueue)',
           \A r \in Requests : r <= issued' <=> cmd'[r] # "none",
           \A r \in ToSet(queue)' : Ordinary(r)',
           \A r \in ToSet(priorityQueue)' : cmd'[r] \in IcamCmds,
           \A r \in ToSet(writes)' : r = TLS \/ cmd'[r] # "none"
    PROVE  Queues'
BY DEF Queues, ToSet

(* One more request with a command.                                        *)
LEMMA CommandGiven ==
    ASSUME TypeOK, Queues, issued + 1 \in Requests, NEW c \in LoginCmds,
           issued' = issued + 1, cmd' = [cmd EXCEPT ![issued + 1] = c]
    PROVE  /\ \A r \in Requests : r <= issued' <=> cmd'[r] # "none"
           /\ cmd'[issued + 1] = c
           /\ \A r : r # issued + 1 => cmd'[r] = cmd[r]
<1>1. issued \in Nat /\ "none" \notin LoginCmds
  BY BoundAssumption DEF TypeOK, LoginCmds
<1>2. cmd'[issued + 1] = c /\ \A r : r # issued + 1 => cmd'[r] = cmd[r]
  BY DEF TypeOK
<1>3. ASSUME NEW r \in Requests
      PROVE  r <= issued' <=> cmd'[r] # "none"
  <2>1. CASE r = issued + 1
    BY <1>1, <1>2, <2>1
  <2>2. CASE r # issued + 1
    <3>1. r <= issued + 1 <=> r <= issued
      BY <1>1, <2>2, BoundAssumption DEF Requests
    <3> QED BY <1>2, <2>2, <3>1 DEF Queues
  <2> QED BY <2>1, <2>2
<1> QED BY <1>2, <1>3

(* The writes hold requests already made.                                  *)
LEMMA WritesMade ==
    ASSUME TypeOK, Queues
    PROVE  \A r \in ToSet(writes) :
              r = TLS \/ (cmd[r] # "none" /\ r \in Requests /\ r <= issued)
<1>1. \A r \in ToSet(writes) : r = TLS \/ (cmd[r] # "none" /\ r \in Requests)
  BY DEF TypeOK, Queues, ToSet
<1> QED BY <1>1 DEF Queues

(* The queues stay in order and their heads are served (Queues, Served).   *)
LEMMA QueuesStep ==
    ASSUME TypeOK, Served, Queues, RoomIsKept, [Next]_vars
    PROVE  Queues' /\ Served'
<1> DEFINE new == issued + 1
           Writes == ToSet(writes)
<1>1. /\ queue \in Seq(Requests) /\ priorityQueue \in Seq(Requests)
      /\ writes \in Seq(Requests \cup {TLS})
  BY DEF TypeOK
<1>2. /\ \A r \in ToSet(queue) : Ordinary(r)
      /\ \A r \in ToSet(priorityQueue) : cmd[r] \in IcamCmds
      /\ \A r \in Requests : r <= issued <=> cmd[r] # "none"
  BY DEF Queues, ToSet
<1>3. new \notin ToSet(queue) /\ new \notin ToSet(priorityQueue)
      /\ \A r \in Writes : r = TLS \/ r # new
  <2>1. \A r \in Writes : r = TLS \/ r <= issued
    BY WritesMade
  <2>2. issued \in Nat /\ TLS = 0
    BY WaitingMade DEF TLS
  <2> QED BY <2>1, <2>2, WaitingMade DEF Waiting
<1>4. CASE \E c \in LoginCmds : Ask(c) /\ JoinStep(c)
  <2>1. PICK c \in LoginCmds : Joins(c)
    BY <1>4 DEF JoinStep
  <2>2. /\ new \in Requests /\ issued' = new
        /\ cmd' = [cmd EXCEPT ![new] = c]
    BY <2>1 DEF Joins
  <2>3. /\ \A r \in Requests : r <= issued' <=> cmd'[r] # "none"
        /\ cmd'[new] = c /\ \A r : r # new => cmd'[r] = cmd[r]
    BY <2>2, CommandGiven
  <2>4. \A r \in ToSet(writes)' : r = TLS \/ cmd'[r] # "none"
    <3>1. writes' \in {writes, Append(writes, new)}
      BY <2>1 DEF Joins
    <3>2. ToSet(Append(writes, new)) = ToSet(writes) \cup {new}
      BY <1>1, <2>2, ToSetAppend
    <3>3. \A r \in ToSet(writes)' : r = new \/ r \in Writes
      BY <3>1, <3>2
    <3>4. cmd'[new] # "none"
      BY <2>3 DEF LoginCmds
    <3> QED BY <1>3, <2>3, <3>3, <3>4, WritesMade
  <2>5. \A r \in ToSet(queue)' : Ordinary(r)'
    <3>1. c \notin PriorityCmds => c \in LoginCmds \ IcamCmds
      BY LoginAssumption
    <3>2. \A r \in ToSet(queue)' :
             r \in ToSet(queue) \/ (r = new /\ c \notin PriorityCmds)
      BY <2>1, JoinSets
    <3> QED BY <1>2, <1>3, <2>3, <3>1, <3>2 DEF Ordinary
  <2>6. \A r \in ToSet(priorityQueue)' : cmd'[r] \in IcamCmds
    <3>1. c \in PriorityCmds => c \in IcamCmds
      BY LoginAssumption
    <3>2. \A r \in ToSet(priorityQueue)' :
             r \in ToSet(priorityQueue) \/ (r = new /\ c \in PriorityCmds)
      BY <2>1, JoinSets
    <3> QED BY <1>2, <1>3, <2>3, <3>1, <3>2
  <2> QED BY <2>1, <2>3, <2>4, <2>5, <2>6, JoinSets, QueuesAgain
<1>5. CASE FinishStep
  <2>1. PICK from : Finishes(from)
    BY <1>5 DEF FinishStep
  <2>2. Serves
    BY <2>1 DEF Finishes
  <2>3. Served'
    BY <2>2 DEF Served, Serves
  <2>4. ASSUME NEW r \in ToSet(writes)'
        PROVE  r \in Writes \/ r \in Waiting'
    <3>1. CASE writes' = writes
      BY <2>4, <3>1
    <3>2. CASE /\ currentRequest' \in Requests /\ writes' = Append(writes, currentRequest')
               /\ \/ priorityQueue' # <<>> /\ currentRequest' = Head(priorityQueue')
                  \/ queue' # <<>> /\ currentRequest' = Head(queue')
      <4>1. ToSet(Append(writes, currentRequest')) = ToSet(writes) \cup {currentRequest'}
        BY <1>1, <3>2, ToSetAppend
      <4>2. queue' \in Seq(Requests) /\ priorityQueue' \in Seq(Requests)
        <5>1. \/ queue' = <<>> /\ priorityQueue' = <<>>
              \/ currentRequest \in Requests /\ Leaves
          BY <2>1 DEF Finishes
        <5>2. <<>> \in Seq(Requests)
          OBVIOUS
        <5> QED BY <5>1, <5>2, LeaveSets
      <4>3. queue' # <<>> => Head(queue') \in ToSet(queue')
        BY <4>2, ToSetTail
      <4>4. priorityQueue' # <<>> => Head(priorityQueue') \in ToSet(priorityQueue')
        BY <4>2, ToSetTail
      <4> QED BY <2>4, <3>2, <4>1, <4>3, <4>4 DEF Waiting
    <3> QED BY <2>2, <3>1, <3>2 DEF Serves
  <2>5. CASE currentRequest = NoRequest /\ queue' = <<>> /\ priorityQueue' = <<>>
             /\ UNCHANGED historyVars
    <3>1. ToSet(<<>>) = {}
      BY DEF ToSet
    <3>2. /\ \A r \in ToSet(queue)' : Ordinary(r)'
          /\ \A r \in ToSet(priorityQueue)' : cmd'[r] \in IcamCmds
          /\ Waiting' = {}
      BY <2>5, <3>1 DEF Waiting
    <3>3. cmd' = cmd /\ issued' = issued
      BY <2>5 DEF historyVars
    <3>4. \A r \in ToSet(writes)' : r = TLS \/ cmd'[r] # "none"
      BY <2>4, <3>2, <3>3, WritesMade
    <3>5. Sorted(queue)' /\ Sorted(priorityQueue)'
      BY <2>5 DEF Sorted
    <3> QED BY <1>2, <2>3, <3>2, <3>3, <3>4, <3>5, QueuesAgain
  <2>6. CASE currentRequest \in Requests /\ Leaves
    <3>1. /\ Sorted(queue)' /\ Sorted(priorityQueue)'
          /\ ToSet(priorityQueue)' = ToSet(priorityQueue) \ {currentRequest}
      BY <2>6, LeaveSets
    <3>2. CASE /\ ToSet(queue)' = ToSet(queue) \ {currentRequest}
               /\ issued' = issued /\ cmd' = cmd
      <4>1. /\ \A r \in ToSet(queue)' : Ordinary(r)'
            /\ \A r \in ToSet(priorityQueue)' : cmd'[r] \in IcamCmds
        BY <1>2, <3>1, <3>2 DEF Ordinary
      <4>2. \A r \in Waiting' : cmd'[r] # "none"
        BY <4>1 DEF Waiting, Ordinary, LoginCmds, IcamCmds
      <4>3. \A r \in ToSet(writes)' : r = TLS \/ cmd'[r] # "none"
        BY <2>4, <3>2, <4>2, WritesMade
      <4> QED BY <1>2, <2>3, <3>1, <3>2, <4>1, <4>3, QueuesAgain
    <3>3. CASE /\ ToSet(queue)' = (ToSet(queue) \ {currentRequest}) \cup {new}
               /\ issued' = new /\ new \in Requests
               /\ \E c \in {"login", "again"} : cmd' = [cmd EXCEPT ![new] = c]
      <4>1. PICK c \in {"login", "again"} : cmd' = [cmd EXCEPT ![new] = c]
        BY <3>3
      <4>2. c \in LoginCmds \ IcamCmds
        BY DEF LoginCmds, IcamCmds
      <4>3. /\ \A r \in Requests : r <= issued' <=> cmd'[r] # "none"
            /\ cmd'[new] = c /\ \A r : r # new => cmd'[r] = cmd[r]
        BY <3>3, <4>1, <4>2, CommandGiven
      <4>4. \A r \in ToSet(queue)' : Ordinary(r)'
        BY <1>2, <1>3, <3>3, <4>2, <4>3 DEF Ordinary
      <4>5. \A r \in ToSet(priorityQueue)' : cmd'[r] \in IcamCmds
        BY <1>2, <1>3, <3>1, <4>3
      <4>6. \A r \in Waiting' : cmd'[r] # "none"
        BY <4>4, <4>5 DEF Waiting, Ordinary, LoginCmds, IcamCmds
      <4>7. \A r \in ToSet(writes)' : r = TLS \/ cmd'[r] # "none"
        BY <1>3, <2>4, <4>3, <4>6, WritesMade
      <4> QED BY <2>3, <3>1, <4>3, <4>4, <4>5, <4>7, QueuesAgain
    <3> QED BY <2>6, <3>2, <3>3, LeaveSets
  <2> QED BY <2>1, <2>5, <2>6 DEF Finishes
<1>6. CASE CancelStep
  <2>1. /\ queue' = <<>> /\ priorityQueue' = <<>> /\ currentRequest' = NoRequest
        /\ cmd' = cmd /\ issued' = issued /\ writes' = writes
    BY <1>6 DEF CancelStep, CancelAll, socketVars, historyVars
  <2> QED BY <2>1 DEF Queues, Served, Sorted
<1>7. CASE Keeps
  <2>1. UNCHANGED <<queue, priorityQueue, currentRequest, cmd, issued>>
    BY <1>7 DEF Keeps, queues
  <2>2. \A r \in ToSet(writes)' : r = TLS \/ r \in Writes
    <3>1. ToSet(Append(writes, TLS)) = ToSet(writes) \cup {TLS}
      BY <1>1, ToSetAppend
    <3>2. writes # <<>> => ToSet(Tail(writes)) \subseteq ToSet(writes)
      BY <1>1, ToSetTail
    <3>3. ToSet(<<>>) = {}
      BY DEF ToSet
    <3> QED BY <1>7, <3>1, <3>2, <3>3 DEF Keeps
  <2>3. \A r \in ToSet(writes)' : r = TLS \/ cmd'[r] # "none"
    BY <2>1, <2>2, WritesMade
  <2>4. Sorted(queue)' /\ Sorted(priorityQueue)'
    BY <2>1 DEF Queues, Sorted
  <2>5. /\ \A r \in ToSet(queue)' : Ordinary(r)'
        /\ \A r \in ToSet(priorityQueue)' : cmd'[r] \in IcamCmds
    BY <1>2, <2>1 DEF Ordinary
  <2> QED BY <1>2, <2>1, <2>3, <2>4, <2>5, QueuesAgain DEF Served
<1> QED BY <1>4, <1>5, <1>6, <1>7, NextCases, QuietSteps


(* Room stays for the logins that waiting requests may make.               *)
LEMMA RoomStep ==
    ASSUME TypeOK, Served, Queues, RoomIsKept, [Next]_vars
    PROVE  RoomIsKept'
<1> DEFINE new == issued + 1
           S == Asking("session")
           L == Asking("login")
<1>1. Owed' = 2 * Cardinality(S') + Cardinality(L')
  BY DEF Owed, Asking
<1>2. /\ IsFiniteSet(S) /\ IsFiniteSet(L)
      /\ Cardinality(S) \in Nat /\ Cardinality(L) \in Nat
      /\ Owed = 2 * Cardinality(S) + Cardinality(L)
  BY WaitingIsFinite
<1>3. /\ issued \in Nat /\ MaxRequests \in Nat /\ new \notin Waiting
      /\ issued + Owed <= MaxRequests
  BY WaitingMade, BoundAssumption DEF RoomIsKept
<1>4. new \notin S /\ new \notin L
  BY <1>3 DEF Asking
<1>5. Cardinality({}) = 0
  BY FS_EmptySet
<1>6. /\ \A x : /\ Cardinality(S \cup {x}) = IF x \in S THEN Cardinality(S)
                                             ELSE Cardinality(S) + 1
                /\ Cardinality(L \cup {x}) = IF x \in L THEN Cardinality(L)
                                             ELSE Cardinality(L) + 1
                /\ Cardinality(S \ {x}) = IF x \in S THEN Cardinality(S) - 1
                                          ELSE Cardinality(S)
                /\ Cardinality(L \ {x}) = IF x \in L THEN Cardinality(L) - 1
                                          ELSE Cardinality(L)
  BY <1>2, FS_AddElement, FS_RemoveElement
<1> HIDE DEF S, L
<1>7. CASE \E c \in LoginCmds : Ask(c) /\ JoinStep(c)
  <2>1. PICK c \in LoginCmds : Ask(c) /\ Joins(c)
    BY <1>7 DEF JoinStep
  <2>2. /\ new \in Requests /\ issued' = new
        /\ cmd' = [cmd EXCEPT ![new] = c]
    BY <2>1 DEF Joins
  <2>3. cmd'[new] = c /\ \A r : r # new => cmd'[r] = cmd[r]
    BY <2>2, CommandGiven
  <2>4. Waiting' = Waiting \cup {new}
    BY <2>1, JoinSets DEF Waiting
  <2>5. /\ S' = IF c = "session" THEN S \cup {new} ELSE S
        /\ L' = IF c = "login" THEN L \cup {new} ELSE L
    BY <1>3, <2>3, <2>4 DEF S, L, Asking
  <2>6. issued + Owed + Depth(c) < MaxRequests
    BY <2>1 DEF Ask
  <2>7. CASE c = "session"
    <3>1. S' = S \cup {new} /\ L' = L /\ Depth(c) = 2
      BY <2>5, <2>7 DEF Depth
    <3>2. Cardinality(S') = Cardinality(S) + 1 /\ Cardinality(L') = Cardinality(L)
      BY <1>4, <1>6, <3>1
    <3> HIDE DEF Depth
    <3> QED BY <1>1, <1>2, <1>3, <2>2, <2>6, <3>1, <3>2 DEF RoomIsKept
  <2>8. CASE c = "login"
    <3>1. S' = S /\ L' = L \cup {new} /\ Depth(c) = 1
      BY <2>5, <2>8 DEF Depth
    <3>2. Cardinality(S') = Cardinality(S) /\ Cardinality(L') = Cardinality(L) + 1
      BY <1>4, <1>6, <3>1
    <3> QED BY <1>1, <1>2, <1>3, <2>2, <2>6, <3>1, <3>2 DEF RoomIsKept
  <2>9. CASE c \notin {"session", "login"}
    <3>1. S' = S /\ L' = L /\ Depth(c) = 0
      BY <2>5, <2>9 DEF Depth
    <3>2. Cardinality(S') = Cardinality(S) /\ Cardinality(L') = Cardinality(L)
      BY <3>1
    <3> QED BY <1>1, <1>2, <1>3, <2>2, <2>6, <3>1, <3>2 DEF RoomIsKept
  <2> QED BY <2>7, <2>8, <2>9
<1>8. ASSUME Waiting' = {}, issued' = issued
      PROVE  RoomIsKept'
  <2>1. S' = {} /\ L' = {}
    BY <1>8 DEF S, L, Asking
  <2>2. Owed' = 0
    BY <1>1, <1>5, <2>1
  <2> QED BY <1>2, <1>3, <1>8, <2>2 DEF RoomIsKept
<1>9. ToSet(<<>>) = {}
  BY DEF ToSet
<1>10. CASE FinishStep
  <2>1. PICK from : Finishes(from)
    BY <1>10 DEF FinishStep
  <2>2. CASE currentRequest = NoRequest /\ queue' = <<>> /\ priorityQueue' = <<>>
             /\ UNCHANGED historyVars
    <3>1. Waiting' = {} /\ issued' = issued
      BY <1>9, <2>2 DEF Waiting, historyVars
    <3> QED BY <1>8, <3>1
  <2>3. CASE currentRequest \in Requests /\ Leaves
    <3>1. currentRequest \in Waiting /\ currentRequest # new
          /\ ToSet(queue) \cap ToSet(priorityQueue) = {}
      <4>1. currentRequest # NoRequest
        BY <2>3 DEF NoRequest, Requests
      <4> QED BY <1>3, <4>1, CurrentWaits
    <3>2. CASE /\ ToSet(queue)' = ToSet(queue) \ {currentRequest}
               /\ issued' = issued /\ cmd' = cmd
      <4>1. Waiting' = Waiting \ {currentRequest}
        BY <2>3, <3>2, LeaveSets DEF Waiting
      <4>2. S' = S \ {currentRequest} /\ L' = L \ {currentRequest}
        BY <3>2, <4>1 DEF S, L, Asking
      <4>3. /\ Cardinality(S') \in {Cardinality(S), Cardinality(S) - 1}
            /\ Cardinality(L') \in {Cardinality(L), Cardinality(L) - 1}
        BY <1>6, <4>2
      <4> QED BY <1>1, <1>2, <1>3, <3>2, <4>3 DEF RoomIsKept
    <3>3. CASE /\ ToSet(queue)' = (ToSet(queue) \ {currentRequest}) \cup {new}
               /\ issued' = new /\ new \in Requests
               /\ \/ /\ cmd' = [cmd EXCEPT ![new] = "login"]
                     /\ cmd[currentRequest] = "session"
                  \/ /\ cmd' = [cmd EXCEPT ![new] = "again"]
                     /\ cmd[currentRequest] = "login"
      <4>1. Waiting' = (Waiting \ {currentRequest}) \cup {new}
        BY <2>3, <3>1, <3>3, LeaveSets DEF Waiting
      <4>2. \A r : r # new => cmd'[r] = cmd[r]
        BY <3>3, CommandGiven DEF LoginCmds
      <4>3. CASE cmd' = [cmd EXCEPT ![new] = "login"] /\ cmd[currentRequest] = "session"
        <5>1. cmd'[new] = "login"
          BY <3>3, <4>3, CommandGiven DEF LoginCmds
        <5>2. currentRequest \in S
          BY <3>1, <4>3 DEF S, Asking
        <5>3. S' = S \ {currentRequest} /\ L' = L \cup {new}
          BY <1>3, <3>1, <4>1, <4>2, <4>3, <5>1 DEF S, L, Asking
        <5>4. /\ Cardinality(S') = Cardinality(S) - 1
              /\ Cardinality(L') = Cardinality(L) + 1
          BY <1>4, <1>6, <5>2, <5>3
        <5> QED BY <1>1, <1>2, <1>3, <3>3, <5>4 DEF RoomIsKept
      <4>4. CASE cmd' = [cmd EXCEPT ![new] = "again"] /\ cmd[currentRequest] = "login"
        <5>1. cmd'[new] = "again"
          BY <3>3, <4>4, CommandGiven DEF LoginCmds
        <5>2. currentRequest \in L
          BY <3>1, <4>4 DEF L, Asking
        <5>3. S' = S /\ L' = L \ {currentRequest}
          BY <1>3, <3>1, <4>1, <4>2, <4>4, <5>1 DEF S, L, Asking
        <5>4. Cardinality(S') = Cardinality(S) /\ Cardinality(L') = Cardinality(L) - 1
          BY <1>6, <5>2, <5>3
        <5> QED BY <1>1, <1>2, <1>3, <3>3, <5>4 DEF RoomIsKept
      <4> QED BY <3>3, <4>3, <4>4
    <3> QED BY <2>3, <3>2, <3>3, LeaveSets
  <2> QED BY <2>1, <2>2, <2>3 DEF Finishes
<1>11. CASE CancelStep
  <2>1. Waiting' = {} /\ issued' = issued
    BY <1>9, <1>11 DEF CancelStep, CancelAll, historyVars, Waiting
  <2> QED BY <1>8, <2>1
<1>12. CASE Keeps
  <2>1. S' = S /\ L' = L /\ issued' = issued
    BY <1>12 DEF Keeps, queues, S, L, Asking, Waiting
  <2> QED BY <1>1, <1>2, <1>3, <2>1 DEF RoomIsKept
<1> QED BY <1>7, <1>10, <1>11, <1>12, NextCases, QuietSteps


-----------------------------------------------------------------------------
(* Types.                                                                  *)

(* Each kind of block is a block. *)
LEMMA BlocksAreBlocks ==
    /\ ConnectBlock \in Blocks /\ WriteBlock \in Blocks
    /\ DisconnectBlock \in Blocks
    /\ \A t \in Tags, p \in Parts : ReadBlock(t, p) \in Blocks
    /\ ConnectBlock.event = "connect" /\ WriteBlock.event = "write"
    /\ DisconnectBlock.event = "disconnect"
    /\ \A t, p : /\ ReadBlock(t, p).event = "read"
                 /\ ReadBlock(t, p).tag = t /\ ReadBlock(t, p).part = p
BY DEF Blocks, ConnectBlock, WriteBlock, DisconnectBlock, ReadBlock

(* What each kind of block carries. *)
LEMMA BlockFields ==
    ASSUME NEW b \in Blocks
    PROVE  /\ b.event = "read" => b.tag \in Tags /\ b.part \in Parts
           /\ b.event = "read" => b # ConnectBlock /\ b # WriteBlock
                                  /\ b # DisconnectBlock
BY DEF Blocks, ConnectBlock, WriteBlock, DisconnectBlock

(* What each part of an answer carries. *)
LEMMA PartFields ==
    ASSUME NEW p \in Parts
    PROVE  /\ p.req \in Requests /\ p.status \in Statuses
           /\ p.is \in AnswerKinds \cup {"data"}
           /\ HeaderOf(p) \in Headers /\ HeaderOf(p) # NoHeader
           /\ HeaderOf(p).req = p.req /\ HeaderOf(p).status = p.status
           /\ \A s \in Statuses : /\ [p EXCEPT !.status = s] \in Parts
                                  /\ [p EXCEPT !.status = s].req = p.req
                                  /\ [p EXCEPT !.status = s].is = p.is
                                  /\ [p EXCEPT !.status = s].status = s
<1>1. p.req \in Requests /\ p.status \in Statuses
      /\ p.is \in AnswerKinds \cup {"data"}
  BY DEF Parts
<1>2. HeaderOf(p) \in Headers /\ HeaderOf(p).req = p.req
      /\ HeaderOf(p).status = p.status
  BY <1>1 DEF HeaderOf, Headers
<1>3. HeaderOf(p) # NoHeader
  <2>1. p.req # 0
    BY <1>1 DEF Requests
  <2> QED BY <1>2, <2>1 DEF NoHeader
<1>4. \A s \in Statuses : /\ [p EXCEPT !.status = s] \in Parts
                          /\ [p EXCEPT !.status = s].req = p.req
                          /\ [p EXCEPT !.status = s].is = p.is
                          /\ [p EXCEPT !.status = s].status = s
  BY DEF Parts
<1> QED BY <1>1, <1>2, <1>3, <1>4

(* What the header of an answer carries. *)
LEMMA HeaderFields ==
    ASSUME NEW h \in Headers
    PROVE  /\ h.req \in 0 .. MaxRequests
           /\ h # NoHeader => h.req \in Requests
           /\ h.status = "accepted" => h # NoHeader
BY BoundAssumption DEF Headers, NoHeader, Requests

(* A block is at the head of the main queue.                               *)
LEMMA HeadOfMain ==
    ASSUME TypeOK, main # <<>>
    PROVE  /\ Head(main) = main[1] /\ 1 \in DOMAIN main /\ main[1] \in Blocks
           /\ Len(main) \in Nat \ {0} /\ Tail(main) \in Seq(Blocks)
           /\ Len(Tail(main)) = Len(main) - 1
           /\ \A k \in DOMAIN Tail(main) :
                 k + 1 \in DOMAIN main /\ Tail(main)[k] = main[k + 1]
                 /\ k \in Nat \ {0}
           /\ DOMAIN main = 1 .. Len(main)
           /\ DOMAIN Tail(main) = 1 .. Len(main) - 1
BY TailShape DEF TypeOK

RequestTypes ==
    /\ queue \in Seq(Requests) /\ priorityQueue \in Seq(Requests)
    /\ currentRequest \in Requests \cup {NoRequest}
    /\ sock \in SocketStates
    /\ writes \in Seq(Requests \cup {TLS})
    /\ cmd \in [Requests -> Cmds \cup {"none"}]
    /\ issued \in 0 .. MaxRequests
    /\ calls \in [Requests -> Nat]
    /\ answer \in [Requests -> SUBSET Requests]
AnswerTypes ==
    /\ currentResponseHeader \in Headers
    /\ reads \in Seq(Tags)
    /\ wire \in Seq(Parts)
    /\ main \in Seq(Blocks)
    /\ cancelled \in BOOLEAN /\ bodyLeft \in BOOLEAN
    /\ userDefalutsCookie \in 0 .. MaxRequests

(* The type invariant in the parts the steps are checked against. *)
LEMMA TypesSplit == TypeOK <=> RequestTypes /\ AnswerTypes
BY DEF TypeOK, RequestTypes, AnswerTypes

(* A socket that starts to connect is a socket. *)
LEMMA StartedType == \A s \in SocketStates : Started(s) \in SocketStates
BY DEF SocketStates, Started

(* Every step keeps requests and lists in their types. *)
LEMMA RequestTypesStep ==
    ASSUME TypeOK, Served, Queues, RoomIsKept, HeaderFirst, [Next]_vars
    PROVE  RequestTypes'
<1> USE TypesSplit DEF RequestTypes
<1>1. issued \in Nat /\ MaxRequests \in Nat
  BY BoundAssumption
<1>2. ASSUME issued' = issued + 1, issued + 1 \in Requests
      PROVE  issued' \in 0 .. MaxRequests
  BY <1>1, <1>2 DEF Requests
<1>3. ASSUME NEW r \in Requests
      PROVE  Append(writes, r) \in Seq(Requests \cup {TLS})
  BY AppendShape
<1>4. CASE \E c \in LoginCmds : Ask(c) /\ JoinStep(c)
  <2>1. PICK c \in LoginCmds : JoinStep(c)
    BY <1>4
  <2>2. Joins(c) /\ UNCHANGED <<calls, answer>>
    BY <2>1 DEF JoinStep
  <2>3. issued' = issued + 1 /\ issued + 1 \in Requests
        /\ cmd' = [cmd EXCEPT ![issued + 1] = c]
    BY <2>2 DEF Joins
  <2>4. cmd' \in [Requests -> Cmds \cup {"none"}]
    BY <2>3, LoginAssumption
  <2>5. /\ currentRequest' \in Requests \cup {NoRequest}
        /\ sock' \in SocketStates /\ writes' \in Seq(Requests \cup {TLS})
    BY <1>3, <2>2, StartedType DEF Joins
  <2>6. queue' \in Seq(Requests) /\ priorityQueue' \in Seq(Requests)
    BY <2>2, JoinSets
  <2> QED BY <1>2, <2>2, <2>3, <2>4, <2>5, <2>6
<1>5. CASE FinishStep
  <2>1. PICK from \in SUBSET Requests : Finishes(from)
    <3>1. /\ Head(main) = main[1]
          /\ main[1].event = "read" => main[1].part \in Parts
          /\ 1 \in DOMAIN main
      BY <1>5, HeadOfMain, BlockFields DEF FinishStep
    <3>2. main[1].event = "read" => main[1].part.req \in Requests
      BY <3>1, PartFields
    <3>3. main[1].event = "read" /\ main[1].tag = "body"
             => currentResponseHeader.req \in Requests
      BY <3>1, HeaderFields DEF HeaderFirst, IsRead, AnswerTypes
    <3>4. \/ Finishes({})
          \/ main[1].event = "read" /\ Finishes({main[1].part.req})
          \/ main[1].event = "read" /\ main[1].tag = "body"
             /\ Finishes({currentResponseHeader.req, main[1].part.req})
      BY <1>5, <3>1 DEF FinishStep
    <3> QED BY <3>2, <3>3, <3>4
  <2>2. /\ currentRequest' \in Requests \cup {NoRequest}
        /\ sock' \in SocketStates /\ writes' \in Seq(Requests \cup {TLS})
    BY <1>3, <2>1, StartedType DEF Finishes, Serves
  <2>3. CASE currentRequest = NoRequest /\ queue' = <<>> /\ priorityQueue' = <<>>
             /\ UNCHANGED historyVars
    <3>1. <<>> \in Seq(Requests)
      OBVIOUS
    <3> QED BY <2>2, <2>3, <3>1 DEF historyVars
  <2>4. CASE /\ currentRequest \in Requests
             /\ calls' = [calls EXCEPT ![currentRequest] = @ + 1]
             /\ answer' = [answer EXCEPT ![currentRequest] = from]
             /\ Leaves
    <3>1. /\ calls' \in [Requests -> Nat]
          /\ answer' \in [Requests -> SUBSET Requests]
      BY <2>4
    <3>2. {"login", "again"} \subseteq Cmds
      BY LoginAssumption DEF LoginCmds
    <3>3. /\ queue' \in Seq(Requests) /\ priorityQueue' \in Seq(Requests)
          /\ \/ issued' = issued /\ cmd' = cmd
             \/ /\ issued' = issued + 1 /\ issued + 1 \in Requests
                /\ \E c \in {"login", "again"} : cmd' = [cmd EXCEPT ![issued + 1] = c]
      BY <2>4, LeaveSets
    <3>4. cmd' \in [Requests -> Cmds \cup {"none"}]
      BY <3>2, <3>3
    <3> QED BY <1>2, <2>2, <3>1, <3>3, <3>4
  <2> QED BY <2>1, <2>3, <2>4 DEF Finishes
<1>6. CASE CancelStep
  BY <1>6 DEF CancelStep, CancelAll, socketVars, historyVars
<1>7. CASE Keeps
  <2>1. writes' \in Seq(Requests \cup {TLS})
    <3>1. writes # <<>> => Tail(writes) \in Seq(Requests \cup {TLS})
      BY TailShape
    <3>2. Append(writes, TLS) \in Seq(Requests \cup {TLS})
      BY AppendShape
    <3>3. <<>> \in Seq(Requests \cup {TLS})
      OBVIOUS
    <3> QED BY <1>7, <3>1, <3>2, <3>3 DEF Keeps
  <2>2. UNCHANGED <<queue, priorityQueue, currentRequest, cmd, issued, calls, answer>>
    BY <1>7 DEF Keeps, queues
  <2>3. CASE sock' \in SocketStates
    BY <2>1, <2>2, <2>3
  <2>4. CASE sock' \notin SocketStates
    <3>1. /\ ~ CloseStep /\ ~ OpenStep /\ ~ SecureStep
      BY <2>4 DEF CloseStep, SocketCloses, OpenStep, SocketConnects, SecureStep,
                  SocketSecures, SocketStates
    <3>2. ~ HeaderStep /\ ~ ConnectStep /\ ~ WriteStep /\ ~ ReadStep /\ ~ CancelStep
      BY <2>4 DEF HeaderStep, ConnectStep, DidConnect, WriteStep, DidWriteData,
                  ReadStep, SocketReads, CancelStep, CancelAll, socketVars
    <3>3. ~ ServerAnswers
      BY <2>4 DEF ServerAnswers, SocketWrites, SocketStates
    <3>4. ~ UNCHANGED vars
      BY <2>4 DEF vars, queueVars, socketVars
    <3> QED BY <1>4, <1>5, <3>1, <3>2, <3>3, <3>4, NextCases
  <2> QED BY <2>3, <2>4
<1> QED BY <1>4, <1>5, <1>6, <1>7, NextCases, QuietSteps


(* What a read of the socket takes off the wire and puts on the main       *)
(* queue.                                                                  *)
Reads(i, status) ==
    /\ i \in DOMAIN wire /\ status \in Statuses /\ ReadsPart(i)
    /\ status = wire[i].status \/ status = "other"
    /\ wire' = SubSeq(wire, i + 1, Len(wire))
    /\ main' = Append(main,
                   ReadBlock(reads[1], [wire[i] EXCEPT !.status = status]))
    /\ reads[1] \in {"header", "body"} /\ 1 \in DOMAIN reads
    /\ reads' = Tail(reads)

(* What the socket reads is a part of an answer on the wire. *)
LEMMA ReadShape ==
    ASSUME TypeOK, ReadStep
    PROVE  /\ reads # <<>> /\ Head(reads) = reads[1]
           /\ sock = "secured"
           /\ \E i \in DOMAIN wire, status \in Statuses : Reads(i, status)
<1>1. reads # <<>> /\ Head(reads) # "tls" /\ sock = "secured"
      /\ reads' = Tail(reads)
  BY DEF ReadStep, SocketReads
<1>2. Head(reads) = reads[1] /\ reads[1] \in Tags /\ 1 \in DOMAIN reads
  BY <1>1, TailShape DEF TypeOK
<1>3. PICK i \in DOMAIN wire, status \in Statuses :
        /\ ReadsPart(i)
        /\ status = wire[i].status \/ (i > 1 /\ status = "other")
        /\ wire' = SubSeq(wire, i + 1, Len(wire))
        /\ main' = Append(main,
              ReadBlock(Head(reads), [wire[i] EXCEPT !.status = status]))
  BY DEF ReadStep, SocketReads
<1>4. Reads(i, status)
  BY <1>1, <1>2, <1>3 DEF Reads, Tags
<1> QED BY <1>1, <1>2, <1>4

(* The rest of the wire after its first i parts.                           *)
LEMMA WireRest ==
    ASSUME NEW w \in Seq(Parts), NEW i \in DOMAIN w
    PROVE  LET t == SubSeq(w, i + 1, Len(w))
           IN /\ t \in Seq(Parts) /\ Len(t) = Len(w) - i
              /\ DOMAIN t = 1 .. Len(w) - i /\ i \in 1 .. Len(w)
              /\ Len(w) \in Nat
              /\ \A k \in DOMAIN t : k + i \in DOMAIN w /\ t[k] = w[k + i]
<1> DEFINE t == SubSeq(w, i + 1, Len(w))
<1>1. Len(w) \in Nat /\ DOMAIN w = 1 .. Len(w) /\ i \in 1 .. Len(w)
      /\ \A j \in 1 .. Len(w) : w[j] \in Parts
  OBVIOUS
<1>2. \A j \in i + 1 .. Len(w) : w[j] \in Parts
  BY <1>1
<1>3. /\ t \in Seq(Parts)
      /\ Len(t) = IF i + 1 <= Len(w) THEN Len(w) - (i + 1) + 1 ELSE 0
      /\ \A j \in 1 .. Len(w) - (i + 1) + 1 : t[j] = w[i + 1 + j - 1]
  BY <1>1, <1>2, SubSeqProperties
<1>4. Len(t) = Len(w) - i
  BY <1>1, <1>3
<1>5. DOMAIN t = 1 .. Len(w) - i
  BY <1>3, <1>4, LenProperties
<1>6. ASSUME NEW k \in DOMAIN t
      PROVE  k + i \in DOMAIN w /\ t[k] = w[k + i]
  <2>1. k \in 1 .. Len(w) - (i + 1) + 1 /\ i + 1 + k - 1 = k + i
    BY <1>1, <1>5, <1>6
  <2>2. t[k] = w[i + 1 + k - 1]
    BY <1>3, <2>1
  <2> QED BY <1>1, <2>1, <2>2
<1> QED BY <1>1, <1>3, <1>4, <1>5, <1>6

(* What the server sends for a request.                                    *)
LEMMA AnswerShape ==
    ASSUME NEW r \in Requests, NEW status \in Statuses, NEW kind \in AnswerKinds
    PROVE  LET a == AnswerTo(r, status, kind)
           IN /\ a \in Seq(Parts) /\ Len(a) \in 1 .. 2
              /\ a[1].is = kind /\ a[1].req = r /\ a[1].status = status
              /\ Len(a) = 2 => a[2].is = "data" /\ a[2].req = r
                               /\ a[2].status = "other"
              /\ Len(a) = IF kind = "empty" THEN 1 ELSE 2
<1> DEFINE p1 == [req |-> r, status |-> status, is |-> kind]
           p2 == [req |-> r, status |-> "other", is |-> "data"]
<1>1. p1 \in Parts /\ p2 \in Parts
  BY DEF Parts, Statuses
<1>2. AnswerTo(r, status, kind) = IF kind = "empty" THEN <<p1>> ELSE <<p1, p2>>
  BY DEF AnswerTo
<1>3. <<p1>> \in Seq(Parts) /\ Len(<<p1>>) = 1 /\ <<p1>>[1] = p1
  BY <1>1
<1>4. <<p1, p2>> \in Seq(Parts) /\ Len(<<p1, p2>>) = 2 /\ <<p1, p2>>[1] = p1
      /\ <<p1, p2>>[2] = p2
  BY <1>1
<1>5. p1.is = kind /\ p1.req = r /\ p1.status = status /\ p2.is = "data" /\ p2.req = r
      /\ p2.status = "other"
  OBVIOUS
<1> HIDE DEF p1, p2
<1>6. CASE kind = "empty"
  BY <1>2, <1>3, <1>5, <1>6
<1>7. CASE kind # "empty"
  BY <1>2, <1>4, <1>5, <1>7
<1> QED BY <1>6, <1>7

(* What a step of the server does to the wire.                             *)
LEMMA WireGrows ==
    ASSUME TypeOK, ServerAnswers
    PROVE  /\ writes # <<>> /\ Head(writes) = writes[1] /\ 1 \in DOMAIN writes
           /\ writes[1] \in Requests /\ writes' = Tail(writes)
           /\ main' = Append(main, WriteBlock)
           /\ \/ sock # "secured" /\ sock' = "spoilt" /\ wire' = wire
              \/ /\ sock = "secured" /\ sock' = sock
                 /\ \E status \in StatusesFor(cmd[writes[1]]), kind \in AnswerKinds :
                       wire' = wire \o AnswerTo(writes[1], status, kind)
           /\ UNCHANGED <<queues, currentResponseHeader, reads, historyVars,
                          cancelled, bodyLeft, userDefalutsCookie>>
<1>1. PICK status \in Statuses :
        /\ writes # <<>> /\ Head(writes) # TLS
        /\ status \in StatusesFor(cmd[Head(writes)])
        /\ SocketWrites(status)
  BY DEF ServerAnswers
<1>2. Head(writes) = writes[1] /\ writes[1] \in Requests /\ 1 \in DOMAIN writes
  <2>1. Head(writes) = writes[1] /\ writes[1] \in Requests \cup {TLS}
        /\ 1 \in DOMAIN writes
    BY <1>1, TailShape DEF TypeOK
  <2> QED BY <1>1, <2>1
<1>3. \/ sock # "secured" /\ sock' = "spoilt" /\ wire' = wire
      \/ /\ sock = "secured" /\ sock' = sock
         /\ \E kind \in Answers :
               wire' = wire \o AnswerTo(Head(writes), status, kind)
  BY <1>1 DEF SocketWrites
<1>4. Answers \subseteq AnswerKinds
  BY EnvironmentAssumption
<1>5. writes' = Tail(writes) /\ main' = Append(main, WriteBlock)
      /\ UNCHANGED <<queues, currentResponseHeader, reads, historyVars, cancelled,
                     bodyLeft>>
  BY <1>1 DEF SocketWrites
<1>6. UNCHANGED userDefalutsCookie
  BY DEF ServerAnswers
<1> QED BY <1>1, <1>2, <1>3, <1>4, <1>5, <1>6

(* Every step keeps header, answers, socket and main queue in their types. *)
LEMMA AnswerTypesStep ==
    ASSUME TypeOK, Served, Queues, RoomIsKept, [Next]_vars
    PROVE  AnswerTypes'
<1> USE TypesSplit DEF AnswerTypes
<1>0. <<>> \in Seq(Tags) /\ <<>> \in Seq(Parts)
  OBVIOUS
<1>1. main # <<>> => Tail(main) \in Seq(Blocks)
  BY HeadOfMain
<1>2. \A b \in Blocks : Append(main, b) \in Seq(Blocks)
  BY AppendShape
<1>3. \A t \in Tags : Append(reads, t) \in Seq(Tags)
  BY AppendShape
<1>4. reads # <<>> => Tail(reads) \in Seq(Tags)
  BY TailShape
<1>5. {"tls", "header", "body"} = Tags
  BY DEF Tags
<1>6. CASE \E c \in LoginCmds : Ask(c) /\ JoinStep(c)
  BY <1>6 DEF JoinStep
<1>7. CASE FinishStep
  <2>1. UNCHANGED <<reads, wire, cancelled>> /\ main' \in Seq(Blocks)
    BY <1>1, <1>7 DEF FinishStep
  <2>2. Head(main).event = "read" => HeaderOf(Head(main).part) \in Headers
    BY <1>7, HeadOfMain, BlockFields, PartFields DEF FinishStep
  <2>3. currentResponseHeader' \in Headers
    BY <1>7, <2>2 DEF FinishStep, KeepHeader
  <2>4. GivenHeader \in Headers
    BY <2>2 DEF GivenHeader
  <2>5. GivenHeader.req \in 0 .. MaxRequests
    BY <2>4, HeaderFields
  <2>6. userDefalutsCookie' \in 0 .. MaxRequests
    BY <1>7, <2>5 DEF FinishStep, CookieAfter
  <2>7. bodyLeft' \in BOOLEAN
    BY <1>7 DEF FinishStep
  <2> QED BY <2>1, <2>3, <2>6, <2>7
<1>8. CASE HeaderStep
  <2>1. HeaderOf(Head(main).part) \in Headers
    BY <1>8, HeadOfMain, BlockFields, PartFields DEF HeaderStep
  <2> QED BY <1>1, <1>3, <1>5, <1>8, <2>1 DEF HeaderStep, KeepHeader, Queued
<1>9. CASE ConnectStep
  BY <1>1, <1>3, <1>5, <1>9 DEF ConnectStep, DidConnect, StartSSL, Queued
<1>10. CASE WriteStep
  BY <1>1, <1>3, <1>5, <1>10 DEF WriteStep, DidWriteData, Queued
<1>11. CASE ServerAnswers
  <2>1. main' = Append(main, WriteBlock) /\ writes[1] \in Requests
        /\ UNCHANGED <<currentResponseHeader, reads, cancelled, bodyLeft,
                       userDefalutsCookie>>
    BY <1>11, WireGrows
  <2>2. wire' \in Seq(Parts)
    <3>1. StatusesFor(cmd[writes[1]]) \subseteq Statuses
      BY DEF StatusesFor, Statuses
    <3>2. \/ wire' = wire
          \/ \E status \in Statuses, kind \in AnswerKinds :
                wire' = wire \o AnswerTo(writes[1], status, kind)
      BY <1>11, <3>1, WireGrows
    <3>3. \A status \in Statuses, kind \in AnswerKinds :
             AnswerTo(writes[1], status, kind) \in Seq(Parts)
      BY <2>1, AnswerShape
    <3> QED BY <3>2, <3>3, ConcatProperties
  <2> QED BY <1>2, <2>1, <2>2, BlocksAreBlocks
<1>12. CASE CloseStep
  BY <1>0, <1>2, <1>12, BlocksAreBlocks DEF CloseStep, SocketCloses
<1>13. CASE CancelStep
  BY <1>0, <1>13 DEF CancelStep, CancelAll, socketVars
<1>14. CASE OpenStep
  BY <1>2, <1>14, BlocksAreBlocks DEF OpenStep, SocketConnects
<1>15. CASE SecureStep
  BY <1>4, <1>15 DEF SecureStep, SocketSecures, HandshakeIsDue
<1>16. CASE ReadStep
  <2>1. PICK i \in DOMAIN wire, status \in Statuses : Reads(i, status)
    BY <1>16, ReadShape
  <2>2. wire' \in Seq(Parts)
    BY <2>1, WireRest DEF Reads
  <2>3. main' \in Seq(Blocks)
    <3>1. wire[i] \in Parts
      OBVIOUS
    <3>2. [wire[i] EXCEPT !.status = status] \in Parts
      BY <3>1, PartFields
    <3> QED BY <1>2, <1>5, <2>1, <3>2, BlocksAreBlocks DEF Reads
  <2>4. reads' \in Seq(Tags)
    BY <1>4, <1>16, <2>1, ReadShape DEF Reads
  <2> QED BY <1>16, <2>2, <2>3, <2>4 DEF ReadStep, SocketReads
<1>17. CASE UNCHANGED vars
  BY <1>17 DEF vars, queueVars, socketVars
<1> QED BY <1>6, <1>7, <1>8, <1>9, <1>10, <1>11, <1>12, <1>13, <1>14, <1>15,
           <1>16, <1>17, NextCases

(* Every step keeps the type invariant. *)
LEMMA TypeStep ==
    ASSUME TypeOK, Served, Queues, RoomIsKept, HeaderFirst, [Next]_vars
    PROVE  TypeOK'
<1>1. RequestTypes' /\ AnswerTypes'
  BY RequestTypesStep, AnswerTypesStep
<1> QED BY <1>1 DEF TypeOK, RequestTypes, AnswerTypes


-----------------------------------------------------------------------------
(* The connection.                                                         *)

(* What a step does to the main queue, to the last header read and to      *)
(* cancelled.                                                              *)
LEMMA MainSteps ==
    ASSUME TypeOK, Served, Queues, RoomIsKept, [Next]_vars
    PROVE  /\ \/ main # <<>> /\ main' = Tail(main)
              \/ main' \in {main, Append(main, ConnectBlock),
                            Append(main, WriteBlock),
                            Append(main, DisconnectBlock)}
                 /\ UNCHANGED currentResponseHeader
              \/ ReadStep
           /\ cancelled => cancelled'
           /\ bodyLeft => bodyLeft'
<1> USE DEF socketVars, historyVars
<1>1. CASE \E c \in LoginCmds : Ask(c) /\ JoinStep(c)
  BY <1>1 DEF JoinStep
<1>2. CASE FinishStep
  <2>1. main # <<>> /\ main' = Tail(main) /\ UNCHANGED cancelled
    BY <1>2 DEF FinishStep
  <2>2. UNCHANGED bodyLeft \/ \E b \in BOOLEAN : bodyLeft' = (bodyLeft \/ b)
    BY <1>2 DEF FinishStep
  <2>3. bodyLeft => bodyLeft'
    BY <2>2, Zenon
  <2> QED BY <2>1, <2>3
<1>3. CASE HeaderStep
  BY <1>3 DEF HeaderStep
<1>4. CASE ConnectStep
  BY <1>4 DEF ConnectStep, DidConnect
<1>5. CASE WriteStep
  BY <1>5 DEF WriteStep, DidWriteData
<1>6. CASE ServerAnswers
  BY <1>6, WireGrows
<1>7. CASE CloseStep
  BY <1>7 DEF CloseStep, SocketCloses
<1>8. CASE CancelStep
  BY <1>8 DEF CancelStep, CancelAll
<1>9. CASE OpenStep
  BY <1>9 DEF OpenStep, SocketConnects
<1>10. CASE SecureStep
  BY <1>10 DEF SecureStep, SocketSecures
<1>11. CASE ReadStep
  BY <1>11 DEF ReadStep, SocketReads
<1>12. CASE UNCHANGED vars
  BY <1>12 DEF vars, queueVars
<1> QED BY <1>1, <1>2, <1>3, <1>4, <1>5, <1>6, <1>7, <1>8, <1>9, <1>10, <1>11,
           <1>12, NextCases

(* Every step keeps data from being read before a header is kept. *)
LEMMA HeaderFirstStep ==
    ASSUME TypeOK, Served, Queues, RoomIsKept, HeaderFirst, [Next]_vars
    PROVE  HeaderFirst'
<1> SUFFICES ASSUME currentResponseHeader' = NoHeader
             PROVE  /\ \A i \in DOMAIN reads' : reads'[i] # "body"
                    /\ \A i \in DOMAIN main' :
                          main'[i].event = "read" => main'[i].tag # "body"
  BY DEF HeaderFirst, IsRead
<1>1. main # <<>> /\ Head(main).event = "read" =>
         ~ KeepHeader(Head(main).part)
  BY HeadOfMain, BlockFields, PartFields DEF KeepHeader
<1>2. currentResponseHeader' = currentResponseHeader /\ ~ HeaderStep
  <2>1. ~ HeaderStep
    BY <1>1 DEF HeaderStep
  <2>2. FinishStep => UNCHANGED currentResponseHeader
    BY <1>1 DEF FinishStep
  <2>3. main # <<>> /\ main' = Tail(main) /\ ~ FinishStep
           => UNCHANGED currentResponseHeader
    BY <2>1, NextCases DEF JoinStep, ConnectStep, DidConnect, WriteStep,
       DidWriteData, ServerAnswers, SocketWrites, CloseStep, SocketCloses,
       CancelStep, CancelAll, OpenStep, SocketConnects, SecureStep,
       SocketSecures, ReadStep, SocketReads, vars, queueVars
  <2>4. ReadStep => UNCHANGED currentResponseHeader
    BY DEF ReadStep, SocketReads
  <2> QED BY <2>1, <2>2, <2>3, <2>4, MainSteps
<1>3. /\ \A i \in DOMAIN reads : reads[i] # "body"
      /\ \A i \in DOMAIN main : main[i].event = "read" => main[i].tag # "body"
  BY <1>2 DEF HeaderFirst, IsRead
<1>4. \A i \in DOMAIN main' : main'[i].event = "read" => main'[i].tag # "body"
  <2>1. CASE main # <<>> /\ main' = Tail(main)
    BY <1>3, <2>1, HeadOfMain
  <2>2. ASSUME NEW b \in Blocks, main' = Append(main, b),
               b.event = "read" => b.tag # "body"
        PROVE  \A i \in DOMAIN main' : main'[i].event = "read" => main'[i].tag # "body"
    <3>1. main \in Seq(Blocks)
      BY DEF TypeOK
    <3>2. \A i \in DOMAIN main' : main'[i] = b \/ (i \in DOMAIN main /\ main'[i] = main[i])
      BY <2>2, <3>1, AppendShape
    <3> QED BY <1>3, <2>2, <3>2
  <2>3. CASE ReadStep
    <3>1. PICK i \in DOMAIN wire, status \in Statuses : Reads(i, status)
      BY <2>3, ReadShape
    <3>2. reads[1] = "header"
      BY <1>3, <3>1 DEF Reads
    <3>3. wire[i] \in Parts
      BY DEF TypeOK
    <3>4. [wire[i] EXCEPT !.status = status] \in Parts
      BY <3>3, PartFields
    <3>5. main' = Append(main, ReadBlock("header", [wire[i] EXCEPT !.status = status]))
      BY <3>1, <3>2 DEF Reads
    <3>6. "header" \in Tags
      BY DEF Tags
    <3> QED BY <2>2, <3>4, <3>5, <3>6, BlocksAreBlocks
  <2>4. CASE main' = main
    BY <1>3, <2>4
  <2> QED BY <2>1, <2>2, <2>3, <2>4, MainSteps, BlocksAreBlocks
<1>5. \A i \in DOMAIN reads' : reads'[i] # "body"
  <2>1. reads' \in {reads, <<>>, Append(reads, "tls"), Append(reads, "header")}
        \/ (reads # <<>> /\ reads' = Tail(reads))
    BY <1>2, NextCases DEF JoinStep, FinishStep, ConnectStep, DidConnect, WriteStep,
       DidWriteData, StartSSL, Queued, ServerAnswers, SocketWrites, CloseStep,
       SocketCloses, CancelStep, CancelAll, OpenStep, SocketConnects, SecureStep,
       SocketSecures, HandshakeIsDue, ReadStep, SocketReads, vars, queueVars,
       socketVars
  <2>2. reads \in Seq(Tags)
    BY DEF TypeOK
  <2>3. reads # <<>> => \A i \in DOMAIN Tail(reads) : Tail(reads)[i] # "body"
    BY <1>3, <2>2, TailShape
  <2>4. \A t \in {"tls", "header"} : \A i \in DOMAIN Append(reads, t) :
           Append(reads, t)[i] # "body"
    <3>1. ASSUME NEW t \in {"tls", "header"}
          PROVE  \A i \in DOMAIN Append(reads, t) : Append(reads, t)[i] # "body"
      <4>1. t \in Tags
        BY DEF Tags
      <4> DEFINE u == Append(reads, t)
      <4>2. /\ DOMAIN u = 1 .. Len(reads) + 1 /\ u[Len(reads) + 1] = t
            /\ DOMAIN reads = 1 .. Len(reads) /\ Len(reads) \in Nat
            /\ \A k \in DOMAIN reads : u[k] = reads[k]
        BY <2>2, <4>1, AppendShape
      <4> HIDE DEF u
      <4>3. \A i \in DOMAIN u : u[i] # "body"
        BY <1>3, <4>2
      <4> QED BY <4>3 DEF u
    <3> QED BY <3>1
  <2>5. DOMAIN <<>> = {}
    OBVIOUS
  <2> QED BY <1>3, <2>1, <2>3, <2>4, <2>5
<1> QED BY <1>4, <1>5


(* Only a first connection, with nothing to write before TLS, gets as far  *)
(* as a handshake (Connects).                                              *)
LEMMA ConnectsStep ==
    ASSUME TypeOK, Served, Queues, RoomIsKept, Connects, [Next]_vars
    PROVE  Connects'
<1> DEFINE W == writes
<1>1. /\ writes \in Seq(Requests \cup {TLS}) /\ TLS \in Requests \cup {TLS}
      /\ main \in Seq(Blocks) /\ reads \in Seq(Tags)
  BY DEF TypeOK
<1>2. \A x \in Requests \cup {TLS} :
         /\ Append(writes, x) # <<>>
         /\ Head(Append(writes, x)) = IF writes = <<>> THEN x ELSE Head(writes)
  BY <1>1, AppendShape, HeadTailAppend
<1>3. \A r \in Requests : r # TLS
  BY DEF Requests, TLS
<1>4. /\ Fresh => ~ (main # <<>> /\ Head(main) # ConnectBlock)
      /\ Handshakes /\ ~ cancelled => main = <<>>
      /\ sock = "connecting" /\ writes = <<>> => main = <<>>
  <2>1. Head(<<ConnectBlock>>) = ConnectBlock
    OBVIOUS
  <2> QED BY <2>1 DEF Connects, Fresh
<1>5. CASE \E c \in LoginCmds : Ask(c) /\ JoinStep(c)
  <2>1. PICK c \in LoginCmds : JoinStep(c)
    BY <1>5
  <2>2. /\ Joins(c) /\ UNCHANGED <<reads, wire, main, cancelled>>
        /\ issued + 1 \in Requests
    BY <2>1 DEF JoinStep, Joins
  <2>3. CASE currentRequest # NoRequest
    <3>1. UNCHANGED <<currentRequest, sock, writes>>
      BY <2>2, <2>3 DEF Joins
    <3> QED BY <2>2, <2>3, <3>1 DEF Connects, Fresh, Handshakes
  <2>4. CASE currentRequest = NoRequest
    <3>1. /\ currentRequest' = issued + 1 /\ sock' = Started(sock)
          /\ writes' = Append(writes, issued + 1)
      BY <2>2, <2>4 DEF Joins
    <3>2. sock' = IF sock = "closed" THEN "connecting" ELSE sock
      BY <3>1 DEF Started
    <3>3. /\ writes' # <<>>
          /\ Head(writes') = IF writes = <<>> THEN issued + 1 ELSE Head(writes)
      BY <1>2, <2>2, <3>1
    <3>4. ~ Fresh' /\ sock' # "closed"
      BY <3>2, <3>3 DEF Fresh
    <3>5. sock' # "secured" => wire' = <<>>
      BY <2>2, <3>2 DEF Connects
    <3>6. sock' = "connecting" => Head(writes') # TLS
      BY <1>3, <2>2, <3>2, <3>3 DEF Connects
    <3>7. ASSUME Handshakes', ~ cancelled'
          PROVE  /\ main' = <<>> /\ reads' = <<"tls">>
                 /\ writes' = <<TLS, currentRequest'>>
      <4>1. Handshakes /\ ~ cancelled
        BY <1>3, <2>2, <3>2, <3>3, <3>7 DEF Handshakes
      <4>2. main = <<>> /\ reads = <<"tls">> /\ writes = <<TLS>>
        BY <2>4, <4>1 DEF Connects
      <4>3. Append(<<TLS>>, issued + 1) = <<TLS, issued + 1>>
        <5>1. issued + 1 \in Requests \cup {TLS}
          BY <2>2
        <5> QED BY <1>1, <5>1, AppendOne
      <4> QED BY <2>2, <3>1, <4>2, <4>3
    <3>8. currentRequest' # NoRequest
      BY <2>2, <3>1 DEF Requests, NoRequest
    <3> QED BY <3>4, <3>5, <3>6, <3>7, <3>8 DEF Connects
  <2> QED BY <2>3, <2>4
<1>6. CASE FinishStep
  <2>1. main # <<>> /\ Head(main) # ConnectBlock
    BY <1>6, HeadOfMain, BlockFields DEF FinishStep, DisconnectBlock, ConnectBlock
  <2>2. /\ ~ Fresh /\ ~ (Handshakes /\ ~ cancelled)
        /\ sock = "connecting" => writes # <<>>
    BY <1>4, <2>1
  <2>3. UNCHANGED <<reads, wire, cancelled>> /\ Serves
    BY <1>6 DEF FinishStep, Finishes
  <2>4. CASE sock' = sock /\ writes' = writes
    <3>1. ~ Fresh' /\ ~ (Handshakes' /\ ~ cancelled')
      BY <2>2, <2>3, <2>4 DEF Fresh, Handshakes
    <3> QED BY <2>3, <2>4, <3>1 DEF Connects
  <2>5. CASE /\ currentRequest' \in Requests /\ sock' = Started(sock)
             /\ writes' = Append(writes, currentRequest')
    <3>1. sock' = IF sock = "closed" THEN "connecting" ELSE sock
      BY <2>5 DEF Started
    <3>2. /\ writes' # <<>>
          /\ Head(writes') = IF writes = <<>> THEN currentRequest' ELSE Head(writes)
      BY <1>2, <2>5
    <3>3. ~ Fresh' /\ sock' # "closed"
      BY <3>1, <3>2 DEF Fresh
    <3>4. sock' # "secured" => wire' = <<>>
      BY <2>3, <3>1 DEF Connects
    <3>5. sock' = "connecting" => Head(writes') # TLS
      BY <1>3, <2>5, <3>1, <3>2 DEF Connects
    <3>6. ~ (Handshakes' /\ ~ cancelled')
      BY <1>3, <2>2, <2>3, <2>5, <3>1, <3>2 DEF Handshakes
    <3> QED BY <3>3, <3>4, <3>5, <3>6 DEF Connects
  <2> QED BY <2>3, <2>4, <2>5 DEF Serves
<1>7. CASE HeaderStep
  <2>1. main # <<>> /\ Head(main) # ConnectBlock
    BY <1>7, HeadOfMain, BlockFields DEF HeaderStep
  <2>2. ~ Fresh /\ ~ (Handshakes /\ ~ cancelled)
    BY <1>4, <2>1
  <2>3. UNCHANGED <<sock, writes, wire, cancelled>>
    BY <1>7 DEF HeaderStep
  <2>4. ~ Fresh' /\ ~ (Handshakes' /\ ~ cancelled')
    BY <2>2, <2>3 DEF Fresh, Handshakes
  <2> QED BY <2>3, <2>4 DEF Connects
<1>8. CASE ConnectStep
  <2>1. /\ main # <<>> /\ Head(main) = ConnectBlock /\ main' = Tail(main)
        /\ StartSSL /\ UNCHANGED <<currentRequest, sock, wire, cancelled>>
    BY <1>8 DEF ConnectStep, DidConnect, queues
  <2>2. ~ (Handshakes /\ ~ cancelled) /\ (sock = "connecting" => writes # <<>>)
    BY <1>4, <2>1
  <2>3. CASE Fresh
    <3>1. sock = "connected" /\ main = <<ConnectBlock>> /\ currentRequest = NoRequest
          /\ reads = <<>> /\ writes = <<>>
      BY <2>2, <2>3 DEF Connects, Fresh
    <3>2. main' = <<>> /\ TLS \notin ToSet(writes)
      BY <2>1, <3>1 DEF ToSet
    <3>3. writes' = Append(<<>>, TLS) /\ reads' = Append(<<>>, "tls")
      BY <2>1, <3>1, <3>2 DEF StartSSL, Queued
    <3>4. Append(<<>>, TLS) = <<TLS>> /\ Append(<<>>, "tls") = <<"tls">>
          /\ <<TLS>> # <<>>
      OBVIOUS
    <3>5. writes' = <<TLS>> /\ reads' = <<"tls">> /\ writes' # <<>>
      BY <3>3, <3>4
    <3>6. ~ Fresh' /\ sock' = "connected"
      BY <2>1, <3>1, <3>5 DEF Fresh
    <3>7. sock' # "secured" => wire' = <<>>
      BY <2>1 DEF Connects
    <3> QED BY <2>1, <3>1, <3>2, <3>5, <3>6, <3>7 DEF Connects
  <2>4. CASE ~ Fresh
    <3>1. writes' = writes \/ (sock # "closed" /\ writes' = Append(writes, TLS))
      BY <2>1 DEF StartSSL, Queued
    <3>2. sock \in {"connecting", "connected"} => writes # <<>>
      BY <2>4 DEF Fresh
    <3>3. writes # <<>> => writes' # <<>> /\ Head(writes') = Head(writes)
      BY <1>1, <1>2, <3>1
    <3>4. ~ Fresh' /\ ~ (Handshakes' /\ ~ cancelled')
      BY <2>1, <2>2, <3>2, <3>3 DEF Fresh, Handshakes
    <3>5. sock' = "connecting" => Head(writes') # TLS
      BY <2>1, <3>2, <3>3 DEF Connects
    <3>6. /\ sock' # "secured" => wire' = <<>>
          /\ sock' = "closed" => writes' = <<>>
      BY <2>1, <3>1 DEF Connects
    <3> QED BY <3>4, <3>5, <3>6 DEF Connects
  <2> QED BY <2>3, <2>4
<1>9. CASE WriteStep
  <2>1. /\ main # <<>> /\ Head(main) = WriteBlock
        /\ UNCHANGED <<sock, writes, wire, cancelled>>
    BY <1>9 DEF WriteStep, DidWriteData
  <2>2. Head(main) # ConnectBlock
    BY <2>1 DEF WriteBlock, ConnectBlock
  <2>3. ~ Fresh /\ ~ (Handshakes /\ ~ cancelled)
    BY <1>4, <2>1, <2>2
  <2>4. ~ Fresh' /\ ~ (Handshakes' /\ ~ cancelled')
    BY <2>1, <2>3 DEF Fresh, Handshakes
  <2> QED BY <2>1, <2>4 DEF Connects
<1>10. CASE ServerAnswers
  <2>1. \/ sock # "secured" /\ sock' = "spoilt" /\ wire' = wire
        \/ sock' = "secured"
    BY <1>10, WireGrows
  <2> QED BY <2>1 DEF Connects, Fresh, Handshakes
<1>11. CASE CloseStep
  BY <1>11 DEF CloseStep, SocketCloses, Connects, Fresh, Handshakes
<1>12. CASE CancelStep
  <2>1. cancelled' /\ currentRequest' = NoRequest
        /\ UNCHANGED <<sock, writes, reads, wire, main>>
    BY <1>12 DEF CancelStep, CancelAll, socketVars
  <2> QED BY <2>1 DEF Connects, Fresh
<1>13. CASE OpenStep
  <2>1. /\ sock = "connecting" /\ sock' = "connected"
        /\ main' = Append(main, ConnectBlock)
        /\ UNCHANGED <<currentRequest, writes, reads, wire>>
    BY <1>13 DEF OpenStep, SocketConnects, queues
  <2>2. ~ Handshakes'
    BY <2>1 DEF Connects, Handshakes
  <2>3. ASSUME Fresh'
        PROVE  currentRequest' = NoRequest /\ reads' = <<>> /\ main' = <<ConnectBlock>>
    <3>1. Fresh
      BY <2>1, <2>3 DEF Fresh
    <3>2. currentRequest = NoRequest /\ reads = <<>> /\ main = <<>>
      BY <2>1, <3>1 DEF Connects
    <3>3. Append(<<>>, ConnectBlock) = <<ConnectBlock>>
      OBVIOUS
    <3> QED BY <2>1, <3>2, <3>3
  <2> QED BY <2>1, <2>2, <2>3 DEF Connects
<1>14. CASE SecureStep
  <2>1. sock' = "secured"
    BY <1>14 DEF SecureStep, SocketSecures
  <2> QED BY <2>1 DEF Connects, Fresh, Handshakes
<1>15. CASE ReadStep
  <2>1. sock' = "secured"
    BY <1>15 DEF ReadStep, SocketReads
  <2> QED BY <2>1 DEF Connects, Fresh, Handshakes
<1>16. CASE UNCHANGED vars
  BY <1>16 DEF vars, queueVars, socketVars, queues, Connects, Fresh, Handshakes
<1> QED BY <1>5, <1>6, <1>7, <1>8, <1>9, <1>10, <1>11, <1>12, <1>13, <1>14,
           <1>15, <1>16, NextCases


-----------------------------------------------------------------------------
(* The exchanges.                                                          *)

(* The stages in which the socket has something to read, and what a block  *)
(* of the main queue can be in the others.                                 *)
LEMMA StageOfRead ==
    ASSUME TypeOK, Exchange, ~ cancelled, sock = "secured",
           reads # <<>>, reads[1] # "tls"
    PROVE  HeaderDue \/ BodyDue
<1>1. reads # <<>>
  OBVIOUS
<1> QED BY <1>1 DEF Exchange, Idle, ToWrite, Written, HeaderRead, BodyRead

(* The stage of the exchange is told by the block at the head of the main queue. *)
LEMMA StageOfBlock ==
    ASSUME TypeOK, Exchange, ~ cancelled, sock = "secured", main # <<>>
    PROVE  /\ Tail(main) = <<>> /\ writes = <<>> /\ currentRequest # NoRequest
           /\ \/ Written /\ Head(main) = WriteBlock
              \/ HeaderRead /\ Head(main).event = "read" /\ Head(main).tag = "header"
              \/ BodyRead /\ Head(main).event = "read" /\ Head(main).tag = "body"
<1>1. CASE Written
  <2>1. Head(<<WriteBlock>>) = WriteBlock /\ Tail(<<WriteBlock>>) = <<>>
    OBVIOUS
  <2> QED BY <1>1, <2>1 DEF Written
<1>2. CASE HeaderRead \/ BodyRead
  <2>1. Len(main) = 1 /\ writes = <<>> /\ currentRequest # NoRequest
    BY <1>2 DEF HeaderRead, BodyRead
  <2>2. Tail(main) \in Seq(Blocks) /\ Len(Tail(main)) = 0
    BY <2>1, HeadOfMain
  <2>3. Tail(main) = <<>>
    BY <2>2, EmptySeq
  <2>4. Head(main) = main[1]
    BY HeadOfMain
  <2> QED BY <1>2, <2>1, <2>3, <2>4 DEF HeaderRead, BodyRead
<1>3. main # <<>>
  OBVIOUS
<1> QED BY <1>1, <1>2, <1>3 DEF Exchange, Idle, ToWrite, HeaderDue, BodyDue

(* A read takes what comes next: bytes of one answer, body after header,   *)
(* and of the current request's until a body is left on the wire.          *)
LEMMA ReadTakesNext ==
    ASSUME TypeOK, Exchange, ~ cancelled, ReadStep
    PROVE  /\ (HeaderRead' \/ BodyRead')
           /\ DOMAIN main' = {1} /\ main'[1].event = "read"
           /\ main'[1].tag = "body" =>
                main'[1].part.req = currentResponseHeader.req
           /\ ~ bodyLeft => main'[1].part.req = currentRequest
           /\ UNCHANGED <<currentRequest, currentResponseHeader, bodyLeft>>
<1>1. PICK i \in DOMAIN wire, status \in Statuses : Reads(i, status)
  BY ReadShape
<1>2. /\ reads # <<>> /\ Head(reads) = reads[1] /\ sock = "secured"
      /\ UNCHANGED <<currentRequest, currentResponseHeader, writes, sock, cancelled,
                     bodyLeft>>
      /\ reads[1] # "tls"
  BY <1>1, ReadShape DEF ReadStep, SocketReads, queues, Reads
<1>3. HeaderDue \/ BodyDue
  BY <1>2, StageOfRead
<1> DEFINE p == [wire[i] EXCEPT !.status = status]
           b == ReadBlock(reads[1], p)
<1>4. wire \in Seq(Parts) /\ wire[i] \in Parts /\ main = <<>> /\ writes = <<>>
      /\ currentRequest # NoRequest /\ i \in 1 .. Len(wire)
  BY <1>3 DEF TypeOK, HeaderDue, BodyDue
<1>5. p \in Parts /\ p.req = wire[i].req /\ p.is = wire[i].is
  BY <1>4, PartFields
<1>6. main' = Append(main, b) /\ wire' = SubSeq(wire, i + 1, Len(wire))
      /\ reads' = Tail(reads)
  BY <1>1 DEF Reads
<1>7. b.event = "read" /\ b.tag = reads[1] /\ b.part = p
  BY BlocksAreBlocks
<1> HIDE DEF b, p
<1>8. main' = <<b>> /\ Len(main') = 1 /\ main'[1] = b /\ DOMAIN main' = {1}
  BY <1>4, <1>6
<1>9. /\ Len(wire') = Len(wire) - i /\ DOMAIN wire' = 1 .. Len(wire) - i
      /\ Len(wire) \in Nat /\ wire' \in Seq(Parts) /\ DOMAIN wire = 1 .. Len(wire)
      /\ \A k \in DOMAIN wire' : k + i \in DOMAIN wire /\ wire'[k] = wire[k + i]
  BY <1>4, <1>6, WireRest
<1>10. Stream(wire')
  <2>1. Stream(wire)
    BY <1>3 DEF HeaderDue, BodyDue
  <2>2. ASSUME NEW k \in DOMAIN wire', wire'[k].is = "counted"
        PROVE  k + 1 \in DOMAIN wire' /\ wire'[k + 1].req = wire'[k].req
    <3>1. k + i \in DOMAIN wire /\ wire[k + i].is = "counted" /\ wire'[k] = wire[k + i]
      BY <1>9, <2>2
    <3>2. k + i + 1 \in DOMAIN wire /\ wire[k + i + 1].req = wire[k + i].req
      BY <2>1, <3>1 DEF Stream
    <3>3. k + 1 \in DOMAIN wire' /\ k + 1 + i = k + i + 1
      BY <1>4, <1>9, <3>2
    <3>4. wire'[k + 1] = wire[k + i + 1]
      BY <1>9, <3>3
    <3> QED BY <3>1, <3>2, <3>3, <3>4
  <2> QED BY <2>2 DEF Stream
<1>11. CASE HeaderDue
  <2>1. /\ reads = <<"header">> /\ Stream(wire)
        /\ ~ bodyLeft => Whole(wire, currentRequest)
    BY <1>11 DEF HeaderDue
  <2>2. reads[1] = "header" /\ Tail(<<"header">>) = <<>> /\ Head(reads) = "header"
    BY <1>2, <2>1
  <2>3. p.is = "counted" => 1 \in DOMAIN wire' /\ wire'[1].req = p.req
    <3> SUFFICES ASSUME p.is = "counted"
                 PROVE  1 \in DOMAIN wire' /\ wire'[1].req = p.req
      OBVIOUS
    <3>1. i + 1 \in DOMAIN wire /\ wire[i + 1].req = wire[i].req
      BY <1>5, <2>1 DEF Stream
    <3>2. 1 \in DOMAIN wire' /\ 1 + i = i + 1
      BY <1>4, <1>9, <3>1
    <3>3. wire'[1] = wire[i + 1]
      BY <1>9, <3>2
    <3> QED BY <1>5, <3>1, <3>2, <3>3
  <2>4. ~ bodyLeft => LeftBy(wire', p) /\ p.req = currentRequest
    <3> SUFFICES ASSUME ~ bodyLeft
                 PROVE  LeftBy(wire', p) /\ p.req = currentRequest
      OBVIOUS
    <3>1. Whole(wire, currentRequest)
      BY <2>1
    <3>2. 1 \in DOMAIN wire /\ wire[1].is # "data"
      BY <1>4, <3>1 DEF Whole
    <3>3. \A j \in DOMAIN wire : j < i => wire[j].is = "data"
      BY <1>1, <2>2 DEF Reads, ReadsPart
    <3>4. i = 1
      BY <1>4, <3>2, <3>3
    <3>5. Len(wire') = Len(wire) - 1
      BY <1>9, <3>4
    <3>6. Len(wire') = 0 => wire' = <<>>
      BY <1>9, EmptySeq
    <3> QED BY <1>5, <1>9, <3>1, <3>4, <3>5, <3>6 DEF Whole, LeftBy
  <2>5. HeaderRead'
    BY <1>2, <1>4, <1>6, <1>7, <1>8, <1>10, <2>1, <2>2, <2>3, <2>4 DEF HeaderRead
  <2> QED BY <1>2, <1>7, <1>8, <2>2, <2>4, <2>5
<1>12. CASE BodyDue
  <2>1. /\ reads = <<"body">> /\ wire[1].req = currentResponseHeader.req
        /\ ~ bodyLeft => /\ currentResponseHeader.req = currentRequest
                         /\ Len(wire) = 1
    BY <1>12 DEF BodyDue
  <2>2. reads[1] = "body" /\ Tail(<<"body">>) = <<>> /\ Head(reads) # "header"
    BY <1>2, <2>1
  <2>3. i = 1
    BY <1>1, <2>2 DEF Reads, ReadsPart
  <2>4. p.req = currentResponseHeader.req
    BY <1>5, <2>1, <2>3
  <2>5. ~ bodyLeft => wire' = <<>>
    <3>1. Len(wire) = 1 => Len(wire') = 0
      BY <1>9, <2>3
    <3> QED BY <1>9, <2>1, <3>1, EmptySeq
  <2>6. BodyRead'
    BY <1>2, <1>4, <1>6, <1>7, <1>8, <1>10, <2>1, <2>2, <2>5 DEF BodyRead
  <2> QED BY <1>2, <1>7, <1>8, <2>1, <2>4, <2>6
<1> QED BY <1>3, <1>11, <1>12

(* The request on its way is the one whose answer the main queue is told   *)
(* of (AnswerIsOwn).                                                       *)
LEMMA OwnStep ==
    ASSUME TypeOK, Served, Queues, RoomIsKept, Connects, Exchange, AnswerIsOwn,
           [Next]_vars
    PROVE  AnswerIsOwn'
<1> SUFFICES ASSUME ~ cancelled'
             PROVE  \A i \in DOMAIN main' : main'[i].event = "read" =>
                       /\ i = 1
                       /\ main'[1].tag = "body" =>
                            main'[1].part.req = currentResponseHeader'.req
                       /\ ~ bodyLeft' => main'[1].part.req = currentRequest'
  BY DEF AnswerIsOwn, IsRead
<1>1. ~ cancelled /\ (~ bodyLeft' => ~ bodyLeft)
  BY MainSteps
<1>2. \A i \in DOMAIN main : main[i].event = "read" =>
         /\ i = 1
         /\ main[1].tag = "body" => main[1].part.req = currentResponseHeader.req
         /\ ~ bodyLeft => main[1].part.req = currentRequest
  BY <1>1 DEF AnswerIsOwn, IsRead
<1>3. main \in Seq(Blocks)
  BY DEF TypeOK
<1>4. CASE main # <<>> /\ main' = Tail(main)
  <2>1. ASSUME NEW i \in DOMAIN main' PROVE main'[i].event # "read"
    <3>1. i + 1 \in DOMAIN main /\ main'[i] = main[i + 1] /\ i + 1 # 1
      BY <1>4, HeadOfMain
    <3> QED BY <1>2, <3>1
  <2> QED BY <2>1
<1>5. CASE ReadStep
  <2>1. /\ DOMAIN main' = {1}
        /\ main'[1].tag = "body" => main'[1].part.req = currentResponseHeader.req
        /\ ~ bodyLeft => main'[1].part.req = currentRequest
        /\ UNCHANGED <<currentRequest, currentResponseHeader, bodyLeft>>
    BY <1>1, <1>5, ReadTakesNext
  <2>2. \A i \in DOMAIN main' : i = 1
    BY <2>1
  <2> QED BY <2>1, <2>2
<1>6. CASE /\ main' \in {main, Append(main, ConnectBlock),
                         Append(main, WriteBlock), Append(main, DisconnectBlock)}
           /\ UNCHANGED currentResponseHeader
           /\ ~ (main # <<>> /\ main' = Tail(main))
  <2>1. \A i \in DOMAIN main' : main'[i].event = "read" =>
            i \in DOMAIN main /\ main'[i] = main[i]
    <3>1. ASSUME NEW b \in Blocks, b.event # "read", main' = Append(main, b)
          PROVE  \A i \in DOMAIN main' : main'[i].event = "read" =>
                    i \in DOMAIN main /\ main'[i] = main[i]
      BY <1>3, <3>1, AppendShape
    <3> QED BY <1>6, <3>1, BlocksAreBlocks
  <2>2. \/ currentRequest' = currentRequest \/ bodyLeft
        \/ \A i \in DOMAIN main : main[i].event # "read"
    <3>1. CASE \E c \in LoginCmds : Ask(c) /\ JoinStep(c)
      <4>1. currentRequest' = currentRequest \/ currentRequest = NoRequest
        BY <3>1 DEF JoinStep, Joins
      <4>2. \A i \in DOMAIN main : main[i].event = "read" => main[i].part.req # NoRequest
        <5>1. ASSUME NEW i \in DOMAIN main, main[i].event = "read"
              PROVE  main[i].part.req # NoRequest
          <6>1. main[i] \in Blocks
            BY <1>3
          <6>2. main[i].part.req \in Requests
            BY <5>1, <6>1, BlockFields, PartFields
          <6> QED BY <6>2 DEF Requests, NoRequest
        <5> QED BY <5>1
      <4> QED BY <1>2, <4>1, <4>2
    <3>2. ~ FinishStep
      BY <1>6 DEF FinishStep
    <3>3. CASE CancelStep
      BY <3>3 DEF CancelStep, CancelAll
    <3>4. CASE Keeps
      BY <3>4 DEF Keeps, queues
    <3> QED BY <3>1, <3>2, <3>3, <3>4, NextCases, QuietSteps
  <2>3. \A i \in DOMAIN main' : main'[i].event = "read" =>
           /\ i = 1 /\ main[i].event = "read" /\ main'[1] = main[1] /\ i \in DOMAIN main
    BY <1>2, <2>1
  <2> QED BY <1>1, <1>2, <1>6, <2>2, <2>3
<1> QED BY <1>4, <1>5, <1>6, MainSteps


(* The answer of the server joins what is left on the wire.                *)
LEMMA AnswerStreams ==
    ASSUME NEW w \in Seq(Parts), Stream(w), NEW r \in Requests,
           NEW status \in Statuses, NEW kind \in AnswerKinds
    PROVE  /\ Stream(w \o AnswerTo(r, status, kind))
           /\ w = <<>> => Whole(w \o AnswerTo(r, status, kind), r)
<1> DEFINE a == AnswerTo(r, status, kind)
           t == w \o a
<1>1. /\ a \in Seq(Parts) /\ Len(a) \in 1 .. 2 /\ a[1].is = kind /\ a[1].req = r
      /\ Len(a) = 2 => a[2].is = "data" /\ a[2].req = r
      /\ Len(a) = IF kind = "empty" THEN 1 ELSE 2
  BY AnswerShape
<1>2. kind # "data" /\ (kind = "counted" => kind # "empty")
  BY DEF AnswerKinds
<1> HIDE DEF a
<1>3. /\ t \in Seq(Parts) /\ Len(t) = Len(w) + Len(a) /\ DOMAIN t = 1 .. Len(t)
      /\ Len(w) \in Nat /\ DOMAIN w = 1 .. Len(w)
      /\ \A i \in 1 .. Len(w) + Len(a) :
            t[i] = IF i <= Len(w) THEN w[i] ELSE a[i - Len(w)]
  BY <1>1, ConcatProperties, LenProperties
<1>4. w = <<>> => t = a
  BY <1>1, ConcatEmptySeq
<1> HIDE DEF t
<1>5. ASSUME NEW i \in DOMAIN t, t[i].is = "counted"
      PROVE  i + 1 \in DOMAIN t /\ t[i + 1].req = t[i].req
  <2>1. CASE i <= Len(w)
    <3>1. i \in DOMAIN w /\ t[i] = w[i]
      BY <1>1, <1>3, <2>1
    <3>2. i + 1 \in DOMAIN w /\ w[i + 1].req = w[i].req
      BY <1>5, <3>1 DEF Stream
    <3>3. i + 1 \in DOMAIN t /\ t[i + 1] = w[i + 1]
      BY <1>1, <1>3, <3>2
    <3> QED BY <3>1, <3>2, <3>3
  <2>2. CASE ~ (i <= Len(w))
    <3>1. i - Len(w) \in 1 .. Len(a) /\ t[i] = a[i - Len(w)]
      BY <1>1, <1>3, <2>2
    <3>2. i - Len(w) = 1 \/ (i - Len(w) = 2 /\ Len(a) = 2)
      BY <1>1, <3>1
    <3>3. i - Len(w) = 1 /\ kind = "counted"
      BY <1>1, <1>5, <3>1, <3>2
    <3>4. Len(a) = 2
      BY <1>1, <3>3
    <3>5. i + 1 \in DOMAIN t /\ ~ (i + 1 <= Len(w)) /\ i + 1 - Len(w) = 2
          /\ i + 1 \in 1 .. Len(w) + Len(a)
      BY <1>3, <3>3, <3>4
    <3>6. t[i + 1] = a[2]
      BY <1>3, <3>5
    <3> QED BY <1>1, <3>1, <3>3, <3>4, <3>5, <3>6
  <2> QED BY <2>1, <2>2
<1>6. Whole(a, r)
  BY <1>1, <1>2 DEF Whole
<1>7. Stream(t)
  BY <1>5 DEF Stream
<1> QED BY <1>4, <1>6, <1>7 DEF t, a

(* Over a secured connection an exchange goes through its stages.          *)
LEMMA ExchangeStep ==
    ASSUME TypeOK, Served, Queues, RoomIsKept, Connects, Exchange, AnswerIsOwn,
           [Next]_vars
    PROVE  Exchange'
<1> SUFFICES ASSUME sock' = "secured", ~ cancelled'
             PROVE  \/ Idle' \/ ToWrite' \/ Written' \/ HeaderDue' \/ HeaderRead'
                    \/ BodyDue' \/ BodyRead'
  BY DEF Exchange
<1>1. ~ cancelled /\ (~ bodyLeft' => ~ bodyLeft)
  BY MainSteps
<1>2. \A r \in Requests : r # NoRequest /\ r # TLS
  BY DEF Requests, NoRequest, TLS
<1>3. \A x : Append(<<>>, x) = <<x>> /\ Tail(<<x>>) = <<>>
             /\ <<x>>[1] = x /\ Head(<<x>>) = x /\ <<x>> # <<>>
  OBVIOUS
<1>4. CASE \E c \in LoginCmds : Ask(c) /\ JoinStep(c)
  <2>1. PICK c \in LoginCmds : JoinStep(c)
    BY <1>4
  <2>2. Joins(c) /\ UNCHANGED <<currentResponseHeader, reads, wire, main, bodyLeft>>
        /\ issued + 1 \in Requests
    BY <2>1 DEF JoinStep, Joins
  <2>3. CASE currentRequest # NoRequest
    <3>1. UNCHANGED <<currentRequest, sock, writes>>
      BY <2>2, <2>3 DEF Joins
    <3>2. sock = "secured"
      BY <3>1
    <3> QED BY <1>1, <2>2, <3>1, <3>2 DEF Exchange, Idle, ToWrite, Written,
               HeaderDue, HeaderRead, BodyDue, BodyRead
  <2>4. CASE currentRequest = NoRequest
    <3>1. /\ currentRequest' = issued + 1 /\ sock' = Started(sock)
          /\ writes' = Append(writes, issued + 1)
      BY <2>2, <2>4 DEF Joins
    <3>2. sock = "secured"
      BY <3>1 DEF Started
    <3>3. Idle
      BY <1>1, <2>4, <3>2 DEF Exchange, ToWrite, Written, HeaderDue, HeaderRead,
         BodyDue, BodyRead
    <3>4. ToWrite'
      BY <1>2, <1>3, <2>2, <3>1, <3>3 DEF Idle, ToWrite
    <3> QED BY <3>4
  <2> QED BY <2>3, <2>4
<1>5. CASE FinishStep
  <2>1. Serves /\ UNCHANGED <<reads, wire>> /\ main # <<>> /\ main' = Tail(main)
    BY <1>5 DEF FinishStep, Finishes
  <2>2. sock = "secured"
    BY <2>1 DEF Serves, Started
  <2>3. Head(main) # WriteBlock
    BY <1>5 DEF FinishStep, DisconnectBlock, WriteBlock
  <2>4. (HeaderRead \/ BodyRead) /\ writes = <<>> /\ main' = <<>>
    BY <1>1, <2>1, <2>2, <2>3, StageOfBlock
  <2>5. Stream(wire') /\ reads' = <<>> /\ (~ bodyLeft' => wire' = <<>>)
    <3>1. Stream(wire) /\ UNCHANGED <<reads, wire>> /\ reads = <<>>
      BY <2>1, <2>4 DEF HeaderRead, BodyRead
    <3>2. ASSUME BodyRead, ~ bodyLeft' PROVE wire = <<>>
      BY <1>1, <3>2 DEF BodyRead
    <3>3. ASSUME HeaderRead, ~ bodyLeft' PROVE wire = <<>>
      <4>1. /\ Head(main) = main[1] /\ main[1].part \in Parts
            /\ Head(main).event = "read" /\ Head(main).tag = "header"
        BY <2>1, <3>3, HeadOfMain, BlockFields DEF HeaderRead
      <4>2. Head(main) # DisconnectBlock
        BY <4>1 DEF DisconnectBlock
      <4>3. main[1].part.is # "counted" /\ main[1].part.is # "uncounted"
        BY <1>5, <3>3, <4>1, <4>2 DEF FinishStep
      <4>4. LeftBy(wire, main[1].part)
        BY <1>1, <3>3 DEF HeaderRead
      <4>5. main[1].part.is \in AnswerKinds \cup {"data"}
        BY <4>1, PartFields
      <4> QED BY <4>3, <4>4, <4>5 DEF LeftBy, AnswerKinds
    <3> QED BY <2>4, <3>1, <3>2, <3>3
  <2>6. CASE currentRequest' = NoRequest /\ writes' = writes
    BY <2>4, <2>5, <2>6 DEF Idle
  <2>7. CASE currentRequest' \in Requests /\ writes' = Append(writes, currentRequest')
    BY <1>2, <1>3, <2>4, <2>5, <2>7 DEF ToWrite
  <2> QED BY <2>1, <2>6, <2>7 DEF Serves
<1>6. CASE HeaderStep
  <2>1. /\ main # <<>> /\ main' = Tail(main) /\ Head(main).tag = "header"
        /\ Head(main).part.is = "counted" /\ KeepHeader(Head(main).part)
        /\ reads' = Queued(sock, reads, "body") /\ Head(main).event = "read"
        /\ UNCHANGED <<currentRequest, sock, writes, wire>>
    BY <1>6 DEF HeaderStep, queues
  <2>2. sock = "secured" /\ Head(main) # WriteBlock
    BY <2>1, HeadOfMain, BlockFields
  <2>3. HeaderRead /\ main' = <<>> /\ writes = <<>> /\ currentRequest # NoRequest
    BY <1>1, <2>1, <2>2, StageOfBlock
  <2>4. Head(main) = main[1] /\ 1 \in DOMAIN main
    BY <2>1, HeadOfMain
  <2>5. ~ bodyLeft => main[1].part.req = currentRequest
    BY <1>1, <2>1, <2>4 DEF AnswerIsOwn, IsRead
  <2>6. currentResponseHeader'.req = main[1].part.req
    BY <2>1, <2>4 DEF KeepHeader, HeaderOf
  <2>7. reads' = <<"body">>
    BY <1>3, <2>1, <2>2, <2>3 DEF Queued, HeaderRead
  <2>8. /\ Stream(wire) /\ 1 \in DOMAIN wire /\ wire[1].req = main[1].part.req
        /\ ~ bodyLeft => Len(wire) = 1
    BY <2>1, <2>3, <2>4 DEF HeaderRead, LeftBy
  <2>9. BodyDue'
    BY <1>1, <2>1, <2>3, <2>5, <2>6, <2>7, <2>8 DEF BodyDue
  <2> QED BY <2>9
<1>7. CASE ConnectStep
  <2>1. main # <<>> /\ Head(main) = ConnectBlock /\ sock = "secured"
    BY <1>7 DEF ConnectStep, DidConnect
  <2>2. Head(main) # WriteBlock /\ Head(main).event # "read"
    BY <2>1 DEF WriteBlock, ConnectBlock
  <2> QED BY <1>1, <2>1, <2>2, StageOfBlock
<1>8. CASE WriteStep
  <2>1. main # <<>> /\ Head(main) = WriteBlock /\ main' = Tail(main)
        /\ reads' = Queued(sock, reads, "header")
        /\ UNCHANGED <<currentRequest, sock, writes, wire, bodyLeft>>
    BY <1>8 DEF WriteStep, DidWriteData, queues
  <2>2. Head(main).event # "read" /\ sock = "secured"
    BY <2>1 DEF WriteBlock
  <2>3. Written /\ main' = <<>>
    BY <1>1, <2>1, <2>2, StageOfBlock
  <2>4. reads' = <<"header">>
    BY <1>3, <2>1, <2>2, <2>3 DEF Queued, Written
  <2>5. HeaderDue'
    BY <2>1, <2>3, <2>4 DEF Written, HeaderDue
  <2> QED BY <2>5
<1>9. CASE ServerAnswers
  <2>1. /\ writes # <<>> /\ writes[1] \in Requests /\ writes' = Tail(writes)
        /\ main' = Append(main, WriteBlock) /\ sock = "secured"
        /\ UNCHANGED <<currentRequest, reads, bodyLeft>>
    BY <1>9, WireGrows DEF queues
  <2>2. ToWrite
    <3>1. ~ Idle
      BY <2>1 DEF Idle
    <3> QED BY <1>1, <2>1, <3>1 DEF Exchange, Written, HeaderDue, HeaderRead,
               BodyDue, BodyRead
  <2>3. writes[1] = currentRequest /\ writes' = <<>> /\ main' = <<WriteBlock>>
        /\ reads' = <<>>
    BY <1>3, <2>1, <2>2 DEF ToWrite
  <2>4. /\ Stream(wire')
        /\ ~ bodyLeft => Whole(wire', currentRequest)
    <3>1. PICK status \in StatusesFor(cmd[writes[1]]), kind \in AnswerKinds :
             wire' = wire \o AnswerTo(writes[1], status, kind)
      BY <1>9, <2>1, WireGrows
    <3>2. status \in Statuses
      BY DEF StatusesFor, Statuses
    <3>3. wire \in Seq(Parts) /\ Stream(wire) /\ (~ bodyLeft => wire = <<>>)
      BY <2>2 DEF TypeOK, ToWrite
    <3> QED BY <2>1, <2>3, <3>1, <3>2, <3>3, AnswerStreams
  <2>5. Written'
    BY <2>1, <2>2, <2>3, <2>4 DEF Written, ToWrite
  <2> QED BY <2>5
<1>10. CASE CloseStep
  BY <1>10 DEF CloseStep, SocketCloses
<1>11. CASE CancelStep
  BY <1>11 DEF CancelStep, CancelAll
<1>12. CASE OpenStep
  BY <1>12 DEF OpenStep, SocketConnects
<1>13. CASE SecureStep
  <2>1. /\ Handshakes /\ writes' = Tail(writes) /\ reads' = Tail(reads)
        /\ sock = "connected" /\ UNCHANGED <<currentRequest, wire, main>>
    BY <1>13 DEF SecureStep, SocketSecures, HandshakeIsDue, Handshakes, queues
  <2>2. /\ main' = <<>> /\ reads' = <<>> /\ Stream(wire') /\ wire' = <<>>
    <3>1. main = <<>> /\ reads = <<"tls">> /\ wire = <<>>
      BY <1>1, <2>1 DEF Connects
    <3> QED BY <1>3, <2>1, <3>1 DEF Stream
  <2>3. writes' = IF currentRequest = NoRequest THEN <<>> ELSE <<currentRequest>>
    <3>1. writes = IF currentRequest = NoRequest THEN <<TLS>>
                   ELSE <<TLS, currentRequest>>
      BY <1>1, <2>1 DEF Connects
    <3>2. Tail(<<TLS, currentRequest>>) = <<currentRequest>>
      OBVIOUS
    <3> QED BY <1>3, <2>1, <3>1, <3>2
  <2> QED BY <2>1, <2>2, <2>3 DEF Idle, ToWrite
<1>14. CASE ReadStep
  BY <1>1, <1>14, ReadTakesNext
<1>15. CASE UNCHANGED vars
  BY <1>1, <1>15 DEF vars, queueVars, socketVars, queues, Exchange, Idle, ToWrite,
     Written, HeaderDue, HeaderRead, BodyDue, BodyRead
<1> QED BY <1>4, <1>5, <1>6, <1>7, <1>8, <1>9, <1>10, <1>11, <1>12, <1>13,
           <1>14, <1>15, NextCases

(* A completion gets one answer, its own until a body is left on the wire  *)
(* (AnswersMatch).                                                         *)
LEMMA MatchStep ==
    ASSUME TypeOK, Served, Queues, RoomIsKept, AnswerIsOwn, AnswersMatch,
           [Next]_vars
    PROVE  AnswersMatch'
<1> SUFFICES ASSUME ~ cancelled'
             PROVE  \A r \in Requests :
                       /\ \E s \in Requests : answer'[r] \subseteq {s}
                       /\ bodyLeft' \/ answer'[r] \subseteq {r}
  BY DEF AnswersMatch
<1>1. ~ cancelled /\ (bodyLeft => bodyLeft')
  BY MainSteps
<1>2. \A r \in Requests :
         /\ \E s \in Requests : answer[r] \subseteq {s}
         /\ bodyLeft \/ answer[r] \subseteq {r}
  BY <1>1 DEF AnswersMatch
<1>3. CASE FinishStep
  <2>1. /\ Head(main) = main[1] /\ 1 \in DOMAIN main
        /\ main[1].event = "read" => main[1].part.req \in Requests
    BY <1>3, HeadOfMain, BlockFields, PartFields DEF FinishStep
  <2>2. main[1].event = "read" =>
           /\ main[1].tag = "body" => main[1].part.req = currentResponseHeader.req
           /\ ~ bodyLeft => main[1].part.req = currentRequest
    BY <1>1, <2>1 DEF AnswerIsOwn, IsRead
  <2>3. PICK from : /\ Finishes(from)
                    /\ \/ from = {}
                       \/ /\ \E s \in Requests : from = {s}
                          /\ ~ bodyLeft => from = {currentRequest}
    BY <1>3, <2>1, <2>2 DEF FinishStep
  <2>4. \/ answer' = answer
        \/ answer' = [answer EXCEPT ![currentRequest] = from]
    BY <2>3 DEF Finishes, historyVars
  <2>5. ASSUME NEW r \in Requests, answer'[r] = answer[r] \/ (r = currentRequest /\ answer'[r] = from)
        PROVE  /\ \E s \in Requests : answer'[r] \subseteq {s}
               /\ bodyLeft' \/ answer'[r] \subseteq {r}
    BY <1>1, <1>2, <2>3, <2>5
  <2>6. \A r \in Requests :
           answer'[r] = answer[r] \/ (r = currentRequest /\ answer'[r] = from)
    BY <2>4 DEF TypeOK
  <2> QED BY <2>5, <2>6
<1>4. ~ FinishStep => answer' = answer
  <2>1. CASE \E c \in LoginCmds : Ask(c) /\ JoinStep(c)
    BY <2>1 DEF JoinStep
  <2>2. CASE CancelStep
    BY <2>2 DEF CancelStep, CancelAll, historyVars
  <2>3. CASE Keeps
    BY <2>3 DEF Keeps
  <2> QED BY <2>1, <2>2, <2>3, NextCases, QuietSteps
<1> QED BY <1>1, <1>2, <1>3, <1>4


-----------------------------------------------------------------------------
(* The order of the logins.                                                *)

(* What is left of an ascending sequence once its first k are gone.        *)
LEMMA Suffix ==
    ASSUME NEW n \in Nat, NEW k \in 0 .. n, NEW f, NEW g,
           DOMAIN f = 1 .. n, DOMAIN g = 1 .. n - k,
           \A j \in 1 .. n : f[j] \in Nat,
           \A j \in DOMAIN g : g[j] = f[j + k],
           Ascending(f)
    PROVE  /\ Ascending(g) /\ Found(g) \subseteq Found(f)
           /\ \A i \in 1 .. k : f[i] # 0 => \A y \in Found(g) : f[i] <= y
<1>1. \A j \in DOMAIN g : j + k \in DOMAIN f /\ j \in Nat /\ j >= 1
  OBVIOUS
<1>2. Ascending(g)
  <2> SUFFICES ASSUME NEW i \in DOMAIN g, NEW j \in DOMAIN g, i < j,
                      g[i] # 0, g[j] # 0
               PROVE  g[i] <= g[j]
    BY DEF Ascending
  <2>1. i + k \in DOMAIN f /\ j + k \in DOMAIN f /\ i + k < j + k
    BY <1>1
  <2>2. f[i + k] # 0 /\ f[j + k] # 0
    OBVIOUS
  <2>3. f[i + k] <= f[j + k]
    BY <2>1, <2>2 DEF Ascending
  <2> QED BY <2>3
<1>3. Found(g) \subseteq Found(f)
  BY <1>1 DEF Found
<1>4. ASSUME NEW i \in 1 .. k, f[i] # 0, NEW y \in Found(g)
      PROVE  f[i] <= y
  <2>1. PICK j \in DOMAIN g : y = g[j] /\ y # 0
    BY <1>4 DEF Found
  <2>2. i \in DOMAIN f /\ j + k \in DOMAIN f /\ i < j + k /\ f[j + k] = y
    BY <1>1, <2>1
  <2> QED BY <1>4, <2>1, <2>2 DEF Ascending
<1> QED BY <1>2, <1>3, <1>4

(* An ascending sequence that goes on with one more login x; 0 is none.    *)
GoesOn(f, g, x, n, m) ==
    /\ n \in Nat /\ m \in Nat /\ n <= m /\ x \in Nat
    /\ DOMAIN f = 1 .. n /\ DOMAIN g = 1 .. m
    /\ \A j \in 1 .. n : f[j] \in Nat /\ g[j] = f[j]
    /\ \A j \in 1 .. m : j > n => g[j] = 0 \/ (g[j] = x /\ j = n + 1)
    /\ \A y \in Found(f) : x = 0 \/ y <= x

(* Logins in order stay so when a later one joins at the end. *)
LEMMA Longer ==
    ASSUME NEW f, NEW g, NEW x, NEW n, NEW m, GoesOn(f, g, x, n, m),
           Ascending(f)
    PROVE  Ascending(g) /\ Found(g) \subseteq Found(f) \cup ({x} \ {0})
<1> USE DEF GoesOn
<1>1. \A j \in DOMAIN g : \/ j \in DOMAIN f /\ g[j] = f[j]
                          \/ j > n /\ (g[j] = 0 \/ (g[j] = x /\ j = n + 1))
  OBVIOUS
<1>2. Ascending(g)
  <2> SUFFICES ASSUME NEW i \in DOMAIN g, NEW j \in DOMAIN g, i < j,
                      g[i] # 0, g[j] # 0
               PROVE  g[i] <= g[j]
    BY DEF Ascending
  <2>1. i \in DOMAIN f /\ g[i] = f[i]
    BY <1>1
  <2>2. CASE j \in DOMAIN f
    <3>1. g[j] = f[j]
      BY <2>2
    <3> QED BY <2>1, <2>2, <3>1 DEF Ascending
  <2>3. CASE j \notin DOMAIN f
    <3>1. g[j] = x
      BY <1>1, <2>3
    <3>2. g[i] \in Found(f)
      BY <2>1 DEF Found
    <3> QED BY <3>1, <3>2
  <2> QED BY <2>2, <2>3
<1>3. Found(g) \subseteq Found(f) \cup ({x} \ {0})
  BY <1>1 DEF Found
<1> QED BY <1>2, <1>3

(* How one login moves on: from the queue to the writes, to the wire, to   *)
(* the main queue, to the last header and to the cookie.                   *)
LEMMA ChainShrinks ==
    ASSUME NEW c, NEW h, NEW m, NEW w, NEW r, NEW q, NEW n,
           NEW h2 \in SUBSET h, NEW m2 \in SUBSET m,
           NEW w2 \in SUBSET w, NEW r2 \in SUBSET r, NEW q2 \in SUBSET q,
           Chain(c, h, m, w, r, q, n)
    PROVE  Chain(c, h2, m2, w2, r2, q2, n)
BY DEF Chain, Precede

(* The chain of logins goes on with one that is made. *)
LEMMA ChainQueue ==
    ASSUME NEW c \in SUBSET Nat, NEW h \in SUBSET Nat, NEW m \in SUBSET Nat,
           NEW w \in SUBSET Nat, NEW r \in SUBSET Nat, NEW q \in SUBSET Nat,
           NEW n \in Nat, Chain(c, h, m, w, r, q, n)
    PROVE  Chain(c, h, m, w, r, q \cup {n + 1}, n + 1)
<1>1. \A s \in SUBSET Nat : Precede(s, {n}) => Precede(s, {n + 1})
  BY DEF Precede
<1>2. /\ Precede(c, {n}) /\ Precede(h, {n}) /\ Precede(m, {n})
      /\ Precede(w, {n}) /\ Precede(r, {n}) /\ Precede(q, {n})
  BY DEF Chain, Precede
<1>3. Precede({n + 1}, {n + 1})
  BY DEF Precede
<1> QED BY <1>1, <1>2, <1>3 DEF Chain, Precede

(* It goes on when the first login of the lists is given to the socket. *)
LEMMA ChainWrites ==
    ASSUME NEW c, NEW h, NEW m, NEW w, NEW r, NEW q, NEW n, NEW x \in q,
           Precede({x}, q), Chain(c, h, m, w, r, q, n)
    PROVE  Chain(c, h, m, w, r \cup {x}, q, n)
BY DEF Chain, Precede

(* It goes on when the first login to be written is answered. *)
LEMMA ChainWire ==
    ASSUME NEW c, NEW h, NEW m, NEW w, NEW r, NEW q, NEW n, NEW x \in r,
           NEW r2 \in SUBSET r, Precede({x}, r2), Chain(c, h, m, w, r, q, n)
    PROVE  Chain(c, h, m, w \cup {x}, r2, q, n)
BY DEF Chain, Precede

(* It goes on when the first login on the wire is read. *)
LEMMA ChainMain ==
    ASSUME NEW c, NEW h, NEW m, NEW w, NEW r, NEW q, NEW n, NEW x \in w,
           NEW w2 \in SUBSET w, Precede({x}, w2), Chain(c, h, m, w, r, q, n)
    PROVE  Chain(c, h, m \cup {x}, w2, r, q, n)
BY DEF Chain, Precede

(* It goes on when the header kept is that of the first login on the main queue. *)
LEMMA ChainHeader ==
    ASSUME NEW c, NEW h, NEW m, NEW w, NEW r, NEW q, NEW n, NEW x \in m,
           NEW m2 \in SUBSET m, Precede({x}, m2), Chain(c, h, m, w, r, q, n)
    PROVE  Chain(c, {x}, m2, w, r, q, n)
BY DEF Chain, Precede

(* It goes on when the cookie kept is that of the header. *)
LEMMA ChainCookie ==
    ASSUME NEW c, NEW h, NEW m, NEW w, NEW r, NEW q, NEW n \in Nat, NEW x \in Nat,
           h = {x}, Chain(c, h, m, w, r, q, n)
    PROVE  Chain({x}, h, m, w, r, q, n)
BY DEF Chain, Precede


(* The logins of the sequences are numbers.                                *)
LEMMA LoginNumbers ==
    ASSUME TypeOK, Queues
    PROVE  /\ Len(main) \in Nat /\ DOMAIN main = 1 .. Len(main)
           /\ DOMAIN MainLogins = DOMAIN main
           /\ \A i \in DOMAIN main : MainLogins[i] \in Nat
           /\ Len(wire) \in Nat /\ DOMAIN wire = 1 .. Len(wire)
           /\ DOMAIN WireLogins = DOMAIN wire
           /\ \A i \in DOMAIN wire : WireLogins[i] \in Nat
           /\ Len(writes) \in Nat /\ DOMAIN writes = 1 .. Len(writes)
           /\ DOMAIN WriteLogins = DOMAIN writes
           /\ \A i \in DOMAIN writes : WriteLogins[i] \in Nat
           /\ issued \in Nat /\ userDefalutsCookie \in Nat
           /\ currentResponseHeader.req \in Nat
           /\ HeaderLogin \in SUBSET Nat /\ Found(MainLogins) \in SUBSET Nat
           /\ Found(WireLogins) \in SUBSET Nat
           /\ Found(WriteLogins) \in SUBSET Nat /\ ToSet(queue) \in SUBSET Nat
<1>1. Requests \subseteq Nat /\ 0 \in Nat /\ 0 .. MaxRequests \subseteq Nat
  BY BoundAssumption DEF Requests
<1>2. /\ Len(main) \in Nat /\ DOMAIN main = 1 .. Len(main)
      /\ \A i \in DOMAIN main : main[i] \in Blocks
  BY DEF TypeOK
<1>3. /\ Len(wire) \in Nat /\ DOMAIN wire = 1 .. Len(wire)
      /\ \A i \in DOMAIN wire : wire[i] \in Parts
  BY DEF TypeOK
<1>4. /\ Len(writes) \in Nat /\ DOMAIN writes = 1 .. Len(writes)
      /\ \A i \in DOMAIN writes : writes[i] \in Requests \cup {TLS}
  BY DEF TypeOK
<1>5. \A i \in DOMAIN main : IsAccepted(i) => main[i].part.req \in Nat
  BY <1>1, <1>2, BlockFields, PartFields DEF IsAccepted
<1>6. \A i \in DOMAIN wire : wire[i].req \in Nat
  BY <1>1, <1>3, PartFields
<1>7. \A i \in DOMAIN writes : writes[i] \in Nat
  BY <1>1, <1>4 DEF TLS
<1>8. /\ DOMAIN MainLogins = DOMAIN main
      /\ \A i \in DOMAIN main : MainLogins[i] \in Nat
  BY <1>5, <1>1 DEF MainLogins
<1>9. /\ DOMAIN WireLogins = DOMAIN wire
      /\ \A i \in DOMAIN wire : WireLogins[i] \in Nat
  BY <1>6, <1>1 DEF WireLogins
<1>10. /\ DOMAIN WriteLogins = DOMAIN writes
       /\ \A i \in DOMAIN writes : WriteLogins[i] \in Nat
  BY <1>7, <1>1 DEF WriteLogins
<1>11. issued \in Nat /\ userDefalutsCookie \in Nat
  BY <1>1 DEF TypeOK
<1>12. currentResponseHeader.req \in Nat
  BY <1>1, HeaderFields DEF TypeOK
<1>13. ToSet(queue) \in SUBSET Nat
  <2>1. \A i \in DOMAIN queue : queue[i] \in Requests
    BY DEF TypeOK
  <2> QED BY <1>1, <2>1 DEF ToSet
<1> QED BY <1>2, <1>3, <1>4, <1>8, <1>9, <1>10, <1>11, <1>12, <1>13
        DEF HeaderLogin, Found

(* A block is taken from the main queue.                                   *)
LEMMA MainTaken ==
    ASSUME TypeOK, Queues, main # <<>>, main' = Tail(main), Ascending(MainLogins)
    PROVE  /\ Ascending(MainLogins)' /\ Found(MainLogins)' \subseteq Found(MainLogins)
           /\ IsAccepted(1) =>
                /\ main[1].part.req \in Found(MainLogins)
                /\ Precede({main[1].part.req}, Found(MainLogins)')
<1> DEFINE f == MainLogins
           g == MainLogins'
           n == Len(main)
<1>1. /\ n \in Nat \ {0} /\ DOMAIN main = 1 .. n /\ 1 \in DOMAIN main
      /\ DOMAIN main' = 1 .. n - 1 /\ main[1] \in Blocks
      /\ \A k \in DOMAIN main' : k + 1 \in DOMAIN main /\ main'[k] = main[k + 1]
  BY HeadOfMain
<1>2. DOMAIN f = 1 .. n /\ \A j \in 1 .. n : f[j] \in Nat
  BY LoginNumbers
<1>3. DOMAIN g = 1 .. n - 1
  BY <1>1 DEF MainLogins
<1>4. \A j \in DOMAIN g : g[j] = f[j + 1]
  BY <1>1, <1>3 DEF MainLogins, IsAccepted
<1>5. IsAccepted(1) => f[1] = main[1].part.req /\ f[1] # 0 /\ f[1] \in Found(f)
  <2>1. IsAccepted(1) => main[1].part.req \in Requests
    BY <1>1, BlockFields, PartFields DEF IsAccepted
  <2>2. IsAccepted(1) => f[1] = main[1].part.req
    BY <1>1 DEF MainLogins
  <2>3. 0 \notin Requests
    BY DEF Requests
  <2> HIDE DEF f
  <2> QED BY <1>1, <1>2, <2>1, <2>2, <2>3 DEF Found
<1>6. Ascending(f)
  OBVIOUS
<1>7. Ascending(g) <=> Ascending(MainLogins)'
  BY DEF Ascending
<1>8. Found(g) = Found(MainLogins)'
  BY DEF Found
<1> HIDE DEF f, g, n
<1>9. 1 \in 0 .. n /\ 1 \in 1 .. 1
  BY <1>1
<1>10. /\ Ascending(g) /\ Found(g) \subseteq Found(f)
       /\ \A i \in 1 .. 1 : f[i] # 0 => \A y \in Found(g) : f[i] <= y
  BY <1>1, <1>2, <1>3, <1>4, <1>6, <1>9, Suffix
<1>11. f[1] # 0 => \A y \in Found(g) : f[1] <= y
  BY <1>9, <1>10
<1>12. f = MainLogins
  BY DEF f
<1> QED BY <1>5, <1>7, <1>8, <1>10, <1>11, <1>12 DEF Precede

(* A block joins the main queue.                                           *)
LoginOf(b) ==
    IF b.event = "read" /\ b.tag = "header" /\ b.part.status = "accepted"
    THEN b.part.req ELSE 0

(* The logins on the main queue stay in order when a block with a later one, or none, is posted. *)
LEMMA MainGiven ==
    ASSUME TypeOK, Queues, NEW b \in Blocks, main' = Append(main, b),
           Ascending(MainLogins),
           \A y \in Found(MainLogins) : LoginOf(b) = 0 \/ y <= LoginOf(b)
    PROVE  /\ Ascending(MainLogins)'
           /\ Found(MainLogins)' \subseteq Found(MainLogins)
                                            \cup ({LoginOf(b)} \ {0})
<1> DEFINE f == MainLogins
           g == MainLogins'
           n == Len(main)
           x == LoginOf(b)
           m == n + 1
<1>1. /\ n \in Nat /\ DOMAIN main = 1 .. n /\ DOMAIN main' = 1 .. m
      /\ \A k \in DOMAIN main : k \in DOMAIN main' /\ main'[k] = main[k]
      /\ main'[m] = b
  BY AppendShape DEF TypeOK
<1>2. DOMAIN f = 1 .. n /\ \A j \in 1 .. n : f[j] \in Nat
  BY LoginNumbers
<1>3. DOMAIN g = 1 .. m
  BY <1>1 DEF MainLogins
<1>4. \A j \in 1 .. n : g[j] = f[j]
  BY <1>1, <1>3 DEF MainLogins, IsAccepted
<1>5. g[m] = x
  <2>1. m \in DOMAIN main'
    BY <1>1
  <2> QED BY <1>1, <2>1 DEF MainLogins, IsAccepted, LoginOf
<1>6. Ascending(f)
  OBVIOUS
<1>7. Ascending(g) <=> Ascending(MainLogins)'
  BY DEF Ascending
<1>8. Found(g) = Found(MainLogins)'
  BY DEF Found
<1>9. x \in Nat
  <2>1. b.event = "read" => b.part.req \in Nat
    BY BlockFields, PartFields, BoundAssumption DEF Requests
  <2> QED BY <2>1 DEF LoginOf
<1>10. \A y \in Found(f) : x = 0 \/ y <= x
  OBVIOUS
<1>11. f = MainLogins /\ x = LoginOf(b)
  OBVIOUS
<1> HIDE DEF f, g, n, x
<1>12. m \in Nat /\ n <= m /\ \A j \in 1 .. m : j > n => j = m
  BY <1>1
<1>13. Ascending(g) /\ Found(g) \subseteq Found(f) \cup ({x} \ {0})
  <2>1. \A j \in 1 .. n : f[j] \in Nat /\ g[j] = f[j]
    BY <1>2, <1>4
  <2>2. \A j \in 1 .. m : j > n => g[j] = 0 \/ (g[j] = x /\ j = n + 1)
    BY <1>5, <1>12
  <2> HIDE DEF m
  <2>3. n \in Nat /\ m \in Nat /\ n <= m /\ x \in Nat
    BY <1>1, <1>9, <1>12
  <2>4. GoesOn(f, g, x, n, m)
    BY <1>2, <1>3, <1>10, <2>1, <2>2, <2>3 DEF GoesOn
  <2> QED BY <1>6, <2>4, Longer
<1> QED BY <1>7, <1>8, <1>11, <1>13

(* The first i parts are taken from the wire.                              *)
LEMMA WireTaken ==
    ASSUME TypeOK, Queues, NEW i \in DOMAIN wire,
           wire' = SubSeq(wire, i + 1, Len(wire)), Ascending(WireLogins)
    PROVE  /\ Ascending(WireLogins)' /\ Found(WireLogins)' \subseteq Found(WireLogins)
           /\ WillBeAccepted(i) =>
                /\ wire[i].req \in Found(WireLogins)
                /\ Precede({wire[i].req}, Found(WireLogins)')
<1> DEFINE f == WireLogins
           g == WireLogins'
           n == Len(wire)
<1>1. /\ n \in Nat /\ DOMAIN wire = 1 .. n /\ i \in 1 .. n /\ wire[i] \in Parts
      /\ DOMAIN wire' = 1 .. n - i
      /\ \A k \in DOMAIN wire' : k + i \in DOMAIN wire /\ wire'[k] = wire[k + i]
  <2>1. wire \in Seq(Parts)
    BY DEF TypeOK
  <2>2. DOMAIN wire = 1 .. n /\ n \in Nat /\ wire[i] \in Parts
    BY <2>1
  <2>3. DOMAIN wire' = 1 .. n - i
        /\ \A k \in DOMAIN wire' : k + i \in DOMAIN wire /\ wire'[k] = wire[k + i]
    BY <2>1, WireRest
  <2> QED BY <2>2, <2>3
<1>2. DOMAIN f = 1 .. n /\ \A j \in 1 .. n : f[j] \in Nat
  BY LoginNumbers
<1>3. DOMAIN g = 1 .. n - i
  BY <1>1 DEF WireLogins
<1>4. \A j \in DOMAIN g : g[j] = f[j + i]
  BY <1>1, <1>3 DEF WireLogins, WillBeAccepted
<1>5. WillBeAccepted(i) =>
         f[i] = wire[i].req /\ f[i] # 0 /\ f[i] \in Found(f)
  <2>1. wire[i].req \in Requests
    BY <1>1, PartFields
  <2>2. WillBeAccepted(i) => f[i] = wire[i].req
    BY <1>1 DEF WireLogins
  <2>3. 0 \notin Requests
    BY DEF Requests
  <2> HIDE DEF f
  <2> QED BY <1>1, <1>2, <2>1, <2>2, <2>3 DEF Found
<1>6. Ascending(f)
  OBVIOUS
<1>7. Ascending(g) <=> Ascending(WireLogins)'
  BY DEF Ascending
<1>8. Found(g) = Found(WireLogins)'
  BY DEF Found
<1>12. f = WireLogins
  BY DEF f
<1> HIDE DEF f, g, n
<1>9. i \in 0 .. n /\ i \in 1 .. i
  BY <1>1
<1>10. /\ Ascending(g) /\ Found(g) \subseteq Found(f)
       /\ \A k \in 1 .. i : f[k] # 0 => \A y \in Found(g) : f[k] <= y
  BY <1>1, <1>2, <1>3, <1>4, <1>6, <1>9, Suffix
<1>11. f[i] # 0 => \A y \in Found(g) : f[i] <= y
  BY <1>9, <1>10
<1> QED BY <1>5, <1>7, <1>8, <1>10, <1>11, <1>12 DEF Precede

(* The answer to a request joins the wire.                                 *)
LEMMA WireGiven ==
    ASSUME TypeOK, Queues, NEW r \in Requests, NEW status \in Statuses,
           NEW kind \in AnswerKinds,
           wire' = wire \o AnswerTo(r, status, kind), Ascending(WireLogins),
           status = "accepted" => \A y \in Found(WireLogins) : y <= r
    PROVE  /\ Ascending(WireLogins)'
           /\ Found(WireLogins)' \subseteq Found(WireLogins)
                 \cup (IF status = "accepted" THEN {r} ELSE {})
<1> DEFINE f == WireLogins
           g == WireLogins'
           n == Len(wire)
           a == AnswerTo(r, status, kind)
           x == IF status = "accepted" THEN r ELSE 0
           m == n + Len(a)
<1>0. /\ a \in Seq(Parts) /\ Len(a) \in 1 .. 2 /\ a[1] \in Parts
      /\ a[1].is = kind /\ a[1].req = r /\ a[1].status = status
      /\ Len(a) = 2 => a[2].status = "other"
  <2>1. /\ a \in Seq(Parts) /\ Len(a) \in 1 .. 2
        /\ a[1].is = kind /\ a[1].req = r /\ a[1].status = status
        /\ Len(a) = 2 => a[2].status = "other"
    BY AnswerShape
  <2> HIDE DEF a
  <2>2. a[1] \in Parts
    BY <2>1
  <2> QED BY <2>1, <2>2 DEF AnswerKinds
<1> HIDE DEF a
<1>1. /\ n \in Nat /\ m \in Nat /\ DOMAIN wire = 1 .. n /\ DOMAIN wire' = 1 .. m
      /\ \A k \in 1 .. n : k \in DOMAIN wire' /\ wire'[k] = wire[k]
      /\ \A k \in 1 .. m : k > n => wire'[k] = a[k - n] /\ k - n \in 1 .. Len(a)
  <2>1. wire \in Seq(Parts) /\ wire' = wire \o a
    BY DEF TypeOK, a
  <2>2. /\ wire' \in Seq(Parts) /\ Len(wire') = Len(wire) + Len(a)
        /\ \A k \in 1 .. Len(wire) + Len(a) :
              wire'[k] = IF k <= Len(wire) THEN wire[k] ELSE a[k - Len(wire)]
    BY <1>0, <2>1, ConcatProperties
  <2>3. DOMAIN wire = 1 .. n /\ DOMAIN wire' = 1 .. m /\ n \in Nat
    BY <2>1, <2>2, LenProperties
  <2> QED BY <1>0, <2>2, <2>3
<1>2. DOMAIN f = 1 .. n /\ \A j \in 1 .. n : f[j] \in Nat
  BY LoginNumbers
<1>3. DOMAIN g = 1 .. m
  BY <1>1 DEF WireLogins
<1>4. \A j \in 1 .. n : g[j] = f[j]
  BY <1>1, <1>3 DEF WireLogins, WillBeAccepted
<1>5. \A j \in 1 .. m : j > n => g[j] = 0 \/ (g[j] = x /\ j = n + 1)
  <2> SUFFICES ASSUME NEW j \in 1 .. m, j > n
               PROVE  g[j] = 0 \/ (g[j] = x /\ j = n + 1)
    OBVIOUS
  <2>1. wire'[j] = a[j - n] /\ (j - n = 1 \/ (j - n = 2 /\ Len(a) = 2))
    <3>1. wire'[j] = a[j - n] /\ j - n \in 1 .. Len(a)
      BY <1>1
    <3>2. Len(a) = 1 \/ Len(a) = 2
      BY <1>0
    <3>3. j - n = 1 \/ (j - n = 2 /\ Len(a) = 2)
      <4>1. CASE Len(a) = 1
        <5>1. j - n \in 1 .. 1
          BY <3>1, <4>1
        <5> QED BY <5>1
      <4>2. CASE Len(a) = 2
        <5>1. j - n \in 1 .. 2
          BY <3>1, <4>2
        <5>2. \A z \in 1 .. 2 : z = 1 \/ z = 2
          OBVIOUS
        <5> HIDE DEF n
        <5> QED BY <4>2, <5>1, <5>2
      <4> QED BY <3>2, <4>1, <4>2
    <3> QED BY <3>1, <3>3
  <2>2. g[j] = IF wire'[j].status = "accepted"
               THEN wire'[j].req ELSE 0
    BY <1>1 DEF WireLogins, WillBeAccepted
  <2>3. CASE j - n = 1
    <3>1. j = n + 1
      BY <1>1, <2>3
    <3> HIDE DEF g, n, m
    <3> QED BY <1>0, <2>1, <2>2, <2>3, <3>1
  <2>4. CASE j - n = 2 /\ Len(a) = 2
    BY <1>0, <2>1, <2>2, <2>4
  <2> QED BY <2>1, <2>3, <2>4
<1>6. Ascending(f)
  OBVIOUS
<1>7. Ascending(g) <=> Ascending(WireLogins)'
  BY DEF Ascending
<1>8. Found(g) = Found(WireLogins)'
  BY DEF Found
<1>9. x \in Nat /\ n <= m
  BY <1>0, <1>1, BoundAssumption DEF Requests
<1>10. \A y \in Found(f) : x = 0 \/ y <= x
  OBVIOUS
<1>11. f = WireLogins /\ {x} \ {0} \subseteq IF status = "accepted" THEN {r} ELSE {}
  OBVIOUS
<1> HIDE DEF f, g, n, x, m
<1>12. GoesOn(f, g, x, n, m)
  BY <1>1, <1>2, <1>3, <1>4, <1>5, <1>9, <1>10 DEF GoesOn
<1>13. Ascending(g) /\ Found(g) \subseteq Found(f) \cup ({x} \ {0})
  BY <1>6, <1>12, Longer
<1> QED BY <1>7, <1>8, <1>11, <1>13

(* The commands of requests that are written do not change.                *)
SameWrites == \A r \in ToSet(writes) : r = TLS \/ cmd'[r] = cmd[r]

(* What is still to be written was asked for in order. *)
LEMMA WritesKept ==
    ASSUME SameWrites, writes' = writes
    PROVE  WriteLogins' = WriteLogins
BY DEF SameWrites, WriteLogins, IsLogin, ToSet

(* A write is taken.                                                       *)
LEMMA WritesTaken ==
    ASSUME TypeOK, Queues, SameWrites, writes # <<>>, writes' = Tail(writes),
           Ascending(WriteLogins)
    PROVE  /\ Ascending(WriteLogins)'
           /\ Found(WriteLogins)' \subseteq Found(WriteLogins)
           /\ IsLogin(1) =>
                /\ writes[1] \in Found(WriteLogins)
                /\ Precede({writes[1]}, Found(WriteLogins)')
<1> DEFINE f == WriteLogins
           g == WriteLogins'
           n == Len(writes)
<1>1. /\ n \in Nat \ {0} /\ DOMAIN writes = 1 .. n /\ 1 \in DOMAIN writes
      /\ DOMAIN writes' = 1 .. n - 1
      /\ \A k \in DOMAIN writes' :
            k + 1 \in DOMAIN writes /\ writes'[k] = writes[k + 1]
  BY TailShape DEF TypeOK
<1>2. DOMAIN f = 1 .. n /\ \A j \in 1 .. n : f[j] \in Nat
  BY LoginNumbers
<1>3. DOMAIN g = 1 .. n - 1
  BY <1>1 DEF WriteLogins
<1>4. \A j \in DOMAIN g : g[j] = f[j + 1]
  BY <1>1, <1>3 DEF WriteLogins, IsLogin, SameWrites, ToSet
<1>5. IsLogin(1) => f[1] = writes[1] /\ f[1] # 0 /\ f[1] \in Found(f)
  <2>1. IsLogin(1) => writes[1] # 0
    BY DEF IsLogin, TLS
  <2>2. IsLogin(1) => f[1] = writes[1]
    BY <1>1 DEF WriteLogins
  <2> HIDE DEF f
  <2> QED BY <1>1, <1>2, <2>1, <2>2 DEF Found
<1>6. Ascending(f)
  OBVIOUS
<1>7. Ascending(g) <=> Ascending(WriteLogins)'
  BY DEF Ascending
<1>8. Found(g) = Found(WriteLogins)'
  BY DEF Found
<1>12. f = WriteLogins
  BY DEF f
<1> HIDE DEF f, g, n
<1>9. 1 \in 0 .. n /\ 1 \in 1 .. 1
  BY <1>1
<1>10. /\ Ascending(g) /\ Found(g) \subseteq Found(f)
       /\ \A i \in 1 .. 1 : f[i] # 0 => \A y \in Found(g) : f[i] <= y
  BY <1>1, <1>2, <1>3, <1>4, <1>6, <1>9, Suffix
<1>11. f[1] # 0 => \A y \in Found(g) : f[1] <= y
  BY <1>9, <1>10
<1> QED BY <1>5, <1>7, <1>8, <1>10, <1>11, <1>12 DEF Precede

(* A write joins the others.                                               *)
LEMMA WritesGiven ==
    ASSUME TypeOK, Queues, SameWrites, NEW r \in Requests \cup {TLS},
           writes' = Append(writes, r), Ascending(WriteLogins),
           r # TLS /\ cmd'[r] \in {"login", "again"} =>
               \A y \in Found(WriteLogins) : y <= r
    PROVE  /\ Ascending(WriteLogins)'
           /\ Found(WriteLogins)' \subseteq Found(WriteLogins)
                 \cup (IF r # TLS /\ cmd'[r] \in {"login", "again"}
                       THEN {r} ELSE {})
<1> DEFINE f == WriteLogins
           g == WriteLogins'
           n == Len(writes)
           x == IF r # TLS /\ cmd'[r] \in {"login", "again"} THEN r ELSE 0
           m == n + 1
<1>1. /\ n \in Nat /\ DOMAIN writes = 1 .. n /\ DOMAIN writes' = 1 .. m
      /\ \A k \in DOMAIN writes : k \in DOMAIN writes' /\ writes'[k] = writes[k]
      /\ writes'[m] = r
  BY AppendShape DEF TypeOK
<1>2. DOMAIN f = 1 .. n /\ \A j \in 1 .. n : f[j] \in Nat
  BY LoginNumbers
<1>3. DOMAIN g = 1 .. m
  BY <1>1 DEF WriteLogins
<1>4. \A j \in 1 .. n : g[j] = f[j]
  BY <1>1, <1>3 DEF WriteLogins, IsLogin, SameWrites, ToSet
<1>5. g[m] = x
  <2>1. m \in DOMAIN writes'
    BY <1>1
  <2> QED BY <1>1, <2>1 DEF WriteLogins, IsLogin
<1>6. Ascending(f)
  OBVIOUS
<1>7. Ascending(g) <=> Ascending(WriteLogins)'
  BY DEF Ascending
<1>8. Found(g) = Found(WriteLogins)'
  BY DEF Found
<1>9. x \in Nat
  BY BoundAssumption DEF Requests
<1>10. \A y \in Found(f) : x = 0 \/ y <= x
  OBVIOUS
<1>11. f = WriteLogins
       /\ {x} \ {0} \subseteq IF r # TLS /\ cmd'[r] \in {"login", "again"}
                              THEN {r} ELSE {}
  OBVIOUS
<1> HIDE DEF f, g, n, x
<1>12. m \in Nat /\ n <= m /\ \A j \in 1 .. m : j > n => j = m
  BY <1>1
<1>13. GoesOn(f, g, x, n, m)
  BY <1>1, <1>2, <1>3, <1>4, <1>5, <1>9, <1>10, <1>12 DEF GoesOn
<1>14. Ascending(g) /\ Found(g) \subseteq Found(f) \cup ({x} \ {0})
  BY <1>6, <1>13, Longer
<1> QED BY <1>7, <1>8, <1>11, <1>14

(* Steps that give the main queue no login, and the writes and the wire    *)
(* nothing.                                                                *)
LEMMA MainQuiet ==
    ASSUME TypeOK, Queues, Ascending(MainLogins),
           \/ main' \in {main, Append(main, ConnectBlock),
                         Append(main, WriteBlock), Append(main, DisconnectBlock)}
           \/ main # <<>> /\ main' = Tail(main)
    PROVE  /\ Ascending(MainLogins)' /\ Found(MainLogins)' \subseteq Found(MainLogins)
<1>1. CASE main' = main
  BY <1>1 DEF MainLogins, IsAccepted, Ascending, Found
<1>2. ASSUME NEW b \in {ConnectBlock, WriteBlock, DisconnectBlock},
             main' = Append(main, b)
      PROVE  /\ Ascending(MainLogins)'
             /\ Found(MainLogins)' \subseteq Found(MainLogins)
  <2>1. b \in Blocks /\ b.event # "read"
    BY BlocksAreBlocks
  <2>2. LoginOf(b) = 0
    BY <2>1 DEF LoginOf
  <2> QED BY <1>2, <2>1, <2>2, MainGiven
<1>3. CASE main # <<>> /\ main' = Tail(main)
  BY <1>3, MainTaken
<1> QED BY <1>1, <1>2, <1>3

(* A wire that is left alone or cut keeps its logins in order. *)
LEMMA WireQuiet ==
    ASSUME wire' \in {wire, <<>>}, Ascending(WireLogins)
    PROVE  /\ Ascending(WireLogins)' /\ Found(WireLogins)' \subseteq Found(WireLogins)
<1>1. CASE wire' = wire
  BY <1>1 DEF WireLogins, WillBeAccepted, Ascending, Found
<1>2. CASE wire' = <<>>
  BY <1>2 DEF WireLogins, WillBeAccepted, Ascending, Found
<1> QED BY <1>1, <1>2

(* Writes left alone keep their logins. *)
LEMMA WritesQuiet ==
    ASSUME TypeOK, Queues, cmd' = cmd, Ascending(WriteLogins),
           \/ writes' \in {writes, <<>>, Append(writes, TLS)}
           \/ writes # <<>> /\ writes' = Tail(writes)
    PROVE  /\ Ascending(WriteLogins)'
           /\ Found(WriteLogins)' \subseteq Found(WriteLogins)
<1>1. SameWrites
  BY DEF SameWrites
<1>2. CASE writes' = writes
  BY <1>1, <1>2, WritesKept DEF Ascending, Found
<1>3. CASE writes' = <<>>
  BY <1>3 DEF WriteLogins, IsLogin, Ascending, Found
<1>4. CASE writes' = Append(writes, TLS)
  BY <1>1, <1>4, WritesGiven
<1>5. CASE writes # <<>> /\ writes' = Tail(writes)
  BY <1>1, <1>5, WritesTaken
<1> QED BY <1>2, <1>3, <1>4, <1>5

(* The steps that make, send and read no login keep the chain. *)
LEMMA QuietLogins ==
    ASSUME TypeOK, Queues, Logins,
           UNCHANGED <<cmd, issued, currentResponseHeader, userDefalutsCookie>>,
           \/ main' \in {main, Append(main, ConnectBlock),
                         Append(main, WriteBlock), Append(main, DisconnectBlock)}
           \/ main # <<>> /\ main' = Tail(main),
           wire' \in {wire, <<>>},
           \/ writes' \in {writes, <<>>, Append(writes, TLS)}
           \/ writes # <<>> /\ writes' = Tail(writes),
           queue' \in {queue, <<>>}
    PROVE  Logins'
<1>1. /\ Ascending(MainLogins)' /\ Found(MainLogins)' \subseteq Found(MainLogins)
  BY MainQuiet DEF Logins
<1>2. /\ Ascending(WireLogins)' /\ Found(WireLogins)' \subseteq Found(WireLogins)
  BY WireQuiet DEF Logins
<1>3. /\ Ascending(WriteLogins)'
      /\ Found(WriteLogins)' \subseteq Found(WriteLogins)
  BY WritesQuiet DEF Logins
<1>4. ToSet(queue)' \subseteq ToSet(queue)
  BY DEF ToSet
<1>5. HeaderLogin' = HeaderLogin /\ HeaderLogin \subseteq HeaderLogin
  BY DEF HeaderLogin
<1>6. Chain({userDefalutsCookie}, HeaderLogin', Found(MainLogins)',
            Found(WireLogins)', Found(WriteLogins)', ToSet(queue)', issued)
  BY <1>1, <1>2, <1>3, <1>4, <1>5, ChainShrinks DEF Logins
<1> QED BY <1>1, <1>2, <1>3, <1>6 DEF Logins

(* A request that is made joins the end of the chain.                      *)
LEMMA JoinLogins ==
    ASSUME TypeOK, Served, Queues, Logins, NEW c \in LoginCmds, JoinStep(c)
    PROVE  Logins'
<1> DEFINE new == issued + 1
           C == {userDefalutsCookie}
           H == HeaderLogin
           M == Found(MainLogins)
           W == Found(WireLogins)
           R == Found(WriteLogins)
           Q == ToSet(queue)
<1>1. /\ Joins(c) /\ new \in Requests /\ issued' = new
      /\ UNCHANGED <<currentResponseHeader, wire, main, userDefalutsCookie>>
      /\ cmd' = [cmd EXCEPT ![new] = c]
  BY DEF JoinStep, Joins
<1>2. HeaderLogin' = H /\ Found(MainLogins)' = M /\ Found(WireLogins)' = W
      /\ Ascending(MainLogins)' /\ Ascending(WireLogins)'
  BY <1>1 DEF Logins, HeaderLogin, MainLogins, IsAccepted, WireLogins,
     WillBeAccepted, Ascending, Found
<1>3. cmd'[new] = c /\ \A r : r # new => cmd'[r] = cmd[r]
  BY <1>1, CommandGiven
<1>4. SameWrites
  <2>1. \A r \in ToSet(writes) : r = TLS \/ r # new
    BY WritesMade, WaitingMade
  <2> QED BY <1>3, <2>1 DEF SameWrites
<1>5. /\ C \in SUBSET Nat /\ H \in SUBSET Nat /\ M \in SUBSET Nat
      /\ W \in SUBSET Nat /\ R \in SUBSET Nat /\ Q \in SUBSET Nat
      /\ issued \in Nat /\ Chain(C, H, M, W, R, Q, issued)
      /\ Ascending(WriteLogins)
  BY LoginNumbers DEF Logins
<1>6. /\ Q \subseteq ToSet(queue)' /\ ToSet(queue)' \subseteq Q \cup {new}
      /\ c \notin PriorityCmds => ToSet(queue)' = Q \cup {new}
  BY <1>1, JoinSets
<1> HIDE DEF C, H, M, W, R, Q
<1>7. Chain(C, H, M, W, R, Q \cup {new}, new)
  BY <1>5, ChainQueue
<1>8. Chain(C, H, M, W, R, ToSet(queue)', new)
  BY <1>6, <1>7 DEF Chain, Precede
<1>9. CASE writes' = writes
  <2>1. WriteLogins' = WriteLogins
    BY <1>4, <1>9, WritesKept
  <2>2. Ascending(WriteLogins)' /\ Found(WriteLogins)' = R
    BY <1>5, <2>1 DEF R, Ascending, Found
  <2> QED BY <1>1, <1>2, <1>8, <2>2 DEF Logins, C
<1>10. CASE writes' = Append(writes, new) /\ queue = <<>>
  <2>1. c \in {"login", "again"} => c \notin PriorityCmds
    BY LoginAssumption DEF LoginCmds, IcamCmds
  <2>2. \A y \in R : y <= new
    BY <1>7 DEF Chain, Precede
  <2>3. new \in Requests \cup {TLS} /\ \A y \in Found(WriteLogins) : y <= new
    BY <1>1, <2>2 DEF R
  <2>4. /\ Ascending(WriteLogins)'
        /\ Found(WriteLogins)' \subseteq R
              \cup (IF c \in {"login", "again"} THEN {new} ELSE {})
    BY <1>3, <1>4, <1>5, <1>10, <2>3, WritesGiven DEF R
  <2>5. CASE c \in {"login", "again"}
    <3>1. Q = {} /\ ToSet(queue)' = {new}
      <4>1. Q = {}
        BY <1>10 DEF Q, ToSet
      <4> QED BY <1>6, <2>1, <2>5, <4>1
    <3>2. Precede({new}, ToSet(queue)') /\ new \in ToSet(queue)'
      BY <1>5, <3>1 DEF Precede
    <3>3. Chain(C, H, M, W, R \cup {new}, ToSet(queue)', new)
      BY <1>8, <3>2, ChainWrites
    <3>4. Chain(C, H, M, W, Found(WriteLogins)', ToSet(queue)', new)
      BY <2>4, <2>5, <3>3, ChainShrinks
    <3> QED BY <1>1, <1>2, <2>4, <3>4 DEF Logins, C
  <2>6. CASE c \notin {"login", "again"}
    <3>1. Chain(C, H, M, W, Found(WriteLogins)', ToSet(queue)', new)
      BY <1>8, <2>4, <2>6, ChainShrinks
    <3> QED BY <1>1, <1>2, <2>4, <3>1 DEF Logins, C
  <2> QED BY <2>5, <2>6
<1> QED BY <1>1, <1>9, <1>10 DEF Joins

(* A header is taken from the main queue and kept.                         *)
LEMMA HeaderTaken ==
    ASSUME TypeOK, Queues, Logins, main # <<>>, main' = Tail(main),
           \/ UNCHANGED currentResponseHeader
           \/ /\ Head(main).event = "read" /\ Head(main).tag = "header"
              /\ KeepHeader(Head(main).part)
    PROVE  /\ Ascending(MainLogins)'
           /\ Chain({userDefalutsCookie}, HeaderLogin', Found(MainLogins)',
                    Found(WireLogins), Found(WriteLogins), ToSet(queue), issued)
<1> DEFINE C == {userDefalutsCookie}
           H == HeaderLogin
           M == Found(MainLogins)
           W == Found(WireLogins)
           R == Found(WriteLogins)
           Q == ToSet(queue)
           M2 == Found(MainLogins)'
<1>1. /\ Ascending(MainLogins)' /\ M2 \subseteq M
      /\ IsAccepted(1) =>
           main[1].part.req \in M /\ Precede({main[1].part.req}, M2)
  BY MainTaken DEF Logins
<1>2. Chain(C, H, M, W, R, Q, issued)
  BY DEF Logins
<1>3. C = {userDefalutsCookie} /\ H = HeaderLogin /\ M2 = Found(MainLogins)'
      /\ W = Found(WireLogins) /\ R = Found(WriteLogins) /\ Q = ToSet(queue)
  OBVIOUS
<1> HIDE DEF C, H, M, W, R, Q, M2
<1>4. CASE UNCHANGED currentResponseHeader
  <2>1. HeaderLogin' = H
    BY <1>4 DEF HeaderLogin, H
  <2>2. Chain(C, H, M2, W, R, Q, issued)
    BY <1>1, <1>2 DEF Chain, Precede
  <2> QED BY <1>1, <1>3, <2>1, <2>2
<1>5. CASE /\ Head(main).event = "read" /\ Head(main).tag = "header"
           /\ KeepHeader(Head(main).part)
  <2>1. Head(main) = main[1]
    BY HeadOfMain
  <2>2. HeaderLogin' = IF IsAccepted(1) THEN {main[1].part.req} ELSE {}
    BY <1>5, <2>1 DEF HeaderLogin, IsAccepted, KeepHeader, HeaderOf
  <2>3. CASE IsAccepted(1)
    <3>1. Chain(C, {main[1].part.req}, M2, W, R, Q, issued)
      BY <1>1, <1>2, <2>3, ChainHeader
    <3> QED BY <1>1, <1>3, <2>2, <2>3, <3>1
  <2>4. CASE ~ IsAccepted(1)
    <3>1. Chain(C, {}, M2, W, R, Q, issued)
      BY <1>1, <1>2 DEF Chain, Precede
    <3> QED BY <1>1, <1>3, <2>2, <2>4, <3>1
  <2> QED BY <2>3, <2>4
<1> QED BY <1>4, <1>5

(* The cookie after a completion: that of the last header read.            *)
LEMMA CookieTaken ==
    ASSUME TypeOK, FinishStep
    PROVE  \/ userDefalutsCookie' = userDefalutsCookie
           \/ HeaderLogin' = {userDefalutsCookie'}
<1>1. CASE userDefalutsCookie' = userDefalutsCookie
  BY <1>1
<1>2. CASE userDefalutsCookie' # userDefalutsCookie
  <2>1. /\ GivenHeader.status = "accepted"
        /\ userDefalutsCookie' = GivenHeader.req
    BY <1>2 DEF FinishStep, CookieAfter
  <2>2. currentResponseHeader' = GivenHeader
    <3>1. CASE Head(main) = DisconnectBlock /\ UNCHANGED currentResponseHeader
      BY <3>1, BlocksAreBlocks DEF GivenHeader
    <3>2. CASE Head(main).event = "read" /\ Head(main).tag = "header"
               /\ KeepHeader(Head(main).part)
      BY <3>2 DEF GivenHeader, KeepHeader
    <3>3. CASE Head(main).event = "read" /\ Head(main).tag = "body"
               /\ UNCHANGED currentResponseHeader
      BY <3>3 DEF GivenHeader
    <3> QED BY <3>1, <3>2, <3>3 DEF FinishStep
  <2> QED BY <2>1, <2>2 DEF HeaderLogin
<1> QED BY <1>1, <1>2

(* The end of an exchange moves logins along the chain.                    *)
LEMMA FinishLogins ==
    ASSUME TypeOK, Served, Queues, RoomIsKept, Logins, FinishStep, TypeOK',
           Queues'
    PROVE  Logins'
<1> DEFINE H == HeaderLogin'
           M == Found(MainLogins)'
           W == Found(WireLogins)
           R == Found(WriteLogins)
           Q == ToSet(queue)
           C == {userDefalutsCookie'}
           Q2 == ToSet(queue')
           n2 == issued'
           x == currentRequest'
<1>1. /\ main # <<>> /\ main' = Tail(main) /\ wire' = wire
      /\ \/ UNCHANGED currentResponseHeader
         \/ /\ Head(main).event = "read" /\ Head(main).tag = "header"
            /\ KeepHeader(Head(main).part)
      /\ \E from : Finishes(from)
  BY DEF FinishStep
<1>2. /\ Ascending(MainLogins)'
      /\ Chain({userDefalutsCookie}, H, M, W, R, Q, issued)
  BY <1>1, HeaderTaken
<1>3. Found(WireLogins)' = W /\ Ascending(WireLogins)'
  BY <1>1 DEF Logins, WireLogins, WillBeAccepted, Ascending, Found
<1>4. /\ issued \in Nat /\ userDefalutsCookie' \in Nat
      /\ W \in SUBSET Nat /\ R \in SUBSET Nat /\ Q \in SUBSET Nat
      /\ Ascending(WriteLogins)
  <2>1. userDefalutsCookie' \in 0 .. MaxRequests /\ MaxRequests \in Nat
    BY BoundAssumption DEF TypeOK
  <2>2. userDefalutsCookie' \in Nat
    BY <2>1
  <2>3. Ascending(WriteLogins)
    BY DEF Logins
  <2> QED BY <2>2, <2>3, LoginNumbers
<1>5. H \in SUBSET Nat /\ M \in SUBSET Nat
  <2>1. M \subseteq Found(MainLogins)
    BY <1>1, MainTaken DEF Logins
  <2>2. Found(MainLogins) \in SUBSET Nat
    BY LoginNumbers
  <2>3. currentResponseHeader'.req \in Nat
    <3>1. currentResponseHeader' \in Headers
      BY DEF TypeOK
    <3>2. currentResponseHeader'.req \in 0 .. MaxRequests
      BY <3>1, HeaderFields
    <3> QED BY <3>2, BoundAssumption
  <2> QED BY <2>1, <2>2, <2>3 DEF HeaderLogin
<1>6. userDefalutsCookie' = userDefalutsCookie \/ H = {userDefalutsCookie'}
  BY CookieTaken
<1>7. \/ Q2 \subseteq Q /\ issued' = issued
      \/ Q2 \subseteq Q \cup {issued + 1} /\ issued' = issued + 1
  <2>1. CASE currentRequest = NoRequest
    <3>1. queue' = <<>> /\ issued' = issued
      BY <1>1, <2>1 DEF Finishes, historyVars, NoRequest, Requests
    <3> QED BY <3>1 DEF ToSet
  <2>2. CASE currentRequest # NoRequest
    <3>1. currentRequest \in Requests /\ Leaves
      BY <1>1, <2>2 DEF Finishes
    <3>2. ToSet(queue)' = Q2
      BY DEF ToSet
    <3> QED BY <3>1, <3>2, LeaveSets
  <2> QED BY <2>1, <2>2
<1>8. SameWrites
  <2>1. \A r \in ToSet(writes) : r = TLS \/ r # issued + 1
    BY WritesMade, WaitingMade
  <2>2. CASE cmd' = cmd
    BY <2>2 DEF SameWrites
  <2>3. CASE \E c \in {"login", "again"} :
                /\ cmd' = [cmd EXCEPT ![issued + 1] = c]
                /\ issued' = issued + 1 /\ issued + 1 \in Requests
    <3>1. PICK c \in {"login", "again"} :
                /\ cmd' = [cmd EXCEPT ![issued + 1] = c]
                /\ issued' = issued + 1 /\ issued + 1 \in Requests
      BY <2>3
    <3>2. \A r : r # issued + 1 => cmd'[r] = cmd[r]
      BY <3>1, CommandGiven DEF LoginCmds
    <3> QED BY <2>1, <3>2 DEF SameWrites
  <2>4. cmd' = cmd \/ \E c \in {"login", "again"} :
                /\ cmd' = [cmd EXCEPT ![issued + 1] = c]
                /\ issued' = issued + 1 /\ issued + 1 \in Requests
    <3>1. CASE currentRequest = NoRequest
      BY <1>1, <3>1 DEF Finishes, historyVars, NoRequest, Requests
    <3>2. CASE currentRequest # NoRequest
      <4>1. currentRequest \in Requests /\ Leaves
        BY <1>1, <3>2 DEF Finishes
      <4> QED BY <4>1, LeaveSets
    <3> QED BY <3>1, <3>2
  <2> QED BY <2>2, <2>3, <2>4
<1>9. \/ writes' = writes
      \/ /\ writes' = Append(writes, x) /\ x \in Requests
         /\ \/ priorityQueue' # <<>> /\ x = Head(priorityQueue')
            \/ queue' # <<>> /\ x = Head(queue')
  BY <1>1 DEF Finishes, Serves
<1>10. C = {userDefalutsCookie'} /\ H = HeaderLogin' /\ M = Found(MainLogins)'
       /\ R = Found(WriteLogins) /\ Q2 = ToSet(queue)' /\ n2 = issued'
  BY DEF ToSet
<1>11. x \in Requests => x # TLS
  BY DEF Requests, TLS
<1>12. Sorted(queue)' /\ queue' \in Seq(Requests)
       /\ priorityQueue' \in Seq(Requests)
       /\ \A i \in DOMAIN priorityQueue' : cmd'[priorityQueue'[i]] \in IcamCmds
  BY DEF TypeOK, Queues
<1> HIDE DEF C, H, M, W, R, Q, Q2, n2
<1>13. Chain(C, H, M, W, R, Q, issued)
  <2>1. CASE userDefalutsCookie' = userDefalutsCookie
    BY <1>2, <2>1, <1>10
  <2>2. CASE H = {userDefalutsCookie'}
    BY <1>2, <1>4, <1>10, <2>2, ChainCookie
  <2> QED BY <1>6, <2>1, <2>2
<1>14. Chain(C, H, M, W, R, Q2, n2)
  <2>1. CASE Q2 \subseteq Q /\ issued' = issued
    BY <1>10, <1>13, <2>1 DEF Chain, Precede
  <2>2. CASE Q2 \subseteq Q \cup {issued + 1} /\ issued' = issued + 1
    <3>1. C \in SUBSET Nat
      BY <1>4, <1>10
    <3>2. Chain(C, H, M, W, R, Q \cup {issued + 1}, issued + 1)
      BY <1>4, <1>5, <1>13, <3>1, ChainQueue
    <3> QED BY <1>10, <2>2, <3>2 DEF Chain, Precede
  <2> QED BY <1>7, <2>1, <2>2
<1>15. CASE writes' = writes
  <2>1. WriteLogins' = WriteLogins
    BY <1>8, <1>15, WritesKept
  <2>2. Ascending(WriteLogins)' /\ Found(WriteLogins)' = R
    BY <1>4, <1>10, <2>1 DEF Ascending, Found
  <2> QED BY <1>2, <1>3, <1>10, <1>14, <2>2 DEF Logins
<1>16. ASSUME writes' = Append(writes, x), x \in Requests, queue' # <<>>,
              x = Head(queue')
       PROVE  Logins'
  <2>1. x \in Q2 /\ \A y \in Q2 : x <= y
    <3>1. x \in ToSet(queue') /\ x = queue'[1] /\ 1 \in DOMAIN queue'
          /\ \A i \in DOMAIN queue' : i \in Nat /\ i >= 1 /\ queue'[i] \in Nat
      BY <1>12, <1>16, TailShape, BoundAssumption DEF ToSet, Requests
    <3>2. \A i \in DOMAIN queue' : x <= queue'[i]
      <4> SUFFICES ASSUME NEW i \in DOMAIN queue' PROVE x <= queue'[i]
        OBVIOUS
      <4>1. CASE i = 1
        BY <3>1, <4>1
      <4>2. CASE i # 1
        <5>1. 1 < i
          BY <3>1, <4>2
        <5>2. queue'[1] < queue'[i]
          BY <1>12, <3>1, <5>1 DEF Sorted
        <5> QED BY <3>1, <5>2
      <4> QED BY <4>1, <4>2
    <3> QED BY <3>1, <3>2 DEF Q2, ToSet
  <2>2. Precede({x}, Q2) /\ \A y \in R : y <= x
    BY <1>14, <2>1 DEF Chain, Precede
  <2>3. x \in Requests \cup {TLS} /\ \A y \in Found(WriteLogins) : y <= x
    BY <1>16, <2>2 DEF R
  <2>4. /\ Ascending(WriteLogins)' /\ Found(WriteLogins)' \subseteq R \cup {x}
    BY <1>4, <1>8, <1>10, <1>16, <2>3, WritesGiven
  <2>5. Chain(C, H, M, W, R \cup {x}, Q2, n2)
    BY <1>14, <2>1, <2>2, ChainWrites
  <2>6. Chain(C, H, M, W, Found(WriteLogins)', Q2, n2)
    BY <2>4, <2>5 DEF Chain, Precede
  <2> QED BY <1>2, <1>3, <1>10, <2>4, <2>6 DEF Logins
<1>17. ASSUME writes' = Append(writes, x), x \in Requests, priorityQueue' # <<>>,
              x = Head(priorityQueue')
       PROVE  Logins'
  <2>1. cmd'[x] \notin {"login", "again"}
    <3>1. x = priorityQueue'[1] /\ 1 \in DOMAIN priorityQueue'
      BY <1>12, <1>17, TailShape
    <3> QED BY <1>12, <3>1 DEF IcamCmds
  <2>2. x \in Requests \cup {TLS}
    BY <1>17
  <2>3. /\ Ascending(WriteLogins)' /\ Found(WriteLogins)' \subseteq R
    BY <1>4, <1>8, <1>10, <1>17, <2>1, <2>2, WritesGiven
  <2>4. Chain(C, H, M, W, Found(WriteLogins)', Q2, n2)
    BY <1>14, <2>3 DEF Chain, Precede
  <2> QED BY <1>2, <1>3, <1>10, <2>3, <2>4 DEF Logins
<1> QED BY <1>9, <1>15, <1>16, <1>17

(* The server answers a login.                                             *)
LEMMA AnswerLogins ==
    ASSUME TypeOK, Queues, Logins, ServerAnswers
    PROVE  Logins'
<1> DEFINE C == {userDefalutsCookie}
           H == HeaderLogin
           M == Found(MainLogins)
           W == Found(WireLogins)
           R == Found(WriteLogins)
           Q == ToSet(queue)
           M2 == Found(MainLogins)'
           R2 == Found(WriteLogins)'
           r == writes[1]
<1>1. /\ writes # <<>> /\ r \in Requests /\ writes' = Tail(writes)
      /\ main' = Append(main, WriteBlock)
      /\ UNCHANGED <<queue, currentResponseHeader, cmd, issued, userDefalutsCookie>>
  BY WireGrows DEF queues, historyVars
<1>2. Ascending(MainLogins)' /\ M2 \subseteq M
  BY <1>1, MainQuiet DEF Logins
<1>3. SameWrites
  BY <1>1 DEF SameWrites
<1>4. /\ Ascending(WriteLogins)' /\ R2 \subseteq R
      /\ IsLogin(1) => r \in R /\ Precede({r}, R2)
  BY <1>1, <1>3, WritesTaken DEF Logins
<1>5. Chain(C, H, M, W, R, Q, issued) /\ Ascending(WireLogins)
  BY DEF Logins
<1>6. HeaderLogin' = H /\ ToSet(queue)' = Q /\ {userDefalutsCookie'} = C
      /\ issued' = issued /\ M2 = Found(MainLogins)' /\ R2 = Found(WriteLogins)'
      /\ W = Found(WireLogins)
  BY <1>1 DEF HeaderLogin, ToSet
<1>7. \/ wire' = wire
      \/ \E status \in StatusesFor(cmd[r]), kind \in AnswerKinds :
            wire' = wire \o AnswerTo(r, status, kind)
  BY WireGrows
<1> HIDE DEF C, H, M, W, R, Q, M2, R2
<1>8. CASE wire' = wire
  <2>1. Ascending(WireLogins)' /\ Found(WireLogins)' \subseteq W
    BY <1>5, <1>6, <1>8, WireQuiet
  <2>2. Chain(C, H, M2, Found(WireLogins)', R2, Q, issued)
    BY <1>2, <1>4, <1>5, <2>1 DEF Chain, Precede
  <2> QED BY <1>2, <1>4, <1>6, <2>1, <2>2 DEF Logins
<1>9. ASSUME NEW status \in StatusesFor(cmd[r]), NEW kind \in AnswerKinds,
             wire' = wire \o AnswerTo(r, status, kind)
      PROVE  Logins'
  <2>1. status \in Statuses
    BY DEF StatusesFor, Statuses
  <2>2. status = "accepted" => IsLogin(1)
    <3>1. r # TLS
      BY <1>1 DEF Requests, TLS
    <3> QED BY <3>1 DEF StatusesFor, IsLogin
  <2>3. CASE status = "accepted"
    <3>1. r \in R /\ Precede({r}, R2)
      BY <1>4, <2>2, <2>3
    <3>2. \A y \in W : y <= r
      BY <1>5, <3>1 DEF Chain, Precede
    <3>3. Ascending(WireLogins)' /\ Found(WireLogins)' \subseteq W \cup {r}
      BY <1>1, <1>5, <1>6, <1>9, <2>1, <2>3, <3>2, WireGiven
    <3>4. Chain(C, H, M, W \cup {r}, R2, Q, issued)
      BY <1>4, <1>5, <3>1, ChainWire
    <3>5. Chain(C, H, M2, Found(WireLogins)', R2, Q, issued)
      BY <1>2, <3>3, <3>4 DEF Chain, Precede
    <3> QED BY <1>2, <1>4, <1>6, <3>3, <3>5 DEF Logins
  <2>4. CASE status # "accepted"
    <3>1. Ascending(WireLogins)' /\ Found(WireLogins)' \subseteq W
      BY <1>1, <1>5, <1>6, <1>9, <2>1, <2>4, WireGiven
    <3>2. Chain(C, H, M2, Found(WireLogins)', R2, Q, issued)
      BY <1>2, <1>4, <1>5, <3>1 DEF Chain, Precede
    <3> QED BY <1>2, <1>4, <1>6, <3>1, <3>2 DEF Logins
  <2> QED BY <2>3, <2>4
<1> QED BY <1>7, <1>8, <1>9

(* The socket reads a header, or the bytes of a body.                      *)
LEMMA ReadLogins ==
    ASSUME TypeOK, Queues, Logins, ReadStep
    PROVE  Logins'
<1> DEFINE C == {userDefalutsCookie}
           H == HeaderLogin
           M == Found(MainLogins)
           W == Found(WireLogins)
           R == Found(WriteLogins)
           Q == ToSet(queue)
           W2 == Found(WireLogins)'
<1>1. UNCHANGED <<queue, writes, cmd, currentResponseHeader, issued,
                  userDefalutsCookie>>
  BY DEF ReadStep, SocketReads, queues, historyVars
<1>2. PICK i \in DOMAIN wire, status \in Statuses : Reads(i, status)
  BY ReadShape
<1>3. Head(reads) = reads[1]
  BY ReadShape
<1>4. WriteLogins' = WriteLogins
  BY <1>1 DEF WriteLogins, IsLogin
<1>5. /\ Ascending(WireLogins)' /\ W2 \subseteq W
      /\ WillBeAccepted(i) => wire[i].req \in W /\ Precede({wire[i].req}, W2)
  BY <1>2, WireTaken DEF Logins, Reads
<1> DEFINE b == ReadBlock(reads[1], [wire[i] EXCEPT !.status = status])
           x == wire[i].req
<1>6. b \in Blocks /\ main' = Append(main, b)
  <2>1. wire[i] \in Parts /\ reads[1] \in Tags
    BY <1>2 DEF TypeOK, Reads, Tags
  <2> QED BY <1>2, <2>1, PartFields, BlocksAreBlocks DEF Reads
<1>7. LoginOf(b) = IF reads[1] = "header" /\ status = "accepted" THEN x ELSE 0
  <2>1. wire[i] \in Parts
    BY <1>2 DEF TypeOK
  <2>2. [wire[i] EXCEPT !.status = status].status = status
        /\ [wire[i] EXCEPT !.status = status].req = x
    BY <2>1, PartFields
  <2>3. b.event = "read" /\ b.tag = reads[1]
        /\ b.part = [wire[i] EXCEPT !.status = status]
    BY DEF ReadBlock
  <2> HIDE DEF x, b
  <2> QED BY <2>2, <2>3 DEF LoginOf
<1>8. reads[1] = "header" /\ status = "accepted" => WillBeAccepted(i)
  BY <1>2 DEF Reads, WillBeAccepted
<1>9. /\ Chain(C, H, M, W, R, Q, issued) /\ Ascending(MainLogins)
      /\ Ascending(WriteLogins)
  BY DEF Logins
<1>10. HeaderLogin' = H /\ ToSet(queue)' = Q /\ {userDefalutsCookie'} = C
       /\ issued' = issued /\ M = Found(MainLogins) /\ W2 = Found(WireLogins)'
       /\ Found(WriteLogins)' = R /\ Ascending(WriteLogins)'
  BY <1>1, <1>4, <1>9 DEF HeaderLogin, ToSet, Found, Ascending
<1> HIDE DEF C, H, M, W, R, Q, W2, b, x
<1>11. CASE reads[1] = "header" /\ status = "accepted"
  <2>1. x \in W /\ Precede({x}, W2) /\ LoginOf(b) = x
    BY <1>5, <1>7, <1>8, <1>11 DEF x
  <2>2. \A y \in M : y <= x
    BY <1>9, <2>1 DEF Chain, Precede
  <2>3. Ascending(MainLogins)' /\ Found(MainLogins)' \subseteq M \cup {x}
    BY <1>6, <1>9, <1>10, <2>1, <2>2, MainGiven
  <2>4. Chain(C, H, M \cup {x}, W2, R, Q, issued)
    BY <1>5, <1>9, <2>1, ChainMain
  <2>5. Chain(C, H, Found(MainLogins)', W2, R, Q, issued)
    BY <2>3, <2>4 DEF Chain, Precede
  <2> QED BY <1>5, <1>10, <2>3, <2>5 DEF Logins
<1>12. CASE ~ (reads[1] = "header" /\ status = "accepted")
  <2>1. LoginOf(b) = 0
    BY <1>7, <1>12
  <2>2. Ascending(MainLogins)' /\ Found(MainLogins)' \subseteq M
    BY <1>6, <1>9, <1>10, <2>1, MainGiven
  <2>3. Chain(C, H, Found(MainLogins)', W2, R, Q, issued)
    BY <1>5, <1>9, <2>2 DEF Chain, Precede
  <2> QED BY <1>5, <1>10, <2>2, <2>3 DEF Logins
<1> QED BY <1>11, <1>12

(* The logins stay in the order in which they were made (Logins).          *)
LEMMA LoginsStep ==
    ASSUME TypeOK, Served, Queues, RoomIsKept, Logins, [Next]_vars,
           TypeOK', Queues'
    PROVE  Logins'
<1> USE DEF queues, historyVars, socketVars
<1>1. CASE \E c \in LoginCmds : Ask(c) /\ JoinStep(c)
  BY <1>1, JoinLogins
<1>2. CASE FinishStep
  BY <1>2, FinishLogins
<1>3. CASE HeaderStep
  <2>1. /\ main # <<>> /\ main' = Tail(main)
        /\ Head(main).event = "read" /\ Head(main).tag = "header"
        /\ KeepHeader(Head(main).part)
        /\ UNCHANGED <<queue, writes, wire, cmd, issued, userDefalutsCookie>>
    BY <1>3 DEF HeaderStep
  <2>2. /\ Ascending(MainLogins)'
        /\ Chain({userDefalutsCookie}, HeaderLogin', Found(MainLogins)',
                 Found(WireLogins), Found(WriteLogins), ToSet(queue), issued)
    BY <2>1, HeaderTaken
  <2>3. WireLogins' = WireLogins /\ WriteLogins' = WriteLogins
    BY <2>1 DEF WireLogins, WillBeAccepted, WriteLogins, IsLogin
  <2>4. /\ Found(WireLogins)' = Found(WireLogins)
        /\ Found(WriteLogins)' = Found(WriteLogins)
        /\ ToSet(queue)' = ToSet(queue)
        /\ Ascending(WireLogins)' /\ Ascending(WriteLogins)'
    BY <2>1, <2>3 DEF Logins, Ascending, Found, ToSet
  <2> QED BY <2>1, <2>2, <2>4 DEF Logins
<1>4. CASE ConnectStep
  BY <1>4, QuietLogins DEF ConnectStep, DidConnect, StartSSL, Queued
<1>5. CASE WriteStep
  BY <1>5, QuietLogins DEF WriteStep, DidWriteData
<1>6. CASE ServerAnswers
  BY <1>6, AnswerLogins
<1>7. CASE CloseStep
  BY <1>7, QuietLogins DEF CloseStep, SocketCloses
<1>8. CASE CancelStep
  BY <1>8, QuietLogins DEF CancelStep, CancelAll
<1>9. CASE OpenStep
  BY <1>9, QuietLogins DEF OpenStep, SocketConnects
<1>10. CASE SecureStep
  BY <1>10, QuietLogins DEF SecureStep, SocketSecures, HandshakeIsDue
<1>11. CASE ReadStep
  BY <1>11, ReadLogins
<1>12. CASE UNCHANGED vars
  BY <1>12, QuietLogins DEF vars, queueVars
<1> QED BY <1>1, <1>2, <1>3, <1>4, <1>5, <1>6, <1>7, <1>8, <1>9, <1>10, <1>11,
           <1>12, NextCases

-----------------------------------------------------------------------------
(* The invariant, and what follows from it.                                *)

(* The inductive invariant holds at the start. *)
LEMMA InitInv ==
    ASSUME Init
    PROVE  IInv
<1> USE BoundAssumption DEF Init, QueueInit
<1>1. /\ ToSet(<<>>) = {} /\ \A S : <<>> \in Seq(S)
      /\ DOMAIN <<>> = {}
  BY DEF ToSet
<1>2. NoHeader \in Headers /\ NoHeader.status = "none"
  BY DEF Headers, NoHeader
<1>3. TypeOK
  <2>1. cmd \in [Requests -> Cmds \cup {"none"}] /\ calls \in [Requests -> Nat]
        /\ answer \in [Requests -> SUBSET Requests]
    OBVIOUS
  <2>2. issued \in 0 .. MaxRequests /\ userDefalutsCookie \in 0 .. MaxRequests
    OBVIOUS
  <2> QED BY <1>1, <1>2, <2>1, <2>2 DEF TypeOK, SocketStates
<1>4. Queues
  <2>1. \A r \in Requests : ~ (r <= issued) /\ cmd[r] = "none"
    BY DEF Requests
  <2> QED BY <1>1, <2>1 DEF Queues, Sorted
<1>5. Served
  BY DEF Served
<1>6. RoomIsKept
  <2>1. Waiting = {}
    BY <1>1 DEF Waiting
  <2>2. Asking("session") = {} /\ Asking("login") = {}
    BY <2>1 DEF Asking
  <2>3. Owed = 0
    BY <1>3, <2>2, WaitingIsFinite, FS_EmptySet
  <2> QED BY <2>3 DEF RoomIsKept
<1>7. Connects
  BY DEF Connects, Fresh, Handshakes
<1>8. Exchange
  BY DEF Exchange
<1>9. AnswerIsOwn /\ AnswersMatch /\ HeaderFirst
  <2>1. \A r \in Requests : answer[r] \subseteq {r}
    OBVIOUS
  <2> QED BY <1>1, <2>1 DEF AnswerIsOwn, AnswersMatch, HeaderFirst
<1>10. Logins
  <2>1. /\ DOMAIN MainLogins = {} /\ DOMAIN WireLogins = {}
        /\ DOMAIN WriteLogins = {}
    BY <1>1 DEF MainLogins, WireLogins, WriteLogins
  <2>2. Found(MainLogins) = {} /\ Found(WireLogins) = {} /\ Found(WriteLogins) = {}
    BY <2>1 DEF Found
  <2>3. HeaderLogin = {}
    BY <1>2 DEF HeaderLogin
  <2>4. Ascending(MainLogins) /\ Ascending(WireLogins) /\ Ascending(WriteLogins)
    BY <2>1 DEF Ascending
  <2>5. Chain({0}, {}, {}, {}, {}, {}, 0)
    BY DEF Chain, Precede
  <2> QED BY <1>1, <2>2, <2>3, <2>4, <2>5 DEF Logins
<1> QED BY <1>3, <1>4, <1>5, <1>6, <1>7, <1>8, <1>9, <1>10 DEF IInv

(* The invariant holds in every state of the specification.                *)
THEOREM Inductive == Spec => []IInv
<1>1. Init => IInv
  BY InitInv
<1>2. IInv /\ [Next]_vars => IInv'
  <2> SUFFICES ASSUME IInv, [Next]_vars PROVE IInv'
    OBVIOUS
  <2> USE DEF IInv
  <2>1. Queues' /\ Served'
    BY QueuesStep
  <2>2. RoomIsKept'
    BY RoomStep
  <2>3. TypeOK'
    BY TypeStep
  <2>4. Connects'
    BY ConnectsStep
  <2>5. Exchange'
    BY ExchangeStep
  <2>6. AnswerIsOwn'
    BY OwnStep
  <2>7. AnswersMatch'
    BY MatchStep
  <2>8. HeaderFirst'
    BY HeaderFirstStep
  <2>9. Logins'
    BY <2>1, <2>3, LoginsStep
  <2> QED BY <2>1, <2>2, <2>3, <2>4, <2>5, <2>6, <2>7, <2>8, <2>9
<1> QED BY <1>1, <1>2, PTL DEF Spec

(* The variables keep their types, those of the login screen and of its    *)
(* queue: TypeOK.                                                          *)
THEOREM TypeCorrect == Spec => []TypeOK
<1>1. IInv => TypeOK
  BY DEF IInv
<1> QED BY <1>1, Inductive, PTL

(* Between two blocks of the main queue a request is current if any waits: *)
(* QueueIsServed.  addHttpRequest, whose kick-off looks at the length of   *)
(* the queues only, never leaves them with nobody to start them.           *)
THEOREM ServedAlways == Spec => []QueueIsServed
<1>1. IInv => QueueIsServed
  BY CurrentWaits DEF IInv, QueueIsServed
<1> QED BY <1>1, Inductive, PTL

(* Unless cancelAll let a request go, a completion gets the header and the *)
(* body of one answer, its own request's until an answer without a length  *)
(* has left its body on the wire: AnswersMatch.                            *)
THEOREM AnswersCorrect == Spec => []AnswersMatch
<1>1. IInv => AnswersMatch
  BY DEF IInv
<1> QED BY <1>1, Inductive, PTL

(* The cookie is never replaced by that of an earlier login:               *)
(* CookieNeverGoesBack.                                                    *)
THEOREM CookieCorrect == Spec => CookieNeverGoesBack
<1>1. ASSUME IInv, [Next]_vars
      PROVE  [userDefalutsCookie' >= userDefalutsCookie]_vars
  <2> USE <1>1 DEF IInv
  <2>0. userDefalutsCookie \in Nat
    BY LoginNumbers
  <2>1. CASE FinishStep
    <3>1. userDefalutsCookie' = userDefalutsCookie
          \/ HeaderLogin' = {userDefalutsCookie'}
      BY <2>1, CookieTaken
    <3>2. /\ main # <<>> /\ main' = Tail(main)
          /\ \/ UNCHANGED currentResponseHeader
             \/ /\ Head(main).event = "read" /\ Head(main).tag = "header"
                /\ KeepHeader(Head(main).part)
      BY <2>1 DEF FinishStep
    <3>3. Chain({userDefalutsCookie}, HeaderLogin', Found(MainLogins)',
                Found(WireLogins), Found(WriteLogins), ToSet(queue), issued)
      BY <3>2, HeaderTaken
    <3>4. HeaderLogin' = {userDefalutsCookie'} =>
             userDefalutsCookie <= userDefalutsCookie'
      BY <3>3 DEF Chain, Precede
    <3>5. userDefalutsCookie' \in Nat
      BY TypeStep, BoundAssumption DEF TypeOK
    <3> QED BY <2>0, <3>1, <3>4, <3>5
  <2>2. ~ FinishStep => UNCHANGED userDefalutsCookie
    BY NextCases DEF JoinStep, HeaderStep, ConnectStep, WriteStep,
       ServerAnswers, CloseStep, CancelStep, OpenStep, SecureStep, ReadStep, vars
  <2> QED BY <2>0, <2>1, <2>2
<1> QED BY <1>1, Inductive, PTL DEF Spec, CookieNeverGoesBack

(* The head of a sorted queue is its first request.                        *)
LEMMA FirstOfSorted ==
    ASSUME NEW q \in Seq(Requests), Sorted(q), q # <<>>
    PROVE  Head(q) \in ToSet(q) /\ \A r \in ToSet(q) : ~ (r < Head(q))
<1>1. Head(q) = q[1] /\ 1 \in DOMAIN q
      /\ \A i \in DOMAIN q : i \in Nat /\ i >= 1 /\ q[i] \in Nat
  BY TailShape, BoundAssumption DEF Requests
<1>2. \A i \in DOMAIN q : ~ (q[i] < q[1])
  <2> SUFFICES ASSUME NEW i \in DOMAIN q PROVE ~ (q[i] < q[1])
    OBVIOUS
  <2>1. CASE i = 1
    BY <1>1, <2>1
  <2>2. CASE i # 1
    <3>1. 1 < i
      BY <1>1, <2>2
    <3>2. q[1] < q[i]
      BY <1>1, <3>1 DEF Sorted
    <3> QED BY <1>1, <3>2
  <2> QED BY <2>1, <2>2
<1> QED BY <1>1, <1>2 DEF ToSet

(* No request is started while an older one of its queue waits, and no     *)
(* ordinary one while a priority one waits: OrderKept.                     *)
THEOREM OrderCorrect == Spec => OrderKept
<1>1. ASSUME IInv, IInv', [Next]_vars
      PROVE  \/ currentRequest' \in {currentRequest, NoRequest}
             \/ \A r \in Waiting' : ~ Precedes(r, currentRequest')
  <2> USE <1>1
  <2>1. /\ TypeOK /\ Served /\ Queues /\ RoomIsKept
    BY DEF IInv
  <2>2. /\ queue' \in Seq(Requests) /\ priorityQueue' \in Seq(Requests)
        /\ Sorted(queue') /\ Sorted(priorityQueue')
        /\ \A r \in ToSet(queue') : cmd'[r] \in LoginCmds \ IcamCmds
        /\ \A r \in ToSet(priorityQueue') : cmd'[r] \in IcamCmds
        /\ Waiting' = ToSet(queue') \cup ToSet(priorityQueue')
    <3>1. TypeOK' /\ Queues'
      BY DEF IInv
    <3>2. queue' \in Seq(Requests) /\ priorityQueue' \in Seq(Requests)
      BY <3>1 DEF TypeOK
    <3>3. Sorted(queue') /\ Sorted(priorityQueue')
      BY <3>1 DEF Queues, Sorted
    <3>4. \A r \in ToSet(queue') : cmd'[r] \in LoginCmds \ IcamCmds
      BY <3>1 DEF Queues, Ordinary, ToSet
    <3>5. \A r \in ToSet(priorityQueue') : cmd'[r] \in IcamCmds
      BY <3>1 DEF Queues, ToSet
    <3>6. Waiting' = ToSet(queue') \cup ToSet(priorityQueue')
      BY DEF Waiting, ToSet
    <3> QED BY <3>2, <3>3, <3>4, <3>5, <3>6
  <2>3. /\ \A r \in ToSet(queue') : cmd'[r] \notin PriorityCmds
        /\ \A r \in ToSet(priorityQueue') : cmd'[r] \in PriorityCmds
    BY <2>2, LoginAssumption
  <2>4. CASE priorityQueue' # <<>> /\ currentRequest' = Head(priorityQueue')
    <3>1. /\ currentRequest' \in ToSet(priorityQueue')
          /\ \A r \in ToSet(priorityQueue') : ~ (r < currentRequest')
      BY <2>2, <2>4, FirstOfSorted
    <3> QED BY <2>2, <2>3, <3>1 DEF Precedes
  <2>5. CASE priorityQueue' = <<>> /\ queue' # <<>>
             /\ currentRequest' = Head(queue')
    <3>1. /\ currentRequest' \in ToSet(queue')
          /\ \A r \in ToSet(queue') : ~ (r < currentRequest')
      BY <2>2, <2>5, FirstOfSorted
    <3>2. Waiting' = ToSet(queue')
      BY <2>2, <2>5 DEF ToSet
    <3> QED BY <2>3, <3>1, <3>2 DEF Precedes
  <2>6. CASE \E c \in LoginCmds : Joins(c)
    <3>1. CASE currentRequest = NoRequest
      <4>1. /\ queue = <<>> /\ priorityQueue = <<>>
            /\ \/ queue' = queue
               \/ priorityQueue' = priorityQueue
        BY <2>6, <3>1 DEF Joins
      <4> QED BY <2>4, <2>5, <4>1 DEF IInv, Served
    <3>2. CASE currentRequest # NoRequest
      BY <2>6, <3>2 DEF Joins
    <3> QED BY <3>1, <3>2
  <2>7. CASE FinishStep
    <3>1. Serves
      BY <2>7 DEF FinishStep, Finishes
    <3> QED BY <2>4, <2>5, <3>1 DEF Serves
  <2>8. CASE CancelStep
    BY <2>8 DEF CancelStep, CancelAll
  <2>9. CASE Keeps
    BY <2>9 DEF Keeps, queues
  <2> QED BY <2>1, <2>6, <2>7, <2>8, <2>9, NextCases, QuietSteps DEF JoinStep
<1> QED BY <1>1, Inductive, PTL DEF Spec, OrderKept

=============================================================================
