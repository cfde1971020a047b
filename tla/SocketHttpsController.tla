----------------------- MODULE SocketHttpsController ------------------------
(***************************************************************************)
(* SocketHttpsController.m: a screen that logs in to a camera over a       *)
(* RequestQueue.  A digest login asks for a session, logs in with what the *)
(* refusal says and, refused again, once more; each step is made by the    *)
(* completion of the one before.  The cookie of an accepted login is kept  *)
(* and goes out with later requests.                                       *)
(***************************************************************************)
EXTENDS RequestQueue, FiniteSets

VARIABLE userDefalutsCookie   \* the login whose cookie is kept; 0: none
vars == <<queueVars, userDefalutsCookie>>

(* The commands a screen needs: "again" is a login whose refusal is final, *)
(* as that of the basic login is; "icam" stands for the priority command.  *)
LoginCmds == {"session", "login", "again", "get", "icam"}
IcamCmds == {"icam"}

ASSUME LoginAssumption ==
    LoginCmds \subseteq Cmds /\ LoginCmds \cap PriorityCmds = IcamCmds

Init == QueueInit /\ userDefalutsCookie = 0

(* The server: a login is accepted or refused, anything else refused or    *)
(* answered.                                                               *)
StatusesFor(c) ==
    IF c \in {"login", "again"} THEN {"accepted", "refused"}
    ELSE {"refused", "other"}

ServerAnswers ==
    /\ \E status \in Statuses :
        /\ writes # <<>> /\ Head(writes) # TLS
        /\ status \in StatusesFor(cmd[Head(writes)])
        /\ SocketWrites(status)
    /\ UNCHANGED userDefalutsCookie

-----------------------------------------------------------------------------
(* The completion of a request with command c: the requests it makes and   *)
(* the cookie it leaves.                                                   *)
Follows(c, header) ==
    CASE c = "session"                              -> <<"login">>
      [] c = "login" /\ header.status = "refused"   -> <<"again">>
      [] OTHER                                      -> <<>>

CookieAfter(c, header) ==
    IF c \in {"login", "again"} /\ header.status = "accepted"
    THEN header.req ELSE userDefalutsCookie

Nested ==
    IF Completes THEN Follows(cmd[currentRequest], GivenHeader) ELSE <<>>

MainQueue ==
    /\ \/ DidConnect
       \/ DidDisconnect(Nested)
       \/ DidWriteData
       \/ DidReadData(Nested)
    /\ userDefalutsCookie' =
          IF Completes THEN CookieAfter(cmd[currentRequest], GivenHeader)
          ELSE userDefalutsCookie

(* The logins that requests still waiting may make: room is kept for them  *)
(* within MaxRequests.                                                     *)
Depth(c) == CASE c = "session" -> 2 [] c = "login" -> 1 [] OTHER -> 0
Waiting == ToSet(queue) \cup ToSet(priorityQueue)
Owed ==
    2 * Cardinality({r \in Waiting : cmd[r] = "session"})
        + Cardinality({r \in Waiting : cmd[r] = "login"})

Ask(c) ==
    /\ issued + Owed + Depth(c) < MaxRequests
    /\ Request(c)
    /\ UNCHANGED userDefalutsCookie

DigestEvent == Ask("session")
BasicEvent == Ask("again")
BasicGetEvent == Ask("get")
IcamRequest == Ask("icam")       \* by any other client of the queue

Presses == DigestEvent \/ BasicEvent \/ BasicGetEvent \/ IcamRequest
Drops == CancelAll \/ Disconnect
ConnectEnds == SocketConnects \/ ConnectFails
HandshakeEnds == SocketSecures \/ HandshakeFails
WriteEnds == ServerAnswers \/ WriteTimesOut
ReadEnds == SocketReads \/ ReadTimesOut
Socket ==
    ConnectEnds \/ HandshakeEnds \/ WriteTimesOut \/ ReadEnds \/ ServerCloses

Next ==
    \/ Presses
    \/ MainQueue
    \/ ServerAnswers
    \/ (Drops \/ Socket) /\ UNCHANGED userDefalutsCookie

Spec == Init /\ [][Next]_vars

(* The main queue runs its blocks.  The socket gives each connection       *)
(* attempt, write and read a time limit; a handshake has none, and ends    *)
(* because the server answers it or closes the connection.                 *)
Fairness ==
    /\ WF_vars(MainQueue)
    /\ WF_vars(ConnectEnds /\ UNCHANGED userDefalutsCookie)
    /\ WF_vars(HandshakeEnds /\ UNCHANGED userDefalutsCookie)
    /\ WF_vars(WriteEnds /\ UNCHANGED userDefalutsCookie)
    /\ WF_vars(ReadEnds /\ UNCHANGED userDefalutsCookie)
FairSpec == Spec /\ Fairness

-----------------------------------------------------------------------------
(* Properties                                                              *)

(* The types of the variables: no completion makes more requests than a    *)
(* press of a button accounts for.                                         *)
TypeOK ==
    /\ queue \in Seq(Requests) /\ priorityQueue \in Seq(Requests)
    /\ currentRequest \in Requests \cup {NoRequest}
    /\ currentResponseHeader \in Headers
    /\ sock \in SocketStates
    /\ writes \in Seq(Requests \cup {TLS})
    /\ reads \in Seq(Tags)
    /\ wire \in Seq(Parts)
    /\ main \in Seq(Blocks)
    /\ cmd \in [Requests -> Cmds \cup {"none"}]
    /\ issued \in 0 .. MaxRequests
    /\ calls \in [Requests -> Nat]
    /\ answer \in [Requests -> SUBSET Requests]
    /\ cancelled \in BOOLEAN /\ bodyLeft \in BOOLEAN
    /\ userDefalutsCookie \in 0 .. MaxRequests

(* Between two blocks some request is current if any waits, and it is one  *)
(* of those that wait: the kick-off of addHttpRequest, which looks at the  *)
(* number of requests only, never leaves a priority request, or one made   *)
(* inside a completion, with nobody to start it.                           *)
QueueIsServed ==
    IF Waiting = {} THEN currentRequest = NoRequest
    ELSE currentRequest \in Waiting

(* Unless cancelAll let go of a request that was on its way, a completion  *)
(* called without an error gets the header and the body of one and the     *)
(* same answer, and that is its own request's answer unless the server has *)
(* sent one without a length: the body of that is left on the wire, and a  *)
(* later header read may take it for a header and call the completion of   *)
(* another request.                                                        *)
AnswersMatch ==
    cancelled \/ \A r \in Requests :
                    /\ \E s \in Requests : answer[r] \subseteq {s}
                    /\ bodyLeft \/ answer[r] \subseteq {r}

(* The cookie kept is never replaced by that of an earlier login, although *)
(* a completion called for a disconnect is handed an older header.         *)
CookieNeverGoesBack == [][userDefalutsCookie' >= userDefalutsCookie]_vars

(* No request is started while an older one of its queue waits, and no     *)
(* ordinary one while a priority one waits.                                *)
Precedes(r, s) ==
    IF (cmd'[r] \in PriorityCmds) = (cmd'[s] \in PriorityCmds) THEN r < s
    ELSE cmd'[r] \in PriorityCmds
OrderKept ==
    [][currentRequest' \in {currentRequest, NoRequest} \/
       \A r \in Waiting' : ~ Precedes(r, currentRequest')]_vars

(* The queues drain: every request made leaves, answered, failed or        *)
(* cancelled, those its completion makes included.                         *)
QueuesDrain == []<>(Waiting = {})
=============================================================================
