---------------------------- MODULE ICamTunnel ----------------------------
(***************************************************************************)
(* ICamController, ICamServer, ICamTcpRelay and ICamConnection: local TCP  *)
(* connections of an app are carried over one link to a camera, each as a  *)
(* channel with a small number.  All callbacks run on the main queue.      *)
(* Left out: ping and pong, the live stream on channel 1, and the split of *)
(* data longer than one frame; none of them touches the channels.          *)
(***************************************************************************)
EXTENDS ICamMessage, FiniteSets, FiniteSetsExt, SequencesExt

CONSTANTS MaxConns,        \* bound: local connections, each used once
          KMaxChannelNum,
          MaxData,         \* bound: chunks an app sends on a connection
          MaxLinks,        \* bound: times the camera connects
          Faults           \* what the camera and the cable may do besides:
                           \*   "closes"   the camera closes a channel by itself
                           \*   "answers"  it confirms deleting what it does not have
                           \*   "silent"   a link is lost without notice

kUserChannelBase == 2

ASSUME ConstantsAssumption ==
    /\ MaxConns \in Nat /\ MaxData \in Nat /\ MaxLinks \in Nat
    /\ KMaxChannelNum \in Nat /\ KMaxChannelNum > kUserChannelBase
    /\ KMaxChannelNum <= 65536       \* a number has 16 bits on the wire
    /\ Faults \subseteq {"closes", "answers", "silent"}

Conns == 1..MaxConns
LinkIds == 1..MaxLinks
Nobody == 0
Ids == 0..(KMaxChannelNum - 1)
UserIds == kUserChannelBase..(KMaxChannelNum - 1)
Port == 80               \* the forward port of a relay

(* A connection of a relay and its ICamChannel are made together and named *)
(* by one number.                                                          *)
VARIABLES
    local,                   \* the relay's socket: "none" (not yet), "open", "closed"
    num, linked, pendingBuf, \* ICamChannel
    ids,                     \* ICamServer: numbers taken
    connMap,                 \* ICamServer: number -> channel
    pendingConnectChannels,  \* ICamServer: channels to announce when a camera connects
    conn,                    \* ICamServer.conn: the link its ICamConnection is of, 0 for nil
    channels,                \* ICamController.conns and channels
    started,
    main,                    \* blocks on the main queue from the camera's sockets
    link, up,                \* the camera's links so far; the last one is up
    toCamera,                \* frames under way to the camera
    cam,                     \* the camera: number -> connection it stands for
    sent, received,          \* history: chunks sent by the app, chunks at the camera
    mixed,                   \* history: data reached another connection
    deaf                     \* link -> how it was lost without the server being told:
                             \*   "no", "silent" (its socket is open),
                             \*   "missed" (its socket has told the wrong object)

localVars == <<local, sent>>
channelVars == <<num, linked, pendingBuf>>
serverVars == <<ids, connMap, pendingConnectChannels, conn>>
linkVars == <<link, up>>
cameraVars == <<toCamera, cam, received>>
vars == <<localVars, channelVars, serverVars, channels, started, main, linkVars, cameraVars,
          mixed, deaf>>

Init ==
    /\ local = [c \in Conns |-> "none"] /\ sent = [c \in Conns |-> 0]
    /\ num = [c \in Conns |-> 0]
    /\ linked = [c \in Conns |-> FALSE]
    /\ pendingBuf = [c \in Conns |-> <<>>]
    /\ ids = [i \in Ids |-> FALSE]
    /\ connMap = [i \in Ids |-> Nobody]
    /\ pendingConnectChannels = <<>>
    /\ conn = 0
    /\ channels = {}
    /\ started = TRUE
    /\ main = <<>>
    /\ link = 0 /\ up = FALSE
    /\ toCamera = <<>> /\ cam = [i \in Ids |-> Nobody]
    /\ received = [c \in Conns |-> <<>>]
    /\ mixed = FALSE /\ deaf = [n \in LinkIds |-> "no"]

(* A frame, and the connection it is for (which is not on the wire). *)
Frame(bytes, c) == [bytes |-> bytes, owner |-> c]

NewChannel(c) == Frame(icam_message_encode_new_channel(num[c], Port), c)
Data(i, c, k) == Frame(TransportFrame(i, <<c, k>>), c)

(* Frames written to the server's connection arrive if that is the link    *)
(* that is up.                                                             *)
Written(n, frames) == IF up /\ n = link THEN toCamera \o frames ELSE toCamera

(* sendData:channel:error: looks the channel up; a channel that is not     *)
(* found, or has the number 0, is an error nobody reads.                   *)
IdOf(c) == LET found == {i \in Ids : connMap[i] = c}
           IN  IF found = {} THEN 0 ELSE Max(found)

SendData(c, chunks) ==
    Written(conn, IF IdOf(c) = 0 THEN <<>>
                  ELSE [k \in DOMAIN chunks |-> Data(IdOf(c), c, chunks[k])])

-----------------------------------------------------------------------------
(* The app and its relay connections. *)

FreeIds == {i \in UserIds : ~ids[i]}

(* addTransportChannel:callback: goes on with the number 0 after it has    *)
(* reported that no number is free.                                        *)
FirstFree == IF FreeIds = {} THEN 0 ELSE Min(FreeIds)

(* newConnection:port:  A connection that the relay accepted before a pause *)
(* may reach the controller after it.  Bound: one of them at a time.       *)
LocalConnects(c) ==
    /\ started \/ channels = {}
    /\ local[c] = "none" /\ \A d \in 1..(c - 1) : local[d] # "none"
    /\ local' = [local EXCEPT ![c] = "open"]
    /\ num' = [num EXCEPT ![c] = FirstFree]
    /\ ids' = [ids EXCEPT ![FirstFree] = TRUE]
    /\ connMap' = [connMap EXCEPT ![FirstFree] = c]
    /\ IF conn # 0
         THEN /\ toCamera' = Written(conn,
                   <<Frame(icam_message_encode_new_channel(FirstFree, Port), c)>>)
              /\ UNCHANGED pendingConnectChannels
         ELSE /\ pendingConnectChannels' = Append(pendingConnectChannels, c)
              /\ UNCHANGED toCamera
    /\ channels' = channels \cup {c}
    /\ UNCHANGED <<sent, linked, pendingBuf, conn, started, main, linkVars, cam, received,
                   mixed, deaf>>

(* conn:didReadData: and sendData: of the channel. *)
LocalSends(c) ==
    /\ local[c] = "open" /\ sent[c] < MaxData
    /\ sent' = [sent EXCEPT ![c] = @ + 1]
    /\ IF linked[c]
         THEN toCamera' = SendData(c, <<sent'[c]>>) /\ UNCHANGED pendingBuf
         ELSE pendingBuf' = [pendingBuf EXCEPT ![c] = Append(@, sent'[c])]
              /\ UNCHANGED toCamera
    /\ UNCHANGED <<local, num, linked, serverVars, channels, started, main, linkVars, cam,
                   received, mixed, deaf>>

(* removeTransportChannel: with the number freed at once, a mutant. *)
FreeAtOnce(c) == [ids EXCEPT ![IdOf(c)] = FALSE]

(* The number stays taken until the camera confirms. *)
KeepTaken(c) == ids

(* A channel is in the list of those to announce once at most. *)
Without(s, c) == RemoveAt(s, CHOOSE k \in DOMAIN s : s[k] = c)

(* closeConnection: and removeTransportChannel:.  A channel that has not   *)
(* been announced only leaves the list of those to announce.               *)
LocalCloses(c) ==
    /\ local[c] = "open"
    /\ local' = [local EXCEPT ![c] = "closed"]
    /\ IF c \in ToSet(pendingConnectChannels)
         THEN /\ pendingConnectChannels' = Without(pendingConnectChannels, c)
              /\ UNCHANGED <<connMap, ids, toCamera>>
         ELSE /\ connMap' = [connMap EXCEPT ![IdOf(c)] = Nobody]
              /\ ids' = KeepTaken(c)
              /\ toCamera' = Written(conn,
                   <<Frame(icam_message_encode_delete_channel(IdOf(c)), c)>>)
              /\ UNCHANGED pendingConnectChannels
    /\ UNCHANGED <<sent, channelVars, conn, channels, started, main, linkVars, cam, received,
                   mixed, deaf>>

-----------------------------------------------------------------------------
(* The link. *)

AcceptBlock(n) == [kind |-> "accept", link |-> n, frame |-> Frame(<<>>, Nobody)]
ReadBlock(frame) == [kind |-> "read", link |-> link, frame |-> frame]
DisconnectBlock == [kind |-> "disconnect", link |-> conn, frame |-> Frame(<<>>, Nobody)]

CameraConnects ==
    /\ started /\ ~up /\ link < MaxLinks
    /\ link' = link + 1 /\ up' = TRUE
    /\ toCamera' = <<>> /\ cam' = [i \in Ids |-> Nobody]
    /\ main' = Append(main, AcceptBlock(link + 1))
    /\ UNCHANGED <<localVars, channelVars, serverVars, channels, started, received, mixed, deaf>>

(* The link goes down, and with it what is under way: frames to the camera *)
(* and any of those from it that have not been read.  A loss that is       *)
(* noticed is a block for the server.                                      *)
LinkDown(how) ==
    /\ up' = FALSE /\ UNCHANGED link
    /\ toCamera' = <<>> /\ cam' = [i \in Ids |-> Nobody]
    /\ \E n \in 0..Len(main) :
        /\ \A k \in (n + 1)..Len(main) : main[k].kind = "read"
        /\ main' = SubSeq(main, 1, n)
                     \o (IF how = "noticed" THEN <<DisconnectBlock>> ELSE <<>>)
    /\ deaf' = IF how = "noticed" THEN deaf ELSE [deaf EXCEPT ![link] = how]
    /\ UNCHANGED received

(* A new socket has the server for its delegate, and the server does not   *)
(* look at its disconnect, until the accept block has made it the socket   *)
(* of an ICamConnection.                                                   *)
LinkLost ==
    /\ up
    /\ \/ LinkDown(IF conn = link THEN "noticed" ELSE "missed")
       \/ "silent" \in Faults /\ LinkDown("silent")
    /\ UNCHANGED <<localVars, channelVars, serverVars, channels, started, mixed>>

(* The link of the server's connection was lost in silence, and the server *)
(* holds its socket open.                                                  *)
BelievedUp ==
    /\ conn # 0 /\ ~(up /\ conn = link) /\ deaf[conn] = "silent"
    /\ DisconnectBlock \notin ToSet(main)

(* That socket closes.  If the camera has connected again, the new link    *)
(* waits to be accepted ahead of this block, and handleDisconnected, which *)
(* looks at no socket, takes the connection of the new link for the one    *)
(* that was lost.  Nobody reads the new link from then on: it is lost.     *)
OldSocketCloses ==
    /\ main' = Append(main, DisconnectBlock)
    /\ up' = FALSE
    /\ deaf' = IF up THEN [deaf EXCEPT ![link] = "silent"] ELSE deaf
    /\ UNCHANGED <<link, cameraVars>>

(* A write that times out tells of the loss. *)
LossNoticed ==
    /\ BelievedUp
    /\ OldSocketCloses
    /\ UNCHANGED <<localVars, channelVars, serverVars, channels, started, mixed>>

-----------------------------------------------------------------------------
(* ICamController. *)

(* pause: the server's socket is closed, the local connections too, and    *)
(* the lists forgotten; the server's tables stay until the disconnect.     *)
Pause ==
    /\ started' = FALSE
    /\ local' = [c \in Conns |-> IF c \in channels THEN "closed" ELSE local[c]]
    /\ channels' = {}
    /\ \/ conn = link /\ up /\ LinkDown("noticed")
       \/ BelievedUp /\ OldSocketCloses
       \/ /\ ~(conn = link /\ up) /\ ~BelievedUp
          /\ UNCHANGED <<main, linkVars, cameraVars, deaf>>
    /\ UNCHANGED <<sent, channelVars, serverVars, mixed>>

Resume ==
    /\ ~started
    /\ started' = TRUE
    /\ UNCHANGED <<localVars, channelVars, serverVars, channels, main, linkVars, cameraVars,
                   mixed, deaf>>

-----------------------------------------------------------------------------
(* ICamServer: the head block of the main queue. *)

Announced(s) == [k \in DOMAIN s |-> NewChannel(s[k])]

(* socket:didAcceptNewSocket: *)
DidAcceptNewSocket ==
    /\ main # <<>> /\ Head(main).kind = "accept"
    /\ main' = Tail(main)
    /\ conn' = Head(main).link
    /\ toCamera' = Written(Head(main).link, Announced(pendingConnectChannels))
    /\ pendingConnectChannels' = <<>>
    /\ UNCHANGED <<localVars, channelVars, ids, connMap, channels, started, linkVars, cam,
                   received, mixed, deaf>>

(* didDisconnectedChannel: of the channels that the controller still has. *)
Closes(cs) ==
    /\ linked' = [c \in Conns |-> linked[c] /\ c \notin cs]
    /\ pendingBuf' = [c \in Conns |-> IF c \in cs THEN <<>> ELSE pendingBuf[c]]
    /\ local' = [c \in Conns |-> IF c \in cs \cap channels THEN "closed" ELSE local[c]]
    /\ channels' = channels \ cs

InMap == {connMap[i] : i \in Ids} \ {Nobody}

(* Mutant: only the channels in use are closed. *)
LinkedInMap == {c \in InMap : linked[c]}

(* handleDisconnected: *)
HandleDisconnectedOf(cs) ==
    /\ main # <<>> /\ Head(main).kind = "disconnect"
    /\ main' = Tail(main)
    /\ Closes(cs)
    /\ connMap' = [i \in Ids |-> Nobody]
    /\ pendingConnectChannels' = <<>>
    /\ conn' = 0
    /\ ids' = [i \in Ids |-> i < kUserChannelBase /\ ids[i]]
    /\ deaf' = [n \in LinkIds |-> IF n <= conn THEN "no" ELSE deaf[n]]
    /\ UNCHANGED <<sent, num, started, linkVars, cameraVars, mixed>>

HandleDisconnectedOfLinked == HandleDisconnectedOf(LinkedInMap)

HandleDisconnected == HandleDisconnectedOf(InMap)

(* The frame of the read block at the head. *)
Received == icam_message_decode(Head(main).frame.bytes)
Reads(type) ==
    /\ main # <<>> /\ Head(main).kind = "read"
    /\ main' = Tail(main)
    /\ Received.type = type

(* Mutant: the flag before the data that waits, which then waits on. *)
LinkUpUnflushed ==
    /\ Reads(kPacketTypeLinkUp)
    /\ LET c == connMap[Received.channel_id] IN
        linked' = [linked EXCEPT ![c] = TRUE]
    /\ UNCHANGED <<localVars, num, pendingBuf, serverVars, channels, started, linkVars,
                   cameraVars, mixed, deaf>>

(* onLinkUp: what has been kept is sent first. *)
HandleLinkUp ==
    /\ Reads(kPacketTypeLinkUp)
    /\ LET c == connMap[Received.channel_id] IN
        IF c = Nobody
          THEN UNCHANGED <<linked, pendingBuf, toCamera>>
          ELSE /\ toCamera' = SendData(c, pendingBuf[c])
               /\ pendingBuf' = [pendingBuf EXCEPT ![c] = <<>>]
               /\ linked' = [linked EXCEPT ![c] = TRUE]
    /\ UNCHANGED <<localVars, num, serverVars, channels, started, linkVars, cam, received,
                   mixed, deaf>>

(* onLinkDown: the number is free again; the channel stays in the map. *)
HandleLinkDown ==
    /\ Reads(kPacketTypeLinkDown)
    /\ ids' = [ids EXCEPT ![Received.channel_id] = FALSE]
    /\ Closes({connMap[Received.channel_id]} \ {Nobody})
    /\ UNCHANGED <<sent, num, connMap, pendingConnectChannels, conn, started, linkVars,
                   cameraVars, mixed, deaf>>

(* handleTransportData:from: *)
HandleTransportData ==
    /\ Reads(Transport)
    /\ LET c == connMap[Received.channel] IN
        mixed' = (mixed \/ (c \in channels /\ c # Head(main).frame.owner))
    /\ UNCHANGED <<localVars, channelVars, serverVars, channels, started, linkVars, cameraVars,
                   deaf>>

MainStep ==
    \/ DidAcceptNewSocket \/ HandleDisconnected
    \/ HandleLinkUp \/ HandleLinkDown \/ HandleTransportData

-----------------------------------------------------------------------------
(* The camera, as the server's handlers expect it.  It keeps a connection  *)
(* of its own for every channel.                                           *)

ToServer(bytes, c) == main' = Append(main, ReadBlock(Frame(bytes, c)))
Arrived == icam_message_decode(Head(toCamera).bytes)
Takes(type) ==
    /\ up /\ toCamera # <<>>
    /\ toCamera' = Tail(toCamera)
    /\ Arrived.type = type
    /\ UNCHANGED <<localVars, channelVars, serverVars, channels, started, linkVars, deaf>>

CameraOpens ==
    /\ Takes(kPacketTypeNewChannel)
    /\ LET i == Arrived.channel_id  c == Head(toCamera).owner IN
        /\ cam' = [cam EXCEPT ![i] = c]
        /\ ToServer(icam_message_encode_channel_linkup(i), c)
    /\ UNCHANGED <<received, mixed>>

CameraDeletes ==
    /\ Takes(kPacketTypeDeleteChannel)
    /\ LET i == Arrived.channel_id IN
        /\ cam' = [cam EXCEPT ![i] = Nobody]
        /\ IF cam[i] # Nobody \/ "answers" \in Faults
             THEN ToServer(icam_message_encode_channel_linkdown(i), cam[i])
             ELSE UNCHANGED main
    /\ UNCHANGED <<received, mixed>>

CameraReceives ==
    /\ Takes(Transport)
    /\ LET c == cam[Arrived.channel] IN
        IF c = Nobody
          THEN UNCHANGED <<received, mixed>>
          ELSE /\ received' = [received EXCEPT ![c] = Append(@, Arrived.data[2])]
               /\ mixed' = (mixed \/ Arrived.data[1] # c)
    /\ UNCHANGED <<cam, main>>

(* Data for the app.  Bound: one chunk of a channel under way. *)
CameraSends(i) ==
    /\ up /\ i \in UserIds /\ cam[i] # Nobody
    /\ \A k \in DOMAIN main : main[k] # ReadBlock(Data(i, cam[i], 0))
    /\ main' = Append(main, ReadBlock(Data(i, cam[i], 0)))
    /\ UNCHANGED <<localVars, channelVars, serverVars, channels, started, linkVars, cameraVars,
                   mixed, deaf>>

CameraCloses(i) ==
    /\ "closes" \in Faults /\ up /\ cam[i] # Nobody
    /\ cam' = [cam EXCEPT ![i] = Nobody]
    /\ ToServer(icam_message_encode_channel_linkdown(i), cam[i])
    /\ UNCHANGED <<localVars, channelVars, serverVars, channels, started, linkVars, toCamera,
                   received, mixed, deaf>>

CameraStep == CameraOpens \/ CameraDeletes \/ CameraReceives

-----------------------------------------------------------------------------
Next ==
    \/ MainStep \/ CameraStep
    \/ \E c \in Conns : LocalConnects(c) \/ LocalSends(c) \/ LocalCloses(c)
    \/ CameraConnects \/ LinkLost \/ LossNoticed
    \/ \E i \in Ids : CameraSends(i) \/ CameraCloses(i)
    \/ Pause \/ Resume

(* The main queue is served, and the camera reads what has reached it.  A  *)
(* step of either takes a block or a frame away.                           *)
Fairness == WF_main(MainStep) /\ WF_toCamera(CameraStep)

Spec == Init /\ [][Next]_vars
FairSpec == Spec /\ Fairness

-----------------------------------------------------------------------------
(* Properties. *)

(* Types of the variables (ICamServer.m:41-133, ICamController.m:24-29). *)
TypeOK ==
    /\ local \in [Conns -> {"none", "open", "closed"}]
    /\ sent \in [Conns -> 0..MaxData]
    /\ num \in [Conns -> {0} \cup UserIds]
    /\ linked \in [Conns -> BOOLEAN]
    /\ pendingBuf \in [Conns -> Seq(1..MaxData)]
    /\ ids \in [Ids -> BOOLEAN]
    /\ connMap \in [Ids -> Conns \cup {Nobody}]
    /\ pendingConnectChannels \in Seq(Conns)
    /\ conn \in 0..MaxLinks /\ link \in 0..MaxLinks
    /\ channels \subseteq Conns
    /\ started \in BOOLEAN /\ up \in BOOLEAN /\ mixed \in BOOLEAN
    /\ deaf \in [LinkIds -> {"no", "silent", "missed"}]
    /\ \A k \in DOMAIN main : main[k].kind \in {"accept", "read", "disconnect"}
    /\ cam \in [Ids -> Conns \cup {Nobody}]
    /\ received \in [Conns -> Seq(1..MaxData)]

(* Data of one connection never reaches another, though numbers are used   *)
(* again and both ends may close a channel at once (ICamServer.m:253-256,  *)
(* 296-304).                                                               *)
NeverMixed == ~mixed

(* What the camera gets of a connection is what the app sent, in order and *)
(* without a hole: what was kept before the link was up comes first        *)
(* (ICamServer.m:84-103).                                                  *)
InOrder == \A c \in Conns : \A k \in DOMAIN received[c] : received[c][k] = k

(* A number that is free is free at both ends: the camera does not have    *)
(* it, and nothing about it is under way but a delete the camera ignores   *)
(* (ICamServer.m:203-219, 299-301).                                        *)
AboutId(m, i) ==
    \/ m.type = Transport /\ m.channel = i
    \/ m.type \in IdTypes /\ m.channel_id = i
FreeIdIsIdle ==
    \A i \in FreeIds :
        (up /\ conn = link) =>
            /\ cam[i] = Nobody
            /\ \A k \in DOMAIN toCamera :
                icam_message_decode(toCamera[k].bytes) #
                    [type |-> kPacketTypeNewChannel, channel_id |-> i]
            /\ \A k \in DOMAIN main : main[k].kind = "read" =>
                ~AboutId(icam_message_decode(main[k].frame.bytes), i)

(* Again and again every open local connection that got a number is linked,*)
(* unless the link is lost -- or was, without a word to the server         *)
(* (ICamServer.m:222-227, 291-304, 359-363).                               *)
EachIsSettled ==
    []<>(up /\ (\A n \in LinkIds : deaf[n] = "no") =>
            \A c \in Conns : local[c] = "open" /\ num[c] # 0 => linked[c])
=============================================================================
