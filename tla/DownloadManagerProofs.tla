------------------------ MODULE DownloadManagerProofs ------------------------
(***************************************************************************)
(* Theorems about DownloadManager, for every set of items, every size and  *)
(* bound and every set of faults.  First the type of the state and the     *)
(* head of the queue (IInv); on them rest the lists and the cached file    *)
(* (Safe); on both rest the saves of whole files and that no item is lost. *)
(***************************************************************************)
EXTENDS DownloadManager, SequenceTheorems, TLAPS

InfoType == [Infos -> DownloadInfo]
DiskType == [Files -> Nat \cup {Absent}]
SocketType == [ state : SocketStates, delegate : BOOLEAN, from : Nat, left : Nat ]

(* The inductive invariant: the type of the state, and the head of the     *)
(* queue as the download under way.                                        *)
IInv == TypeOK /\ DownloadingIsHead

(* What a step that starts, or does not start, the next download leaves.   *)
Started ==
    /\ infoQueue' \in Seq(Infos)
    /\ info' \in InfoType
    /\ downloadingInfo' \in Infos \cup {Nil}
    /\ downloadPath' \in Files \cup {NoFile}
    /\ currentFileHanle' \in Files \cup {NoFile}
    /\ disk' \in DiskType
    /\ socket' \in SocketType
    /\ mainQueue' \in Seq(Block)
    /\ DownloadingIsHead'

-----------------------------------------------------------------------------
(* Sequences.                                                              *)

(* What RemoveAt leaves, index by index. *)
LEMMA RemoveAtElements ==
    ASSUME NEW S, NEW q \in Seq(S), NEW k \in 1 .. Len(q)
    PROVE  /\ RemoveAt(q, k) \in Seq(S)
           /\ Len(RemoveAt(q, k)) = Len(q) - 1
           /\ \A j \in 1 .. Len(q) - 1 :
                 RemoveAt(q, k)[j] = q[IF j < k THEN j ELSE j + 1]
<1> DEFINE a == SubSeq(q, 1, k - 1)
           b == SubSeq(q, k + 1, Len(q))
<1>0. Len(q) \in Nat /\ k \in 1 .. Len(q) /\ k \in Nat
  OBVIOUS
<1>1. /\ a \in Seq(S) /\ Len(a) = k - 1
      /\ \A j \in 1 .. k - 1 : a[j] = q[j]
  <2>1. \A j \in 1 .. k - 1 : q[j] \in S
    OBVIOUS
  <2>2. /\ a \in Seq(S)
        /\ Len(a) = IF 1 <= k - 1 THEN (k - 1) - 1 + 1 ELSE 0
        /\ \A j \in 1 .. (k - 1) - 1 + 1 : a[j] = q[1 + j - 1]
    BY <2>1, SubSeqProperties
  <2> QED BY <2>2
<1>2. /\ b \in Seq(S) /\ Len(b) = Len(q) - k
      /\ \A j \in 1 .. Len(q) - k : b[j] = q[k + j]
  <2>1. \A j \in k + 1 .. Len(q) : q[j] \in S
    OBVIOUS
  <2>2. /\ b \in Seq(S)
        /\ Len(b) = IF k + 1 <= Len(q) THEN Len(q) - (k + 1) + 1 ELSE 0
        /\ \A j \in 1 .. Len(q) - (k + 1) + 1 : b[j] = q[(k + 1) + j - 1]
    BY <2>1, SubSeqProperties
  <2>3. \A j \in 1 .. Len(q) - k : (k + 1) + j - 1 = k + j
    BY <1>0
  <2> QED BY <1>0, <2>2, <2>3
<1>3. RemoveAt(q, k) = a \o b
  BY DEF RemoveAt
<1> HIDE DEF a, b
<1>4. /\ a \o b \in Seq(S)
      /\ Len(a \o b) = Len(a) + Len(b)
      /\ \A j \in 1 .. Len(a) + Len(b) :
            (a \o b)[j] = IF j <= Len(a) THEN a[j] ELSE b[j - Len(a)]
  BY <1>1, <1>2, ConcatProperties
<1>5. Len(a) + Len(b) = Len(q) - 1
  BY <1>0, <1>1, <1>2
<1>6. ASSUME NEW j \in 1 .. Len(q) - 1
      PROVE  (a \o b)[j] = q[IF j < k THEN j ELSE j + 1]
  <2>1. (a \o b)[j] = IF j <= Len(a) THEN a[j] ELSE b[j - Len(a)]
    BY <1>4, <1>5
  <2>2. CASE j < k
    <3>1. j <= Len(a) /\ j \in 1 .. k - 1
      BY <1>0, <1>1, <2>2
    <3> QED BY <1>1, <2>1, <2>2, <3>1
  <2>3. CASE ~ (j < k)
    <3>1. ~ (j <= Len(a)) /\ j - (k - 1) \in 1 .. Len(q) - k /\ k + (j - (k - 1)) = j + 1
      BY <1>0, <1>1, <2>3
    <3>2. b[j - (k - 1)] = q[j + 1]
      BY <1>2, <3>1
    <3> QED BY <1>1, <2>1, <2>3, <3>1, <3>2
  <2> QED BY <2>2, <2>3
<1> QED BY <1>3, <1>4, <1>5, <1>6

(* RemoveAt keeps the type, and the head when it takes a later element. *)
LEMMA RemoveAtType ==
    ASSUME NEW S, NEW q \in Seq(S), NEW k \in 1 .. Len(q)
    PROVE  /\ RemoveAt(q, k) \in Seq(S)
           /\ Len(RemoveAt(q, k)) = Len(q) - 1
           /\ k > 1 => Len(q) > 1 /\ RemoveAt(q, k)[1] = q[1]
<1>1. ASSUME k > 1 PROVE Len(q) > 1 /\ 1 \in 1 .. Len(q) - 1 /\ 1 < k
  BY <1>1
<1> QED BY <1>1, RemoveAtElements

(* What is left of a list of infos without one entry is a list of infos. *)
LEMMA RemoveInfoAtType ==
    ASSUME NEW q \in Seq(Infos), NEW index \in Int
    PROVE  RemoveInfoAt(q, index) \in Seq(Infos)
<1>1. CASE index \in 0 .. Len(q) - 1
  BY <1>1, RemoveAtType DEF RemoveInfoAt
<1>2. CASE index \notin 0 .. Len(q) - 1
  BY <1>2 DEF RemoveInfoAt
<1> QED BY <1>1, <1>2

(* The index every handler looks up is that of the head, or there is none. *)
LEMMA IndexOfCurrent ==
    ASSUME IInv
    PROVE  /\ downloadingInfo = Nil => IndexOf(infoQueue, downloadingInfo) = NotFound
           /\ downloadingInfo # Nil => IndexOf(infoQueue, downloadingInfo) = 0
<1> USE DEF Nil
<1>0. /\ infoQueue \in Seq(Infos)
      /\ \A i \in Infos : i # Nil
      /\ downloadingInfo # Nil => infoQueue # <<>> /\ infoQueue[1] = downloadingInfo
  BY DEF IInv, TypeOK, DownloadingIsHead, Infos
<1>1. CASE downloadingInfo = Nil
  <2>1. \A k \in DOMAIN infoQueue : infoQueue[k] \in Infos
    BY <1>0
  <2>2. \A k \in DOMAIN infoQueue : infoQueue[k] # downloadingInfo
    BY <1>0, <1>1, <2>1
  <2> QED BY <1>1, <2>2 DEF IndexOf
<1>2. CASE downloadingInfo # Nil
  <2> DEFINE P(k) == /\ infoQueue[k] = downloadingInfo
                     /\ \A j \in DOMAIN infoQueue :
                           infoQueue[j] = downloadingInfo => k <= j
  <2>1. 1 \in DOMAIN infoQueue /\ P(1)
    BY <1>0, <1>2
  <2>2. \A k \in DOMAIN infoQueue : P(k) => k = 1
    BY <1>0, <2>1
  <2>3. (CHOOSE k \in DOMAIN infoQueue : P(k)) = 1
    BY <2>1, <2>2
  <2>4. IndexOf(infoQueue, downloadingInfo)
           = (CHOOSE k \in DOMAIN infoQueue : P(k)) - 1
    BY <2>1 DEF IndexOf
  <2> QED BY <1>2, <2>3, <2>4
<1> QED BY <1>1, <1>2

-----------------------------------------------------------------------------
(* Objects and lists.                                                      *)

(* The file of an item that exists is a file. *)
LEMMA ItemFile ==
    ASSUME NEW inf \in InfoType, NEW i \in Infos
    PROVE  inf[i].item.file \in Files \cup {NoFile}
<1>1. inf[i].item \in Items \cup {NoItem}
  BY DEF InfoType, DownloadInfo
<1>2. CASE inf[i].item \in Items
  BY <1>2 DEF Files
<1>3. CASE inf[i].item = NoItem
  <2>1. NoItem.file = NoFile
    BY DEF NoItem
  <2> QED BY <1>3, <2>1, Zenon
<1> QED BY <1>1, <1>2, <1>3

(* An object whose status is set is an object still. *)
LEMMA SetStatusType ==
    ASSUME NEW inf \in InfoType, NEW i \in Infos \cup {Nil},
           NEW status \in Statuses
    PROVE  SetStatus(inf, i, status) \in InfoType
BY DEF SetStatus, InfoType, DownloadInfo

(* An object nobody refers to is an object. *)
LEMMA ReleasedType == Released \in DownloadInfo
BY DEF Released, DownloadInfo, Statuses

(* A new object for an item that exists is an object. *)
LEMMA NewInfoType ==
    ASSUME NEW it \in Items \cup {NoItem}
    PROVE  NewInfo(it) \in DownloadInfo
BY DEF NewInfo, DownloadInfo, Statuses

(* An object put on a list of ended downloads is an object. *)
LEMMA EndedType ==
    ASSUME NEW inf \in InfoType, NEW i \in Infos
    PROVE  Ended(inf, i) \in InfoType
BY DEF Ended, InfoType, DownloadInfo

(* An object marked as failed is an object. *)
LEMMA FailedType ==
    ASSUME NEW inf \in InfoType, NEW i \in Infos \cup {Nil}, NEW failed
    PROVE  Failed(inf, i, failed) \in InfoType
<1>1. ASSUME i \in Infos PROVE [inf EXCEPT ![i] = Released] \in InfoType
  BY <1>1, ReleasedType DEF InfoType
<1> QED BY <1>1, EndedType DEF Failed

(* The failed list is a list of infos after an entry has joined it. *)
LEMMA AddFailedInfoType ==
    ASSUME NEW failed \in Seq(Infos), NEW inf, NEW i \in Infos
    PROVE  AddFailedInfo(failed, inf, i) \in Seq(Infos)
BY DEF AddFailedInfo

(* Removing a cached file leaves a disk. *)
LEMMA UncachedType ==
    ASSUME NEW dk \in DiskType, NEW path
    PROVE  Uncached(dk, path) \in DiskType
BY DEF Uncached, DiskType

(* A closed socket is a socket. *)
LEMMA DisconnectedType ==
    ASSUME NEW s \in SocketType
    PROVE  Disconnected(s) \in SocketType
BY DEF Disconnected, SocketType, NoSocket, SocketStates

(* The number taken for a new object is the number of an object. *)
LEMMA FreshInfo ==
    ASSUME NEW q, NEW failed, Fresh(q, failed) # {}
    PROVE  AnyOf(Fresh(q, failed)) \in Infos
BY DEF AnyOf, Fresh

(* Blocks of a socket that was replaced are blocks still. *)
LEMMA ReplacedType ==
    ASSUME NEW mq \in Seq(Block)
    PROVE  Replaced(mq) \in Seq(Block)
<1>1. \A k \in 1 .. Len(mq) : [mq[k] EXCEPT !.live = FALSE] \in Block
  <2>1. \A k \in 1 .. Len(mq) : mq[k] \in Block
    OBVIOUS
  <2> QED BY <2>1 DEF Block
<1>2. [k \in 1 .. Len(mq) |-> [mq[k] EXCEPT !.live = FALSE]] \in Seq(Block)
  BY <1>1, IsASeq
<1>3. DOMAIN mq = 1 .. Len(mq)
  OBVIOUS
<1> QED BY <1>2, <1>3, Zenon DEF Replaced

(* What the socket posts is a block. *)
LEMMA PostedType ==
    ASSUME NEW kind \in BlockKinds, NEW n \in Nat, NEW live \in BOOLEAN,
           NEW i \in Savers
    PROVE  Posted(kind, n, live, i) \in Block
BY DEF Posted, Block

-----------------------------------------------------------------------------
(* Starting the next download.                                             *)

(* downloadWithInfo: leaves the state well typed, whatever the handler did before. *)
LEMMA DownloadWithInfoType ==
    ASSUME IInv, NEW i \in Infos, NEW inf \in InfoType, NEW dk \in DiskType,
           NEW s \in SocketType, NEW mq \in Seq(Block),
           DownloadWithInfo(i, inf, dk, s, mq)
    PROVE  /\ downloadingInfo' = i
           /\ info' \in InfoType
           /\ downloadPath' \in Files \cup {NoFile}
           /\ disk' \in DiskType
           /\ socket' \in SocketType
           /\ mainQueue' \in Seq(Block)
<1> DEFINE path == inf[i].item.file
<1>1. downloadingInfo' = i
  BY DEF DownloadWithInfo
<1>2. CASE /\ downloadPath' = path
           /\ info' = [inf EXCEPT ![i].status = "Downloading"]
           /\ disk' = IF dk[path] = Absent THEN [dk EXCEPT ![path] = 0] ELSE dk
           /\ socket' = [state |-> "connecting", delegate |-> TRUE,
                         from |-> inf[i].got, left |-> 0]
           /\ mainQueue' = Replaced(mq)
  <2>1. downloadPath' \in Files \cup {NoFile}
    BY <1>2, ItemFile
  <2>2. info' \in InfoType
    BY <1>2 DEF InfoType, DownloadInfo, Statuses
  <2>3. disk' \in DiskType
    BY <1>2 DEF DiskType
  <2>4. inf[i].got \in Nat
    BY DEF InfoType, DownloadInfo
  <2>5. socket' \in SocketType
    BY <1>2, <2>4 DEF SocketType, SocketStates
  <2> QED BY <1>1, <1>2, <2>1, <2>2, <2>3, <2>5, ReplacedType
<1>3. CASE /\ mainQueue' = Append(mq, Posted("outOfSpace", 0, FALSE, Nil))
           /\ info' = inf /\ disk' = dk /\ socket' = s
           /\ UNCHANGED downloadPath
  <2>1. Posted("outOfSpace", 0, FALSE, Nil) \in Block
    BY PostedType DEF BlockKinds, Savers
  <2>2. downloadPath' \in Files \cup {NoFile}
    BY <1>3 DEF IInv, TypeOK
  <2>3. mainQueue' \in Seq(Block)
    BY <1>3, <2>1, AppendProperties
  <2> QED BY <1>1, <1>3, <2>2, <2>3
<1> QED BY <1>2, <1>3 DEF DownloadWithInfo

(* processNextRequest ends with the head as the download, or with none. *)
LEMMA ProcessNextRequestType ==
    ASSUME IInv, NEW q \in Seq(Infos), NEW inf \in InfoType,
           NEW dk \in DiskType, NEW s \in SocketType, NEW mq \in Seq(Block),
           ProcessNextRequest(q, inf, dk, s, mq)
    PROVE  Started
<1>1. infoQueue' = q /\ currentFileHanle' = NoFile
  BY DEF ProcessNextRequest
<1>2. CASE paused' \/ q = <<>>
  <2>1. /\ downloadingInfo' = Nil /\ info' = inf /\ disk' = dk
        /\ socket' = s /\ mainQueue' = mq /\ downloadPath' = downloadPath
    BY <1>2 DEF ProcessNextRequest
  <2>2. downloadPath \in Files \cup {NoFile}
    BY DEF IInv, TypeOK
  <2> QED BY <1>1, <2>1, <2>2 DEF Started, DownloadingIsHead
<1>3. CASE ~(paused' \/ q = <<>>)
  <2>1. DownloadWithInfo(q[1], inf, dk, s, mq)
    BY <1>3 DEF ProcessNextRequest
  <2>2. q[1] \in Infos
    BY <1>3
  <2>3. /\ downloadingInfo' = q[1]
        /\ info' \in InfoType
        /\ downloadPath' \in Files \cup {NoFile}
        /\ disk' \in DiskType
        /\ socket' \in SocketType
        /\ mainQueue' \in Seq(Block)
    BY <2>1, <2>2, DownloadWithInfoType
  <2>4. DownloadingIsHead'
    BY <1>1, <1>3, <2>3 DEF DownloadingIsHead
  <2> QED BY <1>1, <2>2, <2>3, <2>4 DEF Started
<1> QED BY <1>2, <1>3

-----------------------------------------------------------------------------
(* How a download ends.                                                    *)

(* What every ending leaves of the rest of the state. *)
GivenUp == /\ Started
           /\ failedInfoQueue' \in Seq(Infos)
           /\ doneInfoQueue' \in Seq(Infos)
           /\ saves' \in [Savers -> 0 .. 2]

(* The parts of the state the handlers work on are well typed. *)
LEMMA CurrentType ==
    ASSUME IInv
    PROVE  /\ disk \in DiskType /\ socket \in SocketType /\ info \in InfoType
           /\ Uncached(disk, downloadPath) \in DiskType
           /\ Disconnected(socket) \in SocketType
           /\ downloadingInfo \in Infos \cup {Nil}
           /\ infoQueue \in Seq(Infos) /\ failedInfoQueue \in Seq(Infos)
           /\ doneInfoQueue \in Seq(Infos) /\ mainQueue \in Seq(Block)
<1>1. disk \in DiskType /\ socket \in SocketType /\ info \in InfoType
  BY DEF IInv, TypeOK, DiskType, SocketType, InfoType
<1> QED BY <1>1, UncachedType, DisconnectedType DEF IInv, TypeOK

(* A handler that gives up the head leaves types and head right. *)
LEMMA GiveUpType ==
    ASSUME IInv, NEW q \in Seq(Infos), NEW failed \in Seq(Infos),
           NEW inf \in InfoType, NEW mq \in Seq(Block),
           GiveUp(q, failed, inf, mq)
    PROVE  GivenUp
<1>1. failedInfoQueue' = failed /\ UNCHANGED <<doneInfoQueue, saves>>
  BY DEF GiveUp
<1>2. Started
  <2>1. CASE ProcessNextRequest(q, inf, Uncached(disk, downloadPath),
                                Disconnected(socket), mq)
    BY <2>1, CurrentType, ProcessNextRequestType
  <2>2. ASSUME Fresh(q, failed) # {}, NEW it \in ReAdd,
               ProcessNextRequest(Append(q, AnyOf(Fresh(q, failed))),
                   [inf EXCEPT ![AnyOf(Fresh(q, failed))] = NewInfo(it)],
                   Uncached(disk, downloadPath), Disconnected(socket), mq)
        PROVE  Started
    <3> DEFINE i == AnyOf(Fresh(q, failed))
    <3>1. i \in Infos
      BY <2>2, FreshInfo
    <3>2. NewInfo(it) \in DownloadInfo
      BY NewInfoType, ReAddAssumption
    <3>3. [inf EXCEPT ![i] = NewInfo(it)] \in InfoType
      BY <3>1, <3>2 DEF InfoType
    <3>4. Append(q, i) \in Seq(Infos)
      BY <3>1, AppendProperties
    <3> QED BY <2>2, <3>3, <3>4, CurrentType, ProcessNextRequestType
  <2> QED BY <2>1, <2>2 DEF GiveUp
<1> QED BY <1>1, <1>2 DEF GivenUp, IInv, TypeOK

(* The whole failure handler, delegate included, leaves types and head right. *)
LEMMA HandleDownloadVideoFailedType ==
    ASSUME IInv, NEW inf \in InfoType, NEW mq \in Seq(Block),
           HandleDownloadVideoFailed(inf, mq)
    PROVE  GivenUp
<1> DEFINE i == downloadingInfo
           index == IndexOf(infoQueue, i)
           inf1 == SetStatus(inf, i, "FailedNetwork")
           failed == IF index = NotFound THEN failedInfoQueue
                     ELSE AddFailedInfo(failedInfoQueue, inf1, i)
<1>1. inf1 \in InfoType
  BY CurrentType, SetStatusType DEF Statuses
<1>2. failed \in Seq(Infos)
  <2>1. CASE i = Nil
    BY <2>1, IndexOfCurrent, CurrentType
  <2>2. CASE i # Nil
    BY <2>2, AddFailedInfoType, CurrentType
  <2> QED BY <2>1, <2>2
<1>3. RemoveInfoAt(infoQueue, index) \in Seq(Infos)
  <2>1. index \in Int
    BY IndexOfCurrent DEF NotFound
  <2> QED BY <2>1, RemoveInfoAtType, CurrentType
<1>4. Failed(inf1, i, failed) \in InfoType
  BY <1>1, FailedType, CurrentType
<1>5. GiveUp(RemoveInfoAt(infoQueue, index), failed, Failed(inf1, i, failed), mq)
  BY DEF HandleDownloadVideoFailed
<1> HIDE DEF index, inf1, failed
<1> QED BY <1>2, <1>3, <1>4, <1>5, GiveUpType

(* The handler of a full disk leaves types and head right. *)
LEMMA HandleOutOfSpaceType ==
    ASSUME IInv, downloadingInfo # Nil, NEW inf \in InfoType,
           NEW mq \in Seq(Block), HandleOutOfSpace(inf, mq)
    PROVE  GivenUp
<1> DEFINE i == downloadingInfo
           index == IndexOf(infoQueue, i)
           inf1 == SetStatus(inf, i, "FailedOutOfSpace")
           failed == AddFailedInfo(failedInfoQueue, inf1, i)
<1>1. inf1 \in InfoType
  BY CurrentType, SetStatusType DEF Statuses
<1>2. failed \in Seq(Infos)
  BY AddFailedInfoType, CurrentType
<1>3. RemoveInfoAt(infoQueue, index) \in Seq(Infos)
  BY IndexOfCurrent, RemoveInfoAtType, CurrentType
<1>4. Failed(inf1, i, failed) \in InfoType
  BY <1>1, FailedType, CurrentType
<1>5. GiveUp(RemoveInfoAt(infoQueue, index), failed, Failed(inf1, i, failed), mq)
  BY DEF HandleOutOfSpace
<1> HIDE DEF index, inf1, failed
<1> QED BY <1>2, <1>3, <1>4, <1>5, GiveUpType

(* The end of a save leaves types and head right. *)
LEMMA DoneOneItemType ==
    ASSUME IInv, NEW status \in {"Done", "FailedNotCompatible"},
           NEW mq \in Seq(Block), DoneOneItem(status, mq)
    PROVE  GivenUp
<1> DEFINE i == downloadingInfo
           index == IndexOf(infoQueue, i)
           inf == SetStatus(info, i, status)
           incompatible == status = "FailedNotCompatible"
           failed == IF incompatible THEN AddFailedInfo(failedInfoQueue, inf, i)
                     ELSE failedInfoQueue
           done == IF incompatible THEN doneInfoQueue
                   ELSE Append(doneInfoQueue, i)
<1>1. inf \in InfoType
  BY CurrentType, SetStatusType DEF Statuses
<1>2. CASE index = NotFound \/ index # downloadSaveImageIndex
  <2>1. /\ info' = inf
        /\ currentFileHanle' = NoFile
        /\ mainQueue' = mq
        /\ UNCHANGED <<queues, downloadingInfo, downloadPath, disk,
                       socket, saves>>
    BY <1>2 DEF DoneOneItem
  <2>2. infoQueue' = infoQueue /\ failedInfoQueue' = failedInfoQueue
        /\ doneInfoQueue' = doneInfoQueue /\ downloadingInfo' = downloadingInfo
    BY <2>1 DEF queues
  <2>3. DownloadingIsHead'
    BY <2>2 DEF DownloadingIsHead, IInv
  <2> QED BY <1>1, <2>1, <2>2, <2>3, CurrentType
         DEF GivenUp, Started, IInv, TypeOK
<1>3. CASE ~(index = NotFound \/ index # downloadSaveImageIndex)
  <2>1. i \in Infos /\ index \in Int
    BY <1>3, IndexOfCurrent, CurrentType
  <2>2. /\ failedInfoQueue' = failed
        /\ doneInfoQueue' = done
        /\ ProcessNextRequest(
               RemoveInfoAt(infoQueue, index),
               IF status = "Done" THEN Ended(inf, i) ELSE Failed(inf, i, failed),
               Uncached(disk, downloadPath), socket, mq)
        /\ UNCHANGED saves
    BY <1>3 DEF DoneOneItem
  <2>3. failed \in Seq(Infos)
    BY <2>1, AddFailedInfoType, CurrentType
  <2>4. done \in Seq(Infos)
    BY <2>1, AppendProperties, CurrentType
  <2>5. RemoveInfoAt(infoQueue, index) \in Seq(Infos)
    BY <2>1, RemoveInfoAtType, CurrentType
  <2>6. Ended(inf, i) \in InfoType /\ Failed(inf, i, failed) \in InfoType
    BY <1>1, <2>1, EndedType, FailedType
  <2> HIDE DEF index, inf, failed, done
  <2>7. Started
    BY <2>2, <2>5, <2>6, CurrentType, ProcessNextRequestType
  <2> QED BY <2>2, <2>3, <2>4, <2>7 DEF GivenUp, IInv, TypeOK
<1> QED BY <1>2, <1>3

(* A process that starts again starts with types and head right. *)
LEMMA TerminatedInv ==
    ASSUME Terminated
    PROVE  IInv'
<1>1. \A i \in Infos : Released \in DownloadInfo
  BY ReleasedType
<1>2. infoQueue' \in Seq(Infos) /\ doneInfoQueue' \in Seq(Infos)
      /\ failedInfoQueue' \in Seq(Infos) /\ mainQueue' \in Seq(Block)
  BY DEF Terminated
<1>3. /\ info' \in [Infos -> DownloadInfo]
      /\ saves' \in [Savers -> 0 .. 2]
      /\ disk' \in [Files -> Nat \cup {Absent}]
  BY <1>1 DEF Terminated
<1>4. socket' \in SocketType
  BY DEF Terminated, NoSocket, SocketType, SocketStates
<1>5. DownloadingIsHead'
  BY DEF Terminated, DownloadingIsHead
<1> QED BY <1>2, <1>3, <1>4, <1>5 DEF Terminated, IInv, TypeOK, SocketType

(* Ending a download keeps the invariant. *)
LEMMA GivenUpInv ==
    ASSUME GivenUp, paused' \in BOOLEAN,
           downloadSaveImageIndex' \in Nat \cup {NotFound}
    PROVE  IInv'
BY DEF GivenUp, Started, IInv, TypeOK, InfoType, DiskType, SocketType

-----------------------------------------------------------------------------
(* The client.                                                             *)

(* Every call of the client keeps types and head. *)
LEMMA ClientInv ==
    ASSUME IInv, ClientStep
    PROVE  IInv'
<1>1. ASSUME NEW it \in Items, AddMediaItem(it) PROVE IInv'
  <2> DEFINE i == AnyOf(Fresh(infoQueue, failedInfoQueue))
  <2>1. i \in Infos
    BY <1>1, FreshInfo DEF AddMediaItem
  <2>2. infoQueue' = Append(infoQueue, i) /\ info' = [info EXCEPT ![i] = NewInfo(it)]
        /\ UNCHANGED <<doneInfoQueue, failedInfoQueue, downloadingInfo,
                       downloadPath, currentFileHanle, paused,
                       downloadSaveImageIndex, disk, socket, mainQueue, saves>>
    BY <1>1 DEF AddMediaItem
  <2> HIDE DEF i
  <2>3. infoQueue' \in Seq(Infos)
    BY <2>1, <2>2, CurrentType, AppendProperties
  <2>4. info' \in [Infos -> DownloadInfo]
    BY <2>1, <2>2, NewInfoType, CurrentType DEF InfoType
  <2>5. DownloadingIsHead'
    <3>1. infoQueue # <<>> => infoQueue' # <<>> /\ infoQueue'[1] = infoQueue[1]
      BY <2>1, <2>2, CurrentType, AppendProperties
    <3> QED BY <2>2, <3>1 DEF DownloadingIsHead, IInv
  <2> QED BY <2>2, <2>3, <2>4, <2>5 DEF IInv, TypeOK
<1>2. ASSUME NEW index \in 0 .. MaxInfos - 1, RemoveMediaItemAtIndex(index)
      PROVE  IInv'
  <2>1. CASE RemoveHead
    <3>1. Tail(infoQueue) \in Seq(Infos) /\ infoQueue[1] \in Infos
      BY <2>1, CurrentType DEF RemoveHead
    <3>2. [info EXCEPT ![infoQueue[1]] = Released] \in InfoType
      BY <3>1, CurrentType, ReleasedType DEF InfoType
    <3>3. Started
      BY <2>1, <3>1, <3>2, CurrentType, ProcessNextRequestType DEF RemoveHead
    <3> QED BY <2>1, <3>3, GivenUpInv DEF RemoveHead, GivenUp, IInv, TypeOK
  <2>2. CASE RemoveWaiting(index)
    <3>1. index + 1 \in 1 .. Len(infoQueue) /\ index + 1 > 1
          /\ index \in 0 .. Len(infoQueue) - 1
      BY <2>2, CurrentType DEF RemoveWaiting
    <3>2. infoQueue' = RemoveAt(infoQueue, index + 1)
      BY <2>2, <3>1 DEF RemoveWaiting, RemoveInfoAt
    <3>3. /\ infoQueue' \in Seq(Infos)
          /\ Len(infoQueue') = Len(infoQueue) - 1
          /\ Len(infoQueue) > 1 /\ infoQueue'[1] = infoQueue[1]
      BY <3>1, <3>2, CurrentType, RemoveAtType
    <3>4. info' \in InfoType
      BY <2>2, CurrentType, ReleasedType DEF RemoveWaiting, InfoType
    <3>5. DownloadingIsHead'
      BY <2>2, <3>3, CurrentType DEF RemoveWaiting, DownloadingIsHead, IInv
    <3> QED BY <2>2, <3>3, <3>4, <3>5 DEF RemoveWaiting, IInv, TypeOK, InfoType
  <2> QED BY <1>2, <2>1, <2>2 DEF RemoveMediaItemAtIndex
<1>3. CASE Resume
  <2>1. /\ paused' = FALSE
        /\ UNCHANGED <<doneInfoQueue, failedInfoQueue, downloadSaveImageIndex, saves>>
    BY <1>3 DEF Resume
  <2>2. CASE downloadingInfo = Nil
    <3>1. Started
      BY <1>3, <2>2, CurrentType, ProcessNextRequestType DEF Resume
    <3> QED BY <2>1, <3>1, GivenUpInv DEF GivenUp, IInv, TypeOK
  <2>3. CASE downloadingInfo # Nil
    <3>1. /\ DownloadWithInfo(downloadingInfo, info, disk, socket, mainQueue)
          /\ UNCHANGED <<infoQueue, currentFileHanle>>
      BY <1>3, <2>3 DEF Resume
    <3>2. /\ downloadingInfo' = downloadingInfo
          /\ info' \in InfoType
          /\ downloadPath' \in Files \cup {NoFile}
          /\ disk' \in DiskType
          /\ socket' \in SocketType
          /\ mainQueue' \in Seq(Block)
      BY <2>3, <3>1, CurrentType, DownloadWithInfoType
    <3>3. DownloadingIsHead'
      BY <3>1, <3>2 DEF DownloadingIsHead, IInv
    <3> QED BY <2>1, <3>1, <3>2, <3>3
           DEF IInv, TypeOK, InfoType, DiskType, SocketType
  <2> QED BY <2>2, <2>3
<1>4. CASE Pause
  <2>1. socket' \in SocketType
    BY <1>4, CurrentType DEF Pause
  <2>2. DownloadingIsHead'
    BY <1>4 DEF Pause, queues, DownloadingIsHead, IInv
  <2> QED BY <1>4, <2>1, <2>2 DEF Pause, queues, IInv, TypeOK, SocketType
<1>5. ASSUME NEW index \in 0 .. Len(failedInfoQueue) - 1,
             RedownloadFailedFile(index)
      PROVE  IInv'
  <2> DEFINE i == AnyOf(Fresh(infoQueue, failedInfoQueue))
             old == failedInfoQueue[index + 1]
             inf == [info EXCEPT ![i] = NewInfo(info[old].item), ![old] = Released]
             q == Append(infoQueue, i)
  <2>1. i \in Infos
    BY <1>5, FreshInfo DEF RedownloadFailedFile
  <2>2. index + 1 \in 1 .. Len(failedInfoQueue)
    BY CurrentType
  <2>3. old \in Infos
    BY <2>2, CurrentType
  <2>4. inf \in InfoType
    <3>1. info[old].item \in Items \cup {NoItem}
      BY <2>3, CurrentType DEF InfoType, DownloadInfo
    <3>2. NewInfo(info[old].item) \in DownloadInfo
      BY <3>1, NewInfoType
    <3> QED BY <2>1, <2>3, <3>2, ReleasedType, CurrentType DEF InfoType
  <2>5. q \in Seq(Infos) /\ (infoQueue # <<>> => q # <<>> /\ q[1] = infoQueue[1])
    BY <2>1, CurrentType, AppendProperties
  <2>6. failedInfoQueue' \in Seq(Infos)
        /\ UNCHANGED <<doneInfoQueue, paused, downloadSaveImageIndex, saves>>
    BY <1>5, <2>2, CurrentType, RemoveAtType DEF RedownloadFailedFile
  <2>7. IF Len(q) = 1
        THEN ProcessNextRequest(q, inf, disk, socket, mainQueue)
        ELSE /\ infoQueue' = q
             /\ info' = inf
             /\ UNCHANGED <<downloadingInfo, downloadPath, currentFileHanle,
                            disk, socket, mainQueue>>
    BY <1>5 DEF RedownloadFailedFile
  <2> HIDE DEF i, old, inf, q
  <2>8. CASE Len(q) = 1
    <3>1. Started
      BY <2>4, <2>5, <2>7, <2>8, CurrentType, ProcessNextRequestType
    <3> QED BY <2>6, <3>1, GivenUpInv DEF GivenUp, IInv, TypeOK
  <2>9. CASE Len(q) # 1
    <3>1. DownloadingIsHead'
      BY <2>5, <2>7, <2>9 DEF DownloadingIsHead, IInv
    <3> QED BY <2>4, <2>5, <2>6, <2>7, <2>9, <3>1 DEF IInv, TypeOK, InfoType
  <2> QED BY <2>8, <2>9
<1>6. CASE Relaunch
  BY <1>6, TerminatedInv DEF Relaunch
<1> QED BY <1>1, <1>2, <1>3, <1>4, <1>5, <1>6 DEF ClientStep

-----------------------------------------------------------------------------
(* The socket and the photo library.                                       *)

(* A block posted by the socket changes nothing else. *)
LEMMA PostInv ==
    ASSUME IInv, NEW kind \in BlockKinds, NEW n \in Nat, Post(kind, n),
           socket' \in SocketType
    PROVE  IInv'
<1>1. Posted(kind, n, TRUE, Nil) \in Block
  BY PostedType DEF Savers
<1>2. mainQueue' \in Seq(Block)
  BY <1>1, CurrentType, AppendProperties DEF Post
<1>3. DownloadingIsHead'
  BY DEF Post, queues, DownloadingIsHead, IInv
<1> QED BY <1>2, <1>3 DEF Post, queues, IInv, TypeOK, SocketType

(* Every step of the socket keeps types and head. *)
LEMMA SocketInv ==
    ASSUME IInv, SocketStep \/ SocketCloses
    PROVE  IInv'
<1> USE DEF SocketType, SocketStates, BlockKinds
<1>0. socket \in SocketType /\ Size \in Nat
  BY CurrentType, SizeAssumption
<1>1. CASE SocketWrites
  BY <1>0, <1>1, PostInv DEF SocketWrites
<1>2. ASSUME NEW n \in Nat, SocketReadsHeader(n) PROVE IInv'
  <2>1. socket' \in SocketType
    BY <1>0, <1>2 DEF SocketReadsHeader
  <2>2. Post("didReadHeader", n)
    BY <1>2 DEF SocketReadsHeader
  <2> QED BY <2>1, <2>2, PostInv
<1>3. ASSUME NEW n \in 1 .. Size, SocketReadsBody(n) PROVE IInv'
  <2>1. socket.left - n \in Nat
    BY <1>0, <1>3 DEF SocketReadsBody
  <2>2. socket' \in SocketType
    BY <1>0, <1>3, <2>1 DEF SocketReadsBody
  <2>3. Post("didReadBody", n) /\ n \in Nat
    BY <1>0, <1>3 DEF SocketReadsBody
  <2> QED BY <2>2, <2>3, PostInv
<1>4. CASE SocketTimesOut
  BY <1>0, <1>4, PostInv DEF SocketTimesOut
<1>5. CASE SocketCloses
  BY <1>0, <1>5, PostInv DEF SocketCloses
<1>6. \A n \in {0, IF socket.from < Size THEN Size - socket.from ELSE 0} : n \in Nat
  BY <1>0
<1> QED BY <1>1, <1>2, <1>3, <1>4, <1>5, <1>6 DEF SocketStep

(* Every step of the photo library keeps types and head. *)
LEMMA SaveInv ==
    ASSUME IInv, SaveStep
    PROVE  IInv'
<1>1. PICK i \in Savers, success \in BOOLEAN : SaveHandler(i, success)
  BY DEF SaveStep
<1>2. saves' \in [Savers -> 0 .. 2]
  BY <1>1 DEF SaveHandler, IInv, TypeOK
<1>3. mainQueue' \in Seq(Block)
  <2>1. \A kind \in {"doneSave", "failedSave"} : Posted(kind, 0, FALSE, i) \in Block
    BY PostedType DEF BlockKinds
  <2>2. CASE mainQueue' = Append(mainQueue,
                 Posted(IF success THEN "doneSave" ELSE "failedSave", 0, FALSE, i))
    BY <2>1, <2>2, CurrentType, AppendProperties
  <2>3. CASE UNCHANGED mainQueue
    BY <2>3, CurrentType
  <2> QED BY <1>1, <2>2, <2>3 DEF SaveHandler
<1>4. DownloadingIsHead'
  BY <1>1 DEF SaveHandler, queues, DownloadingIsHead, IInv
<1> QED BY <1>1, <1>2, <1>3, <1>4 DEF SaveHandler, queues, IInv, TypeOK

-----------------------------------------------------------------------------
(* The main queue.                                                         *)

(* The head block of the main queue is a block. *)
LEMMA HeadOfMainQueue ==
    ASSUME IInv, mainQueue # <<>>
    PROVE  Rest \in Seq(Block) /\ Head(mainQueue) \in Block /\ Head(mainQueue).n \in Nat
<1>1. Rest \in Seq(Block) /\ Head(mainQueue) \in Block
  BY CurrentType, HeadTailProperties DEF Rest
<1> QED BY <1>1 DEF Block

(* A read given to the socket leaves a socket. *)
LEMMA ReadingType ==
    ASSUME IInv, NEW what \in {"header", "body"}
    PROVE  Reading(what) \in SocketType
BY CurrentType DEF Reading, SocketType, SocketStates

(* The header callback keeps types and head. *)
LEMMA DidReadHeaderInv ==
    ASSUME IInv, DidReadHeader
    PROVE  IInv'
<1> DEFINE contentLength == Head(mainQueue).n
           i == downloadingInfo
           inf == IF i # Nil /\ info[i].len = 0
                  THEN [info EXCEPT ![i].len = contentLength] ELSE info
<1>1. Rest \in Seq(Block) /\ contentLength \in Nat
  BY HeadOfMainQueue DEF DidReadHeader, Runs
<1>2. inf \in InfoType
  BY <1>1, CurrentType DEF InfoType, DownloadInfo
<1>3. IndexOf(infoQueue, i) \in Nat \cup {NotFound}
  BY IndexOfCurrent, CurrentType
<1>4. CASE /\ downloadSaveImageIndex' = IndexOf(infoQueue, i)
           /\ info' = inf
           /\ socket' = Reading("body")
           /\ mainQueue' = Rest
           /\ UNCHANGED <<queues, downloadingInfo, downloadPath,
                          currentFileHanle, paused, disk, saves>>
  <2>1. DownloadingIsHead'
    BY <1>4 DEF queues, DownloadingIsHead, IInv
  <2>2. socket' \in SocketType
    BY <1>4, ReadingType
  <2> HIDE DEF inf, i
  <2> QED BY <1>1, <1>2, <1>3, <1>4, <2>1, <2>2
         DEF queues, IInv, TypeOK, InfoType, SocketType
<1>5. CASE IF i = Nil THEN Terminated
           ELSE /\ downloadSaveImageIndex' = IndexOf(infoQueue, i)
                /\ UNCHANGED paused
                /\ HandleOutOfSpace(inf, Rest)
  <2>1. CASE i = Nil
    BY <1>5, <2>1, TerminatedInv
  <2>2. CASE i # Nil
    <3> HIDE DEF inf
    <3>1. GivenUp
      BY <1>1, <1>2, <1>5, <2>2, HandleOutOfSpaceType
    <3> QED BY <1>3, <1>5, <2>2, <3>1, GivenUpInv DEF IInv, TypeOK
  <2> QED BY <2>1, <2>2
<1>6. CASE /\ downloadSaveImageIndex' = IndexOf(infoQueue, i)
           /\ UNCHANGED paused
           /\ HandleDownloadVideoFailed(inf, Rest)
  <2> HIDE DEF inf
  <2>1. GivenUp
    BY <1>1, <1>2, <1>6, HandleDownloadVideoFailedType
  <2> QED BY <1>3, <1>6, <2>1, GivenUpInv DEF IInv, TypeOK
<1> QED BY <1>4, <1>5, <1>6 DEF DidReadHeader

(* The body callback, in each way it can go, keeps types and head. *)
LEMMA DidReadBodyInv ==
    ASSUME IInv, DidReadBody
    PROVE  IInv'
<1> DEFINE i == downloadingInfo
           n == Head(mainQueue).n
           got == IF i = Nil THEN 0 ELSE info[i].got + n
           len == IF i = Nil THEN 0 ELSE info[i].len
           inf == IF i = Nil THEN info ELSE [info EXCEPT ![i].got = got]
           handle == IF currentFileHanle # NoFile THEN currentFileHanle
                     ELSE IF downloadPath # NoFile /\ disk[downloadPath] # Absent
                          THEN downloadPath ELSE NoFile
<1>1. Rest \in Seq(Block) /\ n \in Nat
  BY HeadOfMainQueue DEF DidReadBody, Runs
<1>2. inf \in InfoType
  <2>1. CASE i = Nil
    BY <2>1, CurrentType
  <2>2. CASE i # Nil
    <3>1. i \in Infos /\ info[i] \in DownloadInfo
      BY <2>2, CurrentType DEF InfoType
    <3>2. got \in Nat
      BY <1>1, <2>2, <3>1 DEF DownloadInfo
    <3> HIDE DEF got
    <3>3. [info[i] EXCEPT !.got = got] \in DownloadInfo
      BY <3>1, <3>2 DEF DownloadInfo
    <3>4. inf = [info EXCEPT ![i] = [info[i] EXCEPT !.got = got]]
      BY <2>2
    <3> QED BY <3>1, <3>3, <3>4, CurrentType DEF InfoType
  <2> QED BY <2>1, <2>2
<1>3. UNCHANGED <<paused, downloadSaveImageIndex>>
  BY DEF DidReadBody
<1>4. CASE HandleDownloadVideoFailed(inf, Rest)
  <2> HIDE DEF inf
  <2>1. GivenUp
    BY <1>1, <1>2, <1>4, HandleDownloadVideoFailedType
  <2> QED BY <1>3, <2>1, GivenUpInv DEF IInv, TypeOK
<1>5. CASE /\ currentFileHanle' = handle
           /\ disk' = [f \in Files |->
                         IF f = handle /\ disk[f] # Absent
                         THEN disk[f] + n ELSE disk[f]]
           /\ mainQueue' = Rest
           /\ IF got = len
              THEN /\ info' = SetStatus(inf, i, "Saving")
                   /\ \E calls \in IF "twice" \in Faults /\ i # Nil THEN 1 .. 2 ELSE {1} :
                         saves' = [saves EXCEPT ![i] = calls]
                   /\ UNCHANGED socket
              ELSE /\ info' = inf
                   /\ socket' = Reading("body")
                   /\ UNCHANGED saves
           /\ UNCHANGED <<queues, downloadingInfo, downloadPath>>
  <2>1. handle \in Files \cup {NoFile}
    BY DEF IInv, TypeOK
  <2>2. disk' \in DiskType
    <3>1. \A f \in Files : disk[f] \in Nat \cup {Absent}
      BY CurrentType DEF DiskType
    <3> HIDE DEF handle, n
    <3>2. \A f \in Files : (IF f = handle /\ disk[f] # Absent
                            THEN disk[f] + n ELSE disk[f]) \in Nat \cup {Absent}
      BY <1>1, <3>1
    <3> QED BY <1>5, <3>2 DEF DiskType
  <2>3. info' \in InfoType
    <3>1. SetStatus(inf, i, "Saving") \in InfoType
      BY <1>2, CurrentType, SetStatusType DEF Statuses
    <3> HIDE DEF inf, got, len
    <3> QED BY <1>2, <1>5, <3>1
  <2>4. saves' \in [Savers -> 0 .. 2]
    <3> HIDE DEF inf, got, len
    <3>1. saves \in [Savers -> 0 .. 2]
      BY DEF IInv, TypeOK
    <3>2. \A calls \in IF "twice" \in Faults /\ i # Nil THEN 1 .. 2 ELSE {1} :
             calls \in 0 .. 2
      OBVIOUS
    <3>3. i \in Savers
      BY CurrentType DEF Savers
    <3> QED BY <1>5, <3>1, <3>2, <3>3
  <2>5. socket' \in SocketType
    <3> HIDE DEF inf, got, len
    <3> QED BY <1>5, CurrentType, ReadingType
  <2>6. DownloadingIsHead'
    BY <1>5 DEF queues, DownloadingIsHead, IInv
  <2> HIDE DEF handle, inf, got, len
  <2> QED BY <1>1, <1>3, <1>5, <2>1, <2>2, <2>3, <2>4, <2>5, <2>6
         DEF queues, IInv, TypeOK, InfoType, DiskType, SocketType
<1> HIDE DEF handle, inf, got, len
<1> QED BY <1>4, <1>5 DEF DidReadBody, handle, inf, got, len

(* Every block of the main queue keeps types and head. *)
LEMMA MainInv ==
    ASSUME IInv, MainStep
    PROVE  IInv'
<1>0. info \in InfoType /\ (mainQueue # <<>> => Rest \in Seq(Block))
  BY CurrentType, HeadOfMainQueue
<1>1. CASE DidWriteData
  <2>1. socket' \in SocketType /\ mainQueue' \in Seq(Block)
    BY <1>0, <1>1, CurrentType, ReadingType DEF DidWriteData, Runs
  <2>2. DownloadingIsHead'
    BY <1>1 DEF DidWriteData, queues, DownloadingIsHead, IInv
  <2> QED BY <1>1, <2>1, <2>2 DEF DidWriteData, queues, IInv, TypeOK, SocketType
<1>2. CASE DidReadHeader
  BY <1>2, DidReadHeaderInv
<1>3. CASE DidReadBody
  BY <1>3, DidReadBodyInv
<1>4. CASE DidReadFromReplacedSocket
  <2>1. mainQueue' \in Seq(Block)
    BY <1>0, <1>4 DEF DidReadFromReplacedSocket, Ignored, Runs
  <2>2. DownloadingIsHead'
    BY <1>4 DEF DidReadFromReplacedSocket, Ignored, queues, DownloadingIsHead, IInv
  <2> QED BY <1>4, <2>1, <2>2
         DEF DidReadFromReplacedSocket, Ignored, queues, IInv, TypeOK
<1>5. CASE ShouldTimeout \/ SocketDidDisconnect
  <2>1. /\ mainQueue # <<>> /\ UNCHANGED <<paused, downloadSaveImageIndex>>
        /\ HandleDownloadVideoFailed(info, Rest)
    BY <1>5 DEF ShouldTimeout, SocketDidDisconnect, Runs
  <2>2. GivenUp
    BY <1>0, <2>1, HandleDownloadVideoFailedType
  <2> QED BY <2>1, <2>2, GivenUpInv DEF IInv, TypeOK
<1>6. CASE OutOfSpace
  <2>1. CASE downloadingInfo = Nil
    BY <1>6, <2>1, TerminatedInv DEF OutOfSpace
  <2>2. CASE downloadingInfo # Nil
    <3>1. /\ mainQueue # <<>> /\ UNCHANGED <<paused, downloadSaveImageIndex>>
          /\ HandleOutOfSpace(info, Rest)
      BY <1>6, <2>2 DEF OutOfSpace, Runs
    <3>2. GivenUp
      BY <1>0, <2>2, <3>1, HandleOutOfSpaceType
    <3> QED BY <3>1, <3>2, GivenUpInv DEF IInv, TypeOK
  <2> QED BY <2>1, <2>2
<1>7. CASE FailedSave \/ DoneSave
  <2>1. /\ mainQueue # <<>> /\ UNCHANGED <<paused, downloadSaveImageIndex>>
        /\ DoneOneItem("Done", Rest) \/ DoneOneItem("FailedNotCompatible", Rest)
    BY <1>7 DEF FailedSave, DoneSave, Runs
  <2>2. GivenUp
    BY <1>0, <2>1, DoneOneItemType
  <2> QED BY <2>1, <2>2, GivenUpInv DEF IInv, TypeOK
<1> QED BY <1>1, <1>2, <1>3, <1>4, <1>5, <1>6, <1>7 DEF MainStep

-----------------------------------------------------------------------------
(* The invariant holds of every behaviour, for every set of items, faults  *)
(* and bounds.                                                             *)
THEOREM Invariance == Spec => []IInv
<1>1. Init => IInv
  <2> SUFFICES ASSUME Init PROVE IInv
    OBVIOUS
  <2>1. /\ info \in [Infos -> DownloadInfo]
        /\ saves \in [Savers -> 0 .. 2]
        /\ disk \in [Files -> Nat \cup {Absent}]
    BY ReleasedType DEF Init
  <2>2. socket \in SocketType
    BY DEF Init, NoSocket, SocketType, SocketStates
  <2>3. \A S : <<>> \in Seq(S)
    OBVIOUS
  <2>4. DownloadingIsHead
    BY DEF Init, DownloadingIsHead
  <2>5. TypeOK
    BY <2>1, <2>2, <2>3 DEF Init, TypeOK, SocketType
  <2> QED BY <2>4, <2>5 DEF IInv
<1>2. IInv /\ [Next]_vars => IInv'
  <2> SUFFICES ASSUME IInv, [Next]_vars PROVE IInv'
    OBVIOUS
  <2>1. CASE Next
    BY <2>1, ClientInv, SocketInv, MainInv, SaveInv DEF Next
  <2>2. CASE UNCHANGED vars
    BY <2>2 DEF vars, IInv, TypeOK, DownloadingIsHead
  <2> QED BY <2>1, <2>2
<1> QED BY <1>1, <1>2, PTL DEF Spec

(* Every variable keeps its type: no handler puts nil or a stale index     *)
(* into a list, writes to a path that is no cached file, or counts below   *)
(* zero (TypeOK, all handlers of DownloadManager.m).                       *)
THEOREM TypeCorrect == Spec => []TypeOK
<1>1. IInv => TypeOK
  BY DEF IInv
<1> QED BY <1>1, Invariance, PTL

(* The download under way is that of the head of the queue, whatever late  *)
(* block, pause, cancel or failure comes in between (processNextRequest    *)
(* and every handler that ends a download).                                *)
THEOREM HeadIsDownloading == Spec => []DownloadingIsHead
<1>1. IInv => DownloadingIsHead
  BY DEF IInv
<1> QED BY <1>1, Invariance, PTL

(* The index doneOneItem looks up is 0 whenever something is downloading,  *)
(* so comparing it with downloadSaveImageIndex cannot tell the item saved  *)
(* from the item downloaded now (comment at DownloadManager.m:38-45).      *)
THEOREM IndexTellsNothing ==
    Spec => [](downloadingInfo # Nil => IndexOf(infoQueue, downloadingInfo) = 0)
<1>1. IInv => (downloadingInfo # Nil => IndexOf(infoQueue, downloadingInfo) = 0)
  BY IndexOfCurrent
<1> QED BY <1>1, Invariance, PTL

-----------------------------------------------------------------------------
(* The cached file of the download under way.  Four parts make the second  *)
(* inductive invariant.                                                    *)

(* An info sits at one place of one list. *)
Once(q) == \A j, k \in DOMAIN q : q[j] = q[k] => j = k
ThreeLists(q, done, failed) ==
    /\ Once(q) /\ Once(done) /\ Once(failed)
    /\ ToSet(q) \cap ToSet(done) = {}
    /\ ToSet(q) \cap ToSet(failed) = {}
    /\ ToSet(done) \cap ToSet(failed) = {}

(* The infos that wait are as they were made: no progress is counted for   *)
(* them.  Every info listed has an item of the camera.                     *)
Waiting(is, inf) ==
    \A i \in is : inf[i].item \in Items /\ inf[i] = NewInfo(inf[i].item)
Named(is, inf) == \A i \in is : inf[i].item \in Items

(* The socket has at most one read under way: a read it works on, or one   *)
(* it has reported by a block that still waits on the main queue.          *)
ReadKinds == {"didWrite", "didReadHeader", "didReadBody"}
LiveRead(b) == b.live /\ b.kind \in ReadKinds
OneRead(s, mq) ==
    /\ \A j, k \in DOMAIN mq : LiveRead(mq[j]) /\ LiveRead(mq[k]) => j = k
    /\ s.state \in {"connecting", "header", "body"} =>
          \A k \in DOMAIN mq : ~ LiveRead(mq[k])
    /\ \A k \in DOMAIN mq : mq[k].kind = "didReadBody" => mq[k].n >= 1

(* A block that ends the download stands before any chunk the download     *)
(* could count: the file could not be created.                             *)
Chunk(b) == LiveRead(b) /\ b.kind = "didReadBody"
DoomedAt(mq, len, p) ==
    mq[p].kind = "outOfSpace" /\ \A j \in 1 .. p - 1 : Chunk(mq[j]) => len = 0
Doomed(mq, len) == \E p \in DOMAIN mq : DoomedAt(mq, len, p)

(* The length is unknown until the header, which can only announce the     *)
(* whole file, for then nothing has been read.                             *)
Announced(s, mq) ==
    /\ s.from = 0
    /\ \A k \in DOMAIN mq :
          LiveRead(mq[k]) /\ mq[k].kind = "didReadHeader" => mq[k].n \in {0, Size}
Counted(d, s, mq) ==
    /\ d.len \in {0, Size} /\ d.got <= d.len
    /\ d.len = 0 => Announced(s, mq)

(* The file of the download d: it could not be created, or it holds what   *)
(* was counted.                                                            *)
NotCreated(d, dk, handle, mq) ==
    /\ dk[d.item.file] = Absent
    /\ d.got = 0
    /\ handle = NoFile
    /\ d.status \notin {"Downloading", "Saving"}
    /\ Doomed(mq, d.len)
Created(d, dk, path, handle, s, mq) ==
    /\ dk[d.item.file] = d.got
    /\ path = d.item.file
    /\ handle \in {NoFile, d.item.file}
    /\ Doomed(mq, d.len) \/ Counted(d, s, mq)

ListsInv ==
    /\ ThreeLists(infoQueue, doneInfoQueue, failedInfoQueue)
    /\ Waiting(ToSet(infoQueue) \ {downloadingInfo}, info)
    /\ Named(ToSet(infoQueue) \cup ToSet(failedInfoQueue), info)
ReadInv == OneRead(socket, mainQueue)
CacheInv ==
    \A f \in Files : disk[f] # Absent =>
        /\ downloadingInfo # Nil
        /\ info[downloadingInfo].item.file = f
        /\ downloadPath = f
FileInv ==
    downloadingInfo # Nil =>
        \/ NotCreated(info[downloadingInfo], disk, currentFileHanle, mainQueue)
        \/ Created(info[downloadingInfo], disk, downloadPath, currentFileHanle,
                   socket, mainQueue)
Safe == ListsInv /\ ReadInv /\ CacheInv /\ FileInv

(* What the end of a download leaves to the start of the next one. *)
Ready(q, done, failed, inf, dk, s, mq) ==
    /\ ThreeLists(q, done, failed)
    /\ Waiting(ToSet(q), inf)
    /\ Named(ToSet(failed), inf)
    /\ \A f \in Files : dk[f] = Absent
    /\ OneRead(s, mq)

-----------------------------------------------------------------------------
(* The elements of a list.                                                 *)

(* An element of a list stands at an index of it. *)
LEMMA InToSet ==
    ASSUME NEW S, NEW q \in Seq(S)
    PROVE  /\ \A k \in 1 .. Len(q) : q[k] \in ToSet(q)
           /\ \A i \in ToSet(q) : i \in S /\ \E k \in 1 .. Len(q) : q[k] = i
           /\ ToSet(q) \subseteq S
BY DEF ToSet

(* A list keeps its elements apart when one that it lacks is appended. *)
LEMMA AppendOnce ==
    ASSUME NEW S, NEW q \in Seq(S), NEW i \in S
    PROVE  /\ ToSet(Append(q, i)) = ToSet(q) \cup {i}
           /\ Once(q) /\ i \notin ToSet(q) => Once(Append(q, i))
<1> DEFINE a == Append(q, i)
<1>1. /\ a \in Seq(S) /\ Len(a) = Len(q) + 1
      /\ \A k \in 1 .. Len(q) : a[k] = q[k]
      /\ a[Len(q) + 1] = i
  BY AppendProperties
<1>2. Len(q) \in Nat
  OBVIOUS
<1> HIDE DEF a
<1>3. ToSet(a) = ToSet(q) \cup {i}
  <2>1. \A x \in ToSet(a) : x \in ToSet(q) \cup {i}
    <3> TAKE x \in ToSet(a)
    <3>1. PICK k \in 1 .. Len(a) : a[k] = x
      BY <1>1, InToSet
    <3>2. k \in 1 .. Len(q) \/ k = Len(q) + 1
      BY <1>1, <1>2
    <3> QED BY <1>1, <3>1, <3>2, InToSet
  <2>2. \A x \in ToSet(q) : x \in ToSet(a)
    <3> TAKE x \in ToSet(q)
    <3>1. PICK k \in 1 .. Len(q) : q[k] = x
      BY InToSet
    <3>2. k \in 1 .. Len(a)
      BY <1>1, <1>2
    <3> QED BY <1>1, <3>1, <3>2, InToSet
  <2>3. i \in ToSet(a)
    <3>1. Len(q) + 1 \in 1 .. Len(a)
      BY <1>1, <1>2
    <3> QED BY <1>1, <3>1, InToSet
  <2> QED BY <2>1, <2>2, <2>3
<1>4. ASSUME Once(q), i \notin ToSet(q)
      PROVE  Once(a)
  <2>1. DOMAIN a = 1 .. Len(q) + 1 /\ DOMAIN q = 1 .. Len(q)
    BY <1>1
  <2>2. \A k \in 1 .. Len(q) : a[k] # i
    BY <1>1, <1>4, InToSet
  <2>3. \A j, k \in 1 .. Len(q) + 1 : a[j] = a[k] => j = k
    <3> SUFFICES ASSUME NEW j \in 1 .. Len(q) + 1, NEW k \in 1 .. Len(q) + 1, a[j] = a[k]
                 PROVE  j = k
      OBVIOUS
    <3>1. j \in 1 .. Len(q) \/ j = Len(q) + 1
      BY <1>2
    <3>2. k \in 1 .. Len(q) \/ k = Len(q) + 1
      BY <1>2
    <3> QED BY <1>1, <1>4, <2>1, <2>2, <3>1, <3>2 DEF Once
  <2> QED BY <2>1, <2>3 DEF Once
<1> QED BY <1>3, <1>4 DEF a

(* RemoveAt takes one element out of a list that holds each once. *)
LEMMA RemoveAtOnce ==
    ASSUME NEW S, NEW q \in Seq(S), NEW k \in 1 .. Len(q), Once(q)
    PROVE  /\ RemoveAt(q, k) \in Seq(S)
           /\ Once(RemoveAt(q, k))
           /\ ToSet(RemoveAt(q, k)) = ToSet(q) \ {q[k]}
<1> DEFINE r == RemoveAt(q, k)
           At(j) == IF j < k THEN j ELSE j + 1
<1>0. Len(q) \in Nat /\ k \in Nat /\ DOMAIN q = 1 .. Len(q)
  OBVIOUS
<1>1. /\ r \in Seq(S) /\ Len(r) = Len(q) - 1
      /\ \A j \in 1 .. Len(q) - 1 : r[j] = q[At(j)]
  BY RemoveAtElements
<1> HIDE DEF r
<1>2. \A j \in 1 .. Len(q) - 1 : At(j) \in 1 .. Len(q) /\ At(j) # k
  BY <1>0
<1>3. \A i, j \in 1 .. Len(q) - 1 : At(i) = At(j) => i = j
  BY <1>0
<1>4. \A m \in 1 .. Len(q) : m # k => \E j \in 1 .. Len(q) - 1 : At(j) = m
  <2> SUFFICES ASSUME NEW m \in 1 .. Len(q), m # k
               PROVE  \E j \in 1 .. Len(q) - 1 : At(j) = m
    OBVIOUS
  <2>1. CASE m < k
    <3>1. m \in 1 .. Len(q) - 1 /\ At(m) = m
      BY <1>0, <2>1
    <3> QED BY <3>1
  <2>2. CASE m > k
    <3>1. m - 1 \in 1 .. Len(q) - 1 /\ At(m - 1) = m
      BY <1>0, <2>2
    <3> QED BY <3>1
  <2> QED BY <1>0, <2>1, <2>2
<1> HIDE DEF At
<1>5. DOMAIN r = 1 .. Len(q) - 1
  BY <1>1
<1>6. \A i, j \in 1 .. Len(q) : q[i] = q[j] => i = j
  BY <1>0 DEF Once
<1>7. Once(r)
  <2>1. \A i, j \in 1 .. Len(q) - 1 : r[i] = r[j] => i = j
    BY <1>1, <1>2, <1>3, <1>6
  <2> QED BY <1>5, <2>1 DEF Once
<1>8. ToSet(r) = ToSet(q) \ {q[k]}
  <2>1. \A x \in ToSet(r) : x \in ToSet(q) /\ x # q[k]
    <3> TAKE x \in ToSet(r)
    <3>1. PICK j \in 1 .. Len(q) - 1 : r[j] = x
      BY <1>1, InToSet
    <3>2. x = q[At(j)] /\ At(j) \in 1 .. Len(q) /\ At(j) # k
      BY <1>1, <1>2, <3>1
    <3> QED BY <1>6, <3>2, InToSet
  <2>2. \A x \in ToSet(q) : x # q[k] => x \in ToSet(r)
    <3> SUFFICES ASSUME NEW x \in ToSet(q), x # q[k] PROVE x \in ToSet(r)
      OBVIOUS
    <3>1. PICK m \in 1 .. Len(q) : q[m] = x
      BY InToSet
    <3>2. PICK j \in 1 .. Len(q) - 1 : At(j) = m
      BY <1>4, <3>1
    <3>3. r[j] = x
      BY <1>1, <3>1, <3>2
    <3> QED BY <1>1, <3>3, InToSet
  <2> QED BY <2>1, <2>2
<1> QED BY <1>1, <1>7, <1>8 DEF r

(* Tail takes the head out of a list that holds each once. *)
LEMMA TailOnce ==
    ASSUME NEW S, NEW q \in Seq(S), q # <<>>, Once(q)
    PROVE  /\ Tail(q) \in Seq(S)
           /\ Once(Tail(q))
           /\ ToSet(Tail(q)) = ToSet(q) \ {q[1]}
<1>0. Len(q) \in Nat /\ Len(q) > 0 /\ DOMAIN q = 1 .. Len(q)
  OBVIOUS
<1>1. /\ Tail(q) \in Seq(S) /\ Len(Tail(q)) = Len(q) - 1
      /\ \A j \in 1 .. Len(q) - 1 : Tail(q)[j] = q[j + 1]
  BY HeadTailProperties
<1>2. 1 \in 1 .. Len(q)
  BY <1>0
<1>3. /\ RemoveAt(q, 1) \in Seq(S) /\ Len(RemoveAt(q, 1)) = Len(q) - 1
      /\ \A j \in 1 .. Len(q) - 1 : RemoveAt(q, 1)[j] = q[IF j < 1 THEN j ELSE j + 1]
  BY <1>2, RemoveAtElements
<1>4. \A j \in 1 .. Len(q) - 1 : Tail(q)[j] = RemoveAt(q, 1)[j]
  BY <1>0, <1>1, <1>3
<1>5. Tail(q) = RemoveAt(q, 1)
  BY <1>1, <1>3, <1>4, SeqEqual
<1>6. /\ RemoveAt(q, 1) \in Seq(S)
      /\ Once(RemoveAt(q, 1))
      /\ ToSet(RemoveAt(q, 1)) = ToSet(q) \ {q[1]}
  BY <1>2, RemoveAtOnce
<1> QED BY <1>5, <1>6

-----------------------------------------------------------------------------
(* The main queue and the socket it was filled by.                         *)

(* The blocks of a replaced socket are those of the old one, not live. *)
LEMMA ReplacedBlocks ==
    ASSUME NEW mq \in Seq(Block)
    PROVE  /\ Len(Replaced(mq)) = Len(mq)
           /\ \A k \in 1 .. Len(mq) :
                 /\ Replaced(mq)[k].kind = mq[k].kind
                 /\ Replaced(mq)[k].n = mq[k].n
                 /\ ~ Replaced(mq)[k].live
<1>1. \A k \in 1 .. Len(mq) : mq[k] \in Block
  OBVIOUS
<1>2. DOMAIN mq = 1 .. Len(mq) /\ Len(mq) \in Nat
  OBVIOUS
<1>3. Replaced(mq) = [k \in 1 .. Len(mq) |-> [mq[k] EXCEPT !.live = FALSE]]
  BY <1>2, Zenon DEF Replaced
<1>4. \A k \in 1 .. Len(mq) :
         /\ [mq[k] EXCEPT !.live = FALSE].kind = mq[k].kind
         /\ [mq[k] EXCEPT !.live = FALSE].n = mq[k].n
         /\ ~ [mq[k] EXCEPT !.live = FALSE].live
  BY <1>1 DEF Block
<1>5. Len(Replaced(mq)) = Len(mq)
  BY <1>2, <1>3
<1> QED BY <1>3, <1>4, <1>5

(* A socket that is replaced has no read under way. *)
LEMMA ReplacedRead ==
    ASSUME NEW s \in SocketType, NEW s2, NEW mq \in Seq(Block), OneRead(s, mq)
    PROVE  /\ OneRead(s2, Replaced(mq))
           /\ \A k \in DOMAIN Replaced(mq) : ~ LiveRead(Replaced(mq)[k])
<1>1. DOMAIN Replaced(mq) = 1 .. Len(mq) /\ DOMAIN mq = 1 .. Len(mq)
  BY ReplacedBlocks, ReplacedType
<1>2. \A k \in DOMAIN Replaced(mq) : ~ LiveRead(Replaced(mq)[k])
  BY <1>1, ReplacedBlocks DEF LiveRead
<1>3. \A k \in DOMAIN Replaced(mq) :
         Replaced(mq)[k].kind = "didReadBody" => Replaced(mq)[k].n >= 1
  BY <1>1, ReplacedBlocks DEF OneRead
<1> QED BY <1>2, <1>3 DEF OneRead

(* A replaced socket leaves a doomed download doomed. *)
LEMMA ReplacedDoomed ==
    ASSUME NEW mq \in Seq(Block), NEW len, NEW len2, Doomed(mq, len)
    PROVE  Doomed(Replaced(mq), len2)
<1>1. DOMAIN Replaced(mq) = 1 .. Len(mq) /\ DOMAIN mq = 1 .. Len(mq) /\ Len(mq) \in Nat
  BY ReplacedBlocks, ReplacedType
<1>2. PICK p \in 1 .. Len(mq) : mq[p].kind = "outOfSpace"
  BY <1>1 DEF Doomed, DoomedAt
<1>3. Replaced(mq)[p].kind = "outOfSpace"
  BY <1>2, ReplacedBlocks
<1>4. \A j \in 1 .. p - 1 : ~ Chunk(Replaced(mq)[j])
  <2>1. \A j \in 1 .. p - 1 : j \in 1 .. Len(mq)
    BY <1>1
  <2> QED BY <2>1, ReplacedBlocks DEF Chunk, LiveRead
<1> QED BY <1>1, <1>3, <1>4 DEF Doomed, DoomedAt

(* Blocks appended behind the others. *)
LEMMA AppendBlocks ==
    ASSUME NEW mq \in Seq(Block), NEW b \in Block
    PROVE  /\ DOMAIN Append(mq, b) = 1 .. Len(mq) + 1
           /\ DOMAIN mq = 1 .. Len(mq)
           /\ Len(mq) \in Nat
           /\ \A k \in 1 .. Len(mq) : k \in 1 .. Len(mq) + 1 /\ Append(mq, b)[k] = mq[k]
           /\ Append(mq, b)[Len(mq) + 1] = b
           /\ \A k \in 1 .. Len(mq) + 1 : k \in 1 .. Len(mq) \/ k = Len(mq) + 1
<1>1. Append(mq, b) \in Seq(Block) /\ Len(Append(mq, b)) = Len(mq) + 1 /\ Len(mq) \in Nat
  BY AppendProperties
<1>2. DOMAIN Append(mq, b) = 1 .. Len(mq) + 1
  BY <1>1
<1>3. \A k \in 1 .. Len(mq) + 1 : k \in 1 .. Len(mq) \/ k = Len(mq) + 1
  BY <1>1
<1>4. \A k \in 1 .. Len(mq) : k \in 1 .. Len(mq) + 1
  BY <1>1
<1> QED BY <1>1, <1>2, <1>3, <1>4, AppendProperties

(* A download that is doomed stays so when a block is posted. *)
LEMMA AppendDoomed ==
    ASSUME NEW mq \in Seq(Block), NEW b \in Block, NEW len, Doomed(mq, len)
    PROVE  Doomed(Append(mq, b), len)
<1>1. PICK p \in 1 .. Len(mq) : DoomedAt(mq, len, p)
  BY DEF Doomed
<1>2. \A j \in 1 .. p - 1 : j \in 1 .. Len(mq)
  OBVIOUS
<1>3. p \in DOMAIN Append(mq, b) /\ DoomedAt(Append(mq, b), len, p)
  BY <1>1, <1>2, AppendBlocks DEF DoomedAt
<1> QED BY <1>3 DEF Doomed

(* A block that reports no read leaves the reads alone. *)
LEMMA AppendOther ==
    ASSUME NEW mq \in Seq(Block), NEW b \in Block, NEW s, OneRead(s, mq),
           ~ LiveRead(b), b.kind # "didReadBody"
    PROVE  OneRead(s, Append(mq, b))
<1> DEFINE a == Append(mq, b)
<1>1. \A k \in DOMAIN a : LiveRead(a[k]) => k \in DOMAIN mq /\ a[k] = mq[k]
  BY AppendBlocks
<1>2. \A k \in DOMAIN a : a[k].kind = "didReadBody" => k \in DOMAIN mq /\ a[k] = mq[k]
  BY AppendBlocks
<1> HIDE DEF a
<1>3. \A j, k \in DOMAIN a : LiveRead(a[j]) /\ LiveRead(a[k]) => j = k
  BY <1>1 DEF OneRead
<1>4. s.state \in {"connecting", "header", "body"} => \A k \in DOMAIN a : ~ LiveRead(a[k])
  BY <1>1 DEF OneRead
<1>5. \A k \in DOMAIN a : a[k].kind = "didReadBody" => a[k].n >= 1
  BY <1>2 DEF OneRead
<1>6. OneRead(s, a)
  BY <1>3, <1>4, <1>5 DEF OneRead
<1> QED BY <1>6 DEF a

(* The block that reports the read under way: it is the only one. *)
LEMMA AppendRead ==
    ASSUME NEW mq \in Seq(Block), NEW b \in Block, NEW s, NEW s2, OneRead(s, mq),
           s.state \in {"connecting", "header", "body"},
           s2.state = "idle",
           b.kind = "didReadBody" => b.n >= 1
    PROVE  OneRead(s2, Append(mq, b))
<1> DEFINE a == Append(mq, b)
<1>1. \A k \in DOMAIN mq : ~ LiveRead(mq[k])
  BY DEF OneRead
<1>2. \A k \in DOMAIN a : LiveRead(a[k]) => k = Len(mq) + 1
  BY <1>1, AppendBlocks
<1>3. \A k \in DOMAIN a : a[k].kind = "didReadBody" => a[k].n >= 1
  <2> SUFFICES ASSUME NEW k \in DOMAIN a, a[k].kind = "didReadBody"
               PROVE  a[k].n >= 1
    OBVIOUS
  <2>1. CASE k \in 1 .. Len(mq)
    BY <2>1, AppendBlocks DEF OneRead
  <2>2. CASE k = Len(mq) + 1
    BY <2>2, AppendBlocks
  <2> QED BY <2>1, <2>2, AppendBlocks
<1> HIDE DEF a
<1>4. OneRead(s2, a)
  BY <1>2, <1>3 DEF OneRead
<1> QED BY <1>4 DEF a

(* What is left of the main queue when its head was taken. *)
LEMMA RestBlocks ==
    ASSUME NEW mq \in Seq(Block), mq # <<>>
    PROVE  /\ Tail(mq) \in Seq(Block)
           /\ DOMAIN Tail(mq) = 1 .. Len(mq) - 1
           /\ DOMAIN mq = 1 .. Len(mq)
           /\ Len(mq) \in Nat \ {0}
           /\ \A k \in 1 .. Len(mq) - 1 : k + 1 \in 1 .. Len(mq) /\ Tail(mq)[k] = mq[k + 1]
           /\ Head(mq) = mq[1]
<1>1. /\ Tail(mq) \in Seq(Block) /\ Len(Tail(mq)) = Len(mq) - 1
      /\ \A k \in 1 .. Len(mq) - 1 : Tail(mq)[k] = mq[k + 1]
  BY HeadTailProperties
<1>2. Len(mq) \in Nat \ {0} /\ DOMAIN mq = 1 .. Len(mq) /\ Head(mq) = mq[1]
  OBVIOUS
<1>3. \A k \in 1 .. Len(mq) - 1 : k + 1 \in 1 .. Len(mq)
  BY <1>2
<1> QED BY <1>1, <1>2, <1>3

(* Taking a block leaves at most one live read, and none if the one taken was live. *)
LEMMA RestRead ==
    ASSUME NEW mq \in Seq(Block), mq # <<>>, NEW s, OneRead(s, mq)
    PROVE  /\ OneRead(s, Tail(mq))
           /\ LiveRead(Head(mq)) => \A k \in DOMAIN Tail(mq) : ~ LiveRead(Tail(mq)[k])
<1> DEFINE t == Tail(mq)
<1>1. \A k \in DOMAIN t : k \in Int /\ k + 1 \in DOMAIN mq /\ t[k] = mq[k + 1] /\ k + 1 # 1
  BY RestBlocks
<1>2. Head(mq) = mq[1] /\ 1 \in DOMAIN mq
  BY RestBlocks
<1> HIDE DEF t
<1>3. \A j, k \in DOMAIN t : LiveRead(t[j]) /\ LiveRead(t[k]) => j = k
  <2> SUFFICES ASSUME NEW j \in DOMAIN t, NEW k \in DOMAIN t, LiveRead(t[j]), LiveRead(t[k])
               PROVE  j = k
    OBVIOUS
  <2>1. j + 1 = k + 1
    BY <1>1 DEF OneRead
  <2> QED BY <1>1, <2>1
<1>4. s.state \in {"connecting", "header", "body"} => \A k \in DOMAIN t : ~ LiveRead(t[k])
  BY <1>1 DEF OneRead
<1>5. \A k \in DOMAIN t : t[k].kind = "didReadBody" => t[k].n >= 1
  BY <1>1 DEF OneRead
<1>6. LiveRead(Head(mq)) => \A k \in DOMAIN t : ~ LiveRead(t[k])
  BY <1>1, <1>2 DEF OneRead
<1>7. OneRead(s, t)
  BY <1>3, <1>4, <1>5 DEF OneRead
<1> QED BY <1>6, <1>7 DEF t

(* A doomed download stays doomed until the block that ends it is taken. *)
LEMMA RestDoomed ==
    ASSUME NEW mq \in Seq(Block), mq # <<>>, NEW len, Doomed(mq, len),
           Head(mq).kind # "outOfSpace"
    PROVE  /\ Doomed(Tail(mq), len)
           /\ Chunk(Head(mq)) => len = 0
<1>1. PICK p \in 1 .. Len(mq) : DoomedAt(mq, len, p)
  BY DEF Doomed
<1>2. p # 1
  BY <1>1, RestBlocks DEF DoomedAt
<1>3. p - 1 \in 1 .. Len(mq) - 1 /\ (p - 1) + 1 = p /\ 1 \in 1 .. p - 1
  BY <1>2
<1>4. Tail(mq)[p - 1] = mq[p]
  BY <1>3, RestBlocks
<1>5. \A j \in 1 .. (p - 1) - 1 : /\ j + 1 \in 1 .. p - 1
                                  /\ Tail(mq)[j] = mq[j + 1]
  <2>1. \A j \in 1 .. (p - 1) - 1 : j + 1 \in 1 .. p - 1 /\ j \in 1 .. Len(mq) - 1
    BY <1>3
  <2> QED BY <2>1, RestBlocks
<1>6. DoomedAt(Tail(mq), len, p - 1)
  BY <1>1, <1>4, <1>5 DEF DoomedAt
<1>7. Chunk(Head(mq)) => len = 0
  BY <1>1, <1>3, RestBlocks DEF DoomedAt
<1> QED BY <1>3, <1>6, <1>7, RestBlocks DEF Doomed

(* Closing the socket leaves the reads it has reported. *)
LEMMA DisconnectedRead ==
    ASSUME NEW s \in SocketType, NEW mq, OneRead(s, mq)
    PROVE  /\ OneRead(Disconnected(s), mq)
           /\ s.from = 0 => Disconnected(s).from = 0
<1>1. Disconnected(s).state \notin {"connecting", "header", "body"}
  BY DEF Disconnected, NoSocket
<1>2. s.from = 0 => Disconnected(s).from = 0
  BY DEF Disconnected, NoSocket
<1> QED BY <1>1, <1>2 DEF OneRead


(* A download started, or not, from a state that is ready for one. *)
LEMMA ReadyStart ==
    ASSUME IInv, NEW q \in Seq(Infos), NEW inf \in InfoType,
           NEW dk \in DiskType, NEW s \in SocketType, NEW mq \in Seq(Block),
           Ready(q, doneInfoQueue', failedInfoQueue', inf, dk, s, mq),
           ProcessNextRequest(q, inf, dk, s, mq)
    PROVE  Safe'
<1>1. infoQueue' = q /\ currentFileHanle' = NoFile
  BY DEF ProcessNextRequest
<1>2. /\ ThreeLists(q, doneInfoQueue', failedInfoQueue')
      /\ Waiting(ToSet(q), inf)
      /\ Named(ToSet(failedInfoQueue'), inf)
      /\ \A f \in Files : dk[f] = Absent
      /\ OneRead(s, mq)
  BY DEF Ready
<1>3. CASE paused' \/ q = <<>>
  <2>1. /\ downloadingInfo' = Nil /\ info' = inf /\ disk' = dk
        /\ socket' = s /\ mainQueue' = mq /\ downloadPath' = downloadPath
    BY <1>3 DEF ProcessNextRequest
  <2>2. Waiting(ToSet(q) \ {Nil}, inf) /\ Named(ToSet(q) \cup ToSet(failedInfoQueue'), inf)
    BY <1>2 DEF Waiting, Named
  <2>3. ListsInv'
    BY <1>1, <1>2, <2>1, <2>2 DEF ListsInv
  <2>4. ReadInv'
    BY <1>2, <2>1 DEF ReadInv
  <2>5. CacheInv' /\ FileInv'
    BY <1>2, <2>1 DEF CacheInv, FileInv
  <2> QED BY <2>3, <2>4, <2>5 DEF Safe
<1>4. CASE ~ (paused' \/ q = <<>>)
  <2> DEFINE i == q[1]
             d == inf[i]
             path == d.item.file
  <2>1. DownloadWithInfo(i, inf, dk, s, mq)
    BY <1>4 DEF ProcessNextRequest
  <2>2. i \in Infos /\ i \in ToSet(q) /\ i # Nil
    <3>1. 1 \in 1 .. Len(q)
      BY <1>4
    <3>2. \A j \in Infos : j # Nil
      BY DEF Infos, Nil
    <3> QED BY <3>1, <3>2, InToSet
  <2>3. /\ d.item \in Items /\ d = NewInfo(d.item) /\ d \in DownloadInfo
        /\ path \in Files /\ path # NoFile
    <3>1. d.item \in Items /\ d = NewInfo(d.item)
      BY <1>2, <2>2 DEF Waiting
    <3>2. path \in Files
      BY <3>1 DEF Files
    <3> QED BY <2>2, <3>1, <3>2, FilesAssumption DEF InfoType
  <2>4. d.got = 0 /\ d.len = 0 /\ d.status = "Waiting" /\ dk[path] = Absent
    <3>1. \A it : NewInfo(it).got = 0 /\ NewInfo(it).len = 0 /\ NewInfo(it).status = "Waiting"
      BY DEF NewInfo
    <3> QED BY <1>2, <2>3, <3>1
  <2>5. downloadingInfo' = i
    BY <2>1 DEF DownloadWithInfo
  <2> HIDE DEF i
  <2>6. CASE /\ downloadPath' = path
             /\ info' = [inf EXCEPT ![i].status = "Downloading"]
             /\ disk' = IF dk[path] = Absent THEN [dk EXCEPT ![path] = 0] ELSE dk
             /\ socket' = [state |-> "connecting", delegate |-> TRUE,
                           from |-> d.got, left |-> 0]
             /\ mainQueue' = Replaced(mq)
    <3>1. info' = [inf EXCEPT ![i] = [d EXCEPT !.status = "Downloading"]]
      BY <2>2, <2>6 DEF InfoType
    <3>2. /\ info'[i] = [d EXCEPT !.status = "Downloading"]
          /\ \A j \in Infos : j # i => info'[j] = inf[j]
      BY <2>2, <3>1 DEF InfoType
    <3>3. info'[i].item = d.item /\ info'[i].got = 0 /\ info'[i].len = 0
      BY <2>3, <2>4, <3>2 DEF DownloadInfo
    <3>4. /\ disk'[path] = 0
          /\ \A f \in Files : f # path => disk'[f] = Absent
      BY <1>2, <2>3, <2>4, <2>6 DEF DiskType
    <3>5. ToSet(q) \subseteq Infos /\ ToSet(failedInfoQueue') \cap ToSet(q) = {}
      BY <1>2, InToSet DEF ThreeLists
    <3>6. Waiting(ToSet(q) \ {i}, info')
      BY <1>2, <3>2, <3>5 DEF Waiting
    <3>7. Named(ToSet(q), info')
      BY <1>2, <2>3, <3>2, <3>3, <3>5 DEF Waiting, Named
    <3>8. Named(ToSet(failedInfoQueue'), info')
      <4>1. ASSUME NEW j \in ToSet(failedInfoQueue') PROVE info'[j].item \in Items
        <5>1. inf[j].item \in Items /\ j # i
          BY <1>2, <2>2, <3>5 DEF Named
        <5>2. CASE j \in Infos
          BY <3>2, <5>1, <5>2
        <5>3. CASE j \notin Infos
          BY <3>1, <5>1, <5>3 DEF InfoType
        <5> QED BY <5>2, <5>3
      <4> QED BY <4>1 DEF Named
    <3>9. ListsInv'
      BY <1>1, <1>2, <2>5, <3>6, <3>7, <3>8 DEF ListsInv, Named
    <3>10. ReadInv' /\ \A k \in DOMAIN mainQueue' : ~ LiveRead(mainQueue'[k])
      BY <1>2, <2>6, ReplacedRead DEF ReadInv
    <3>11. CacheInv'
      BY <2>2, <2>5, <2>6, <3>3, <3>4 DEF CacheInv
    <3>12. Counted(info'[i], socket', mainQueue')
      BY <2>4, <2>6, <3>3, <3>10 DEF Counted, Announced
    <3>13. Created(info'[i], disk', downloadPath', currentFileHanle', socket', mainQueue')
      BY <1>1, <2>6, <3>3, <3>4, <3>12 DEF Created
    <3>14. FileInv'
      BY <2>5, <3>13 DEF FileInv
    <3> QED BY <3>9, <3>10, <3>11, <3>14 DEF Safe
  <2>7. CASE /\ mainQueue' = Append(mq, Posted("outOfSpace", 0, FALSE, Nil))
             /\ info' = inf /\ disk' = dk /\ socket' = s
             /\ UNCHANGED downloadPath
    <3> DEFINE b == Posted("outOfSpace", 0, FALSE, Nil)
    <3>1. b \in Block /\ b.kind = "outOfSpace" /\ ~ LiveRead(b)
      BY PostedType DEF BlockKinds, Savers, Posted, LiveRead
    <3> HIDE DEF b
    <3>2. mainQueue' = Append(mq, b)
      BY <2>7 DEF b
    <3>3. ReadInv'
      <4>1. OneRead(s, Append(mq, b))
        BY <1>2, <3>1, AppendOther
      <4> QED BY <2>7, <3>2, <4>1 DEF ReadInv
    <3>4. ListsInv'
      BY <1>1, <1>2, <2>5, <2>7 DEF ListsInv, Waiting, Named
    <3>5. CacheInv'
      BY <1>2, <2>7 DEF CacheInv
    <3>6. Doomed(mainQueue', 0)
      <4>1. Len(mq) + 1 \in DOMAIN mainQueue' /\ mainQueue'[Len(mq) + 1] = b
        BY <3>1, <3>2, AppendBlocks
      <4>2. DoomedAt(mainQueue', 0, Len(mq) + 1)
        BY <3>1, <4>1 DEF DoomedAt
      <4> QED BY <4>1, <4>2 DEF Doomed
    <3>7. NotCreated(info'[i], disk', currentFileHanle', mainQueue')
      BY <1>1, <2>4, <2>7, <3>6 DEF NotCreated
    <3>8. FileInv'
      BY <2>5, <3>7 DEF FileInv
    <3> QED BY <3>3, <3>4, <3>5, <3>8 DEF Safe
  <2> QED BY <2>1, <2>6, <2>7 DEF DownloadWithInfo
<1> QED BY <1>3, <1>4


-----------------------------------------------------------------------------
(* Ready to start the next download.                                       *)

(* The cached file of the current download is the only one to remove. *)
LEMMA UncachedAll ==
    ASSUME CacheInv
    PROVE  \A f \in Files : Uncached(disk, downloadPath)[f] = Absent
BY DEF CacheInv, Uncached

(* An info no list holds. *)
LEMMA FreshUnlisted ==
    ASSUME NEW q \in Seq(Infos), NEW failed \in Seq(Infos), IInv,
           Fresh(q, failed) # {}
    PROVE  /\ AnyOf(Fresh(q, failed)) \in Infos
           /\ AnyOf(Fresh(q, failed)) \notin ToSet(q)
           /\ AnyOf(Fresh(q, failed)) \notin ToSet(failed)
           /\ AnyOf(Fresh(q, failed)) \notin ToSet(doneInfoQueue)
           /\ AnyOf(Fresh(q, failed)) # downloadingInfo
<1>1. AnyOf(Fresh(q, failed)) \in Fresh(q, failed)
  BY DEF AnyOf
<1> QED BY <1>1 DEF Fresh, ToSet

(* A new info queued behind the others. *)
LEMMA QueueOne ==
    ASSUME NEW q \in Seq(Infos), NEW done, NEW failed \in Seq(Infos),
           NEW i \in Infos, i \notin ToSet(q), i \notin ToSet(done),
           i \notin ToSet(failed), ThreeLists(q, done, failed)
    PROVE  ThreeLists(Append(q, i), done, failed)
<1>1. ToSet(Append(q, i)) = ToSet(q) \cup {i} /\ (Once(q) => Once(Append(q, i)))
  BY AppendOnce
<1> QED BY <1>1 DEF ThreeLists

(* The object just made is about the item asked for. *)
LEMMA NewInfoItem ==
    ASSUME NEW it
    PROVE  NewInfo(it).item = it /\ NewInfo(it) = NewInfo(NewInfo(it).item)
<1>1. NewInfo(it).item = it
  BY DEF NewInfo
<1> QED BY <1>1, Zenon

(* Giving up the head in a state that is ready for the next download keeps everything right. *)
LEMMA ReadyGiveUp ==
    ASSUME IInv, Safe, NEW q \in Seq(Infos), NEW failed \in Seq(Infos),
           NEW inf \in InfoType, NEW mq \in Seq(Block),
           Ready(q, doneInfoQueue, failed, inf, Uncached(disk, downloadPath),
                 Disconnected(socket), mq),
           GiveUp(q, failed, inf, mq)
    PROVE  Safe'
<1>1. failedInfoQueue' = failed /\ doneInfoQueue' = doneInfoQueue
  BY DEF GiveUp
<1>2. /\ Uncached(disk, downloadPath) \in DiskType
      /\ Disconnected(socket) \in SocketType
  BY CurrentType
<1>3. CASE ProcessNextRequest(q, inf, Uncached(disk, downloadPath),
                              Disconnected(socket), mq)
  <2>1. Ready(q, doneInfoQueue', failedInfoQueue', inf, Uncached(disk, downloadPath),
              Disconnected(socket), mq)
    BY <1>1
  <2> QED BY <1>2, <1>3, <2>1, ReadyStart
<1>4. ASSUME Fresh(q, failed) # {}, NEW it \in ReAdd,
             ProcessNextRequest(Append(q, AnyOf(Fresh(q, failed))),
                 [inf EXCEPT ![AnyOf(Fresh(q, failed))] = NewInfo(it)],
                 Uncached(disk, downloadPath), Disconnected(socket), mq)
      PROVE  Safe'
  <2> DEFINE i == AnyOf(Fresh(q, failed))
             inf2 == [inf EXCEPT ![i] = NewInfo(it)]
             q2 == Append(q, i)
  <2>1. i \in Infos /\ i \notin ToSet(q) /\ i \notin ToSet(failed) /\ i \notin ToSet(doneInfoQueue)
    BY <1>4, FreshUnlisted
  <2>2. NewInfo(it) \in DownloadInfo /\ it \in Items
    BY NewInfoType, ReAddAssumption
  <2> HIDE DEF i
  <2>3. inf2 \in InfoType
    BY <2>1, <2>2 DEF InfoType
  <2>4. /\ q2 \in Seq(Infos)
        /\ ToSet(q2) = ToSet(q) \cup {i}
        /\ ThreeLists(q2, doneInfoQueue, failed)
    BY <2>1, AppendProperties, AppendOnce, QueueOne DEF Ready
  <2>5. /\ inf2[i] = NewInfo(it)
        /\ \A j \in Infos : j # i => inf2[j] = inf[j]
    BY <2>1 DEF InfoType
  <2> HIDE DEF inf2, q2
  <2>6. Waiting(ToSet(q2), inf2)
    <3>1. ASSUME NEW j \in ToSet(q)
          PROVE  inf2[j].item \in Items /\ inf2[j] = NewInfo(inf2[j].item)
      <4>1. j \in Infos /\ j # i
        BY <2>1, InToSet
      <4> QED BY <2>5, <4>1 DEF Ready, Waiting
    <3>2. inf2[i].item \in Items /\ inf2[i] = NewInfo(inf2[i].item)
      BY <2>2, <2>5, NewInfoItem
    <3> QED BY <2>4, <3>1, <3>2 DEF Waiting
  <2>7. Named(ToSet(failed), inf2)
    <3>1. ASSUME NEW j \in ToSet(failed) PROVE inf2[j].item \in Items
      <4>1. j \in Infos /\ j # i
        BY <2>1, InToSet
      <4> QED BY <2>5, <4>1 DEF Ready, Named
    <3> QED BY <3>1 DEF Named
  <2>8. Ready(q2, doneInfoQueue', failedInfoQueue', inf2, Uncached(disk, downloadPath),
              Disconnected(socket), mq)
    BY <1>1, <2>4, <2>6, <2>7 DEF Ready
  <2>9. ProcessNextRequest(q2, inf2, Uncached(disk, downloadPath), Disconnected(socket), mq)
    BY <1>4 DEF q2, inf2, i
  <2> QED BY <1>2, <2>3, <2>4, <2>8, <2>9, ReadyStart
<1> QED BY <1>3, <1>4 DEF GiveUp

(* The infos as a handler leaves them before it ends the download: only    *)
(* the one under way has changed, and it keeps its item.                   *)
Touched(inf) ==
    /\ inf \in InfoType
    /\ \A j \in Infos : j # downloadingInfo => inf[j] = info[j]
    /\ downloadingInfo # Nil => inf[downloadingInfo].item = info[downloadingInfo].item

(* Setting the status of the current object disturbs no waiting one. *)
LEMMA SetStatusTouched ==
    ASSUME IInv, NEW inf, Touched(inf), NEW status \in Statuses
    PROVE  /\ Touched(SetStatus(inf, downloadingInfo, status))
           /\ downloadingInfo = Nil => SetStatus(inf, downloadingInfo, status) = inf
           /\ downloadingInfo # Nil =>
                 SetStatus(inf, downloadingInfo, status)[downloadingInfo]
                    = [inf[downloadingInfo] EXCEPT !.status = status]
<1> DEFINE i == downloadingInfo
           inf1 == SetStatus(inf, i, status)
<1>1. inf1 \in InfoType
  BY CurrentType, SetStatusType DEF Touched
<1>2. CASE i = Nil
  BY <1>2 DEF SetStatus
<1>3. CASE i # Nil
  <2>1. i \in Infos /\ inf[i] \in DownloadInfo
    BY <1>3, CurrentType DEF Touched, InfoType
  <2>2. inf1 = [inf EXCEPT ![i] = [inf[i] EXCEPT !.status = status]]
    BY <1>3 DEF SetStatus
  <2>3. /\ inf1[i] = [inf[i] EXCEPT !.status = status]
        /\ \A j \in Infos : j # i => inf1[j] = inf[j]
    BY <2>1, <2>2 DEF Touched, InfoType
  <2>4. inf1[i].item = inf[i].item
    BY <2>1, <2>3 DEF DownloadInfo
  <2> HIDE DEF inf1
  <2>5. Touched(inf1)
    BY <1>1, <2>3, <2>4 DEF Touched
  <2> QED BY <1>3, <2>3, <2>5 DEF inf1
<1> QED BY <1>2, <1>3

(* An info that failed, or was released because its name had failed before. *)
LEMMA FailedInfo ==
    ASSUME NEW inf \in InfoType, NEW i \in Infos, NEW failed \in Seq(Infos)
    PROVE  /\ \A j \in Infos : j # i => Failed(inf, i, failed)[j] = inf[j]
           /\ i \in ToSet(failed) => Failed(inf, i, failed)[i].item = inf[i].item
           /\ \A j \in Infos : j # i => Ended(inf, i)[j] = inf[j]
           /\ Failed(inf, i, failed) \in InfoType /\ Ended(inf, i) \in InfoType
<1>1. i # Nil
  BY DEF Infos, Nil
<1>2. /\ \A j \in Infos : j # i => Ended(inf, i)[j] = inf[j]
      /\ Ended(inf, i)[i].item = inf[i].item
  BY DEF Ended, InfoType, DownloadInfo
<1>3. i \in ToSet(failed) <=> \E k \in DOMAIN failed : failed[k] = i
  BY DEF ToSet
<1>4. CASE i \in ToSet(failed)
  <2>1. Failed(inf, i, failed) = Ended(inf, i)
    BY <1>1, <1>3, <1>4 DEF Failed
  <2> QED BY <1>2, <2>1, EndedType
<1>5. CASE i \notin ToSet(failed)
  <2>1. Failed(inf, i, failed) = [inf EXCEPT ![i] = Released]
    BY <1>1, <1>3, <1>5 DEF Failed
  <2>2. \A j \in Infos : j # i => Failed(inf, i, failed)[j] = inf[j]
    BY <2>1 DEF InfoType
  <2> QED BY <1>2, <1>5, <2>2, EndedType, FailedType
<1> QED BY <1>4, <1>5

(* The failed list takes an info at most once more. *)
LEMMA AddFailedOnce ==
    ASSUME NEW failed \in Seq(Infos), NEW inf, NEW i \in Infos, Once(failed),
           i \notin ToSet(failed)
    PROVE  LET new == AddFailedInfo(failed, inf, i) IN
           /\ new \in Seq(Infos) /\ Once(new)
           /\ ToSet(new) \in {ToSet(failed), ToSet(failed) \cup {i}}
<1>1. /\ Append(failed, i) \in Seq(Infos)
      /\ Once(Append(failed, i))
      /\ ToSet(Append(failed, i)) = ToSet(failed) \cup {i}
  BY AppendProperties, AppendOnce
<1> QED BY <1>1 DEF AddFailedInfo


(* The queue without the info under way. *)
OthersWait == RemoveInfoAt(infoQueue, IndexOf(infoQueue, downloadingInfo))

(* Without its head the queue holds the other entries, each once. *)
LEMMA HeadRemoved ==
    ASSUME IInv, Safe, downloadingInfo # Nil
    PROVE  /\ OthersWait \in Seq(Infos)
           /\ Once(OthersWait)
           /\ ToSet(OthersWait) = ToSet(infoQueue) \ {downloadingInfo}
           /\ downloadingInfo \in Infos
           /\ downloadingInfo \in ToSet(infoQueue)
           /\ downloadingInfo \notin ToSet(failedInfoQueue)
           /\ downloadingInfo \notin ToSet(doneInfoQueue)
<1>1. infoQueue \in Seq(Infos) /\ infoQueue # <<>> /\ infoQueue[1] = downloadingInfo
  BY CurrentType DEF IInv, DownloadingIsHead
<1>2. 1 \in 1 .. Len(infoQueue) /\ 0 \in 0 .. Len(infoQueue) - 1
  BY <1>1
<1>3. OthersWait = RemoveAt(infoQueue, 1)
  <2>1. OthersWait = RemoveInfoAt(infoQueue, 0)
    BY IndexOfCurrent DEF OthersWait
  <2>2. RemoveInfoAt(infoQueue, 0) = RemoveAt(infoQueue, 0 + 1)
    BY <1>2 DEF RemoveInfoAt
  <2> QED BY <2>1, <2>2
<1>4. Once(infoQueue)
  BY DEF Safe, ListsInv, ThreeLists
<1>5. /\ RemoveAt(infoQueue, 1) \in Seq(Infos)
      /\ Once(RemoveAt(infoQueue, 1))
      /\ ToSet(RemoveAt(infoQueue, 1)) = ToSet(infoQueue) \ {infoQueue[1]}
  BY <1>1, <1>2, <1>4, RemoveAtOnce
<1>6. downloadingInfo \in ToSet(infoQueue) /\ downloadingInfo \in Infos
  BY <1>1, <1>2, InToSet
<1>7. downloadingInfo \notin ToSet(failedInfoQueue) /\ downloadingInfo \notin ToSet(doneInfoQueue)
  BY <1>6 DEF Safe, ListsInv, ThreeLists
<1> QED BY <1>1, <1>3, <1>5, <1>6, <1>7

(* The info under way leaves the queue for a list, or is released. *)
LEMMA EndReady ==
    ASSUME IInv, Safe, downloadingInfo # Nil,
           NEW inf, NEW done, NEW failed \in Seq(Infos), NEW s, NEW mq,
           \A j \in Infos : j # downloadingInfo => inf[j] = info[j],
           downloadingInfo \in ToSet(failed) =>
               inf[downloadingInfo].item = info[downloadingInfo].item,
           ThreeLists(OthersWait, done, failed),
           ToSet(failed) \subseteq ToSet(failedInfoQueue) \cup {downloadingInfo},
           OneRead(s, mq)
    PROVE  Ready(OthersWait, done, failed, inf, Uncached(disk, downloadPath), s, mq)
<1>1. Waiting(ToSet(OthersWait), inf)
  <2>1. ASSUME NEW j \in ToSet(OthersWait)
        PROVE  inf[j].item \in Items /\ inf[j] = NewInfo(inf[j].item)
    <3>1. j \in ToSet(infoQueue) \ {downloadingInfo} /\ j \in Infos
      BY HeadRemoved, InToSet
    <3>2. inf[j] = info[j]
      BY <3>1
    <3> QED BY <3>1, <3>2 DEF Safe, ListsInv, Waiting
  <2> QED BY <2>1 DEF Waiting
<1>2. Named(ToSet(failed), inf)
  <2>1. ASSUME NEW j \in ToSet(failed) PROVE inf[j].item \in Items
    <3>1. j \in Infos
      BY InToSet
    <3>2. inf[j].item = info[j].item
      BY <3>1
    <3>3. j \in ToSet(infoQueue) \cup ToSet(failedInfoQueue)
      BY HeadRemoved
    <3> QED BY <3>2, <3>3 DEF Safe, ListsInv, Named
  <2> QED BY <2>1 DEF Named
<1> QED BY <1>1, <1>2, UncachedAll DEF Ready, Safe

(* Nothing is downloaded: everything in the queue waits. *)
LEMMA IdleReady ==
    ASSUME IInv, Safe, downloadingInfo = Nil, NEW s, NEW mq, OneRead(s, mq)
    PROVE  /\ Ready(infoQueue, doneInfoQueue, failedInfoQueue, info,
                    Uncached(disk, downloadPath), s, mq)
           /\ Ready(infoQueue, doneInfoQueue, failedInfoQueue, info, disk, s, mq)
<1>1. Nil \notin ToSet(infoQueue)
  <2>1. Nil \notin Infos
    BY DEF Infos, Nil
  <2> QED BY <2>1, CurrentType, InToSet
<1>2. Waiting(ToSet(infoQueue), info)
  BY <1>1 DEF Safe, ListsInv, Waiting
<1>3. \A f \in Files : disk[f] = Absent
  BY DEF Safe, CacheInv
<1> QED BY <1>2, <1>3, UncachedAll DEF Ready, Safe, ListsInv, Named

(* The info under way failed. *)
LEMMA FailReady ==
    ASSUME IInv, Safe, downloadingInfo # Nil, NEW inf, Touched(inf), NEW s, NEW mq,
           OneRead(s, mq)
    PROVE  LET failed == AddFailedInfo(failedInfoQueue, inf, downloadingInfo)
               inf2 == Failed(inf, downloadingInfo, failed)
           IN /\ failed \in Seq(Infos)
              /\ inf2 \in InfoType
              /\ Ready(OthersWait, doneInfoQueue, failed, inf2,
                       Uncached(disk, downloadPath), s, mq)
<1> DEFINE failed == AddFailedInfo(failedInfoQueue, inf, downloadingInfo)
           inf2 == Failed(inf, downloadingInfo, failed)
<1>1. /\ failed \in Seq(Infos) /\ Once(failed)
      /\ ToSet(failed) \in {ToSet(failedInfoQueue), ToSet(failedInfoQueue) \cup {downloadingInfo}}
  BY HeadRemoved, CurrentType, AddFailedOnce DEF Safe, ListsInv, ThreeLists
<1> HIDE DEF failed
<1>2. /\ inf2 \in InfoType
      /\ \A j \in Infos : j # downloadingInfo => inf2[j] = info[j]
      /\ downloadingInfo \in ToSet(failed) =>
            inf2[downloadingInfo].item = info[downloadingInfo].item
  BY <1>1, HeadRemoved, FailedInfo DEF Touched
<1> HIDE DEF inf2
<1>3. ThreeLists(OthersWait, doneInfoQueue, failed)
  BY <1>1, HeadRemoved DEF Safe, ListsInv, ThreeLists
<1>4. ToSet(failed) \subseteq ToSet(failedInfoQueue) \cup {downloadingInfo}
  BY <1>1
<1>5. Ready(OthersWait, doneInfoQueue, failed, inf2, Uncached(disk, downloadPath), s, mq)
  BY <1>1, <1>2, <1>3, <1>4, EndReady
<1> QED BY <1>1, <1>2, <1>5 DEF failed, inf2

(* The failure handler keeps the lists, the read, the cache and the file right. *)
LEMMA VideoFailedSafe ==
    ASSUME IInv, Safe, NEW inf, Touched(inf), NEW mq \in Seq(Block),
           OneRead(socket, mq), downloadingInfo = Nil => inf = info,
           HandleDownloadVideoFailed(inf, mq)
    PROVE  Safe'
<1> DEFINE i == downloadingInfo
           index == IndexOf(infoQueue, i)
           inf1 == SetStatus(inf, i, "FailedNetwork")
           failed == IF index = NotFound THEN failedInfoQueue
                     ELSE AddFailedInfo(failedInfoQueue, inf1, i)
           q == RemoveInfoAt(infoQueue, index)
<1>1. /\ Touched(inf1)
      /\ i = Nil => inf1 = inf
  BY SetStatusTouched DEF Statuses
<1>2. OneRead(Disconnected(socket), mq)
  BY CurrentType, DisconnectedRead
<1>3. GiveUp(q, failed, Failed(inf1, i, failed), mq)
  BY DEF HandleDownloadVideoFailed
<1> HIDE DEF inf1
<1>4. CASE i = Nil
  <2>1. index = NotFound
    BY <1>4, IndexOfCurrent
  <2>2. q = infoQueue
    BY <2>1, CurrentType DEF RemoveInfoAt, NotFound
  <2>3. failed = failedInfoQueue /\ Failed(inf1, i, failed) = info
    BY <1>1, <1>4, <2>1 DEF Failed
  <2>4. GiveUp(infoQueue, failedInfoQueue, info, mq)
    BY <1>3, <2>2, <2>3
  <2> QED BY <1>2, <1>4, <2>4, CurrentType, IdleReady, ReadyGiveUp
<1>5. CASE i # Nil
  <2>1. index # NotFound
    BY <1>5, IndexOfCurrent DEF NotFound
  <2>2. failed = AddFailedInfo(failedInfoQueue, inf1, i) /\ q = OthersWait
    BY <2>1 DEF OthersWait
  <2>3. /\ failed \in Seq(Infos)
        /\ Failed(inf1, i, failed) \in InfoType
        /\ Ready(OthersWait, doneInfoQueue, failed, Failed(inf1, i, failed),
                 Uncached(disk, downloadPath), Disconnected(socket), mq)
    BY <1>1, <1>2, <1>5, <2>2, FailReady
  <2>4. GiveUp(OthersWait, failed, Failed(inf1, i, failed), mq)
    BY <1>3, <2>2
  <2> HIDE DEF failed
  <2> QED BY <1>5, <2>3, <2>4, HeadRemoved, ReadyGiveUp
<1> QED BY <1>4, <1>5

(* So does the handler of a full disk. *)
LEMMA OutOfSpaceSafe ==
    ASSUME IInv, Safe, downloadingInfo # Nil, NEW inf, Touched(inf),
           NEW mq \in Seq(Block), OneRead(socket, mq), HandleOutOfSpace(inf, mq)
    PROVE  Safe'
<1> DEFINE i == downloadingInfo
           inf1 == SetStatus(inf, i, "FailedOutOfSpace")
           failed == AddFailedInfo(failedInfoQueue, inf1, i)
<1>1. Touched(inf1)
  BY SetStatusTouched DEF Statuses
<1>2. OneRead(Disconnected(socket), mq)
  BY CurrentType, DisconnectedRead
<1>3. GiveUp(OthersWait, failed, Failed(inf1, i, failed), mq)
  BY DEF HandleOutOfSpace, OthersWait
<1> HIDE DEF inf1
<1>4. /\ failed \in Seq(Infos)
      /\ Failed(inf1, i, failed) \in InfoType
      /\ Ready(OthersWait, doneInfoQueue, failed, Failed(inf1, i, failed),
               Uncached(disk, downloadPath), Disconnected(socket), mq)
  BY <1>1, <1>2, FailReady
<1> HIDE DEF failed
<1> QED BY <1>3, <1>4, HeadRemoved, ReadyGiveUp


(* What is left of the main queue keeps what it promised. *)
Later(mq) ==
    /\ mq \in Seq(Block)
    /\ OneRead(socket, mq)
    /\ \A len : Doomed(mainQueue, len) => Doomed(mq, len)
    /\ Announced(socket, mainQueue) => Announced(socket, mq)

(* A length that is announced stays announced when a block is taken. *)
LEMMA RestAnnounced ==
    ASSUME NEW mq \in Seq(Block), mq # <<>>, NEW s, Announced(s, mq)
    PROVE  Announced(s, Tail(mq))
<1>1. \A k \in DOMAIN Tail(mq) : k + 1 \in DOMAIN mq /\ Tail(mq)[k] = mq[k + 1]
  BY RestBlocks
<1> QED BY <1>1 DEF Announced

(* What holds of the blocks on the main queue holds of those behind its head. *)
LEMMA RestLater ==
    ASSUME IInv, Safe, mainQueue # <<>>, Head(mainQueue).kind # "outOfSpace"
    PROVE  Later(Rest)
<1>1. Rest \in Seq(Block)
  BY HeadOfMainQueue
<1>2. OneRead(socket, Rest)
  BY CurrentType, RestRead DEF Safe, ReadInv, Rest
<1>3. ASSUME NEW len, Doomed(mainQueue, len) PROVE Doomed(Rest, len)
  BY <1>3, CurrentType, RestDoomed DEF Rest
<1>4. Announced(socket, mainQueue) => Announced(socket, Rest)
  BY CurrentType, RestAnnounced DEF Rest
<1> QED BY <1>1, <1>2, <1>3, <1>4 DEF Later

(* A step that keeps the lists, the counts and the files, and takes blocks *)
(* from the main queue only, keeps the invariant.                          *)
LEMMA LaterSafe ==
    ASSUME IInv, Safe, Later(mainQueue'), socket' = socket,
           infoQueue' = infoQueue, doneInfoQueue' = doneInfoQueue,
           failedInfoQueue' = failedInfoQueue, info' = info,
           downloadingInfo' = downloadingInfo, downloadPath' = downloadPath,
           currentFileHanle' \in {NoFile, currentFileHanle}, disk' = disk
    PROVE  Safe'
<1>1. ListsInv' /\ CacheInv'
  BY DEF Safe, ListsInv, CacheInv
<1>2. ReadInv'
  BY DEF Later, ReadInv
<1>3. FileInv'
  <2>1. CASE downloadingInfo = Nil
    BY <2>1 DEF FileInv
  <2>2. CASE NotCreated(info[downloadingInfo], disk, currentFileHanle, mainQueue)
    <3>1. NotCreated(info'[downloadingInfo'], disk', currentFileHanle', mainQueue')
      BY <2>2 DEF NotCreated, Later
    <3> QED BY <3>1 DEF FileInv
  <2>3. CASE Created(info[downloadingInfo], disk, downloadPath, currentFileHanle,
                     socket, mainQueue)
    <3>1. Created(info'[downloadingInfo'], disk', downloadPath', currentFileHanle',
                  socket', mainQueue')
      BY <2>3 DEF Created, Counted, Later
    <3> QED BY <3>1 DEF FileInv
  <2> QED BY <2>1, <2>2, <2>3 DEF Safe, FileInv
<1> QED BY <1>1, <1>2, <1>3 DEF Safe

(* The end of a save keeps the lists, the read, the cache and the file right. *)
LEMMA DoneOneItemSafe ==
    ASSUME IInv, Safe, NEW status \in {"Done", "FailedNotCompatible"},
           NEW mq, Later(mq), DoneOneItem(status, mq)
    PROVE  Safe'
<1> DEFINE i == downloadingInfo
           index == IndexOf(infoQueue, i)
           inf == SetStatus(info, i, status)
<1>1. /\ Touched(inf)
      /\ i = Nil => inf = info
      /\ i # Nil => inf[i] = [info[i] EXCEPT !.status = status]
  <2>1. Touched(info)
    BY CurrentType DEF Touched
  <2> QED BY <2>1, SetStatusTouched DEF Statuses
<1>2. CASE index = NotFound \/ index # downloadSaveImageIndex
  <2>1. /\ info' = inf
        /\ currentFileHanle' = NoFile
        /\ mainQueue' = mq
        /\ infoQueue' = infoQueue /\ doneInfoQueue' = doneInfoQueue
        /\ failedInfoQueue' = failedInfoQueue
        /\ UNCHANGED <<downloadingInfo, downloadPath, disk, socket>>
    BY <1>2 DEF DoneOneItem, queues
  <2> HIDE DEF inf
  <2>2. CASE i = Nil
    BY <1>1, <2>1, <2>2, LaterSafe
  <2>3. CASE i # Nil
    <3>1. i \in Infos /\ info[i] \in DownloadInfo
      BY <2>3, CurrentType DEF InfoType
    <3>2. /\ inf[i].item = info[i].item /\ inf[i].got = info[i].got
          /\ inf[i].len = info[i].len /\ inf[i].status = status
      BY <1>1, <2>3, <3>1 DEF DownloadInfo
    <3>3. \A j \in Infos : inf[j].item = info[j].item /\ (j # i => inf[j] = info[j])
      BY <1>1, <3>2 DEF Touched
    <3>4. ListsInv'
      <4>1. ToSet(infoQueue) \subseteq Infos /\ ToSet(failedInfoQueue) \subseteq Infos
        BY CurrentType, InToSet
      <4>2. Waiting(ToSet(infoQueue) \ {i}, inf)
        BY <3>3, <4>1 DEF Safe, ListsInv, Waiting
      <4>3. Named(ToSet(infoQueue) \cup ToSet(failedInfoQueue), inf)
        BY <3>3, <4>1 DEF Safe, ListsInv, Named
      <4> QED BY <2>1, <4>2, <4>3 DEF Safe, ListsInv
    <3>5. ReadInv'
      BY <2>1 DEF Later, ReadInv
    <3>6. CacheInv'
      BY <2>1, <2>3, <3>2 DEF Safe, CacheInv
    <3>7. CASE NotCreated(info[i], disk, currentFileHanle, mainQueue)
      <4>1. NotCreated(inf[i], disk, NoFile, mq)
        BY <3>2, <3>7 DEF NotCreated, Later
      <4>2. FileInv'
        BY <2>1, <4>1 DEF FileInv
      <4> QED BY <3>4, <3>5, <3>6, <4>2 DEF Safe
    <3>8. CASE Created(info[i], disk, downloadPath, currentFileHanle, socket, mainQueue)
      <4>1. Created(inf[i], disk, downloadPath, NoFile, socket, mq)
        BY <3>2, <3>8 DEF Created, Counted, Later
      <4>2. FileInv'
        BY <2>1, <4>1 DEF FileInv
      <4> QED BY <3>4, <3>5, <3>6, <4>2 DEF Safe
    <3> QED BY <2>3, <3>7, <3>8 DEF Safe, FileInv
  <2> QED BY <2>2, <2>3
<1>3. CASE ~ (index = NotFound \/ index # downloadSaveImageIndex)
  <2> DEFINE incompatible == status = "FailedNotCompatible"
             failed == IF incompatible THEN AddFailedInfo(failedInfoQueue, inf, i)
                       ELSE failedInfoQueue
             done == IF incompatible THEN doneInfoQueue ELSE Append(doneInfoQueue, i)
             inf2 == IF status = "Done" THEN Ended(inf, i) ELSE Failed(inf, i, failed)
  <2>1. i # Nil
    BY <1>3, IndexOfCurrent
  <2>2. /\ failedInfoQueue' = failed
        /\ doneInfoQueue' = done
        /\ ProcessNextRequest(OthersWait, inf2, Uncached(disk, downloadPath), socket, mq)
    BY <1>3 DEF DoneOneItem, OthersWait
  <2> HIDE DEF inf
  <2>3. inf2 \in InfoType /\ Ready(OthersWait, done, failed, inf2,
                                   Uncached(disk, downloadPath), socket, mq)
    <3>1. CASE incompatible
      <4>1. done = doneInfoQueue /\ inf2 = Failed(inf, i, failed)
            /\ failed = AddFailedInfo(failedInfoQueue, inf, i)
        BY <3>1
      <4>2. OneRead(socket, mq)
        BY DEF Later
      <4> HIDE DEF inf2, done, failed
      <4> QED BY <1>1, <2>1, <4>1, <4>2, FailReady
    <3>2. CASE status = "Done"
      <4>1. inf2 = Ended(inf, i) /\ failed = failedInfoQueue /\ done = Append(doneInfoQueue, i)
        BY <3>2
      <4>2. /\ Once(Append(doneInfoQueue, i))
            /\ ToSet(Append(doneInfoQueue, i)) = ToSet(doneInfoQueue) \cup {i}
        BY <2>1, HeadRemoved, CurrentType, AppendOnce DEF Safe, ListsInv, ThreeLists
      <4>3. ThreeLists(OthersWait, done, failed)
        BY <2>1, <4>1, <4>2, HeadRemoved DEF Safe, ListsInv, ThreeLists
      <4>4. /\ inf2 \in InfoType
            /\ \A j \in Infos : j # i => inf2[j] = info[j]
        BY <1>1, <2>1, <4>1, HeadRemoved, FailedInfo, CurrentType DEF Touched
      <4>5. i \notin ToSet(failed) /\ failed \in Seq(Infos)
        BY <2>1, <4>1, HeadRemoved, CurrentType
      <4>6. OneRead(socket, mq)
        BY DEF Later
      <4>7. ToSet(failed) \subseteq ToSet(failedInfoQueue) \cup {i}
        BY <4>1
      <4> HIDE DEF inf2, done, failed
      <4>8. Ready(OthersWait, done, failed, inf2, Uncached(disk, downloadPath), socket, mq)
        BY <2>1, <4>3, <4>4, <4>5, <4>6, <4>7, EndReady
      <4> QED BY <4>4, <4>8
    <3> QED BY <3>1, <3>2
  <2> HIDE DEF inf2, done, failed
  <2>4. Ready(OthersWait, doneInfoQueue', failedInfoQueue', inf2,
              Uncached(disk, downloadPath), socket, mq)
    BY <2>2, <2>3
  <2>5. mq \in Seq(Block)
    BY DEF Later
  <2> QED BY <2>1, <2>2, <2>3, <2>4, <2>5, CurrentType, HeadRemoved, ReadyStart
<1> QED BY <1>2, <1>3

(* A manager with nothing to do is safe. *)
LEMMA EmptySafe ==
    /\ Init => Safe
    /\ Terminated => Safe'
<1>1. ToSet(<<>>) = {} /\ Once(<<>>)
  BY DEF ToSet, Once
<1>2. ThreeLists(<<>>, <<>>, <<>>)
  BY <1>1 DEF ThreeLists
<1>3. \A inf : Waiting(ToSet(<<>>) \ {Nil}, inf) /\ Named(ToSet(<<>>) \cup ToSet(<<>>), inf)
  BY <1>1 DEF Waiting, Named
<1>4. OneRead(NoSocket, <<>>)
  BY DEF OneRead
<1>5. Init => Safe
  BY <1>2, <1>3, <1>4 DEF Init, Safe, ListsInv, ReadInv, CacheInv, FileInv
<1>6. Terminated => Safe'
  BY <1>2, <1>3, <1>4 DEF Terminated, Safe, ListsInv, ReadInv, CacheInv, FileInv
<1> QED BY <1>5, <1>6


-----------------------------------------------------------------------------
(* The client keeps the file of the download.                              *)

(* A step that changes the lists and the infos that wait, and leaves the   *)
(* download under way alone.                                               *)
LEMMA QueueSafe ==
    ASSUME IInv, Safe, ListsInv',
           downloadingInfo # Nil => info'[downloadingInfo] = info[downloadingInfo],
           UNCHANGED <<downloadingInfo, downloadPath, currentFileHanle, disk,
                       socket, mainQueue>>
    PROVE  Safe'
<1>1. ReadInv'
  BY DEF Safe, ReadInv
<1>2. CacheInv'
  BY DEF Safe, CacheInv
<1>3. FileInv'
  BY DEF Safe, FileInv
<1> QED BY <1>1, <1>2, <1>3 DEF Safe

(* Adding an item keeps everything right. *)
LEMMA AddSafe ==
    ASSUME IInv, Safe, NEW it \in Items, AddMediaItem(it)
    PROVE  Safe'
<1> DEFINE i == AnyOf(Fresh(infoQueue, failedInfoQueue))
<1>1. /\ i \in Infos /\ i \notin ToSet(infoQueue) /\ i \notin ToSet(failedInfoQueue)
      /\ i \notin ToSet(doneInfoQueue) /\ i # downloadingInfo
  BY CurrentType, FreshUnlisted DEF AddMediaItem
<1>2. infoQueue' = Append(infoQueue, i) /\ info' = [info EXCEPT ![i] = NewInfo(it)]
      /\ UNCHANGED <<doneInfoQueue, failedInfoQueue, downloadingInfo,
                     downloadPath, currentFileHanle, disk, socket, mainQueue>>
  BY DEF AddMediaItem
<1> HIDE DEF i
<1>3. /\ info'[i] = NewInfo(it)
      /\ \A j \in Infos : j # i => info'[j] = info[j]
  BY <1>1, <1>2, CurrentType DEF InfoType
<1>4. ThreeLists(infoQueue', doneInfoQueue, failedInfoQueue)
      /\ ToSet(infoQueue') = ToSet(infoQueue) \cup {i}
  BY <1>1, <1>2, CurrentType, AppendOnce, QueueOne DEF Safe, ListsInv
<1>5. ToSet(infoQueue) \subseteq Infos /\ ToSet(failedInfoQueue) \subseteq Infos
  BY CurrentType, InToSet
<1>6. info'[i].item \in Items /\ info'[i] = NewInfo(info'[i].item)
  BY <1>3, NewInfoItem
<1>7. Waiting(ToSet(infoQueue') \ {downloadingInfo}, info')
  <2>1. \A j \in ToSet(infoQueue) : j \in Infos /\ j # i
    BY <1>1, <1>5
  <2> QED BY <1>3, <1>4, <1>6, <2>1 DEF Safe, ListsInv, Waiting
<1>8. Named(ToSet(infoQueue') \cup ToSet(failedInfoQueue), info')
  <2>1. \A j \in ToSet(infoQueue) \cup ToSet(failedInfoQueue) : j \in Infos /\ j # i
    BY <1>1, <1>5
  <2> QED BY <1>3, <1>4, <1>6, <2>1 DEF Safe, ListsInv, Named
<1>9. ListsInv'
  BY <1>2, <1>4, <1>7, <1>8 DEF ListsInv
<1>10. downloadingInfo # Nil => info'[downloadingInfo] = info[downloadingInfo]
  BY <1>1, <1>3, CurrentType
<1> QED BY <1>2, <1>9, <1>10, QueueSafe

(* Removing the item being downloaded keeps everything right. *)
LEMMA RemoveHeadSafe ==
    ASSUME IInv, Safe, RemoveHead
    PROVE  Safe'
<1> DEFINE i == infoQueue[1]
           q == Tail(infoQueue)
           inf == [info EXCEPT ![i] = Released]
<1>1. /\ infoQueue # <<>>
      /\ ProcessNextRequest(q, inf, Uncached(disk, downloadPath),
                            Disconnected(socket), mainQueue)
      /\ doneInfoQueue' = doneInfoQueue /\ failedInfoQueue' = failedInfoQueue
  BY DEF RemoveHead
<1>2. q \in Seq(Infos) /\ Once(q) /\ ToSet(q) = ToSet(infoQueue) \ {i}
  BY <1>1, CurrentType, TailOnce DEF Safe, ListsInv, ThreeLists
<1>3. i \in Infos /\ i \in ToSet(infoQueue) /\ (downloadingInfo # Nil => i = downloadingInfo)
  <2>1. 1 \in 1 .. Len(infoQueue)
    BY <1>1, CurrentType
  <2> QED BY <2>1, CurrentType, InToSet DEF IInv, DownloadingIsHead
<1>4. inf \in InfoType /\ \A j \in Infos : j # i => inf[j] = info[j]
  BY <1>3, CurrentType, ReleasedType DEF InfoType
<1> HIDE DEF inf, q, i
<1>5. ToSet(infoQueue) \subseteq Infos /\ ToSet(failedInfoQueue) \subseteq Infos
  BY CurrentType, InToSet
<1>6. Nil \notin Infos
  BY DEF Infos, Nil
<1>7. Waiting(ToSet(q), inf)
  <2>1. \A j \in ToSet(q) : j \in ToSet(infoQueue) \ {downloadingInfo} /\ inf[j] = info[j]
    BY <1>2, <1>3, <1>4, <1>5, <1>6
  <2> QED BY <2>1 DEF Safe, ListsInv, Waiting
<1>8. Named(ToSet(failedInfoQueue), inf)
  <2>1. \A j \in ToSet(failedInfoQueue) : inf[j] = info[j]
    BY <1>3, <1>4, <1>5 DEF Safe, ListsInv, ThreeLists
  <2> QED BY <2>1 DEF Safe, ListsInv, Named
<1>9. ThreeLists(q, doneInfoQueue, failedInfoQueue)
  BY <1>2 DEF Safe, ListsInv, ThreeLists
<1>10. OneRead(Disconnected(socket), mainQueue)
  BY CurrentType, DisconnectedRead DEF Safe, ReadInv
<1>11. Ready(q, doneInfoQueue', failedInfoQueue', inf, Uncached(disk, downloadPath),
             Disconnected(socket), mainQueue)
  BY <1>1, <1>7, <1>8, <1>9, <1>10, UncachedAll DEF Safe, Ready
<1> QED BY <1>1, <1>2, <1>4, <1>11, CurrentType, ReadyStart

(* Removing a waiting item keeps everything right. *)
LEMMA RemoveWaitingSafe ==
    ASSUME IInv, Safe, NEW index, RemoveWaiting(index)
    PROVE  Safe'
<1> DEFINE i == infoQueue[index + 1]
<1>1. /\ index + 1 \in 1 .. Len(infoQueue) /\ index + 1 # 1
      /\ index \in 0 .. Len(infoQueue) - 1 /\ 1 \in 1 .. Len(infoQueue)
  BY CurrentType DEF RemoveWaiting
<1>2. infoQueue' = RemoveAt(infoQueue, index + 1) /\ info' = [info EXCEPT ![i] = Released]
      /\ UNCHANGED <<doneInfoQueue, failedInfoQueue, downloadingInfo,
                     downloadPath, currentFileHanle, disk, socket, mainQueue>>
  BY <1>1 DEF RemoveWaiting, RemoveInfoAt
<1>3. Once(infoQueue') /\ ToSet(infoQueue') = ToSet(infoQueue) \ {i}
  BY <1>1, <1>2, CurrentType, RemoveAtOnce DEF Safe, ListsInv, ThreeLists
<1>4. i \in Infos /\ i \in ToSet(infoQueue)
  BY <1>1, CurrentType, InToSet
<1>5. downloadingInfo # Nil => downloadingInfo # i
  <2>1. Once(infoQueue) /\ DOMAIN infoQueue = 1 .. Len(infoQueue)
    BY CurrentType DEF Safe, ListsInv, ThreeLists
  <2>2. infoQueue[1] # i
    BY <1>1, <2>1 DEF Once
  <2> QED BY <2>2 DEF IInv, DownloadingIsHead
<1>6. \A j \in Infos : j # i => info'[j] = info[j]
  BY <1>2, <1>4, CurrentType DEF InfoType
<1> HIDE DEF i
<1>7. ToSet(infoQueue) \subseteq Infos /\ ToSet(failedInfoQueue) \subseteq Infos
  BY CurrentType, InToSet
<1>8. ThreeLists(infoQueue', doneInfoQueue, failedInfoQueue)
  BY <1>3 DEF Safe, ListsInv, ThreeLists
<1>9. \A j \in ToSet(infoQueue') \cup ToSet(failedInfoQueue) : info'[j] = info[j]
  BY <1>3, <1>4, <1>6, <1>7 DEF Safe, ListsInv, ThreeLists
<1>10. Waiting(ToSet(infoQueue') \ {downloadingInfo}, info')
  BY <1>3, <1>9 DEF Safe, ListsInv, Waiting
<1>11. Named(ToSet(infoQueue') \cup ToSet(failedInfoQueue), info')
  BY <1>3, <1>9 DEF Safe, ListsInv, Named
<1>12. ListsInv'
  BY <1>2, <1>8, <1>10, <1>11 DEF ListsInv
<1>13. downloadingInfo # Nil => info'[downloadingInfo] = info[downloadingInfo]
  BY <1>5, <1>6, CurrentType
<1> QED BY <1>2, <1>12, <1>13, QueueSafe

(* A failed item asked for again keeps everything right. *)
LEMMA RedownloadSafe ==
    ASSUME IInv, Safe, NEW index \in 0 .. Len(failedInfoQueue) - 1,
           RedownloadFailedFile(index)
    PROVE  Safe'
<1> DEFINE i == AnyOf(Fresh(infoQueue, failedInfoQueue))
           old == failedInfoQueue[index + 1]
           inf == [info EXCEPT ![i] = NewInfo(info[old].item), ![old] = Released]
           q == Append(infoQueue, i)
           failed == RemoveAt(failedInfoQueue, index + 1)
<1>1. /\ i \in Infos /\ i \notin ToSet(infoQueue) /\ i \notin ToSet(failedInfoQueue)
      /\ i \notin ToSet(doneInfoQueue) /\ i # downloadingInfo
  BY CurrentType, FreshUnlisted DEF RedownloadFailedFile
<1>2. index + 1 \in 1 .. Len(failedInfoQueue)
  BY CurrentType
<1>3. old \in Infos /\ old \in ToSet(failedInfoQueue)
  BY <1>2, CurrentType, InToSet
<1>4. failed \in Seq(Infos) /\ Once(failed) /\ ToSet(failed) = ToSet(failedInfoQueue) \ {old}
  BY <1>2, CurrentType, RemoveAtOnce DEF Safe, ListsInv, ThreeLists
<1>5. /\ failedInfoQueue' = failed /\ doneInfoQueue' = doneInfoQueue
      /\ IF Len(q) = 1
         THEN ProcessNextRequest(q, inf, disk, socket, mainQueue)
         ELSE /\ infoQueue' = q
              /\ info' = inf
              /\ UNCHANGED <<downloadingInfo, downloadPath, currentFileHanle,
                             disk, socket, mainQueue>>
  BY DEF RedownloadFailedFile
<1> HIDE DEF i, old
<1>6. old # i /\ old \notin ToSet(infoQueue)
  BY <1>1, <1>3 DEF Safe, ListsInv, ThreeLists
<1>7. info[old].item \in Items
  BY <1>3 DEF Safe, ListsInv, Named
<1>8. /\ inf[i] = NewInfo(info[old].item)
      /\ \A j \in Infos : j # i /\ j # old => inf[j] = info[j]
  BY <1>1, <1>3, <1>6, CurrentType DEF InfoType
<1>9. inf \in InfoType
  <2>1. NewInfo(info[old].item) \in DownloadInfo
    BY <1>7, NewInfoType
  <2> QED BY <1>1, <1>3, <2>1, CurrentType, ReleasedType DEF InfoType
<1>10. q \in Seq(Infos) /\ Len(q) = Len(infoQueue) + 1
       /\ Once(q) /\ ToSet(q) = ToSet(infoQueue) \cup {i}
  BY <1>1, CurrentType, AppendProperties, AppendOnce DEF Safe, ListsInv, ThreeLists
<1> HIDE DEF inf, q, failed
<1>11. ThreeLists(q, doneInfoQueue, failed)
  BY <1>1, <1>4, <1>10 DEF Safe, ListsInv, ThreeLists
<1>12. inf[i].item \in Items /\ inf[i] = NewInfo(inf[i].item)
  BY <1>7, <1>8, NewInfoItem
<1>13. ToSet(infoQueue) \subseteq Infos /\ ToSet(failedInfoQueue) \subseteq Infos
  BY CurrentType, InToSet
<1>14. /\ \A j \in ToSet(infoQueue) : inf[j] = info[j]
       /\ \A j \in ToSet(failed) : inf[j] = info[j]
  BY <1>1, <1>4, <1>6, <1>8, <1>13
<1>15. Waiting(ToSet(q) \ {downloadingInfo}, inf)
  BY <1>10, <1>12, <1>14 DEF Safe, ListsInv, Waiting
<1>16. Named(ToSet(q), inf) /\ Named(ToSet(failed), inf)
  BY <1>4, <1>10, <1>12, <1>14 DEF Safe, ListsInv, Named
<1>17. CASE Len(q) = 1
  <2>1. infoQueue = <<>>
    BY <1>10, <1>17, CurrentType
  <2>2. downloadingInfo = Nil
    BY <2>1 DEF IInv, DownloadingIsHead
  <2>3. \A f \in Files : disk[f] = Absent
    BY <2>2 DEF Safe, CacheInv
  <2>4. downloadingInfo \notin ToSet(q)
    <3>1. Nil \notin Infos
      BY DEF Infos, Nil
    <3> QED BY <1>1, <1>10, <1>13, <2>2, <3>1
  <2>5. Waiting(ToSet(q), inf)
    BY <1>15, <2>4 DEF Waiting
  <2>6. Ready(q, doneInfoQueue', failedInfoQueue', inf, disk, socket, mainQueue)
    BY <1>5, <1>11, <1>16, <2>3, <2>5 DEF Ready, Safe, ReadInv
  <2>7. ProcessNextRequest(q, inf, disk, socket, mainQueue)
    BY <1>5, <1>17
  <2> QED BY <1>9, <1>10, <2>6, <2>7, CurrentType, ReadyStart
<1>18. CASE Len(q) # 1
  <2>1. /\ infoQueue' = q /\ info' = inf
        /\ UNCHANGED <<downloadingInfo, downloadPath, currentFileHanle,
                       disk, socket, mainQueue>>
    BY <1>5, <1>18
  <2>2. ListsInv'
    BY <1>5, <1>11, <1>15, <1>16, <2>1 DEF ListsInv, Named
  <2>3. downloadingInfo # Nil => info'[downloadingInfo] = info[downloadingInfo]
    BY <1>14, <2>1, HeadRemoved
  <2> QED BY <2>1, <2>2, <2>3, QueueSafe
<1> QED BY <1>17, <1>18


(* A pause keeps everything right. *)
LEMMA PauseSafe ==
    ASSUME IInv, Safe, Pause
    PROVE  Safe'
<1>1. /\ socket' = Disconnected(socket)
      /\ UNCHANGED <<infoQueue, doneInfoQueue, failedInfoQueue, info, downloadingInfo,
                     downloadPath, currentFileHanle, disk, mainQueue>>
  BY DEF Pause, queues
<1>2. OneRead(socket', mainQueue) /\ (socket.from = 0 => socket'.from = 0)
  BY <1>1, CurrentType, DisconnectedRead DEF Safe, ReadInv
<1>3. ListsInv' /\ CacheInv' /\ ReadInv'
  BY <1>1, <1>2 DEF Safe, ListsInv, CacheInv, ReadInv
<1>4. FileInv'
  <2>1. CASE downloadingInfo = Nil
    BY <1>1, <2>1 DEF FileInv
  <2>2. CASE NotCreated(info[downloadingInfo], disk, currentFileHanle, mainQueue)
    BY <1>1, <2>2 DEF FileInv
  <2>3. CASE Created(info[downloadingInfo], disk, downloadPath, currentFileHanle,
                     socket, mainQueue)
    <3>1. Created(info[downloadingInfo], disk, downloadPath, currentFileHanle,
                  socket', mainQueue)
      BY <1>2, <2>3 DEF Created, Counted, Announced
    <3> QED BY <1>1, <3>1 DEF FileInv
  <2> QED BY <2>1, <2>2, <2>3 DEF Safe, FileInv
<1> QED BY <1>3, <1>4 DEF Safe

(* The download under way is connected again at the end of its file. *)
LEMMA ReconnectSafe ==
    ASSUME IInv, Safe, downloadingInfo # Nil,
           DownloadWithInfo(downloadingInfo, info, disk, socket, mainQueue),
           UNCHANGED <<infoQueue, doneInfoQueue, failedInfoQueue, currentFileHanle>>
    PROVE  Safe'
<1> DEFINE i == downloadingInfo
           d == info[i]
           path == d.item.file
<1>1. /\ i \in Infos /\ i \in ToSet(infoQueue) /\ i \notin ToSet(failedInfoQueue)
      /\ d \in DownloadInfo
  BY HeadRemoved, CurrentType DEF InfoType
<1>2. d.item \in Items /\ path \in Files
  BY <1>1 DEF Safe, ListsInv, Named, Files
<1>3. downloadingInfo' = i
  BY DEF DownloadWithInfo
<1>4. /\ OneRead(socket, mainQueue)
      /\ \/ NotCreated(d, disk, currentFileHanle, mainQueue)
         \/ Created(d, disk, downloadPath, currentFileHanle, socket, mainQueue)
  BY DEF Safe, ReadInv, FileInv
<1>5. CASE /\ downloadPath' = path
           /\ info' = [info EXCEPT ![i].status = "Downloading"]
           /\ disk' = IF disk[path] = Absent THEN [disk EXCEPT ![path] = 0] ELSE disk
           /\ socket' = [state |-> "connecting", delegate |-> TRUE,
                         from |-> d.got, left |-> 0]
           /\ mainQueue' = Replaced(mainQueue)
  <2>1. info' = [info EXCEPT ![i] = [d EXCEPT !.status = "Downloading"]]
    BY <1>5
  <2>2. /\ info'[i] = [d EXCEPT !.status = "Downloading"]
        /\ \A j \in Infos : j # i => info'[j] = info[j]
    BY <1>1, <2>1, CurrentType DEF InfoType
  <2>3. info'[i].item = d.item /\ info'[i].got = d.got /\ info'[i].len = d.len
    BY <1>1, <2>2 DEF DownloadInfo
  <2>4. ListsInv'
    <3>1. ToSet(infoQueue) \subseteq Infos /\ ToSet(failedInfoQueue) \subseteq Infos
      BY CurrentType, InToSet
    <3>2. Waiting(ToSet(infoQueue) \ {i}, info')
      BY <2>2, <3>1 DEF Safe, ListsInv, Waiting
    <3>3. Named(ToSet(infoQueue) \cup ToSet(failedInfoQueue), info')
      <4>1. \A j \in ToSet(infoQueue) \cup ToSet(failedInfoQueue) :
               info'[j].item = info[j].item
        BY <2>2, <2>3, <3>1
      <4> QED BY <4>1 DEF Safe, ListsInv, Named
    <3> QED BY <1>3, <3>2, <3>3 DEF Safe, ListsInv
  <2>5. ReadInv' /\ \A k \in DOMAIN mainQueue' : ~ LiveRead(mainQueue'[k])
    BY <1>4, <1>5, CurrentType, ReplacedRead DEF ReadInv
  <2>6. /\ disk'[path] = d.got
        /\ \A f \in Files : f # path => disk'[f] = disk[f]
    <3>1. CASE NotCreated(d, disk, currentFileHanle, mainQueue)
      <4>1. disk[path] = Absent /\ d.got = 0
        BY <3>1 DEF NotCreated
      <4>2. disk' = [disk EXCEPT ![path] = 0]
        BY <1>5, <4>1
      <4> QED BY <1>2, <4>1, <4>2, CurrentType DEF DiskType
    <3>2. CASE Created(d, disk, downloadPath, currentFileHanle, socket, mainQueue)
      <4>1. disk[path] = d.got
        BY <3>2 DEF Created
      <4>2. d.got # Absent
        BY <1>1 DEF DownloadInfo, Absent
      <4>3. disk' = disk
        BY <1>5, <4>1, <4>2
      <4> QED BY <4>1, <4>3
    <3> QED BY <1>4, <3>1, <3>2
  <2>7. CacheInv'
    <3>1. \A f \in Files : disk[f] # Absent => f = path
      BY DEF Safe, CacheInv
    <3>2. \A f \in Files : disk'[f] # Absent => f = path
      BY <2>6, <3>1
    <3>3. info'[i].item.file = path
      BY <2>3
    <3> QED BY <1>3, <1>5, <3>2, <3>3 DEF CacheInv
  <2>8. Doomed(mainQueue', info'[i].len) \/ Counted(info'[i], socket', mainQueue')
    <3>1. ASSUME Doomed(mainQueue, d.len)
          PROVE  Doomed(mainQueue', info'[i].len)
      BY <1>5, <3>1, CurrentType, ReplacedDoomed
    <3>2. ASSUME Counted(d, socket, mainQueue)
          PROVE  Counted(info'[i], socket', mainQueue')
      <4>1. d.len = 0 => d.got = 0
        BY <1>1, <3>2 DEF Counted, DownloadInfo
      <4>2. d.len = 0 => Announced(socket', mainQueue')
        BY <1>5, <2>5, <4>1 DEF Announced
      <4> QED BY <2>3, <3>2, <4>2 DEF Counted
    <3> QED BY <1>4, <3>1, <3>2 DEF NotCreated, Created
  <2>9. currentFileHanle' \in {NoFile, path}
    BY <1>4 DEF NotCreated, Created
  <2>10. Created(info'[i], disk', downloadPath', currentFileHanle', socket', mainQueue')
    BY <1>5, <2>3, <2>6, <2>8, <2>9 DEF Created
  <2> QED BY <1>3, <2>4, <2>5, <2>7, <2>10 DEF Safe, FileInv
<1>6. CASE /\ disk[path] = Absent
           /\ mainQueue' = Append(mainQueue, Posted("outOfSpace", 0, FALSE, Nil))
           /\ info' = info /\ disk' = disk /\ socket' = socket
           /\ UNCHANGED downloadPath
  <2> DEFINE b == Posted("outOfSpace", 0, FALSE, Nil)
  <2>1. b \in Block /\ ~ LiveRead(b) /\ b.kind # "didReadBody"
    BY PostedType DEF BlockKinds, Savers, Posted, LiveRead
  <2> HIDE DEF b
  <2>2. mainQueue' = Append(mainQueue, b)
    BY <1>6 DEF b
  <2>3. ReadInv'
    BY <1>4, <1>6, <2>1, <2>2, CurrentType, AppendOther DEF ReadInv
  <2>4. ListsInv' /\ CacheInv'
    BY <1>3, <1>6 DEF Safe, ListsInv, CacheInv
  <2>5. NotCreated(d, disk, currentFileHanle, mainQueue)
    <3>1. d.got # Absent
      BY <1>1 DEF DownloadInfo, Absent
    <3>2. ~ Created(d, disk, downloadPath, currentFileHanle, socket, mainQueue)
      BY <1>6, <3>1 DEF Created
    <3> QED BY <1>4, <3>2
  <2>6. Doomed(mainQueue', d.len)
    BY <2>1, <2>2, <2>5, CurrentType, AppendDoomed DEF NotCreated
  <2>7. NotCreated(info'[i], disk', currentFileHanle', mainQueue')
    BY <1>6, <2>5, <2>6 DEF NotCreated
  <2> QED BY <1>3, <2>3, <2>4, <2>7 DEF Safe, FileInv
<1> QED BY <1>5, <1>6 DEF DownloadWithInfo

(* A resume keeps everything right. *)
LEMMA ResumeSafe ==
    ASSUME IInv, Safe, Resume
    PROVE  Safe'
<1>1. doneInfoQueue' = doneInfoQueue /\ failedInfoQueue' = failedInfoQueue
  BY DEF Resume
<1>2. CASE downloadingInfo = Nil
  <2>1. ProcessNextRequest(infoQueue, info, disk, socket, mainQueue)
    BY <1>2 DEF Resume
  <2>2. Ready(infoQueue, doneInfoQueue', failedInfoQueue', info, disk, socket, mainQueue)
    BY <1>1, <1>2, IdleReady DEF Safe, ReadInv
  <2> QED BY <2>1, <2>2, CurrentType, ReadyStart
<1>3. CASE downloadingInfo # Nil
  BY <1>1, <1>3, ReconnectSafe DEF Resume
<1> QED BY <1>2, <1>3

(* Every call of the client keeps everything right. *)
LEMMA ClientSafe ==
    ASSUME IInv, Safe, ClientStep
    PROVE  Safe'
<1>1. ASSUME NEW index, RemoveMediaItemAtIndex(index) PROVE Safe'
  BY <1>1, RemoveHeadSafe, RemoveWaitingSafe DEF RemoveMediaItemAtIndex
<1>2. CASE Relaunch
  BY <1>2, EmptySafe DEF Relaunch
<1> QED BY <1>1, <1>2, AddSafe, ResumeSafe, PauseSafe, RedownloadSafe DEF ClientStep


-----------------------------------------------------------------------------
(* The socket and the photo library keep it.                               *)

(* A block put on the main queue: the header it may report announces the   *)
(* whole file when nothing was read before.                                *)
LEMMA PostedSafe ==
    ASSUME IInv, Safe, NEW b \in Block, mainQueue' = Append(mainQueue, b),
           socket'.from = socket.from, OneRead(socket', mainQueue'),
           b.kind = "didReadHeader" /\ socket.from = 0 => b.n \in {0, Size},
           UNCHANGED <<infoQueue, doneInfoQueue, failedInfoQueue, info,
                       downloadingInfo, downloadPath, currentFileHanle, disk>>
    PROVE  Safe'
<1>1. ListsInv' /\ CacheInv' /\ ReadInv'
  BY DEF Safe, ListsInv, CacheInv, ReadInv
<1>2. ASSUME NEW len, Doomed(mainQueue, len) PROVE Doomed(mainQueue', len)
  BY <1>2, CurrentType, AppendDoomed
<1>3. ASSUME Announced(socket, mainQueue) PROVE Announced(socket', mainQueue')
  <2>1. socket'.from = 0
    BY <1>3 DEF Announced
  <2>2. ASSUME NEW k \in DOMAIN mainQueue', LiveRead(mainQueue'[k]),
               mainQueue'[k].kind = "didReadHeader"
        PROVE  mainQueue'[k].n \in {0, Size}
    <3>1. \/ k \in DOMAIN mainQueue /\ mainQueue'[k] = mainQueue[k]
          \/ mainQueue'[k] = b
      BY CurrentType, AppendBlocks
    <3> QED BY <1>3, <2>2, <3>1 DEF Announced
  <2> QED BY <2>1, <2>2 DEF Announced
<1>4. FileInv'
  <2>1. CASE downloadingInfo = Nil
    BY <2>1 DEF FileInv
  <2>2. CASE NotCreated(info[downloadingInfo], disk, currentFileHanle, mainQueue)
    <3>1. NotCreated(info[downloadingInfo], disk, currentFileHanle, mainQueue')
      BY <1>2, <2>2 DEF NotCreated
    <3> QED BY <3>1 DEF FileInv
  <2>3. CASE Created(info[downloadingInfo], disk, downloadPath, currentFileHanle,
                     socket, mainQueue)
    <3>1. Created(info[downloadingInfo], disk, downloadPath, currentFileHanle,
                  socket', mainQueue')
      BY <1>2, <1>3, <2>3 DEF Created, Counted
    <3> QED BY <3>1 DEF FileInv
  <2> QED BY <2>1, <2>2, <2>3 DEF Safe, FileInv
<1> QED BY <1>1, <1>4 DEF Safe

(* Every step of the socket keeps everything right. *)
LEMMA SocketSafe ==
    ASSUME IInv, Safe, SocketStep \/ SocketCloses
    PROVE  Safe'
<1>0. /\ socket \in SocketType /\ mainQueue \in Seq(Block)
      /\ OneRead(socket, mainQueue)
      /\ Size \in Nat \ {0}
  BY CurrentType, SizeAssumption DEF Safe, ReadInv
<1>1. ASSUME NEW kind \in BlockKinds, NEW n \in Nat, Post(kind, n),
             socket'.from = socket.from, socket'.state \notin {"connecting", "header", "body"},
             \/ kind \notin ReadKinds
             \/ socket.state \in {"connecting", "header", "body"} /\ socket'.state = "idle",
             kind = "didReadBody" => n >= 1,
             kind = "didReadHeader" /\ socket.from = 0 => n \in {0, Size}
      PROVE  Safe'
  <2> DEFINE b == Posted(kind, n, TRUE, Nil)
  <2>1. b \in Block /\ b.kind = kind /\ b.n = n
    BY <1>1, PostedType DEF Posted, Savers
  <2> HIDE DEF b
  <2>2. /\ mainQueue' = Append(mainQueue, b)
        /\ UNCHANGED <<infoQueue, doneInfoQueue, failedInfoQueue, info,
                       downloadingInfo, downloadPath, currentFileHanle, disk>>
    BY <1>1 DEF Post, queues, b
  <2>3. OneRead(socket', mainQueue')
    <3>1. CASE kind \notin ReadKinds
      <4>1. ~ LiveRead(b) /\ b.kind # "didReadBody"
        BY <2>1, <3>1 DEF LiveRead, ReadKinds
      <4>2. OneRead(socket, Append(mainQueue, b))
        BY <1>0, <2>1, <4>1, AppendOther
      <4> QED BY <1>1, <2>2, <4>2 DEF OneRead
    <3>2. CASE socket.state \in {"connecting", "header", "body"} /\ socket'.state = "idle"
      BY <1>0, <1>1, <2>1, <2>2, <3>2, AppendRead
    <3> QED BY <1>1, <3>1, <3>2
  <2> QED BY <1>1, <2>1, <2>2, <2>3, PostedSafe
<1>2. CASE SocketWrites
  <2>1. /\ socket'.from = socket.from /\ socket'.state = "idle"
        /\ socket.state = "connecting" /\ Post("didWrite", 0)
    BY <1>0, <1>2 DEF SocketWrites, SocketType
  <2> QED BY <1>1, <2>1 DEF BlockKinds
<1>3. ASSUME NEW n \in {0, IF socket.from < Size THEN Size - socket.from ELSE 0},
             SocketReadsHeader(n)
      PROVE  Safe'
  <2>1. /\ socket'.from = socket.from /\ socket'.state = "idle"
        /\ socket.state = "header" /\ Post("didReadHeader", n)
    BY <1>0, <1>3 DEF SocketReadsHeader, SocketType
  <2>2. n \in Nat /\ (socket.from = 0 => n \in {0, Size})
    BY <1>0 DEF SocketType
  <2> QED BY <1>1, <2>1, <2>2 DEF BlockKinds
<1>4. ASSUME NEW n \in 1 .. Size, SocketReadsBody(n)
      PROVE  Safe'
  <2>1. /\ socket'.from = socket.from /\ socket'.state = "idle"
        /\ socket.state = "body" /\ Post("didReadBody", n)
    BY <1>0, <1>4 DEF SocketReadsBody, SocketType
  <2>2. n \in Nat /\ n >= 1
    BY <1>0
  <2> QED BY <1>1, <2>1, <2>2 DEF BlockKinds
<1>5. CASE SocketTimesOut
  <2>1. /\ socket'.from = socket.from /\ socket'.state = "timeout"
        /\ Post("shouldTimeout", 0)
    BY <1>0, <1>5 DEF SocketTimesOut, SocketType
  <2> QED BY <1>1, <2>1 DEF BlockKinds, ReadKinds
<1>6. CASE SocketCloses
  <2>1. /\ socket'.from = socket.from /\ socket'.state = "closed"
        /\ Post("didDisconnect", 0)
    BY <1>0, <1>6 DEF SocketCloses, SocketType
  <2> QED BY <1>1, <2>1 DEF BlockKinds, ReadKinds
<1> QED BY <1>2, <1>3, <1>4, <1>5, <1>6 DEF SocketStep

(* Every step of the photo library keeps everything right. *)
LEMMA SaveSafe ==
    ASSUME IInv, Safe, SaveStep
    PROVE  Safe'
<1>1. PICK i \in Savers, success \in BOOLEAN : SaveHandler(i, success)
  BY DEF SaveStep
<1>2. UNCHANGED <<infoQueue, doneInfoQueue, failedInfoQueue, info, downloadingInfo,
                  downloadPath, currentFileHanle, disk, socket>>
  BY <1>1 DEF SaveHandler, queues
<1>3. CASE UNCHANGED mainQueue
  BY <1>2, <1>3 DEF Safe, ListsInv, ReadInv, CacheInv, FileInv
<1>4. ASSUME NEW kind \in {"doneSave", "failedSave"},
             mainQueue' = Append(mainQueue, Posted(kind, 0, FALSE, i))
      PROVE  Safe'
  <2> DEFINE b == Posted(kind, 0, FALSE, i)
  <2>1. b \in Block
    BY PostedType DEF BlockKinds
  <2>2. ~ LiveRead(b) /\ b.kind \in {"doneSave", "failedSave"}
    BY DEF Posted, LiveRead
  <2> HIDE DEF b
  <2>3. mainQueue' = Append(mainQueue, b)
    BY <1>4 DEF b
  <2>4. OneRead(socket', mainQueue')
    BY <1>2, <2>1, <2>2, <2>3, CurrentType, AppendOther DEF Safe, ReadInv
  <2> QED BY <1>2, <2>1, <2>2, <2>3, <2>4, PostedSafe
<1>5. \/ UNCHANGED mainQueue
      \/ \E kind \in {"doneSave", "failedSave"} :
            mainQueue' = Append(mainQueue, Posted(kind, 0, FALSE, i))
  BY <1>1 DEF SaveHandler
<1> QED BY <1>3, <1>4, <1>5


-----------------------------------------------------------------------------
(* The blocks of the main queue keep it.                                   *)

(* A read begun when the one before was taken from the main queue. *)
LEMMA ReadingRead ==
    ASSUME IInv, Safe, mainQueue # <<>>, LiveRead(Head(mainQueue)), NEW what
    PROVE  /\ OneRead(Reading(what), Rest)
           /\ Reading(what).from = socket.from
<1>1. socket \in SocketType /\ mainQueue \in Seq(Block)
  BY CurrentType
<1>2. /\ OneRead(socket, Rest)
      /\ \A k \in DOMAIN Rest : ~ LiveRead(Rest[k])
  BY <1>1, RestRead DEF Safe, ReadInv, Rest
<1>3. OneRead(Reading(what), Rest)
  BY <1>2 DEF OneRead
<1>4. Reading(what).from = socket.from
  BY <1>1 DEF Reading, SocketType
<1> QED BY <1>3, <1>4

(* A block taken from the main queue that begins a read at most. *)
LEMMA TakenSafe ==
    ASSUME IInv, Safe, mainQueue # <<>>, Head(mainQueue).kind # "outOfSpace",
           mainQueue' = Rest, OneRead(socket', Rest), socket'.from = socket.from,
           UNCHANGED <<infoQueue, doneInfoQueue, failedInfoQueue, info,
                       downloadingInfo, downloadPath, currentFileHanle, disk>>
    PROVE  Safe'
<1>1. Later(Rest)
  BY RestLater
<1>2. ListsInv' /\ CacheInv' /\ ReadInv'
  BY DEF Safe, ListsInv, CacheInv, ReadInv
<1>3. Announced(socket, mainQueue) => Announced(socket', mainQueue')
  BY <1>1 DEF Later, Announced
<1>4. FileInv'
  <2>1. CASE downloadingInfo = Nil
    BY <2>1 DEF FileInv
  <2>2. CASE NotCreated(info[downloadingInfo], disk, currentFileHanle, mainQueue)
    <3>1. NotCreated(info[downloadingInfo], disk, currentFileHanle, mainQueue')
      BY <1>1, <2>2 DEF NotCreated, Later
    <3> QED BY <3>1 DEF FileInv
  <2>3. CASE Created(info[downloadingInfo], disk, downloadPath, currentFileHanle,
                     socket, mainQueue)
    <3>1. Created(info[downloadingInfo], disk, downloadPath, currentFileHanle,
                  socket', mainQueue')
      BY <1>1, <1>3, <2>3 DEF Created, Counted, Later
    <3> QED BY <3>1 DEF FileInv
  <2> QED BY <2>1, <2>2, <2>3 DEF Safe, FileInv
<1> QED BY <1>2, <1>4 DEF Safe

(* The header callback, which creates or continues the file, keeps everything right. *)
LEMMA HeaderSafe ==
    ASSUME IInv, Safe, DidReadHeader
    PROVE  Safe'
<1> DEFINE contentLength == Head(mainQueue).n
           i == downloadingInfo
           inf == IF i # Nil /\ info[i].len = 0
                  THEN [info EXCEPT ![i].len = contentLength] ELSE info
<1>1. /\ mainQueue # <<>> /\ Head(mainQueue).kind = "didReadHeader"
      /\ Head(mainQueue).live /\ LiveRead(Head(mainQueue))
  BY DEF DidReadHeader, Runs, LiveRead, ReadKinds
<1>2. Rest \in Seq(Block) /\ contentLength \in Nat
  BY <1>1, HeadOfMainQueue
<1>3. Later(Rest)
  BY <1>1, RestLater
<1>4. i # Nil => /\ i \in Infos /\ info[i] \in DownloadInfo
  BY CurrentType DEF InfoType
<1>5. /\ Touched(inf)
      /\ i = Nil => inf = info
      /\ i # Nil => /\ inf[i].item = info[i].item
                    /\ inf[i].got = info[i].got
                    /\ inf[i].status = info[i].status
                    /\ inf[i].len = IF info[i].len = 0 THEN contentLength ELSE info[i].len
  <2>1. CASE i # Nil /\ info[i].len = 0
    <3>1. inf = [info EXCEPT ![i] = [info[i] EXCEPT !.len = contentLength]]
      BY <2>1
    <3>2. /\ inf[i] = [info[i] EXCEPT !.len = contentLength]
          /\ \A j \in Infos : j # i => inf[j] = info[j]
      BY <1>4, <2>1, <3>1, CurrentType DEF InfoType
    <3>3. inf \in InfoType
      BY <1>2, <1>4, <2>1, <3>1, CurrentType DEF InfoType, DownloadInfo
    <3> HIDE DEF inf
    <3>4. /\ inf[i].item = info[i].item /\ inf[i].got = info[i].got
          /\ inf[i].status = info[i].status /\ inf[i].len = contentLength
      BY <1>4, <2>1, <3>2 DEF DownloadInfo
    <3> QED BY <2>1, <3>2, <3>3, <3>4 DEF Touched
  <2>2. CASE ~ (i # Nil /\ info[i].len = 0)
    <3>1. inf = info
      BY <2>2
    <3> HIDE DEF inf
    <3> QED BY <2>2, <3>1, CurrentType DEF Touched
  <2> QED BY <2>1, <2>2
<1> HIDE DEF inf
<1>6. CASE /\ contentLength > 0
           /\ info' = inf
           /\ socket' = Reading("body")
           /\ mainQueue' = Rest
           /\ UNCHANGED <<queues, downloadingInfo, downloadPath, currentFileHanle, disk>>
  <2>1. /\ OneRead(socket', mainQueue') /\ socket'.from = socket.from
    BY <1>1, <1>6, ReadingRead
  <2>2. /\ infoQueue' = infoQueue /\ doneInfoQueue' = doneInfoQueue
        /\ failedInfoQueue' = failedInfoQueue
    BY <1>6 DEF queues
  <2>3. CASE i = Nil
    BY <1>1, <1>5, <1>6, <2>1, <2>2, <2>3, TakenSafe
  <2>4. CASE i # Nil
    <3>1. \A j \in Infos : inf[j].item = info[j].item /\ (j # i => inf[j] = info[j])
      BY <1>5, <2>4 DEF Touched
    <3>2. ListsInv'
      <4>1. ToSet(infoQueue) \subseteq Infos /\ ToSet(failedInfoQueue) \subseteq Infos
        BY CurrentType, InToSet
      <4>2. Waiting(ToSet(infoQueue) \ {i}, inf)
        BY <3>1, <4>1 DEF Safe, ListsInv, Waiting
      <4>3. Named(ToSet(infoQueue) \cup ToSet(failedInfoQueue), inf)
        BY <3>1, <4>1 DEF Safe, ListsInv, Named
      <4> QED BY <1>6, <2>2, <4>2, <4>3 DEF Safe, ListsInv
    <3>3. ReadInv'
      BY <2>1 DEF ReadInv
    <3>4. CacheInv'
      BY <1>5, <1>6, <2>4 DEF Safe, CacheInv
    <3>5. Doomed(mainQueue, info[i].len) => Doomed(mainQueue', inf[i].len)
      <4>1. \A k \in DOMAIN Rest : ~ LiveRead(Rest[k])
        BY <1>1, CurrentType, RestRead DEF Safe, ReadInv, Rest
      <4>2. ASSUME Doomed(Rest, info[i].len) PROVE Doomed(Rest, inf[i].len)
        <5>1. PICK p \in DOMAIN Rest : DoomedAt(Rest, info[i].len, p)
          BY <4>2 DEF Doomed
        <5>2. \A j \in 1 .. p - 1 : j \in DOMAIN Rest
          BY <1>2
        <5>3. DoomedAt(Rest, inf[i].len, p)
          BY <4>1, <5>1, <5>2 DEF DoomedAt, Chunk
        <5> QED BY <5>3 DEF Doomed
      <4> QED BY <1>3, <1>6, <4>2 DEF Later
    <3>6. CASE NotCreated(info[i], disk, currentFileHanle, mainQueue)
      <4>1. NotCreated(inf[i], disk, currentFileHanle, mainQueue')
        BY <1>5, <2>4, <3>5, <3>6 DEF NotCreated
      <4>2. FileInv'
        BY <1>6, <4>1 DEF FileInv
      <4> QED BY <3>2, <3>3, <3>4, <4>2 DEF Safe
    <3>7. CASE Created(info[i], disk, downloadPath, currentFileHanle, socket, mainQueue)
      <4>1. ASSUME Counted(info[i], socket, mainQueue)
            PROVE  Counted(inf[i], socket', mainQueue')
        <5>1. info[i].len = 0 => contentLength = Size
          <6>1. 1 \in DOMAIN mainQueue /\ mainQueue[1] = Head(mainQueue)
            BY <1>1, CurrentType, RestBlocks
          <6> QED BY <1>1, <1>6, <4>1, <6>1 DEF Counted, Announced
        <5>2. info[i].got \in Nat /\ info[i].len \in Nat /\ Size \in Nat /\ Size # 0
          BY <1>4, <2>4, SizeAssumption DEF DownloadInfo
        <5>3. inf[i].len = Size /\ inf[i].got <= Size
          BY <1>5, <2>4, <4>1, <5>1, <5>2 DEF Counted
        <5> QED BY <5>2, <5>3 DEF Counted
      <4>2. Created(inf[i], disk, downloadPath, currentFileHanle, socket', mainQueue')
        BY <1>5, <2>4, <3>5, <3>7, <4>1 DEF Created
      <4>3. FileInv'
        BY <1>6, <4>2 DEF FileInv
      <4> QED BY <3>2, <3>3, <3>4, <4>3 DEF Safe
    <3> QED BY <2>4, <3>6, <3>7 DEF Safe, FileInv
  <2> QED BY <2>3, <2>4
<1>7. CASE IF i = Nil THEN Terminated ELSE HandleOutOfSpace(inf, Rest)
  BY <1>3, <1>5, <1>7, EmptySafe, OutOfSpaceSafe DEF Later
<1>8. CASE HandleDownloadVideoFailed(inf, Rest)
  BY <1>3, <1>5, <1>8, VideoFailedSafe DEF Later
<1> QED BY <1>6, <1>7, <1>8 DEF DidReadHeader, inf


(* The chunk of the head of the main queue, as didReadData counts it. *)
ChunkRead ==
    LET i == downloadingInfo
        n == Head(mainQueue).n
        got == IF i = Nil THEN 0 ELSE info[i].got + n
        len == IF i = Nil THEN 0 ELSE info[i].len
        inf == IF i = Nil THEN info ELSE [info EXCEPT ![i].got = got]
        handle == IF currentFileHanle # NoFile THEN currentFileHanle
                  ELSE IF downloadPath # NoFile /\ disk[downloadPath] # Absent
                       THEN downloadPath ELSE NoFile
    IN /\ got <= len
       /\ currentFileHanle' = handle
       /\ disk' = [f \in Files |->
                     IF f = handle /\ disk[f] # Absent
                     THEN disk[f] + n ELSE disk[f]]
       /\ mainQueue' = Rest
       /\ IF got = len
          THEN /\ info' = SetStatus(inf, i, "Saving")
               /\ \E calls \in IF "twice" \in Faults /\ i # Nil THEN 1 .. 2 ELSE {1} :
                     saves' = [saves EXCEPT ![i] = calls]
               /\ UNCHANGED socket
          ELSE /\ info' = inf
               /\ socket' = Reading("body")
               /\ UNCHANGED saves
       /\ UNCHANGED <<queues, downloadingInfo, downloadPath>>

ChunkTooMuch ==
    LET i == downloadingInfo
        n == Head(mainQueue).n
    IN HandleDownloadVideoFailed(
           IF i = Nil THEN info ELSE [info EXCEPT ![i].got = info[i].got + n], Rest)

(* The body callback is a chunk that is counted, or one that is too much. *)
LEMMA DidReadBodyParts ==
    ASSUME DidReadBody
    PROVE  /\ mainQueue # <<>> /\ Head(mainQueue).kind = "didReadBody"
           /\ LiveRead(Head(mainQueue)) /\ Chunk(Head(mainQueue))
           /\ ChunkRead \/ ChunkTooMuch
<1>1. /\ mainQueue # <<>> /\ Head(mainQueue).kind = "didReadBody"
      /\ LiveRead(Head(mainQueue)) /\ Chunk(Head(mainQueue))
  BY DEF DidReadBody, Runs, LiveRead, ReadKinds, Chunk
<1>2. CASE downloadingInfo = Nil
  BY <1>1, <1>2 DEF DidReadBody, ChunkRead, ChunkTooMuch
<1>3. CASE downloadingInfo # Nil
  BY <1>1, <1>3 DEF DidReadBody, ChunkRead, ChunkTooMuch
<1> QED BY <1>2, <1>3

(* A chunk that is counted is written to the file of the download, behind  *)
(* what was counted before, and never beyond the whole file.               *)
LEMMA ChunkCounted ==
    ASSUME IInv, Safe, DidReadBody, ChunkRead, downloadingInfo # Nil
    PROVE  LET i == downloadingInfo
               n == Head(mainQueue).n
               file == info[i].item.file
           IN /\ i \in Infos /\ info[i] \in DownloadInfo /\ file \in Files
              /\ n \in Nat /\ n >= 1
              /\ info[i].got + n <= info[i].len /\ info[i].len = Size
              /\ Created(info[i], disk, downloadPath, currentFileHanle, socket, mainQueue)
              /\ currentFileHanle' = file
              /\ disk'[file] = info[i].got + n
              /\ \A f \in Files : f # file => disk'[f] = disk[f]
<1> DEFINE i == downloadingInfo
           n == Head(mainQueue).n
           d == info[i]
           file == d.item.file
<1>1. /\ mainQueue # <<>> /\ Head(mainQueue).kind = "didReadBody"
      /\ LiveRead(Head(mainQueue)) /\ Chunk(Head(mainQueue))
  BY DidReadBodyParts
<1>2. /\ i \in Infos /\ d \in DownloadInfo /\ d.got \in Nat /\ d.len \in Nat
      /\ disk \in DiskType
  BY HeadRemoved, CurrentType DEF InfoType, DownloadInfo
<1>3. file \in Files /\ file # NoFile
  <2>1. d.item \in Items
    BY HeadRemoved DEF Safe, ListsInv, Named
  <2>2. file \in Files
    BY <2>1 DEF Files
  <2> QED BY <2>2, FilesAssumption
<1>4. n \in Nat /\ n >= 1
  <2>1. n \in Nat
    BY <1>1, HeadOfMainQueue
  <2>2. 1 \in DOMAIN mainQueue /\ mainQueue[1] = Head(mainQueue)
    BY <1>1, CurrentType, RestBlocks
  <2> QED BY <1>1, <2>1, <2>2 DEF Safe, ReadInv, OneRead
<1>5. d.got + n <= d.len
  BY DEF ChunkRead
<1>6. d.len # 0
  BY <1>2, <1>4, <1>5
<1>7. ~ Doomed(mainQueue, d.len)
  BY <1>1, <1>6, CurrentType, RestDoomed
<1>8. Created(d, disk, downloadPath, currentFileHanle, socket, mainQueue)
  BY <1>7 DEF Safe, FileInv, NotCreated
<1>9. d.len = Size
  BY <1>6, <1>7, <1>8 DEF Created, Counted
<1>10. /\ disk[file] = d.got /\ disk[file] # Absent
       /\ downloadPath = file /\ currentFileHanle \in {NoFile, file}
  <2>1. d.got # Absent
    BY <1>2 DEF Absent
  <2> QED BY <1>8, <2>1 DEF Created
<1>11. (IF currentFileHanle # NoFile THEN currentFileHanle
        ELSE IF downloadPath # NoFile /\ disk[downloadPath] # Absent
             THEN downloadPath ELSE NoFile) = file
  BY <1>3, <1>10
<1>12. /\ currentFileHanle' = file
       /\ disk' = [f \in Files |-> IF f = file /\ disk[f] # Absent
                                   THEN disk[f] + n ELSE disk[f]]
  BY <1>11 DEF ChunkRead
<1>13. disk'[file] = d.got + n /\ \A f \in Files : f # file => disk'[f] = disk[f]
  BY <1>3, <1>10, <1>12
<1> QED BY <1>2, <1>3, <1>4, <1>5, <1>8, <1>9, <1>12, <1>13

(* A chunk that is not the last is in the file and in the count. *)
LEMMA ChunkReadSafe ==
    ASSUME IInv, Safe, DidReadBody, ChunkRead
    PROVE  Safe'
<1> DEFINE i == downloadingInfo
           n == Head(mainQueue).n
           d == info[i]
           got == d.got + n
           inf == [info EXCEPT ![i].got = got]
<1>1. /\ mainQueue # <<>> /\ Head(mainQueue).kind = "didReadBody"
      /\ LiveRead(Head(mainQueue))
  BY DidReadBodyParts
<1>2. OneRead(socket, Rest) /\ OneRead(Reading("body"), Rest)
      /\ Reading("body").from = socket.from
  BY <1>1, ReadingRead, RestLater DEF Later
<1>3. /\ mainQueue' = Rest /\ infoQueue' = infoQueue /\ doneInfoQueue' = doneInfoQueue
      /\ failedInfoQueue' = failedInfoQueue
      /\ UNCHANGED <<downloadingInfo, downloadPath>>
  BY DEF ChunkRead, queues
<1>4. socket' \in {socket, Reading("body")}
  BY Zenon DEF ChunkRead
<1>5. ReadInv' /\ socket'.from = socket.from
  BY <1>2, <1>3, <1>4 DEF ReadInv
<1>6. CASE i = Nil
  <2>1. \A f \in Files : disk[f] = Absent
    BY <1>6 DEF Safe, CacheInv
  <2>2. info' = info
    BY <1>6 DEF ChunkRead, SetStatus
  <2>3. \A f \in Files : disk'[f] = Absent
    BY <2>1 DEF ChunkRead
  <2>4. ListsInv'
    BY <1>3, <2>2 DEF Safe, ListsInv
  <2>5. CacheInv' /\ FileInv'
    BY <1>3, <1>6, <2>3 DEF CacheInv, FileInv
  <2> QED BY <1>5, <2>4, <2>5 DEF Safe
<1>7. CASE i # Nil
  <2>1. /\ i \in Infos /\ d \in DownloadInfo /\ d.item.file \in Files
        /\ n \in Nat /\ n >= 1 /\ got <= d.len /\ d.len = Size
        /\ Created(d, disk, downloadPath, currentFileHanle, socket, mainQueue)
        /\ currentFileHanle' = d.item.file
        /\ disk'[d.item.file] = got
        /\ \A f \in Files : f # d.item.file => disk'[f] = disk[f]
    BY <1>7, ChunkCounted
  <2>2. info' = inf \/ info' = SetStatus(inf, i, "Saving")
    BY <1>7 DEF ChunkRead
  <2>3. /\ \A j \in Infos : j # i => info'[j] = info[j]
        /\ info'[i].item = d.item /\ info'[i].got = got /\ info'[i].len = d.len
    <3>1. inf = [info EXCEPT ![i] = [d EXCEPT !.got = got]]
      OBVIOUS
    <3> HIDE DEF got
    <3>2. /\ inf[i] = [d EXCEPT !.got = got]
          /\ \A j \in Infos : j # i => inf[j] = info[j]
          /\ DOMAIN inf = Infos
      BY <2>1, <3>1, CurrentType DEF InfoType
    <3> HIDE DEF inf
    <3>3. /\ inf[i].item = d.item /\ inf[i].got = got /\ inf[i].len = d.len
      BY <2>1, <3>2 DEF DownloadInfo
    <3>4. CASE info' = inf
      BY <3>2, <3>3, <3>4
    <3>5. CASE info' = SetStatus(inf, i, "Saving")
      <4>1. info' = [inf EXCEPT ![i] = [inf[i] EXCEPT !.status = "Saving"]]
        BY <1>7, <3>5 DEF SetStatus
      <4>2. /\ info'[i] = [inf[i] EXCEPT !.status = "Saving"]
            /\ \A j \in Infos : j # i => info'[j] = inf[j]
        BY <2>1, <3>2, <4>1
      <4>3. info'[i] = [[d EXCEPT !.got = got] EXCEPT !.status = "Saving"]
        BY <3>2, <4>2
      <4>4. info'[i].item = d.item /\ info'[i].got = got /\ info'[i].len = d.len
        BY <2>1, <4>3 DEF DownloadInfo
      <4> QED BY <3>2, <4>2, <4>4
    <3> QED BY <2>2, <3>4, <3>5
  <2> HIDE DEF inf, got
  <2>4. ListsInv'
    <3>1. ToSet(infoQueue) \subseteq Infos /\ ToSet(failedInfoQueue) \subseteq Infos
      BY CurrentType, InToSet
    <3>2. Waiting(ToSet(infoQueue) \ {i}, info')
      BY <2>3, <3>1 DEF Safe, ListsInv, Waiting
    <3>3. Named(ToSet(infoQueue) \cup ToSet(failedInfoQueue), info')
      <4>1. \A j \in ToSet(infoQueue) \cup ToSet(failedInfoQueue) :
               info'[j].item = info[j].item
        BY <2>3, <3>1
      <4> QED BY <4>1 DEF Safe, ListsInv, Named
    <3> QED BY <1>3, <3>2, <3>3 DEF Safe, ListsInv
  <2>5. CacheInv'
    <3>1. \A f \in Files : f # d.item.file => disk'[f] = Absent
      BY <2>1 DEF Safe, CacheInv
    <3>2. downloadPath = d.item.file
      BY <2>1 DEF Created
    <3> QED BY <1>3, <1>7, <2>3, <3>1, <3>2 DEF CacheInv
  <2>6. Counted(info'[i], socket', mainQueue')
    <3>1. d.len # 0
      BY <2>1, SizeAssumption
    <3> QED BY <2>1, <2>3, <3>1 DEF Counted
  <2>7. Created(info'[i], disk', downloadPath', currentFileHanle', socket', mainQueue')
    BY <1>3, <2>1, <2>3, <2>6 DEF Created
  <2>8. FileInv'
    BY <1>3, <2>7 DEF FileInv
  <2> QED BY <1>5, <2>4, <2>5, <2>8 DEF Safe
<1> QED BY <1>6, <1>7

(* The body callback keeps everything right. *)
LEMMA BodySafe ==
    ASSUME IInv, Safe, DidReadBody
    PROVE  Safe'
<1> DEFINE i == downloadingInfo
           n == Head(mainQueue).n
           inf == IF i = Nil THEN info ELSE [info EXCEPT ![i].got = info[i].got + n]
<1>1. mainQueue # <<>> /\ Head(mainQueue).kind = "didReadBody" /\ (ChunkRead \/ ChunkTooMuch)
  BY DidReadBodyParts
<1>2. CASE ChunkRead
  BY <1>2, ChunkReadSafe
<1>3. CASE ChunkTooMuch
  <2>1. HandleDownloadVideoFailed(inf, Rest)
    BY <1>3 DEF ChunkTooMuch
  <2>2. Touched(inf)
    <3>1. CASE i = Nil
      BY <3>1, CurrentType DEF Touched
    <3>2. CASE i # Nil
      <4>1. i \in Infos /\ info[i] \in DownloadInfo /\ n \in Nat
        BY <1>1, <3>2, CurrentType, HeadOfMainQueue DEF InfoType
      <4>2. info[i].got + n \in Nat
        BY <4>1 DEF DownloadInfo
      <4>3. inf = [info EXCEPT ![i] = [info[i] EXCEPT !.got = info[i].got + n]]
        BY <3>2
      <4>4. /\ inf[i] = [info[i] EXCEPT !.got = info[i].got + n]
            /\ \A j \in Infos : j # i => inf[j] = info[j]
        BY <4>1, <4>3, CurrentType DEF InfoType
      <4>5. [info[i] EXCEPT !.got = info[i].got + n] \in DownloadInfo
        BY <4>1, <4>2 DEF DownloadInfo
      <4>6. inf \in InfoType
        BY <4>1, <4>3, <4>5, CurrentType DEF InfoType
      <4> HIDE DEF inf
      <4>7. inf[i].item = info[i].item
        BY <4>1, <4>4 DEF DownloadInfo
      <4> QED BY <4>4, <4>6, <4>7 DEF Touched
    <3> QED BY <3>1, <3>2
  <2>3. i = Nil => inf = info
    OBVIOUS
  <2>4. Later(Rest)
    BY <1>1, RestLater
  <2> HIDE DEF inf
  <2> QED BY <2>1, <2>2, <2>3, <2>4, VideoFailedSafe DEF Later
<1> QED BY <1>1, <1>2, <1>3

(* Every block of the main queue keeps everything right. *)
LEMMA MainSafe ==
    ASSUME IInv, Safe, MainStep
    PROVE  Safe'
<1>0. Touched(info)
  BY CurrentType DEF Touched
<1>1. CASE DidWriteData
  <2>1. /\ mainQueue # <<>> /\ Head(mainQueue).kind = "didWrite" /\ mainQueue' = Rest
        /\ socket' = IF Head(mainQueue).live THEN Reading("header") ELSE socket
        /\ UNCHANGED <<infoQueue, doneInfoQueue, failedInfoQueue, info,
                       downloadingInfo, downloadPath, currentFileHanle, disk>>
    BY <1>1 DEF DidWriteData, Runs, queues
  <2>2. OneRead(socket', Rest) /\ socket'.from = socket.from
    BY <2>1, ReadingRead, RestLater DEF LiveRead, ReadKinds, Later
  <2> QED BY <2>1, <2>2, TakenSafe
<1>2. CASE DidReadFromReplacedSocket
  <2>1. /\ mainQueue # <<>> /\ Head(mainQueue).kind # "outOfSpace" /\ mainQueue' = Rest
        /\ UNCHANGED <<infoQueue, doneInfoQueue, failedInfoQueue, info,
                       downloadingInfo, downloadPath, currentFileHanle, disk, socket>>
    BY <1>2 DEF DidReadFromReplacedSocket, Runs, Ignored, queues
  <2> QED BY <2>1, RestLater, TakenSafe DEF Later
<1>3. CASE ShouldTimeout \/ SocketDidDisconnect
  <2>1. /\ mainQueue # <<>> /\ Head(mainQueue).kind # "outOfSpace"
        /\ HandleDownloadVideoFailed(info, Rest)
    BY <1>3 DEF ShouldTimeout, SocketDidDisconnect, Runs
  <2> QED BY <1>0, <2>1, RestLater, VideoFailedSafe DEF Later
<1>4. CASE OutOfSpace
  <2>1. CASE downloadingInfo = Nil
    BY <1>4, <2>1, EmptySafe DEF OutOfSpace
  <2>2. CASE downloadingInfo # Nil
    <3>1. mainQueue # <<>> /\ HandleOutOfSpace(info, Rest)
      BY <1>4, <2>2 DEF OutOfSpace, Runs
    <3>2. Rest \in Seq(Block) /\ OneRead(socket, Rest)
      BY <3>1, CurrentType, HeadOfMainQueue, RestRead DEF Safe, ReadInv, Rest
    <3> QED BY <1>0, <2>2, <3>1, <3>2, OutOfSpaceSafe
  <2> QED BY <2>1, <2>2
<1>5. CASE FailedSave \/ DoneSave
  <2>1. /\ mainQueue # <<>> /\ Head(mainQueue).kind # "outOfSpace"
        /\ DoneOneItem("Done", Rest) \/ DoneOneItem("FailedNotCompatible", Rest)
    BY <1>5 DEF FailedSave, DoneSave, Runs
  <2> QED BY <2>1, RestLater, DoneOneItemSafe
<1> QED BY <1>1, <1>2, <1>3, <1>4, <1>5, HeaderSafe, BodySafe DEF MainStep


-----------------------------------------------------------------------------
(* Both invariants hold of every behaviour. *)
THEOREM SafeAlways == Spec => [](IInv /\ Safe)
<1>1. Init => Safe
  BY EmptySafe
<1>2. IInv /\ IInv' /\ Safe /\ [Next]_vars => Safe'
  <2> SUFFICES ASSUME IInv, Safe, [Next]_vars PROVE Safe'
    OBVIOUS
  <2>1. CASE Next
    BY <2>1, ClientSafe, SocketSafe, MainSafe, SaveSafe DEF Next
  <2>2. CASE UNCHANGED vars
    BY <2>2 DEF vars, Safe, ListsInv, ReadInv, CacheInv, FileInv
  <2> QED BY <2>1, <2>2
<1>3. Spec => []IInv
  BY Invariance
<1> QED BY <1>1, <1>2, <1>3, PTL DEF Spec

(* An info on one list is on no other. *)
LEMMA OnePlaceOfThree ==
    ASSUME NEW a \in Seq(Infos), NEW b \in Seq(Infos), NEW c \in Seq(Infos),
           ThreeLists(a, b, c)
    PROVE  Once(a \o b \o c)
<1>1. ASSUME NEW p \in Seq(Infos), NEW q \in Seq(Infos), Once(p), Once(q),
             ToSet(p) \cap ToSet(q) = {}
      PROVE  Once(p \o q) /\ ToSet(p \o q) \subseteq ToSet(p) \cup ToSet(q)
  <2> DEFINE r == p \o q
  <2>1. /\ r \in Seq(Infos) /\ Len(r) = Len(p) + Len(q)
        /\ \A k \in 1 .. Len(p) + Len(q) : r[k] = IF k <= Len(p) THEN p[k] ELSE q[k - Len(p)]
    BY ConcatProperties
  <2>2. /\ Len(p) \in Nat /\ Len(q) \in Nat
        /\ DOMAIN p = 1 .. Len(p) /\ DOMAIN q = 1 .. Len(q)
    OBVIOUS
  <2> HIDE DEF r
  <2>3. DOMAIN r = 1 .. Len(p) + Len(q)
    BY <2>1
  <2>4. ASSUME NEW k \in 1 .. Len(p) + Len(q)
        PROVE  \/ k \in 1 .. Len(p) /\ r[k] = p[k] /\ r[k] \in ToSet(p)
               \/ k - Len(p) \in 1 .. Len(q) /\ r[k] = q[k - Len(p)] /\ r[k] \in ToSet(q)
    <3>1. CASE k <= Len(p)
      <4>1. k \in 1 .. Len(p) /\ r[k] = p[k]
        BY <2>1, <2>2, <3>1
      <4> QED BY <4>1, InToSet
    <3>2. CASE ~ (k <= Len(p))
      <4>1. k - Len(p) \in 1 .. Len(q) /\ r[k] = q[k - Len(p)]
        BY <2>1, <2>2, <3>2
      <4> QED BY <4>1, InToSet
    <3> QED BY <3>1, <3>2
  <2>5. ASSUME NEW j \in 1 .. Len(p) + Len(q), NEW k \in 1 .. Len(p) + Len(q), r[j] = r[k]
        PROVE  j = k
    <3>1. CASE r[j] \in ToSet(p)
      <4>1. j \in 1 .. Len(p) /\ k \in 1 .. Len(p) /\ p[j] = p[k]
        BY <1>1, <2>4, <2>5, <3>1
      <4> QED BY <1>1, <2>2, <4>1 DEF Once
    <3>2. CASE r[j] \notin ToSet(p)
      <4>1. /\ j - Len(p) \in 1 .. Len(q) /\ k - Len(p) \in 1 .. Len(q)
            /\ q[j - Len(p)] = q[k - Len(p)]
        BY <2>4, <2>5, <3>2
      <4>2. j - Len(p) = k - Len(p)
        BY <1>1, <2>2, <4>1 DEF Once
      <4> QED BY <2>2, <4>2
    <3> QED BY <3>1, <3>2
  <2>6. Once(r)
    BY <2>3, <2>5 DEF Once
  <2>7. ToSet(r) \subseteq ToSet(p) \cup ToSet(q)
    <3> SUFFICES ASSUME NEW x \in ToSet(r) PROVE x \in ToSet(p) \cup ToSet(q)
      OBVIOUS
    <3>1. PICK k \in 1 .. Len(p) + Len(q) : r[k] = x
      BY <2>3 DEF ToSet
    <3> QED BY <2>4, <3>1
  <2> QED BY <2>6, <2>7 DEF r
<1>2. /\ a \o b \in Seq(Infos) /\ Once(a \o b)
      /\ ToSet(a \o b) \subseteq ToSet(a) \cup ToSet(b)
  BY <1>1, ConcatProperties DEF ThreeLists
<1>3. ToSet(a \o b) \cap ToSet(c) = {}
  BY <1>2 DEF ThreeLists
<1>4. Once((a \o b) \o c)
  BY <1>1, <1>2, <1>3 DEF ThreeLists
<1> QED BY <1>4

(* An info sits at one place of one list: no failure path puts it on the   *)
(* failed list twice, or leaves it in the queue when it is done            *)
(* (handleDownloadVideoFailed, handleOutOfSpace, doneOneItem,              *)
(* redownloadFailedFileAtIndex:).                                          *)
THEOREM OnePlace == Spec => []OnePlaceEach
<1>1. IInv /\ Safe => OnePlaceEach
  <2> SUFFICES ASSUME IInv, Safe PROVE OnePlaceEach
    OBVIOUS
  <2>1. Once(Lists)
    BY CurrentType, OnePlaceOfThree DEF Safe, ListsInv, Lists
  <2> QED BY <2>1 DEF Once, OnePlaceEach
<1> QED BY <1>1, SafeAlways, PTL

(* No cached file is left behind: the only one there may be is that of the *)
(* current download, also when two items share a name (removeCachedFile).  *)
THEOREM OneCached == Spec => []OneCachedFile
<1>1. Safe => OneCachedFile
  BY DEF Safe, CacheInv, OneCachedFile
<1> QED BY <1>1, SafeAlways, PTL

(* The Range header asks for the bytes behind those in the file: whatever  *)
(* pause, late chunk or failed file creation came before, the count kept   *)
(* for the current download is the size of its file (downloadWithInfo,     *)
(* didReadData).                                                           *)
THEOREM ResumesRight == Spec => []ResumesAtEndOfFile
<1>1. Safe => ResumesAtEndOfFile
  BY DEF Safe, FileInv, NotCreated, Created, ResumesAtEndOfFile
<1> QED BY <1>1, SafeAlways, PTL

(* Giving a download up keeps what the photo library owes. *)
LEMMA GiveUpSaves ==
    ASSUME NEW inf, NEW mq
    PROVE  /\ HandleDownloadVideoFailed(inf, mq) => saves' = saves
           /\ HandleOutOfSpace(inf, mq) => saves' = saves
BY DEF HandleDownloadVideoFailed, HandleOutOfSpace, GiveUp

(* What the photo library is asked to save is the whole file: no save is   *)
(* begun by a late chunk, by a chunk counted twice, or when the length was *)
(* never announced (didReadData, saveToPhotoAfterDownloaded).              *)
THEOREM SavesWhole == Spec => SavesWholeFiles
<1> DEFINE P == /\ \A i \in Infos : saves'[i] > saves[i] => disk'[info[i].item.file] = Size
                /\ saves'[Nil] > saves[Nil] => \A f \in Files : disk'[f] = Absent
<1>1. IInv /\ Safe /\ [Next]_vars => [P]_vars
  <2> SUFFICES ASSUME IInv, Safe, Next PROVE P
    BY DEF vars
  <2>0. saves \in [Savers -> 0 .. 2]
    BY DEF IInv, TypeOK
  <2>1. CASE saves' = saves
    <3>1. \A i \in Savers : ~ (saves'[i] > saves[i])
      BY <2>0, <2>1
    <3> QED BY <3>1 DEF Savers
  <2>2. CASE Terminated
    <3>1. \A i \in Savers : saves'[i] = 0 /\ saves[i] >= 0 /\ saves[i] \in Int
      BY <2>0, <2>2 DEF Terminated
    <3> QED BY <3>1 DEF Savers
  <2>3. CASE SaveStep
    <3>1. PICK i \in Savers, success \in BOOLEAN : SaveHandler(i, success)
      BY <2>3 DEF SaveStep
    <3>2. saves' = [saves EXCEPT ![i] = saves[i] - 1]
      BY <3>1 DEF SaveHandler
    <3>3. \A j \in Savers : saves'[j] <= saves[j] /\ saves'[j] \in Int /\ saves[j] \in Int
      BY <2>0, <3>2
    <3> QED BY <3>3 DEF Savers
  <2>4. CASE DidReadBody
    <3>1. CASE ChunkTooMuch
      <4>1. saves' = saves
        BY <3>1, GiveUpSaves DEF ChunkTooMuch
      <4> QED BY <2>1, <4>1
    <3>2. CASE ChunkRead
      <4> DEFINE i == downloadingInfo
                 n == Head(mainQueue).n
      <4>0. ASSUME NEW calls, NEW k \in Savers, saves' = [saves EXCEPT ![k] = calls]
            PROVE  \A j \in Savers : saves'[j] > saves[j] => j = k
        <5>1. \A j \in Savers : j # k => saves'[j] = saves[j] /\ saves[j] \in Int
          BY <2>0, <4>0
        <5> QED BY <5>1
      <4>1. CASE i # Nil /\ info[i].got + n # info[i].len
        <5>1. saves' = saves
          BY <3>2, <4>1 DEF ChunkRead
        <5> QED BY <2>1, <5>1
      <4>2. CASE i # Nil /\ info[i].got + n = info[i].len
        <5>1. PICK calls : saves' = [saves EXCEPT ![i] = calls]
          BY <3>2, <4>2 DEF ChunkRead
        <5>2. i \in Infos /\ disk'[info[i].item.file] = Size
          BY <2>4, <3>2, <4>2, ChunkCounted
        <5>3. \A j \in Savers : saves'[j] > saves[j] => j = i
          BY <4>0, <5>1, <5>2 DEF Savers
        <5>4. Nil \notin Infos
          BY DEF Nil, Infos
        <5> QED BY <5>2, <5>3, <5>4 DEF Savers
      <4>3. CASE i = Nil
        <5>1. PICK calls : saves' = [saves EXCEPT ![Nil] = calls]
          BY <3>2, <4>3 DEF ChunkRead
        <5>2. \A j \in Savers : saves'[j] > saves[j] => j = Nil
          BY <4>0, <5>1 DEF Savers
        <5>3. \A f \in Files : disk'[f] = Absent
          BY <3>2, <4>3 DEF ChunkRead, Safe, CacheInv, FileInv
        <5>4. Nil \notin Infos
          BY DEF Nil, Infos
        <5> QED BY <5>2, <5>3, <5>4 DEF Savers
      <4> QED BY <4>1, <4>2, <4>3
    <3> QED BY <2>4, <3>1, <3>2, DidReadBodyParts
  <2>5. CASE DidWriteData \/ DidReadFromReplacedSocket
    BY <2>1, <2>5 DEF DidWriteData, DidReadFromReplacedSocket, Ignored
  <2>6. CASE DidReadHeader
    BY <2>1, <2>2, <2>6, GiveUpSaves DEF DidReadHeader
  <2>7. CASE ShouldTimeout \/ SocketDidDisconnect \/ OutOfSpace
    BY <2>1, <2>2, <2>7, GiveUpSaves DEF ShouldTimeout, SocketDidDisconnect, OutOfSpace
  <2>8. CASE FailedSave \/ DoneSave
    BY <2>1, <2>8 DEF FailedSave, DoneSave, DoneOneItem
  <2>9. CASE SocketStep \/ SocketCloses
    BY <2>1, <2>9 DEF SocketStep, SocketWrites, SocketReadsHeader, SocketReadsBody,
                      SocketTimesOut, SocketCloses, Post
  <2>10. CASE ClientStep
    BY <2>1, <2>2, <2>10 DEF ClientStep, AddMediaItem, RemoveMediaItemAtIndex, RemoveHead,
                RemoveWaiting, Resume, Pause, RedownloadFailedFile, Relaunch
  <2> QED BY <2>2, <2>3, <2>4, <2>5, <2>6, <2>7, <2>8, <2>9, <2>10 DEF Next, MainStep
<1>2. SavesWholeFiles <=> [][P]_vars
  BY DEF SavesWholeFiles
<1>3. Spec => [](IInv /\ Safe) /\ [][Next]_vars
  BY SafeAlways DEF Spec
<1> HIDE DEF P
<1> QED BY <1>1, <1>2, <1>3, PTL

-----------------------------------------------------------------------------
(* No item is lost.                                                        *)

(* No two items of the camera have files of the same name. *)
OwnFiles == \A a, b \in Items : a.file = b.file => a = b

(* The info i is on a list. *)
Placed(q, done, failed) == ToSet(q) \cup ToSet(done) \cup ToSet(failed)
OnList(i) == i \in Placed(infoQueue, doneInfoQueue, failedInfoQueue)

(* Every item listed before has an info on the lists given. *)
Keeping(q, done, failed, inf) ==
    \A i \in Infos : OnList(i) =>
        \E j \in Infos : /\ j \in Placed(q, done, failed)
                         /\ inf[j].item = info[i].item
Kept == Keeping(infoQueue', doneInfoQueue', failedInfoQueue', info')

(* An item of an info in a list, and of an info in a set. *)
ItemIn(l, inf, it) == \E k \in DOMAIN l : inf[l[k]].item = it
ItemOf(is, inf, it) == \E i \in Infos : i \in is /\ inf[i].item = it

(* An item is listed by three lists one behind the other when one of them  *)
(* has an info of it.                                                      *)
LEMMA ListedByOne ==
    ASSUME NEW a \in Seq(Infos), NEW b \in Seq(Infos), NEW c \in Seq(Infos),
           NEW inf, NEW it
    PROVE  ItemIn(a \o b \o c, inf, it) <=> ItemOf(Placed(a, b, c), inf, it)
<1>1. ASSUME NEW p \in Seq(Infos), NEW q \in Seq(Infos)
      PROVE  p \o q \in Seq(Infos) /\ ToSet(p \o q) = ToSet(p) \cup ToSet(q)
  <2> DEFINE r == p \o q
  <2>1. /\ r \in Seq(Infos) /\ Len(r) = Len(p) + Len(q)
        /\ \A k \in 1 .. Len(p) + Len(q) : r[k] = IF k <= Len(p) THEN p[k] ELSE q[k - Len(p)]
    BY ConcatProperties
  <2>2. Len(p) \in Nat /\ Len(q) \in Nat
    OBVIOUS
  <2> HIDE DEF r
  <2>3. \A x \in ToSet(r) : x \in ToSet(p) \cup ToSet(q)
    <3> TAKE x \in ToSet(r)
    <3>1. PICK k \in 1 .. Len(p) + Len(q) : r[k] = x
      <4>1. DOMAIN r = 1 .. Len(p) + Len(q)
        BY <2>1
      <4> QED BY <4>1 DEF ToSet
    <3>2. CASE k <= Len(p)
      <4>1. k \in 1 .. Len(p) /\ p[k] = x
        BY <2>1, <2>2, <3>1, <3>2
      <4> QED BY <4>1, InToSet
    <3>3. CASE ~ (k <= Len(p))
      <4>1. k - Len(p) \in 1 .. Len(q) /\ q[k - Len(p)] = x
        BY <2>1, <2>2, <3>1, <3>3
      <4> QED BY <4>1, InToSet
    <3> QED BY <3>2, <3>3
  <2>4. \A x \in ToSet(p) : x \in ToSet(r)
    <3> TAKE x \in ToSet(p)
    <3>1. PICK k \in 1 .. Len(p) : p[k] = x
      BY InToSet
    <3>2. k \in 1 .. Len(r) /\ r[k] = x
      BY <2>1, <2>2, <3>1
    <3> QED BY <2>1, <3>2, InToSet
  <2>5. \A x \in ToSet(q) : x \in ToSet(r)
    <3> TAKE x \in ToSet(q)
    <3>1. PICK k \in 1 .. Len(q) : q[k] = x
      BY InToSet
    <3>2. /\ Len(p) + k \in 1 .. Len(r) /\ ~ (Len(p) + k <= Len(p))
          /\ (Len(p) + k) - Len(p) = k
      BY <2>1, <2>2
    <3>3. r[Len(p) + k] = x
      BY <2>1, <3>1, <3>2
    <3> QED BY <2>1, <3>2, <3>3, InToSet
  <2> QED BY <2>1, <2>3, <2>4, <2>5 DEF r
<1>2. /\ (a \o b) \o c \in Seq(Infos)
      /\ ToSet((a \o b) \o c) = Placed(a, b, c)
  <2>1. a \o b \in Seq(Infos) /\ ToSet(a \o b) = ToSet(a) \cup ToSet(b)
    BY <1>1
  <2>2. /\ (a \o b) \o c \in Seq(Infos)
        /\ ToSet((a \o b) \o c) = ToSet(a \o b) \cup ToSet(c)
    BY <1>1, <2>1
  <2> QED BY <2>1, <2>2 DEF Placed
<1> DEFINE l == (a \o b) \o c
<1>3. DOMAIN l = 1 .. Len(l)
  BY <1>2
<1> HIDE DEF l
<1>4. /\ \A k \in 1 .. Len(l) : l[k] \in ToSet(l)
      /\ \A i \in ToSet(l) : i \in Infos /\ \E k \in 1 .. Len(l) : l[k] = i
  BY <1>2, InToSet DEF l
<1>5. ItemIn(l, inf, it) <=> ItemOf(ToSet(l), inf, it)
  BY <1>3, <1>4 DEF ItemIn, ItemOf
<1> QED BY <1>2, <1>5 DEF l

(* A listed item has an info on a list. *)
LEMMA ListedByInfo ==
    ASSUME IInv, NEW it, Listed(it)
    PROVE  \E i \in Infos : OnList(i) /\ info[i].item = it
<1>1. /\ infoQueue \in Seq(Infos) /\ doneInfoQueue \in Seq(Infos)
      /\ failedInfoQueue \in Seq(Infos)
  BY DEF IInv, TypeOK
<1>2. ItemIn(infoQueue \o doneInfoQueue \o failedInfoQueue, info, it)
      <=> ItemOf(Placed(infoQueue, doneInfoQueue, failedInfoQueue), info, it)
  BY <1>1, ListedByOne
<1> QED BY <1>2 DEF Listed, Lists, OnList, ItemIn, ItemOf

(* After a step too, an info on a list lists its item. *)
LEMMA ListedAgain ==
    ASSUME IInv', NEW it, NEW j \in Infos,
           j \in Placed(infoQueue', doneInfoQueue', failedInfoQueue'),
           info'[j].item = it
    PROVE  Listed(it)'
<1>1. /\ infoQueue' \in Seq(Infos) /\ doneInfoQueue' \in Seq(Infos)
      /\ failedInfoQueue' \in Seq(Infos)
  BY DEF IInv, TypeOK
<1>2. ItemIn(infoQueue' \o doneInfoQueue' \o failedInfoQueue', info', it)
      <=> ItemOf(Placed(infoQueue', doneInfoQueue', failedInfoQueue'), info', it)
  BY <1>1, ListedByOne
<1> QED BY <1>2 DEF Listed, Lists, ItemIn, ItemOf

(* What is kept is listed still. *)
LEMMA KeptListed ==
    ASSUME IInv, IInv', Kept, NEW it, Listed(it)
    PROVE  Listed(it)'
<1>1. PICK i \in Infos : OnList(i) /\ info[i].item = it
  BY ListedByInfo
<1>2. PICK j \in Infos : /\ j \in Placed(infoQueue', doneInfoQueue', failedInfoQueue')
                         /\ info'[j].item = it
  BY <1>1 DEF Kept, Keeping
<1> QED BY <1>2, ListedAgain

(* Infos that keep their items on lists that stay are kept. *)
LEMMA SameKept ==
    ASSUME UNCHANGED <<infoQueue, doneInfoQueue, failedInfoQueue>>,
           \A i \in Infos : info'[i].item = info[i].item
    PROVE  Kept
BY DEF Kept, Keeping, OnList, Placed

(* The infos a handler touched have the items they had. *)
LEMMA TouchedItems ==
    ASSUME NEW inf, Touched(inf)
    PROVE  \A i \in Infos : inf[i].item = info[i].item
BY DEF Touched, Infos, Nil

(* Starting the next download takes the queue as given and changes the     *)
(* item of no info.                                                        *)
LEMMA StartItems ==
    ASSUME NEW q \in Seq(Infos), NEW inf \in InfoType, NEW dk, NEW s, NEW mq,
           ProcessNextRequest(q, inf, dk, s, mq)
    PROVE  infoQueue' = q /\ \A j \in Infos : info'[j].item = inf[j].item
<1>1. infoQueue' = q /\ (info' = inf \/ (q # <<>> /\ DownloadWithInfo(q[1], inf, dk, s, mq)))
  BY DEF ProcessNextRequest
<1>2. CASE q # <<>> /\ DownloadWithInfo(q[1], inf, dk, s, mq)
  <2>1. q[1] \in Infos
    BY <1>2
  <2>2. info' = inf \/ info' = [inf EXCEPT ![q[1]].status = "Downloading"]
    BY <1>2 DEF DownloadWithInfo
  <2> QED BY <1>1, <2>1, <2>2 DEF InfoType, DownloadInfo
<1> QED BY <1>1, <1>2

(* Starting the next download keeps what its queue and its infos keep. *)
LEMMA StartKept ==
    ASSUME NEW q \in Seq(Infos), NEW inf \in InfoType, NEW dk, NEW s, NEW mq,
           Keeping(q, doneInfoQueue', failedInfoQueue', inf),
           ProcessNextRequest(q, inf, dk, s, mq)
    PROVE  Kept
<1>1. infoQueue' = q /\ \A j \in Infos : info'[j].item = inf[j].item
  BY StartItems
<1> QED BY <1>1 DEF Kept, Keeping

(* So does giving a download up, when the delegate adds an item to the     *)
(* queue meanwhile: it takes an info no list holds.                        *)
LEMMA GiveUpKept ==
    ASSUME IInv, NEW q \in Seq(Infos), NEW failed \in Seq(Infos),
           NEW inf \in InfoType, NEW mq,
           Keeping(q, doneInfoQueue, failed, inf), GiveUp(q, failed, inf, mq)
    PROVE  Kept
<1>1. failedInfoQueue' = failed /\ doneInfoQueue' = doneInfoQueue
  BY DEF GiveUp
<1>2. ASSUME NEW dk, NEW s, ProcessNextRequest(q, inf, dk, s, mq)
      PROVE  Kept
  BY <1>1, <1>2, StartKept
<1>3. ASSUME Fresh(q, failed) # {}, NEW it \in ReAdd, NEW dk, NEW s,
             ProcessNextRequest(Append(q, AnyOf(Fresh(q, failed))),
                 [inf EXCEPT ![AnyOf(Fresh(q, failed))] = NewInfo(it)], dk, s, mq)
      PROVE  Kept
  <2> DEFINE i == AnyOf(Fresh(q, failed))
             inf2 == [inf EXCEPT ![i] = NewInfo(it)]
             q2 == Append(q, i)
  <2>1. i \in Infos /\ i \notin Placed(q, doneInfoQueue, failed)
    BY <1>3, FreshUnlisted DEF Placed
  <2>2. NewInfo(it) \in DownloadInfo
    BY NewInfoType, ReAddAssumption
  <2> HIDE DEF i
  <2>3. inf2 \in InfoType /\ \A j \in Infos : j # i => inf2[j] = inf[j]
    BY <2>1, <2>2 DEF InfoType
  <2>4. q2 \in Seq(Infos) /\ ToSet(q2) = ToSet(q) \cup {i}
    BY <2>1, AppendProperties, AppendOnce
  <2>5. ProcessNextRequest(q2, inf2, dk, s, mq)
    BY <1>3 DEF i
  <2> HIDE DEF inf2, q2
  <2>6. Keeping(q2, doneInfoQueue', failedInfoQueue', inf2)
    <3>1. ASSUME NEW k \in Infos, OnList(k)
          PROVE  \E j \in Infos : /\ j \in Placed(q2, doneInfoQueue, failed)
                                  /\ inf2[j].item = info[k].item
      <4>1. PICK j \in Infos : /\ j \in Placed(q, doneInfoQueue, failed)
                               /\ inf[j].item = info[k].item
        BY <3>1 DEF Keeping
      <4>2. j # i /\ j \in Placed(q2, doneInfoQueue, failed)
        BY <2>1, <2>4, <4>1 DEF Placed
      <4> QED BY <2>3, <4>1, <4>2
    <3> QED BY <1>1, <3>1 DEF Keeping
  <2> QED BY <2>3, <2>4, <2>5, <2>6, StartKept
<1> QED BY <1>2, <1>3 DEF GiveUp

(* The info under way that fails goes to the failed list, or is refused    *)
(* there because an info of the same file is on it: that is one of the     *)
(* same item.                                                              *)
LEMMA EndKeeps ==
    ASSUME OwnFiles, IInv, Safe, downloadingInfo # Nil, NEW inf, Touched(inf)
    PROVE  LET failed == AddFailedInfo(failedInfoQueue, inf, downloadingInfo)
               inf2 == Failed(inf, downloadingInfo, failed)
           IN /\ failed \in Seq(Infos)
              /\ inf2 \in InfoType
              /\ Keeping(OthersWait, doneInfoQueue, failed, inf2)
<1> DEFINE i == downloadingInfo
           failed == AddFailedInfo(failedInfoQueue, inf, i)
           inf2 == Failed(inf, i, failed)
<1>1. /\ failed \in Seq(Infos)
      /\ ToSet(failed) \in {ToSet(failedInfoQueue), ToSet(failedInfoQueue) \cup {i}}
  BY HeadRemoved, CurrentType, AddFailedOnce DEF Safe, ListsInv, ThreeLists
<1>2. \/ HasFile(failedInfoQueue, inf, inf[i].item.file)
      \/ failed = Append(failedInfoQueue, i)
  BY DEF AddFailedInfo
<1>3. failed = Append(failedInfoQueue, i) => i \in ToSet(failed)
  BY HeadRemoved, CurrentType, AppendOnce
<1> HIDE DEF failed
<1>4. /\ inf2 \in InfoType
      /\ \A j \in Infos : j # i => inf2[j] = info[j]
      /\ i \in ToSet(failed) => inf2[i].item = info[i].item
  BY <1>1, HeadRemoved, FailedInfo DEF Touched
<1> HIDE DEF inf2
<1>5. ASSUME NEW k \in Infos, OnList(k), k # i
      PROVE  k \in Placed(OthersWait, doneInfoQueue, failed) /\ inf2[k].item = info[k].item
  BY <1>1, <1>4, <1>5, HeadRemoved DEF OnList, Placed
<1>6. ASSUME i \in ToSet(failed)
      PROVE  i \in Placed(OthersWait, doneInfoQueue, failed) /\ inf2[i].item = info[i].item
  BY <1>4, <1>6 DEF Placed
<1>7. ASSUME i \notin ToSet(failed)
      PROVE  \E j \in Infos : /\ j \in Placed(OthersWait, doneInfoQueue, failed)
                              /\ inf2[j].item = info[i].item
  <2>1. PICK k \in DOMAIN failedInfoQueue :
            inf[failedInfoQueue[k]].item.file = inf[i].item.file
    BY <1>2, <1>3, <1>7 DEF HasFile
  <2> DEFINE j == failedInfoQueue[k]
  <2>2. j \in ToSet(failedInfoQueue) /\ j \in Infos
    BY CurrentType, InToSet
  <2>3. j # i
    BY <2>2, HeadRemoved
  <2>4. inf[j] = info[j] /\ inf[i].item = info[i].item
    BY <2>2, <2>3 DEF Touched
  <2>5. info[j].item \in Items /\ info[i].item \in Items
    BY <2>2, HeadRemoved DEF Safe, ListsInv, Named
  <2>6. info[j].item = info[i].item
    BY <2>1, <2>4, <2>5 DEF OwnFiles
  <2>7. j \in ToSet(failed)
    BY <1>1, <2>2
  <2> QED BY <1>4, <2>2, <2>3, <2>6, <2>7 DEF Placed
<1>8. Keeping(OthersWait, doneInfoQueue, failed, inf2)
  BY <1>5, <1>6, <1>7, HeadRemoved DEF Keeping
<1> QED BY <1>1, <1>4, <1>8 DEF failed, inf2

(* Giving up for a failure of the network keeps every item. *)
LEMMA VideoFailedKept ==
    ASSUME OwnFiles, IInv, Safe, NEW inf, Touched(inf), NEW mq,
           downloadingInfo = Nil => inf = info, HandleDownloadVideoFailed(inf, mq)
    PROVE  Kept
<1> DEFINE i == downloadingInfo
           index == IndexOf(infoQueue, i)
           inf1 == SetStatus(inf, i, "FailedNetwork")
           failed == IF index = NotFound THEN failedInfoQueue
                     ELSE AddFailedInfo(failedInfoQueue, inf1, i)
           q == RemoveInfoAt(infoQueue, index)
<1>1. /\ Touched(inf1)
      /\ i = Nil => inf1 = inf
  BY SetStatusTouched DEF Statuses
<1>2. GiveUp(q, failed, Failed(inf1, i, failed), mq)
  BY DEF HandleDownloadVideoFailed
<1> HIDE DEF inf1
<1>3. CASE i = Nil
  <2>1. index = NotFound
    BY <1>3, IndexOfCurrent
  <2>2. q = infoQueue
    BY <2>1, CurrentType DEF RemoveInfoAt, NotFound
  <2>3. failed = failedInfoQueue /\ Failed(inf1, i, failed) = info
    BY <1>1, <1>3, <2>1 DEF Failed
  <2>4. GiveUp(infoQueue, failedInfoQueue, info, mq)
    BY <1>2, <2>2, <2>3
  <2>5. Keeping(infoQueue, doneInfoQueue, failedInfoQueue, info)
    BY DEF Keeping, OnList
  <2> QED BY <2>4, <2>5, CurrentType, GiveUpKept
<1>4. CASE i # Nil
  <2>1. index # NotFound
    BY <1>4, IndexOfCurrent DEF NotFound
  <2>2. failed = AddFailedInfo(failedInfoQueue, inf1, i) /\ q = OthersWait
    BY <2>1 DEF OthersWait
  <2>3. /\ failed \in Seq(Infos)
        /\ Failed(inf1, i, failed) \in InfoType
        /\ Keeping(OthersWait, doneInfoQueue, failed, Failed(inf1, i, failed))
    BY <1>1, <1>4, <2>2, EndKeeps
  <2>4. GiveUp(OthersWait, failed, Failed(inf1, i, failed), mq)
    BY <1>2, <2>2
  <2> HIDE DEF failed
  <2> QED BY <1>4, <2>3, <2>4, HeadRemoved, GiveUpKept
<1> QED BY <1>3, <1>4

(* So does giving up for a full disk. *)
LEMMA OutOfSpaceKept ==
    ASSUME OwnFiles, IInv, Safe, downloadingInfo # Nil, NEW inf, Touched(inf), NEW mq,
           HandleOutOfSpace(inf, mq)
    PROVE  Kept
<1> DEFINE i == downloadingInfo
           inf1 == SetStatus(inf, i, "FailedOutOfSpace")
           failed == AddFailedInfo(failedInfoQueue, inf1, i)
<1>1. Touched(inf1)
  BY SetStatusTouched DEF Statuses
<1>2. GiveUp(OthersWait, failed, Failed(inf1, i, failed), mq)
  BY DEF HandleOutOfSpace, OthersWait
<1> HIDE DEF inf1
<1>3. /\ failed \in Seq(Infos)
      /\ Failed(inf1, i, failed) \in InfoType
      /\ Keeping(OthersWait, doneInfoQueue, failed, Failed(inf1, i, failed))
  BY <1>1, EndKeeps
<1> HIDE DEF failed
<1> QED BY <1>2, <1>3, HeadRemoved, GiveUpKept

(* A save that is reported moves the info under way to the done list or to *)
(* the failed list.                                                        *)
LEMMA DoneOneItemKept ==
    ASSUME OwnFiles, IInv, Safe, NEW status \in {"Done", "FailedNotCompatible"},
           NEW mq, DoneOneItem(status, mq)
    PROVE  Kept
<1> DEFINE i == downloadingInfo
           index == IndexOf(infoQueue, i)
           inf == SetStatus(info, i, status)
<1>1. Touched(inf)
  <2>1. Touched(info)
    BY CurrentType DEF Touched
  <2> QED BY <2>1, SetStatusTouched DEF Statuses
<1>2. CASE index = NotFound \/ index # downloadSaveImageIndex
  <2>1. info' = inf /\ UNCHANGED <<infoQueue, doneInfoQueue, failedInfoQueue>>
    BY <1>2 DEF DoneOneItem, queues
  <2> HIDE DEF inf
  <2> QED BY <1>1, <2>1, TouchedItems, SameKept
<1>3. CASE ~ (index = NotFound \/ index # downloadSaveImageIndex)
  <2> DEFINE incompatible == status = "FailedNotCompatible"
             failed == IF incompatible THEN AddFailedInfo(failedInfoQueue, inf, i)
                       ELSE failedInfoQueue
             done == IF incompatible THEN doneInfoQueue ELSE Append(doneInfoQueue, i)
             inf2 == IF status = "Done" THEN Ended(inf, i) ELSE Failed(inf, i, failed)
  <2>1. i # Nil
    BY <1>3, IndexOfCurrent
  <2>2. /\ failedInfoQueue' = failed
        /\ doneInfoQueue' = done
        /\ ProcessNextRequest(OthersWait, inf2, Uncached(disk, downloadPath), socket, mq)
    BY <1>3 DEF DoneOneItem, OthersWait
  <2> HIDE DEF inf
  <2>3. inf2 \in InfoType /\ Keeping(OthersWait, done, failed, inf2)
    <3>1. CASE incompatible
      <4>1. done = doneInfoQueue /\ inf2 = Failed(inf, i, failed)
            /\ failed = AddFailedInfo(failedInfoQueue, inf, i)
        BY <3>1
      <4> HIDE DEF inf2, done, failed
      <4> QED BY <1>1, <2>1, <4>1, EndKeeps
    <3>2. CASE status = "Done"
      <4>1. inf2 = Ended(inf, i) /\ failed = failedInfoQueue /\ done = Append(doneInfoQueue, i)
        BY <3>2
      <4>2. ToSet(done) = ToSet(doneInfoQueue) \cup {i}
        <5>1. doneInfoQueue \in Seq(Infos)
          BY DEF IInv, TypeOK
        <5> QED BY <2>1, <4>1, <5>1, HeadRemoved, AppendOnce
      <4>3. /\ inf2 \in InfoType
            /\ \A j \in Infos : j # i => inf2[j] = info[j]
        BY <1>1, <2>1, <4>1, HeadRemoved, FailedInfo, CurrentType DEF Touched
      <4>4. inf2[i].item = info[i].item
        <5>1. inf \in InfoType /\ i \in Infos /\ inf[i].item = info[i].item
          BY <1>1, <2>1, HeadRemoved DEF Touched
        <5>2. Ended(inf, i)[i].item = inf[i].item
          BY <5>1 DEF Ended, InfoType, DownloadInfo
        <5> QED BY <4>1, <5>1, <5>2
      <4> HIDE DEF inf2, done, failed
      <4>5. ASSUME NEW k \in Infos, OnList(k)
            PROVE  k \in Placed(OthersWait, done, failed) /\ inf2[k].item = info[k].item
        BY <2>1, <4>1, <4>2, <4>3, <4>4, <4>5, HeadRemoved DEF OnList, Placed
      <4> QED BY <4>3, <4>5 DEF Keeping
    <3> QED BY <3>1, <3>2
  <2> HIDE DEF inf2, done, failed
  <2>4. Keeping(OthersWait, doneInfoQueue', failedInfoQueue', inf2)
    BY <2>2, <2>3
  <2> QED BY <2>1, <2>2, <2>3, <2>4, HeadRemoved, StartKept
<1> QED BY <1>2, <1>3

(* Removing the item at an index takes that info off the lists, and no     *)
(* other.                                                                  *)
LEMMA RemovedKept ==
    ASSUME IInv, Safe, NEW index, RemoveMediaItemAtIndex(index)
    PROVE  /\ index \in Int /\ index + 1 \in DOMAIN infoQueue
           /\ \A i \in Infos : OnList(i) /\ i # infoQueue[index + 1] =>
                 /\ i \in Placed(infoQueue', doneInfoQueue', failedInfoQueue')
                 /\ info'[i].item = info[i].item
<1>1. CASE index = 0 /\ RemoveHead
  <2> DEFINE h == infoQueue[1]
             inf == [info EXCEPT ![h] = Released]
  <2>1. /\ infoQueue # <<>>
        /\ ProcessNextRequest(Tail(infoQueue), inf, Uncached(disk, downloadPath),
                              Disconnected(socket), mainQueue)
        /\ doneInfoQueue' = doneInfoQueue /\ failedInfoQueue' = failedInfoQueue
    BY <1>1 DEF RemoveHead
  <2>2. Tail(infoQueue) \in Seq(Infos) /\ ToSet(Tail(infoQueue)) = ToSet(infoQueue) \ {h}
    BY <2>1, CurrentType, TailOnce DEF Safe, ListsInv, ThreeLists
  <2>3. 1 \in 1 .. Len(infoQueue) /\ DOMAIN infoQueue = 1 .. Len(infoQueue) /\ h \in Infos
    BY <2>1, CurrentType
  <2>4. inf \in InfoType /\ \A j \in Infos : j # h => inf[j] = info[j]
    BY <2>3, CurrentType, ReleasedType DEF InfoType
  <2> HIDE DEF inf, h
  <2>5. infoQueue' = Tail(infoQueue) /\ \A j \in Infos : info'[j].item = inf[j].item
    BY <2>1, <2>2, <2>4, StartItems
  <2>6. \A i \in Infos : OnList(i) /\ i # h =>
            /\ i \in Placed(infoQueue', doneInfoQueue', failedInfoQueue')
            /\ info'[i].item = info[i].item
    BY <2>1, <2>2, <2>4, <2>5 DEF OnList, Placed
  <2>7. index + 1 = 1 /\ index \in Int
    BY <1>1
  <2> QED BY <2>3, <2>6, <2>7 DEF h
<1>2. CASE RemoveWaiting(index)
  <2> DEFINE h == infoQueue[index + 1]
  <2>1. /\ index \in Int /\ index + 1 \in 1 .. Len(infoQueue)
        /\ index \in 0 .. Len(infoQueue) - 1 /\ DOMAIN infoQueue = 1 .. Len(infoQueue)
    BY <1>2, CurrentType DEF RemoveWaiting
  <2>2. infoQueue' = RemoveAt(infoQueue, index + 1) /\ info' = [info EXCEPT ![h] = Released]
        /\ UNCHANGED <<doneInfoQueue, failedInfoQueue>>
    BY <1>2, <2>1 DEF RemoveWaiting, RemoveInfoAt
  <2>3. ToSet(infoQueue') = ToSet(infoQueue) \ {h}
    BY <2>1, <2>2, CurrentType, RemoveAtOnce DEF Safe, ListsInv, ThreeLists
  <2>4. \A j \in Infos : j # h => info'[j] = info[j]
    BY <2>2, CurrentType DEF InfoType
  <2> HIDE DEF h
  <2>5. \A i \in Infos : OnList(i) /\ i # h =>
            /\ i \in Placed(infoQueue', doneInfoQueue', failedInfoQueue')
            /\ info'[i].item = info[i].item
    BY <2>2, <2>3, <2>4 DEF OnList, Placed
  <2> QED BY <2>1, <2>5 DEF h
<1> QED BY <1>1, <1>2 DEF RemoveMediaItemAtIndex

(* An item asked for again gets a new info, and the old one goes. *)
LEMMA RedownloadKept ==
    ASSUME IInv, Safe, NEW index \in 0 .. Len(failedInfoQueue) - 1,
           RedownloadFailedFile(index)
    PROVE  Kept
<1> DEFINE i == AnyOf(Fresh(infoQueue, failedInfoQueue))
           old == failedInfoQueue[index + 1]
           inf == [info EXCEPT ![i] = NewInfo(info[old].item), ![old] = Released]
           q == Append(infoQueue, i)
           failed == RemoveAt(failedInfoQueue, index + 1)
<1>1. i \in Infos /\ i \notin Placed(infoQueue, doneInfoQueue, failedInfoQueue)
  BY CurrentType, FreshUnlisted DEF RedownloadFailedFile, Placed
<1>2. index + 1 \in 1 .. Len(failedInfoQueue)
  BY CurrentType
<1>3. old \in Infos /\ old \in ToSet(failedInfoQueue)
  BY <1>2, CurrentType, InToSet
<1>4. ToSet(failed) = ToSet(failedInfoQueue) \ {old}
  BY <1>2, CurrentType, RemoveAtOnce DEF Safe, ListsInv, ThreeLists
<1>5. /\ failedInfoQueue' = failed /\ doneInfoQueue' = doneInfoQueue
      /\ \/ ProcessNextRequest(q, inf, disk, socket, mainQueue)
         \/ infoQueue' = q /\ info' = inf
  BY DEF RedownloadFailedFile
<1> HIDE DEF i, old
<1>6. old # i
  BY <1>1, <1>3 DEF Placed
<1>7. info[old].item \in Items
  BY <1>3 DEF Safe, ListsInv, Named
<1>8. /\ inf[i] = NewInfo(info[old].item)
      /\ \A j \in Infos : j # i /\ j # old => inf[j] = info[j]
  BY <1>1, <1>3, <1>6, CurrentType DEF InfoType
<1>9. inf \in InfoType
  <2>1. NewInfo(info[old].item) \in DownloadInfo
    BY <1>7, NewInfoType
  <2> QED BY <1>1, <1>3, <2>1, CurrentType, ReleasedType DEF InfoType
<1>10. q \in Seq(Infos) /\ ToSet(q) = ToSet(infoQueue) \cup {i}
  BY <1>1, CurrentType, AppendProperties, AppendOnce
<1> HIDE DEF inf, q, failed
<1>11. inf[i].item = info[old].item
  BY <1>8, NewInfoItem
<1>12. ASSUME NEW k \in Infos, OnList(k)
       PROVE  \E j \in Infos : j \in Placed(q, doneInfoQueue, failed) /\ inf[j].item = info[k].item
  <2>1. CASE k = old
    BY <1>1, <1>10, <1>11, <2>1 DEF Placed
  <2>2. CASE k # old
    <3>1. k \in Placed(q, doneInfoQueue, failed) /\ k # i
      BY <1>1, <1>4, <1>10, <1>12, <2>2 DEF OnList, Placed
    <3> QED BY <1>8, <2>2, <3>1
  <2> QED BY <2>1, <2>2
<1>13. Keeping(q, doneInfoQueue', failedInfoQueue', inf)
  BY <1>5, <1>12 DEF Keeping
<1>14. CASE ProcessNextRequest(q, inf, disk, socket, mainQueue)
  BY <1>9, <1>10, <1>13, <1>14, StartKept
<1>15. CASE infoQueue' = q /\ info' = inf
  BY <1>13, <1>15 DEF Kept
<1> QED BY <1>5, <1>14, <1>15

(* Every call of the client keeps every item listed, but a removal and a   *)
(* new launch.                                                             *)
LEMMA ClientKept ==
    ASSUME IInv, Safe, ClientStep
    PROVE  Kept \/ Terminated \/ \E index : RemoveMediaItemAtIndex(index)
<1>1. ASSUME NEW it \in Items, AddMediaItem(it) PROVE Kept
  <2> DEFINE i == AnyOf(Fresh(infoQueue, failedInfoQueue))
  <2>1. i \in Infos /\ i \notin Placed(infoQueue, doneInfoQueue, failedInfoQueue)
    BY <1>1, CurrentType, FreshUnlisted DEF AddMediaItem, Placed
  <2>2. /\ infoQueue' = Append(infoQueue, i) /\ info' = [info EXCEPT ![i] = NewInfo(it)]
        /\ UNCHANGED <<doneInfoQueue, failedInfoQueue>>
    BY <1>1 DEF AddMediaItem
  <2> HIDE DEF i
  <2>3. ToSet(infoQueue') = ToSet(infoQueue) \cup {i}
    BY <2>1, <2>2, CurrentType, AppendOnce
  <2>4. \A j \in Infos : j # i => info'[j] = info[j]
    BY <2>2, CurrentType DEF InfoType
  <2>5. ASSUME NEW k \in Infos, OnList(k)
        PROVE  /\ k \in Placed(infoQueue', doneInfoQueue', failedInfoQueue')
               /\ info'[k].item = info[k].item
    BY <2>1, <2>2, <2>3, <2>4, <2>5 DEF OnList, Placed
  <2> QED BY <2>5 DEF Kept, Keeping
<1>2. CASE Resume
  <2>1. doneInfoQueue' = doneInfoQueue /\ failedInfoQueue' = failedInfoQueue
    BY <1>2 DEF Resume
  <2>2. CASE downloadingInfo = Nil
    <3>1. ProcessNextRequest(infoQueue, info, disk, socket, mainQueue)
      BY <1>2, <2>2 DEF Resume
    <3>2. Keeping(infoQueue, doneInfoQueue', failedInfoQueue', info)
      BY <2>1 DEF Keeping, OnList
    <3> QED BY <3>1, <3>2, CurrentType, StartKept
  <2>3. CASE downloadingInfo # Nil
    <3>1. DownloadWithInfo(downloadingInfo, info, disk, socket, mainQueue) /\ infoQueue' = infoQueue
      BY <1>2, <2>3 DEF Resume
    <3>2. info' = info \/ info' = [info EXCEPT ![downloadingInfo].status = "Downloading"]
      BY <3>1 DEF DownloadWithInfo
    <3>3. ASSUME NEW i \in Infos PROVE info'[i].item = info[i].item
      <4>1. info \in [Infos -> DownloadInfo] /\ info[i] \in DownloadInfo
        BY CurrentType DEF InfoType
      <4>2. [info[i] EXCEPT !.status = "Downloading"].item = info[i].item
        BY <4>1 DEF DownloadInfo
      <4>3. info'[i] \in {info[i], [info[i] EXCEPT !.status = "Downloading"]}
        BY <3>2, <4>1
      <4> QED BY <4>2, <4>3
    <3> QED BY <2>1, <3>1, <3>3, SameKept
  <2> QED BY <2>2, <2>3
<1>3. CASE Pause
  BY <1>3, SameKept DEF Pause, queues
<1> QED BY <1>1, <1>2, <1>3, RedownloadKept DEF ClientStep, Relaunch

(* So does every block of the main queue, but one that ends the process. *)
LEMMA MainKept ==
    ASSUME OwnFiles, IInv, Safe, MainStep
    PROVE  Kept \/ Terminated
<1>0. Touched(info)
  BY CurrentType DEF Touched
<1>1. CASE DidWriteData \/ DidReadFromReplacedSocket
  BY <1>1, SameKept DEF DidWriteData, DidReadFromReplacedSocket, Ignored, queues
<1>2. CASE ShouldTimeout \/ SocketDidDisconnect
  <2>1. HandleDownloadVideoFailed(info, Rest)
    BY <1>2 DEF ShouldTimeout, SocketDidDisconnect
  <2> QED BY <1>0, <2>1, VideoFailedKept
<1>3. CASE OutOfSpace
  BY <1>0, <1>3, OutOfSpaceKept DEF OutOfSpace
<1>4. CASE FailedSave \/ DoneSave
  BY <1>4, DoneOneItemKept DEF FailedSave, DoneSave
<1>5. CASE DidReadHeader
  <2> DEFINE i == downloadingInfo
             inf == IF i # Nil /\ info[i].len = 0
                    THEN [info EXCEPT ![i].len = Head(mainQueue).n] ELSE info
  <2>1. Touched(inf) /\ (i = Nil => inf = info)
    <3>1. Head(mainQueue).n \in Nat
      BY <1>5, HeadOfMainQueue DEF DidReadHeader, Runs
    <3>2. CASE i # Nil /\ info[i].len = 0
      <4>1. i \in Infos /\ inf = [info EXCEPT ![i].len = Head(mainQueue).n]
        BY <3>2, CurrentType
      <4> HIDE DEF inf
      <4> QED BY <3>1, <3>2, <4>1, CurrentType DEF Touched, InfoType, DownloadInfo
    <3>3. CASE ~ (i # Nil /\ info[i].len = 0)
      <4>1. inf = info
        BY <3>3
      <4> HIDE DEF inf
      <4> QED BY <1>0, <4>1
    <3> QED BY <3>2, <3>3
  <2>2. \/ info' = inf /\ UNCHANGED queues
        \/ Terminated
        \/ i # Nil /\ HandleOutOfSpace(inf, Rest)
        \/ HandleDownloadVideoFailed(inf, Rest)
    BY <1>5 DEF DidReadHeader
  <2> HIDE DEF inf
  <2>3. CASE info' = inf /\ UNCHANGED queues
    BY <2>1, <2>3, TouchedItems, SameKept DEF queues
  <2> QED BY <2>1, <2>2, <2>3, OutOfSpaceKept, VideoFailedKept
<1>6. CASE DidReadBody
  <2> DEFINE i == downloadingInfo
             n == Head(mainQueue).n
             inf == IF i = Nil THEN info ELSE [info EXCEPT ![i].got = info[i].got + n]
  <2>1. Touched(inf) /\ (i = Nil => inf = info)
    <3>1. n \in Nat
      BY <1>6, HeadOfMainQueue DEF DidReadBody, Runs
    <3>2. CASE i # Nil
      <4>1. i \in Infos /\ inf = [info EXCEPT ![i].got = info[i].got + n]
        BY <3>2, CurrentType
      <4>2. info[i].got + n \in Nat
        BY <3>1, <4>1, CurrentType DEF InfoType, DownloadInfo
      <4> HIDE DEF inf, n
      <4> QED BY <3>2, <4>1, <4>2, CurrentType DEF Touched, InfoType, DownloadInfo
    <3>3. CASE i = Nil
      BY <1>0, <3>3
    <3> QED BY <3>2, <3>3
  <2>2. CASE ChunkTooMuch
    <3>1. HandleDownloadVideoFailed(inf, Rest)
      BY <2>2 DEF ChunkTooMuch
    <3> HIDE DEF inf
    <3> QED BY <2>1, <3>1, VideoFailedKept
  <2>3. CASE ChunkRead
    <3>1. /\ info' = inf \/ info' = SetStatus(inf, i, "Saving")
          /\ UNCHANGED queues
      BY <2>3 DEF ChunkRead, SetStatus
    <3> HIDE DEF inf
    <3>2. Touched(info')
      BY <2>1, <3>1, SetStatusTouched DEF Statuses
    <3> QED BY <3>1, <3>2, TouchedItems, SameKept DEF queues
  <2> QED BY <1>6, <2>2, <2>3, DidReadBodyParts
<1> QED BY <1>1, <1>2, <1>3, <1>4, <1>5, <1>6 DEF MainStep

(* An item that was asked for stays on a list until the client removes it  *)
(* or the process ends: no failure path, no late block and no save         *)
(* reported for another item loses it, when no two items of the camera     *)
(* have files of the same name (addFailedInfo refuses the second one of a  *)
(* name; handleDownloadVideoFailed, handleOutOfSpace, doneOneItem).        *)
THEOREM NothingVanishes == OwnFiles => (Spec => NoItemVanishes)
<1> SUFFICES ASSUME OwnFiles PROVE Spec => NoItemVanishes
  OBVIOUS
<1> DEFINE Gone(it) == \E index \in DOMAIN infoQueue :
                          /\ info[infoQueue[index]].item = it
                          /\ RemoveMediaItemAtIndex(index - 1)
           P == \A it \in Items : Listed(it) =>
                   \/ Listed(it)'
                   \/ Terminated
                   \/ Gone(it)
<1>1. IInv /\ IInv' /\ Safe /\ [Next]_vars => [P]_vars
  <2> SUFFICES ASSUME IInv, IInv', Safe, Next PROVE P
    BY DEF vars
  <2>1. CASE Kept
    BY <2>1, KeptListed
  <2>2. CASE Terminated
    BY <2>2
  <2>3. ASSUME NEW index, RemoveMediaItemAtIndex(index)
        PROVE  P
    <3>1. SUFFICES ASSUME NEW it \in Items, Listed(it)
                   PROVE  Listed(it)' \/ Gone(it)
      OBVIOUS
    <3>2. index \in Int /\ index + 1 \in DOMAIN infoQueue
      BY <2>3, RemovedKept
    <3>3. PICK i \in Infos : OnList(i) /\ info[i].item = it
      BY <3>1, ListedByInfo
    <3>4. CASE i = infoQueue[index + 1]
      <4>1. (index + 1) - 1 = index
        BY <3>2
      <4>2. RemoveMediaItemAtIndex((index + 1) - 1)
        BY <2>3, <4>1
      <4> QED BY <3>2, <3>3, <3>4, <4>2
    <3>5. CASE i # infoQueue[index + 1]
      <4>1. /\ i \in Placed(infoQueue', doneInfoQueue', failedInfoQueue')
            /\ info'[i].item = it
        BY <2>3, <3>3, <3>5, RemovedKept
      <4> QED BY <4>1, ListedAgain
    <3> QED BY <3>4, <3>5
  <2>4. CASE SocketStep \/ SocketCloses
    BY <2>1, <2>4, SameKept DEF SocketStep, SocketWrites, SocketReadsHeader, SocketReadsBody,
                      SocketTimesOut, SocketCloses, Post, queues
  <2>5. CASE SaveStep
    BY <2>1, <2>5, SameKept DEF SaveStep, SaveHandler, queues
  <2> QED BY <2>1, <2>2, <2>3, <2>4, <2>5, ClientKept, MainKept DEF Next
<1>2. NoItemVanishes <=> [][P]_vars
  BY DEF NoItemVanishes
<1>3. Spec => [](IInv /\ Safe) /\ [][Next]_vars
  BY SafeAlways DEF Spec
<1> HIDE DEF P
<1> QED BY <1>1, <1>2, <1>3, PTL
=============================================================================
