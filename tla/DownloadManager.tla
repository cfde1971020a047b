--------------------------- MODULE DownloadManager ---------------------------
(***************************************************************************)
(* DownloadManager.m: the download queue of the camera album.              *)
(*                                                                         *)
(* One file is downloaded at a time over a GCDAsyncSocket, cached on disk, *)
(* handed to the photo library and removed.  Everything runs on the main   *)
(* thread except the handler of the photo library.  The socket and the     *)
(* handler talk to the manager by blocks queued on the main queue, so a    *)
(* block may run long after the state it was posted for is gone: after a   *)
(* pause, a cancel, or the failure of the download it belongs to.          *)
(*                                                                         *)
(* One action is one public method called on the main thread, one block    *)
(* taken from the main queue with the whole handler it runs, one step of   *)
(* the socket, or one call of the photo library's handler.                 *)
(***************************************************************************)
EXTENDS Integers, Sequences, SequencesExt, FiniteSets

CONSTANTS
    Items,      \* camera media items: records [folder, file]
    Size,       \* chunks in each remote file
    MaxInfos,   \* bound: DownloadInfo objects alive at one time
    MaxBlocks,  \* bound: blocks waiting on the main queue
    ReAdd,      \* the item, if any, the delegate adds again from failedDownload:
    Faults      \* what the environment may do, a subset of FaultKinds

FaultKinds ==
    { "pause",       \* the application leaves the foreground
      "cancel",      \* the client calls removeMediaItemAtIndex:
      "close",       \* the server refuses or closes a connection
      "twice",       \* the photo library calls its handler twice
      "diskfull" }   \* no space for a new file or for the announced length

ASSUME ItemsAssumption == Items \subseteq [folder : STRING, file : STRING]
ASSUME SizeAssumption == Size \in Nat \ {0}
ASSUME BoundsAssumption == MaxInfos \in Nat \ {0} /\ MaxBlocks \in Nat \ {0}
ASSUME ReAddAssumption == ReAdd \subseteq Items /\ \A a, b \in ReAdd : a = b
ASSUME FaultsAssumption == Faults \subseteq FaultKinds

Nil == 0                \* no DownloadInfo
NotFound == -1          \* NSNotFound
Absent == -1            \* no file of that name in the cache folder
NoFile == "no file"     \* no path, no file handle

Infos == 1 .. MaxInfos
Savers == Infos \cup {Nil}  \* a save may also be begun when nothing is downloaded
Files == {it.file : it \in Items}
ASSUME FilesAssumption == NoFile \notin Files

Statuses == { "Waiting", "Downloading", "Saving", "Done",
              "FailedOutOfSpace", "FailedNotCompatible", "FailedNetwork" }
NoItem == [folder |-> "no folder", file |-> NoFile]
DownloadInfo == [ item : Items \cup {NoItem}, got : Nat, len : Nat,
                  status : Statuses ]
Released == [item |-> NoItem, got |-> 0, len |-> 0, status |-> "Waiting"]

(* What a socket is doing: "idle" has no read outstanding, "timeout" waits *)
(* for the delegate's answer to shouldTimeout.                             *)
SocketStates == { "none", "connecting", "idle", "header", "body", "timeout",
                  "closed" }
BlockKinds == { "didWrite", "didReadHeader", "didReadBody", "shouldTimeout",
                "didDisconnect", "outOfSpace", "failedSave", "doneSave" }
(* live: the block comes from self.socket and not from a socket replaced   *)
(* since.  info is a history variable: the DownloadInfo whose save the     *)
(* block reports.  No handler reads it.                                    *)
Block == [ kind : BlockKinds, n : Nat, live : BOOLEAN,
           info : Savers ]

VARIABLES
    infoQueue,            \* waiting and running infos, head runs
    doneInfoQueue,        \* infos saved to the photo library
    failedInfoQueue,      \* infos given up
    info,                 \* the DownloadInfo objects
    downloadingInfo,      \* the info being downloaded, or Nil
    downloadPath,         \* the cached file of the last download started
    currentFileHanle,     \* the file the open handle writes to, or NoFile
    paused,
    downloadSaveImageIndex,
    disk,                 \* chunks in each cached file, or Absent
    socket,               \* self.socket
    mainQueue,            \* blocks dispatched to the main queue, FIFO
    saves                 \* calls the photo library still owes to each save

queues == <<infoQueue, doneInfoQueue, failedInfoQueue>>
vars == <<infoQueue, doneInfoQueue, failedInfoQueue, info, downloadingInfo,
          downloadPath, currentFileHanle, paused, downloadSaveImageIndex,
          disk, socket, mainQueue, saves>>

TypeOK ==
    /\ infoQueue \in Seq(Infos)
    /\ doneInfoQueue \in Seq(Infos)
    /\ failedInfoQueue \in Seq(Infos)
    /\ info \in [Infos -> DownloadInfo]
    /\ downloadingInfo \in Infos \cup {Nil}
    /\ downloadPath \in Files \cup {NoFile}
    /\ currentFileHanle \in Files \cup {NoFile}
    /\ paused \in BOOLEAN
    /\ downloadSaveImageIndex \in Nat \cup {NotFound}
    /\ disk \in [Files -> Nat \cup {Absent}]
    /\ socket \in [ state : SocketStates, delegate : BOOLEAN,
                    from : Nat, left : Nat ]
    /\ mainQueue \in Seq(Block)
    /\ saves \in [Savers -> 0 .. 2]

-----------------------------------------------------------------------------
(* Objects and lists.                                                      *)

NoSocket == [state |-> "none", delegate |-> FALSE, from |-> 0, left |-> 0]

(* The singleton's init: the queues live in memory only, the cache folder  *)
(* is emptied.                                                             *)
Init ==
    /\ infoQueue = <<>> /\ doneInfoQueue = <<>> /\ failedInfoQueue = <<>>
    /\ info = [i \in Infos |-> Released]
    /\ downloadingInfo = Nil
    /\ downloadPath = NoFile
    /\ currentFileHanle = NoFile
    /\ paused = FALSE
    /\ downloadSaveImageIndex = 0
    /\ disk = [f \in Files |-> Absent]
    /\ socket = NoSocket
    /\ mainQueue = <<>>
    /\ saves = [i \in Savers |-> 0]

(* indexOfObject: infos are compared by identity, indices start at 0.      *)
IndexOf(queue, i) ==
    IF \E k \in DOMAIN queue : queue[k] = i
    THEN (CHOOSE k \in DOMAIN queue :
             queue[k] = i /\ \A j \in DOMAIN queue : queue[j] = i => k <= j) - 1
    ELSE NotFound

(* removeInfoAtIndex: an index past the end, or NSNotFound, does nothing.  *)
RemoveInfoAt(queue, index) ==
    IF index \in 0 .. Len(queue) - 1 THEN RemoveAt(queue, index + 1) ELSE queue

(* addFailedInfo: one entry per file name, the first one stays.            *)
HasFile(queue, inf, file) ==
    \E k \in DOMAIN queue : inf[queue[k]].item.file = file
AddFailedInfoLatest(failed, inf, i) == <<i>>    \* mutant: keeps the last only
AddFailedInfo(failed, inf, i) ==
    IF HasFile(failed, inf, inf[i].item.file) THEN failed ELSE Append(failed, i)

(* Infos that no list, callback or property refers to: a new DownloadInfo  *)
(* takes one of them.                                                *)
Fresh(queue, failed) ==
    { i \in Infos : /\ \A k \in DOMAIN queue : queue[k] # i
                    /\ \A k \in DOMAIN failed : failed[k] # i
                    /\ \A k \in DOMAIN doneInfoQueue : doneInfoQueue[k] # i
                    /\ i # downloadingInfo
                    /\ saves[i] = 0
                    /\ \A k \in DOMAIN mainQueue : mainQueue[k].info # i }
AnyOf(S) == CHOOSE i \in S : TRUE
NewInfoUnknownProgress(it) ==       \* mutant: got starts at -1
    [item |-> it, got |-> -1, len |-> 0, status |-> "Waiting"]
NewInfo(it) == [item |-> it, got |-> 0, len |-> 0, status |-> "Waiting"]

(* addMediaItem: the duplicate check looks at infoQueue only.              *)
Queued(queue, inf, it) == \E k \in DOMAIN queue : inf[queue[k]].item = it

-----------------------------------------------------------------------------
(* Starting a download.  The operators take the values the caller has      *)
(* already computed: the queue q, the objects inf, the disk dk, the socket *)
(* s and the main queue mq.                                                *)

(* safeDisconnectSocket: the delegate goes first, so the socket posts      *)
(* nothing from here on; blocks already queued still run.                  *)
Disconnected(s) ==
    IF s.state = "none" THEN s ELSE [NoSocket EXCEPT !.state = "closed"]

(* removeCachedFile *)
UncachedNothing(dk, path) == dk     \* mutant: the cached file stays
Uncached(dk, path) ==
    [f \in Files |-> IF f = path THEN Absent ELSE dk[f]]

(* Blocks of the socket that is being replaced are no longer self.socket's. *)
Replaced(mq) == [k \in DOMAIN mq |-> [mq[k] EXCEPT !.live = FALSE]]

Posted(kind, n, live, i) == [kind |-> kind, n |-> n, live |-> live, info |-> i]

DownloadWithInfo(i, inf, dk, s, mq) ==
    LET path == inf[i].item.file IN
    /\ downloadingInfo' = i
    /\ \/ \* the file exists or can be created: connect and send the request
          /\ downloadPath' = path
          /\ info' = [inf EXCEPT ![i].status = "Downloading"]
          /\ disk' = IF dk[path] = Absent THEN [dk EXCEPT ![path] = 0] ELSE dk
          /\ socket' = [state |-> "connecting", delegate |-> TRUE,
                        from |-> inf[i].got, left |-> 0]
          /\ mainQueue' = Replaced(mq)
       \/ \* createFileAtPath fails
          /\ "diskfull" \in Faults
          /\ dk[path] = Absent
          /\ Len(mq) < MaxBlocks
          /\ mainQueue' = Append(mq, Posted("outOfSpace", 0, FALSE, Nil))
          /\ info' = inf /\ disk' = dk /\ socket' = s
          /\ UNCHANGED downloadPath

ProcessNextRequestOldHandle(q, inf, dk, s, mq) ==   \* mutant: bug 1019
    /\ infoQueue' = q
    /\ UNCHANGED currentFileHanle
    /\ IF paused' \/ q = <<>>
       THEN /\ downloadingInfo' = Nil
            /\ info' = inf /\ disk' = dk /\ socket' = s /\ mainQueue' = mq
            /\ UNCHANGED downloadPath
       ELSE DownloadWithInfo(q[1], inf, dk, s, mq)
ProcessNextRequest(q, inf, dk, s, mq) ==
    /\ infoQueue' = q
    /\ currentFileHanle' = NoFile
    /\ IF paused' \/ q = <<>>
       THEN /\ downloadingInfo' = Nil
            /\ info' = inf /\ disk' = dk /\ socket' = s /\ mainQueue' = mq
            /\ UNCHANGED downloadPath
       ELSE DownloadWithInfo(q[1], inf, dk, s, mq)

-----------------------------------------------------------------------------
(* How a download ends.                                                    *)

SetStatus(inf, i, status) ==
    IF i = Nil THEN inf ELSE [inf EXCEPT ![i].status = status]

(* Of an info that left the queue for the failed list, or for the done     *)
(* list, the manager reads nothing but the item from here on.  An info     *)
(* that addFailedInfo refused is released.                                 *)
Ended(inf, i) == [inf EXCEPT ![i].got = 0, ![i].len = 0]
Failed(inf, i, failed) ==
    IF i = Nil THEN inf
    ELSE IF \E k \in DOMAIN failed : failed[k] = i THEN Ended(inf, i)
    ELSE [inf EXCEPT ![i] = Released]

(* The common end of a failed download: the delegate is told, and while    *)
(* told adds the ReAdd items again; the cached file goes, the socket is    *)
(* closed and the next request starts.  Bound: with all MaxInfos infos in  *)
(* use the delegate adds none.                                             *)
GiveUp(q, failed, inf, mq) ==
    LET missing == {it \in ReAdd : ~Queued(q, inf, it)} IN
    /\ failedInfoQueue' = failed
    /\ \/ /\ missing = {} \/ Fresh(q, failed) = {}
          /\ ProcessNextRequest(q, inf, Uncached(disk, downloadPath),
                                Disconnected(socket), mq)
       \/ /\ Fresh(q, failed) # {}
          /\ \E it \in missing :
                LET i == AnyOf(Fresh(q, failed)) IN
                ProcessNextRequest(Append(q, i),
                                   [inf EXCEPT ![i] = NewInfo(it)],
                                   Uncached(disk, downloadPath),
                                   Disconnected(socket), mq)
    /\ UNCHANGED <<doneInfoQueue, saves>>

HandleDownloadVideoFailed(inf, mq) ==
    LET i == downloadingInfo
        index == IndexOf(infoQueue, i)
        inf1 == SetStatus(inf, i, "FailedNetwork")
        failed == IF index = NotFound THEN failedInfoQueue
                  ELSE AddFailedInfo(failedInfoQueue, inf1, i)
    IN GiveUp(RemoveInfoAt(infoQueue, index), failed,
              Failed(inf1, i, failed), mq)

(* addObject:nil raises when nothing is being downloaded.  The process     *)
(* ends and the next launch starts from init.                              *)
Terminated ==
    /\ infoQueue' = <<>> /\ doneInfoQueue' = <<>> /\ failedInfoQueue' = <<>>
    /\ info' = [i \in Infos |-> Released]
    /\ downloadingInfo' = Nil
    /\ downloadPath' = NoFile
    /\ currentFileHanle' = NoFile
    /\ paused' = FALSE
    /\ downloadSaveImageIndex' = 0
    /\ disk' = [f \in Files |-> Absent]
    /\ socket' = NoSocket
    /\ mainQueue' = <<>>
    /\ saves' = [i \in Savers |-> 0]

HandleOutOfSpace(inf, mq) ==
    LET i == downloadingInfo
        inf1 == SetStatus(inf, i, "FailedOutOfSpace")
        failed == AddFailedInfo(failedInfoQueue, inf1, i)
    IN GiveUp(RemoveInfoAt(infoQueue, IndexOf(infoQueue, i)), failed,
              Failed(inf1, i, failed), mq)

(* doneOneItem, for the info that is current when the block runs *)
DoneOneItem(status, mq) ==
    LET i == downloadingInfo
        index == IndexOf(infoQueue, i)
        inf == SetStatus(info, i, status)
    IN IF index = NotFound \/ index # downloadSaveImageIndex
       THEN /\ info' = inf
            /\ currentFileHanle' = NoFile
            /\ mainQueue' = mq
            /\ UNCHANGED <<queues, downloadingInfo, downloadPath, disk,
                           socket, saves>>
       ELSE LET failed == IF status = "FailedNotCompatible"
                          THEN AddFailedInfo(failedInfoQueue, inf, i)
                          ELSE failedInfoQueue
                done == IF status = "FailedNotCompatible"
                        THEN doneInfoQueue ELSE Append(doneInfoQueue, i)
            IN /\ failedInfoQueue' = failed
               /\ doneInfoQueue' = done
               /\ ProcessNextRequest(
                      RemoveInfoAt(infoQueue, index),
                      IF status = "Done" THEN Ended(inf, i)
                      ELSE Failed(inf, i, failed),
                      Uncached(disk, downloadPath), socket, mq)
               /\ UNCHANGED saves

-----------------------------------------------------------------------------
(* Public methods, called on the main thread between two blocks.           *)

AddMediaItem(it) ==
    /\ ~Queued(infoQueue, info, it)
    /\ Fresh(infoQueue, failedInfoQueue) # {}
    /\ LET i == AnyOf(Fresh(infoQueue, failedInfoQueue)) IN
       /\ infoQueue' = Append(infoQueue, i)
       /\ info' = [info EXCEPT ![i] = NewInfo(it)]
    /\ UNCHANGED <<doneInfoQueue, failedInfoQueue, downloadingInfo,
                   downloadPath, currentFileHanle, paused,
                   downloadSaveImageIndex, disk, socket, mainQueue, saves>>

RemoveHeadOnly ==                   \* mutant: the next request is not started
    /\ infoQueue # <<>>
    /\ infoQueue' = Tail(infoQueue)
    /\ info' = [info EXCEPT ![infoQueue[1]] = Released]
    /\ disk' = Uncached(disk, downloadPath)
    /\ socket' = Disconnected(socket)
    /\ UNCHANGED <<doneInfoQueue, failedInfoQueue, downloadingInfo,
                   downloadPath, currentFileHanle, paused,
                   downloadSaveImageIndex, mainQueue, saves>>

(* Removing the head cancels the download under way. *)
RemoveHead ==
    /\ infoQueue # <<>>
    /\ UNCHANGED paused
    /\ ProcessNextRequest(Tail(infoQueue),
                          [info EXCEPT ![infoQueue[1]] = Released],
                          Uncached(disk, downloadPath),
                          Disconnected(socket), mainQueue)
    /\ UNCHANGED <<doneInfoQueue, failedInfoQueue, downloadSaveImageIndex,
                   saves>>

RemoveWaiting(index) ==
    /\ index \in 1 .. Len(infoQueue) - 1
    /\ infoQueue' = RemoveInfoAt(infoQueue, index)
    /\ info' = [info EXCEPT ![infoQueue[index + 1]] = Released]
    /\ UNCHANGED <<doneInfoQueue, failedInfoQueue, downloadingInfo,
                   downloadPath, currentFileHanle, paused,
                   downloadSaveImageIndex, disk, socket, mainQueue, saves>>

RemoveMediaItemAtIndex(index) ==
    /\ "cancel" \in Faults
    /\ \/ index = 0 /\ RemoveHead
       \/ RemoveWaiting(index)

(* resume: start the queue, go on with an interrupted download, or nothing *)
Resume ==
    /\ downloadingInfo = Nil \/ paused
    /\ paused' = FALSE
    /\ IF downloadingInfo = Nil
       THEN ProcessNextRequest(infoQueue, info, disk, socket, mainQueue)
       ELSE /\ DownloadWithInfo(downloadingInfo, info, disk, socket, mainQueue)
            /\ UNCHANGED <<infoQueue, currentFileHanle>>
    /\ UNCHANGED <<doneInfoQueue, failedInfoQueue, downloadSaveImageIndex,
                   saves>>

Pause ==
    /\ "pause" \in Faults
    /\ paused' = TRUE
    /\ socket' = Disconnected(socket)
    /\ UNCHANGED <<queues, info, downloadingInfo, downloadPath,
                   currentFileHanle, downloadSaveImageIndex, disk, mainQueue,
                   saves>>

(* mutants: the failed info itself goes back to the queue and stays listed *)
(* as failed; the queue is restarted whatever its length.                  *)
RedownloadSameInfo(index) ==
    /\ infoQueue' = Append(infoQueue, failedInfoQueue[index + 1])
    /\ UNCHANGED <<doneInfoQueue, failedInfoQueue, info, downloadingInfo,
                   downloadPath, currentFileHanle, paused,
                   downloadSaveImageIndex, disk, socket, mainQueue, saves>>

(* The table shows infoQueue, then failedInfoQueue.  The info queued is a  *)
(* new one, without the duplicate check of addMediaItem:.                  *)
RedownloadFailedFile(index) ==
    LET failed == RemoveAt(failedInfoQueue, index + 1)
        old == failedInfoQueue[index + 1]
        i == AnyOf(Fresh(infoQueue, failedInfoQueue))
        inf == [info EXCEPT ![i] = NewInfo(info[old].item), ![old] = Released]
        q == Append(infoQueue, i)
    IN /\ Fresh(infoQueue, failedInfoQueue) # {}
       /\ failedInfoQueue' = failed
       /\ UNCHANGED <<doneInfoQueue, paused, downloadSaveImageIndex, saves>>
       /\ IF Len(q) = 1
          THEN ProcessNextRequest(q, inf, disk, socket, mainQueue)
          ELSE /\ infoQueue' = q
               /\ info' = inf
               /\ UNCHANGED <<downloadingInfo, downloadPath, currentFileHanle,
                              disk, socket, mainQueue>>

(* The process is killed at any time and launched again. *)
Relaunch == Terminated

-----------------------------------------------------------------------------
(* GCDAsyncSocket.  It posts to the delegate it has at that moment; the    *)
(* server answers the Range request with the chunks that are left, or with *)
(* an answer that has no body.                                             *)

Post(kind, n) ==
    /\ socket.delegate
    /\ Len(mainQueue) < MaxBlocks
    /\ mainQueue' = Append(mainQueue, Posted(kind, n, TRUE, Nil))
    /\ UNCHANGED <<queues, info, downloadingInfo, downloadPath,
                   currentFileHanle, paused, downloadSaveImageIndex, disk,
                   saves>>

SocketWrites ==
    /\ socket.state = "connecting"
    /\ socket' = [socket EXCEPT !.state = "idle"]
    /\ Post("didWrite", 0)

SocketReadsHeader(contentLength) ==
    /\ socket.state = "header"
    /\ socket' = [socket EXCEPT !.state = "idle", !.left = contentLength]
    /\ Post("didReadHeader", contentLength)

SocketReadsBody(n) ==
    /\ socket.state = "body"
    /\ n <= socket.left
    /\ socket' = [socket EXCEPT !.state = "idle", !.left = @ - n]
    /\ Post("didReadBody", n)

SocketTimesOut ==
    /\ socket.state \in {"connecting", "header", "body"}
    /\ socket' = [socket EXCEPT !.state = "timeout"]
    /\ Post("shouldTimeout", 0)

SocketCloses ==
    /\ "close" \in Faults
    /\ socket.state \notin {"none", "closed"}
    /\ socket' = [socket EXCEPT !.state = "closed"]
    /\ Post("didDisconnect", 0)

SocketStep ==
    \/ SocketWrites
    \/ \E n \in {0, IF socket.from < Size THEN Size - socket.from ELSE 0} :
          SocketReadsHeader(n)
    \/ \E n \in 1 .. Size : SocketReadsBody(n)
    \/ SocketTimesOut

-----------------------------------------------------------------------------
(* Blocks of the main queue: the delegate callbacks of the socket, and the *)
(* manager's own dispatch_async.                                           *)

Runs(kind) ==
    /\ mainQueue # <<>>
    /\ Head(mainQueue).kind = kind
Rest == Tail(mainQueue)

(* A block of a socket that was replaced, or a write reported late, finds  *)
(* a socket that reads nothing.                                            *)
Ignored ==
    /\ mainQueue' = Rest
    /\ UNCHANGED <<queues, info, downloadingInfo, downloadPath,
                   currentFileHanle, paused, downloadSaveImageIndex, disk,
                   socket, saves>>

(* readDataWithTimeout on self.socket *)
Reading(what) ==
    IF socket.state = "idle" THEN [socket EXCEPT !.state = what] ELSE socket

DidWriteData ==
    /\ Runs("didWrite")
    /\ socket' = IF Head(mainQueue).live THEN Reading("header") ELSE socket
    /\ mainQueue' = Rest
    /\ UNCHANGED <<queues, info, downloadingInfo, downloadPath,
                   currentFileHanle, paused, downloadSaveImageIndex, disk,
                   saves>>

DidReadHeader ==
    LET contentLength == Head(mainQueue).n
        i == downloadingInfo
        inf == IF i # Nil /\ info[i].len = 0
               THEN [info EXCEPT ![i].len = contentLength] ELSE info
    IN /\ Runs("didReadHeader")
       /\ Head(mainQueue).live
       /\ \/ /\ contentLength > 0
             /\ downloadSaveImageIndex' = IndexOf(infoQueue, i)
             /\ info' = inf
             /\ socket' = Reading("body")
             /\ mainQueue' = Rest
             /\ UNCHANGED <<queues, downloadingInfo, downloadPath,
                            currentFileHanle, paused, disk, saves>>
          \/ /\ contentLength > 0
             /\ "diskfull" \in Faults
             /\ IF i = Nil THEN Terminated
                ELSE /\ downloadSaveImageIndex' = IndexOf(infoQueue, i)
                     /\ UNCHANGED paused
                     /\ HandleOutOfSpace(inf, Rest)
          \/ /\ contentLength = 0
             /\ downloadSaveImageIndex' = IndexOf(infoQueue, i)
             /\ UNCHANGED paused
             /\ HandleDownloadVideoFailed(inf, Rest)

(* The chunk is counted, then written through the handle, which is opened  *)
(* at the end of downloadPath when there is none.  Messages to a nil       *)
(* downloadingInfo read 0, and 0 bytes of 0 are the whole file: a save is  *)
(* begun.  Bound: one call at a time is owed to those saves.               *)
DidReadBody ==
    LET i == downloadingInfo
        n == Head(mainQueue).n
        got == IF i = Nil THEN 0 ELSE info[i].got + n
        len == IF i = Nil THEN 0 ELSE info[i].len
        inf == IF i = Nil THEN info ELSE [info EXCEPT ![i].got = got]
        handle == IF currentFileHanle # NoFile THEN currentFileHanle
                  ELSE IF downloadPath # NoFile /\ disk[downloadPath] # Absent
                       THEN downloadPath ELSE NoFile
    IN /\ Runs("didReadBody")
       /\ Head(mainQueue).live
       /\ UNCHANGED <<paused, downloadSaveImageIndex>>
       /\ \/ /\ got <= len
             /\ currentFileHanle' = handle
             /\ disk' = [f \in Files |->
                           IF f = handle /\ disk[f] # Absent
                           THEN disk[f] + n ELSE disk[f]]
             /\ mainQueue' = Rest
             /\ IF got = len
                THEN /\ info' = SetStatus(inf, i, "Saving")
                     /\ \E calls \in IF "twice" \in Faults /\ i # Nil THEN 1 .. 2 ELSE {1} :
                           saves' = [saves EXCEPT ![i] = calls]
                     /\ UNCHANGED socket
                ELSE /\ info' = inf
                     /\ socket' = Reading("body")
                     /\ UNCHANGED saves
             /\ UNCHANGED <<queues, downloadingInfo, downloadPath>>
          \/ /\ got > len
             /\ HandleDownloadVideoFailed(inf, Rest)

DidReadFromReplacedSocket ==
    /\ Runs("didReadHeader") \/ Runs("didReadBody")
    /\ ~Head(mainQueue).live
    /\ Ignored

ShouldTimeoutIgnored ==             \* mutant: the download is not given up
    Runs("shouldTimeout") /\ Ignored

(* Neither handler compares the socket with self.socket.                   *)
ShouldTimeout ==
    /\ Runs("shouldTimeout")
    /\ UNCHANGED <<paused, downloadSaveImageIndex>>
    /\ HandleDownloadVideoFailed(info, Rest)

SocketDidDisconnect ==
    /\ Runs("didDisconnect")
    /\ UNCHANGED <<paused, downloadSaveImageIndex>>
    /\ HandleDownloadVideoFailed(info, Rest)

OutOfSpace ==
    /\ Runs("outOfSpace")
    /\ IF downloadingInfo = Nil THEN Terminated
       ELSE /\ UNCHANGED <<paused, downloadSaveImageIndex>>
            /\ HandleOutOfSpace(info, Rest)

FailedSave ==
    /\ Runs("failedSave")
    /\ UNCHANGED <<paused, downloadSaveImageIndex>>
    /\ DoneOneItem("FailedNotCompatible", Rest)

DoneSave ==
    /\ Runs("doneSave")
    /\ UNCHANGED <<paused, downloadSaveImageIndex>>
    /\ DoneOneItem("Done", Rest)

MainStep ==
    \/ DidWriteData \/ DidReadHeader \/ DidReadBody
    \/ DidReadFromReplacedSocket
    \/ ShouldTimeout \/ SocketDidDisconnect
    \/ OutOfSpace \/ FailedSave \/ DoneSave

-----------------------------------------------------------------------------
(* The photo library calls the handler of i's save on a thread of its own. *)
(* The handler looks at the status of whatever is being downloaded then;   *)
(* the status of nil is 0, Waiting.  Its dispatch comes a moment after the *)
(* look; what gets in between may as well come between the dispatch and    *)
(* the block, so that the two are one step.                                *)
CurrentStatus ==
    IF downloadingInfo = Nil THEN "Waiting" ELSE info[downloadingInfo].status

SaveHandler(i, success) ==
    /\ saves[i] > 0
    /\ saves' = [saves EXCEPT ![i] = @ - 1]
    /\ \/ /\ CurrentStatus = "Saving"
          /\ Len(mainQueue) < MaxBlocks
          /\ mainQueue' = Append(mainQueue,
                 Posted(IF success THEN "doneSave" ELSE "failedSave",
                        0, FALSE, i))
       \/ /\ CurrentStatus # "Saving"
          /\ UNCHANGED mainQueue
    /\ UNCHANGED <<queues, info, downloadingInfo, downloadPath,
                   currentFileHanle, paused, downloadSaveImageIndex, disk,
                   socket>>

SaveStep == \E i \in Savers, success \in BOOLEAN : SaveHandler(i, success)

ClientStep ==
    \/ \E it \in Items : AddMediaItem(it)
    \/ \E index \in 0 .. MaxInfos - 1 : RemoveMediaItemAtIndex(index)
    \/ Resume
    \/ Pause
    \/ \E index \in 0 .. Len(failedInfoQueue) - 1 : RedownloadFailedFile(index)
    \/ Relaunch

Next == ClientStep \/ SocketStep \/ SocketCloses \/ MainStep \/ SaveStep

(* The main queue is served, an open socket answers or times out after at  *)
(* most 20 s (the timeouts the code gives), the photo library answers.     *)
Fairness == WF_vars(MainStep) /\ WF_vars(SocketStep) /\ WF_vars(SaveStep)

Spec == Init /\ [][Next]_vars /\ Fairness
-----------------------------------------------------------------------------
(* Properties.                                                             *)

(* The download under way is always that of the head of the queue, so the  *)
(* index every handler looks up is 0: whatever a late block does, no       *)
(* handler ever runs for an info that was removed (removeMediaItemAtIndex, *)
(* handleDownloadVideoFailed, doneOneItem).                                *)
DownloadingIsHead ==
    downloadingInfo # Nil => infoQueue # <<>> /\ infoQueue[1] = downloadingInfo

(* A DownloadInfo sits at one place of one list only: no handler moves an  *)
(* info to the done or failed list twice, or leaves it in the queue.       *)
Lists == infoQueue \o doneInfoQueue \o failedInfoQueue
OnePlaceEach ==
    \A j, k \in DOMAIN Lists : Lists[j] = Lists[k] => j = k

(* The Range header resumes where the file ends: the bytes counted for the *)
(* current download are the bytes of its cached file, through pauses, late *)
(* reads and relaunches (downloadWithInfo, didReadData).                   *)
ResumesAtEndOfFile ==
    (downloadingInfo # Nil /\ info[downloadingInfo].status \in {"Downloading", "Saving"})
    => disk[info[downloadingInfo].item.file] = info[downloadingInfo].got

(* No cached file is left behind: only the current download has one        *)
(* (removeCachedFile at every end of a download).                          *)
OneCachedFile ==
    \A f \in Files : disk[f] # Absent
        => downloadingInfo # Nil /\ info[downloadingInfo].item.file = f

(* What is handed to the photo library is a whole file, and when nothing   *)
(* is being downloaded no file at all (saveToPhotoAfterDownloaded).        *)
SavesWholeFiles ==
    [][/\ \A i \in Infos :
             saves'[i] > saves[i] => disk'[info[i].item.file] = Size
       /\ saves'[Nil] > saves[Nil] => \A f \in Files : disk'[f] = Absent]_vars

(* An item that was asked for stays on a list until the client removes it  *)
(* or the process ends: no failure path loses it.                          *)
Listed(it) == \E k \in DOMAIN Lists : info[Lists[k]].item = it
NoItemVanishes ==
    [][\A it \in Items : Listed(it) =>
          \/ Listed(it)'
          \/ Terminated
          \/ \E index \in DOMAIN infoQueue :
                /\ info[infoQueue[index]].item = it
                /\ RemoveMediaItemAtIndex(index - 1)]_vars

(* A save that is reported finishes the item that was saved, and no other  *)
(* (doneOneItem; the index check there and the status check in the handler *)
(* are meant for this).                                                    *)
SaveFinishesItsItem ==
    [][(DoneSave \/ FailedSave) /\ infoQueue' # infoQueue
       => downloadingInfo = Head(mainQueue).info]_vars

(* A download that is not paused ends: it is saved, fails or is removed    *)
(* (timeouts, disconnects and the handler of the photo library).           *)
DownloadEnds ==
    \A i \in Infos : []<>(downloadingInfo # i \/ paused)
=============================================================================
