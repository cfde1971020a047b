----------------------- MODULE URLOfflineDownloadTask -----------------------
(***************************************************************************)
(* URLOfflineDownloadTask.m: a download that goes on where the file on     *)
(* disk ends, after a pause or after the app was gone.                     *)
(*                                                                         *)
(* setupTask takes the size of the file for the Range of its request;      *)
(* every piece of data is added at the end of the file; an answer whose    *)
(* length does not go beyond the file is cancelled and taken to mean that  *)
(* the download was complete.  NSURLSession calls the delegate by blocks   *)
(* on the main queue.  The resource is the bytes 1 .. Size, each block     *)
(* brings one of them; an error page is one byte 0.                        *)
(***************************************************************************)
EXTENDS Integers, Sequences, SequencesExt

CONSTANTS
    Size,         \* bytes of the resource
    MaxRestarts,  \* bound: how often the app is killed and started again
    Servers       \* how servers may answer

(* "ranges": the bytes asked for, or an empty 416; "page": an error page;  *)
(* "whole": all bytes, whatever was asked; "unknown": no length announced. *)
ServerKinds == {"ranges", "page", "whole", "unknown"}

ASSUME SizeAssumption == Size \in Nat \ {0} /\ MaxRestarts \in Nat
ASSUME ServersAssumption == Servers \subseteq ServerKinds /\ Servers # {}

VARIABLES
    file,         \* the bytes on disk
    currentSize, totalSize,
    fileHandle,   \* whether it is open
    dataTask,     \* "none", "suspended" or "running"
    stage,        \* "asked", "answered", "receiving" or "ended"
    coming,       \* the bytes the server still sends
    main,         \* blocks on the main queue
    reported,     \* what the blocks of the client were told last
    odd,          \* the server has sent other than what was asked for
    restarts

memory == <<currentSize, totalSize, fileHandle>>
session == <<dataTask, stage, coming, main>>
vars == <<file, memory, session, reported, odd, restarts>>

Bytes == 0 .. Size
Stages == {"asked", "answered", "receiving", "ended"}
Blocks == [event : {"response"}, length : -1 .. Size]
              \cup [event : {"data"}, byte : Bytes]
              \cup [event : {"complete"}, error : BOOLEAN]
ResponseBlock(length) == [event |-> "response", length |-> length]
DataBlock(byte) == [event |-> "data", byte |-> byte]
CompleteBlock(error) == [event |-> "complete", error |-> error]

Init ==
    /\ file = <<>>
    /\ currentSize = 0 /\ totalSize = 0 /\ fileHandle = FALSE
    /\ dataTask = "none" /\ stage = "asked" /\ coming = <<>> /\ main = <<>>
    /\ reported = "nothing" /\ odd = FALSE /\ restarts = 0

-----------------------------------------------------------------------------
(* Mutant of setupTask: it starts at the beginning of the resource.        *)
SizeForgotten(bytes) == 0

(* The size setupTask finds on disk, and asks the server to go on from.    *)
SizeOnDisk(bytes) == Len(bytes)

SetupTask ==
    /\ dataTask = "none"
    /\ currentSize' = SizeOnDisk(file)
    /\ fileHandle' = TRUE
    /\ dataTask' = "suspended"
    /\ UNCHANGED <<file, totalSize, stage, coming, main, reported, odd,
                   restarts>>

PauseDownload ==
    /\ dataTask = "running" /\ dataTask' = "suspended"
    /\ UNCHANGED <<file, memory, stage, coming, main, reported, odd, restarts>>

ContinueDownload ==
    /\ dataTask = "suspended" /\ dataTask' = "running"
    /\ UNCHANGED <<file, memory, stage, coming, main, reported, odd, restarts>>

(* Killed at any time and started again: what is not on disk is gone.      *)
Restart ==
    /\ restarts < MaxRestarts /\ restarts' = restarts + 1
    /\ currentSize' = 0 /\ totalSize' = 0 /\ fileHandle' = FALSE
    /\ dataTask' = "none" /\ stage' = "asked" /\ coming' = <<>>
    /\ main' = <<>> /\ reported' = "nothing"
    /\ UNCHANGED <<file, odd>>

-----------------------------------------------------------------------------
(* The server and NSURLSession, as the delegate sees them.                 *)

(* The bytes from the one after "from" to the last.                        *)
BytesAfter(from) == [i \in 1 .. Size - from |-> from + i]

(* The Range was set up from currentSize, which only data changes.         *)
Body(kind) ==
    CASE kind = "page"  -> <<0>>
      [] kind = "whole" -> BytesAfter(0)
      [] OTHER          -> BytesAfter(currentSize)

ServerAnswers ==
    /\ dataTask = "running" /\ stage = "asked"
    /\ \E kind \in Servers :
        /\ coming' = Body(kind)
        /\ main' = Append(main, ResponseBlock(
                      IF kind = "unknown" THEN -1 ELSE Len(Body(kind))))
        /\ odd' = (odd \/ kind = "page" \/ (kind = "whole" /\ currentSize > 0))
    /\ stage' = "answered"
    /\ UNCHANGED <<file, memory, dataTask, reported, restarts>>

SessionBrings ==
    /\ dataTask = "running" /\ stage = "receiving" /\ coming # <<>>
    /\ coming' = Tail(coming)
    /\ main' = Append(main, DataBlock(Head(coming)))
    /\ UNCHANGED <<file, memory, dataTask, stage, reported, odd, restarts>>

SessionEnds(error) ==
    /\ stage' = "ended"
    /\ main' = Append(main, CompleteBlock(error))
    /\ UNCHANGED <<file, memory, dataTask, coming, reported, odd, restarts>>

AllBrought ==
    /\ dataTask = "running" /\ stage = "receiving" /\ coming = <<>>
    /\ SessionEnds(FALSE)

(* The connection is lost, or nothing comes for too long.                  *)
ConnectionFails ==
    /\ dataTask = "running" /\ stage # "ended"
    /\ SessionEnds(TRUE)

-----------------------------------------------------------------------------
(* Mutant of didReceiveResponse: the length of the answer is the total.    *)
LengthAlone(length) == length

TotalSize(length) == length + currentSize

(* didReceiveResponse: answers the session, which a cancel ends at once    *)
(* with an error.  A session that has failed no longer listens.            *)
DidReceiveResponse ==
    /\ main # <<>> /\ Head(main).event = "response"
    /\ totalSize' = TotalSize(Head(main).length)
    /\ IF stage = "ended"
       THEN main' = Tail(main) /\ UNCHANGED stage
       ELSE IF totalSize' <= currentSize
       THEN /\ stage' = "ended"
            /\ main' = Append(Tail(main), CompleteBlock(TRUE))
       ELSE stage' = "receiving" /\ main' = Tail(main)
    /\ UNCHANGED <<file, currentSize, fileHandle, dataTask, coming, reported,
                   odd, restarts>>

(* didReceiveData: the client is told of the part that is there.           *)
DidReceiveData ==
    /\ main # <<>> /\ Head(main).event = "data"
    /\ main' = Tail(main)
    /\ file' = IF fileHandle THEN Append(file, Head(main).byte) ELSE file
    /\ currentSize' = currentSize + 1
    /\ reported' = IF currentSize' >= totalSize THEN "done" ELSE reported
    /\ UNCHANGED <<totalSize, fileHandle, dataTask, stage, coming, odd,
                   restarts>>

ReportOfError == IF totalSize <= currentSize THEN "done" ELSE "failed"

(* didCompleteWithError: success is left to the data to report.            *)
DidComplete ==
    /\ main # <<>> /\ Head(main).event = "complete"
    /\ main' = Tail(main)
    /\ fileHandle' = FALSE
    /\ reported' = IF Head(main).error THEN ReportOfError ELSE reported
    /\ UNCHANGED <<file, currentSize, totalSize, dataTask, stage, coming, odd,
                   restarts>>

Client == SetupTask \/ PauseDownload \/ ContinueDownload
Session == ServerAnswers \/ SessionBrings \/ AllBrought \/ ConnectionFails
Delegate == DidReceiveResponse \/ DidReceiveData \/ DidComplete

Next == Client \/ Session \/ Delegate \/ Restart

Spec == Init /\ [][Next]_vars

-----------------------------------------------------------------------------
(* Properties                                                              *)

(* The types of the variables; the total is never more than the one byte   *)
(* of an unknown length behind what has come.                              *)
TypeOK ==
    /\ file \in Seq(Bytes)
    /\ currentSize \in Nat
    /\ totalSize \in Nat \cup {-1}
    /\ totalSize = 0 \/ totalSize >= currentSize - 1
    /\ fileHandle \in BOOLEAN
    /\ dataTask \in {"none", "suspended", "running"}
    /\ stage \in Stages
    /\ coming \in Seq(Bytes)
    /\ main \in Seq(Blocks)
    /\ reported \in {"nothing", "done", "failed"}
    /\ odd \in BOOLEAN
    /\ restarts \in 0 .. MaxRestarts

(* With a server that sends what it is asked for, the file is always the   *)
(* first bytes of the resource in order, each once, whatever pauses,       *)
(* failures and restarts the download went through.                        *)
FileIsPrefix ==
    ~ odd => /\ Len(file) <= Size
             /\ \A i \in DOMAIN file : file[i] = i

(* With such a server the client is told that the download is done only    *)
(* when the file is whole or no answer has told how long it will be: the   *)
(* code takes a connection lost before that for the end of the download.   *)
(* It is told of a failure only when the file is not whole, also when the  *)
(* connection is lost after the last byte.                                 *)
LengthIsKnown == totalSize > 0 /\ totalSize >= currentSize
ReportIsTrue ==
    ~ odd =>
        /\ reported = "done" /\ LengthIsKnown => Len(file) = Size
        /\ reported = "failed" => Len(file) < Size
=============================================================================
