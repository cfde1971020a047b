-------------------- MODULE URLOfflineDownloadTaskProofs --------------------
(***************************************************************************)
(* Theorems about URLOfflineDownloadTask, for every size of the resource,  *)
(* every number of restarts and every kind of server.                      *)
(***************************************************************************)
EXTENDS URLOfflineDownloadTask, SequenceTheorems, TLAPS

(* What the stage of the request says of the blocks on the main queue: an  *)
(* answer comes alone, data come after it has been looked at, and the end  *)
(* is the last block.  Until then the file is open, and its size known.    *)
Shape ==
    /\ dataTask = "none" => stage = "asked"
    /\ dataTask # "none" => currentSize = Len(file)
    /\ dataTask # "none" /\ (stage # "ended" \/ main # <<>>) =>
          fileHandle /\ reported # "failed"
    /\ stage = "asked" => main = <<>> /\ totalSize = 0 /\ reported = "nothing"
    /\ stage = "answered" =>
          /\ Len(main) = 1 /\ main[1].event = "response"
          /\ main[1].length \in {-1, Len(coming)}
    /\ stage = "receiving" => \A k \in DOMAIN main : main[k].event = "data"
    /\ stage = "ended" =>
          \A k \in DOMAIN main : main[k].event = "complete" <=> k = Len(main)
    /\ \A k \in DOMAIN main : main[k].event = "response" =>
          /\ k = 1 /\ Len(main) <= 2
          /\ totalSize = 0 /\ reported = "nothing"

(* The data that are still to come do not go beyond the total announced.   *)
Announced ==
    /\ stage = "receiving" => totalSize = currentSize + Len(main) + Len(coming)
    /\ stage = "ended" => \A k \in DOMAIN main : main[k].event = "data" =>
                             totalSize >= currentSize + Len(main) - 1

(* What a server that sends what it is asked for has sent and announced:   *)
(* the bytes in the queue and those to come go on where the file ends.  A  *)
(* total that is not the size is that of an answer without a length.       *)
Continues ==
    ~ odd =>
        /\ \A k \in DOMAIN main :
              /\ main[k].event = "data" => main[k].byte = Len(file) + k
              /\ main[k].event = "response" =>
                    main[k].length \in {-1, Size - currentSize}
        /\ stage = "answered" => \A j \in DOMAIN coming : coming[j] = Len(file) + j
        /\ stage = "receiving" =>
              \A j \in DOMAIN coming : coming[j] = Len(file) + Len(main) + j
        /\ totalSize \in {0, Size, currentSize - 1}

(* The inductive invariant.                                                *)
IInv == TypeOK /\ Shape /\ Announced /\ Continues /\ FileIsPrefix /\ ReportIsTrue

-----------------------------------------------------------------------------
(* Queues and bodies.                                                      *)

(* A block posted to the end of the main queue: length, entries, head. *)
LEMMA AppendShape ==
    ASSUME NEW S, NEW s \in Seq(S), NEW x \in S
    PROVE  /\ Append(s, x) \in Seq(S) /\ Append(s, x) # <<>>
           /\ Len(Append(s, x)) = Len(s) + 1 /\ Len(s) \in Nat
           /\ DOMAIN s = 1 .. Len(s)
           /\ DOMAIN Append(s, x) = 1 .. Len(s) + 1
           /\ \A k \in DOMAIN s : Append(s, x)[k] = s[k]
           /\ Append(s, x)[Len(s) + 1] = x
OBVIOUS

(* The main queue without its first block: length and entries. *)
LEMMA TailShape ==
    ASSUME NEW S, NEW s \in Seq(S), s # <<>>
    PROVE  /\ Tail(s) \in Seq(S) /\ Len(Tail(s)) = Len(s) - 1 /\ Len(s) \in Nat \ {0}
           /\ DOMAIN s = 1 .. Len(s) /\ DOMAIN Tail(s) = 1 .. Len(s) - 1
           /\ 1 \in DOMAIN s /\ Head(s) = s[1] /\ s[1] \in S
           /\ \A k \in DOMAIN Tail(s) : k + 1 \in DOMAIN s /\ Tail(s)[k] = s[k + 1]
OBVIOUS

(* Each kind of block is a block. *)
LEMMA BlocksAreBlocks ==
    /\ \A n \in -1 .. Size : /\ ResponseBlock(n) \in Blocks /\ ResponseBlock(n).length = n
                             /\ ResponseBlock(n).event = "response"
    /\ \A b \in Bytes : /\ DataBlock(b) \in Blocks /\ DataBlock(b).byte = b
                        /\ DataBlock(b).event = "data"
    /\ \A e \in BOOLEAN : /\ CompleteBlock(e) \in Blocks /\ CompleteBlock(e).event = "complete"
BY DEF Blocks, ResponseBlock, DataBlock, CompleteBlock

(* What each kind of block carries. *)
LEMMA BlockFields ==
    ASSUME NEW b \in Blocks
    PROVE  /\ b.event \in {"response", "data", "complete"}
           /\ b.event = "response" => b.length \in -1 .. Size
           /\ b.event = "data" => b.byte \in Bytes
BY DEF Blocks

(* The bytes of the resource from a place on, one by one. *)
LEMMA BytesAfterShape ==
    ASSUME NEW n \in Nat
    PROVE  /\ BytesAfter(n) \in Seq(Bytes)
           /\ Len(BytesAfter(n)) = (IF n <= Size THEN Size - n ELSE 0)
           /\ \A j \in DOMAIN BytesAfter(n) : BytesAfter(n)[j] = n + j
<1> DEFINE m == IF n <= Size THEN Size - n ELSE 0
<1>1. m \in Nat /\ 1 .. Size - n = 1 .. m
  BY SizeAssumption
<1>2. BytesAfter(n) = [j \in 1 .. m |-> n + j]
  BY <1>1 DEF BytesAfter
<1>3. \A j \in 1 .. m : n + j \in Bytes
  BY SizeAssumption DEF Bytes
<1> HIDE DEF m
<1>4. BytesAfter(n) \in Seq(Bytes) /\ Len(BytesAfter(n)) = m
  BY <1>1, <1>2, <1>3
<1> QED BY <1>2, <1>4 DEF m

(* A body is at most as long as the resource. *)
LEMMA BodyShape ==
    ASSUME NEW kind \in Servers, currentSize \in Nat
    PROVE  Body(kind) \in Seq(Bytes) /\ Len(Body(kind)) \in 0 .. Size
<1>1. kind \in {"ranges", "page", "whole", "unknown"}
  BY ServersAssumption DEF ServerKinds
<1>2. CASE kind = "page"
  <2>1. Body(kind) = <<0>>
    BY <1>2 DEF Body
  <2> QED BY <2>1, SizeAssumption DEF Bytes
<1>3. CASE kind = "whole"
  BY <1>3, BytesAfterShape, SizeAssumption DEF Body
<1>4. CASE kind \in {"ranges", "unknown"}
  <2>1. Body(kind) = BytesAfter(currentSize)
    BY <1>4 DEF Body
  <2>2. /\ BytesAfter(currentSize) \in Seq(Bytes)
        /\ Len(BytesAfter(currentSize)) = IF currentSize <= Size THEN Size - currentSize ELSE 0
    BY BytesAfterShape
  <2>3. Len(BytesAfter(currentSize)) \in 0 .. Size
    BY <2>2, SizeAssumption
  <2> QED BY <2>1, <2>2, <2>3
<1> QED BY <1>1, <1>2, <1>3, <1>4

(* A block of the delegate is at the head of the main queue.               *)
LEMMA HeadOfMain ==
    ASSUME TypeOK, main # <<>>
    PROVE  /\ Head(main) = main[1] /\ 1 \in DOMAIN main /\ main[1] \in Blocks
           /\ Len(main) \in Nat \ {0} /\ Tail(main) \in Seq(Blocks)
           /\ Len(Tail(main)) = Len(main) - 1
           /\ \A k \in DOMAIN Tail(main) : k + 1 \in DOMAIN main /\ Tail(main)[k] = main[k + 1]
           /\ DOMAIN main = 1 .. Len(main) /\ DOMAIN Tail(main) = 1 .. Len(main) - 1
BY TailShape DEF TypeOK

-----------------------------------------------------------------------------
(* Types.                                                                  *)

(* Every step keeps the type invariant. *)
LEMMA TypeStep ==
    ASSUME TypeOK, Shape, Announced, [Next]_vars
    PROVE  TypeOK'
<1> USE SizeAssumption DEF TypeOK, memory, session, Stages
<1>1. CASE SetupTask
  BY <1>1 DEF SetupTask, SizeOnDisk, Shape
<1>2. CASE PauseDownload \/ ContinueDownload
  BY <1>2 DEF PauseDownload, ContinueDownload
<1>3. CASE Restart
  <2>1. file' \in Seq(Bytes) /\ coming' \in Seq(Bytes) /\ main' \in Seq(Blocks)
    BY <1>3 DEF Restart
  <2>2. /\ currentSize' \in Nat /\ totalSize' = 0 /\ restarts' \in 0 .. MaxRestarts
        /\ reported' = "nothing" /\ dataTask' = "none" /\ stage' = "asked"
    BY <1>3 DEF Restart
  <2>3. fileHandle' \in BOOLEAN /\ odd' \in BOOLEAN
    BY <1>3 DEF Restart
  <2> QED BY <2>1, <2>2, <2>3
<1>4. CASE ServerAnswers
  <2>1. PICK kind \in Servers :
          /\ coming' = Body(kind)
          /\ main' = Append(main, ResponseBlock(
                        IF kind = "unknown" THEN -1 ELSE Len(Body(kind))))
          /\ odd' = (odd \/ kind = "page" \/ (kind = "whole" /\ currentSize > 0))
    BY <1>4 DEF ServerAnswers
  <2>2. coming' \in Seq(Bytes) /\ Len(Body(kind)) \in 0 .. Size
    BY <2>1, BodyShape
  <2>3. main' \in Seq(Blocks)
    <3>1. (IF kind = "unknown" THEN -1 ELSE Len(Body(kind))) \in -1 .. Size
      BY <2>2
    <3> QED BY <2>1, <3>1, BlocksAreBlocks, AppendShape
  <2>4. odd' \in BOOLEAN
    BY <2>1
  <2> QED BY <1>4, <2>2, <2>3, <2>4 DEF ServerAnswers
<1>5. CASE SessionBrings
  <2>1. coming' \in Seq(Bytes) /\ Head(coming) \in Bytes
    BY <1>5, TailShape DEF SessionBrings
  <2>2. main' \in Seq(Blocks)
    BY <1>5, <2>1, BlocksAreBlocks, AppendShape DEF SessionBrings
  <2> QED BY <1>5, <2>1, <2>2 DEF SessionBrings
<1>6. CASE AllBrought \/ ConnectionFails
  <2>1. main' \in Seq(Blocks)
    <3>1. CompleteBlock(FALSE) \in Blocks /\ CompleteBlock(TRUE) \in Blocks
      BY BlocksAreBlocks
    <3>2. \A b \in Blocks : Append(main, b) \in Seq(Blocks)
      BY AppendShape
    <3>3. main' \in {Append(main, CompleteBlock(FALSE)), Append(main, CompleteBlock(TRUE))}
      BY <1>6 DEF AllBrought, ConnectionFails, SessionEnds
    <3> QED BY <3>1, <3>2, <3>3
  <2> QED BY <1>6, <2>1 DEF AllBrought, ConnectionFails, SessionEnds
<1>7. CASE DidReceiveResponse
  <2> USE DEF DidReceiveResponse
  <2>1. main # <<>> /\ main[1].event = "response"
    BY <1>7, HeadOfMain
  <2>2. main[1].length \in -1 .. Size
    BY <2>1, HeadOfMain, BlockFields
  <2>3. totalSize' = main[1].length + currentSize
    BY <1>7, <2>1, HeadOfMain DEF TotalSize
  <2>4. main' \in Seq(Blocks)
    <3>1. main' \in {Tail(main), Append(Tail(main), CompleteBlock(TRUE))}
      BY <1>7
    <3>2. CompleteBlock(TRUE) \in Blocks /\ Tail(main) \in Seq(Blocks)
      BY <2>1, HeadOfMain, BlocksAreBlocks
    <3>3. Append(Tail(main), CompleteBlock(TRUE)) \in Seq(Blocks)
      BY <3>2, AppendShape
    <3> QED BY <3>1, <3>2, <3>3
  <2>5. stage' \in Stages
    BY <1>7
  <2>6. totalSize' \in Nat \cup {-1} /\ totalSize' >= currentSize - 1
    BY SMTT(30), <2>2, <2>3
  <2> QED BY <1>7, <2>4, <2>5, <2>6
<1>8. CASE DidReceiveData
  <2> USE DEF DidReceiveData
  <2>1. main # <<>> /\ main[1].event = "data"
    BY <1>8, HeadOfMain
  <2>2. main' \in Seq(Blocks) /\ file' \in Seq(Bytes)
    <3>1. Head(main).byte \in Bytes
      BY <2>1, HeadOfMain, BlockFields
    <3>2. file' \in {file, Append(file, Head(main).byte)}
      BY <1>8
    <3> QED BY <1>8, <2>1, <3>1, <3>2, HeadOfMain, AppendShape
  <2>3. currentSize' \in Nat /\ currentSize' = currentSize + 1
    BY <1>8
  <2>4. totalSize >= currentSize
    <3>1. Len(main) >= 1 /\ Len(coming) \in Nat
      BY <2>1, HeadOfMain
    <3>2. stage \in {"receiving", "ended"}
      BY <2>1 DEF Shape
    <3>3. stage = "ended" => Len(main) # 1
      BY <2>1, HeadOfMain DEF Shape
    <3>4. stage = "ended" => totalSize >= currentSize + Len(main) - 1
      BY <2>1, HeadOfMain DEF Announced
    <3>5. stage = "receiving" => totalSize = currentSize + Len(main) + Len(coming)
      BY DEF Announced
    <3>6. totalSize \in Int /\ currentSize \in Nat /\ Len(main) \in Nat
      BY <2>1, HeadOfMain
    <3> QED BY <3>1, <3>2, <3>3, <3>4, <3>5, <3>6
  <2>5. reported' \in {"nothing", "done", "failed"}
    BY <1>8
  <2>6. totalSize' \in Nat \cup {-1} /\ totalSize' >= currentSize' - 1
    BY <1>8, <2>3, <2>4
  <2> QED BY <1>8, <2>2, <2>3, <2>5, <2>6
<1>9. CASE DidComplete
  <2>1. main' \in Seq(Blocks)
    BY <1>9, HeadOfMain DEF DidComplete
  <2> QED BY <1>9, <2>1 DEF DidComplete, ReportOfError
<1>10. CASE UNCHANGED vars
  BY <1>10 DEF vars
<1> QED BY <1>1, <1>2, <1>3, <1>4, <1>5, <1>6, <1>7, <1>8, <1>9, <1>10
       DEF Next, Client, Session, Delegate

-----------------------------------------------------------------------------
(* The blocks on the main queue.                                           *)

(* Every step keeps the answer under way one answer, in its parts. *)
LEMMA ShapeStep ==
    ASSUME TypeOK, Shape, [Next]_vars
    PROVE  Shape'
<1> USE DEF Shape, memory, session
<1>1. CASE SetupTask
  BY <1>1 DEF SetupTask, SizeOnDisk
<1>2. CASE PauseDownload \/ ContinueDownload
  BY <1>2 DEF PauseDownload, ContinueDownload
<1>3. CASE Restart
  BY <1>3 DEF Restart
<1>4. CASE ServerAnswers
  <2>1. PICK kind \in Servers :
          /\ coming' = Body(kind)
          /\ main' = Append(main, ResponseBlock(
                        IF kind = "unknown" THEN -1 ELSE Len(Body(kind))))
    BY <1>4 DEF ServerAnswers
  <2> DEFINE n == IF kind = "unknown" THEN -1 ELSE Len(coming')
  <2>2. n \in -1 .. Size /\ n \in {-1, Len(coming')}
    BY <2>1, BodyShape, SizeAssumption DEF TypeOK
  <2>3. main' = Append(<<>>, ResponseBlock(n))
    BY <1>4, <2>1 DEF ServerAnswers
  <2> HIDE DEF n
  <2>4. Len(main') = 1 /\ DOMAIN main' = {1} /\ main'[1] = ResponseBlock(n)
    BY <2>3
  <2>5. main'[1].event = "response" /\ main'[1].length = n
    BY <2>2, <2>4, BlocksAreBlocks
  <2> QED BY <1>4, <2>2, <2>4, <2>5 DEF ServerAnswers
<1>5. CASE SessionBrings
  <2>1. Head(coming) \in Bytes
    BY <1>5, TailShape DEF SessionBrings, TypeOK
  <2>2. /\ DataBlock(Head(coming)) \in Blocks
        /\ DataBlock(Head(coming)).event = "data"
    BY <2>1, BlocksAreBlocks
  <2>3. main' = Append(main, DataBlock(Head(coming))) /\ stage = "receiving"
        /\ UNCHANGED <<file, memory, dataTask, stage, reported>>
    BY <1>5 DEF SessionBrings
  <2>4. \A k \in DOMAIN main' : main'[k].event = "data"
    BY <2>2, <2>3, AppendShape DEF TypeOK
  <2> QED BY <2>3, <2>4
<1>6. CASE AllBrought \/ ConnectionFails
  <2>1. PICK e \in BOOLEAN : main' = Append(main, CompleteBlock(e))
    BY <1>6 DEF AllBrought, ConnectionFails, SessionEnds
  <2>2. CompleteBlock(e) \in Blocks /\ CompleteBlock(e).event = "complete"
    BY BlocksAreBlocks
  <2>3. /\ stage # "ended" /\ stage' = "ended" /\ dataTask = "running"
        /\ UNCHANGED <<file, memory, dataTask, reported>>
    BY <1>6 DEF AllBrought, ConnectionFails, SessionEnds
  <2>4. \A k \in DOMAIN main : main[k].event # "complete"
    <3>1. stage \in {"asked", "answered", "receiving"}
      BY <2>3 DEF TypeOK, Stages
    <3>2. CASE stage = "answered"
      <4>1. DOMAIN main = {1}
        BY <3>2 DEF TypeOK
      <4> QED BY <3>2, <4>1
    <3> QED BY <3>1, <3>2
  <2>5. \A k \in DOMAIN main : main[k].event = "response" => Len(main) = 1
    <3>1. stage \in {"asked", "answered", "receiving"}
      BY <2>3 DEF TypeOK, Stages
    <3> QED BY <3>1
  <2>6. \A k \in DOMAIN main' : main'[k].event = "complete" <=> k = Len(main')
    BY <2>1, <2>2, <2>4, AppendShape DEF TypeOK
  <2>7. \A k \in DOMAIN main' : main'[k].event = "response" => k = 1 /\ Len(main') <= 2
            /\ totalSize' = 0 /\ reported' = "nothing"
    BY <2>1, <2>2, <2>3, <2>5, AppendShape DEF TypeOK
  <2>8. fileHandle' /\ reported' # "failed" /\ currentSize' = Len(file')
    BY <2>3
  <2> QED BY <2>3, <2>6, <2>7, <2>8
<1>7. CASE DidReceiveResponse
  <2> USE DEF DidReceiveResponse
  <2>1. main # <<>> /\ main[1].event = "response"
    BY <1>7, HeadOfMain
  <2>2. stage \in {"answered", "ended"} /\ dataTask # "none" /\ reported = "nothing" /\ fileHandle
    <3>1. stage \in {"asked", "answered", "receiving", "ended"} /\ 1 \in DOMAIN main
      BY <2>1, HeadOfMain DEF TypeOK, Stages
    <3> QED BY <2>1, <3>1
  <2>3. UNCHANGED <<file, currentSize, fileHandle, dataTask, coming, reported>>
    BY <1>7
  <2>4. CASE stage = "ended"
    <3>1. main' = Tail(main) /\ stage' = "ended"
      BY <1>7, <2>4
    <3>2. \A k \in DOMAIN main' : main'[k].event = "complete" <=> k = Len(main')
      BY <2>1, <2>4, <3>1, HeadOfMain
    <3>3. \A k \in DOMAIN main' : main'[k].event # "response"
      BY <2>1, <2>4, <3>1, HeadOfMain
    <3> QED BY <2>2, <2>3, <3>1, <3>2, <3>3
  <2>5. CASE stage = "answered"
    <3>1. Tail(main) = <<>>
      BY <2>1, <2>5, HeadOfMain
    <3>2. \/ main' = <<>> /\ stage' = "receiving"
          \/ main' = Append(<<>>, CompleteBlock(TRUE)) /\ stage' = "ended"
      BY <1>7, <2>5, <3>1
    <3>3. CASE main' = <<>> /\ stage' = "receiving"
      BY <2>2, <2>3, <3>3
    <3>4. CASE main' = Append(<<>>, CompleteBlock(TRUE)) /\ stage' = "ended"
      <4>1. Len(main') = 1 /\ DOMAIN main' = {1} /\ main'[1].event = "complete"
        <5>1. CompleteBlock(TRUE).event = "complete"
          BY BlocksAreBlocks
        <5>2. Len(main') = 1 /\ DOMAIN main' = {1} /\ main'[1] = CompleteBlock(TRUE)
          BY <3>4
        <5> QED BY <5>1, <5>2
      <4> QED BY <2>2, <2>3, <3>4, <4>1
    <3> QED BY <3>2, <3>3, <3>4
  <2> QED BY <2>2, <2>4, <2>5
<1>8. CASE DidReceiveData
  <2> USE DEF DidReceiveData
  <2>1. main # <<>> /\ main[1].event = "data"
    BY <1>8, HeadOfMain
  <2>2. stage \in {"receiving", "ended"} /\ dataTask # "none" /\ fileHandle
    <3>1. stage \in {"asked", "answered", "receiving", "ended"} /\ 1 \in DOMAIN main
      BY <2>1, HeadOfMain DEF TypeOK, Stages
    <3> QED BY <2>1, <3>1
  <2>3. /\ file' = Append(file, Head(main).byte) /\ currentSize' = currentSize + 1
        /\ main' = Tail(main) /\ reported' \in {"done", reported}
        /\ UNCHANGED <<totalSize, fileHandle, dataTask, stage, coming>>
    BY <1>8, <2>2
  <2>4. currentSize' = Len(file')
    <3>1. Head(main).byte \in Bytes
      BY <2>1, HeadOfMain, BlockFields
    <3>2. currentSize = Len(file)
      BY <2>2
    <3> QED BY <2>3, <3>1, <3>2, AppendShape DEF TypeOK
  <2>5. /\ stage = "receiving" => \A k \in DOMAIN main' : main'[k].event = "data"
        /\ stage = "ended" => \A k \in DOMAIN main' : main'[k].event = "complete" <=> k = Len(main')
        /\ \A k \in DOMAIN main' : main'[k].event # "response"
    BY <2>1, <2>3, HeadOfMain
  <2>6. reported' # "failed"
    BY <2>1, <2>2, <2>3
  <2> QED BY <2>2, <2>3, <2>4, <2>5, <2>6
<1>9. CASE DidComplete
  <2> USE DEF DidComplete
  <2>1. main # <<>> /\ main[1].event = "complete"
    BY <1>9, HeadOfMain
  <2>2. stage = "ended" /\ dataTask # "none" /\ Len(main) = 1
    <3>1. stage \in {"asked", "answered", "receiving", "ended"} /\ 1 \in DOMAIN main
      BY <2>1, HeadOfMain DEF TypeOK, Stages
    <3> QED BY <2>1, <3>1
  <2>3. main' = <<>>
    BY <1>9, <2>1, <2>2, HeadOfMain
  <2> QED BY <1>9, <2>2, <2>3
<1>10. CASE UNCHANGED vars
  BY <1>10 DEF vars
<1> QED BY <1>1, <1>2, <1>3, <1>4, <1>5, <1>6, <1>7, <1>8, <1>9, <1>10
       DEF Next, Client, Session, Delegate

-----------------------------------------------------------------------------
(* What is still to come.                                                  *)

(* Every step keeps the size told that of the resource. *)
LEMMA AnnouncedStep ==
    ASSUME TypeOK, Shape, Announced, [Next]_vars
    PROVE  Announced'
<1> USE DEF Announced, memory, session
<1>1. CASE SetupTask
  BY <1>1 DEF SetupTask, Shape
<1>2. CASE PauseDownload \/ ContinueDownload
  BY <1>2 DEF PauseDownload, ContinueDownload
<1>3. CASE Restart
  BY <1>3 DEF Restart
<1>4. CASE ServerAnswers
  BY <1>4 DEF ServerAnswers
<1>5. CASE SessionBrings
  <2>1. /\ main' = Append(main, DataBlock(Head(coming))) /\ stage = "receiving"
        /\ coming # <<>> /\ coming' = Tail(coming) /\ UNCHANGED <<totalSize, currentSize, stage>>
    BY <1>5 DEF SessionBrings
  <2>2. Len(main') = Len(main) + 1 /\ Len(main) \in Nat
    BY <2>1, BlocksAreBlocks, AppendShape, TailShape DEF TypeOK
  <2>3. Len(coming') = Len(coming) - 1 /\ Len(coming) \in Nat
    BY <2>1, TailShape DEF TypeOK
  <2> QED BY <2>1, <2>2, <2>3 DEF TypeOK
<1>6. CASE AllBrought \/ ConnectionFails
  <2>1. PICK e \in BOOLEAN : main' = Append(main, CompleteBlock(e))
    BY <1>6 DEF AllBrought, ConnectionFails, SessionEnds
  <2>2. CompleteBlock(e) \in Blocks /\ CompleteBlock(e).event = "complete"
    BY BlocksAreBlocks
  <2>3. stage # "ended" /\ stage' = "ended" /\ UNCHANGED <<totalSize, currentSize>>
    BY <1>6 DEF AllBrought, ConnectionFails, SessionEnds
  <2>4. /\ Len(main') = Len(main) + 1 /\ Len(main) \in Nat /\ Len(coming) \in Nat
        /\ \A k \in DOMAIN main' : main'[k].event = "data" =>
              k \in DOMAIN main /\ main[k].event = "data"
    BY <2>1, <2>2, AppendShape DEF TypeOK
  <2>5. \A k \in DOMAIN main : main[k].event = "data" => stage = "receiving"
    <3>1. stage \in {"asked", "answered", "receiving"}
      BY <2>3 DEF TypeOK, Stages
    <3>2. stage = "answered" => DOMAIN main = {1} /\ main[1].event = "response"
      BY DEF Shape, TypeOK
    <3> QED BY <3>1, <3>2 DEF Shape
  <2>6. totalSize \in Int /\ currentSize \in Int
    BY DEF TypeOK
  <2> QED BY <2>3, <2>4, <2>5, <2>6
<1>7. CASE DidReceiveResponse
  <2> USE DEF DidReceiveResponse
  <2>1. main # <<>> /\ main[1].event = "response"
    BY <1>7, HeadOfMain
  <2>2. /\ totalSize' = main[1].length + currentSize
        /\ main[1].length \in Int /\ currentSize \in Nat
        /\ UNCHANGED <<currentSize, coming>>
    BY <1>7, <2>1, HeadOfMain, BlockFields DEF TotalSize, TypeOK
  <2>3. CASE stage = "ended"
    <3>1. main' = Tail(main) /\ stage' = "ended"
      BY <1>7, <2>3
    <3>2. \A k \in DOMAIN main' : main'[k].event # "data"
      <4>1. Len(main) <= 2 /\ \A k \in DOMAIN main : k = Len(main) => main[k].event = "complete"
        BY <2>1, <2>3, HeadOfMain DEF Shape
      <4>2. \A k \in DOMAIN main' : k + 1 = Len(main) /\ main'[k] = main[k + 1]
        BY <2>1, <3>1, <4>1, HeadOfMain
      <4> QED BY <2>1, <4>1, <4>2, HeadOfMain
    <3> QED BY <3>1, <3>2
  <2>4. CASE stage = "answered"
    <3>1. Tail(main) = <<>> /\ main[1].length \in {-1, Len(coming)} /\ Len(coming) \in Nat
      BY <2>1, <2>4, HeadOfMain DEF Shape, TypeOK
    <3>2. \/ main' = <<>> /\ stage' = "receiving" /\ totalSize' > currentSize
          \/ main' = Append(<<>>, CompleteBlock(TRUE)) /\ stage' = "ended"
      <4>1. CASE totalSize' <= currentSize
        BY <1>7, <2>4, <3>1, <4>1
      <4>2. CASE ~(totalSize' <= currentSize)
        <5>1. totalSize' > currentSize
          BY <2>2, <4>2
        <5> QED BY <1>7, <2>4, <3>1, <4>2, <5>1
      <4> QED BY <4>1, <4>2
    <3>3. CASE main' = <<>> /\ stage' = "receiving" /\ totalSize' > currentSize
      BY <2>2, <3>1, <3>3
    <3>4. CASE main' = Append(<<>>, CompleteBlock(TRUE)) /\ stage' = "ended"
      <4>1. CompleteBlock(TRUE).event = "complete"
        BY BlocksAreBlocks
      <4>2. DOMAIN main' = {1} /\ main'[1] = CompleteBlock(TRUE)
        BY <3>4
      <4> QED BY <3>4, <4>1, <4>2
    <3> QED BY <3>2, <3>3, <3>4
  <2>5. stage \in {"answered", "ended"}
    <3>1. stage \in {"asked", "answered", "receiving", "ended"} /\ 1 \in DOMAIN main
      BY <2>1, HeadOfMain DEF TypeOK, Stages
    <3> QED BY <2>1, <3>1 DEF Shape
  <2> QED BY <2>3, <2>4, <2>5
<1>8. CASE DidReceiveData
  <2> USE DEF DidReceiveData
  <2>1. main # <<>> /\ main[1].event = "data"
    BY <1>8, HeadOfMain
  <2>2. /\ currentSize' = currentSize + 1 /\ Len(main') = Len(main) - 1
        /\ UNCHANGED <<totalSize, stage, coming>>
        /\ Len(main) \in Nat /\ currentSize \in Nat /\ Len(coming) \in Nat /\ totalSize \in Int
    BY <1>8, <2>1, HeadOfMain DEF TypeOK
  <2>3. stage = "ended" => totalSize >= currentSize + Len(main) - 1
    BY <2>1, HeadOfMain
  <2> QED BY <2>2, <2>3
<1>9. CASE DidComplete
  <2> USE DEF DidComplete
  <2>1. main # <<>> /\ main[1].event = "complete"
    BY <1>9, HeadOfMain
  <2>2. stage = "ended" /\ Len(main) = 1
    <3>1. stage \in {"asked", "answered", "receiving", "ended"} /\ 1 \in DOMAIN main
      BY <2>1, HeadOfMain DEF TypeOK, Stages
    <3> QED BY <2>1, <3>1 DEF Shape
  <2>3. main' = <<>>
    BY <1>9, <2>1, <2>2, HeadOfMain
  <2> QED BY <1>9, <2>2, <2>3
<1>10. CASE UNCHANGED vars
  BY <1>10 DEF vars
<1> QED BY <1>1, <1>2, <1>3, <1>4, <1>5, <1>6, <1>7, <1>8, <1>9, <1>10
       DEF Next, Client, Session, Delegate

-----------------------------------------------------------------------------
(* A server that sends what it is asked for.                               *)

Faithful == Continues /\ FileIsPrefix

(* Data come only after an answer that gave a length.                      *)
LEMMA LengthWithData ==
    ASSUME TypeOK, Shape, Announced, Continues, ~ odd,
           main # <<>>, main[1].event = "data"
    PROVE  totalSize = Size
<1>1. stage \in {"receiving", "ended"}
  <2>1. stage \in {"asked", "answered", "receiving", "ended"} /\ 1 \in DOMAIN main
    BY HeadOfMain DEF TypeOK, Stages
  <2> QED BY <2>1 DEF Shape
<1>2. currentSize \in Nat /\ Len(main) \in Nat \ {0} /\ Len(coming) \in Nat
  BY HeadOfMain DEF TypeOK
<1>3. totalSize \in Int /\ totalSize >= currentSize /\ totalSize # 0
  <2>1. CASE stage = "receiving"
    BY <1>2, <2>1 DEF Announced
  <2>2. CASE stage = "ended"
    <3>1. Len(main) >= 2
      <4>1. Len(main) # 1
        BY <2>2, HeadOfMain DEF Shape
      <4> QED BY <1>2, <4>1
    <3>2. totalSize >= currentSize + Len(main) - 1 /\ totalSize \in Int
      BY <2>2, HeadOfMain DEF Announced, TypeOK
    <3> QED BY <1>2, <3>1, <3>2
  <2> QED BY <1>1, <2>1, <2>2
<1> QED BY <1>2, <1>3 DEF Continues

(* Every step keeps the file a prefix, and the bytes to come those it lacks. *)
LEMMA ContinuesStep ==
    ASSUME TypeOK, Shape, Announced, Faithful, [Next]_vars
    PROVE  Faithful'
<1> SUFFICES ASSUME ~odd'
             PROVE  Faithful'
  BY DEF Faithful, Continues, FileIsPrefix
<1>0. ~odd
  BY DEF Next, Client, SetupTask, PauseDownload, ContinueDownload, Session, ServerAnswers,
         SessionBrings, AllBrought, ConnectionFails, SessionEnds, Delegate, DidReceiveResponse,
         DidReceiveData, DidComplete, Restart, vars
<1> USE <1>0, SizeAssumption DEF Faithful, Continues, FileIsPrefix, memory, session
<1>1. CASE SetupTask
  BY <1>1 DEF SetupTask, Shape
<1>2. CASE PauseDownload \/ ContinueDownload
  BY <1>2 DEF PauseDownload, ContinueDownload
<1>3. CASE Restart
  BY <1>3 DEF Restart
<1>4. CASE ServerAnswers
  <2>1. PICK kind \in Servers :
          /\ coming' = Body(kind)
          /\ main' = Append(main, ResponseBlock(
                        IF kind = "unknown" THEN -1 ELSE Len(Body(kind))))
          /\ odd' = (odd \/ kind = "page" \/ (kind = "whole" /\ currentSize > 0))
    BY <1>4 DEF ServerAnswers
  <2>2. /\ main = <<>> /\ stage' = "answered" /\ dataTask # "none"
        /\ UNCHANGED <<file, currentSize, totalSize>>
    BY <1>4 DEF ServerAnswers, Shape
  <2>3. currentSize = Len(file) /\ currentSize \in 0 .. Size
    BY <2>2 DEF Shape, TypeOK
  <2>4. kind \in {"ranges", "whole", "unknown"} /\ (kind = "whole" => currentSize = 0)
    <3>1. kind \in {"ranges", "page", "whole", "unknown"}
      BY ServersAssumption DEF ServerKinds
    <3>2. kind # "page" /\ (kind = "whole" => ~(currentSize > 0))
      BY <2>1
    <3> QED BY <2>3, <3>1, <3>2
  <2>5. coming' = BytesAfter(currentSize)
    BY <2>1, <2>4 DEF Body
  <2>6. Len(coming') = Size - currentSize /\ \A j \in DOMAIN coming' : coming'[j] = currentSize + j
    BY SMTT(30), <2>3, <2>5, BytesAfterShape
  <2>7. PICK n \in {-1, Size - currentSize} : main' = Append(<<>>, ResponseBlock(n))
    BY <2>1, <2>2, <2>4, <2>6
  <2>8. DOMAIN main' = {1} /\ main'[1] = ResponseBlock(n)
    BY <2>7
  <2>9. main'[1].event = "response" /\ main'[1].length = n
    <3>1. n \in -1 .. Size
      BY <2>3
    <3> QED BY <2>8, <3>1, BlocksAreBlocks
  <2> QED BY <2>2, <2>3, <2>6, <2>8, <2>9
<1>5. CASE SessionBrings
  <2>1. /\ main' = Append(main, DataBlock(Head(coming))) /\ stage = "receiving"
        /\ coming # <<>> /\ coming' = Tail(coming)
        /\ UNCHANGED <<file, totalSize, currentSize, stage>>
    BY <1>5 DEF SessionBrings
  <2>2. /\ Head(coming) \in Bytes /\ Head(coming) = coming[1] /\ 1 \in DOMAIN coming
        /\ \A j \in DOMAIN coming' : j + 1 \in DOMAIN coming /\ coming'[j] = coming[j + 1]
        /\ Len(main) \in Nat /\ Len(file) \in Nat
    BY <2>1, TailShape DEF TypeOK
  <2>3. /\ DataBlock(Head(coming)).event = "data"
        /\ DataBlock(Head(coming)).byte = Len(file) + Len(main) + 1
        /\ DataBlock(Head(coming)) \in Blocks
    BY <2>1, <2>2, BlocksAreBlocks
  <2>4. /\ DOMAIN main' = 1 .. Len(main) + 1 /\ Len(main') = Len(main) + 1
        /\ DOMAIN main = 1 .. Len(main)
        /\ \A k \in DOMAIN main : main'[k] = main[k]
        /\ main'[Len(main) + 1] = DataBlock(Head(coming))
    BY <2>1, <2>3, AppendShape DEF TypeOK
  <2>5. \A k \in DOMAIN main' :
              /\ main'[k].event = "data" => main'[k].byte = Len(file) + k
              /\ main'[k].event = "response" =>
                    main'[k].length \in {-1, Size - currentSize}
    <3> SUFFICES ASSUME NEW k \in DOMAIN main'
                 PROVE  /\ main'[k].event = "data" => main'[k].byte = Len(file) + k
                        /\ main'[k].event = "response" =>
                              main'[k].length \in {-1, Size - currentSize}
      OBVIOUS
    <3>1. CASE k \in DOMAIN main
      BY <2>4, <3>1
    <3>2. CASE k = Len(main) + 1
      BY <2>2, <2>3, <2>4, <3>2
    <3> QED BY <2>2, <2>4, <3>1, <3>2
  <2>6. \A j \in DOMAIN coming' : coming'[j] = Len(file) + Len(main') + j
    <3> SUFFICES ASSUME NEW j \in DOMAIN coming'
                 PROVE  coming'[j] = Len(file) + Len(main') + j
      OBVIOUS
    <3>1. j \in Nat
      BY <2>1, TailShape DEF TypeOK
    <3>2. coming'[j] = Len(file) + Len(main) + (j + 1)
      BY <2>1, <2>2
    <3> QED BY <2>2, <2>4, <3>1, <3>2
  <2> QED BY <2>1, <2>5, <2>6
<1>6. CASE AllBrought \/ ConnectionFails
  <2>1. PICK e \in BOOLEAN : main' = Append(main, CompleteBlock(e))
    BY <1>6 DEF AllBrought, ConnectionFails, SessionEnds
  <2>2. CompleteBlock(e) \in Blocks /\ CompleteBlock(e).event = "complete"
    BY BlocksAreBlocks
  <2>3. stage' = "ended" /\ UNCHANGED <<file, totalSize, currentSize>>
    BY <1>6 DEF AllBrought, ConnectionFails, SessionEnds
  <2>4. \A k \in DOMAIN main' : main'[k].event # "complete" =>
                                   k \in DOMAIN main /\ main'[k] = main[k]
    BY <2>1, <2>2, AppendShape DEF TypeOK
  <2> QED BY <2>3, <2>4
<1>7. CASE DidReceiveResponse
  <2> USE DEF DidReceiveResponse
  <2>1. main # <<>> /\ main[1].event = "response"
    BY <1>7, HeadOfMain
  <2>2. /\ totalSize' = main[1].length + currentSize /\ currentSize \in Nat
        /\ UNCHANGED <<file, currentSize, coming>>
    BY <1>7, <2>1, HeadOfMain DEF TotalSize, TypeOK
  <2>3. totalSize' \in {Size, currentSize - 1}
    BY <2>1, <2>2, HeadOfMain
  <2>4. stage \in {"answered", "ended"} /\ Len(main) \in {1, 2}
    <3>1. stage \in {"asked", "answered", "receiving", "ended"} /\ 1 \in DOMAIN main
      BY <2>1, HeadOfMain DEF TypeOK, Stages
    <3>2. Len(main) \in Nat \ {0} /\ Len(main) <= 2
      BY <2>1, HeadOfMain DEF Shape
    <3>3. stage \in {"answered", "ended"}
      BY <2>1, <3>1 DEF Shape
    <3>4. \A n \in Nat \ {0} : n <= 2 => n \in {1, 2}
      OBVIOUS
    <3> QED BY <3>2, <3>3, <3>4
  <2>5. \A k \in DOMAIN main' : main'[k].event = "complete"
    <3>1. main' \in {Tail(main), Append(Tail(main), CompleteBlock(TRUE))}
      BY <1>7
    <3>2. Tail(main) \in Seq(Blocks)
          /\ \A k \in DOMAIN Tail(main) : Tail(main)[k].event = "complete"
      <4>1. \A k \in DOMAIN Tail(main) : stage = "ended" /\ k + 1 = Len(main)
        BY <2>1, <2>4, HeadOfMain DEF Shape
      <4> QED BY <2>1, <4>1, HeadOfMain DEF Shape
    <3>3. CompleteBlock(TRUE) \in Blocks /\ CompleteBlock(TRUE).event = "complete"
      BY BlocksAreBlocks
    <3>4. CASE main' = Tail(main)
      BY <3>2, <3>4
    <3>5. CASE main' = Append(Tail(main), CompleteBlock(TRUE))
      <4> DEFINE rest == Tail(main)
                 end == CompleteBlock(TRUE)
      <4>1. rest \in Seq(Blocks) /\ end \in Blocks /\ end.event = "complete"
            /\ \A k \in DOMAIN rest : rest[k].event = "complete"
        BY <3>2, <3>3
      <4>2. main' = Append(rest, end)
        BY <3>5
      <4> HIDE DEF rest, end
      <4>3. \A k \in DOMAIN main' : main'[k] = end \/ (k \in DOMAIN rest /\ main'[k] = rest[k])
        BY <4>1, <4>2, AppendShape
      <4> QED BY <4>1, <4>3
    <3> QED BY <3>1, <3>4, <3>5
  <2>6. stage' = "receiving" => stage = "answered" /\ main' = <<>>
    <3>1. stage' = "receiving" => stage = "answered" /\ main' = Tail(main)
      BY <1>7, <2>4
    <3>2. stage = "answered" => Len(main) = 1
      BY DEF Shape
    <3>3. Tail(main) \in Seq(Blocks) /\ (Len(main) = 1 => Len(Tail(main)) = 0)
      BY <2>1, HeadOfMain
    <3>4. Len(main) = 1 => Tail(main) = <<>>
      BY <3>3, EmptySeq
    <3> QED BY <3>1, <3>2, <3>4
  <2>7. stage' # "answered" /\ Len(file) \in Nat
    <3>1. stage' \in {"ended", "receiving"}
      BY <1>7
    <3> QED BY <3>1 DEF TypeOK
  <2>8. stage' = "receiving" =>
           \A j \in DOMAIN coming' : coming'[j] = Len(file') + Len(main') + j
    BY <2>2, <2>6, <2>7
  <2> QED BY <2>2, <2>3, <2>5, <2>7, <2>8
<1>8. CASE DidReceiveData
  <2> USE DEF DidReceiveData
  <2>1. main # <<>> /\ main[1].event = "data"
    BY <1>8, HeadOfMain
  <2>2. stage \in {"receiving", "ended"} /\ dataTask # "none" /\ fileHandle
    <3>1. stage \in {"asked", "answered", "receiving", "ended"} /\ 1 \in DOMAIN main
      BY <2>1, HeadOfMain DEF TypeOK, Stages
    <3> QED BY <2>1, <3>1 DEF Shape
  <2>3. /\ file' = Append(file, main[1].byte) /\ main' = Tail(main)
        /\ UNCHANGED <<totalSize, stage, coming>>
    BY <1>8, <2>1, <2>2, HeadOfMain
  <2>4. main[1].byte \in Bytes /\ main[1].byte = Len(file) + 1
    BY <2>1, HeadOfMain, BlockFields
  <2>5. /\ Len(file') = Len(file) + 1 /\ Len(file) \in Nat /\ Len(file') <= Size
        /\ DOMAIN file' = 1 .. Len(file) + 1 /\ DOMAIN file = 1 .. Len(file)
        /\ \A i \in DOMAIN file : file'[i] = file[i]
        /\ file'[Len(file) + 1] = Len(file) + 1
    BY <2>3, <2>4, AppendShape DEF TypeOK, Bytes
  <2>6. \A i \in DOMAIN file' : file'[i] = i
    BY <2>5
  <2>7. \A k \in DOMAIN main' :
              /\ main'[k].event = "data" => main'[k].byte = Len(file') + k
              /\ main'[k].event # "response"
    <3> SUFFICES ASSUME NEW k \in DOMAIN main'
                 PROVE  /\ main'[k].event = "data" => main'[k].byte = Len(file') + k
                        /\ main'[k].event # "response"
      OBVIOUS
    <3>1. k \in Nat \ {0} /\ k + 1 \in DOMAIN main /\ main'[k] = main[k + 1]
      BY <2>1, <2>3, HeadOfMain
    <3>2. main[k + 1].event # "response"
      BY <3>1 DEF Shape
    <3>3. main[k + 1].event = "data" => main[k + 1].byte = Len(file) + (k + 1)
      BY <3>1
    <3> QED BY <2>5, <3>1, <3>2, <3>3
  <2>8. stage = "receiving" => \A j \in DOMAIN coming' : coming'[j] = Len(file') + Len(main') + j
    <3> SUFFICES ASSUME stage = "receiving", NEW j \in DOMAIN coming
                 PROVE  coming[j] = Len(file') + Len(main') + j
      BY <2>3
    <3>1. Len(main') = Len(main) - 1 /\ Len(main) \in Nat /\ j \in Nat
      BY <2>1, <2>3, HeadOfMain DEF TypeOK
    <3> QED BY <2>5, <3>1
  <2>9. totalSize = Size
    BY <2>1, LengthWithData
  <2> QED BY <2>2, <2>3, <2>5, <2>6, <2>7, <2>8, <2>9
<1>9. CASE DidComplete
  <2> USE DEF DidComplete
  <2>1. main # <<>> /\ main[1].event = "complete"
    BY <1>9, HeadOfMain
  <2>2. stage = "ended" /\ Len(main) = 1
    <3>1. stage \in {"asked", "answered", "receiving", "ended"} /\ 1 \in DOMAIN main
      BY <2>1, HeadOfMain DEF TypeOK, Stages
    <3> QED BY <2>1, <3>1 DEF Shape
  <2>3. main' = <<>>
    BY <1>9, <2>1, <2>2, HeadOfMain
  <2> QED BY <1>9, <2>2, <2>3
<1>10. CASE UNCHANGED vars
  BY <1>10 DEF vars
<1> QED BY <1>1, <1>2, <1>3, <1>4, <1>5, <1>6, <1>7, <1>8, <1>9, <1>10
       DEF Next, Client, Session, Delegate

(* What the client is told.                                                *)
LEMMA ReportStep ==
    ASSUME TypeOK, Shape, Announced, Faithful, ReportIsTrue, [Next]_vars
    PROVE  ReportIsTrue'
<1> SUFFICES ASSUME ~odd'
             PROVE  /\ reported' = "done" /\ LengthIsKnown' => Len(file') = Size
                    /\ reported' = "failed" => Len(file') < Size
  BY DEF ReportIsTrue
<1>0. ~odd
  BY DEF Next, Client, SetupTask, PauseDownload, ContinueDownload, Session, ServerAnswers,
         SessionBrings, AllBrought, ConnectionFails, SessionEnds, Delegate, DidReceiveResponse,
         DidReceiveData, DidComplete, Restart, vars
<1> USE <1>0, SizeAssumption DEF ReportIsTrue, LengthIsKnown, memory, session
<1>1. CASE /\ UNCHANGED <<file, totalSize, reported>>
           /\ (UNCHANGED currentSize) \/ reported = "nothing"
  <2>1. CASE UNCHANGED currentSize
    BY <1>1, <2>1
  <2>2. CASE reported = "nothing"
    BY <1>1, <2>2
  <2> QED BY <1>1, <2>1, <2>2
<1>2. CASE Client \/ Session \/ UNCHANGED vars
  <2>1. SetupTask => reported = "nothing"
    BY DEF SetupTask, Shape
  <2> QED BY <1>1, <1>2, <2>1 DEF Client, SetupTask, PauseDownload, ContinueDownload, Session,
            ServerAnswers, SessionBrings, AllBrought, ConnectionFails, SessionEnds, vars
<1>3. CASE Restart
  BY <1>3 DEF Restart
<1>4. CASE DidReceiveResponse
  <2>1. main # <<>> /\ main[1].event = "response"
    BY <1>4, HeadOfMain DEF DidReceiveResponse
  <2>2. reported = "nothing"
    BY <2>1, HeadOfMain DEF Shape
  <2> QED BY <1>4, <2>2 DEF DidReceiveResponse
<1>5. CASE DidReceiveData
  <2> USE DEF DidReceiveData
  <2>1. main # <<>> /\ main[1].event = "data"
    BY <1>5, HeadOfMain
  <2>2. /\ dataTask # "none" /\ main'= Tail(main)
        /\ currentSize' = currentSize + 1 /\ totalSize' = totalSize
    <3>1. stage # "asked"
      BY <2>1 DEF Shape
    <3> QED BY <1>5, <3>1 DEF Shape
  <2>3. reported # "failed" /\ currentSize = Len(file) /\ fileHandle
    BY <2>1, <2>2 DEF Shape
  <2>4. main[1].byte \in Bytes /\ main[1].byte = Len(file) + 1
    BY <2>1, HeadOfMain, BlockFields DEF Faithful, Continues
  <2>5. Len(file') = Len(file) + 1 /\ Len(file) + 1 <= Size /\ Len(file) \in Nat
    <3>1. file' = Append(file, main[1].byte)
      BY <1>5, <2>1, <2>3, HeadOfMain
    <3> QED BY <2>4, <3>1, AppendShape DEF TypeOK, Bytes
  <2>6. totalSize = Size /\ reported # "done"
    <3>1. totalSize = Size
      BY <2>1, LengthWithData DEF Faithful
    <3>2. LengthIsKnown
      BY <2>3, <2>5, <3>1
    <3> QED BY <2>5, <3>1, <3>2
  <2>7. reported' = "done" => currentSize' >= totalSize
    BY <1>5, <2>2, <2>6
  <2>8. reported' # "failed"
    BY <1>5, <2>3
  <2> QED BY <2>2, <2>3, <2>5, <2>6, <2>7, <2>8
<1>6. CASE DidComplete
  <2> USE DEF DidComplete
  <2>1. /\ main # <<>> /\ main[1].event = "complete"
        /\ UNCHANGED <<file, totalSize, currentSize>>
    BY <1>6, HeadOfMain
  <2>2. dataTask # "none"
    BY <2>1, HeadOfMain DEF Shape
  <2>3. /\ currentSize = Len(file) /\ Len(file) <= Size /\ Len(file) \in Nat
        /\ totalSize \in {0, Size, currentSize - 1}
    BY <2>1, <2>2 DEF Shape, Faithful, Continues, FileIsPrefix, TypeOK
  <2>4. reported' \in {reported, ReportOfError}
    BY <1>6
  <2>5. CASE reported' = reported
    BY <2>1, <2>5
  <2>6. CASE reported' = ReportOfError
    BY <2>1, <2>3, <2>6 DEF ReportOfError
  <2> QED BY <2>4, <2>5, <2>6
<1> QED BY <1>2, <1>3, <1>4, <1>5, <1>6 DEF Next, Delegate

-----------------------------------------------------------------------------
(* The theorems.                                                           *)

(* Nothing has been asked for and nothing is on disk.                      *)
LEMMA InitInv == Init => IInv
<1> SUFFICES ASSUME Init PROVE IInv
  OBVIOUS
<1> USE SizeAssumption DEF Init
<1>1. TypeOK
  <2>1. file \in Seq(Bytes) /\ coming \in Seq(Bytes) /\ main \in Seq(Blocks)
    OBVIOUS
  <2>2. restarts \in 0 .. MaxRestarts /\ currentSize \in Nat /\ totalSize = 0
    OBVIOUS
  <2>3. fileHandle \in BOOLEAN /\ odd \in BOOLEAN
    OBVIOUS
  <2> QED BY <2>1, <2>2, <2>3 DEF TypeOK, Stages
<1>2. Shape /\ Announced
  BY DEF Shape, Announced
<1>3. Continues /\ FileIsPrefix /\ ReportIsTrue
  BY DEF Continues, FileIsPrefix, ReportIsTrue
<1> QED BY <1>1, <1>2, <1>3 DEF IInv

(* The inductive invariant holds in every reachable state of the task. *)
THEOREM Inductive == Spec => []IInv
<1>1. IInv /\ [Next]_vars => IInv'
  <2> SUFFICES ASSUME IInv, [Next]_vars
               PROVE  IInv'
    OBVIOUS
  <2>1. TypeOK /\ Shape /\ Announced /\ Faithful /\ ReportIsTrue
    BY DEF IInv, Faithful
  <2>2. TypeOK' /\ Shape' /\ Announced' /\ Faithful' /\ ReportIsTrue'
    BY <2>1, TypeStep, ShapeStep, AnnouncedStep, ContinuesStep, ReportStep
  <2> QED BY <2>2 DEF IInv, Faithful
<1> QED BY InitInv, <1>1, PTL DEF Spec

(* Every variable keeps its type, and what has come is never more than one *)
(* byte ahead of the total announced (TypeOK, URLOfflineDownloadTask.m).   *)
THEOREM TypeCorrect == Spec => []TypeOK
<1>1. IInv => TypeOK
  BY DEF IInv
<1> QED BY Inductive, <1>1, PTL

(* However often the download is paused, fails or is killed, the file is   *)
(* the first bytes of the resource, each once, if the server has always    *)
(* sent what it was asked for (setupTask, didReceiveData).                 *)
THEOREM PrefixOnDisk == Spec => []FileIsPrefix
<1>1. IInv => FileIsPrefix
  BY DEF IInv
<1> QED BY Inductive, <1>1, PTL

(* Under such a server the client is told that the download is done only   *)
(* when the file is whole, or when the task ended before an answer told    *)
(* the length (didCompleteWithError takes that for done, line 84); and     *)
(* that it failed only when the file is not whole: ReportIsTrue.           *)
THEOREM TrueReport == Spec => []ReportIsTrue
<1>1. IInv => ReportIsTrue
  BY DEF IInv
<1> QED BY Inductive, <1>1, PTL
=============================================================================
