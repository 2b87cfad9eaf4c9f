------------------------ MODULE BlobRecorderProofs -------------------------
(***************************************************************************)
(* A BlobRecorder is a Recorder, whatever its files and the wire do: what  *)
(* RecorderProofs shows of every recorder holds of it.  Its index points   *)
(* at its payloads, what was flushed survives, and the gaps it counts are  *)
(* explained by what was lost and dropped.                                 *)
(***************************************************************************)
EXTENDS BlobRecorder, RecorderProofs

LEMMA StepIsRecorderStep == [Next]_vars => [RecorderNext]_recorderVars
<1> SUFFICES ASSUME [Next]_vars PROVE RecorderNext \/ UNCHANGED recorderVars
  OBVIOUS
<1> USE DEF RecorderNext, CallerStep, WriterStep, OwnerStep
<1>1. CASE Arrive \/ Push
  BY <1>1 DEF Arrive, Push
<1>2. CASE WriterThread
  BY <1>2 DEF WriterThread, TakeBatch, WriteFrame, FlushData, FlushIndex, Exit
<1>3. CASE OwnerThread
  BY <1>3 DEF OwnerThread, Open, OpenFails, Close, Join
<1>4. CASE WireStep \/ UNCHANGED vars
  BY <1>4 DEF WireStep, Lose, RestartPublisher, vars
<1> QED
  BY <1>1, <1>2, <1>3, <1>4 DEF Next

\* Every behaviour of a BlobRecorder is a behaviour of a Recorder.
THEOREM IsRecorder == Spec => RecorderSpec
<1>1. Init => RecorderInit
  BY DEF Init
<1> QED
  BY <1>1, StepIsRecorderStep, PTL DEF Spec, RecorderSpec

\* No frame is ever unaccounted for, frames are written in the order they were
\* accepted, and close() leaves none behind.
THEOREM FramesAccounted == Spec => [](Accounted /\ AcceptedInOrder /\ ClosedIsDrained)
  BY IsRecorder, AllAccounted, Ordered, Drains, PTL
-----------------------------------------------------------------------------
Element == Frame \X Nat
IndexRow == [frame : Frame, offset : Nat, size : Nat]

\* the types, and that a run begins no later than now
BlobTypes == TypeOK /\ runStart <= Len(attempted)

LEMMA PayloadIs ==
    ASSUME NEW f \in Frame
    PROVE  /\ Size[f.seq] \in Nat
           /\ Payload(f) \in Seq(Element) /\ Len(Payload(f)) = Size[f.seq]
           /\ \A k \in 1..Size[f.seq] : Payload(f)[k] = <<f, k>>
<1>1. Size[f.seq] \in Nat
  BY FrameAssumption DEF FrameAssumption, Frame
<1> DEFINE n == Size[f.seq]
<1> HIDE DEF n
<1>2. Payload(f) = [k \in 1..n |-> <<f, k>>] /\ n \in Nat
  BY <1>1 DEF Payload, n
<1>3. \A k \in 1..n : <<f, k>> \in Element
  BY <1>2 DEF Element
<1>4. Payload(f) \in Seq(Element) /\ Len(Payload(f)) = n
  BY <1>2, <1>3
<1> QED
  BY <1>2, <1>4 DEF n

\* What WriteFrame does to the files.
LEMMA AppendedIs ==
    ASSUME NEW f \in Frame, data \in Stream(Element), index \in Stream(IndexRow),
           offset \in Nat, AppendFrame(f)
    PROVE  LET row == [frame |-> f, offset |-> offset, size |-> Size[f.seq]]
           IN  /\ row \in IndexRow /\ offset' = offset + Size[f.seq]
               /\ data' \in Stream(Element) /\ Grows(data, data')
               /\ data'.good => data.good /\ Content(data') = Content(data) \o Payload(f)
               /\ index' \in Stream(IndexRow) /\ Grows(index, index')
               /\ index'.good => index.good /\ Content(index') = Content(index) \o <<row>>
<1> DEFINE row == [frame |-> f, offset |-> offset, size |-> Size[f.seq]]
           x == <<row>>
<1>1. Payload(f) \in Seq(Element) /\ row \in IndexRow
  BY PayloadIs DEF IndexRow
<1>2. x \in Seq(IndexRow) /\ index' \in WriteOutcomes(index, x)
      /\ data' \in WriteOutcomes(data, Payload(f)) /\ offset' = offset + Size[f.seq]
  BY <1>1 DEF AppendFrame
<1> HIDE DEF x
<1>3. /\ data' \in Stream(Element) /\ Grows(data, data')
      /\ data'.good => data.good /\ Content(data') = Content(data) \o Payload(f)
  BY <1>1, <1>2, Written
<1>4. /\ index' \in Stream(IndexRow) /\ Grows(index, index')
      /\ index'.good => index.good /\ Content(index') = Content(index) \o x
  BY <1>2, Written
<1> QED
  BY <1>1, <1>2, <1>3, <1>4 DEF x

LEMMA TypesInit == Init => BlobTypes
<1> SUFFICES ASSUME Init PROVE BlobTypes
  OBVIOUS
<1> USE FrameAssumption DEF FrameAssumption, Init
<1>1. RecorderTypeOK /\ attempted = <<>>
  BY InitIInv DEF IInv, RecorderInit
<1>2. Unopened \in Stream(Element) /\ Unopened \in Stream(IndexRow)
  BY DEF Unopened, Stream
<1>3. publisher \in [gen : 0..MaxRestarts, seq : 0..MaxSeq] /\ arriving \in Seq(Frame)
  OBVIOUS
<1>4. /\ data \in Stream(Frame \X Nat)
      /\ index \in Stream([frame : Frame, offset : Nat, size : Nat])
  BY <1>2 DEF Element, IndexRow
<1>5a. {offset, lastSeq, wireGaps, bytes, runStart, flushed} \subseteq Nat
  OBVIOUS
<1>5b. TypeOK
  BY <1>1, <1>3, <1>4, <1>5a DEF TypeOK
<1>5. runStart <= Len(attempted)
  BY <1>1
<1> QED
  BY <1>5b, <1>5 DEF BlobTypes

LEMMA TypesStep == IInv /\ BlobTypes /\ [Next]_vars => BlobTypes'
<1> SUFFICES ASSUME IInv, BlobTypes, [Next]_vars PROVE BlobTypes'
  OBVIOUS
<1>0. /\ RecorderTypeOK' /\ attempted \in Seq(Record) /\ attempted' \in Seq(Record)
      /\ Len(attempted) \in Nat
  BY StepIsRecorderStep, IInvStep, LenProperties DEF IInv, RecorderTypeOK
<1>1. /\ publisher \in [gen : 0..MaxRestarts, seq : 0..MaxSeq]
      /\ lost \in Nat /\ arriving \in Seq(Frame)
      /\ data \in Stream(Element) /\ index \in Stream(IndexRow)
      /\ offset \in Nat /\ lastSeq \in Nat /\ wireGaps \in Nat /\ bytes \in Nat
      /\ runStart \in Nat /\ flushed \in Nat /\ haveSeq \in BOOLEAN
      /\ dataFlushed \in BOOLEAN /\ (dataFlushed => writer = "flush")
      /\ runStart <= Len(attempted)
  BY DEF BlobTypes, TypeOK, Element, IndexRow
<1> USE FrameAssumption
    DEF FrameAssumption, sinkVars, seqVars, historyVars, wireVars
\* what a step has to show
<1> DEFINE Goal == /\ publisher' \in [gen : 0..MaxRestarts, seq : 0..MaxSeq]
                   /\ lost' \in Nat /\ arriving' \in Seq(Frame)
                   /\ data' \in Stream(Element) /\ index' \in Stream(IndexRow)
                   /\ offset' \in Nat /\ lastSeq' \in Nat /\ wireGaps' \in Nat /\ bytes' \in Nat
                   /\ runStart' \in Nat /\ flushed' \in Nat /\ haveSeq' \in BOOLEAN
                   /\ dataFlushed' \in BOOLEAN /\ (dataFlushed' => writer' = "flush")
                   /\ runStart' <= Len(attempted')
<1> SUFFICES Goal
  BY <1>0 DEF BlobTypes, TypeOK, Element, IndexRow
<1>a. publisher.seq < MaxSeq /\ Published
         => publisher' \in [gen : 0..MaxRestarts, seq : 0..MaxSeq]
  <2> SUFFICES ASSUME publisher.seq < MaxSeq, Published
               PROVE  publisher' \in [gen : 0..MaxRestarts, seq : 0..MaxSeq]
    OBVIOUS
  <2>1. publisher.seq \in 0..MaxSeq /\ publisher.gen \in 0..MaxRestarts
    BY <1>1
  <2>2. publisher.seq + 1 \in 0..MaxSeq
    BY <2>1
  <2>3. publisher' = [gen |-> publisher.gen, seq |-> publisher.seq + 1]
    BY <1>1 DEF Published
  <2> QED
    BY <2>1, <2>2, <2>3
<1>2. CASE Lose
  BY <1>1, <1>2, <1>a DEF Lose, recorderVars, writerVars
<1>3. CASE RestartPublisher
  BY <1>1, <1>3 DEF RestartPublisher, recorderVars, writerVars
<1>4. CASE Arrive
  <2>1. publisher \in Frame
    BY <1>1, <1>4 DEF Arrive, Frame
  <2>2. arriving' \in Seq(Frame)
    BY <1>4, <2>1 DEF Arrive
  <2> QED
    BY <1>1, <1>4, <1>a, <2>2 DEF Arrive, Receive, writerVars
<1>5. CASE Push
  <2>1. UNCHANGED <<writer, attempted>>
    BY <1>5 DEF Push, Enqueue, Refuse, CountDrop, writerVars
  <2> QED
    BY <1>1, <1>5, <2>1 DEF Push
<1>6. CASE TakeBatch \/ Exit
  BY <1>1, <1>6 DEF TakeBatch, PopBatch, Exit, WriterExit
<1>7. CASE WriteFrame
  <2> DEFINE f == Head(batch)
  <2>1. f \in Frame /\ AppendFrame(f) /\ writer = "write"
    BY <1>7, HeadTailProperties DEF WriteFrame, WriteOne, IInv, RecorderTypeOK
  <2> HIDE DEF f
  <2>2. data' \in Stream(Element) /\ index' \in Stream(IndexRow) /\ offset' \in Nat
    <3>1. offset' = offset + Size[f.seq] /\ Size[f.seq] \in Nat
      BY <2>1, PayloadIs DEF AppendFrame
    <3>2. data' \in Stream(Element) /\ index' \in Stream(IndexRow)
      BY <1>1, <2>1, AppendedIs
    <3> QED
      BY <1>1, <3>1, <3>2
  <2>3. f.seq \in Nat /\ Size[f.seq] \in Nat
    BY <2>1, PayloadIs DEF Frame
  <2>4. Missing(f) \in Nat
    BY <1>1, <2>3 DEF Missing
  <2>5. lastSeq' \in Nat /\ haveSeq' \in BOOLEAN /\ wireGaps' \in Nat
        /\ UNCHANGED <<dataFlushed, historyVars, wireVars>>
    <3>1. /\ lastSeq' = f.seq /\ haveSeq' = TRUE /\ wireGaps' = wireGaps + Missing(f)
          /\ UNCHANGED <<dataFlushed, historyVars, wireVars>>
      BY ONLY <1>7 DEF WriteFrame, f
    <3> QED
      BY ONLY <1>1, <2>3, <2>4, <3>1
  <2>6. bytes' \in Nat
    <3>1. PICK ok \in BOOLEAN : bytes' = IF ok THEN bytes + Size[f.seq] ELSE bytes
      BY <1>7 DEF WriteFrame, f
    <3>2. bytes' = bytes + Size[f.seq] \/ bytes' = bytes
      BY <3>1
    <3> QED
      BY <1>1, <2>3, <3>2
  <2>7. Len(attempted') = Len(attempted) + 1
    BY <1>0, <1>7 DEF WriteFrame, WriteOne
  <2> QED
    BY <1>0, <1>1, <2>1, <2>2, <2>5, <2>6, <2>7
<1>8. CASE FlushData
  <2>1. data' \in Stream(Element)
    BY <1>1, <1>8, FlushedIs DEF FlushData
  <2> QED
    BY <1>1, <1>8, <2>1 DEF FlushData, recorderVars, writerVars
<1>9. CASE FlushIndex
  <2>1. index' \in Stream(IndexRow)
    BY <1>1, <1>9, FlushedIs DEF FlushIndex
  <2>2. flushed' \in Nat
    BY <1>0, <1>1, <1>9 DEF FlushIndex
  <2> QED
    BY <1>1, <1>9, <2>1, <2>2 DEF FlushIndex, EndBatch
<1>10. CASE Open
  <2>1. data' \in Stream(Element) /\ index' \in Stream(IndexRow)
    BY <1>1, <1>10, Opened DEF Open, OpenFiles
  <2>2. ~dataFlushed
    BY <1>1, <1>10 DEF Open, StartRun, IInv, WriterMatchesOwner
  <2> QED
    BY <1>0, <1>1, <1>10, <2>1, <2>2 DEF Open, StartRun
<1>11. CASE OpenFails
  <2>1. data' \in Stream(Element) /\ index' \in Stream(IndexRow)
    BY <1>1, <1>11, Opened DEF OpenFails, OpenFiles
  <2> QED
    BY <1>1, <1>11, <2>1 DEF OpenFails, recorderVars, writerVars
<1>12. CASE Close
  BY <1>1, <1>12 DEF Close, BeginClose, writerVars
<1>13. CASE Join
  <2>1. data' \in Stream(Element) /\ index' \in Stream(IndexRow)
    BY <1>1, <1>13, ClosedIs DEF Join
  <2> QED
    BY <1>1, <1>13, <2>1 DEF Join, EndClose, writerVars
<1>14. CASE UNCHANGED vars
  BY <1>1, <1>14 DEF vars, recorderVars, writerVars
<1> QED
  BY <1>2, <1>3, <1>4, <1>5, <1>6, <1>7, <1>8, <1>9, <1>10, <1>11, <1>12, <1>13, <1>14
  DEF Next, WireStep, WriterThread, OwnerThread

\* The types, whatever the disk and the publisher do.
THEOREM BlobTypesHold == Spec => []TypeOK
<1>1. Init => IInv /\ BlobTypes
  BY InitIInv, TypesInit DEF Init
<1>2. IInv /\ BlobTypes /\ [Next]_vars => (IInv /\ BlobTypes)'
  BY StepIsRecorderStep, IInvStep, TypesStep
<1> QED
  BY <1>1, <1>2, PTL DEF Spec, BlobTypes
-----------------------------------------------------------------------------
(* The two files.  open() leaves offset_ at what the run before made it    *)
(* and truncates what that run had flushed, so what follows is about the   *)
(* first run of a recorder; the only caller opens it once.                 *)

\* The row's slice of the blob is its frame's payload, element by element.
Slices(row, blob) ==
    /\ row.size = Size[row.frame.seq]
    /\ row.offset + row.size <= Len(blob)
    /\ \A k \in 1..row.size : blob[row.offset + k] = <<row.frame, k>>

\* Before the first open() there is nothing.
BeforeOpen == /\ runs = 0 => offset = 0 /\ attempted = <<>> /\ runStart = 0 /\ flushed = 0
              /\ owner # "idle" => runs > 0
              /\ runs <= 1 => runStart = 0
              /\ runs <= MaxRuns

\* Good files have a row for each frame attempted, and the blob behind the
\* last payload is where the offset says.
ContentMatches ==
    data.good /\ index.good =>
        /\ offset = Len(Content(data))
        /\ Len(Content(index)) = Len(attempted) - runStart
        /\ \A i \in 1..Len(Content(index)) :
              /\ Content(index)[i].frame = attempted[runStart + i]
              /\ Slices(Content(index)[i], Content(data))

\* What both flushes took is in the files.
FlushedMatches ==
    /\ flushed <= Len(index.disk) /\ flushed <= Len(attempted) - runStart
    /\ \A i \in 1..flushed : /\ index.disk[i].frame = attempted[runStart + i]
                             /\ Slices(index.disk[i], data.disk)

\* Between the two flushes the blob has no buffer.
DataFlushed == dataFlushed /\ data.good => data.buffered = <<>>

\* close() leaves no buffer in a file that is good.
ClosedFlushed == owner = "idle" => /\ data.good => data.buffered = <<>>
                                   /\ index.good => index.buffered = <<>>

SinkInv == /\ BeforeOpen /\ DataFlushed /\ ClosedFlushed
           /\ runs <= 1 => ContentMatches
           /\ MaxRuns <= 1 => FlushedMatches

LEMMA SlicesMap ==
    ASSUME NEW row \in IndexRow, NEW blob \in Seq(Element), Slices(row, blob)
    PROVE  Maps(row, blob)
<1> DEFINE slice == SubSeq(blob, row.offset + 1, row.offset + row.size)
<1>1. row.offset \in Nat /\ row.size \in Nat /\ row.frame \in Frame
      /\ row.size = Size[row.frame.seq] /\ row.offset + row.size <= Len(blob)
  BY DEF IndexRow, Slices
<1>2. /\ Payload(row.frame) \in Seq(Element) /\ Len(Payload(row.frame)) = row.size
      /\ \A k \in 1..row.size : Payload(row.frame)[k] = <<row.frame, k>>
  BY <1>1, PayloadIs
<1>3. /\ slice \in Seq(Element) /\ Len(slice) = row.size
      /\ \A k \in 1..row.size : slice[k] = blob[row.offset + k]
  <2> DEFINE m == row.offset
             n == row.offset + row.size
  <2>1. m \in Nat /\ n \in Nat /\ n <= Len(blob) /\ m <= n /\ n - m = row.size
    BY <1>1
  <2>2. slice = SubSeq(blob, m + 1, n)
    OBVIOUS
  <2> HIDE DEF m, n, slice
  <2>3. /\ slice \in Seq(Element) /\ Len(slice) = n - m
        /\ \A k \in 1..n - m : slice[k] = blob[m + k]
    BY <2>1, <2>2, SubSeqIs
  <2> QED
    BY <2>1, <2>3 DEF m
<1>4. slice = Payload(row.frame)
  <2>1. \A k \in 1..Len(slice) : slice[k] = Payload(row.frame)[k]
    BY <1>2, <1>3 DEF Slices
  <2> QED
    BY <1>2, <1>3, <2>1, SeqEqual
<1> QED
  BY <1>1, <1>4 DEF Maps

LEMMA SlicesGrow ==
    ASSUME NEW row \in IndexRow, NEW blob \in Seq(Element), NEW longer \in Seq(Element),
           Len(blob) <= Len(longer), \A i \in 1..Len(blob) : longer[i] = blob[i],
           Slices(row, blob)
    PROVE  Slices(row, longer)
<1>1. row.offset \in Nat /\ row.size \in Nat /\ Len(blob) \in Nat /\ Len(longer) \in Nat
      /\ row.offset + row.size <= Len(blob)
  BY LenProperties DEF IndexRow, Slices
<1>2. ASSUME NEW k \in 1..row.size PROVE longer[row.offset + k] = <<row.frame, k>>
  <2>1. row.offset + k \in 1..Len(blob)
    BY <1>1
  <2> QED
    BY <2>1 DEF Slices
<1> QED
  BY <1>1, <1>2 DEF Slices

\* A payload more ends the blob, and a row of it says where.
LEMMA PayloadAppended ==
    ASSUME NEW blob \in Seq(Element), NEW row \in IndexRow,
           row.offset = Len(blob), row.size = Size[row.frame.seq]
    PROVE  LET longer == blob \o Payload(row.frame)
           IN  /\ longer \in Seq(Element) /\ Len(longer) = Len(blob) + row.size
               /\ Len(blob) <= Len(longer) /\ \A i \in 1..Len(blob) : longer[i] = blob[i]
               /\ Slices(row, longer)
<1> DEFINE f == row.frame
           longer == blob \o Payload(f)
<1>0. f \in Frame
  BY DEF IndexRow
<1>1. /\ Size[f.seq] \in Nat /\ Payload(f) \in Seq(Element) /\ Len(Payload(f)) = Size[f.seq]
      /\ \A k \in 1..Size[f.seq] : Payload(f)[k] = <<f, k>>
      /\ Len(blob) \in Nat
  BY <1>0, PayloadIs, LenProperties
<1>2. /\ longer \in Seq(Element) /\ Len(longer) = Len(blob) + Size[f.seq]
      /\ \A i \in 1..Len(blob) + Size[f.seq] :
            longer[i] = IF i <= Len(blob) THEN blob[i] ELSE Payload(f)[i - Len(blob)]
  <2> DEFINE p == Payload(f)
  <2>1. p \in Seq(Element) /\ Len(p) = Size[f.seq] /\ longer = blob \o p
    BY <1>1
  <2> HIDE DEF p, longer
  <2>2. /\ longer \in Seq(Element) /\ Len(longer) = Len(blob) + Len(p)
        /\ \A i \in 1..Len(blob) + Len(p) :
            longer[i] = IF i <= Len(blob) THEN blob[i] ELSE p[i - Len(blob)]
    BY <2>1, ConcatProperties
  <2> QED
    BY <2>1, <2>2 DEF p
<1> HIDE DEF longer
<1>3. ASSUME NEW k \in 1..row.size PROVE longer[row.offset + k] = <<row.frame, k>>
  <2>1. row.offset + k \in 1..Len(blob) + Size[f.seq] /\ ~(row.offset + k <= Len(blob))
        /\ (row.offset + k) - Len(blob) = k
    BY <1>1
  <2>2. longer[row.offset + k] = Payload(f)[(row.offset + k) - Len(blob)]
    BY <1>2, <2>1
  <2> QED
    BY <1>1, <2>1, <2>2
<1>4. ASSUME NEW j \in 1..Len(blob) PROVE longer[j] = blob[j]
  <2>1. j \in 1..Len(blob) + Size[f.seq] /\ j <= Len(blob)
    BY <1>1
  <2> QED
    BY <1>2, <2>1
<1>5. Slices(row, longer)
  BY <1>1, <1>2, <1>3 DEF Slices
<1> QED
  BY <1>1, <1>2, <1>4, <1>5 DEF longer

LEMMA ContentIs ==
    ASSUME NEW S, NEW f \in Stream(S)
    PROVE  /\ Content(f) \in Seq(S) /\ f.disk \in Seq(S) /\ Len(f.disk) <= Len(Content(f))
           /\ \A i \in 1..Len(f.disk) : Content(f)[i] = f.disk[i]
           /\ f.buffered = <<>> => Content(f) = f.disk
<1>1. f.disk \in Seq(S) /\ f.buffered \in Seq(S)
  BY DEF Stream
<1>2. Content(f) \in Seq(S) /\ (f.buffered = <<>> => Content(f) = f.disk)
  BY <1>1, ConcatProperties, ConcatEmptySeq DEF Content
<1>3. /\ Len(f.disk) <= Len(f.disk \o f.buffered)
      /\ \A i \in 1..Len(f.disk) : (f.disk \o f.buffered)[i] = f.disk[i]
  BY <1>1, ConcatKeeps
<1> QED
  BY <1>1, <1>2, <1>3 DEF Content

\* What both flushes took stays in files that only grow.
LEMMA FlushedStays ==
    ASSUME IInv, BlobTypes, FlushedMatches, UNCHANGED <<flushed, runStart>>,
           data' \in Stream(Element), index' \in Stream(IndexRow),
           Grows(data, data'), Grows(index, index'),
           attempted' \in Seq(Record), Len(attempted) <= Len(attempted'),
           \A i \in 1..Len(attempted) : attempted'[i] = attempted[i]
    PROVE  FlushedMatches'
<1>1. /\ data.disk \in Seq(Element) /\ data'.disk \in Seq(Element)
      /\ index.disk \in Seq(IndexRow) /\ index'.disk \in Seq(IndexRow)
      /\ runStart \in Nat /\ flushed \in Nat /\ attempted \in Seq(Record)
  BY DEF BlobTypes, TypeOK, RecorderTypeOK, Stream, Element, IndexRow
<1>2. /\ Len(index.disk) \in Nat /\ Len(index'.disk) \in Nat
      /\ Len(attempted) \in Nat /\ Len(attempted') \in Nat
      /\ Len(data.disk) \in Nat /\ Len(data'.disk) \in Nat
  BY <1>1, LenProperties
<1>3. flushed' <= Len(index'.disk) /\ flushed' <= Len(attempted') - runStart'
  BY <1>1, <1>2 DEF FlushedMatches, Grows
<1>4. ASSUME NEW i \in 1..flushed'
      PROVE  index'.disk[i].frame = attempted'[runStart' + i] /\ Slices(index'.disk[i], data'.disk)
  <2>1. i \in 1..Len(index.disk) /\ runStart + i \in 1..Len(attempted) /\ i \in 1..flushed
    BY <1>1, <1>2 DEF FlushedMatches
  <2>2. index'.disk[i] = index.disk[i] /\ attempted'[runStart + i] = attempted[runStart + i]
    BY <2>1 DEF Grows
  <2>3. index.disk[i] \in IndexRow /\ Slices(index.disk[i], data.disk)
        /\ index.disk[i].frame = attempted[runStart + i]
    BY <1>1, <2>1 DEF FlushedMatches
  <2>4. Slices(index.disk[i], data'.disk)
    BY <1>1, <2>3, SlicesGrow DEF Grows
  <2> QED
    BY <2>2, <2>3, <2>4
<1> QED
  BY <1>3, <1>4 DEF FlushedMatches

LEMMA SinkInit == Init => SinkInv
<1> SUFFICES ASSUME Init PROVE SinkInv
  OBVIOUS
<1>1. /\ data = Unopened /\ index = Unopened /\ offset = 0 /\ dataFlushed = FALSE
      /\ runStart = 0 /\ flushed = 0 /\ runs = 0 /\ owner = "idle" /\ attempted = <<>>
  BY DEF Init, RecorderInit
<1>2. Content(Unopened) = <<>> /\ Unopened.disk = <<>>
  BY DEF Content, Unopened
<1>3. BeforeOpen /\ DataFlushed /\ ClosedFlushed
  BY <1>1, BoundsAssumption
  DEF BoundsAssumption, BeforeOpen, DataFlushed, ClosedFlushed, Unopened
<1>4. ContentMatches
  BY <1>1, <1>2 DEF ContentMatches
<1>5. FlushedMatches
  BY <1>1, <1>2 DEF FlushedMatches
<1> QED
  BY <1>3, <1>4, <1>5 DEF SinkInv

LEMMA SinkStep == IInv /\ BlobTypes /\ SinkInv /\ [Next]_vars => SinkInv'
<1> SUFFICES ASSUME IInv, BlobTypes, SinkInv, [Next]_vars PROVE SinkInv'
  OBVIOUS
<1>0. /\ RecorderTypeOK /\ WriterMatchesOwner /\ runs \in Nat
      /\ attempted \in Seq(Record) /\ Len(attempted) \in Nat
      /\ data \in Stream(Element) /\ index \in Stream(IndexRow)
      /\ offset \in Nat /\ runStart \in Nat /\ flushed \in Nat
      /\ runStart <= Len(attempted) /\ dataFlushed \in BOOLEAN
      /\ (dataFlushed => writer = "flush")
  BY LenProperties DEF IInv, RecorderTypeOK, BlobTypes, TypeOK, Element, IndexRow
<1>1. /\ BeforeOpen /\ DataFlushed /\ ClosedFlushed
      /\ runs <= 1 => ContentMatches
      /\ MaxRuns <= 1 => FlushedMatches
  BY DEF SinkInv
<1>2. BlobTypes' /\ RecorderTypeOK' /\ attempted' \in Seq(Record)
      /\ data' \in Stream(Element) /\ index' \in Stream(IndexRow)
  BY TypesStep, StepIsRecorderStep, IInvStep
  DEF IInv, RecorderTypeOK, BlobTypes, TypeOK, Element, IndexRow
\* steps that leave the files and the history of attempts alone
<1>3. ASSUME UNCHANGED <<data, index, offset, runStart, flushed, dataFlushed, attempted, runs>>,
             owner' = "idle" <=> owner = "idle"
      PROVE  SinkInv'
  <2>1. BeforeOpen' /\ DataFlushed' /\ ClosedFlushed'
    BY <1>1, <1>3 DEF BeforeOpen, DataFlushed, ClosedFlushed
  <2>2. runs <= 1 => ContentMatches'
    BY <1>1, <1>3 DEF ContentMatches, Slices
  <2>3. MaxRuns <= 1 => FlushedMatches'
    BY <1>1, <1>3 DEF FlushedMatches, Slices
  <2> QED
    BY <1>3, <2>1, <2>2, <2>3 DEF SinkInv
<1>4. CASE WireStep \/ Arrive \/ Push
  BY <1>3, <1>4 DEF WireStep, Lose, RestartPublisher, Arrive, Push, Receive, Enqueue, Refuse,
     CountDrop, recorderVars, sinkVars, historyVars
<1>5. CASE TakeBatch \/ Exit \/ Close
  BY <1>3, <1>5 DEF TakeBatch, PopBatch, Exit, WriterExit, Close, BeginClose,
     sinkVars, historyVars, writerVars
<1>6. CASE UNCHANGED vars
  BY <1>3, <1>6 DEF vars, recorderVars, sinkVars, historyVars
<1>7. CASE WriteFrame
  <2> DEFINE f == Head(batch)
             row == [frame |-> f, offset |-> offset, size |-> Size[f.seq]]
  <2>1. /\ f \in Frame /\ f \in Record /\ AppendFrame(f) /\ writer = "write"
        /\ attempted' = Append(attempted, f)
        /\ UNCHANGED <<dataFlushed, runStart, flushed, owner, runs>>
    BY <1>0, <1>7, HeadTailProperties, FrameAssumption
    DEF FrameAssumption, WriteFrame, Appended, WriteOne, historyVars, RecorderTypeOK
  <2> HIDE DEF f
  <2>2. /\ offset' = offset + Size[f.seq]
        /\ Grows(data, data') /\ Grows(index, index')
        /\ data'.good => data.good /\ Content(data') = Content(data) \o Payload(f)
        /\ index'.good => index.good /\ Content(index') = Content(index) \o <<row>>
    BY <1>0, <2>1, AppendedIs
  <2>3. /\ Len(attempted') = Len(attempted) + 1 /\ attempted'[Len(attempted) + 1] = f
        /\ \A i \in 1..Len(attempted) : attempted'[i] = attempted[i]
    BY <1>0, <2>1, AppendProperties
  <2>4. owner # "idle" /\ ~dataFlushed /\ runs > 0
    BY <1>0, <1>1, <2>1 DEF WriterMatchesOwner, BeforeOpen
  <2>5. BeforeOpen' /\ DataFlushed' /\ ClosedFlushed'
    BY <1>0, <1>1, <2>1, <2>4 DEF BeforeOpen, DataFlushed, ClosedFlushed
  <2>6. MaxRuns <= 1 => FlushedMatches'
    <3>1. Len(attempted) <= Len(attempted')
      BY <1>0, <2>3
    <3> QED
      BY <1>1, <1>2, <2>1, <2>2, <2>3, <3>1, FlushedStays
  <2>7. runs' <= 1 => ContentMatches'
    <3> SUFFICES ASSUME runs' <= 1, data'.good, index'.good
                 PROVE  /\ offset' = Len(Content(data'))
                        /\ Len(Content(index')) = Len(attempted') - runStart'
                        /\ \A i \in 1..Len(Content(index')) :
                              /\ Content(index')[i].frame = attempted'[runStart' + i]
                              /\ Slices(Content(index')[i], Content(data'))
      BY DEF ContentMatches
    <3> DEFINE blob == Content(data)
               rows == Content(index)
               longer == Content(data')
               more == Content(index')
    <3>1. blob \in Seq(Element) /\ rows \in Seq(IndexRow)
      BY <1>0, ContentIs
    <3>2. /\ offset = Len(blob) /\ Len(rows) = Len(attempted) - runStart
          /\ \A i \in 1..Len(rows) : rows[i].frame = attempted[runStart + i]
          /\ \A i \in 1..Len(rows) : Slices(rows[i], blob)
      BY <1>1, <2>1, <2>2 DEF ContentMatches
    <3>3. /\ longer = blob \o Payload(f) /\ more = rows \o <<row>>
          /\ row \in IndexRow /\ row.frame = f
          /\ row.offset = Len(blob) /\ row.size = Size[f.seq]
      BY <1>0, <2>1, <2>2, <3>2, PayloadIs DEF IndexRow
    <3> HIDE DEF row, blob, rows, longer, more
    <3>a. more = Append(rows, row)
      BY <3>1, <3>3, AppendIsConcat
    <3>4. /\ Len(more) = Len(rows) + 1 /\ more[Len(rows) + 1] = row
          /\ \A i \in 1..Len(rows) : more[i] = rows[i]
      BY <3>1, <3>3, <3>a, AppendProperties
    <3>b. /\ longer \in Seq(Element) /\ Len(longer) = Len(blob) + Size[f.seq]
          /\ Len(blob) <= Len(longer) /\ \A i \in 1..Len(blob) : longer[i] = blob[i]
          /\ Slices(row, longer)
      BY <3>1, <3>3, PayloadAppended
    <3>c. ASSUME NEW i \in 1..Len(more) PROVE Slices(more[i], longer)
      <4>1. CASE i \in 1..Len(rows)
        <5>1. rows[i] \in IndexRow /\ Slices(rows[i], blob) /\ more[i] = rows[i]
          BY <3>1, <3>2, <3>4, <4>1
        <5> QED
          BY <3>1, <3>b, <5>1, SlicesGrow
      <4>2. CASE i = Len(rows) + 1
        BY <3>4, <3>b, <4>2
      <4> QED
        BY <3>1, <3>4, <4>1, <4>2, LenProperties
    <3>5. ASSUME NEW i \in 1..Len(more) PROVE more[i].frame = attempted'[runStart + i]
      <4>1. CASE i <= Len(rows)
        <5>1. i \in 1..Len(rows) /\ runStart + i \in 1..Len(attempted)
          BY <1>0, <3>1, <3>2, <3>4, <4>1, LenProperties
        <5> QED
          BY <2>3, <3>2, <3>4, <5>1
      <4>2. CASE i = Len(rows) + 1
        <5>1. runStart + i = Len(attempted) + 1
          BY <1>0, <3>2, <4>2
        <5> QED
          BY <2>3, <3>3, <3>4, <4>2, <5>1
      <4> QED
        BY <3>1, <3>4, <4>1, <4>2, LenProperties
    <3>6. Len(more) = Len(attempted') - runStart /\ offset' = Len(longer)
      BY <1>0, <2>2, <2>3, <3>2, <3>4, <3>b
    <3> QED
      BY <2>1, <3>c, <3>5, <3>6 DEF longer, more
  <2> QED
    BY <2>5, <2>6, <2>7 DEF SinkInv
<1>8. CASE FlushData
  <2>1. /\ data' \in FlushOutcomes(data) /\ dataFlushed' = TRUE
        /\ UNCHANGED <<index, offset, runStart, flushed, attempted, owner, runs>>
    BY <1>8 DEF FlushData, recorderVars, historyVars
  <2>2. /\ Grows(data, data')
        /\ data'.good => data.good /\ data'.buffered = <<>> /\ Content(data') = Content(data)
    BY <1>0, <2>1, FlushedIs
  <2>3. BeforeOpen' /\ DataFlushed' /\ ClosedFlushed'
    BY <1>1, <2>1, <2>2 DEF BeforeOpen, DataFlushed, ClosedFlushed
  <2>4. runs' <= 1 => ContentMatches'
    BY <1>1, <2>1, <2>2 DEF ContentMatches, Slices
  <2>5. MaxRuns <= 1 => FlushedMatches'
    <3>1. Grows(index, index')
      BY <1>0, <2>1 DEF Grows
    <3> QED
      BY <1>0, <1>1, <1>2, <2>1, <2>2, <3>1, FlushedStays
  <2> QED
    BY <2>3, <2>4, <2>5 DEF SinkInv
<1>9. CASE FlushIndex
  <2>1. /\ index' \in FlushOutcomes(index) /\ dataFlushed /\ dataFlushed' = FALSE
        /\ flushed' = IF data.good /\ index'.good THEN Len(attempted) - runStart ELSE flushed
        /\ UNCHANGED <<data, offset, runStart, attempted, owner, runs>>
        /\ writer = "flush"
    BY <1>9 DEF FlushIndex, EndBatch, historyVars
  <2>2. /\ Grows(index, index')
        /\ index'.good => /\ index.good /\ index'.disk = Content(index)
                          /\ Content(index') = Content(index)
    BY <1>0, <2>1, FlushedIs
  <2>3. owner # "idle" /\ runs > 0
    BY <1>0, <1>1, <2>1 DEF WriterMatchesOwner, BeforeOpen
  <2>4. BeforeOpen' /\ DataFlushed' /\ ClosedFlushed'
    BY <1>0, <1>1, <2>1, <2>3 DEF BeforeOpen, DataFlushed, ClosedFlushed
  <2>5. runs' <= 1 => ContentMatches'
    BY <1>1, <2>1, <2>2 DEF ContentMatches, Slices
  <2>6. CASE data.good /\ index'.good
    <3> SUFFICES ASSUME MaxRuns <= 1 PROVE FlushedMatches'
      BY <2>4, <2>5 DEF SinkInv
    <3>0. ContentMatches
      BY <1>0, <1>1, BoundsAssumption DEF BoundsAssumption, BeforeOpen
    <3>1. data.disk = Content(data) /\ index'.disk = Content(index)
      BY <1>0, <1>1, <2>1, <2>2, <2>6, ContentIs DEF DataFlushed
    <3>2. /\ Len(index'.disk) = Len(attempted) - runStart
          /\ flushed' = Len(attempted) - runStart
      BY <3>0, <2>1, <2>2, <2>6, <3>1 DEF ContentMatches
    <3>3. \A i \in 1..flushed' : /\ index'.disk[i].frame = attempted[runStart + i]
                                 /\ Slices(index'.disk[i], data.disk)
      BY <3>0, <2>2, <2>6, <3>1, <3>2 DEF ContentMatches
    <3>4. flushed' <= Len(index'.disk) /\ flushed' <= Len(attempted') - runStart'
      BY <1>0, <2>1, <3>2
    <3>5. \A i \in 1..flushed' : /\ index'.disk[i].frame = attempted'[runStart' + i]
                                 /\ Slices(index'.disk[i], data'.disk)
      BY <2>1, <3>3
    <3> QED
      BY <3>4, <3>5 DEF FlushedMatches
  <2>7. CASE ~(data.good /\ index'.good)
    <3>1. Grows(data, data') /\ UNCHANGED flushed
      BY <1>0, <2>1, <2>7 DEF Grows
    <3>2. MaxRuns <= 1 => FlushedMatches'
      BY <1>0, <1>1, <1>2, <2>1, <2>2, <3>1, FlushedStays
    <3> QED
      BY <2>4, <2>5, <3>2 DEF SinkInv
  <2> QED
    BY <2>6, <2>7
<1>10. CASE Join
  <2>1. /\ data' \in CloseOutcomes(data) /\ index' \in CloseOutcomes(index)
        /\ UNCHANGED <<offset, runStart, flushed, dataFlushed, attempted, runs>>
        /\ owner' = "idle" /\ writer = "absent"
    BY <1>10 DEF Join, EndClose, historyVars
  <2>2. /\ Grows(data, data') /\ Grows(index, index')
        /\ data'.good => data.good /\ Content(data') = Content(data) /\ data'.buffered = <<>>
        /\ index'.good => index.good /\ Content(index') = Content(index) /\ index'.buffered = <<>>
    BY <1>0, <2>1, ClosedIs
  <2>3. BeforeOpen' /\ DataFlushed' /\ ClosedFlushed'
    BY <1>0, <1>1, <2>1, <2>2 DEF BeforeOpen, DataFlushed, ClosedFlushed
  <2>4. runs' <= 1 => ContentMatches'
    BY <1>1, <2>1, <2>2 DEF ContentMatches, Slices
  <2>5. MaxRuns <= 1 => FlushedMatches'
    BY <1>0, <1>1, <1>2, <2>1, <2>2, FlushedStays
  <2> QED
    BY <2>3, <2>4, <2>5 DEF SinkInv
<1>11. CASE Open
  <2>1. /\ runs < MaxRuns /\ OpenFiles /\ UNCHANGED <<offset, attempted, dataFlushed>>
        /\ flushed' = 0 /\ owner = "idle" /\ owner' = "open" /\ runs' = runs + 1
        /\ runStart' = Len(attempted)
    BY <1>11 DEF Open, StartRun
  <2>2. /\ data'.good => Content(data') = <<>>
        /\ index'.good => Content(index') = <<>>
    BY <1>0, <2>1, Opened DEF OpenFiles
  <2>3. ~dataFlushed
    BY <1>0, <2>1 DEF WriterMatchesOwner
  <2>4. runs' <= 1 => runs = 0 /\ offset = 0 /\ attempted = <<>>
    BY <1>0, <1>1, <2>1 DEF BeforeOpen
  <2>5. BeforeOpen' /\ DataFlushed' /\ ClosedFlushed'
    <3>1. runs' > 0 /\ runs' <= MaxRuns /\ (runs' <= 1 => runStart' = 0)
      BY <1>0, <2>1, <2>4, BoundsAssumption DEF BoundsAssumption
    <3> QED
      BY <2>1, <2>3, <3>1 DEF BeforeOpen, DataFlushed, ClosedFlushed
  <2>6. runs' <= 1 => ContentMatches'
    BY <2>1, <2>2, <2>4 DEF ContentMatches
  <2>7. MaxRuns <= 1 => FlushedMatches'
    <3>1. Len(index'.disk) \in Nat
      BY <1>2, LenProperties DEF Stream
    <3> QED
      BY <1>0, <2>1, <3>1 DEF FlushedMatches
  <2> QED
    BY <2>5, <2>6, <2>7 DEF SinkInv
\* One of the two is bad, so there is nothing to show of their content.
<1>12. CASE OpenFails
  <2>1. /\ runs < MaxRuns /\ OpenFiles /\ owner = "idle" /\ ~(data'.isOpen /\ index'.isOpen)
        /\ UNCHANGED <<offset, attempted, dataFlushed, flushed, runStart, owner, runs>>
    BY <1>12 DEF OpenFails, recorderVars, historyVars
  <2>2. /\ ~(data'.good /\ index'.good)
        /\ data'.good => data'.buffered = <<>>
        /\ index'.good => index'.buffered = <<>>
    BY <1>0, <2>1, Opened DEF OpenFiles
  <2>3. BeforeOpen' /\ ClosedFlushed'
    BY <1>1, <2>1, <2>2 DEF BeforeOpen, ClosedFlushed
  <2>4. DataFlushed'
    BY <1>0, <2>1 DEF DataFlushed, WriterMatchesOwner
  <2>5. ContentMatches'
    BY <2>2 DEF ContentMatches
  <2>6. MaxRuns <= 1 => FlushedMatches'
    <3> SUFFICES ASSUME MaxRuns <= 1 PROVE FlushedMatches'
      OBVIOUS
    <3>1. flushed' = 0 /\ runStart' = 0
      BY <1>0, <1>1, <2>1, BoundsAssumption DEF BoundsAssumption, BeforeOpen
    <3>2. Len(index'.disk) \in Nat
      BY <1>2, LenProperties DEF Stream
    <3> QED
      BY <1>0, <2>1, <3>1, <3>2 DEF FlushedMatches
  <2> QED
    BY <2>3, <2>4, <2>5, <2>6 DEF SinkInv
<1> QED
  BY <1>4, <1>5, <1>6, <1>7, <1>8, <1>9, <1>10, <1>11, <1>12
  DEF Next, WriterThread, OwnerThread

LEMMA IndexFollows == IInv /\ BlobTypes /\ SinkInv => (runs <= 1 => IndexMapsBlob)
<1> SUFFICES ASSUME IInv, BlobTypes, SinkInv, runs <= 1, data.good, index.good,
                    NEW row \in ToSet(Content(index))
             PROVE  Maps(row, Content(data))
  BY DEF IndexMapsBlob
<1>1. Content(data) \in Seq(Element) /\ Content(index) \in Seq(IndexRow)
  BY ContentIs DEF BlobTypes, TypeOK, Element, IndexRow
<1>2. PICK i \in 1..Len(Content(index)) : row = Content(index)[i]
  BY <1>1 DEF ToSet
<1>3. row \in IndexRow /\ Slices(row, Content(data))
  BY <1>1, <1>2 DEF SinkInv, ContentMatches
<1> QED
  BY <1>1, <1>3, SlicesMap

LEMMA FlushedFollows == IInv /\ BlobTypes /\ FlushedMatches => FlushedSurvives
<1> SUFFICES ASSUME IInv, BlobTypes, FlushedMatches PROVE FlushedSurvives
  OBVIOUS
<1>1. /\ data.disk \in Seq(Element) /\ index.disk \in Seq(IndexRow)
      /\ runStart \in Nat /\ flushed \in Nat /\ attempted \in Seq(Record)
      /\ Len(attempted) \in Nat /\ Len(index.disk) \in Nat /\ runStart <= Len(attempted)
  BY LenProperties DEF BlobTypes, TypeOK, RecorderTypeOK, Stream, Element, IndexRow
<1>2. \A i \in 1..Len(attempted) - runStart : ThisRun[i] = attempted[runStart + i]
  BY <1>1, SubSeqIs DEF ThisRun
<1>3. ASSUME NEW i \in 1..flushed
      PROVE  index.disk[i].frame = ThisRun[i] /\ Maps(index.disk[i], data.disk)
  <2>1. i \in 1..Len(index.disk) /\ i \in 1..Len(attempted) - runStart
    BY <1>1 DEF FlushedMatches
  <2>2. /\ index.disk[i] \in IndexRow /\ Slices(index.disk[i], data.disk)
        /\ index.disk[i].frame = attempted[runStart + i]
    BY <1>1, <2>1 DEF FlushedMatches
  <2> QED
    BY <1>1, <1>2, <2>1, <2>2, SlicesMap
<1> QED
  BY <1>1, <1>3 DEF FlushedSurvives, FlushedMatches

\* Nothing is queued, held or in the call: what was received is what was
\* attempted, and good files without buffers have all of that.
LEMMA CloseFollows == IInv /\ BlobTypes /\ SinkInv => CloseKeepsReceived
<1> SUFFICES ASSUME IInv, BlobTypes, SinkInv, owner = "idle", caller = "idle", runs = 1,
                    dropped = 0, data.good, index.good
             PROVE  /\ received = Len(accepted) /\ received = Len(index.disk)
                    /\ \A i \in 1..received : /\ index.disk[i].frame = accepted[i]
                                              /\ Maps(index.disk[i], data.disk)
  BY DEF CloseKeepsReceived
<1>1. /\ data \in Stream(Element) /\ index \in Stream(IndexRow)
      /\ attempted \in Seq(Record) /\ Len(attempted) \in Nat /\ received \in Nat
      /\ attempted = accepted
  BY IInvDrained, LenProperties
  DEF BlobTypes, TypeOK, IInv, RecorderTypeOK, ClosedIsDrained, Element, IndexRow
<1>2. received = Len(accepted)
  <2>1. queue = <<>> /\ batch = <<>>
    BY DEF IInv, WriterMatchesOwner, RecorderTypeOK
  <2>2. /\ received = dropped + written + writeErrors + Len(queue) + Len(batch)
        /\ Len(attempted) = written + writeErrors
        /\ written \in Nat /\ writeErrors \in Nat
    BY DEF IInv, Accounted, AttemptsCounted, RecorderTypeOK
  <2>3. Len(queue) = 0 /\ Len(batch) = 0
    BY <2>1
  <2> QED
    BY <1>1, <2>2, <2>3
<1>3. /\ Content(data) = data.disk /\ Content(index) = index.disk
      /\ data.disk \in Seq(Element) /\ index.disk \in Seq(IndexRow)
  BY <1>1, ContentIs DEF SinkInv, ClosedFlushed
<1>4. ContentMatches /\ runStart = 0
  BY DEF SinkInv, BeforeOpen
<1>5. Len(index.disk) = received
  BY <1>1, <1>2, <1>3, <1>4 DEF ContentMatches
<1>6. ASSUME NEW i \in 1..received
      PROVE  index.disk[i].frame = accepted[i] /\ Maps(index.disk[i], data.disk)
  <2>1. i \in 1..Len(index.disk) /\ runStart + i = i
    BY <1>1, <1>4, <1>5
  <2>2. /\ index.disk[i].frame = attempted[runStart + i]
        /\ Slices(index.disk[i], data.disk)
    BY <1>3, <1>4, <2>1 DEF ContentMatches
  <2>3. index.disk[i] \in IndexRow
    BY <1>3, <2>1
  <2> QED
    BY <1>1, <1>3, <2>1, <2>2, <2>3, SlicesMap
<1> QED
  BY <1>2, <1>5, <1>6

LEMMA SinkInvariance == Spec => [](IInv /\ BlobTypes /\ SinkInv)
<1>1. Init => IInv /\ BlobTypes /\ SinkInv
  BY InitIInv, TypesInit, SinkInit DEF Init
<1>2. IInv /\ BlobTypes /\ SinkInv /\ [Next]_vars => (IInv /\ BlobTypes /\ SinkInv)'
  BY StepIsRecorderStep, IInvStep, TypesStep, SinkStep
<1> QED
  BY <1>1, <1>2, PTL DEF Spec

\* In the first run of a recorder, every row of the index points at exactly its
\* own frame's payload, at every moment until a write fails, for frames of any
\* sizes and any number of them.
THEOREM IndexMaps == Spec => [](runs <= 1 => IndexMapsBlob)
  BY SinkInvariance, IndexFollows, PTL

LEMMA WrittenByWriteFrame == [Next]_vars /\ written' # written => WriteFrame /\ Appended
<1> SUFFICES ASSUME [Next]_vars, written' # written PROVE WriteFrame /\ Appended
  OBVIOUS
<1>1. CASE Arrive \/ Push
  BY <1>1 DEF Arrive, Push, Receive, Enqueue, Refuse, CountDrop, writerVars
<1>2. CASE TakeBatch \/ FlushData \/ FlushIndex \/ Exit
  BY <1>2 DEF TakeBatch, PopBatch, FlushData, FlushIndex, EndBatch, Exit, WriterExit,
              recorderVars, writerVars
<1>3. CASE WriteFrame
  BY <1>3 DEF WriteFrame, WriteOne
<1>4. CASE OwnerThread
  BY <1>4 DEF OwnerThread, Open, StartRun, OpenFails, Close, BeginClose, Join, EndClose,
              recorderVars, writerVars
<1>5. CASE WireStep \/ UNCHANGED vars
  BY <1>5 DEF WireStep, Lose, RestartPublisher, vars, recorderVars, writerVars
<1> QED
  BY <1>1, <1>2, <1>3, <1>4, <1>5 DEF Next, WriterThread

\* In the first run of a recorder, a frame that is counted as written has its row
\* at the end of the index and its payload where the row says, whatever failed
\* before and of whichever file.
THEOREM WrittenThere == Spec => WrittenIsThere
<1> DEFINE row == Content(index)[Len(Content(index))]
<1>1. ASSUME BlobTypes', SinkInv', [Next]_vars, runs = 1, written' # written
      PROVE  row'.frame = attempted'[Len(attempted')] /\ Maps(row', Content(data'))
  <2>1. WriteFrame /\ Appended
    BY <1>1, WrittenByWriteFrame
  <2>2. /\ data'.good /\ index'.good /\ runs' = 1 /\ runStart' = 0
        /\ attempted' = Append(attempted, Head(batch))
    BY <1>1, <2>1 DEF WriteFrame, WriteOne, Appended, SinkInv, BeforeOpen
  <2>3. /\ Content(data') \in Seq(Element) /\ Content(index') \in Seq(IndexRow)
        /\ attempted' \in Seq(Record)
    BY <1>1, ContentIs DEF BlobTypes, TypeOK, RecorderTypeOK, Element, IndexRow
  <2>4. /\ Len(Content(index')) = Len(attempted')
        /\ \A i \in 1..Len(Content(index')) :
              /\ Content(index')[i].frame = attempted'[i]
              /\ Slices(Content(index')[i], Content(data'))
    BY <1>1, <2>2, <2>3 DEF SinkInv, ContentMatches
  <2>5. Len(attempted') \in 1..Len(attempted')
    BY <2>2, <2>3
  <2> QED
    BY <2>3, <2>4, <2>5, SlicesMap
<1>2. (BlobTypes /\ SinkInv)' /\ [Next]_vars
         => [runs = 1 /\ written' # written
               => /\ Last(Content(index')).frame = Last(attempted')
                  /\ Maps(Last(Content(index')), Content(data'))]_vars
  BY <1>1 DEF Last
<1> QED
  BY <1>2, SinkInvariance, PTL DEF Spec, WrittenIsThere

\* In a recorder that is opened once, a kill at any moment leaves every frame of
\* the batches flushed before, in order and where its row says, also when the
\* disk has failed since.
THEOREM Survives ==
    ASSUME MaxRuns <= 1
    PROVE  Spec => []FlushedSurvives
<1>1. IInv /\ BlobTypes /\ SinkInv => FlushedSurvives
  BY FlushedFollows DEF SinkInv
<1> QED
  BY <1>1, SinkInvariance, PTL

\* When close() has returned from the first run of a recorder, nothing was
\* dropped and the streams are good, the files hold every frame received, in
\* order, each payload where its row says.
THEOREM CloseKeeps == Spec => []CloseKeepsReceived
  BY SinkInvariance, CloseFollows, PTL
-----------------------------------------------------------------------------
(* Gaps.  The writer counts them long after the frames were missed, so the *)
(* invariant is about every frame on the way: there are bounds g, one for  *)
(* each accepted frame, that grow by at least the gap before the frame,    *)
(* and the last is at most what has been lost and dropped by now.          *)

Place == [gen : Nat, seq : Nat]

\* a was published before what comes at p, and how many came between them at
\* least: after a restart of the publisher all from 0 on
Precedes(a, p) == a.gen < p.gen \/ (a.gen = p.gen /\ a.seq < p.seq)
Since(a, p) == IF a.gen = p.gen THEN p.seq - (a.seq + 1) ELSE p.seq

Newest == accepted[Len(accepted)]

\* The frame in the call and the last one accepted were published in this order.
InOrder ==
    /\ caller = "counted" => /\ arriving # <<>> /\ Precedes(arriving[1], publisher)
                             /\ accepted # <<>> => Precedes(Newest, arriving[1])
    /\ caller # "counted" => (accepted # <<>> => Precedes(Newest, publisher))

SeqMatches ==
    /\ haveSeq <=> attempted # <<>>
    /\ ~haveSeq => wireGaps = 0
    /\ haveSeq => lastSeq = attempted[Len(attempted)].seq

\* g bounds the gaps among the accepted frames.
Rises(g) ==
    /\ \A i \in 1..Len(accepted) : \A j \in i..Len(accepted) : g[i] <= g[j]
    /\ \A i \in 1..Len(accepted) - 1 :
          g[i] + accepted[i + 1].seq <= g[i + 1] + accepted[i].seq + 1

\* the gaps up to a frame that would be accepted at p
Upto(g, p) == IF accepted = <<>> THEN 0 ELSE g[Len(accepted)] + Since(Newest, p)

\* All of them are lost or dropped, but for the frame in the call.
Level(g) ==
    /\ accepted # <<>> => g[Len(accepted)] <= lost + dropped
    /\ caller = "idle" => Upto(g, publisher) <= lost + dropped
    /\ caller = "counted" =>
          Upto(g, arriving[1]) + Since(arriving[1], publisher) <= lost + dropped
    /\ caller = "refused" => Upto(g, publisher) <= lost + dropped + 1

Bound(g) == /\ g \in [1..Len(accepted) -> Nat]
            /\ Rises(g) /\ Level(g)
            /\ haveSeq => wireGaps <= g[Len(attempted)]

GapInv == InOrder /\ SeqMatches /\ \E g : Bound(g)

LEMMA SinceIs ==
    ASSUME NEW a \in Place, NEW p \in Place, Precedes(a, p)
    PROVE  Since(a, p) \in Nat /\ p.seq <= Since(a, p) + a.seq + 1
  BY DEF Place, Precedes, Since

LEMMA SinceChain ==
    ASSUME NEW a \in Place, NEW r \in Place, NEW p \in Place, Precedes(a, r), Precedes(r, p)
    PROVE  Precedes(a, p) /\ Since(a, p) <= Since(a, r) + Since(r, p) + 1
  BY DEF Place, Precedes, Since

LEMMA NextPlace ==
    ASSUME NEW a \in Place, NEW p \in Place, Precedes(a, p) \/ a = p,
           NEW q \in Place, q.gen = p.gen, q.seq = p.seq + 1
    PROVE  /\ Precedes(a, q)
           /\ a = p => Since(a, q) = 0
           /\ a # p => Since(a, q) = Since(a, p) + 1
<1>1. a \in [gen : Nat, seq : Nat] /\ p \in [gen : Nat, seq : Nat]
  BY DEF Place
<1>2. a.gen \in Nat /\ a.seq \in Nat /\ p.gen \in Nat /\ p.seq \in Nat
  BY <1>1
<1>3. Precedes(a, q)
  BY <1>2 DEF Precedes
<1>4. CASE a = p
  BY <1>2, <1>3, <1>4 DEF Since, Precedes
<1>5. CASE a # p
  BY <1>2, <1>3, <1>5 DEF Since, Precedes
<1> QED
  BY <1>3, <1>4, <1>5

LEMMA RestartPlace ==
    ASSUME NEW a \in Place, NEW p \in Place, Precedes(a, p),
           NEW q \in Place, q.gen = p.gen + 1, q.seq = 0
    PROVE  Precedes(a, q) /\ Since(a, q) = 0
  BY DEF Place, Precedes, Since

\* What is attempted is the first part of what is accepted.
LEMMA AttemptedFirst ==
    ASSUME IInv
    PROVE  /\ attempted \in Seq(Record) /\ accepted \in Seq(Record) /\ batch \in Seq(Record)
           /\ Len(attempted) \in Nat /\ Len(accepted) \in Nat
           /\ Len(attempted) <= Len(accepted)
           /\ \A i \in 1..Len(attempted) : accepted[i] = attempted[i]
           /\ batch # <<>> => /\ Len(attempted) + 1 <= Len(accepted)
                              /\ accepted[Len(attempted) + 1] = Head(batch)
<1>1. /\ attempted \in Seq(Record) /\ accepted \in Seq(Record) /\ batch \in Seq(Record)
      /\ queue \in Seq(Record) /\ accepted = (attempted \o batch) \o queue
  BY DEF IInv, RecorderTypeOK, QueueTypeOK, AcceptedInOrder
<1>2. Len(attempted) \in Nat /\ Len(accepted) \in Nat /\ Len(batch) \in Nat
      /\ Len(attempted \o batch) \in Nat /\ attempted \o batch \in Seq(Record)
  BY <1>1, LenProperties, ConcatProperties
<1>3. /\ Len(attempted) <= Len(attempted \o batch)
      /\ Len(attempted \o batch) = Len(attempted) + Len(batch)
      /\ \A i \in 1..Len(attempted) : (attempted \o batch)[i] = attempted[i]
  BY <1>1, ConcatKeeps, ConcatProperties
<1>4. /\ Len(attempted \o batch) <= Len(accepted)
      /\ \A i \in 1..Len(attempted \o batch) : accepted[i] = (attempted \o batch)[i]
  BY <1>1, <1>2, ConcatKeeps
<1>5. ASSUME batch # <<>>
      PROVE  Len(attempted) + 1 <= Len(accepted) /\ accepted[Len(attempted) + 1] = Head(batch)
  <2>1. Len(batch) >= 1
    BY <1>1, <1>2, <1>5, EmptySeq
  <2>2. (attempted \o batch)[Len(attempted) + 1] = batch[1]
    BY <1>1, <1>2, <2>1
  <2>3. Head(batch) = batch[1]
    BY <1>1, <1>5
  <2> QED
    BY <1>2, <1>3, <1>4, <2>1, <2>2, <2>3
<1> QED
  BY <1>1, <1>2, <1>3, <1>4, <1>5

LEMMA GapInit == Init => GapInv
<1> SUFFICES ASSUME Init PROVE GapInv
  OBVIOUS
<1>1. /\ accepted = <<>> /\ attempted = <<>> /\ lost = 0 /\ dropped = 0
      /\ haveSeq = FALSE /\ wireGaps = 0 /\ caller = "idle"
  BY DEF Init, RecorderInit
<1>2. InOrder /\ SeqMatches
  BY <1>1 DEF InOrder, SeqMatches
<1> DEFINE g == [i \in 1..0 |-> 0]
<1>3. Bound(g)
  BY <1>1 DEF Bound, Rises, Level, Upto
<1> QED
  BY <1>2, <1>3 DEF GapInv

\* The types of what the gaps are about.
LEMMA GapTypes ==
    ASSUME IInv, BlobTypes
    PROVE  /\ publisher \in Place /\ lost \in Nat /\ dropped \in Nat /\ wireGaps \in Nat
           /\ accepted \in Seq(Place) /\ Len(accepted) \in Nat /\ arriving \in Seq(Place)
           /\ (accepted # <<>> => Newest \in Place /\ Len(accepted) \in 1..Len(accepted))
           /\ (arriving # <<>> => arriving[1] \in Place)
           /\ haveSeq \in BOOLEAN /\ caller \in {"idle", "counted", "refused"}
<1>1. /\ Record = Frame /\ accepted \in Seq(Record) /\ arriving \in Seq(Frame)
      /\ publisher \in [gen : 0..MaxRestarts, seq : 0..MaxSeq]
      /\ lost \in Nat /\ dropped \in Nat /\ wireGaps \in Nat /\ haveSeq \in BOOLEAN
      /\ caller \in {"idle", "counted", "refused"}
  BY FrameAssumption
  DEF FrameAssumption, IInv, BlobTypes, TypeOK, RecorderTypeOK
<1>2. Frame \subseteq Place
  BY DEF Frame, Place
<1>3. publisher \in Place
  BY <1>1 DEF Place
<1>4. accepted \in Seq(Place) /\ arriving \in Seq(Place) /\ Len(accepted) \in Nat
  BY <1>1, <1>2, LenProperties
<1>5. accepted # <<>> => Newest \in Place /\ Len(accepted) \in 1..Len(accepted)
  BY <1>4, EmptySeq DEF Newest
<1>6. arriving # <<>> => arriving[1] \in Place
  BY <1>4, EmptySeq
<1> QED
  BY <1>1, <1>3, <1>4, <1>5, <1>6

\* One frame more is published: it is lost, or it arrives.
LEMMA PublishedGaps ==
    ASSUME IInv, BlobTypes, GapInv, Published,
           UNCHANGED <<accepted, attempted, dropped, wireGaps, haveSeq, lastSeq>>,
           \/ lost' = lost + 1 /\ UNCHANGED <<caller, arriving>>
           \/ /\ lost' = lost /\ caller = "idle" /\ caller' = "counted"
              /\ arriving' = <<publisher>>
    PROVE  GapInv'
<1>1. /\ publisher \in Place /\ lost \in Nat /\ dropped \in Nat
      /\ (accepted # <<>> => Newest \in Place /\ Len(accepted) \in 1..Len(accepted))
      /\ (arriving # <<>> => arriving[1] \in Place)
      /\ caller \in {"idle", "counted", "refused"}
  BY GapTypes
<1>2. publisher' \in Place /\ publisher'.gen = publisher.gen
      /\ publisher'.seq = publisher.seq + 1
  BY <1>1 DEF Published, Place
<1>3. InOrder /\ SeqMatches
  BY DEF GapInv
<1>4. PICK g : Bound(g)
  BY DEF GapInv
<1>5. Newest' = Newest /\ SeqMatches'
  BY <1>3 DEF Newest, SeqMatches
<1>6. /\ Rises(g)' /\ g \in [1..Len(accepted) -> Nat]
      /\ (haveSeq => wireGaps <= g[Len(attempted)])
      /\ (accepted # <<>> => g[Len(accepted)] \in Nat)
  BY <1>1, <1>4 DEF Bound, Rises
<1>7. CASE lost' = lost + 1 /\ UNCHANGED <<caller, arriving>>
  <2>1. ASSUME NEW a \in Place, Precedes(a, publisher)
        PROVE  Precedes(a, publisher') /\ Since(a, publisher') = Since(a, publisher) + 1
               /\ Since(a, publisher) \in Nat
    <3>1. a # publisher
      BY <1>1, <2>1 DEF Place, Precedes
    <3> QED
      BY <1>1, <1>2, <2>1, <3>1, NextPlace, SinceIs
  <2>2. InOrder'
    BY <1>1, <1>3, <1>5, <1>7, <2>1 DEF InOrder
  <2>3. Level(g)'
    <3>1. caller # "counted" => Upto(g, publisher)' <= Upto(g, publisher) + 1
                                /\ Upto(g, publisher) \in Int /\ Upto(g, publisher)' \in Int
      BY <1>1, <1>3, <1>5, <1>6, <2>1 DEF Upto, InOrder
    <3>2. caller = "counted" =>
             /\ Upto(g, arriving[1])' = Upto(g, arriving[1]) /\ Upto(g, arriving[1]) \in Int
             /\ Since(arriving[1], publisher) \in Int
             /\ Since(arriving[1], publisher)' = Since(arriving[1], publisher) + 1
      <4> SUFFICES ASSUME caller = "counted"
                   PROVE  /\ Upto(g, arriving[1])' = Upto(g, arriving[1])
                          /\ Upto(g, arriving[1]) \in Int
                          /\ Since(arriving[1], publisher) \in Int
                          /\ Since(arriving[1], publisher)' = Since(arriving[1], publisher) + 1
        OBVIOUS
      <4>1. arriving[1] \in Place /\ Precedes(arriving[1], publisher) /\ arriving' = arriving
            /\ (accepted # <<>> => Precedes(Newest, arriving[1]))
        BY <1>1, <1>3, <1>7 DEF InOrder
      <4>2. Since(arriving[1], publisher') = Since(arriving[1], publisher) + 1
            /\ Since(arriving[1], publisher) \in Int
        BY <2>1, <4>1
      <4>3. accepted # <<>> => Since(Newest, arriving[1]) \in Nat
        BY <1>1, <4>1, SinceIs
      <4> QED
        BY <1>5, <1>6, <4>1, <4>2, <4>3 DEF Upto
    <3> QED
      BY <1>1, <1>4, <1>6, <1>7, <3>1, <3>2 DEF Level, Bound
  <2> QED
    BY <1>5, <1>6, <2>2, <2>3 DEF GapInv, Bound
<1>8. CASE lost' = lost /\ caller = "idle" /\ caller' = "counted" /\ arriving' = <<publisher>>
  <2>1. arriving'[1] = publisher /\ arriving' # <<>>
    BY <1>8
  <2>2. Precedes(publisher, publisher') /\ Since(publisher, publisher') = 0
    BY <1>1, <1>2, NextPlace
  <2>3. InOrder'
    BY <1>3, <1>5, <1>8, <2>1, <2>2 DEF InOrder
  <2>4. Level(g)'
    <3>1. Upto(g, arriving[1])' = Upto(g, publisher) /\ Upto(g, publisher) <= lost + dropped
          /\ (accepted # <<>> => g[Len(accepted)] <= lost + dropped)
      BY <1>4, <1>5, <1>8, <2>1 DEF Upto, Bound, Level
    <3>2. Upto(g, publisher) \in Int
      BY <1>1, <1>3, <1>6, <1>8, SinceIs DEF Upto, InOrder
    <3>3. (Upto(g, arriving[1]) + Since(arriving[1], publisher))' <= lost' + dropped'
      BY <1>1, <1>8, <2>1, <2>2, <3>1, <3>2
    <3> QED
      BY <1>8, <3>1, <3>3 DEF Level
  <2> QED
    BY <1>5, <1>6, <2>3, <2>4 DEF GapInv, Bound
<1> QED
  BY <1>7, <1>8

\* A publisher that starts again goes back to 0.
LEMMA RestartGaps == IInv /\ BlobTypes /\ GapInv /\ RestartPublisher => GapInv'
<1> SUFFICES ASSUME IInv, BlobTypes, GapInv, RestartPublisher PROVE GapInv'
  OBVIOUS
<1>0. UNCHANGED <<accepted, attempted, lost, dropped, caller, arriving, wireGaps, haveSeq, lastSeq>>
  BY DEF RestartPublisher, recorderVars, callerVars, seqVars
<1>1. /\ publisher \in Place /\ lost \in Nat /\ dropped \in Nat
      /\ (accepted # <<>> => Newest \in Place /\ Len(accepted) \in 1..Len(accepted))
      /\ (arriving # <<>> => arriving[1] \in Place)
      /\ caller \in {"idle", "counted", "refused"}
  BY GapTypes
<1>2. publisher' \in Place /\ publisher'.gen = publisher.gen + 1 /\ publisher'.seq = 0
  BY <1>1 DEF RestartPublisher, Place
<1>3. InOrder /\ SeqMatches
  BY DEF GapInv
<1>4. PICK g : Bound(g)
  BY DEF GapInv
<1>5. Newest' = Newest /\ SeqMatches'
  BY <1>0, <1>3 DEF Newest, SeqMatches
<1>6. /\ Rises(g)' /\ g \in [1..Len(accepted) -> Nat]
      /\ (haveSeq => wireGaps <= g[Len(attempted)])
      /\ (accepted # <<>> => g[Len(accepted)] \in Nat)
  BY <1>0, <1>1, <1>4 DEF Bound, Rises
<1>7. ASSUME NEW a \in Place, Precedes(a, publisher)
      PROVE  Precedes(a, publisher') /\ Since(a, publisher') = 0 /\ Since(a, publisher) \in Nat
  BY <1>1, <1>2, <1>7, RestartPlace, SinceIs
<1>8. InOrder'
  BY <1>0, <1>1, <1>3, <1>5, <1>7 DEF InOrder
<1>9. Level(g)'
  <2>1. caller # "counted" => Upto(g, publisher)' <= Upto(g, publisher)
                              /\ Upto(g, publisher) \in Int /\ Upto(g, publisher)' \in Int
    BY <1>0, <1>1, <1>3, <1>5, <1>6, <1>7 DEF Upto, InOrder
  <2>2. CASE caller = "counted"
    <3>1. arriving[1] \in Place /\ Precedes(arriving[1], publisher) /\ arriving' = arriving
          /\ (accepted # <<>> => Precedes(Newest, arriving[1]))
      BY <1>0, <1>1, <1>3, <2>2 DEF InOrder
    <3>2. Since(arriving[1], publisher') = 0 /\ Since(arriving[1], publisher) \in Nat
      BY <1>7, <3>1
    <3>3. Upto(g, arriving[1])' = Upto(g, arriving[1]) /\ Upto(g, arriving[1]) \in Int
      BY <1>0, <1>1, <1>5, <1>6, <3>1, SinceIs DEF Upto
    <3> QED
      BY <1>0, <1>1, <1>4, <2>2, <3>1, <3>2, <3>3 DEF Level, Bound
  <2>3. CASE caller # "counted"
    BY <1>0, <1>1, <1>4, <2>1, <2>3 DEF Level, Bound
  <2> QED
    BY <2>2, <2>3
<1> QED
  BY <1>0, <1>5, <1>6, <1>8, <1>9 DEF GapInv, Bound

\* The frame in the call is accepted, with a bound of its own, or refused.
LEMMA PushGaps == IInv /\ BlobTypes /\ GapInv /\ Push => GapInv'
<1> SUFFICES ASSUME IInv, BlobTypes, GapInv, Push PROVE GapInv'
  OBVIOUS
<1>1. /\ publisher \in Place /\ lost \in Nat /\ dropped \in Nat
      /\ accepted \in Seq(Place) /\ Len(accepted) \in Nat
      /\ (accepted # <<>> => Newest \in Place /\ Len(accepted) \in 1..Len(accepted))
      /\ (arriving # <<>> => arriving[1] \in Place)
      /\ attempted \in Seq(Record) /\ Len(attempted) \in Nat /\ Len(attempted) <= Len(accepted)
  BY GapTypes, AttemptedFirst
<1>2. InOrder /\ SeqMatches
  BY DEF GapInv
<1>3. PICK g : Bound(g)
  BY DEF GapInv
<1>4. /\ g \in [1..Len(accepted) -> Nat] /\ Rises(g) /\ Level(g)
      /\ (haveSeq => wireGaps <= g[Len(attempted)])
      /\ (accepted # <<>> => g[Len(accepted)] \in Nat)
  BY <1>1, <1>3 DEF Bound
<1>5. UNCHANGED <<attempted, publisher, lost, wireGaps, haveSeq, lastSeq>>
  BY DEF Push, Enqueue, Refuse, CountDrop, seqVars
<1>6. SeqMatches'
  BY <1>2, <1>5 DEF SeqMatches
<1>7. CASE Refuse
  <2>1. /\ caller = "counted" /\ caller' = "refused" /\ UNCHANGED <<accepted, dropped>>
    BY <1>7 DEF Refuse
  <2>2. arriving[1] \in Place /\ Precedes(arriving[1], publisher)
        /\ (accepted # <<>> => Precedes(Newest, arriving[1]))
    BY <1>1, <1>2, <2>1 DEF InOrder
  <2>3. accepted # <<>> =>
          /\ Precedes(Newest, publisher)
          /\ Since(Newest, publisher)
                <= Since(Newest, arriving[1]) + Since(arriving[1], publisher) + 1
          /\ Since(Newest, publisher) \in Nat /\ Since(Newest, arriving[1]) \in Nat
    BY <1>1, <2>2, SinceChain, SinceIs
  <2>4. Newest' = Newest /\ Rises(g)'
    BY <1>4, <2>1 DEF Newest, Rises
  <2>5. InOrder'
    BY <1>5, <2>1, <2>3, <2>4 DEF InOrder
  <2>6. Since(arriving[1], publisher) \in Nat
    BY <1>1, <2>2, SinceIs
  <2>7. Level(g)'
    <3>1. CASE accepted = <<>>
      BY <1>1, <1>5, <2>1, <3>1 DEF Level, Upto
    <3>2. CASE accepted # <<>>
      <4>1. g[Len(accepted)] + Since(Newest, arriving[1]) + Since(arriving[1], publisher)
               <= lost + dropped
        BY <1>4, <2>1, <3>2 DEF Level, Upto
      <4>2. g[Len(accepted)] + Since(Newest, publisher) <= lost + dropped + 1
        BY <1>1, <1>4, <2>3, <2>6, <3>2, <4>1
      <4> QED
        BY <1>4, <1>5, <2>1, <2>4, <3>2, <4>2 DEF Level, Upto
    <3> QED
      BY <3>1, <3>2
  <2> QED
    BY <1>4, <1>5, <1>6, <2>1, <2>4, <2>5, <2>7 DEF GapInv, Bound
<1>8. CASE CountDrop
  <2>1. caller = "refused" /\ caller' = "idle" /\ dropped' = dropped + 1 /\ UNCHANGED accepted
    BY <1>8 DEF CountDrop
  <2>2. Newest' = Newest /\ Rises(g)'
    BY <1>4, <2>1 DEF Newest, Rises
  <2>3. InOrder'
    BY <1>2, <1>5, <2>1, <2>2 DEF InOrder
  <2>4. Level(g)'
    BY <1>1, <1>4, <1>5, <2>1, <2>2 DEF Level, Upto
  <2> QED
    BY <1>4, <1>5, <1>6, <2>1, <2>2, <2>3, <2>4 DEF GapInv, Bound
<1>9. ASSUME NEW r \in Record, arriving = <<r>>, Enqueue(r) PROVE GapInv'
  <2>1. /\ caller = "counted" /\ caller' = "idle" /\ accepted' = Append(accepted, r)
        /\ dropped' = dropped
    BY <1>9 DEF Enqueue
  <2>2. r = arriving[1] /\ r \in Place /\ Precedes(r, publisher)
        /\ (accepted # <<>> => Precedes(Newest, r))
    BY <1>1, <1>2, <1>9, <2>1 DEF InOrder
  <2> PICK n : n = Len(accepted)
    OBVIOUS
  <2> PICK b : b = Upto(g, r)
    OBVIOUS
  <2> PICK h : h = [i \in 1..n + 1 |-> IF i <= n THEN g[i] ELSE b]
    OBVIOUS
  <2>3. Len(accepted') = n + 1 /\ accepted'[n + 1] = r /\ accepted' # <<>>
        /\ \A i \in 1..n : accepted'[i] = accepted[i]
    BY <1>1, <2>1, <2>2, AppendProperties
  <2>4. Newest' = r
    BY <2>3 DEF Newest
  <2>5. Since(r, publisher) \in Nat /\ (accepted # <<>> => Since(Newest, r) \in Nat
                                         /\ r.seq <= Since(Newest, r) + Newest.seq + 1)
    BY <1>1, <2>2, SinceIs
  <2>6. b \in Nat /\ (accepted # <<>> => g[n] <= b)
    BY <1>4, <2>5 DEF Upto
  <2>7. b + Since(r, publisher) <= lost + dropped
    BY <1>4, <2>1, <2>2 DEF Level
  <2>8. /\ h \in [1..n + 1 -> Nat] /\ h[n + 1] = b
        /\ \A i \in 1..n : h[i] = g[i]
    BY <1>1, <1>4, <2>6
  <2>9. Rises(h)'
    <3>1. ASSUME NEW i \in 1..n + 1, NEW j \in i..n + 1 PROVE h[i] <= h[j]
      <4>1. CASE j <= n
        <5>1. i \in 1..n /\ j \in i..n /\ j \in 1..n
          BY <1>1, <4>1
        <5> QED
          BY <1>4, <2>8, <5>1 DEF Rises
      <4>2. CASE j = n + 1 /\ i <= n
        <5>1. i \in 1..n /\ n \in i..n /\ n \in 1..n /\ accepted # <<>>
          BY <1>1, <4>2, EmptySeq
        <5>2. g[i] <= g[n] /\ g[i] \in Nat /\ g[n] \in Nat /\ g[n] <= b
          BY <1>4, <2>6, <5>1 DEF Rises
        <5> QED
          BY <2>6, <2>8, <4>2, <5>1, <5>2
      <4>3. CASE i = n + 1 /\ j = n + 1
        BY <2>6, <2>8, <4>3
      <4> QED
        BY <1>1, <4>1, <4>2, <4>3
    <3>2. ASSUME NEW i \in 1..n
          PROVE  h[i] + accepted'[i + 1].seq <= h[i + 1] + accepted'[i].seq + 1
      <4>1. CASE i < n
        <5>1. i \in 1..n - 1 /\ i + 1 \in 1..n
          BY <1>1, <4>1
        <5> QED
          BY <1>4, <2>3, <2>8, <5>1 DEF Rises
      <4>2. CASE i = n
        <5>1. accepted # <<>> /\ Newest = accepted[n] /\ Newest \in Place /\ g[n] \in Nat
          BY <1>1, <1>4, <4>2, EmptySeq DEF Newest
        <5>2. b = g[n] + Since(Newest, r)
          BY <5>1 DEF Upto
        <5>3. r.seq \in Nat /\ Newest.seq \in Nat
          BY <2>2, <5>1 DEF Place
        <5>4. Since(Newest, r) \in Nat /\ r.seq <= Since(Newest, r) + Newest.seq + 1
          BY <2>5, <5>1
        <5>5. g[n] \in Nat
          BY <5>1
        <5>6. g[n] + r.seq <= b + Newest.seq + 1
          BY ONLY <5>2, <5>3, <5>4, <5>5
        <5> QED
          BY <2>3, <2>8, <4>2, <5>1, <5>6
      <4> QED
        BY <1>1, <4>1, <4>2
    <3>3. Len(accepted') - 1 = n
      BY <1>1, <2>3
    <3> QED
      BY <2>3, <3>1, <3>2, <3>3 DEF Rises
  <2>10. Level(h)'
    <3>1. Upto(h, publisher)' = b + Since(r, publisher)
      BY <1>5, <2>3, <2>4, <2>8 DEF Upto
    <3>2. b <= lost + dropped
      BY <1>1, <2>5, <2>6, <2>7
    <3> QED
      BY <1>5, <2>1, <2>3, <2>7, <2>8, <3>1, <3>2 DEF Level
  <2>11. haveSeq' => wireGaps' <= h[Len(attempted')]
    <3> SUFFICES ASSUME haveSeq PROVE wireGaps <= h[Len(attempted)]
      BY <1>5
    <3>1. Len(attempted) \in 1..n
      BY <1>1, <1>2, EmptySeq DEF SeqMatches
    <3> QED
      BY <1>4, <2>8, <3>1
  <2>12. InOrder'
    BY <1>5, <2>1, <2>2, <2>4 DEF InOrder
  <2> QED
    BY <1>6, <2>3, <2>8, <2>9, <2>10, <2>11, <2>12 DEF GapInv, Bound
<1> QED
  BY <1>7, <1>8, <1>9 DEF Push

\* The writer counts the gap before the next frame, which has its bound.
LEMMA WriteGaps == IInv /\ BlobTypes /\ GapInv /\ WriteFrame => GapInv'
<1> SUFFICES ASSUME IInv, BlobTypes, GapInv, WriteFrame PROVE GapInv'
  OBVIOUS
<1> DEFINE f == Head(batch)
           m == Len(attempted)
<1>1. /\ wireGaps \in Nat /\ haveSeq \in BOOLEAN
      /\ accepted \in Seq(Place) /\ Len(accepted) \in Nat
      /\ attempted \in Seq(Record) /\ m \in Nat /\ m + 1 <= Len(accepted)
      /\ \A i \in 1..m : accepted[i] = attempted[i]
      /\ accepted[m + 1] = f
  BY GapTypes, AttemptedFirst DEF WriteFrame
<1>2. /\ f \in Place /\ f \in Record /\ m + 1 \in 1..Len(accepted)
  <2>1. m + 1 \in 1..Len(accepted)
    BY <1>1
  <2>2. f \in Record
    BY AttemptedFirst, HeadTailProperties DEF WriteFrame
  <2> QED
    BY <1>1, <2>1, <2>2
<1>3. /\ attempted' = Append(attempted, f) /\ wireGaps' = wireGaps + Missing(f)
      /\ lastSeq' = f.seq /\ haveSeq' = TRUE
      /\ UNCHANGED <<accepted, publisher, arriving, lost, dropped, caller>>
  BY DEF WriteFrame, WriteOne, callerVars, wireVars
<1>4. InOrder /\ SeqMatches
  BY DEF GapInv
<1>5. PICK g : Bound(g)
  BY DEF GapInv
<1>6. Newest' = Newest /\ InOrder'
  BY <1>3, <1>4 DEF Newest, InOrder
<1>7. Rises(g)' /\ Level(g)' /\ g \in [1..Len(accepted') -> Nat]
  BY <1>3, <1>5, <1>6 DEF Bound, Rises, Level, Upto
<1>8. attempted' # <<>> /\ Len(attempted') = m + 1 /\ attempted'[m + 1] = f
  BY <1>1, <1>2, <1>3, AppendProperties
<1> HIDE DEF f, m
<1>9. SeqMatches'
  BY <1>3, <1>8 DEF SeqMatches
<1>10. wireGaps' <= g[m + 1]
  <2>1. g[m + 1] \in Nat
    BY <1>2, <1>5 DEF Bound
  <2>2. CASE ~haveSeq
    BY <1>3, <1>4, <2>1, <2>2 DEF SeqMatches, Missing
  <2>3. CASE haveSeq
    <3>1. m \in 1..Len(accepted) - 1 /\ m \in 1..m /\ m \in 1..Len(accepted)
          /\ m + 1 \in m..Len(accepted)
      BY <1>1, <1>4, <2>3, EmptySeq DEF SeqMatches, m
    <3>2. lastSeq = accepted[m].seq /\ wireGaps <= g[m] /\ g[m] \in Nat
      BY <1>1, <1>4, <1>5, <2>3, <3>1 DEF SeqMatches, Bound, m
    <3>3. g[m] + f.seq <= g[m + 1] + lastSeq + 1 /\ g[m] <= g[m + 1]
      BY <1>1, <1>5, <3>1, <3>2 DEF Bound, Rises
    <3>4. f.seq \in Nat /\ lastSeq \in Nat
      <4>1. accepted[m] \in Place
        BY <1>1, <3>1
      <4> QED
        BY <1>2, <3>2, <4>1 DEF Place
    <3>5. CASE f.seq > lastSeq + 1
      <4>1. PICK d \in Nat : d = f.seq - lastSeq - 1
        BY <3>4, <3>5
      <4>2. wireGaps' = wireGaps + d
        BY <1>3, <2>3, <3>5, <4>1 DEF Missing
      <4>3. g[m] + d <= g[m + 1]
        BY <2>1, <3>2, <3>3, <3>4, <3>5, <4>1
      <4>4. wireGaps \in Nat
        BY <1>1
      <4> QED
        BY <2>1, <3>2, <4>2, <4>3, <4>4
    <3>6. CASE ~(f.seq > lastSeq + 1)
      BY <1>1, <1>3, <2>1, <2>3, <3>2, <3>3, <3>4, <3>6 DEF Missing
    <3> QED
      BY <3>5, <3>6
  <2> QED
    BY <1>1, <2>2, <2>3
<1> QED
  BY <1>6, <1>7, <1>8, <1>9, <1>10 DEF GapInv, Bound

LEMMA GapStep == IInv /\ BlobTypes /\ GapInv /\ [Next]_vars => GapInv'
<1> SUFFICES ASSUME IInv, BlobTypes, GapInv, [Next]_vars PROVE GapInv'
  OBVIOUS
<1>1. CASE Lose
  <2>1. UNCHANGED <<accepted, attempted, dropped, wireGaps, haveSeq, lastSeq, caller, arriving>>
        /\ lost' = lost + 1 /\ Published
    BY <1>1 DEF Lose, recorderVars, callerVars, seqVars
  <2> QED
    BY <2>1, PublishedGaps
<1>2. CASE Arrive
  <2>1. /\ UNCHANGED <<accepted, attempted, dropped, wireGaps, haveSeq, lastSeq, lost>>
        /\ caller = "idle" /\ caller' = "counted" /\ arriving' = <<publisher>> /\ Published
    BY <1>2 DEF Arrive, Receive, seqVars
  <2> QED
    BY <2>1, PublishedGaps
<1>3. CASE RestartPublisher
  BY <1>3, RestartGaps
<1>4. CASE Push
  BY <1>4, PushGaps
<1>5. CASE WriteFrame
  BY <1>5, WriteGaps
<1>6. ASSUME UNCHANGED <<publisher, arriving, lost, dropped, caller, accepted, attempted,
                         wireGaps, haveSeq, lastSeq>>
      PROVE  GapInv'
  <2>1. PICK g : Bound(g)
    BY DEF GapInv
  <2>2. Bound(g)'
    BY <1>6, <2>1 DEF Bound, Rises, Level, Upto, Newest
  <2>3. InOrder' /\ SeqMatches'
    BY <1>6 DEF GapInv, InOrder, SeqMatches, Newest
  <2> QED
    BY <2>2, <2>3 DEF GapInv
<1>7. CASE TakeBatch \/ FlushData \/ FlushIndex \/ Exit
  BY <1>6, <1>7 DEF TakeBatch, PopBatch, FlushData, FlushIndex, EndBatch, Exit, WriterExit,
     recorderVars, callerVars, seqVars, wireVars
<1>8. CASE OwnerThread
  BY <1>6, <1>8 DEF OwnerThread, Open, StartRun, OpenFails, Close, BeginClose, Join, EndClose,
     recorderVars, callerVars, seqVars, wireVars
<1>9. CASE UNCHANGED vars
  BY <1>6, <1>9 DEF vars, recorderVars, callerVars, seqVars, wireVars
<1> QED
  BY <1>1, <1>2, <1>3, <1>4, <1>5, <1>7, <1>8, <1>9 DEF Next, WireStep, WriterThread

LEMMA GapsFollow == IInv /\ BlobTypes /\ GapInv => GapsExplained
<1> SUFFICES ASSUME IInv, BlobTypes, GapInv PROVE wireGaps <= lost + dropped
  BY DEF GapsExplained
<1>1. /\ lost \in Nat /\ dropped \in Nat /\ wireGaps \in Nat
      /\ attempted \in Seq(Record) /\ Len(attempted) \in Nat
      /\ accepted \in Seq(Record) /\ Len(accepted) \in Nat
      /\ Len(attempted) <= Len(accepted)
  BY GapTypes, AttemptedFirst
<1>2. PICK g : Bound(g)
  BY DEF GapInv
<1>3. CASE ~haveSeq
  BY <1>1, <1>3 DEF GapInv, SeqMatches
<1>4. CASE haveSeq
  <2>1. /\ Len(attempted) \in 1..Len(accepted) /\ Len(accepted) \in Len(attempted)..Len(accepted)
        /\ accepted # <<>> /\ Len(accepted) \in 1..Len(accepted)
    BY <1>1, <1>4, EmptySeq DEF GapInv, SeqMatches
  <2>2. /\ wireGaps <= g[Len(attempted)] /\ g[Len(attempted)] <= g[Len(accepted)]
        /\ g[Len(accepted)] <= lost + dropped
        /\ g[Len(attempted)] \in Nat /\ g[Len(accepted)] \in Nat
    BY <1>2, <1>4, <2>1 DEF Bound, Rises, Level
  <2> QED
    BY <1>1, <2>2
<1> QED
  BY <1>3, <1>4

\* However many frames are lost, dropped and published again by a publisher that
\* restarts, over any number of runs, every sequence number counted as a gap is
\* a frame that was lost on the wire or dropped by the queue.
THEOREM GapsAreExplained == Spec => []GapsExplained
<1>1. Init => IInv /\ BlobTypes /\ GapInv
  BY InitIInv, TypesInit, GapInit DEF Init
<1>2. IInv /\ BlobTypes /\ GapInv /\ [Next]_vars => (IInv /\ BlobTypes /\ GapInv)'
  BY StepIsRecorderStep, IInvStep, TypesStep, GapStep
<1> QED
  BY <1>1, <1>2, GapsFollow, PTL DEF Spec
-----------------------------------------------------------------------------
(* The other way round: no gap goes uncounted.                             *)

\* Every frame accepted was published after the one accepted before it.
Ascending == \A i \in 1..Len(accepted) - 1 : Precedes(accepted[i], accepted[i + 1])

LEMMA AscendingStep == IInv /\ BlobTypes /\ GapInv /\ Ascending /\ [Next]_vars => Ascending'
<1> SUFFICES ASSUME IInv, BlobTypes, GapInv, Ascending, [Next]_vars PROVE Ascending'
  OBVIOUS
<1>1. ASSUME NEW r \in Record, arriving = <<r>>, Enqueue(r) PROVE Ascending'
  <2>1. /\ caller = "counted" /\ accepted' = Append(accepted, r)
        /\ accepted \in Seq(Record) /\ Len(accepted) \in Nat
    BY <1>1, AttemptedFirst DEF Enqueue
  <2>2. accepted # <<>> => Precedes(Newest, r)
    BY <1>1, <2>1 DEF GapInv, InOrder
  <2>3. /\ Len(accepted') = Len(accepted) + 1 /\ accepted'[Len(accepted) + 1] = r
        /\ \A i \in 1..Len(accepted) : accepted'[i] = accepted[i]
    BY <2>1, AppendProperties
  <2>4. ASSUME NEW i \in 1..Len(accepted') - 1 PROVE Precedes(accepted'[i], accepted'[i + 1])
    <3>1. CASE i = Len(accepted)
      BY <2>1, <2>2, <2>3, <2>4, <3>1, EmptySeq DEF Newest
    <3>2. CASE i # Len(accepted)
      <4>1. i \in 1..Len(accepted) - 1 /\ i \in 1..Len(accepted) /\ i + 1 \in 1..Len(accepted)
        BY <2>1, <2>3, <3>2
      <4> QED
        BY <2>3, <4>1 DEF Ascending
    <3> QED
      BY <3>1, <3>2
  <2> QED
    BY <2>4 DEF Ascending
<1>2. CASE UNCHANGED accepted
  BY <1>2 DEF Ascending
<1>3. CASE WireStep \/ Arrive \/ WriterThread \/ UNCHANGED vars
  BY <1>2, <1>3 DEF WireStep, Lose, RestartPublisher, Arrive, Receive, WriterThread, TakeBatch,
     PopBatch, WriteFrame, WriteOne, FlushData, FlushIndex, EndBatch, Exit, WriterExit,
     vars, recorderVars
<1>4. CASE Push
  BY <1>1, <1>2, <1>4 DEF Push, Refuse, CountDrop
<1>5. CASE OwnerThread
  BY <1>2, <1>5 DEF OwnerThread, Open, StartRun, OpenFails, Close, BeginClose, Join, EndClose,
     recorderVars
<1> QED
  BY <1>3, <1>4, <1>5 DEF Next

\* The next frame of the publisher comes later than the last, and what is
\* between them is counted.
LEMMA CompleteStep ==
    IInv /\ BlobTypes /\ GapInv /\ Ascending /\ GapsComplete /\ [Next]_vars => GapsComplete'
<1> SUFFICES ASSUME IInv, BlobTypes, GapInv, Ascending, GapsComplete, [Next]_vars
             PROVE  GapsComplete'
  OBVIOUS
<1>1. CASE WriteFrame
  <2> DEFINE f == Head(batch)
             m == Len(attempted)
  <2>1. /\ wireGaps \in Nat /\ accepted \in Seq(Place) /\ Len(accepted) \in Nat
        /\ attempted \in Seq(Record) /\ m \in Nat /\ m + 1 <= Len(accepted)
        /\ \A i \in 1..m : accepted[i] = attempted[i]
        /\ accepted[m + 1] = f
    BY <1>1, GapTypes, AttemptedFirst DEF WriteFrame
  <2>2. f \in Place /\ f \in Record /\ (m > 0 => Precedes(accepted[m], f))
    <3>1. m + 1 \in 1..Len(accepted) /\ (m > 0 => m \in 1..Len(accepted) - 1)
      BY <2>1
    <3>2. f \in Record
      BY <1>1, AttemptedFirst, HeadTailProperties DEF WriteFrame
    <3> QED
      BY <2>1, <3>1, <3>2 DEF Ascending
  <2>3. attempted' = Append(attempted, f) /\ wireGaps' = wireGaps + Missing(f)
    BY <1>1 DEF WriteFrame, WriteOne
  <2> HIDE DEF f, m
  <2>4. /\ Len(attempted') = m + 1 /\ attempted'[m + 1] = f
        /\ \A i \in 1..m : attempted'[i] = attempted[i]
        /\ attempted' \in Seq(Record)
    BY <2>1, <2>2, <2>3, AppendProperties DEF m
  <2>5. SeqMatches
    BY DEF GapInv
  <2> SUFFICES ASSUME \A i \in 1..m + 1 : attempted'[i].gen = attempted'[1].gen
               PROVE  wireGaps' + (m + 1) = f.seq - attempted'[1].seq + 1
    BY <2>4 DEF GapsComplete
  <2>6. f.seq \in Nat /\ f.gen \in Nat
    BY <2>2 DEF Place
  <2>7. CASE m = 0
    <3>1. attempted = <<>> /\ attempted'[1] = f
      BY <2>1, <2>4, <2>7, EmptySeq DEF m
    <3>2. wireGaps' = 0
      BY <2>3, <2>5, <3>1 DEF SeqMatches, Missing
    <3> QED
      BY <2>6, <2>7, <3>1, <3>2
  <2>8. CASE m > 0
    <3>1. m \in 1..m /\ 1 \in 1..m /\ m + 1 \in 1..m + 1 /\ attempted # <<>>
          /\ (\A i \in 1..m : i \in 1..m + 1)
      BY <2>1, <2>8, EmptySeq DEF m
    <3>2. /\ attempted'[1] = attempted[1] /\ attempted[m] = accepted[m]
          /\ \A i \in 1..m : attempted[i].gen = attempted[1].gen
          /\ f.gen = accepted[m].gen
      BY <2>1, <2>4, <3>1
    <3>3. haveSeq /\ lastSeq = accepted[m].seq
      BY <2>5, <3>1, <3>2 DEF SeqMatches, m
    <3>4. accepted[m] \in Place /\ accepted[1] \in Place /\ accepted[1] = attempted[1]
      BY <2>1, <3>1
    <3>5. lastSeq \in Nat /\ lastSeq < f.seq /\ attempted[1].seq \in Nat
      BY <2>2, <2>6, <2>8, <3>2, <3>3, <3>4 DEF Precedes, Place
    <3>6. wireGaps + m = lastSeq - attempted[1].seq + 1
      BY <2>1, <3>1, <3>2, <3>3 DEF GapsComplete, m
    <3>7. Missing(f) = f.seq - lastSeq - 1
      BY <2>6, <3>3, <3>5 DEF Missing
    <3>8. wireGaps' = wireGaps + (f.seq - lastSeq - 1)
      BY <2>3, <3>7
    <3>9. PICK a \in Nat, b \in Nat :
             a = attempted[1].seq /\ a = attempted'[1].seq /\ b = f.seq
      BY <2>6, <3>2, <3>5
    <3>10. m \in Nat /\ wireGaps \in Nat /\ lastSeq \in Nat
      BY <2>1, <3>5
    <3>11. wireGaps + m = lastSeq - a + 1 /\ wireGaps' = wireGaps + (b - lastSeq - 1)
      BY <3>6, <3>8, <3>9
    <3>12. wireGaps' + (m + 1) = b - a + 1
      BY <3>9, <3>10, <3>11
    <3> QED
      BY <3>9, <3>12
  <2> QED
    BY <2>1, <2>7, <2>8
<1>2. CASE UNCHANGED <<attempted, wireGaps>>
  BY <1>2 DEF GapsComplete
<1>3. CASE WireStep \/ Arrive \/ UNCHANGED vars
  BY <1>2, <1>3 DEF WireStep, Lose, RestartPublisher, Arrive, Receive, vars, recorderVars, seqVars
<1>4. CASE Push
  BY <1>2, <1>4 DEF Push, Enqueue, Refuse, CountDrop, seqVars
<1>5. CASE TakeBatch \/ FlushData \/ FlushIndex \/ Exit
  BY <1>2, <1>5 DEF TakeBatch, PopBatch, FlushData, FlushIndex, EndBatch, Exit, WriterExit,
     recorderVars, seqVars
<1>6. CASE OwnerThread
  BY <1>2, <1>6 DEF OwnerThread, Open, StartRun, OpenFails, Close, BeginClose, Join, EndClose,
     recorderVars, seqVars
<1> QED
  BY <1>1, <1>3, <1>4, <1>5, <1>6 DEF Next, WriterThread

\* As long as one publisher's frames are all there are, what was written and what
\* is counted as a gap make up every sequence number from the first frame written
\* to the last, over any number of runs and whatever the queue dropped.
THEOREM NoGapMissed == Spec => []GapsComplete
<1> DEFINE J == IInv /\ BlobTypes /\ GapInv /\ Ascending /\ GapsComplete
<1>1. Init => J
  <2>1. Init => accepted = <<>> /\ attempted = <<>>
    BY DEF Init, RecorderInit
  <2>2. Init => Ascending /\ GapsComplete
    BY <2>1 DEF Ascending, GapsComplete
  <2> QED
    BY <2>2, InitIInv, TypesInit, GapInit DEF Init
<1>2. J /\ [Next]_vars => J'
  BY StepIsRecorderStep, IInvStep, TypesStep, GapStep, AscendingStep, CompleteStep
<1>3. J => GapsComplete
  OBVIOUS
<1> QED
  BY <1>1, <1>2, <1>3, PTL DEF Spec
=============================================================================
