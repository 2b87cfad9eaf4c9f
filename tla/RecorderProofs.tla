--------------------------- MODULE RecorderProofs ---------------------------
(***************************************************************************)
(* For every set of records, every capacity and every number of pushes and *)
(* runs: a recorder accounts for every record it was given, writes what it *)
(* accepted in order, has nothing left when close() has returned, and uses *)
(* its queue as HandOff says.  At the end, what FileStream's operations do  *)
(* to a file, for the recorders that extend this one with their files.     *)
(***************************************************************************)
EXTENDS Recorder, FileStream, SequenceTheorems, TLAPS

\* The writer thread exists exactly from open() to the join, and without it
\* the queue is empty and takes nothing.
WriterMatchesOwner ==
    /\ owner = "idle" => writer = "absent"
    /\ owner = "open" => writer # "absent" /\ ~closed
    /\ owner = "joining" => closed
    /\ writer = "absent" => queue = <<>> /\ (closed \/ capacity = 0)

\* Every record the writer tried to write is counted as written or refused.
AttemptsCounted == Len(attempted) = written + writeErrors

\* The inductive invariant.
IInv == /\ RecorderTypeOK /\ WriterMatchesOwner
        /\ Accounted /\ AcceptedInOrder /\ AttemptsCounted
-----------------------------------------------------------------------------
(* A record accepted goes to the end of the whole, and the writer moves the *)
(* head of the batch to the end of what it attempted.                       *)

LEMMA AppendLast ==
    \A s, t \in Seq(Record) : \A r \in Record : Append(s \o t, r) = s \o Append(t, r)
  OBVIOUS

LEMMA HeadMoves ==
    ASSUME NEW S, NEW s \in Seq(S), NEW t \in Seq(S), t # <<>>
    PROVE  Append(s, Head(t)) \o Tail(t) = s \o t
<1>1. Head(t) \in S /\ Tail(t) \in Seq(S) /\ Len(Tail(t)) = Len(t) - 1
  BY HeadTailProperties
<1>2. <<Head(t)>> \in Seq(S)
  BY <1>1
<1>3. Append(s, Head(t)) \o Tail(t) = s \o (<<Head(t)>> \o Tail(t))
  BY <1>1, <1>2, AppendIsConcat, ConcatAssociative
<1>4. <<Head(t)>> \o Tail(t) = t
  BY <1>1
<1> QED
  BY <1>3, <1>4
-----------------------------------------------------------------------------
LEMMA InitIInv == RecorderInit => IInv
<1> SUFFICES ASSUME RecorderInit PROVE IInv
  OBVIOUS
<1> USE CapacityAssumption
    DEF CapacityAssumption, RecorderInit, QueueInit
<1>1. queue \in Seq(Record) /\ Len(queue) = 0 /\ Len(batch) = 0
  OBVIOUS
<1>2. QueueTypeOK
  <2>1. Len(queue) <= capacity /\ capacity \in {0, Capacity}
    BY <1>1
  <2> QED
    BY <1>1, <2>1, Zenon DEF QueueTypeOK
<1>3. RecorderTypeOK
  BY <1>2, EmptySeq DEF RecorderTypeOK
<1>4. WriterMatchesOwner /\ Accounted
  BY <1>1 DEF WriterMatchesOwner, Accounted
<1>5. AcceptedInOrder /\ AttemptsCounted
  BY DEF AcceptedInOrder, AttemptsCounted
<1> QED
  BY <1>3, <1>4, <1>5 DEF IInv

LEMMA TypeStep ==
    RecorderTypeOK /\ [RecorderNext]_recorderVars => RecorderTypeOK'
<1> SUFFICES ASSUME RecorderTypeOK, [RecorderNext]_recorderVars
             PROVE  RecorderTypeOK'
  OBVIOUS
<1> USE CapacityAssumption
    DEF CapacityAssumption, RecorderTypeOK, QueueTypeOK, queueVars, callerVars, writerVars
<1>1. CASE Receive
  BY <1>1 DEF Receive
<1>2. ASSUME NEW r \in Record, Enqueue(r) PROVE RecorderTypeOK'
  BY <1>2 DEF Enqueue, Put, Refuses
<1>3. CASE Refuse \/ CountDrop
  BY <1>3 DEF Refuse, CountDrop
<1>4. CASE PopBatch
  BY <1>4 DEF PopBatch, TakeAll
<1>5. ASSUME NEW ok \in BOOLEAN, WriteOne(ok) PROVE RecorderTypeOK'
  <2>1. Head(batch) \in Record /\ Tail(batch) \in Seq(Record)
        /\ Len(Tail(batch)) = Len(batch) - 1
    BY <1>5, HeadTailProperties DEF WriteOne
  <2>2. (writer = "write" <=> batch # <<>>)'
    <3>1. CASE Len(batch) = 1
      BY <1>5, <2>1, <3>1, EmptySeq DEF WriteOne
    <3>2. CASE Len(batch) # 1
      <4>1. Len(Tail(batch)) # 0
        BY <2>1, <3>2
      <4> QED
        BY <1>5, <4>1, <3>2, EmptySeq DEF WriteOne
    <3> QED
      BY <3>1, <3>2
  <2>3. attempted' \in Seq(Record)
    BY <1>5, <2>1 DEF WriteOne
  <2>4. written' \in Nat /\ writeErrors' \in Nat
    BY <1>5 DEF WriteOne
  <2> QED
    BY <1>5, <2>1, <2>2, <2>3, <2>4 DEF WriteOne
<1>6. CASE EndBatch \/ WriterExit
  BY <1>6 DEF EndBatch, WriterExit
<1>7. CASE StartRun
  <2>1. queue' \in Seq(Record) /\ Len(queue') <= capacity' /\ capacity' \in {0, Capacity}
    BY <1>7 DEF StartRun, Arm
  <2>2. QueueTypeOK'
    BY <1>7, <2>1, Zenon DEF StartRun, Arm
  <2> QED
    BY <1>7, <2>2, EmptySeq DEF StartRun
<1>8. CASE BeginClose \/ EndClose
  BY <1>8 DEF BeginClose, Shut, EndClose
<1>9. CASE UNCHANGED recorderVars
  BY <1>9 DEF recorderVars
<1> QED
  BY <1>1, <1>2, <1>3, <1>4, <1>5, <1>6, <1>7, <1>8, <1>9
  DEF RecorderNext, CallerStep, WriterStep, OwnerStep

LEMMA ThreadStep ==
    RecorderTypeOK /\ WriterMatchesOwner /\ [RecorderNext]_recorderVars
        => WriterMatchesOwner'
<1> SUFFICES ASSUME RecorderTypeOK, WriterMatchesOwner, [RecorderNext]_recorderVars
             PROVE  WriterMatchesOwner'
  OBVIOUS
<1> USE CapacityAssumption
    DEF CapacityAssumption, RecorderTypeOK, QueueTypeOK, WriterMatchesOwner,
        queueVars, callerVars, writerVars
<1>1. ASSUME NEW r \in Record, Enqueue(r) PROVE WriterMatchesOwner'
  \* without a writer the queue refuses, so there is one
  <2>1. writer # "absent"
    BY <1>1 DEF Enqueue, Put, Refuses
  <2> QED
    BY <1>1, <2>1 DEF Enqueue, Put
<1>2. CASE Receive \/ Refuse \/ CountDrop
  BY <1>2 DEF Receive, Refuse, CountDrop
<1>3. CASE PopBatch
  BY <1>3 DEF PopBatch, TakeAll
<1>4. ASSUME NEW ok \in BOOLEAN, WriteOne(ok) PROVE WriterMatchesOwner'
  BY <1>4 DEF WriteOne
<1>5. CASE EndBatch
  BY <1>5 DEF EndBatch
<1>6. CASE WriterExit
  BY <1>6 DEF WriterExit, Drained
<1>7. CASE StartRun
  BY <1>7 DEF StartRun, Arm
<1>8. CASE BeginClose \/ EndClose
  BY <1>8 DEF BeginClose, Shut, EndClose
<1>9. CASE UNCHANGED recorderVars
  BY <1>9 DEF recorderVars
<1> QED
  BY <1>1, <1>2, <1>3, <1>4, <1>5, <1>6, <1>7, <1>8, <1>9
  DEF RecorderNext, CallerStep, WriterStep, OwnerStep

LEMMA AccountedStep ==
    RecorderTypeOK /\ WriterMatchesOwner /\ Accounted /\ [RecorderNext]_recorderVars
        => Accounted'
<1> SUFFICES ASSUME RecorderTypeOK, WriterMatchesOwner, Accounted,
                    [RecorderNext]_recorderVars
             PROVE  Accounted'
  OBVIOUS
<1>0. /\ Len(queue) \in Nat /\ Len(batch) \in Nat
      /\ received \in Nat /\ dropped \in Nat /\ written \in Nat /\ writeErrors \in Nat
  BY LenProperties DEF RecorderTypeOK, QueueTypeOK
<1> USE <1>0 DEF Accounted, queueVars, callerVars, writerVars
<1>1. CASE Receive
  BY <1>1 DEF Receive
<1>2. ASSUME NEW r \in Record, Enqueue(r) PROVE Accounted'
  <2>1. Len(queue') = Len(queue) + 1
    BY <1>2 DEF Enqueue, Put, RecorderTypeOK, QueueTypeOK
  <2> QED
    BY <1>2, <2>1 DEF Enqueue
<1>3. CASE Refuse \/ CountDrop
  BY <1>3 DEF Refuse, CountDrop
<1>4. CASE PopBatch
  \* the queue becomes the batch, and there was none left
  <2>1. batch = <<>> /\ Len(queue') = 0 /\ batch' = queue
    BY <1>4 DEF PopBatch, TakeAll, RecorderTypeOK
  <2> QED
    BY <1>4, <2>1 DEF PopBatch
<1>5. ASSUME NEW ok \in BOOLEAN, WriteOne(ok) PROVE Accounted'
  <2>1. Len(batch') = Len(batch) - 1
    BY <1>5, HeadTailProperties DEF WriteOne, RecorderTypeOK
  <2>2. UNCHANGED <<queue, caller, received, dropped>>
    BY <1>5 DEF WriteOne
  <2>3. CASE ok
    <3>1. written' = written + 1 /\ writeErrors' = writeErrors
      BY <1>5, <2>3 DEF WriteOne
    <3> QED
      BY <2>1, <2>2, <3>1
  <2>4. CASE ~ok
    <3>1. written' = written /\ writeErrors' = writeErrors + 1
      BY <1>5, <2>4 DEF WriteOne
    <3> QED
      BY <2>1, <2>2, <3>1
  <2> QED
    BY <2>3, <2>4
<1>6. CASE EndBatch \/ WriterExit
  BY <1>6 DEF EndBatch, WriterExit
<1>7. CASE BeginClose \/ EndClose
  BY <1>7 DEF BeginClose, Shut, EndClose
<1>8. CASE UNCHANGED recorderVars
  BY <1>8 DEF recorderVars
<1>9. CASE StartRun
  <2>1. Len(queue) = 0 /\ Len(batch) = 0
    BY <1>9 DEF StartRun, WriterMatchesOwner, RecorderTypeOK
  <2>2. Len(queue') = 0 /\ Len(batch') = 0
    BY <1>9 DEF StartRun, Arm
  <2> QED
    BY <1>9, <2>1, <2>2 DEF StartRun
<1> QED
  BY <1>1, <1>2, <1>3, <1>4, <1>5, <1>6, <1>7, <1>8, <1>9
  DEF RecorderNext, CallerStep, WriterStep, OwnerStep

LEMMA OrderStep ==
    RecorderTypeOK /\ WriterMatchesOwner /\ AcceptedInOrder /\ [RecorderNext]_recorderVars
        => AcceptedInOrder'
<1> SUFFICES ASSUME RecorderTypeOK, WriterMatchesOwner, AcceptedInOrder,
                    [RecorderNext]_recorderVars
             PROVE  AcceptedInOrder'
  OBVIOUS
<1>0. /\ queue \in Seq(Record) /\ batch \in Seq(Record) /\ attempted \in Seq(Record)
      /\ attempted \o batch \in Seq(Record)
  BY ConcatProperties DEF RecorderTypeOK, QueueTypeOK
<1> USE <1>0 DEF AcceptedInOrder, queueVars, callerVars, writerVars
<1>1. ASSUME NEW r \in Record, Enqueue(r) PROVE AcceptedInOrder'
  <2>1. accepted' = Append((attempted \o batch) \o queue, r) /\ queue' = Append(queue, r)
    BY <1>1 DEF Enqueue, Put
  <2>2. attempted' = attempted /\ batch' = batch
    BY <1>1 DEF Enqueue
  <2>3. Append((attempted \o batch) \o queue, r) = (attempted \o batch) \o Append(queue, r)
    BY <1>0, AppendLast, Zenon
  <2> QED
    BY <2>1, <2>2, <2>3
<1>2. CASE PopBatch
  <2>1. batch = <<>> /\ batch' = queue /\ queue' = <<>> /\ UNCHANGED <<accepted, attempted>>
    BY <1>2 DEF PopBatch, TakeAll, RecorderTypeOK
  <2>2. attempted \o batch = attempted
    BY <2>1, ConcatEmptySeq
  <2>3. attempted \o queue \in Seq(Record)
    BY ConcatProperties
  <2>4. (attempted \o queue) \o <<>> = attempted \o queue
    BY <2>3, ConcatEmptySeq
  <2> QED
    BY <2>1, <2>2, <2>4
<1>3. ASSUME NEW ok \in BOOLEAN, WriteOne(ok) PROVE AcceptedInOrder'
  <2>1. attempted' \o batch' = attempted \o batch
    BY <1>3, HeadMoves DEF WriteOne, RecorderTypeOK
  <2> QED
    BY <1>3, <2>1 DEF WriteOne
<1>4. CASE StartRun
  BY <1>4 DEF StartRun, Arm, WriterMatchesOwner, RecorderTypeOK
<1>5. CASE Receive \/ Refuse \/ CountDrop
  BY <1>5 DEF Receive, Refuse, CountDrop
<1>6. CASE EndBatch \/ WriterExit
  BY <1>6 DEF EndBatch, WriterExit
<1>7. CASE BeginClose \/ EndClose
  BY <1>7 DEF BeginClose, Shut, EndClose
<1>8. CASE UNCHANGED recorderVars
  BY <1>8 DEF recorderVars
<1> QED
  BY <1>1, <1>2, <1>3, <1>4, <1>5, <1>6, <1>7, <1>8
  DEF RecorderNext, CallerStep, WriterStep, OwnerStep

LEMMA AttemptsStep ==
    RecorderTypeOK /\ AttemptsCounted /\ [RecorderNext]_recorderVars => AttemptsCounted'
<1> SUFFICES ASSUME RecorderTypeOK, AttemptsCounted, [RecorderNext]_recorderVars
             PROVE  AttemptsCounted'
  OBVIOUS
<1>0. attempted \in Seq(Record) /\ written \in Nat /\ writeErrors \in Nat
  BY DEF RecorderTypeOK
<1> USE <1>0 DEF AttemptsCounted, queueVars, callerVars, writerVars
<1>1. ASSUME NEW ok \in BOOLEAN, WriteOne(ok) PROVE AttemptsCounted'
  <2>1. Len(attempted') = Len(attempted) + 1
    BY <1>1 DEF WriteOne
  <2>2. CASE ok
    BY <1>1, <2>1, <2>2 DEF WriteOne
  <2>3. CASE ~ok
    BY <1>1, <2>1, <2>3 DEF WriteOne
  <2> QED
    BY <2>2, <2>3
<1>2. CASE CallerStep
  BY <1>2 DEF CallerStep, Receive, Enqueue, Refuse, CountDrop
<1>3. CASE PopBatch \/ EndBatch \/ WriterExit
  BY <1>3 DEF PopBatch, EndBatch, WriterExit
<1>4. CASE OwnerStep
  BY <1>4 DEF OwnerStep, StartRun, BeginClose, EndClose
<1>5. CASE UNCHANGED recorderVars
  BY <1>5 DEF recorderVars
<1> QED
  BY <1>1, <1>2, <1>3, <1>4, <1>5 DEF RecorderNext, WriterStep

LEMMA IInvDrained == IInv => ClosedIsDrained
<1> SUFFICES ASSUME IInv, owner = "idle" PROVE attempted = accepted
  BY DEF ClosedIsDrained
<1>1. queue = <<>> /\ batch = <<>> /\ attempted \in Seq(Record)
  BY DEF IInv, WriterMatchesOwner, RecorderTypeOK
<1>2. accepted = (attempted \o batch) \o queue
  BY DEF IInv, AcceptedInOrder
<1> QED
  BY <1>1, <1>2, ConcatEmptySeq

LEMMA IInvStep == IInv /\ [RecorderNext]_recorderVars => IInv'
  BY TypeStep, ThreadStep, AccountedStep, OrderStep, AttemptsStep DEF IInv

LEMMA Invariance == RecorderSpec => []IInv
  BY InitIInv, IInvStep, PTL DEF RecorderSpec

\* The types, and that the queue never holds more than its capacity.
THEOREM TypeCorrect == RecorderSpec => []RecorderTypeOK
  BY Invariance, PTL DEF IInv

\* No record push() was called with is ever unaccounted for.
THEOREM AllAccounted == RecorderSpec => []Accounted
  BY Invariance, PTL DEF IInv

\* The writer takes the accepted records once each and in order.
THEOREM Ordered == RecorderSpec => []AcceptedInOrder
  BY Invariance, PTL DEF IInv

\* Drain-on-close: when close() has returned nothing accepted is left.
THEOREM Drains == RecorderSpec => []ClosedIsDrained
  BY Invariance, IInvDrained, PTL
-----------------------------------------------------------------------------
LEMMA InitPromise == RecorderInit => Promise!HandOffInit
  BY DEF RecorderInit, QueueInit, Promise!HandOffInit, Promise!QueueInit

LEMMA StepPromise ==
    IInv /\ [RecorderNext]_recorderVars => [Promise!HandOffNext]_(Promise!handOffVars)
<1> SUFFICES ASSUME IInv, [RecorderNext]_recorderVars
             PROVE  Promise!HandOffNext \/ UNCHANGED Promise!handOffVars
  OBVIOUS
<1> USE DEF queueVars, callerVars, writerVars, Promise!queueVars, Promise!handOffVars
<1>0. RecorderTypeOK /\ WriterMatchesOwner
  BY DEF IInv
<1>1. ASSUME NEW r \in Record, Enqueue(r) PROVE Promise!Accept
  BY <1>1 DEF Enqueue, Put, Refuses, Promise!Accept, Promise!Put, Promise!Refuses
<1>2. CASE PopBatch
  <2>1. Promise!HandOver
    BY <1>2 DEF PopBatch, TakeAll, Promise!HandOver, Promise!TakeAll
  <2> QED
    BY <2>1 DEF Promise!HandOffNext
<1>3. ASSUME NEW ok \in BOOLEAN, WriteOne(ok) PROVE Promise!Consume
  <2>1. writer = "write" /\ batch # <<>> /\ batch' = Tail(batch)
        /\ writer' \in {"write", "flush"} /\ UNCHANGED <<queue, capacity, closed>>
    BY <1>0, <1>3 DEF WriteOne, RecorderTypeOK
  <2> QED
    BY <2>1 DEF Promise!Consume
<1>4. CASE EndBatch
  <2>1. Promise!Ask
    BY <1>0, <1>4 DEF EndBatch, RecorderTypeOK, Promise!Ask
  <2> QED
    BY <2>1 DEF Promise!HandOffNext
<1>5. CASE WriterExit
  <2>1. Promise!Finish
    BY <1>5 DEF WriterExit, Drained, Promise!Finish, Promise!Drained
  <2> QED
    BY <2>1 DEF Promise!HandOffNext
<1>6. CASE StartRun
  <2>1. Promise!Open
    BY <1>0, <1>6 DEF StartRun, Arm, WriterMatchesOwner, Promise!Open, Promise!Arm
  <2> QED
    BY <2>1 DEF Promise!HandOffNext
<1>7. CASE BeginClose
  <2>1. Promise!Close
    BY <1>0, <1>7 DEF BeginClose, Shut, WriterMatchesOwner, RecorderTypeOK,
                      Promise!Close, Promise!Shut
  <2> QED
    BY <2>1 DEF Promise!HandOffNext
<1>8. CASE Receive \/ Refuse \/ CountDrop
  BY <1>8 DEF Receive, Refuse, CountDrop
<1>9. CASE EndClose
  BY <1>9 DEF EndClose
<1>10. CASE UNCHANGED recorderVars
  BY <1>10 DEF recorderVars
<1> QED
  BY <1>1, <1>2, <1>3, <1>4, <1>5, <1>6, <1>7, <1>8, <1>9, <1>10
  DEF RecorderNext, CallerStep, WriterStep, OwnerStep, Promise!HandOffNext

\* Every step of a recorder is a step of HandOff or leaves its state alone.
THEOREM UsesQueueAsPromised == RecorderSpec => ImplementsHandOffSafety
  BY InitPromise, StepPromise, Invariance, PTL
  DEF RecorderSpec, ImplementsHandOffSafety, Promise!HandOffSafety
-----------------------------------------------------------------------------
(* Files: what a write and a sync make of a stream *)

\* What f had in its file, g has there too.
Grows(f, g) == /\ Len(f.disk) <= Len(g.disk)
               /\ \A i \in 1..Len(f.disk) : g.disk[i] = f.disk[i]

LEMMA SubSeqIs ==
    ASSUME NEW S, NEW s \in Seq(S), NEW m \in Nat, NEW n \in Nat, n <= Len(s)
    PROVE  /\ SubSeq(s, m + 1, n) \in Seq(S)
           /\ Len(SubSeq(s, m + 1, n)) = IF m <= n THEN n - m ELSE 0
           /\ \A i \in 1..n - m : SubSeq(s, m + 1, n)[i] = s[m + i]
  BY SubSeqProperties

LEMMA ConcatKeeps ==
    ASSUME NEW S, NEW s \in Seq(S), NEW t \in Seq(S)
    PROVE  /\ Len(s) <= Len(s \o t)
           /\ \A i \in 1..Len(s) : (s \o t)[i] = s[i]
  BY ConcatProperties, LenProperties

LEMMA SamePrefix ==
    ASSUME NEW S, NEW s \in Seq(S), NEW t \in Seq(S), NEW n \in Nat,
           n <= Len(s), n <= Len(t), \A i \in 1..n : s[i] = t[i]
    PROVE  SubSeq(s, 1, n) = SubSeq(t, 1, n)
<1>1. /\ SubSeq(s, 1, n) \in Seq(S) /\ Len(SubSeq(s, 1, n)) = n
      /\ \A i \in 1..n : SubSeq(s, 1, n)[i] = s[i]
  BY SubSeqProperties, LenProperties
<1>2. /\ SubSeq(t, 1, n) \in Seq(S) /\ Len(SubSeq(t, 1, n)) = n
      /\ \A i \in 1..n : SubSeq(t, 1, n)[i] = t[i]
  BY SubSeqProperties, LenProperties
<1> QED
  BY <1>1, <1>2, SeqEqual

LEMMA Parts ==
    ASSUME NEW S, NEW s \in Seq(S), NEW k \in 0..Len(s)
    PROVE  /\ SubSeq(s, 1, k) \in Seq(S) /\ SubSeq(s, k + 1, Len(s)) \in Seq(S)
           /\ SubSeq(s, 1, k) \o SubSeq(s, k + 1, Len(s)) = s
<1>1. SubSeq(s, 1, k) \in Seq(S) /\ SubSeq(s, k + 1, Len(s)) \in Seq(S)
  BY SubSeqProperties
<1>2. Len(s) \in Nat
  BY LenProperties
<1>3. SubSeq(s, 1, k) \o SubSeq(s, k + 1, Len(s)) = SubSeq(s, 1, Len(s))
  <2>1. 1 \in 1..Len(s) + 1 /\ k \in 1 - 1..Len(s) /\ Len(s) \in k..Len(s)
    BY <1>2
  <2> QED
    BY <2>1, ConcatAdjacentSubSeq
<1> QED
  BY <1>1, <1>3, SubSeqFull

LEMMA GrowsAppended ==
    ASSUME NEW S, NEW f \in Stream(S), NEW g \in Stream(S), NEW t \in Seq(S),
           g.disk = f.disk \o t
    PROVE  Grows(f, g)
  BY ConcatProperties DEF Grows, Stream

LEMMA SpilledIs ==
    ASSUME NEW S, NEW f \in Stream(S), NEW s \in Seq(S), NEW k \in 0..Len(s)
    PROVE  LET g == Spilled(f, s, k)
           IN  /\ g \in Stream(S) /\ g.isOpen = f.isOpen /\ g.good = f.good
               /\ Content(g) = f.disk \o s /\ Grows(f, g)
<1> DEFINE a == SubSeq(s, 1, k)
           b == SubSeq(s, k + 1, Len(s))
           g == Spilled(f, s, k)
<1>1. a \in Seq(S) /\ b \in Seq(S) /\ a \o b = s
  BY Parts
<1> HIDE DEF a, b
<1>2. f.disk \in Seq(S) /\ f.disk \o a \in Seq(S)
  BY <1>1 DEF Stream
<1>3. g = [f EXCEPT !.disk = f.disk \o a, !.buffered = b]
  BY DEF Spilled, a, b
<1>4. g \in Stream(S) /\ g.isOpen = f.isOpen /\ g.good = f.good
      /\ g.disk = f.disk \o a /\ g.buffered = b
  BY <1>1, <1>2, <1>3 DEF Stream
<1>5. Content(g) = f.disk \o s
  <2>1. (f.disk \o a) \o b = f.disk \o (a \o b)
    <3>1. ASSUME NEW p \in Seq(S), NEW q \in Seq(S), NEW r \in Seq(S)
          PROVE  (p \o q) \o r = p \o (q \o r)
      BY ConcatAssociative
    <3> QED
      BY <1>1, <1>2, <3>1, Zenon
  <2> QED
    BY <1>1, <1>4, <2>1 DEF Content
<1>6. Grows(f, g)
  BY <1>1, <1>4, GrowsAppended
<1> QED
  BY <1>4, <1>5, <1>6

LEMMA FailuresAre ==
    ASSUME NEW S, NEW f \in Stream(S), NEW ks \in SUBSET (0..Len(f.buffered)),
           NEW g \in Failures(f, ks)
    PROVE  g \in Stream(S) /\ g.isOpen = f.isOpen /\ ~g.good /\ Grows(f, g)
<1>1. PICK k \in ks : g = Failed(f, k)
  BY DEF Failures
<1> DEFINE a == SubSeq(f.buffered, 1, k)
<1>2. a \in Seq(S) /\ f.disk \in Seq(S) /\ f.disk \o a \in Seq(S)
  BY Parts DEF Stream
<1>3. g = [f EXCEPT !.disk = f.disk \o a, !.good = FALSE]
  BY <1>1 DEF Failed
<1> HIDE DEF a
<1>4. g \in Stream(S) /\ g.isOpen = f.isOpen /\ ~g.good /\ g.disk = f.disk \o a
  BY <1>2, <1>3 DEF Stream
<1> QED
  BY <1>2, <1>4, GrowsAppended

\* A write keeps what is in the file and, unless it fails, adds to the content.
LEMMA Written ==
    ASSUME NEW S, NEW f \in Stream(S), NEW x \in Seq(S), NEW g \in WriteOutcomes(f, x)
    PROVE  /\ g \in Stream(S) /\ g.isOpen = f.isOpen /\ Grows(f, g)
           /\ g.good => f.good /\ Content(g) = Content(f) \o x
<1> DEFINE s == f.buffered \o x
<1>1. s \in Seq(S) /\ Len(s) \in 0..Len(s) /\ 0 \in 0..Len(s)
      /\ {0, Len(f.buffered)} \in SUBSET (0..Len(f.buffered))
  BY DEF Stream
<1>2. CASE ~f.good
  BY <1>2 DEF WriteOutcomes, Grows
<1>3. CASE f.good /\ g \in Failures(f, {0, Len(f.buffered)})
  BY <1>1, <1>3, FailuresAre
<1>4. ASSUME f.good, NEW k \in {0, Len(s)}, g = Spilled(f, s, k)
      PROVE  /\ g \in Stream(S) /\ g.isOpen = f.isOpen /\ Grows(f, g)
             /\ g.good /\ Content(g) = Content(f) \o x
  <2>1. f.disk \o s = Content(f) \o x
    BY ConcatAssociative DEF Content, Stream
  <2>2. k \in 0..Len(s)
    BY <1>1
  <2> HIDE DEF s
  <2> QED
    BY <1>1, <1>4, <2>1, <2>2, SpilledIs
<1> QED
  BY <1>2, <1>3, <1>4 DEF WriteOutcomes

LEMMA Synced ==
    ASSUME NEW S, NEW f \in Stream(S), NEW g \in SyncOutcomes(f)
    PROVE  /\ g \in Stream(S) /\ g.isOpen = f.isOpen /\ Grows(f, g)
           /\ g.good => f.good /\ g.buffered = <<>> /\ g.disk = Content(f)
<1>0. f.buffered \in Seq(S) /\ Len(f.buffered) \in 0..Len(f.buffered)
      /\ f.disk \in Seq(S)
  BY DEF Stream
<1>1. CASE f.buffered = <<>>
  BY <1>0, <1>1, ConcatEmptySeq DEF SyncOutcomes, Grows, Content
<1>2. CASE f.buffered # <<>> /\ g \in Failures(f, 0..Len(f.buffered) - 1)
  BY <1>0, <1>2, FailuresAre
<1>3. CASE f.buffered # <<>> /\ g = Spilled(f, f.buffered, Len(f.buffered))
  <2>1. g.buffered = <<>> /\ g.disk = f.disk \o f.buffered
    <3>1. SubSeq(f.buffered, 1, Len(f.buffered)) = f.buffered
          /\ SubSeq(f.buffered, Len(f.buffered) + 1, Len(f.buffered)) = <<>>
      BY <1>0, SubSeqFull, SubSeqEmpty
    <3> QED
      BY <1>3, <3>1 DEF Spilled, Stream
  <2>2. /\ g \in Stream(S) /\ g.isOpen = f.isOpen /\ g.good = f.good
        /\ Grows(f, g)
    BY <1>0, <1>3, SpilledIs, Zenon
  <2> QED
    BY <2>1, <2>2 DEF Content
<1> QED
  BY <1>1, <1>2, <1>3 DEF SyncOutcomes

\* open(): a good stream begins an empty file, and one that was open is bad.
LEMMA Opened ==
    ASSUME NEW S, NEW f \in Stream(S), NEW g \in OpenOutcomes(f)
    PROVE  /\ g \in Stream(S)
           /\ ~g.isOpen => ~g.good /\ g.disk = f.disk
           /\ g.good => Content(g) = <<>> /\ g.disk = <<>> /\ g.buffered = <<>>
<1>1. CASE g = [f EXCEPT !.good = FALSE]
  BY <1>1 DEF Stream, OpenOutcomes, Unopened
<1>2. CASE g = [Unopened EXCEPT !.isOpen = TRUE]
  <2>1. g = [isOpen |-> TRUE, good |-> TRUE, buffered |-> <<>>, disk |-> <<>>]
    BY <1>2 DEF Unopened
  <2> QED
    BY <2>1 DEF Stream, Content
<1> QED
  BY <1>1, <1>2 DEF OpenOutcomes

LEMMA FlushedIs ==
    ASSUME NEW S, NEW f \in Stream(S), NEW g \in FlushOutcomes(f)
    PROVE  /\ g \in Stream(S) /\ g.isOpen = f.isOpen /\ Grows(f, g)
           /\ g.good => /\ f.good /\ g.buffered = <<>>
                        /\ g.disk = Content(f) /\ Content(g) = Content(f)
<1>1. CASE f.good
  <2>1. /\ g \in Stream(S) /\ g.isOpen = f.isOpen /\ Grows(f, g)
        /\ g.good => f.good /\ g.buffered = <<>> /\ g.disk = Content(f)
    BY <1>1, Synced DEF FlushOutcomes
  <2>2. g.disk \in Seq(S)
    BY <2>1 DEF Stream
  <2>3. g.good => Content(g) = g.disk
    BY <2>1, <2>2, ConcatEmptySeq DEF Content
  <2> QED
    BY <2>1, <2>3
<1>2. CASE ~f.good
  BY <1>2 DEF FlushOutcomes, Grows
<1> QED
  BY <1>1, <1>2

LEMMA ClosedIs ==
    ASSUME NEW S, NEW f \in Stream(S), NEW g \in CloseOutcomes(f)
    PROVE  /\ g \in Stream(S) /\ ~g.isOpen /\ Grows(f, g)
           /\ g.good => /\ f.good /\ g.buffered = <<>>
                        /\ g.disk = Content(f) /\ Content(g) = Content(f)
<1>1. PICK h \in SyncOutcomes(f) : g = [h EXCEPT !.isOpen = FALSE]
  BY DEF CloseOutcomes
<1>2. /\ h \in Stream(S) /\ Grows(f, h)
      /\ h.good => f.good /\ h.buffered = <<>> /\ h.disk = Content(f)
  BY Synced
<1>3. /\ g \in Stream(S) /\ ~g.isOpen /\ Grows(f, g)
      /\ g.good => f.good /\ g.buffered = <<>> /\ g.disk = Content(f)
  BY <1>1, <1>2 DEF Stream, Grows
<1>4. g.disk \in Seq(S)
  BY <1>3 DEF Stream
<1>5. g.good => Content(g) = g.disk
  BY <1>3, <1>4, ConcatEmptySeq DEF Content
<1> QED
  BY <1>3, <1>5
=============================================================================
