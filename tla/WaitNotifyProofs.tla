-------------------------- MODULE WaitNotifyProofs --------------------------
(***************************************************************************)
(* For every set of records and every capacity: the thread protocol of     *)
(* RecordQueue never loses a wakeup, its writer thread exists exactly      *)
(* while the recorder is open, and each of its steps is a step of HandOff  *)
(* or leaves HandOff's state alone.                                        *)
(***************************************************************************)
EXTENDS WaitNotify, TLAPS

\* The inductive invariant.  TypeOK and ThreadMatchesOwner need each other:
\* that a queue without a consumer takes nothing rests on it being closed or
\* of capacity 0, and that rests on the owner's state.
IInv == TypeOK /\ ThreadMatchesOwner /\ NoLostWakeup

LEMMA InitIInv == Init => IInv
<1> SUFFICES ASSUME Init PROVE IInv
  OBVIOUS
<1> USE CapacityAssumption DEF CapacityAssumption, Init, QueueInit
<1>1. queue \in Seq(Record) /\ Len(queue) <= capacity /\ capacity \in {0, Capacity}
  OBVIOUS
<1>2. TypeOK
  BY <1>1, Zenon DEF TypeOK, QueueTypeOK
<1>3. ThreadMatchesOwner /\ NoLostWakeup
  BY DEF ThreadMatchesOwner, NoLostWakeup
<1> QED
  BY <1>2, <1>3 DEF IInv

LEMMA TypeStep == TypeOK /\ [Next]_vars => TypeOK'
<1> SUFFICES ASSUME TypeOK, [Next]_vars PROVE TypeOK'
  OBVIOUS
<1> USE CapacityAssumption DEF CapacityAssumption, TypeOK, QueueTypeOK, queueVars
<1>1. ASSUME NEW r \in Record, Push(r) PROVE TypeOK'
  BY <1>1 DEF Push, Put, Refuses
<1>2. CASE Open
  <2>1. (queue \in Seq(Record) /\ Len(queue) <= capacity /\ capacity \in {0, Capacity})'
    BY <1>2 DEF Open, Arm
  <2> QED
    BY <1>2, <2>1, Zenon DEF Open, Arm
<1>3. CASE Close
  BY <1>3 DEF Close, Shut
<1>4. CASE Take
  BY <1>4 DEF Take, TakeAll
<1>5. CASE Consume
  BY <1>5 DEF Consume
<1>6. CASE PushNotify \/ CloseNotify \/ Join
  BY <1>6 DEF PushNotify, CloseNotify, Join, NotifyOne
<1>7. CASE Sleep \/ Stop \/ SpuriousWakeup \/ PopAgain
  BY <1>7 DEF Sleep, Stop, SpuriousWakeup, PopAgain
<1>8. CASE UNCHANGED vars
  BY <1>8 DEF vars, threadVars
<1> QED
  BY <1>1, <1>2, <1>3, <1>4, <1>5, <1>6, <1>7, <1>8
  DEF Next, ProducerStep, OwnerStep, ConsumerStep

LEMMA ThreadStep ==
    TypeOK /\ ThreadMatchesOwner /\ [Next]_vars => ThreadMatchesOwner'
<1> SUFFICES ASSUME TypeOK, ThreadMatchesOwner, [Next]_vars
             PROVE  ThreadMatchesOwner'
  OBVIOUS
<1> USE CapacityAssumption DEF CapacityAssumption, TypeOK, QueueTypeOK, ThreadMatchesOwner, queueVars
<1>1. ASSUME NEW r \in Record, Push(r) PROVE ThreadMatchesOwner'
  \* without a consumer the queue refuses, so there is one
  <2>1. consumer # "absent"
    BY <1>1 DEF Push, Put, Refuses
  <2> QED
    BY <1>1, <2>1 DEF Push, Put
<1>2. CASE Open
  BY <1>2 DEF Open, Arm
<1>3. CASE Close
  BY <1>3 DEF Close, Shut
<1>4. CASE Take
  BY <1>4 DEF Take, TakeAll
<1>5. CASE Stop
  BY <1>5 DEF Stop, Drained
<1>6. CASE PushNotify \/ CloseNotify \/ Join
  BY <1>6 DEF PushNotify, CloseNotify, Join, NotifyOne
<1>7. CASE Sleep \/ SpuriousWakeup \/ Consume \/ PopAgain
  BY <1>7 DEF Sleep, SpuriousWakeup, Consume, PopAgain
<1>8. CASE UNCHANGED vars
  BY <1>8 DEF vars, threadVars
<1> QED
  BY <1>1, <1>2, <1>3, <1>4, <1>5, <1>6, <1>7, <1>8
  DEF Next, ProducerStep, OwnerStep, ConsumerStep

\* The consumer falls asleep only with nothing to do; what gives it something
\* to do leaves a notify ahead; and who clears the notify wakes it up.
LEMMA WakeupStep == TypeOK /\ NoLostWakeup /\ [Next]_vars => NoLostWakeup'
<1> SUFFICES ASSUME TypeOK, NoLostWakeup, [Next]_vars PROVE NoLostWakeup'
  OBVIOUS
<1> USE DEF TypeOK, NoLostWakeup, Ready, queueVars
<1>1. ASSUME NEW r \in Record, Push(r) PROVE NoLostWakeup'
  BY <1>1 DEF Push
<1>2. CASE Open \/ Close
  BY <1>2 DEF Open, Close
<1>3. CASE PushNotify \/ CloseNotify
  BY <1>3 DEF PushNotify, CloseNotify, NotifyOne
<1>4. CASE Sleep
  BY <1>4 DEF Sleep
<1>5. CASE Take \/ Stop \/ SpuriousWakeup \/ Consume \/ PopAgain
  BY <1>5 DEF Take, Stop, SpuriousWakeup, Consume, PopAgain
<1>6. CASE Join
  BY <1>6 DEF Join
<1>7. CASE UNCHANGED vars
  BY <1>7 DEF vars, threadVars
<1> QED
  BY <1>1, <1>2, <1>3, <1>4, <1>5, <1>6, <1>7
  DEF Next, ProducerStep, OwnerStep, ConsumerStep

LEMMA Invariance == Safety => []IInv
<1>1. IInv /\ [Next]_vars => IInv'
  BY TypeStep, ThreadStep, WakeupStep DEF IInv
<1> QED
  BY InitIInv, <1>1, PTL DEF Safety

\* The queue's bound and the states of the three threads.
THEOREM TypeCorrect == Safety => []TypeOK
  BY Invariance, PTL DEF IInv

\* A consumer that sleeps while the queue holds a record or is closed is
\* about to be notified: unlocking before notify_one() is safe.
THEOREM WakeupSafe == Safety => []NoLostWakeup
  BY Invariance, PTL DEF IInv

\* The writer thread runs exactly between open() and the join.
THEOREM ThreadsMatch == Safety => []ThreadMatchesOwner
  BY Invariance, PTL DEF IInv
-----------------------------------------------------------------------------
LEMMA InitPromise == Init => Promise!HandOffInit
  BY DEF Init, Promise!HandOffInit, QueueInit, Promise!QueueInit

LEMMA StepPromise ==
    IInv /\ [Next]_vars => [Promise!HandOffNext]_(Promise!handOffVars)
<1> SUFFICES ASSUME IInv, [Next]_vars
             PROVE  Promise!HandOffNext \/ UNCHANGED Promise!handOffVars
  OBVIOUS
<1> USE DEF queueVars, Promise!queueVars, Promise!handOffVars
<1>0. TypeOK /\ ThreadMatchesOwner
  BY DEF IInv
<1>1. ASSUME NEW r \in Record, Push(r) PROVE Promise!Accept
  BY <1>1 DEF Push, Put, Refuses, Promise!Accept, Promise!Put, Promise!Refuses
<1>2. CASE Open
  <2>1. Promise!Open
    BY <1>0, <1>2 DEF Open, Arm, ThreadMatchesOwner, Promise!Open, Promise!Arm
  <2> QED
    BY <2>1 DEF Promise!HandOffNext
<1>3. CASE Close
  <2>1. Promise!Close
    BY <1>0, <1>3 DEF Close, Shut, ThreadMatchesOwner, TypeOK, Promise!Close, Promise!Shut
  <2> QED
    BY <2>1 DEF Promise!HandOffNext
<1>4. CASE Take
  <2>1. Promise!HandOver
    BY <1>4 DEF Take, TakeAll, Promise!HandOver, Promise!TakeAll
  <2> QED
    BY <2>1 DEF Promise!HandOffNext
<1>5. CASE Stop
  <2>1. Promise!Finish
    BY <1>5 DEF Stop, Drained, Promise!Finish, Promise!Drained
  <2> QED
    BY <2>1 DEF Promise!HandOffNext
<1>6. CASE Consume
  <2>1. Promise!Consume
    BY <1>6 DEF Consume, Promise!Consume
  <2> QED
    BY <2>1 DEF Promise!HandOffNext
<1>7. CASE PopAgain
  <2>1. Promise!Ask
    BY <1>7 DEF PopAgain, Promise!Ask
  <2> QED
    BY <2>1 DEF Promise!HandOffNext
<1>8. CASE PushNotify \/ CloseNotify \/ Join
  BY <1>8 DEF PushNotify, CloseNotify, Join, NotifyOne
<1>9. CASE Sleep \/ SpuriousWakeup
  BY <1>9 DEF Sleep, SpuriousWakeup
<1>10. CASE UNCHANGED vars
  BY <1>10 DEF vars, threadVars
<1> QED
  BY <1>1, <1>2, <1>3, <1>4, <1>5, <1>6, <1>7, <1>8, <1>9, <1>10
  DEF Next, ProducerStep, OwnerStep, ConsumerStep, Promise!HandOffNext

\* The protocol implements the promise of the queue (its safety part).
THEOREM KeepsPromise == Safety => ImplementsHandOffSafety
  BY InitPromise, StepPromise, Invariance, PTL
  DEF Safety, ImplementsHandOffSafety, Promise!HandOffSafety
=============================================================================
