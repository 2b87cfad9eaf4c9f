---------------------------- MODULE RecordQueue ----------------------------
(***************************************************************************)
(* include/common/record_queue.hpp: the bounded queue between one producer *)
(* (a sensor callback thread) and one writer thread.  This module holds    *)
(* the state the class keeps under its mutex and what each critical        *)
(* section does to it.  It has no next-state relation of its own: HandOff  *)
(* states what the queue promises, WaitNotify how the mutex and the        *)
(* condition variable keep the promise, Recorder what is built on it.      *)
(***************************************************************************)
EXTENDS Naturals, Sequences

CONSTANTS Record,     \* what is queued: a frame or a row with its stamp
          Capacity    \* the argument of open()

\* size_t: a configuration may ask for 0, and then every push is refused
ASSUME CapacityAssumption == Capacity \in Nat

VARIABLES queue,      \* queue_
          capacity,   \* capacity_
          closed      \* closed_

queueVars == <<queue, capacity, closed>>

\* the types, and that the queue is bounded by the capacity it was opened with
QueueTypeOK == /\ queue \in Seq(Record) /\ Len(queue) <= capacity
               /\ capacity \in {0, Capacity}
               /\ closed \in BOOLEAN

\* The member initializers: a queue nobody opened accepts nothing.
QueueInit == /\ queue = <<>>
             /\ capacity = 0
             /\ closed = FALSE

\* open(): whatever the queue still held would be cleared
Arm == /\ capacity' = Capacity
       /\ closed' = FALSE
       /\ queue' = <<>>

\* Mutants of Refuses: one record too many; a push() after close() gets in.
RefusesOneLate == closed \/ Len(queue) > capacity
RefusesOnlyWhenFull == Len(queue) >= capacity

\* the condition under which push() returns false
Refuses == closed \/ Len(queue) >= capacity

\* the critical section of a push() that returns true
Put(r) == /\ ~Refuses
          /\ queue' = Append(queue, r)
          /\ UNCHANGED <<capacity, closed>>

\* the predicate pop_all() waits for
Ready == queue # <<>> \/ closed

\* pop_all() returning true: the whole queue is swapped out
TakeAll == /\ queue # <<>>
           /\ queue' = <<>>
           /\ UNCHANGED <<capacity, closed>>

\* the condition under which pop_all() returns false
Drained == queue = <<>> /\ closed

\* the critical section of close()
Shut == closed' = TRUE /\ UNCHANGED <<queue, capacity>>
=============================================================================
