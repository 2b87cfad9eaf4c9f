------------------------------ MODULE Recorder ------------------------------
(***************************************************************************)
(* What BlobRecorder and RowRecorder have in common: push() on the thread  *)
(* of the sensor callback, the writer thread's loop over pop_all(), and    *)
(* open() and close() on the owner's thread, around one RecordQueue, with  *)
(* the counters each thread keeps.  The queue's operations are the atomic  *)
(* ones of HandOff, which WaitNotify justifies; this module is shown to    *)
(* use them as HandOff says.  BlobRecorder and RowRecorder extend it with  *)
(* the files.                                                              *)
(*                                                                         *)
(* The atomics are relaxed, but each has one writing thread and no thread  *)
(* decides anything from another's counter, so a step per update is exact. *)
(***************************************************************************)
EXTENDS RecordQueue

CONSTANTS MaxRecords,   \* bound: calls of push()
          MaxRuns       \* bound: calls of open() that succeed

ASSUME BoundsAssumption == MaxRecords \in Nat /\ MaxRuns \in Nat

VARIABLES caller,       \* of push(): "idle"; "counted": received_ is counted;
                        \* "refused": the queue said no, dropped_ is not yet
          received, dropped,
          writer,       \* "absent"; "pop"; "write": in the loop over the
                        \* batch; "flush": past it
          batch,        \* the part of the batch still to be written
          written, writeErrors,
          owner,        \* "idle": thread_ is not joinable; "open"; "joining"
          runs,         \* history: successful calls of open()
          accepted,     \* history: records the queue took
          attempted     \* history: records the writer tried to write

callerVars == <<caller, received, dropped>>
writerVars == <<writer, batch, written, writeErrors>>
recorderVars ==
    <<queueVars, callerVars, writerVars, owner, runs, accepted, attempted>>

RecorderTypeOK ==
    /\ QueueTypeOK
    /\ caller \in {"idle", "counted", "refused"}
    /\ writer \in {"absent", "pop", "write", "flush"}
    /\ batch \in Seq(Record) /\ (writer = "write" <=> batch # <<>>)
    /\ owner \in {"idle", "open", "joining"}
    /\ received \in Nat /\ dropped \in Nat /\ written \in Nat /\ writeErrors \in Nat
    /\ runs \in Nat
    /\ accepted \in Seq(Record) /\ attempted \in Seq(Record)

RecorderInit ==
    /\ QueueInit
    /\ caller = "idle" /\ received = 0 /\ dropped = 0
    /\ writer = "absent" /\ batch = <<>> /\ written = 0 /\ writeErrors = 0
    /\ owner = "idle" /\ runs = 0
    /\ accepted = <<>> /\ attempted = <<>>
-----------------------------------------------------------------------------
\* push(): the record arrives and is counted
Receive ==
    /\ caller = "idle" /\ received < MaxRecords
    /\ caller' = "counted" /\ received' = received + 1
    /\ UNCHANGED <<queueVars, dropped, writerVars, owner, runs, accepted, attempted>>

\* push(): the queue takes the record
Enqueue(r) ==
    /\ caller = "counted"
    /\ Put(r)
    /\ caller' = "idle" /\ accepted' = Append(accepted, r)
    /\ UNCHANGED <<received, dropped, writerVars, owner, runs, attempted>>

\* push(): the queue is full or closed
Refuse ==
    /\ caller = "counted" /\ Refuses
    /\ caller' = "refused"
    /\ UNCHANGED <<queueVars, received, dropped, writerVars, owner, runs, accepted, attempted>>

\* Mutant: a refused record is not counted.
ForgetDrop ==
    /\ caller = "refused"
    /\ caller' = "idle"
    /\ UNCHANGED <<queueVars, received, dropped, writerVars, owner, runs, accepted, attempted>>

CountDrop ==
    /\ caller = "refused"
    /\ caller' = "idle" /\ dropped' = dropped + 1
    /\ UNCHANGED <<queueVars, received, writerVars, owner, runs, accepted, attempted>>

\* Mutant: the batch is taken from the back of the deque.
PopBatchReversed ==
    /\ writer = "pop"
    /\ TakeAll
    /\ batch' = [i \in 1..Len(queue) |-> queue[Len(queue) + 1 - i]] /\ writer' = "write"
    /\ UNCHANGED <<callerVars, written, writeErrors, owner, runs, accepted, attempted>>

\* run(): pop_all() returns the next batch
PopBatch ==
    /\ writer = "pop"
    /\ TakeAll
    /\ batch' = queue /\ writer' = "write"
    /\ UNCHANGED <<callerVars, written, writeErrors, owner, runs, accepted, attempted>>

\* run(): one iteration of the loop over the batch; ok is what the stream
\* says after the write
WriteOne(ok) ==
    /\ writer = "write"
    /\ batch' = Tail(batch)
    /\ writer' = IF Len(batch) = 1 THEN "flush" ELSE "write"
    /\ written' = IF ok THEN written + 1 ELSE written
    /\ writeErrors' = IF ok THEN writeErrors ELSE writeErrors + 1
    /\ attempted' = Append(attempted, Head(batch))
    /\ UNCHANGED <<queueVars, callerVars, owner, runs, accepted>>

\* Mutant: the thread does not go back to pop_all() once the queue is closed.
LeaveWhenClosed ==
    /\ writer = "flush"
    /\ writer' = IF closed THEN "absent" ELSE "pop"
    /\ UNCHANGED <<queueVars, callerVars, batch, written, writeErrors, owner, runs,
                   accepted, attempted>>

\* run(): the files are flushed, back to pop_all()
EndBatch ==
    /\ writer = "flush"
    /\ writer' = "pop"
    /\ UNCHANGED <<queueVars, callerVars, batch, written, writeErrors, owner, runs,
                   accepted, attempted>>

\* run(): pop_all() returns false, the thread ends
WriterExit ==
    /\ writer = "pop" /\ Drained
    /\ writer' = "absent"
    /\ UNCHANGED <<queueVars, callerVars, batch, written, writeErrors, owner, runs,
                   accepted, attempted>>

\* open() once the files are open
StartRun ==
    /\ owner = "idle" /\ runs < MaxRuns
    /\ Arm
    /\ writer' = "pop" /\ batch' = <<>>
    /\ owner' = "open" /\ runs' = runs + 1
    /\ UNCHANGED <<callerVars, written, writeErrors, accepted, attempted>>

\* Mutant: close() tells the thread to stop by taking the queue away from it.
BeginCloseDiscarding ==
    /\ owner = "open"
    /\ closed' = TRUE /\ queue' = <<>> /\ UNCHANGED capacity
    /\ owner' = "joining"
    /\ UNCHANGED <<callerVars, writerVars, runs, accepted, attempted>>

\* Mutant: close() joins without closing the queue.
BeginCloseOpenQueue ==
    /\ owner = "open"
    /\ owner' = "joining"
    /\ UNCHANGED <<queueVars, callerVars, writerVars, runs, accepted, attempted>>

\* close(), also the destructor's: queue_.close(); a second close() finds no
\* joinable thread and does nothing
BeginClose ==
    /\ owner = "open"
    /\ Shut
    /\ owner' = "joining"
    /\ UNCHANGED <<callerVars, writerVars, runs, accepted, attempted>>

\* close(): thread_.join() returns
EndClose ==
    /\ owner = "joining" /\ writer = "absent"
    /\ owner' = "idle"
    /\ UNCHANGED <<queueVars, callerVars, writerVars, runs, accepted, attempted>>

CallerStep == Receive \/ (\E r \in Record : Enqueue(r)) \/ Refuse \/ CountDrop
WriterStep == PopBatch \/ (\E ok \in BOOLEAN : WriteOne(ok)) \/ EndBatch \/ WriterExit
OwnerStep == StartRun \/ BeginClose \/ EndClose

RecorderNext == CallerStep \/ WriterStep \/ OwnerStep
RecorderSpec == RecorderInit /\ [][RecorderNext]_recorderVars
-----------------------------------------------------------------------------
\* Every record push() was called with is in exactly one place: in the call,
\* queued, in the writer's batch, written, refused by the file, or dropped.
Accounted ==
    received = dropped + written + writeErrors + Len(queue) + Len(batch)
               + (IF caller = "idle" THEN 0 ELSE 1)

\* The writer takes the records in the order push() accepted them, each once,
\* over all the batches and runs.
AcceptedInOrder == accepted = attempted \o batch \o queue

\* When close() has returned the writer has tried to write every record that
\* was accepted before it; the next open() has nothing to throw away.
ClosedIsDrained == owner = "idle" => attempted = accepted

Promise == INSTANCE HandOff WITH
    consumer <- CASE writer = "absent" -> "absent"
                  [] writer = "pop" -> "asking"
                  [] OTHER -> "busy"

\* The recorder uses its queue as HandOff says: it opens it without a
\* consumer, asks again only after its batch, and closes it once.
ImplementsHandOff == Promise!HandOffSpec
ImplementsHandOffSafety == Promise!HandOffSafety
=============================================================================
