------------------------------ MODULE HandOff ------------------------------
(***************************************************************************)
(* What RecordQueue promises its users, as one atomic step per outcome and *)
(* without a mutex or a condition variable: an accepted record stays in    *)
(* order until it is handed over, the consumer gets the whole queue as one *)
(* batch, it is told to stop only when the queue is closed and empty, it   *)
(* is never left waiting for a record that is there or for a close that    *)
(* happened, and arming the queue again discards nothing.                  *)
(*                                                                         *)
(* WaitNotify (the protocol of threads) and Recorder (what the recorders   *)
(* do with the queue) are both shown to implement HandOffSpec.             *)
(***************************************************************************)
EXTENDS RecordQueue

VARIABLES batch,      \* the part of the last batch the consumer still holds
          consumer    \* "absent": no thread; "asking": in pop_all(); "busy"

handOffVars == <<queueVars, batch, consumer>>

HandOffInit == QueueInit /\ batch = <<>> /\ consumer = "absent"

Open == /\ consumer = "absent" /\ queue = <<>>
        /\ Arm
        /\ batch' = <<>> /\ consumer' = "asking"

Accept == /\ \E r \in Record : Put(r)
          /\ UNCHANGED <<batch, consumer>>

HandOver == /\ consumer = "asking" /\ TakeAll
            /\ batch' = queue /\ consumer' = "busy"

Consume == /\ consumer = "busy" /\ batch # <<>>
           /\ batch' = Tail(batch)
           /\ UNCHANGED <<queueVars, consumer>>

Ask == /\ consumer = "busy" /\ batch = <<>>
       /\ consumer' = "asking"
       /\ UNCHANGED <<queueVars, batch>>

Close == /\ consumer # "absent" /\ ~closed
         /\ Shut
         /\ UNCHANGED <<batch, consumer>>

Finish == /\ consumer = "asking" /\ Drained
          /\ consumer' = "absent"
          /\ UNCHANGED <<queueVars, batch>>

HandOffNext == Open \/ Accept \/ HandOver \/ Consume \/ Ask \/ Close \/ Finish

\* The consumer works as long as there is something for it to do.
HandOffFairness == WF_handOffVars(HandOver \/ Consume \/ Ask \/ Finish)

HandOffSafety == HandOffInit /\ [][HandOffNext]_handOffVars
HandOffSpec == HandOffSafety /\ HandOffFairness
=============================================================================
