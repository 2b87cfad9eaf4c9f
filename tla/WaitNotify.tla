----------------------------- MODULE WaitNotify -----------------------------
(***************************************************************************)
(* RecordQueue under three threads: the producer's push(), the writer's    *)
(* pop_all() loop and the owner's open(), close() and join.  The mutex is  *)
(* held for the whole of every critical section, so a critical section is  *)
(* one step; what it leaves open is the gap between the unlock and         *)
(* notify_one(), a notify that finds nobody waiting (it is lost), and a    *)
(* spurious wakeup.                                                        *)
(***************************************************************************)
EXTENDS RecordQueue

VARIABLES batch,      \* what the consumer still has of `out`
          producer,   \* "idle", or "notify": accepted, notify_one() ahead
          consumer,   \* "absent"; "locking": about to lock and look;
                      \* "waiting": asleep in cv_.wait; "busy": with a batch
          owner       \* "idle", "open", "notify": closed_ set, notify_one()
                      \* ahead; "joining"

threadVars == <<batch, producer, consumer, owner>>
vars == <<queueVars, threadVars>>

TypeOK == /\ QueueTypeOK
          /\ batch \in Seq(Record)
          /\ producer \in {"idle", "notify"}
          /\ consumer \in {"absent", "locking", "waiting", "busy"}
          /\ owner \in {"idle", "open", "notify", "joining"}

Init == /\ QueueInit
        /\ batch = <<>>
        /\ producer = "idle" /\ consumer = "absent" /\ owner = "idle"

\* notify_one(): wakes the consumer if it sleeps, and is lost otherwise
NotifyOne == consumer' = IF consumer = "waiting" THEN "locking" ELSE consumer
-----------------------------------------------------------------------------
\* push() that returns true, up to the unlock.  One that returns false
\* changes nothing and is a stuttering step.
Push(r) == /\ producer = "idle"
           /\ Put(r)
           /\ producer' = "notify"
           /\ UNCHANGED <<batch, consumer, owner>>

\* Mutant: push() without notify_one().
PushWithoutNotify == /\ producer = "notify"
                     /\ producer' = "idle"
                     /\ UNCHANGED <<queueVars, batch, consumer, owner>>

PushNotify == /\ producer = "notify"
              /\ NotifyOne
              /\ producer' = "idle"
              /\ UNCHANGED <<queueVars, batch, owner>>

\* open() and the start of the writer thread, whose batch is a fresh local
Open == /\ owner = "idle"
        /\ Arm
        /\ batch' = <<>> /\ consumer' = "locking" /\ owner' = "open"
        /\ UNCHANGED producer

Close == /\ owner = "open"
         /\ Shut
         /\ owner' = "notify"
         /\ UNCHANGED <<batch, producer, consumer>>

CloseNotify == /\ owner = "notify"
               /\ NotifyOne
               /\ owner' = "joining"
               /\ UNCHANGED <<queueVars, batch, producer>>

\* thread_.join() in the recorder's close()
Join == /\ owner = "joining" /\ consumer = "absent"
        /\ owner' = "idle"
        /\ UNCHANGED <<queueVars, batch, producer, consumer>>

\* pop_all() with the lock held finds nothing to do: cv_.wait releases the
\* mutex and sleeps in one step
Sleep == /\ consumer = "locking" /\ ~Ready
         /\ consumer' = "waiting"
         /\ UNCHANGED <<queueVars, batch, producer, owner>>

\* pop_all() returns true
Take == /\ consumer = "locking"
        /\ TakeAll
        /\ batch' = queue /\ consumer' = "busy"
        /\ UNCHANGED <<producer, owner>>

\* Mutant: pop_all() returns false as soon as the queue is closed.
StopUndrained == /\ consumer = "locking" /\ closed
                 /\ consumer' = "absent"
                 /\ UNCHANGED <<queueVars, batch, producer, owner>>

\* pop_all() returns false and the writer thread ends
Stop == /\ consumer = "locking" /\ Drained
        /\ consumer' = "absent"
        /\ UNCHANGED <<queueVars, batch, producer, owner>>

SpuriousWakeup == /\ consumer = "waiting"
                  /\ consumer' = "locking"
                  /\ UNCHANGED <<queueVars, batch, producer, owner>>

\* the writer goes through its batch, then calls pop_all() again
Consume == /\ consumer = "busy" /\ batch # <<>>
           /\ batch' = Tail(batch)
           /\ UNCHANGED <<queueVars, producer, consumer, owner>>

PopAgain == /\ consumer = "busy" /\ batch = <<>>
            /\ consumer' = "locking"
            /\ UNCHANGED <<queueVars, batch, producer, owner>>

ProducerStep == (\E r \in Record : Push(r)) \/ PushNotify
OwnerStep == Open \/ Close \/ CloseNotify \/ Join
ConsumerStep == Sleep \/ Take \/ Stop \/ SpuriousWakeup \/ Consume \/ PopAgain

Next == ProducerStep \/ OwnerStep \/ ConsumerStep

\* Every thread that is running and not asleep goes on.  Nothing makes the
\* producer push, the owner open or close, or the system wake a thread up
\* spuriously.
Fairness == /\ WF_vars(PushNotify)
            /\ WF_vars(CloseNotify)
            /\ WF_vars(Join)
            /\ WF_vars(Sleep \/ Take \/ Stop \/ Consume \/ PopAgain)

Safety == Init /\ [][Next]_vars
Spec == Safety /\ Fairness
-----------------------------------------------------------------------------
\* No lost wakeup: when the consumer sleeps although it has something to do,
\* somebody is about to notify it.  Between an unlock and its notify_one()
\* the consumer may have taken the record, come back and gone to sleep again.
NoLostWakeup ==
    consumer = "waiting" /\ Ready => producer = "notify" \/ owner = "notify"

\* The thread exists exactly while the recorder is open or being joined, and
\* a queue without a consumer holds nothing and accepts nothing.
ThreadMatchesOwner ==
    /\ owner = "idle" => consumer = "absent"
    /\ owner = "open" => consumer # "absent" /\ ~closed
    /\ owner \in {"notify", "joining"} => closed
    /\ consumer = "absent" => queue = <<>> /\ (closed \/ capacity = 0)

\* The promise of the queue: asleep or awake, a consumer inside pop_all() is
\* asking.
Promise == INSTANCE HandOff WITH
    consumer <- IF consumer \in {"locking", "waiting"} THEN "asking" ELSE consumer

\* The mutex and condition variable protocol keeps the promise of HandOff,
\* its fairness included: what is queued is handed over, and a consumer of a
\* closed, empty queue is told to stop.
ImplementsHandOff == Promise!HandOffSpec
ImplementsHandOffSafety == Promise!HandOffSafety
=============================================================================
