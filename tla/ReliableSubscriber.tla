------------------------- MODULE ReliableSubscriber -------------------------
(***************************************************************************)
(* include/realsense_recorder/reliable_subscriber.hpp: a DDS reader with a *)
(* take-thread of its own.  The state is one function per field over the   *)
(* streams that have a subscriber, so that a module of several subscribers *)
(* (RealsenseRecorder) extends this one.                                   *)
(*                                                                         *)
(* External, as CycloneDDS does it for the QoS start() asks for: samples   *)
(* travel in order; a RELIABLE KeepAll reader gets every one, the writer   *)
(* waiting while the cache is at its limit; a best-effort KeepLast reader  *)
(* may miss some and throws the oldest away when its cache is full.  Only  *)
(* samples with valid data are modelled: drain() skips the others.         *)
(***************************************************************************)
EXTENDS Naturals, Sequences

CONSTANTS Stream,       \* the subscribers
          CacheLimit,   \* ResourceLimits(4096) or KeepLast(30)
          MaxSamples    \* bound: samples published per stream

ASSUME CacheAssumption == CacheLimit \in Nat \ {0} /\ MaxSamples \in Nat

VARIABLES reliable,     \* the argument of start()
          sent,         \* number of the sample published last
          next,         \* number of the next sample to land in the reader
          reader,       \* "none", "open"
          cache,        \* samples that landed and were not taken
          more,         \* and the reader holds samples beyond MaxSamples, which
                        \* are not numbered any more
          running,      \* running_
          thread,       \* "absent"; "check": at the head of run()'s loop;
                        \* "waiting": in waitset_.wait; "deliver": in drain()
          stopper,      \* in stop(): "idle", "joining", "sweeping"
          taken,        \* what the drain() under way still holds
          delivered,    \* history: samples on_frame_ was called with
          atStart,      \* history: number of the last sample published before
                        \* the reader was made that serves, or did so last
          atStop,       \* history: number of the last sample landed when
                        \* stop() was called, of that reader
          abandoned     \* history: a start() threw when it had made the
                        \* reader, which nobody closes then

wireVars == <<sent, next>>
readerVars == <<reader, cache, more>>
historyVars == <<delivered, atStart, atStop, abandoned>>
subscriberVars ==
    <<reliable, wireVars, readerVars, running, thread, stopper, taken, historyVars>>

Samples == 1..MaxSamples

MarksTypeOK ==
    /\ more \in [Stream -> BOOLEAN] /\ abandoned \in [Stream -> BOOLEAN]
    /\ atStart \in [Stream -> 0..MaxSamples] /\ atStop \in [Stream -> 0..MaxSamples]

\* the types, and that nobody looks into a reader that is closed
SubscriberTypeOK ==
    /\ reliable \in BOOLEAN
    /\ sent \in [Stream -> 0..MaxSamples] /\ next \in [Stream -> 1..MaxSamples + 1]
    /\ reader \in [Stream -> {"none", "open"}]
    /\ cache \in [Stream -> Seq(Samples)] /\ \A s \in Stream : Len(cache[s]) <= CacheLimit
    /\ running \in [Stream -> BOOLEAN]
    /\ thread \in [Stream -> {"absent", "check", "waiting", "deliver"}]
    /\ stopper \in [Stream -> {"idle", "joining", "sweeping"}]
    /\ taken \in [Stream -> Seq(Samples)] /\ delivered \in [Stream -> Seq(Samples)]
    /\ MarksTypeOK
    /\ \A s \in Stream :
          thread[s] # "absent" \/ stopper[s] # "idle" => reader[s] = "open"

SubscriberInit ==
    /\ reliable \in BOOLEAN
    /\ sent = [s \in Stream |-> 0] /\ next = [s \in Stream |-> 1]
    /\ reader = [s \in Stream |-> "none"]
    /\ cache = [s \in Stream |-> <<>>] /\ taken = [s \in Stream |-> <<>>]
    /\ running = [s \in Stream |-> FALSE] /\ thread = [s \in Stream |-> "absent"]
    /\ stopper = [s \in Stream |-> "idle"]
    /\ more = [s \in Stream |-> FALSE] /\ abandoned = [s \in Stream |-> FALSE]
    /\ delivered = [s \in Stream |-> <<>>]
    /\ atStart = [s \in Stream |-> 0] /\ atStop = [s \in Stream |-> 0]
-----------------------------------------------------------------------------
(* The camera and the wire (external) *)

Publish(s) ==
    /\ sent[s] < MaxSamples
    /\ sent' = [sent EXCEPT ![s] = @ + 1]
    /\ next' = IF reader[s] = "open" THEN next ELSE [next EXCEPT ![s] = sent[s] + 2]
    /\ UNCHANGED <<reliable, readerVars, running, thread, stopper, taken, historyVars>>

Land(s) ==
    /\ reader[s] = "open" /\ next[s] <= sent[s]
    /\ reliable => Len(cache[s]) < CacheLimit
    /\ LET kept == IF Len(cache[s]) = CacheLimit THEN Tail(cache[s]) ELSE cache[s]
       IN  cache' = [cache EXCEPT ![s] = Append(kept, next[s])]
    /\ next' = [next EXCEPT ![s] = @ + 1]
    /\ UNCHANGED <<reliable, sent, reader, more, running, thread, stopper, taken, historyVars>>

LoseSample(s) ==
    /\ ~reliable /\ reader[s] = "open" /\ next[s] <= sent[s]
    /\ next' = [next EXCEPT ![s] = @ + 1]
    /\ UNCHANGED <<reliable, sent, readerVars, running, thread, stopper, taken, historyVars>>

\* The camera does not stop at MaxSamples: what it publishes beyond is there to
\* be taken, again and again, and neither numbered nor counted.
Flood(s) ==
    /\ reader[s] = "open" /\ next[s] = MaxSamples + 1
    /\ reliable => Len(cache[s]) < CacheLimit
    /\ more' = [more EXCEPT ![s] = TRUE]
    /\ UNCHANGED <<reliable, wireVars, reader, cache, running, thread, stopper, taken, historyVars>>
-----------------------------------------------------------------------------
(* start() *)

NewReader(s) ==
    /\ reader' = [reader EXCEPT ![s] = "open"]
    /\ cache' = [cache EXCEPT ![s] = <<>>] /\ more' = [more EXCEPT ![s] = FALSE]
    /\ next' = [next EXCEPT ![s] = sent[s] + 1]

StartSubscriber(s) ==
    /\ NewReader(s)
    /\ running' = [running EXCEPT ![s] = TRUE]
    /\ thread' = [thread EXCEPT ![s] = "check"]
    /\ delivered' = [delivered EXCEPT ![s] = <<>>]
    /\ atStart' = [atStart EXCEPT ![s] = sent[s]] /\ atStop' = [atStop EXCEPT ![s] = sent[s]]
    /\ abandoned' = [abandoned EXCEPT ![s] = FALSE]
    /\ UNCHANGED <<reliable, sent, stopper, taken>>

\* An exception: before the reader is there, or between that and the thread;
\* the reader is then left as it is.
StartSubscriberFails(s) ==
    /\ \/ NewReader(s) /\ abandoned' = [abandoned EXCEPT ![s] = TRUE]
       \/ UNCHANGED <<readerVars, next, abandoned>>
    /\ UNCHANGED <<reliable, sent, running, thread, stopper, taken, delivered, atStart, atStop>>
-----------------------------------------------------------------------------
(* run() and drain() *)

\* Mutant: the thread looks at running_ only when it has drained the cache.
CheckRunningWhenIdle(s) ==
    /\ thread[s] = "check"
    /\ thread' = [thread EXCEPT ![s] =
                     IF running[s] \/ cache[s] # <<>> \/ more[s] THEN "waiting" ELSE "absent"]
    /\ UNCHANGED <<reliable, wireVars, readerVars, running, stopper, taken, historyVars>>

CheckRunning(s) ==
    /\ thread[s] = "check"
    /\ thread' = [thread EXCEPT ![s] = IF running[s] THEN "waiting" ELSE "absent"]
    /\ UNCHANGED <<reliable, wireVars, readerVars, running, stopper, taken, historyVars>>

\* TimeoutError after 100 ms without a sample
WaitTimesOut(s) ==
    /\ thread[s] = "waiting" /\ cache[s] = <<>> /\ ~more[s]
    /\ thread' = [thread EXCEPT ![s] = "check"]
    /\ UNCHANGED <<reliable, wireVars, readerVars, running, stopper, taken, historyVars>>

\* Mutant: the samples are read and stay in the cache.
ReadAll(s) ==
    /\ taken' = [taken EXCEPT ![s] = cache[s]]
    /\ UNCHANGED <<cache, more>>

\* reader_.take()
TakeSamples(s) ==
    /\ taken' = [taken EXCEPT ![s] = cache[s]]
    /\ cache' = [cache EXCEPT ![s] = <<>>] /\ more' = [more EXCEPT ![s] = FALSE]

\* wait() returns because there is a sample, and drain() takes all of them
Wake(s) ==
    /\ thread[s] = "waiting" /\ (cache[s] # <<>> \/ more[s])
    /\ TakeSamples(s)
    /\ thread' = [thread EXCEPT ![s] = "deliver"]
    /\ UNCHANGED <<reliable, wireVars, reader, running, stopper, historyVars>>

\* one iteration of drain()'s loop: on_frame_(map_(...)), in the thread of
\* the subscriber or of the one who stops it
Deliver(s) ==
    /\ thread[s] = "deliver" \/ stopper[s] = "sweeping"
    /\ taken[s] # <<>>
    /\ delivered' = [delivered EXCEPT ![s] = Append(@, Head(taken[s]))]
    /\ taken' = [taken EXCEPT ![s] = Tail(@)]
    /\ UNCHANGED <<reliable, wireVars, readerVars, running, thread, stopper,
                   atStart, atStop, abandoned>>

Drained(s) ==
    /\ thread[s] = "deliver" /\ taken[s] = <<>>
    /\ thread' = [thread EXCEPT ![s] = "check"]
    /\ UNCHANGED <<reliable, wireVars, readerVars, running, stopper, taken, historyVars>>
-----------------------------------------------------------------------------
(* stop() *)

\* the thread is joinable: it is there until somebody joins it
BeginStop(s) ==
    /\ stopper[s] = "idle" /\ thread[s] # "absent"
    /\ running' = [running EXCEPT ![s] = FALSE]
    /\ stopper' = [stopper EXCEPT ![s] = "joining"]
    /\ atStop' = [atStop EXCEPT ![s] = next[s] - 1]
    /\ UNCHANGED <<reliable, wireVars, readerVars, thread, taken, delivered, atStart, abandoned>>

\* Mutant: no sweep after the join.
JoinOnly(s) ==
    /\ stopper[s] = "joining" /\ thread[s] = "absent"
    /\ stopper' = [stopper EXCEPT ![s] = "sweeping"]
    /\ UNCHANGED <<reliable, wireVars, readerVars, running, thread, taken, historyVars>>

\* Mutant: the reader is swept and closed without waiting for the thread.
SweepWithoutJoin(s) ==
    /\ stopper[s] = "joining"
    /\ TakeSamples(s)
    /\ stopper' = [stopper EXCEPT ![s] = "sweeping"]
    /\ UNCHANGED <<reliable, wireVars, reader, running, thread, historyVars>>

\* thread_.join(), and the take() of the last drain()
JoinAndSweep(s) ==
    /\ stopper[s] = "joining" /\ thread[s] = "absent"
    /\ TakeSamples(s)
    /\ stopper' = [stopper EXCEPT ![s] = "sweeping"]
    /\ UNCHANGED <<reliable, wireVars, reader, running, thread, historyVars>>

\* the last drain() is done: reader_.close() and what is in it is gone
CloseReader(s) ==
    /\ stopper[s] = "sweeping" /\ taken[s] = <<>>
    /\ stopper' = [stopper EXCEPT ![s] = "idle"]
    /\ reader' = [reader EXCEPT ![s] = "none"]
    /\ cache' = [cache EXCEPT ![s] = <<>>] /\ more' = [more EXCEPT ![s] = FALSE]
    /\ next' = [next EXCEPT ![s] = sent[s] + 1]
    /\ UNCHANGED <<reliable, sent, running, thread, taken, historyVars>>

SubscriberWire(s) == Publish(s) \/ Land(s) \/ LoseSample(s) \/ Flood(s)
TakeThread(s) ==
    CheckRunning(s) \/ WaitTimesOut(s) \/ Wake(s) \/ Deliver(s) \/ Drained(s)
-----------------------------------------------------------------------------
\* A reader delivers in the order of publication and nothing twice; a
\* reliable one skips nothing either.
DeliveredInOrder ==
    \A s \in Stream : \A i \in 1..Len(delivered[s]) - 1 :
        /\ delivered[s][i] < delivered[s][i + 1]
        /\ reliable => delivered[s][i + 1] = delivered[s][i] + 1

\* Of a reliable reader everything is delivered, from the first sample after
\* the reader was made to the last that had landed when stop() was called, once
\* stop() is done with the subscriber: nothing is left between the last look of
\* the take-thread and the join, be it the only sample of the recording.
StopLosesNothingLanded ==
    \A s \in Stream : reliable /\ stopper[s] = "idle" /\ reader[s] = "none" =>
        \A i \in 1..atStop[s] - atStart[s] :
            i <= Len(delivered[s]) /\ delivered[s][i] = atStart[s] + i
=============================================================================
