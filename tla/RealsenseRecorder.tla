------------------------- MODULE RealsenseRecorder -------------------------
(***************************************************************************)
(* src/system/realsense_recorder.cpp: the recording of one camera, two     *)
(* ReliableSubscribers whose callbacks push into two BlobRecorders.  Each  *)
(* recorder is reduced to whether it is open: what it does with the frames *)
(* is BlobRecorder's subject, and nobody pushes while close() runs, as     *)
(* FramesReachOpenRecorder says.                                           *)
(***************************************************************************)
EXTENDS ReliableSubscriber

CONSTANTS MaxStarts,    \* bound: calls of start()
          MaxTotal      \* bound: numbered samples of both streams together

ASSUME StreamAssumption == Stream = {"color", "depth"} /\ MaxStarts \in Nat

VARIABLES op,           \* the owner: "idle"; in start(): "open", "subscribe";
                        \* in stop(): "grace", "stop", "join", "close"
          at,           \* the stream the owner is at
          recording,    \* running_ of the RealsenseRecorder
          recorder,     \* color_rec_ and depth_rec_: "closed", "open"
          starts        \* bounded by MaxStarts

ownerVars == <<op, at, recording, recorder, starts>>
vars == <<subscriberVars, ownerVars>>

TypeOK ==
    /\ SubscriberTypeOK
    /\ op \in {"idle", "open", "subscribe", "grace", "stop", "join", "close"}
    /\ at \in Stream
    /\ recording \in BOOLEAN
    /\ recorder \in [Stream -> {"closed", "open"}]
    /\ starts \in 0..MaxStarts

Init ==
    /\ SubscriberInit
    /\ op = "idle" /\ at = "color" /\ recording = FALSE /\ starts = 0
    /\ recorder = [s \in Stream |-> "closed"]

\* each of the steps of start() and stop() does color, then depth
Proceed(following) ==
    IF at = "color" THEN at' = "depth" /\ op' = op
                    ELSE at' = "color" /\ op' = following
-----------------------------------------------------------------------------
(* start() *)

\* A start() that finds running_ set does nothing.
Start ==
    /\ op = "idle" /\ ~recording /\ starts < MaxStarts
    /\ op' = "open" /\ at' = "color" /\ starts' = starts + 1
    /\ UNCHANGED <<subscriberVars, recording, recorder>>

OpenRecorder ==
    /\ op = "open"
    /\ recorder' = [recorder EXCEPT ![at] = "open"]
    /\ Proceed("subscribe")
    /\ UNCHANGED <<subscriberVars, recording, starts>>

OpenRecorderFails ==
    /\ op = "open"
    /\ recorder' = [s \in Stream |-> "closed"]
    /\ op' = "idle" /\ at' = "color"
    /\ UNCHANGED <<subscriberVars, recording, starts>>

Subscribe ==
    /\ op = "subscribe"
    /\ StartSubscriber(at)
    /\ Proceed("idle")
    /\ recording' = (at = "depth")
    /\ UNCHANGED <<recorder, starts>>

\* Mutant: the streams started so far are left to run.
SubscribeFailsWithoutStop ==
    /\ op = "subscribe"
    /\ StartSubscriberFails(at)
    /\ op' = "idle" /\ at' = "color"
    /\ UNCHANGED <<recording, recorder, starts>>

\* start() calls stop()
SubscribeFails ==
    /\ op = "subscribe"
    /\ StartSubscriberFails(at)
    /\ op' = "grace" /\ at' = "color"
    /\ UNCHANGED <<recording, recorder, starts>>
-----------------------------------------------------------------------------
(* stop() *)

Stop ==
    /\ op = "idle"
    /\ op' = "grace"
    /\ UNCHANGED <<subscriberVars, at, recording, recorder, starts>>

\* Mutant: the recorders are closed before the subscribers are stopped.
GraceOverClosing ==
    /\ op = "grace"
    /\ op' = "stop" /\ at' = "color"
    /\ recorder' = [s \in Stream |-> "closed"]
    /\ UNCHANGED <<subscriberVars, recording, starts>>

\* 200 ms, in which frames are recorded as before
GraceOver ==
    /\ op = "grace"
    /\ op' = "stop" /\ at' = "color"
    /\ UNCHANGED <<subscriberVars, recording, recorder, starts>>

StopSubscriber ==
    /\ op = "stop"
    /\ BeginStop(at)
    /\ op' = "join"
    /\ UNCHANGED <<at, recording, recorder, starts>>

\* ReliableSubscriber::stop() finds no joinable thread
SkipSubscriber ==
    /\ op = "stop" /\ thread[at] = "absent"
    /\ Proceed("close")
    /\ UNCHANGED <<subscriberVars, recording, recorder, starts>>

Join ==
    /\ op = "join"
    /\ JoinAndSweep(at)
    /\ UNCHANGED ownerVars

SubscriberStopped ==
    /\ op = "join"
    /\ CloseReader(at)
    /\ IF at = "color" THEN op' = "stop" /\ at' = "depth" ELSE op' = "close" /\ at' = "color"
    /\ UNCHANGED <<recording, recorder, starts>>

CloseRecorder ==
    /\ op = "close"
    /\ recorder' = [recorder EXCEPT ![at] = "closed"]
    /\ Proceed("idle")
    /\ recording' = (recording /\ at = "color")
    /\ UNCHANGED <<subscriberVars, starts>>

Wire ==
    /\ \E s \in Stream : SubscriberWire(s) /\ UNCHANGED ownerVars
    /\ sent'["color"] + sent'["depth"] <= MaxTotal

TakeThreads(s) == TakeThread(s) /\ UNCHANGED ownerVars

OwnerStep ==
    \/ OpenRecorder \/ OpenRecorderFails \/ Subscribe \/ SubscribeFails
    \/ GraceOver \/ StopSubscriber \/ SkipSubscriber \/ Join \/ SubscriberStopped
    \/ CloseRecorder

Next == Wire \/ (\E s \in Stream : TakeThreads(s)) \/ Start \/ Stop \/ OwnerStep

\* What runs and goes on is said in CameraAssembly, which has the recorders'
\* threads, too.
Spec == Init /\ [][Next]_vars
-----------------------------------------------------------------------------
\* A frame a subscriber has taken from its reader finds its recorder open:
\* stop() ends the subscribers before it closes the recorders, and neither a
\* take-thread nor the last sweep pushes into a recorder that is closed.
FramesReachOpenRecorder ==
    \A s \in Stream : taken[s] # <<>> => recorder[s] = "open"

\* A start() that fails half-way leaves no thread, no open recorder, and of the
\* readers only the one whose own start() threw when it had made it: the stop()
\* it makes skips a subscriber that has no thread.  A stop() leaves no more than
\* that, and a start() that succeeds has both streams running.
StartedOrClean ==
    op = "idle" => \A s \in Stream :
        IF recording THEN thread[s] # "absent" /\ recorder[s] = "open" /\ reader[s] = "open"
                     ELSE /\ thread[s] = "absent" /\ recorder[s] = "closed"
                          /\ reader[s] = "open" <=> abandoned[s]

\* stop() returns although the camera goes on publishing.
StopReturns == (op = "grace") ~> (op = "idle")
=============================================================================
