--------------------------- MODULE CameraAssembly ---------------------------
(***************************************************************************)
(* A camera as DataCollector has it: RealsenseRecorder over its two        *)
(* BlobRecorders, each of which is what Recorder shows of it, three        *)
(* counters and a writer thread that settles what was received, and that   *)
(* close() joins.                                                          *)
(***************************************************************************)
EXTENDS RealsenseRecorder

VARIABLES received, written,
          lost,         \* dropped and write_errors together
          used          \* history: a subscriber was started since the
                        \* recorders were opened

counterVars == <<received, written, lost>>
cameraVars == <<vars, counterVars, used>>

Settled(s) == written[s] + lost[s] = received[s]

\* a frame still comes: the thread runs, or stop() is not done with the reader
Serving(s) == thread[s] # "absent" \/ stopper[s] # "idle"

\* No recorder settles more than it received.
CountersOK ==
    /\ received \in [Stream -> Nat] /\ written \in [Stream -> Nat] /\ lost \in [Stream -> Nat]
    /\ \A s \in Stream : written[s] + lost[s] <= received[s]
    /\ used \in BOOLEAN

CameraTypeOK == TypeOK /\ CountersOK

CameraInit ==
    /\ Init
    /\ received = [s \in Stream |-> 0] /\ written = received /\ lost = received
    /\ used = FALSE

\* on_frame_ is push(), in the take-thread and in the last sweep of stop()
Push(s) ==
    /\ Deliver(s) /\ UNCHANGED ownerVars
    /\ received' = [received EXCEPT ![s] = @ + 1]
    /\ UNCHANGED <<written, lost, used>>

\* what push() or run() make of a record, in the end
Settle(s) ==
    /\ recorder[s] = "open" /\ ~Settled(s)
    /\ \/ written' = [written EXCEPT ![s] = @ + 1] /\ UNCHANGED lost
       \/ lost' = [lost EXCEPT ![s] = @ + 1] /\ UNCHANGED written
    /\ UNCHANGED <<vars, received, used>>

\* Mutant: close() does not wait for the writer thread.
CloseUnjoined ==
    /\ CloseRecorder
    /\ used' = (used /\ at = "color")
    /\ UNCHANGED counterVars

\* close() returns when the writer thread has ended, with an empty queue
CloseJoined ==
    /\ CloseRecorder /\ Settled(at)
    /\ used' = (used /\ at = "color")
    /\ UNCHANGED counterVars

OwnerMoves ==
    \/ Subscribe /\ used' = TRUE /\ UNCHANGED counterVars
    \/ CloseJoined
    \/ /\ \/ OpenRecorder \/ OpenRecorderFails \/ SubscribeFails \/ GraceOver
          \/ StopSubscriber \/ SkipSubscriber \/ Join \/ SubscriberStopped
       /\ UNCHANGED <<counterVars, used>>

Looks(s) ==
    /\ CheckRunning(s) \/ WaitTimesOut(s) \/ Wake(s) \/ Drained(s)
    /\ UNCHANGED <<ownerVars, counterVars, used>>

CameraNext ==
    \/ \E s \in Stream : Push(s) \/ Settle(s) \/ Looks(s)
    \/ OwnerMoves
    \/ (Start \/ Stop \/ Wire) /\ UNCHANGED <<counterVars, used>>

\* The take-threads and the writer threads run, and a start() or stop() under
\* way goes on.
CameraFairness ==
    /\ WF_cameraVars(OwnerMoves)
    /\ \A s \in Stream : WF_cameraVars(Push(s) \/ Looks(s)) /\ WF_cameraVars(Settle(s))

CameraSpec == CameraInit /\ [][CameraNext]_cameraVars /\ CameraFairness
-----------------------------------------------------------------------------
Unit == INSTANCE Assembly WITH
    phase <- IF ~used THEN "off" ELSE IF \E s \in Stream : Serving(s) THEN "on" ELSE "drain",
    received <- received["color"] + received["depth"],
    written <- written["color"] + written["depth"],
    lost <- lost["color"] + lost["depth"]

\* A camera is to its owner what every other stream is: frames come from a
\* start() that gets as far as the first subscriber until stop() is done with
\* the last reader, every one settles, and stop() returns, also the one a
\* start() that fails half-way makes, only when all have, in both recorders.
ImplementsAssembly == Unit!Spec
=============================================================================
