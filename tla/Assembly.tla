------------------------------ MODULE Assembly ------------------------------
(***************************************************************************)
(* What a stream is to whoever starts and stops it: a source that is on    *)
(* or off and three counters.  Records come only while it is on; each of   *)
(* them is written or lost, later, and stop() returns only when every one  *)
(* is.  After that nothing moves until it is started again or destroyed.   *)
(*                                                                         *)
(* SdkRecorder, with its callbacks, queue and writer thread, implements    *)
(* this, and DataCollector takes each of its streams to be this.           *)
(***************************************************************************)
EXTENDS Naturals

VARIABLES phase,        \* "off"; "on": the source runs; "drain": it does not,
                        \* and stop() has not returned
          received, written,
          lost          \* dropped and write_errors together

counters == <<received, written, lost>>
vars == <<phase, counters>>

Settled == written + lost = received

Init == phase = "off" /\ received = 0 /\ written = 0 /\ lost = 0

TurnOn == phase = "off" /\ phase' = "on" /\ UNCHANGED counters

Receive ==
    /\ phase = "on"
    /\ received' = received + 1
    /\ UNCHANGED <<phase, written, lost>>

Settle ==
    /\ phase \in {"on", "drain"} /\ written + lost < received
    /\ \/ written' = written + 1 /\ UNCHANGED lost
       \/ lost' = lost + 1 /\ UNCHANGED written
    /\ UNCHANGED <<phase, received>>

TurnOff == phase = "on" /\ phase' = "drain" /\ UNCHANGED counters

Close == phase = "drain" /\ Settled /\ phase' = "off" /\ UNCHANGED counters

\* The object goes, and a new one has counters of its own.
Destroy ==
    /\ phase = "off"
    /\ received' = 0 /\ written' = 0 /\ lost' = 0
    /\ UNCHANGED phase

Next == TurnOn \/ Receive \/ Settle \/ TurnOff \/ Close \/ Destroy

Safety == Init /\ [][Next]_vars

\* Every record settles, and a stop() that has nothing to wait for returns.
Spec == Safety /\ WF_vars(Settle) /\ WF_vars(Close)
=============================================================================
