----------------------------- MODULE SdkRecorder -----------------------------
(***************************************************************************)
(* The assemblies of src/system around an SDK subscriber: lowstate, lowcmd *)
(* and arm_sdk, the two hands and their commands, motion_token and uwb.    *)
(* Each is a subscriber that calls push() of a RowRecorder on a thread of  *)
(* the SDK, and a start() and stop() for both.  They differ in the message *)
(* and in its schema only, so the model is that of all of them at once; a  *)
(* record is a message, by the sizes of its vectors.                       *)
(*                                                                         *)
(* External: a subscriber calls its callback for one message at a time; to *)
(* destroy it waits for the call under way; one whose InitChannel() threw  *)
(* calls nothing.                                                          *)
(***************************************************************************)
EXTENDS RowRecorder, RowSchemas

ASSUME MessageAssumption == Record \subseteq Message

VARIABLES channel,      \* sub_: "none", or one not initialized; "open"
          running,      \* running_
          op            \* the owner: "idle"; in start(): "channel"; in
                        \* stop(): "reset"; in rec_.close(): "close", "join"

sdkVars == <<channel, running, op>>
assemblyVars == <<vars, sdkVars>>

\* the types, and that a recording has its subscriber
SdkTypeOK ==
    /\ TypeOK
    /\ channel \in {"none", "open"}
    /\ running \in BOOLEAN
    /\ op \in {"idle", "channel", "reset", "close", "join"}
    /\ op = "idle" => (running <=> channel = "open")

SdkInit == Init /\ channel = "none" /\ running = FALSE /\ op = "idle"
-----------------------------------------------------------------------------
\* on_lowstate() and its like: what push() does, for a message the
\* subscriber has
Callback ==
    /\ caller = "idle" => channel = "open"
    /\ Push
    /\ UNCHANGED sdkVars

WriteRows == WriterThread /\ UNCHANGED sdkVars

\* start() of one that is not running: the recorder is open before there is
\* a subscriber
Start ==
    /\ op = "idle" /\ ~running
    /\ Open
    /\ op' = "channel"
    /\ UNCHANGED <<channel, running>>

StartFails ==
    /\ op = "idle" /\ ~running
    /\ OpenFails
    /\ UNCHANGED sdkVars

InitChannel ==
    /\ op = "channel"
    /\ channel' = "open" /\ running' = TRUE /\ op' = "idle"
    /\ UNCHANGED vars

\* the exception handler closes the recorder
InitChannelFails ==
    /\ op = "channel"
    /\ op' = "close"
    /\ UNCHANGED <<vars, channel, running>>

\* Mutant: stop() closes the recorder and leaves the subscriber.
StopRecorderOnly ==
    /\ op = "idle"
    /\ op' = "close"
    /\ UNCHANGED <<vars, channel, running>>

\* stop(), also the destructor's, whether or not it is running
Stop ==
    /\ op = "idle"
    /\ op' = "reset"
    /\ UNCHANGED <<vars, channel, running>>

\* sub_.reset()
ResetSubscriber ==
    /\ op = "reset" /\ caller = "idle"
    /\ channel' = "none" /\ op' = "close"
    /\ UNCHANGED <<vars, running>>

\* rec_.close() with a thread to join
CloseRecorder ==
    /\ op = "close"
    /\ Close
    /\ op' = "join"
    /\ UNCHANGED <<channel, running>>

CloseNothing ==
    /\ op = "close" /\ owner = "idle"
    /\ op' = "idle" /\ running' = FALSE
    /\ UNCHANGED <<vars, channel>>

Joined ==
    /\ op = "join"
    /\ Join
    /\ op' = "idle" /\ running' = FALSE
    /\ UNCHANGED channel

AssemblyStep ==
    \/ Start \/ StartFails \/ InitChannel \/ InitChannelFails
    \/ Stop \/ ResetSubscriber \/ CloseRecorder \/ CloseNothing \/ Joined

SdkNext == Callback \/ WriteRows \/ AssemblyStep

SdkSafety == SdkInit /\ [][SdkNext]_assemblyVars

\* A push() under way ends, the writer thread keeps running, and a start() or
\* stop() under way goes on.  Nothing makes messages arrive, or the owner call
\* start() or stop().
SdkFairness == /\ WF_assemblyVars(Callback /\ caller # "idle")
               /\ WF_assemblyVars(WriteRows)
               /\ WF_assemblyVars(AssemblyStep /\ op # "idle")

SdkSpec == SdkSafety /\ SdkFairness
-----------------------------------------------------------------------------
\* No message is handed to a recorder that is not open: neither in a start()
\* that fails, nor in a stop(), which ends the callbacks before close().
CallbacksFindRecorder == caller # "idle" => owner = "open"

\* lowstate_recorder.hpp: every record received before stop() is on disk
\* after; that is when the queue has dropped none and the disk refused none.
StopKeepsReceived ==
    op = "idle" /\ ~running /\ dropped = 0 /\ file.good /\ runs > 0 =>
        /\ received = Len(accepted)
        /\ file.disk = <<HeaderLine>> \o SubSeq(accepted, runStart + 1, Len(accepted))

\* the messages whose rows fit the header, whichever assembly gets them
FittingMessages == {msg \in Record : \A assembly \in Assemblies : Fits(assembly, msg)}

\* dex3_rows.hpp: a CSV schema must be fixed.  At every moment and in every
\* recording, until a write fails, a file has one header, before all rows,
\* and every row has exactly the header's columns, whatever the sizes of the
\* message's vectors.
RowsFitHeader ==
    file.good /\ file.disk # <<>> => /\ Head(file.disk) = HeaderLine
                        /\ ToSet(Tail(file.disk)) \subseteq FittingMessages

\* start() and stop() return, however many messages are queued or keep
\* arriving: the subscriber is gone before the recorder waits for its thread.
CallsReturn == (op # "idle") ~> (op = "idle")

Unit == INSTANCE Assembly WITH
    phase <- IF channel = "open" THEN "on" ELSE IF running THEN "drain" ELSE "off",
    lost <- dropped + writeErrors

\* The collector may take the whole assembly for a source and three counters:
\* none moves when it is off, whichever calls and failed starts there were, all
\* are even when stop() returns, and every record gets that far.
ImplementsAssembly == Unit!Spec
=============================================================================
