----------------------------- MODULE Recording -----------------------------
(***************************************************************************)
(* What the caller of the collector is promised: a recording begins with   *)
(* the streams that could be started, and when stop() returns the caller   *)
(* has been told about every one of them; the meta.yaml of the session has *)
(* one header when the recording begins, one summary behind it when it     *)
(* ends, and at most one result behind that.  A write of the file that the *)
(* disk refuses is noticed by nobody, and then the file may hold anything. *)
(***************************************************************************)
EXTENDS Sequences

CONSTANT Stream

VARIABLES active,       \* the streams that are recorded
          stopping,     \* stop() was called and has not returned
          told,         \* the streams it has the final counters of
          meta          \* the meta.yaml of the session

vars == <<active, stopping, told, meta>>

Lost == <<"lost">>

Init == active = {} /\ stopping = FALSE /\ told = {} /\ meta = <<>>

\* the disk takes what is written, or does not
Write(content) == meta' \in IF meta = Lost THEN {Lost} ELSE {content, Lost}

\* The session gets a directory, a new one or one of an earlier recording.
Prepare ==
    /\ active = {} /\ meta # Lost
    /\ meta' \in {<<>>, <<"start", "summary">>, <<"start", "summary", "result">>}
    /\ UNCHANGED <<active, stopping, told>>

Begin ==
    /\ active = {}
    /\ active' \in (SUBSET Stream) \ {{}}
    /\ Write(<<"start">>)
    /\ UNCHANGED <<stopping, told>>

Stop ==
    /\ active # {} /\ ~stopping
    /\ stopping' = TRUE
    /\ UNCHANGED <<active, told, meta>>

Tell ==
    /\ stopping
    /\ \E s \in active \ told : told' = told \cup {s}
    /\ UNCHANGED <<active, stopping, meta>>

End ==
    /\ stopping /\ told = active
    /\ active' = {} /\ stopping' = FALSE /\ told' = {}
    /\ Write(Append(meta, "summary"))

Label ==
    /\ active = {} /\ meta \in {<<"start", "summary">>, Lost}
    /\ Write(Append(meta, "result"))
    /\ UNCHANGED <<active, stopping, told>>

Next == Prepare \/ Begin \/ Stop \/ Tell \/ End \/ Label

Safety == Init /\ [][Next]_vars

\* stop() returns.
Spec == Safety /\ WF_vars(Tell \/ End)
=============================================================================
