------------------------------ MODULE Session ------------------------------
(***************************************************************************)
(* src/common/session.cpp: the session directory, named after the second   *)
(* it is created in, and its meta.yaml, a sequence of blocks: written once *)
(* at the start of a recording ("start"), then appended to ("summary",     *)
(* "result").  What the blocks say is left out.  Every block is written    *)
(* through a stream of its own that nobody looks at afterwards, so that a  *)
(* write the disk refuses goes unnoticed.                                  *)
(***************************************************************************)
EXTENDS Naturals, Sequences

CONSTANTS MaxClock,     \* bound: seconds the system clock counts
          NoDir         \* the empty SessionInfo::dir

ASSUME ClockAssumption == MaxClock \in Nat /\ NoDir \notin 0..MaxClock

VARIABLES clock,        \* system_clock, in seconds
          dir,          \* session_.dir
          meta,         \* what the meta.yaml of each directory holds
          metaLost      \* history: a write of meta.yaml was refused

sessionVars == <<clock, dir, meta, metaLost>>

SessionInit == /\ clock = 0
               /\ dir = NoDir
               /\ meta = [d \in 0..MaxClock |-> <<>>]
               /\ metaLost = FALSE

Tick == /\ clock < MaxClock
        /\ clock' = clock + 1
        /\ UNCHANGED <<dir, meta, metaLost>>

\* session_create(): a directory that is already there is taken as it is
SessionCreate == /\ dir' = clock
                 /\ UNCHANGED <<clock, meta, metaLost>>

SessionCreateFails == /\ dir' = NoDir
                      /\ UNCHANGED <<clock, meta, metaLost>>

\* the disk takes the new content, or what was there is left
MetaBecomes(content) ==
    /\ \/ meta' = [meta EXCEPT ![dir] = content] /\ UNCHANGED metaLost
       \/ UNCHANGED meta /\ metaLost' = TRUE
    /\ UNCHANGED <<clock, dir>>

\* session_write_meta()
WriteMeta == MetaBecomes(<<"start">>)

\* session_finalize_meta()
FinalizeMeta == MetaBecomes(Append(meta[dir], "summary"))

\* session_append_result()
AppendResult(result) ==
    IF result = "" \/ dir = NoDir
    THEN UNCHANGED sessionVars
    ELSE MetaBecomes(Append(meta[dir], "result"))
=============================================================================
