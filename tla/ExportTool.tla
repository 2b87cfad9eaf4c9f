----------------------------- MODULE ExportTool -----------------------------
(***************************************************************************)
(* src/tools/export_session_mp4.cpp and export_session_images.cpp: a       *)
(* session's directories are gone through in whatever order the file       *)
(* system has, each gets a worker for its color and one for its depth      *)
(* stream, and then main() waits for one worker after the other and makes  *)
(* one verdict of theirs.  A worker is what ExportJob promises, and        *)
(* Exporter keeps.                                                         *)
(***************************************************************************)
EXTENDS Naturals, Sequences

CONSTANT Directories    \* the entries of the session; a file among them is
                        \* a directory without streams

Modality == {"color", "depth"}
Worker == Directories \X Modality

VARIABLES streams,      \* of each directory: the streams it has files of
          unseen,       \* the entries the iterator has yet to give
          entry,        \* the entry main() is at, and the worker it starts
          job,          \* of each worker: what its owner sees
          waits,        \* the workers of jobs, in the order of the last loop
          stage,        \* where main() is
          allOk,        \* all_ok
          exit          \* what main() returned

mainVars == <<unseen, entry, waits, stage, allOk, exit>>
toolVars == <<streams, job, mainVars>>

JobState == [state : {"new", "running", "over"}, verdict : BOOLEAN]
Job(w) == INSTANCE ExportJob WITH state <- job[w].state, verdict <- job[w].verdict

None == 2               \* main() has not returned

\* The types, and that main() waits for every worker once and for nobody it did
\* not start.
ToolTypeOK ==
    /\ streams \in [Directories -> SUBSET Modality]
    /\ unseen \subseteq Directories /\ entry \in Directories \cup {"none"}
    /\ job \in [Worker -> JobState]
    /\ stage \in {"scan", "color", "depth", "wait", "over"}
    /\ allOk \in BOOLEAN /\ exit \in {0, 1, None}
    /\ \A i \in DOMAIN waits : job[waits[i]].state # "new"
    /\ \A i, j \in DOMAIN waits : waits[i] = waits[j] => i = j

ToolInit ==
    /\ streams \in [Directories -> SUBSET Modality]
    /\ unseen = Directories /\ entry = "none"
    /\ job = [w \in Worker |-> [state |-> "new", verdict |-> FALSE]]
    /\ waits = <<>> /\ stage = "scan" /\ allOk = TRUE /\ exit = None
-----------------------------------------------------------------------------
(* main() *)

NextEntry ==
    /\ stage = "scan" /\ unseen # {}
    /\ entry' \in unseen
    /\ unseen' = unseen \ {entry'} /\ stage' = "color"
    /\ UNCHANGED <<streams, job, waits, allOk, exit>>

\* Mutant: a stream that does not start is waited for like the others.
KeepAll(w) == waits' = Append(waits, w)

\* color.reset(), depth.reset(): only who started stays
Keep(w) == waits' = IF w[2] \in streams[w[1]] THEN Append(waits, w) ELSE waits

\* start() looks for the two files of the stream
StartWorker(w) ==
    /\ stage \in Modality /\ w = <<entry, stage>>
    /\ IF stage \in streams[entry]
       THEN \E j \in JobState : job' = [job EXCEPT ![w] = j] /\ Job(w)!Begin
       ELSE UNCHANGED job
    /\ Keep(w)
    /\ stage' = IF stage = "color" THEN "depth" ELSE "scan"
    /\ UNCHANGED <<streams, unseen, entry, allOk, exit>>

\* also when there is no such session
NoJobs ==
    /\ stage = "scan" /\ unseen = {} /\ waits = <<>>
    /\ exit' = 1 /\ stage' = "over"
    /\ UNCHANGED <<streams, job, unseen, entry, waits, allOk>>

AllStarted ==
    /\ stage = "scan" /\ unseen = {} /\ waits # <<>>
    /\ stage' = "wait"
    /\ UNCHANGED <<streams, job, unseen, entry, waits, allOk, exit>>

\* Mutant: the first failure is enough.
JoinUntilFailure ==
    /\ stage = "wait" /\ waits # <<>> /\ job[Head(waits)].state # "running"
    /\ allOk' = (allOk /\ job[Head(waits)].verdict)
    /\ waits' = IF allOk' THEN Tail(waits) ELSE <<>>
    /\ UNCHANGED <<streams, job, unseen, entry, stage, exit>>

\* wait() and succeeded() of the next worker: wait() returns at once where there
\* is no thread to join
Join ==
    /\ stage = "wait" /\ waits # <<>> /\ job[Head(waits)].state # "running"
    /\ allOk' = (allOk /\ job[Head(waits)].verdict)
    /\ waits' = Tail(waits)
    /\ UNCHANGED <<streams, job, unseen, entry, stage, exit>>

Exit ==
    /\ stage = "wait" /\ waits = <<>>
    /\ exit' = (IF allOk THEN 0 ELSE 1) /\ stage' = "over"
    /\ UNCHANGED <<streams, job, unseen, entry, waits, allOk>>

Main == NextEntry \/ (\E w \in Worker : StartWorker(w)) \/ NoJobs \/ AllStarted \/ Join \/ Exit
-----------------------------------------------------------------------------
(* the workers, each on a thread of its own *)

Finish(w) ==
    /\ \E j \in JobState : job' = [job EXCEPT ![w] = j] /\ Job(w)!End
    /\ UNCHANGED <<streams, mainVars>>

ToolNext == Main \/ \E w \in Worker : Finish(w)

ToolSpec == ToolInit /\ [][ToolNext]_toolVars
-----------------------------------------------------------------------------
Started == {w \in Worker : job[w].state # "new"}

\* The tool says 0 only when the session has a stream and every stream of
\* every directory was exported as a whole; it says 1 otherwise.  Whatever it
\* says, every worker has come to its end by itself: one that had not would be
\* cancelled by its destructor as main() returns.
VerdictIsHonest ==
    stage = "over" =>
        /\ exit = 0 <=> /\ \E d \in Directories : streams[d] # {}
                        /\ \A d \in Directories : \A m \in streams[d] : job[<<d, m>>].verdict
        /\ \A w \in Started : job[w].state = "over"
=============================================================================
