---------------------------- MODULE RowRecorder ----------------------------
(***************************************************************************)
(* RowRecorder: a Recorder whose file is one CSV, a header and a row per   *)
(* record.  A row stands in the file as the record it was made of; the     *)
(* bytes counter is left out.                                              *)
(***************************************************************************)
EXTENDS Recorder, FileStream, SequencesExt

CONSTANT HeaderLine    \* the argument of open()

ASSUME HeaderAssumption == HeaderLine \notin Record

VARIABLES file,        \* file_
          runStart,    \* history: records attempted before this run
          flushed      \* history: lines of this run's file a flush took

vars == <<recorderVars, file, runStart, flushed>>

Line == Record \cup {HeaderLine}

\* the types of the recorder, its file and the history
TypeOK == /\ RecorderTypeOK
          /\ file \in Stream(Line)
          /\ runStart \in Nat /\ flushed \in Nat

Init == /\ RecorderInit
        /\ file = Unopened /\ runStart = 0 /\ flushed = 0

Push == /\ CallerStep
        /\ UNCHANGED <<file, runStart, flushed>>

\* Mutant: open() without ios::trunc, of the same path.
OpenAppending == /\ file' \in WriteOutcomes([file EXCEPT !.isOpen = TRUE], <<HeaderLine>>)
                 /\ StartRun
                 /\ runStart' = Len(attempted) /\ flushed' = 0

\* open() that succeeds; nobody looks whether the header was written
Open == /\ file' \in UNION {WriteOutcomes(f, <<HeaderLine>>) :
                               f \in {g \in OpenOutcomes(file) : g.isOpen}}
        /\ StartRun
        /\ runStart' = Len(attempted) /\ flushed' = 0

\* The file cannot be opened: no thread is started, the queue stays shut.
OpenFails == /\ owner = "idle" /\ runs < MaxRuns
             /\ file' \in OpenOutcomes(file) /\ ~file'.isOpen
             /\ UNCHANGED <<recorderVars, runStart, flushed>>

TakeBatch == PopBatch /\ UNCHANGED <<file, runStart, flushed>>

WriteRow == /\ batch # <<>>
            /\ file' \in WriteOutcomes(file, <<Head(batch)>>)
            /\ \E ok \in BOOLEAN : ok = file'.good /\ WriteOne(ok)
            /\ UNCHANGED <<runStart, flushed>>

\* file_.flush(); nobody looks at the stream afterwards
Flush == /\ EndBatch
         /\ file' \in FlushOutcomes(file)
         /\ flushed' = IF file'.good THEN 1 + Len(attempted) - runStart ELSE flushed
         /\ UNCHANGED runStart

Exit == WriterExit /\ UNCHANGED <<file, runStart, flushed>>

Close == BeginClose /\ UNCHANGED <<file, runStart, flushed>>

\* the join and file_.close()
Join == /\ EndClose
        /\ file' \in CloseOutcomes(file)
        /\ UNCHANGED <<runStart, flushed>>

WriterThread == TakeBatch \/ WriteRow \/ Flush \/ Exit
OwnerThread == Open \/ OpenFails \/ Close \/ Join

Next == Push \/ WriterThread \/ OwnerThread

\* A push() under way ends, the writer thread keeps running and file
\* operations return, and a close() under way goes on.  Nothing makes records
\* arrive or the owner call open() or close().
Fairness == /\ WF_vars(Push /\ caller # "idle")
            /\ WF_vars(WriterThread)
            /\ WF_vars(Join)

Spec == Init /\ [][Next]_vars /\ Fairness
-----------------------------------------------------------------------------
\* what open() and the writer have written into the file of this run
ThisRun == <<HeaderLine>> \o SubSeq(attempted, runStart + 1, Len(attempted))

\* At every moment, so also when the process is killed, the file holds the
\* header and this run's records from the first on, in order, without a hole
\* or a repetition, as long as no write has failed; and what a flush has
\* taken is there whatever fails later.
FileIsPrefix ==
    /\ file.good => IsPrefix(file.disk, ThisRun)
    /\ Len(file.disk) >= flushed
    /\ SubSeq(file.disk, 1, flushed) = SubSeq(ThisRun, 1, flushed)
=============================================================================
