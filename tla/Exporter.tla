------------------------------ MODULE Exporter ------------------------------
(***************************************************************************)
(* src/export: the four workers that turn a recorded stream into a file or *)
(* a directory of images, each on a thread of its own under the same       *)
(* start(), stop() and wait().  They differ in what they need, in what     *)
(* they do about a frame they cannot read or write, and in what they call  *)
(* success.                                                                *)
(*                                                                         *)
(* The rows are those read_index() makes of the lines of the index, and of *)
(* one that may be cut short when the recording was (IndexFile).           *)
(* External: the demuxer gives one packet for each row, in order; the      *)
(* H.264 decoder may drop any frame, and so may cv::VideoWriter, which     *)
(* ignores a frame of another size than the first one.  The decoder's      *)
(* delay is left out, as are the durations of the packets.                 *)
(***************************************************************************)
EXTENDS IndexFile

CONSTANTS Seq0,         \* bound: the publisher's sequence numbers
          Arrival,      \* bound: the arrival times, in microseconds
          MaxRows,      \* bound: rows of the index
          MaxRuns       \* bound: calls of start()

ASSUME ExporterAssumption ==
    Seq0 \subseteq Nat /\ Arrival \subseteq Nat /\ MaxRows \in Nat /\ MaxRuns \in Nat

VARIABLES kind,         \* which of the four
          lines,        \* the complete lines of the index
          rows,         \* what read_index() returns
          whole,        \* how many of the rows' payloads the blob holds
          owner,        \* "idle", "waiting": in thread_.join(), "terminated"
          thread,       \* "none": not joinable; "run"; "done"
          pc,           \* where run() is
          running, cancel, ok,
          done,         \* rows run() has gone through
          failed,       \* ~io_ok, ~write_ok
          complete,     \* complete
          out,          \* history: what this run put out, a row and a stamp
          runs

inputVars == <<kind, lines, rows, whole>>
runVars == <<done, failed, complete, out>>
vars == <<inputVars, owner, thread, pc, running, cancel, ok, runVars, runs>>

Color == {"color_mp4", "color_images"}
Depth == {"depth_mp4", "depth_images"}
Mp4 == {"color_mp4", "depth_mp4"}
Row == [seq : Seq0, recv : Arrival, key : BOOLEAN, slice : {"own", "short", "other"}]

\* the types, and that the flag tells whether the worker is at work
TypeOK ==
    /\ owner \in {"idle", "waiting", "terminated"}
    /\ thread \in {"none", "run", "done"}
    /\ pc \in {"open", "loop", "end_of_loop", "ok", "running", "end"}
    /\ running \in BOOLEAN /\ cancel \in BOOLEAN /\ ok \in BOOLEAN
    /\ failed \in BOOLEAN /\ complete \in BOOLEAN
    /\ (running <=> thread = "run" /\ pc # "end")
    /\ done \in 0..Len(rows) /\ Len(out) <= done
    /\ runs \in 0..MaxRuns

\* what read_index() may return for an index of n complete lines
ReadIndex(layout, n) ==
    LET first == [1..n -> [seq : Seq0, recv : Arrival, key : BOOLEAN,
                           slice : ReadComplete[layout]]]
        last == [seq : Seq0, recv : Arrival, key : BOOLEAN,
                 slice : ReadLast[layout] \ {"own", "no_row"}]
    IN  first \cup {Append(f, l) : f \in first, l \in last}

Init ==
    /\ kind \in Color \cup Depth
    /\ lines \in 0..MaxRows
    /\ \E layout \in IF kind \in Color THEN {"color"} ELSE {"depth", "oldDepth"} :
          rows \in ReadIndex(layout, lines)
    /\ Len(rows) <= MaxRows
    /\ kind \in Depth => \A i \in DOMAIN rows : rows[i].key
    /\ whole \in 0..Len(rows)
    /\ owner = "idle" /\ thread = "none" /\ pc = "end"
    /\ running = FALSE /\ cancel = FALSE /\ ok = FALSE
    /\ done = 0 /\ failed = FALSE /\ complete = FALSE /\ out = <<>> /\ runs = 0

Keys == {i \in DOMAIN rows : rows[i].key}

\* the row the export starts with: the first keyframe, the first depth frame
First == CHOOSE i \in Keys : \A j \in Keys : i <= j
Expected == Len(rows) - First + 1
Current == First + done
-----------------------------------------------------------------------------
(* The owner.  The tools give every stream a worker of its own, start it   *)
(* and wait() for it; stop() is also the destructor's.                     *)

Start ==
    /\ owner = "idle" /\ thread = "none" /\ runs < MaxRuns
    /\ cancel' = FALSE /\ ok' = FALSE /\ running' = TRUE
    /\ thread' = "run" /\ pc' = "open" /\ runs' = runs + 1
    /\ done' = 0 /\ failed' = FALSE /\ complete' = FALSE /\ out' = <<>>
    /\ UNCHANGED <<inputVars, owner>>

\* start() asks only whether the worker is at work.  When it is not but was
\* never joined, the assignment to thread_ ends the process (std::terminate).
StartUnjoined ==
    /\ owner = "idle" /\ thread # "none" /\ ~running /\ runs < MaxRuns
    /\ owner' = "terminated"
    /\ UNCHANGED <<inputVars, thread, pc, running, cancel, ok, runVars, runs>>

\* the process is gone
Terminated == owner = "terminated" /\ UNCHANGED vars

Stop ==
    /\ owner = "idle"
    /\ cancel' = TRUE
    /\ owner' = IF thread = "none" THEN "idle" ELSE "waiting"
    /\ UNCHANGED <<inputVars, thread, pc, running, ok, runVars, runs>>

Wait ==
    /\ owner = "idle" /\ thread # "none"
    /\ owner' = "waiting"
    /\ UNCHANGED <<inputVars, thread, pc, running, cancel, ok, runVars, runs>>

Joined ==
    /\ owner = "waiting" /\ thread = "done"
    /\ owner' = "idle" /\ thread' = "none"
    /\ UNCHANGED <<inputVars, pc, running, cancel, ok, runVars, runs>>
-----------------------------------------------------------------------------
(* run() *)

EnoughRows == Keys # {} /\ (kind \in Mp4 => Len(rows) >= 2)

\* no rows to export, or an input, a decoder or an output that does not open
GiveUp ==
    /\ pc = "open"
    /\ running' = FALSE /\ pc' = "end"
    /\ UNCHANGED <<inputVars, owner, thread, cancel, ok, runVars, runs>>

Open ==
    /\ pc = "open" /\ EnoughRows
    /\ pc' = "loop"
    /\ UNCHANGED <<inputVars, owner, thread, running, cancel, ok, runVars, runs>>

InLoop == pc = "loop" /\ ~cancel /\ done < Expected

\* av_rescale_q from microseconds to 1/90000 s, to the nearest
Rescale(us) == IF us >= 0 THEN (us * 9 + 50) \div 100 ELSE -((50 - us * 9) \div 100)

\* the time of a row from the first one exported
Arrived(row) == Rescale(rows[row].recv - rows[First].recv)

\* Mutant: the arrival time as it is.
StampUnclamped == Arrived(Current)

\* the packet's pts: one more than the last, if the arrival is not later
Stamp == IF out # <<>> /\ Arrived(Current) <= out[Len(out)].stamp
         THEN out[Len(out)].stamp + 1
         ELSE Arrived(Current)

\* the images are named after the frame's sequence number
Put == [row |-> Current, stamp |-> IF kind \in Mp4 THEN Stamp ELSE rows[Current].seq]

\* The demuxer reads the blob through and gives what there is of a frame the
\* blob ends in; a slice that is too short may lie before the end, one that
\* is not the row's may lie anywhere.
MayRead ==
    \/ Current <= whole
    \/ Current = whole + 1 /\ (kind = "color_mp4" \/ rows[Current].slice = "short")
    \/ rows[Current].slice = "other"

MayNotRead == Current > whole \/ rows[Current].slice = "other"

ExportFrame ==
    /\ InLoop /\ MayRead
    /\ out' = Append(out, Put) /\ done' = done + 1
    /\ UNCHANGED <<inputVars, owner, thread, pc, running, cancel, ok, failed, complete, runs>>

\* The decoder, or the depth video's writer, drops the frame: no failure.
DropFrame ==
    /\ InLoop /\ MayRead /\ kind \in {"color_images", "depth_mp4"}
    /\ done' = done + 1
    /\ UNCHANGED <<inputVars, owner, thread, pc, running, cancel, ok, failed, complete,
                   out, runs>>

\* The demuxer and the depth video take it for the end of the stream.
Unreadable ==
    /\ InLoop /\ MayNotRead
    /\ failed' = (kind \notin Mp4) /\ pc' = "end_of_loop"
    /\ UNCHANGED <<inputVars, owner, thread, running, cancel, ok, done, complete, out, runs>>

\* Only the color images go on with the next frame; the depth video's writer
\* does not say.
WriteFails ==
    /\ InLoop /\ MayRead /\ kind # "depth_mp4"
    /\ failed' = TRUE
    /\ IF kind = "color_images" THEN done' = done + 1 /\ UNCHANGED pc
                                ELSE pc' = "end_of_loop" /\ UNCHANGED done
    /\ UNCHANGED <<inputVars, owner, thread, running, cancel, ok, complete, out, runs>>

LoopDone ==
    /\ pc = "loop" /\ (cancel \/ done = Expected)
    /\ pc' = "end_of_loop"
    /\ UNCHANGED <<inputVars, owner, thread, running, cancel, ok, runVars, runs>>

\* Mutant: success is that nothing failed.
AllDoneAnyway == ~failed /\ ~cancel

AllDone == ~failed /\ ~cancel /\ (kind # "color_images" => done = Expected)

\* Mutant: running_ is cleared before ok_ is set.
RunningFirst == <<"running", "ok">>

\* the order run() ends with
PublishOrder == <<"ok", "running">>

After(step) == IF step = PublishOrder[1] THEN PublishOrder[2] ELSE "end"

Conclude ==
    /\ pc = "end_of_loop"
    /\ complete' = AllDone /\ pc' = PublishOrder[1]
    /\ UNCHANGED <<inputVars, owner, thread, running, cancel, ok, done, failed, out, runs>>

SetOk ==
    /\ pc = "ok"
    /\ ok' = complete /\ pc' = After("ok")
    /\ UNCHANGED <<inputVars, owner, thread, running, cancel, runVars, runs>>

ClearRunning ==
    /\ pc = "running"
    /\ running' = FALSE /\ pc' = After("running")
    /\ UNCHANGED <<inputVars, owner, thread, cancel, ok, runVars, runs>>

Return ==
    /\ thread = "run" /\ pc = "end" /\ owner # "terminated"
    /\ thread' = "done"
    /\ UNCHANGED <<inputVars, owner, pc, running, cancel, ok, runVars, runs>>

Run == \/ GiveUp \/ Open \/ ExportFrame \/ DropFrame \/ Unreadable \/ WriteFails
       \/ LoopDone \/ Conclude \/ SetOk \/ ClearRunning \/ Return

Next == Start \/ StartUnjoined \/ Terminated \/ Stop \/ Wait \/ Joined \/ Run

\* The worker's thread runs, and a join returns.
Spec == Init /\ [][Next]_vars /\ WF_vars(Run) /\ WF_vars(Joined)
-----------------------------------------------------------------------------
\* what the owner sees through running() and succeeded()
Job == INSTANCE ExportJob WITH
    state <- IF running THEN "running" ELSE IF runs = 0 THEN "new" ELSE "over",
    verdict <- ok /\ ~running

\* Whoever sees running() false, at whatever moment, sees in succeeded() the
\* outcome of this run, and a cancel that comes too late does not change it;
\* a run ends by itself, and then the worker is free.
ImplementsJob == Job!Spec

\* Every complete line of the index becomes a row that speaks of its own
\* slice, in the layout of today and in the one before the intrinsics; of the
\* line a crash cut short comes at most one row more, in the color index with
\* no other frame's slice.
ReadsWhatWasWritten ==
    /\ Len(rows) \in {lines, lines + 1}
    /\ \A i \in 1..lines : rows[i].slice = "own"
    /\ kind \in Color => \A i \in DOMAIN rows : rows[i].slice # "other"

\* succeeded() means that the output is whole: the rows from the first
\* keyframe on are there, once and in order, also when the recording was cut
\* off and the index has rows the blob has no payload for.  Those may be
\* missing that the decoder dropped from the color images, or the writer from
\* the depth video; the last frame of color.mp4 may be a part of what was
\* recorded.
SucceededMeansWhole ==
    ok => LET exported == [i \in DOMAIN out |-> out[i].row] IN
        /\ \A i \in 1..Len(out) - 1 : exported[i] < exported[i + 1]
        /\ kind \in {"color_mp4", "depth_images"} =>
              exported = [i \in 1..Expected |-> First + i - 1]
        /\ whole >= IF kind = "color_mp4" THEN Len(rows) - 1 ELSE lines

\* The time stamps of color.mp4 increase strictly, whatever the arrival clock
\* did; as long as the arrivals do, each frame has its own arrival time.
StampsIncrease ==
    kind = "color_mp4" =>
        /\ \A i \in 1..Len(out) - 1 : out[i].stamp < out[i + 1].stamp
        /\ \A i \in DOMAIN out :
              (\A j \in First + 1..out[i].row : Arrived(j - 1) < Arrived(j))
                  => out[i].stamp = Arrived(out[i].row)

\* export_depth_to_images.hpp: every slice lands as depth_png/<seq>.png.  When
\* the publisher was restarted, numbers occur twice and so do file names.
EverySliceLands ==
    ok /\ kind = "depth_images" =>
        Cardinality({out[i].stamp : i \in DOMAIN out}) = Len(rows)
=============================================================================
