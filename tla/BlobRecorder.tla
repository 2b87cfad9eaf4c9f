---------------------------- MODULE BlobRecorder ----------------------------
(***************************************************************************)
(* BlobRecorder: a Recorder whose records are frames, each with the        *)
(* publisher's sequence number and a compressed payload, and whose file is *)
(* a BlobSink: a blob file the payloads are appended to and an index with  *)
(* one row per frame that says where its payload is.                       *)
(*                                                                         *)
(* A process killed at any moment leaves what the two files hold at that   *)
(* moment, so crash safety is a property of every state.                   *)
(***************************************************************************)
EXTENDS Recorder, FileStream, SequencesExt

CONSTANTS MaxSeq,        \* bound: sequence numbers a publisher uses
          MaxRestarts,   \* bound: restarts of the publisher
          Size           \* the payload size of each sequence number's frame

VARIABLES publisher,     \* [gen, seq]: the process publishing and its next seq
          lost,          \* history: frames published that never arrived
          arriving,      \* <<the frame push() was called with>>, else <<>>
          data, index, offset,              \* the BlobSink
          lastSeq, haveSeq, wireGaps, bytes,
          dataFlushed,   \* in sink_.flush(), past data_.flush()
          runStart,      \* history: frames attempted before this run
          flushed        \* history: frames of this run both flushes took

sinkVars == <<data, index, offset>>
seqVars == <<lastSeq, haveSeq, wireGaps, bytes>>
historyVars == <<runStart, flushed>>
wireVars == <<publisher, lost, arriving>>
vars == <<recorderVars, sinkVars, seqVars, dataFlushed, historyVars, wireVars>>

Frame == [gen : 0..MaxRestarts, seq : 0..MaxSeq - 1]

ASSUME FrameAssumption == /\ MaxSeq \in Nat /\ MaxRestarts \in Nat
                          /\ Record = Frame /\ Size \in [0..MaxSeq - 1 -> Nat]

\* The payload of a frame: one element of the blob per unit of its size
Payload(f) == [k \in 1..Size[f.seq] |-> <<f, k>>]

TypeOK ==
    /\ RecorderTypeOK
    /\ publisher \in [gen : 0..MaxRestarts, seq : 0..MaxSeq]
    /\ lost \in Nat /\ arriving \in Seq(Frame)
    /\ data \in Stream(Frame \X Nat)
    /\ index \in Stream([frame : Frame, offset : Nat, size : Nat])
    /\ {offset, lastSeq, wireGaps, bytes, runStart, flushed} \subseteq Nat
    /\ haveSeq \in BOOLEAN
    /\ dataFlushed \in BOOLEAN /\ (dataFlushed => writer = "flush")

\* The publisher may have been running before the recorder.
Init ==
    /\ RecorderInit
    /\ publisher \in [gen : {0}, seq : 0..MaxSeq - 1] /\ lost = 0 /\ arriving = <<>>
    /\ data = Unopened /\ index = Unopened /\ offset = 0
    /\ lastSeq = 0 /\ haveSeq = FALSE /\ wireGaps = 0 /\ bytes = 0
    /\ dataFlushed = FALSE /\ runStart = 0 /\ flushed = 0
-----------------------------------------------------------------------------
(* The publisher and the wire: in order, with losses *)

Published == publisher' = [publisher EXCEPT !.seq = @ + 1]

Lose ==
    /\ publisher.seq < MaxSeq
    /\ Published /\ lost' = lost + 1
    /\ UNCHANGED <<recorderVars, sinkVars, seqVars, dataFlushed, historyVars, arriving>>

\* A publisher that is started again numbers its frames from 0.
RestartPublisher ==
    /\ publisher.gen < MaxRestarts
    /\ publisher' = [gen |-> publisher.gen + 1, seq |-> 0]
    /\ UNCHANGED <<recorderVars, sinkVars, seqVars, dataFlushed, historyVars, lost, arriving>>
-----------------------------------------------------------------------------
(* push() *)

Arrive ==
    /\ Receive
    /\ publisher.seq < MaxSeq /\ Published
    /\ arriving' = <<publisher>>
    /\ UNCHANGED <<sinkVars, seqVars, dataFlushed, historyVars, lost>>

Push ==
    /\ \/ \E r \in Record : arriving = <<r>> /\ Enqueue(r)
       \/ Refuse \/ CountDrop
    /\ arriving' = <<>>
    /\ UNCHANGED <<sinkVars, seqVars, dataFlushed, historyVars, publisher, lost>>
-----------------------------------------------------------------------------
(* open(): BlobSink::open() and, when it succeeds, the start of the run.   *)
(* Neither the offset nor the counters nor lastSeq are reset.              *)

OpenFiles == data' \in OpenOutcomes(data) /\ index' \in OpenOutcomes(index)

Open ==
    /\ OpenFiles /\ data'.isOpen /\ index'.isOpen
    /\ StartRun
    /\ runStart' = Len(attempted) /\ flushed' = 0
    /\ UNCHANGED <<offset, seqVars, dataFlushed, wireVars>>

\* One of the files cannot be opened; the other one may be left open.
OpenFails ==
    /\ owner = "idle" /\ runs < MaxRuns
    /\ OpenFiles /\ ~(data'.isOpen /\ index'.isOpen)
    /\ UNCHANGED <<recorderVars, offset, seqVars, dataFlushed, historyVars, wireVars>>
-----------------------------------------------------------------------------
(* run() *)

TakeBatch ==
    /\ PopBatch
    /\ UNCHANGED <<sinkVars, seqVars, dataFlushed, historyVars, wireVars>>

\* Mutant: the first frame is compared with the initial lastSeq.
MissingBeforeHaveSeq(f) == IF f.seq > lastSeq + 1 THEN f.seq - lastSeq - 1 ELSE 0

\* the sequence numbers between the last frame written and this one
Missing(f) == IF haveSeq /\ f.seq > lastSeq + 1 THEN f.seq - lastSeq - 1 ELSE 0

\* Mutant: the row is rendered after the offset has moved on.
AppendOffsetFirst(f) ==
    /\ data' \in WriteOutcomes(data, Payload(f))
    /\ offset' = offset + Size[f.seq]
    /\ index' \in WriteOutcomes(index, <<[frame |-> f, offset |-> offset', size |-> Size[f.seq]]>>)

\* BlobSink::append(): the offset advances whether or not the write succeeds
AppendFrame(f) ==
    /\ data' \in WriteOutcomes(data, Payload(f))
    /\ index' \in WriteOutcomes(index, <<[frame |-> f, offset |-> offset, size |-> Size[f.seq]]>>)
    /\ offset' = offset + Size[f.seq]

\* Mutant: append() looks at the index only.
RowAppended == index'.good

\* what BlobSink::append() returns
Appended == data'.good /\ index'.good

WriteFrame ==
    LET f == Head(batch) IN
    /\ batch # <<>>
    /\ AppendFrame(f)
    /\ \E ok \in BOOLEAN :
          /\ ok = Appended
          /\ WriteOne(ok)
          /\ bytes' = IF ok THEN bytes + Size[f.seq] ELSE bytes
    /\ wireGaps' = wireGaps + Missing(f)
    /\ lastSeq' = f.seq /\ haveSeq' = TRUE
    /\ UNCHANGED <<dataFlushed, historyVars, wireVars>>

\* Mutant: only the index is flushed.
FlushDataForgotten ==
    /\ writer = "flush" /\ ~dataFlushed
    /\ dataFlushed' = TRUE
    /\ UNCHANGED <<recorderVars, sinkVars, seqVars, historyVars, wireVars>>

\* sink_.flush(), first half
FlushData ==
    /\ writer = "flush" /\ ~dataFlushed
    /\ data' \in FlushOutcomes(data)
    /\ dataFlushed' = TRUE
    /\ UNCHANGED <<recorderVars, index, offset, seqVars, historyVars, wireVars>>

\* sink_.flush(), second half; nobody looks at the streams afterwards
FlushIndex ==
    /\ EndBatch /\ dataFlushed
    /\ index' \in FlushOutcomes(index)
    /\ dataFlushed' = FALSE
    /\ flushed' = IF data.good /\ index'.good THEN Len(attempted) - runStart ELSE flushed
    /\ UNCHANGED <<data, offset, seqVars, runStart, wireVars>>

Exit ==
    /\ WriterExit
    /\ UNCHANGED <<sinkVars, seqVars, dataFlushed, historyVars, wireVars>>
-----------------------------------------------------------------------------
(* close() *)

Close ==
    /\ BeginClose
    /\ UNCHANGED <<sinkVars, seqVars, dataFlushed, historyVars, wireVars>>

\* the join and BlobSink::close()
Join ==
    /\ EndClose
    /\ data' \in CloseOutcomes(data) /\ index' \in CloseOutcomes(index)
    /\ UNCHANGED <<offset, seqVars, dataFlushed, historyVars, wireVars>>

WireStep == Lose \/ RestartPublisher
WriterThread == TakeBatch \/ WriteFrame \/ FlushData \/ FlushIndex \/ Exit
OwnerThread == Open \/ OpenFails \/ Close \/ Join

Next == WireStep \/ Arrive \/ Push \/ WriterThread \/ OwnerThread

\* A push() under way ends, the writer thread keeps running and file
\* operations return, and a close() under way goes on.
Fairness == WF_vars(Push) /\ WF_vars(WriterThread) /\ WF_vars(Join)

Spec == Init /\ [][Next]_vars /\ Fairness
-----------------------------------------------------------------------------
\* The frames of this run the writer tried to write
ThisRun == SubSeq(attempted, runStart + 1, Len(attempted))

\* The row's slice of the blob is the payload of the row's frame.
Maps(row, blob) ==
    /\ row.offset + row.size <= Len(blob)
    /\ SubSeq(blob, row.offset + 1, row.offset + row.size) = Payload(row.frame)

\* The index is the random-access map into the blob: as long as no write has
\* failed, every row points at exactly its own frame's payload.
IndexMapsBlob ==
    data.good /\ index.good
        => \A row \in ToSet(Content(index)) : Maps(row, Content(data))

\* append() may fail half-way, with a row in the index and no payload, and later
\* rows go on from there.  A frame is counted as written only when, at that
\* moment, both files or their buffers have it: the last row of the index is its
\* own, and that row's slice of the blob is its payload.
WrittenIsThere ==
    [][runs = 1 /\ written' # written
          => /\ Last(Content(index')).frame = Last(attempted')
             /\ Maps(Last(Content(index')), Content(data'))]_vars

\* A kill loses at most the frames of the batch being written: at every
\* moment the two files hold every frame of the batches flushed before,
\* in order and each where its row says, even after a later disk failure.
FlushedSurvives ==
    /\ Len(index.disk) >= flushed
    /\ \A i \in 1..flushed : /\ index.disk[i].frame = ThisRun[i]
                             /\ Maps(index.disk[i], data.disk)

\* stream_stats.hpp, kept to what close() can know: when it has returned from the
\* recorder's first run, the queue has dropped nothing and both streams are still
\* good, every frame that was received has its row on disk, in order, and its
\* payload where the row says.
CloseKeepsReceived ==
    owner = "idle" /\ caller = "idle" /\ runs = 1 /\ dropped = 0 /\ data.good /\ index.good
        => /\ received = Len(accepted) /\ received = Len(index.disk)
           /\ \A i \in 1..received : /\ index.disk[i].frame = accepted[i]
                                     /\ Maps(index.disk[i], data.disk)

\* No gap is missed: between the first and the last frame of one publisher that
\* were written, every sequence number was written or is counted as a gap.
GapsComplete ==
    attempted # <<>> /\ (\A i \in DOMAIN attempted : attempted[i].gen = attempted[1].gen)
        => wireGaps + Len(attempted) = attempted[Len(attempted)].seq - attempted[1].seq + 1

\* Every sequence number counted as a gap belongs to a frame that really is
\* missing: lost on the wire, or dropped because the queue was full.  Frames
\* published before the recorder was open and restarts of the publisher add
\* nothing.
GapsExplained == wireGaps <= lost + dropped

\* stream_stats.hpp and data_collector.hpp say more: that a gap is a frame
\* lost before arrival.  The gaps are counted behind the queue, so a frame
\* the queue refused is counted as dropped and as a gap.
GapsAreWireLoss == wireGaps <= lost

\* blob_recorder.hpp: dropped and write_errors staying 0 is the losslessness
\* invariant.  What a flush could not write is in neither counter.
LosslessWhenZero ==
    owner = "idle" /\ runs > 0 /\ dropped = 0 /\ writeErrors = 0
        => /\ Len(index.disk) = Len(accepted) - runStart
           /\ \A row \in ToSet(index.disk) : Maps(row, data.disk)
=============================================================================
