# A TLA+ development of kist-data-collector

kist-data-collector records the sensors and commands of a humanoid robot into a
session directory: camera frames into a blob file with a CSV index, everything
else as CSV rows, one `meta.yaml` that says what was recorded. Afterwards the
export workers turn the camera streams into videos or images.

What makes the program hard to test is not its data but its threads: every
stream has a callback thread that must never block and a writer thread that may
fall behind, the owner stops both while messages go on arriving, and a process
killed at any moment must leave files somebody can read. These modules model
that control, TLC checks it on small instances, and TLAPS proves, for every value
of the constants, every safety property the runs check.

## 1. Inventory

| Component | Source | State | Operations | Called by |
|---|---|---|---|---|
| RecordQueue | `include/common/record_queue.hpp` | a bounded deque, `closed_`, mutex and condition variable | `open`, `push`, `pop_all`, `close` | both recorders |
| BlobRecorder, BlobSink | `include/common/blob_recorder.hpp` | two streams (blob, index), `offset_`, the last sequence number, six counters, the writer thread | `open`, `push`, `run`, `close`, `stats` | RealsenseRecorder |
| RowRecorder | `include/common/row_recorder.hpp` | one stream, the counters, the writer thread | the same | the SDK assemblies |
| ReliableSubscriber | `include/realsense_recorder/reliable_subscriber.hpp` | a DDS reader, `running_`, the take-thread | `start`, `run`, `drain`, `stop` | RealsenseRecorder |
| RealsenseRecorder | `src/system/realsense_recorder.cpp` | two subscribers, two blob recorders, `running_` | `start`, `stop` | DataCollector |
| SDK assemblies | `src/system/{lowstate,lowcmd,dex3,dex3_cmd,motion_token,uwb}_recorder.cpp` | a subscriber, a row recorder, `running_` | `start`, callback, `stop` | DataCollector |
| DataCollector | `src/system/data_collector.cpp` | all of the above, the counters of the last report, `running_` | `start`, `print_report`, `stop`, `write_result` | main |
| Session | `src/common/session.cpp` | a directory named after a second, `meta.yaml` | `session_create`, `_write_meta`, `_finalize_meta`, `_append_result` | DataCollector |
| main | `src/main.cpp` | `g_stop`, `g_stop_signal`, the signal handlers, the terminal's mode | the recording loop, `prompt_result` | the operator |
| Exporters | `src/export/*.cpp` | a thread, `cancel_`, `running_`, `ok_` | `start`, `run`, `stop`, `wait` | the export tools |
| Export tools | `src/tools/*.cpp` | the jobs, `all_ok` | scan the session, start every worker, wait for each, exit code | the operator |
| Row schemas | `include/*_recorder/*_rows.hpp` | none | a header and a row for each of six messages | the SDK assemblies |
| Frame index | `frame_rows.hpp`, `read_index()` of each exporter | none | writes and reads the columns of the two index files | BlobRecorder, exporters |
| Configuration, frame maps | `config.hpp`, `dds_config.hpp`, `frame_maps.hpp`, `Settings::from_yaml` | none | what is recorded; field by field copies | main, DataCollector |

How they interact:

- A *callback thread* (of the SDK, or the take-thread of a ReliableSubscriber)
  calls `push()`. It counts the record and hands it to the queue, or counts it
  as dropped.
- The *writer thread* of each recorder loops over `pop_all()`: it takes the
  whole queue as one batch, writes it record by record, flushes, and asks
  again; it ends when the queue is closed and empty.
- The *owner's thread* is main's: `start()` opens recorders before it starts
  sources, `stop()` ends sources before it closes recorders, `close()` closes
  the queue and joins the writer. `print_report()` reads counters that both
  other threads advance.
- *Signal handlers* interrupt the owner's thread. The *export workers* share
  three atomics with their owner.

What is hard, and what must hold:

| Part | Hard | Correct when |
|---|---|---|
| RecordQueue | `notify_one()` after the unlock; the last push against `close()` | no lost wakeup; nothing is left in a queue without a writer |
| Recorders | the limit of the queue; counters of two threads; reopening; a disk that fails at any step; a kill at any step | every record is in one place; order; what was flushed survives; the index points at its payloads; what is counted as written is there; the counters do not hide a loss |
| Subscriber, RealsenseRecorder | samples that land between the last look of the thread and the join; a `start()` that fails at each step | nothing that landed is lost; no frame finds its recorder closed; a failed start leaves no thread and no recorder behind |
| SDK assemblies, rows | a callback under way while the owner stops; messages with vectors of any size under a fixed header | no callback pushes into a closed recorder; every row fits its header; the calls return |
| DataCollector, Session | counters that move while they are summarized; streams that fail to start; two sessions in one second | the summary is final and complete; `meta.yaml` has its blocks in order; `stop()` returns |
| main | a signal at any moment; a second one; a terminal in raw mode | no session is cut short; the terminal is restored; the process ends |
| Exporters, index | a cancel at any moment; a recording that was cut off, its last line anywhere; two layouts told apart by counting; clocks that step back | whoever sees the worker done sees its verdict; success means the output is whole; what was written is what is read |
| Export tools | workers that end in any order, with any verdict | exit code 0 exactly when everything was exported; nobody is left behind |

`PROJECT.json` lists every hazard at its line with the properties that watch it.

## 2. The modules

```
RecordQueue          state and critical sections of the queue
 |- HandOff          what the queue promises (abstract, with fairness)
 |- WaitNotify       mutex, condition variable, three threads    implements HandOff
 |   `- WaitNotifyProofs
 `- Recorder         push(), the writer's loop, open(), close()  implements HandOff
     |- RecorderProofs
     |- RowRecorder  + FileStream: one file
     |   `- SdkRecorder   + RowSchemas: the callback thread, start(), stop()   implements Assembly
     |       |- SdkRecorderProofs (rows, the file, the assembly)
     |       `- MCSdkRecorder
     `- BlobRecorder + FileStream: blob, index, sequence numbers, publisher
         |- BlobRecorderProofs
         `- MCBlobRecorder
ReliableSubscriber   reader, take-thread, stop() with the last sweep
 `- RealsenseRecorder  two of them, two recorders, start() and stop()
     `- CameraAssembly  with the counters of the recorders      implements Assembly
         `- RealsenseRecorderProofs
Assembly             what a stream is to its owner (abstract, with fairness)
RowSchemas           headers and rows of the six assemblies
Session              directory and meta.yaml
Settings             what the configuration turns on
 `- DataCollector    (with Session) all streams behind one start() and stop()
     |- Recording    what the caller is promised (abstract, with fairness)
     |- Assembly     one instance for each stream
     |- DataCollectorProofs
     `- MCDataCollector
CollectorMain        signals, loop, prompt
IndexFile            the index, as it is written and read
 `- Exporter         the four export workers                     implements ExportJob
     `- ExporterProofs
ExportJob            what a worker's owner is promised (abstract, with fairness)
 `- ExportTool       the two tools, over workers that are ExportJobs
MainProofs           over CollectorMain and ExportTool, the two kinds of main()
```

**RecordQueue** has the three fields and one operator per critical section:
`Put` (`push` that returns true), `Refuses`, `TakeAll` and `Drained` (the two
ways out of `pop_all`), `Arm` (`open`), `Shut` (`close`).

**HandOff** is the abstract specification: the same operations as atomic steps
of a producer, a consumer and an owner, with no lock and no wakeup, and with the
fairness that the consumer gets what is there. **WaitNotify** is the code: a
critical section is one step because the mutex is held throughout; the gap
between the unlock and `notify_one()`, a notify nobody waits for, and spurious
wakeups are steps of their own.

**Recorder** is what both recorders share, one step per update another thread
can see: counting `received_`, the queue's answer, counting `dropped_`; the
writer's batch, one write, the flush. It keeps two histories, `accepted` and
`attempted`. Its queue operations are the atomic ones of HandOff; WaitNotify is
why that is sound. **FileStream** is `std::ofstream` (external): a buffer that
spills when it likes, a failure that sticks, a failed write that leaves a prefix.
**RowRecorder** conjoins one stream to Recorder's actions, **BlobRecorder** two,
with `offset_`, the gap count and a publisher that may lose frames on the wire or
be restarted (external). Every payload byte carries the frame it belongs to, so
that "the index points at its payload" can be stated.

**SdkRecorder** conjoins the subscriber and `start()`/`stop()` of the six
row-recording assemblies to RowRecorder: they are the same code but for topic
and schema, so one model stands for all. A record is a message, by the sizes of
the vectors it carries. **RowSchemas** has, for each assembly, the header and the
row of a message as sequences of cells, a cell named after the field it prints;
two functions of the code write them, and nothing but care keeps them equal.
**ReliableSubscriber** has one function per field over the streams, so
that **RealsenseRecorder** extends it with two; there a recorder is only open or
closed, and `FramesReachOpenRecorder` is why that is enough. **CameraAssembly**
adds what the collector sees of the two recorders: their counters, writer threads
that settle what was received, and a `close()` that waits for them.

**Assembly** is the abstract specification of a stream: a source that is on, off,
or stopped with records still to settle, and three counters. Records come only
while it is on, each is written or lost later, and `stop()` returns only when every
one is. SdkRecorder and CameraAssembly implement it, the latter with the sums of
both streams. **DataCollector** reduces every stream to this, one object after
another, and `UsesAssemblies` says that it asks no more of any of them. **Session**
is the clock in seconds, the directory and the blocks of `meta.yaml`, each of
which the disk may refuse unnoticed.

**Settings** is `Settings::from_yaml` over YAML mappings that lack any of their
keys, and the order in which `start()` goes through what is turned on; the list
of switches in the test for "nothing to record" is written by hand beside it. **Recording** is the abstract
specification: a recording begins with some streams, `stop()` tells the counters
of every one and then ends, and `meta.yaml` moves with it. Its streams and its
`meta` are the collector's objects and the file of the session.

**CollectorMain** has one step per system call of `main()` and
`prompt_result()`; a signal may come between any two. The collector is reduced
to whether it records.

**Exporter** is all four workers in one module: `kind` says which one, and the
differences between them (what they need to begin, what a frame they cannot read
or write does to the loop, what they call success) are the guards that mention it. The rows it reads come from **IndexFile**,
which has the columns BlobRecorder writes and what `sscanf()` makes of a line: complete,
or the last of a recording that was killed, cut anywhere, with numbers that print
with a fraction or without. A row speaks of its own slice of the blob, of the
first part of it, or, when a torn line of twelve columns passes for one of eight,
of some other slice.

**ExportJob** is what the owner of a worker sees: running or over, and a verdict
that is there when it is over. Exporter implements it, and **ExportTool** is
composed of it: the workers' steps are those of ExportJob, one instance each.

`map` in `PROJECT.json` gives the lines behind each definition. Operators whose
comment begins with "Mutant" are no part of the model: each is a plausible bug in
one definition, and with it in place the run named there must fail.

## 3. The runs

Run any of them with `tlc -config <cfg> <module>`. State counts are of distinct
states.

| Run | Module, cfg | States | What it shows |
|---|---|---|---|
| `wait_notify` | WaitNotify | 351 | no interleaving of `push`, `pop_all` and `close` loses a wakeup; the thread exists exactly while it should; the protocol implements HandOff, fairness included |
| `sdk` | MCSdkRecorder | 161,439 | two recordings over a disk that may fail: every message is in one place, order, the file is a prefix of the run and fits its header at every moment; no callback finds the recorder closed, also when `InitChannel` throws; `stop()` leaves on disk what was received, and returns; the recorder uses its queue as HandOff says, and the whole implements Assembly, fairness included |
| `blob` | MCBlobRecorder | 1.1 M | what a kill at any moment leaves; the index points at its payloads; no frame one of the two files refused is counted as written; what is on disk after `close()`; every gap is explained by a loss, and no missing frame goes uncounted |
| `realsense` | CameraAssembly | 421,100 | the order of `stop()` loses nothing that landed, be it the only sample; a start that fails at any step leaves no thread and no recorder, and of the readers only the one whose own `start()` threw; `stop()` returns although the camera never falls silent; a camera implements Assembly, fairness included |
| `collector` | MCDataCollector | 1.9 M | the summary is final when taken; reports do not wrap around; the collector implements Recording, over every configuration given and every subset of streams that start, and does nothing to a stream that Assembly does not allow |
| `main` | CollectorMain | 1,818 | signals and keys at any moment: the summary is written, the terminal restored, the process ends |
| `export` | Exporter | 1.04 M | complete lines are read as they were written, in both layouts; success means whole; strictly increasing stamps; the worker implements ExportJob, so `ok_` comes before `running_` and a run ends |
| `tool` | ExportTool | 2,508 | the exit code is 0 exactly when every stream was exported; `main()` waits for each worker once, and none is left when it returns |
| `blob_flush` | MCBlobRecorder, BlobFlush.cfg | violation | finding 1 |
| `blob_gaps` | MCBlobRecorder, BlobGaps.cfg | violation | finding 2 |
| `main_term` | CollectorMain, MainTerm.cfg | violation | finding 3 |
| `export_names` | Exporter, ExportNames.cfg | violation | finding 4 |

### Findings: where the text and the code disagree

1. *A flush that fails is not seen* (`LosslessWhenZero`). The header says that
   `dropped` and `write_errors` staying 0 means nothing was lost. A frame counted
   as written may still be in the stream's buffer; when the flush at the end of
   the batch is what the disk refuses, neither counter moves.
2. *A dropped frame is counted twice* (`GapsAreWireLoss`). `wire_gaps` is said to
   be what was lost before arrival, but it is counted behind the queue, so a frame
   the full queue refused is a drop and a gap.
3. *A SIGTERM can wait for a key* (`TermNeverWaits`). The comment in `main()` says
   it must not. One that comes during the prompt does: its handler has SA_RESTART.
4. *Images can overwrite each other* (`EverySliceLands`). They are named after the
   publisher's numbers, which start again when the publisher does.

Three more are in the models and have no run, as they need a caller or a moment
that nothing in the repository has or promises:

- `BlobRecorder::open()` resets neither `offset_` nor the sequence state, so a
  recorder that is opened a second time writes an index that points behind its
  blob. It takes a `RealsenseRecorder` that is started twice, which the collector
  never does. MCBlobRecorder.cfg with `MaxRuns = 2` shows it; all runs of this
  project have `MaxRuns = 1` there.
- A Ctrl-C at the prompt that comes before `read()` is entered meets a handler
  that does nothing, and the prompt goes on waiting (`Handle` at "before_read").
- An export worker that ended by itself and was not joined cannot be started
  again: `start()` asks for `running_` only, and the assignment to the thread that
  is still joinable ends the process (`StartUnjoined`). The tools make new workers
  for each directory and start each of them once.

### The bounds, and why they are enough

Every bound is a constant whose name begins with `Max`, or a set the inputs are
taken from; each is in a guard and says in its comment that it is a bound.

- *Queue*: `Capacity = 2` has an empty, a partly filled and a full queue. Four
  records fill it, make it refuse one, and still need two batches. Two kinds of
  record are enough to see two of them exchanged, and in `sdk` one has fewer fields
  than the schema and one has more. `wait_notify` needs no bound.
- *Runs*: two, so that what a run leaves behind (a closed queue, counters,
  history) meets the next one.
- *Publisher*: three sequence numbers make a gap of one and of two; one restart
  makes them go back. Payload sizes alternate between 1 and 2, so that an offset
  that is off by one frame is a wrong offset (MCBlobRecorder.tla).
- *Disk*: may fail at every write, flush and open, and every failure leaves every
  prefix the buffer allows. `FileStream` lets the buffer spill whole or not at all
  on a write; a kill in the middle of a row is not told apart from one before it.
- *Subscribers*: both streams, a cache for one sample, two samples of a stream and
  three of both (`MaxTotal`), so that a reliable writer has to wait and a best-effort
  reader has to throw one away. The samples of these bounds have numbers, by which the
  properties speak of them. The camera does not fall silent behind them: `Flood` puts
  more into the reader, again and again, which wakes the take-thread and is drained
  like the rest but is neither numbered nor counted and displaces nothing. Without it
  `StopReturns` would hold of a thread that leaves only when there is nothing to drain
  (its mutant). That a reliable reader has no hole is in `StopLosesNothingLanded`
  from the first sample on; for a longer stream see `InOrder`.
- *Collector*: three configurations: two streams, one of each kind of report
  counter; one camera that is on by default between one that is off and one without
  a name; nothing. Two recordings that may fall into one second. `Wrap = 16`
  stands for 2^64: it only has to be larger than any count.
- *main*: three signals and two keys: one to stop, one that changes the decision,
  one during the prompt; a key that is no label and one that is.
- *Exporter*: three rows with every order of arrival times, two of them in one tick
  of the 90 kHz track, every choice of keyframes, every length of the blob, every way to
  cut the last line, two runs. For `IndexFile` nothing is bounded but that at most one line is torn.
- *Tools*: two directories with up to two workers each, so that one worker may fail
  or linger before, between and behind others.

The type invariants of BlobRecorder, SdkRecorder, DataCollector, CollectorMain and
Exporter and `ClosedIsDrained` are proved and not checked by a run; the latter is
part of what `ImplementsAssembly` says.

### Fairness

Fairness is weak everywhere, and only of threads that run:

- A consumer that is not asleep goes on, a `notify_one()` that is due is made, a
  join returns when the thread has ended (WaitNotify). That a *sleeping* consumer
  is woken is not assumed: it is what `ImplementsHandOff` shows. Spurious wakeups
  are not fair.
- The writer thread, a `push()` under way and a `close()` under way go on: file
  operations return and the callback does not block (Row- and BlobRecorder).
- The take-threads and a `start()` or `stop()` under way go on. The DDS wire is
  not fair: a camera may go on for ever (`Flood`) or never publish again.
- main goes on; nobody has to send a signal, type a key or hang up.
- The export worker's thread runs, and a join returns.
- The SDK assemblies add the callback under way and a `start()` or `stop()` under
  way; the collector that the streams settle what they received and that its own
  `stop()` goes on.
- The tools have no fairness: what is claimed of them is about the time when `main()`
  has returned.

Nobody has to call `push`, `open`, `close`, `start` or `stop`.

Deadlock is checked wherever the system cannot stop. `CHECK_DEADLOCK FALSE` is
said where the owner has used up its runs, or where the process has ended.

## 4. The proofs

`tlapm <module>` checks each of them. Every theorem is of the specification, for
every value of the constants that meets the assumptions its modules name: the
capacity of the queue and the bounds are natural numbers (`CapacityAssumption`,
`BoundsAssumption`, `MainAssumption`, `ExporterAssumption`, ...), a cache holds at
least one sample (`CacheAssumption`), frames have a size (`FrameAssumption`), a
header is no row (`HeaderAssumption`), no camera is listed twice
(`CollectorAssumption`). The bounds are parameters, so a theorem holds however
many records, runs, restarts, signals or rows there are. `PROJECT.json` lists the
results; what follows is why the invariants are what they are.

**WaitNotifyProofs.** `NoLostWakeup` is not inductive: that a writer that sleeps
over a closed queue is about to be woken needs to know where the owner is. The
invariant is `TypeOK /\ ThreadMatchesOwner /\ NoLostWakeup`, and the first two need
each other. The step that carries it: a `notify_one()` that is spent either wakes
the writer or finds it awake, and one that is awake looks at the queue with the
lock held before it sleeps. `KeepsPromise` is the safety part of the refinement.

**RecorderProofs.** The invariant adds to the types `WriterMatchesOwner`: the
writer thread exists exactly while the recorder is open or being joined, it ends
only with an empty queue, and a queue without a writer is closed or of capacity 0
and takes nothing. `Accounted` and `AcceptedInOrder` are inductive with it,
`ClosedIsDrained` follows, and so does that every step uses the queue as HandOff
says. The lemmas about FileStream are here, too: what a write and a sync make of a
stream that is good, or fails, or has failed.

**SdkRecorderProofs**, for every SDK assembly, over any number of recordings:

- *Rows*: `EveryRowFits`, for each of the six assemblies and every message,
  vectors of any size included. The argument is by concatenation: two sequences of
  cells that fit two of columns fit one behind the other (`Both`), a field of the
  message's own always does (`OwnFields`, `OwnTable`), and a padded table does
  whatever the vector holds (`PaddedUnder`).
- *The recorder*: every behaviour of RowRecorder, and so of the assembly, is one
  of Recorder, so what RecorderProofs shows holds of it.
- *The file*: `FileIsPrefix` speaks of what is on disk, but the disk follows the
  buffer. `FileInv` is about both: the content of a stream that is good is the
  header and every row attempted in this run, a recorder that is idle has nothing
  buffered, and what a flush took is a prefix of both. `FileIsPrefix` and
  `StopKeepsReceived` (with accounting: nothing dropped, so everything accepted)
  follow, and with `EveryRowFits` so does `RowsFitHeader`.
- *The callback*: `CallbacksFindRecorder`, by the invariant `Inv` that a
  subscriber that calls implies an open recorder and an owner outside `close()`,
  and that a call under way keeps its subscriber.

- *What the collector takes it for*: `IsAssembly`. Records settle while the
  assembly is on or stopping, so `UnitInv` says that one that is off has nothing
  queued and nothing held, and `Unsettled` that a record in the call, queued or held
  is received and not yet written or lost. With accounting, `close()` returns when
  the two sums are equal.

**BlobRecorderProofs.** That it is a Recorder; then

- *The two files*: `SinkInv`. In the first run, while both streams are good,
  `offset_` is the length of the blob, and row i of the index names frame i and a
  slice that holds that frame's payload, buffers included (`ContentMatches`); of the
  batches flushed, the same is true of what is on disk, whatever failed since
  (`FlushedMatches`). Between the flush of the blob and that of the index the
  blob's buffer must be empty, or the index would get ahead of it (`DataFlushed`);
  after `close()` nothing is buffered (`ClosedFlushed`). `IndexMapsBlob`,
  `FlushedSurvives` and, with accounting, `CloseKeepsReceived` follow, and so does
  `WrittenIsThere`: both streams good after the write is what the counter asks for, and
  then the row is the last of the index and its slice in the blob.
  `IndexMaps`, `WrittenThere` and `CloseKeeps` speak of the first run of any recorder, as `open()`
  does not reset `offset_` (section 3). `Survives` assumes `MaxRuns <= 1`: a second
  `open()` truncates what was flushed, even when it fails. The only caller opens a
  recorder once.
- *Gaps*: the writer counts a gap long after the frames were missed, and by then
  the counters of loss have moved on. `GapInv` therefore says that there are
  bounds, one for each frame accepted, that grow from frame to frame by at least
  the gap between them, the last of which is at most what is lost and dropped by
  now, less what the call under way is yet to count; what has been counted is at
  most the bound of the last frame written. The order of frames is by generation
  of the publisher first, as a restart starts its numbers again. This one holds
  for any number of runs. The other direction is `NoGapMissed`: among the frames of
  one publisher every number between the first and the last one written was written
  or counted. It rests on `Ascending`, that the queue keeps the order of publication.

**RealsenseRecorderProofs.** `FramesReachOpenRecorder` and `StartedOrClean` need
each other: `OwnerInv` says what is open and what runs at every step of `start()`
and `stop()`, `ServiceInv` that whoever holds samples is the take-thread or the
owner in its last sweep, never both, that either has an open recorder, and that a
reader is open exactly when it is served so or was abandoned by the `start()` that
threw behind it, which is the reader `StartedOrClean` has to allow. For
the order of delivery, `LineInv` lines up what was delivered, what is taken and
what is in the cache: the line rises up to the next sample to be published; when the
reader is reliable it begins with the first sample after the reader was made
(`atStart`) and is without a hole; once the thread is joined, it reaches
at least to what had landed when `stop()` was called. `StopLosesNothingLanded` is
its value at the end of the last sweep (`Complete`), when everything in the line has
been delivered; `DeliveredInOrder` follows step by step.

`CameraIsAssembly` is about CameraAssembly, whose steps are RealsenseRecorder's
(`CameraIsRealsense`), so that all of this carries over. `CameraInv` adds that a
camera no subscriber was started for, and a recorder that is closed, has nothing to
settle, and that a frame comes only after a subscriber was started; `OwnerInv` that
none comes while the recorders are closed. So the sums agree when the second
`close()` returns, also in the `stop()` that a failing `start()` makes.

**DataCollectorProofs.** `StreamsOf` compares the two places that list the
streams: the switches tested for "nothing to record" and the order `start()` goes.
The invariant has six parts: that no stream is named twice (`OrderInv`); where
each stream is for every place of the owner (`PhaseInv`); that the summary has
exactly the streams that are closed, with counters that no longer move
(`SummaryInv`); that the last report has no more than there is (`ReportInv`, which
is why its difference cannot wrap); the types; and, as long as the disk has taken
what was written, which blocks every directory's `meta.yaml` has, those of other
sessions included (`MetaInv`). Hence `TypeOK`, `SummaryIsFinal`,
`VectorReportsFit` and the safety of `ImplementsRecording`. The step of `start()`
is where `Recording` promises that a recording has a stream. For
`StreamsAreAssemblies` it also takes `ZeroInv`, that a stream without an object has
counters that are zero; `StreamSteps` lists the seven things a step of the collector
can be to one stream. Together with `IsAssembly` and `CameraIsAssembly` this is why
the collector may be checked over reduced streams.

**MainProofs**, for both kinds of `main()`:

- *The collector's*: `MainInv` ties the handlers to the place in `main()`: from the
  installation of the second handler on no signal has its default effect, until the
  process is over. `NeverCutShort` and `TerminalRestored` follow.
- *The tools'*: `VerdictIsHonest` speaks of the end, when the list of workers to wait
  for is empty. `ToolInv` says, at every moment and for every worker, which of three
  it is: one that was asked for (its directory has been looked at, and the stream is
  there) is one that was started (`Asked`); one that was started is in the list
  (`Waited`), once, or joined and over (`Joined`); and `all_ok` is the conjunction of
  the verdicts of those joined.

**ExporterProofs.** The lemmas on IndexFile say what `sscanf()` makes of a line of
each layout, whole (`ScanMatches`, `ScanTooLong`) or torn (`LastColor`), from which
`WhatIsRead` gives `ReadsWhatWasWritten` for an index of any length. `WorkInv` ties
the flags to the place in `run()`, `RowsInv` says that every row done was readable
and that a run that is complete has done all it expected, `OutInv` that what is put
out are these rows, in order, with stamps that increase. `SucceededMeansWhole`,
`StampsIncrease` and the safety of `ImplementsJob` follow.

Only model-checked:

- everything with liveness or fairness (`CallsReturn`, `StopReturns`, `SignalsEnd`,
  the fairness halves of `ImplementsHandOff`, `ImplementsAssembly`,
  `ImplementsRecording` and `ImplementsJob`): the prover has no ENABLED.

Every other property of a passing run is a theorem.

## 5. What is left out, and why

- *Formats*: how a number is printed, the text of `meta.yaml`, the codecs, the
  durations of packets, the colours of depth, times of day. No property depends on
  them.
- *The phantom row*: a torn line of the twelve-column depth index may be read as
  one of the old layout, with some other slice. The model has it; the exporters
  cannot know, and nothing promises that they do.
- *Memory order*: the counters are relaxed atomics, each with one writing thread
  and no decision made from another thread's; a step per update is exact.
- *DDS, the SDKs, libav, OpenCV, the terminal, the disk* are modelled from how
  the code uses them, and marked external.
- *Object lifetimes*: in which order the members of a recorder are destroyed.
  The collector stops before it destroys.
- *Configuration files, frame maps, the tests, the container*: without state, or
  without behaviour of their own.
- *Two cameras of one name*: both recorders would write the same files. The
  collector's assumption excludes it, the code does not.
- *The failure of start() after the reader was made* leaves the reader open. The
  model does, too, and `StartedOrClean` says so, but what an undrained reader does to
  its writer is DDS's.
- *The header of the index*: `BlobRecorder.OpenFiles` does not write it. The exporters
  skip one line, and no row's place depends on it.
- *A configuration that is not what it should be*: `Settings` has every key present or
  absent. A `cameras` that is no sequence counts as none; a section that is no mapping,
  on which the YAML library throws, ends the program before it has a state.
- *The counters of the last report* are kept by the name of the stream, where the code
  has the index into a vector that is made anew with the streams.
- *Exceptions inside an export worker*, which would end the process.
- *SIGQUIT and SIGHUP*, for which `main()` has no handler: they end the process at
  once, at the prompt with the terminal as it is.

## 6. The plan

Order: what loses data first, what only reports it later.

1. Done: the queue and its protocol; the recorders over failing files; the
   assemblies with their threads and schemas; the collector with its configuration
   and session; main; the exporters with the index they read; the tools. Four
   abstract specifications, HandOff, Assembly, Recording and ExportJob, implemented by
   six modules. Proofs of every safety property the runs check, and of the safety of
   every refinement.
2. Next, in the model:
   - object lifetimes: a RealsenseRecorder that goes while it records (its
     recorders are destroyed before its subscribers), the move of members;
   - a collector that is started twice, for the plain report counters.
