--------------------------- MODULE DataCollector ---------------------------
(***************************************************************************)
(* src/system/data_collector.cpp: every enabled stream behind one start()  *)
(* and stop(), the report of the last window, and the session's meta.yaml. *)
(* A stream is one of the assemblies of src/system (a RealsenseRecorder or *)
(* one around an SDK subscriber): a source that calls push() on threads of *)
(* its own and a recorder.  The assemblies stop their source first and     *)
(* then drain and close the recorder.                                      *)
(***************************************************************************)
EXTENDS Session, Settings, Integers

CONSTANTS Roots,        \* bound: the configurations
          Stream,       \* the streams they name
          MaxRecords,   \* bound: records of a stream in a run
          MaxRuns,      \* bound: calls of start()
          Wrap          \* 2^64 in the code

\* A camera's name is a text.  No camera is listed twice: two recorders would
\* write the same files.
ASSUME CollectorAssumption ==
    /\ \A root \in Roots : cameras(root) \in Seq(STRING)
    /\ \A root \in Roots :
          LET named == Streams(from_yaml(root)) IN
          /\ \A i \in DOMAIN named : named[i] \in Stream
          /\ \A i, j \in DOMAIN named : named[i] = named[j] => i = j
    /\ MaxRecords \in Nat /\ MaxRuns \in Nat /\ Wrap \in Nat /\ Wrap > MaxRecords

VARIABLES op,           \* the owner: "idle", "start", "report", "print", "stop"
          settings,     \* what start() is given, and what it makes of it:
          order,        \* the streams, in the order start() and stop() go
          at,           \* the place in order the owner is at
          running,      \* running_
          phase,        \* of each stream: "none": no object; "on": its source
                        \* runs; "drain": the source is stopped; "closed"
          received, written,
          lost,         \* dropped and write_errors together
          seen,         \* the received count print_report() has loaded
          last,         \* last_*: the counters of the previous report
          summary,      \* the summaries stop() has collected
          runs,         \* bounded by MaxRuns
          labelled      \* write_result() was called since the last stop()

counterVars == <<received, written, lost>>
reportVars == <<seen, last>>
collectorVars == <<op, settings, order, at, running, phase, summary, runs, labelled>>
vars == <<sessionVars, counterVars, reportVars, collectorVars>>

Zero == [rx |-> 0, wr |-> 0]
Stats(s) == [received |-> received[s], written |-> written[s], lost |-> lost[s]]
Count == 0..MaxRecords
StatsSet == [received : Count, written : Count, lost : Count]

\* the types, that a recorder never loses or writes what it did not get, and
\* that start() gives up early exactly when there is no stream to start
TypeOK ==
    /\ op \in {"idle", "start", "report", "print", "stop"} /\ at \in 1..Len(order) + 1
    /\ SomethingEnabled(settings) <=> order # <<>>
    /\ running \in BOOLEAN
    /\ phase \in [Stream -> {"none", "on", "drain", "closed"}]
    /\ {received, written, lost} \subseteq [Stream -> Count]
    /\ \A s \in Stream : written[s] + lost[s] <= received[s]
    /\ seen \in Count
    /\ last \in [Stream -> [rx : Count, wr : Count]]
    /\ DOMAIN summary \subseteq Stream /\ \A s \in DOMAIN summary : summary[s] \in StatsSet
    /\ runs \in 0..MaxRuns /\ labelled \in BOOLEAN
    /\ clock \in 0..MaxClock /\ dir \in 0..MaxClock \cup {NoDir} /\ metaLost \in BOOLEAN

NoSummary == [s \in {} |-> Zero]

Init ==
    /\ SessionInit
    /\ settings \in {from_yaml(root) : root \in Roots} /\ order = Streams(settings)
    /\ op = "idle" /\ at = 1 /\ running = FALSE
    /\ phase = [s \in Stream |-> "none"]
    /\ received = [s \in Stream |-> 0] /\ written = received /\ lost = received
    /\ seen = 0 /\ last = [s \in Stream |-> Zero]
    /\ summary = NoSummary /\ runs = 0 /\ labelled = TRUE

Here == order[at]
Step == at' = at + 1
-----------------------------------------------------------------------------
(* start() *)

\* When nothing is enabled, and when already running, start() does nothing.
Start ==
    /\ op = "idle" /\ ~running /\ runs < MaxRuns
    /\ SomethingEnabled(settings)
    /\ runs' = runs + 1
    /\ \/ SessionCreate /\ op' = "start" /\ at' = 1
       \/ SessionCreateFails /\ UNCHANGED <<op, at>>
    /\ labelled' = TRUE
    /\ UNCHANGED <<counterVars, reportVars, running, phase, summary, settings, order>>

\* the assembly's start(): its recorder is open, then its source runs
StartStream ==
    /\ op = "start" /\ at <= Len(order)
    /\ phase' = [phase EXCEPT ![Here] = "on"]
    /\ received' = [received EXCEPT ![Here] = 0]
    /\ written' = [written EXCEPT ![Here] = 0]
    /\ lost' = [lost EXCEPT ![Here] = 0]
    /\ Step
    /\ UNCHANGED <<sessionVars, reportVars, op, running, summary, runs, labelled,
                   settings, order>>

\* start() fails, and the object is destroyed: skipped
SkipStream ==
    /\ op = "start" /\ at <= Len(order)
    /\ Step
    /\ UNCHANGED <<sessionVars, counterVars, reportVars, op, running, phase,
                   summary, runs, labelled, settings, order>>

NoStream ==
    /\ op = "start" /\ at > Len(order) /\ \A s \in Stream : phase[s] = "none"
    /\ op' = "idle" /\ at' = 1
    /\ UNCHANGED <<sessionVars, counterVars, reportVars, running, phase,
                   summary, runs, labelled, settings, order>>

\* Mutant: the counters of the last report are those of the run before.
KeepLast == UNCHANGED last

\* the vectors are assigned anew; the plain members are not
ResetLast == last' = [s \in Stream |-> IF s \in Scalar THEN last[s] ELSE Zero]

Started ==
    /\ op = "start" /\ at > Len(order) /\ \E s \in Stream : phase[s] # "none"
    /\ WriteMeta
    /\ ResetLast
    /\ running' = TRUE /\ op' = "idle" /\ at' = 1
    /\ UNCHANGED <<counterVars, seen, phase, summary, runs, labelled, settings, order>>
-----------------------------------------------------------------------------
(* The streams, on threads of their own *)

Receive(s) ==
    /\ phase[s] = "on" /\ received[s] < MaxRecords
    /\ received' = [received EXCEPT ![s] = @ + 1]
    /\ UNCHANGED <<sessionVars, written, lost, reportVars, collectorVars>>

\* Mutant: a record the file refuses is counted as written, too.
SettleBoth(s) ==
    /\ phase[s] \in {"on", "drain"} /\ written[s] + lost[s] < received[s]
    /\ written' = [written EXCEPT ![s] = @ + 1]
    /\ lost' \in {lost, [lost EXCEPT ![s] = @ + 1]}
    /\ UNCHANGED <<sessionVars, received, reportVars, collectorVars>>

\* the writer thread gets to a record, or push() has dropped it
Settle(s) ==
    /\ phase[s] \in {"on", "drain"} /\ written[s] + lost[s] < received[s]
    /\ \/ written' = [written EXCEPT ![s] = @ + 1] /\ UNCHANGED lost
       \/ lost' = [lost EXCEPT ![s] = @ + 1] /\ UNCHANGED written
    /\ UNCHANGED <<sessionVars, received, reportVars, collectorVars>>
-----------------------------------------------------------------------------
(* print_report(): uwb comes before the hands there *)

PrintReport ==
    /\ op = "idle" /\ running
    /\ op' = "report" /\ at' = 1
    /\ UNCHANGED <<sessionVars, counterVars, reportVars, running, phase,
                   summary, runs, labelled, settings, order>>

\* stats() loads the counters one after the other, received first
LoadReceived ==
    /\ op = "report" /\ at <= Len(order) /\ phase[Here] # "none"
    /\ seen' = received[Here]
    /\ op' = "print"
    /\ UNCHANGED <<sessionVars, counterVars, last, at, running, phase,
                   summary, runs, labelled, settings, order>>

\* the difference of two uint64_t
Delta(count, before) == (count - before) % Wrap

\* What is printed are the Deltas of the loaded counts and last.
PrintStream ==
    /\ op = "print"
    /\ last' = [last EXCEPT ![Here] = [rx |-> seen, wr |-> written[Here]]]
    /\ op' = "report" /\ Step /\ seen' = 0
    /\ UNCHANGED <<sessionVars, counterVars, running, phase, summary,
                   runs, labelled, settings, order>>

PassOver ==
    /\ op \in {"report", "stop"} /\ at <= Len(order) /\ phase[Here] = "none"
    /\ Step
    /\ UNCHANGED <<sessionVars, counterVars, reportVars, op, running, phase,
                   summary, runs, labelled, settings, order>>

ReportDone ==
    /\ op = "report" /\ at > Len(order)
    /\ op' = "idle" /\ at' = 1
    /\ UNCHANGED <<sessionVars, counterVars, reportVars, running, phase,
                   summary, runs, labelled, settings, order>>
-----------------------------------------------------------------------------
(* stop() *)

Stop ==
    /\ op = "idle" /\ running
    /\ op' = "stop" /\ at' = 1
    /\ UNCHANGED <<sessionVars, counterVars, reportVars, running, phase, summary,
                   runs, labelled, settings, order>>

StopSource ==
    /\ op = "stop" /\ at <= Len(order) /\ phase[Here] = "on"
    /\ phase' = [phase EXCEPT ![Here] = "drain"]
    /\ UNCHANGED <<sessionVars, counterVars, reportVars, op, at, running,
                   summary, runs, labelled, settings, order>>

Summarize ==
    summary' = [s \in DOMAIN summary \cup {Here} |-> IF s = Here THEN Stats(s) ELSE summary[s]]

\* Mutant: the counters are taken before the queue is drained.
CloseUndrained ==
    /\ op = "stop" /\ at <= Len(order) /\ phase[Here] = "drain"
    /\ Summarize
    /\ Step
    /\ UNCHANGED <<sessionVars, counterVars, reportVars, op, running, phase,
                   runs, labelled, settings, order>>

\* Mutant: a stream that lost records is left out of the summary.
CloseQuietly ==
    /\ op = "stop" /\ at <= Len(order) /\ phase[Here] = "drain"
    /\ written[Here] + lost[Here] = received[Here]
    /\ phase' = [phase EXCEPT ![Here] = "closed"]
    /\ IF lost[Here] = 0 THEN Summarize ELSE UNCHANGED summary
    /\ Step
    /\ UNCHANGED <<sessionVars, counterVars, reportVars, op, running, runs, labelled,
                   settings, order>>

\* the recorder's close() has returned, and the stream's stats() is taken
CloseStream ==
    /\ op = "stop" /\ at <= Len(order) /\ phase[Here] = "drain"
    /\ written[Here] + lost[Here] = received[Here]
    /\ phase' = [phase EXCEPT ![Here] = "closed"]
    /\ Summarize
    /\ Step
    /\ UNCHANGED <<sessionVars, counterVars, reportVars, op, running, runs, labelled,
                   settings, order>>

\* meta.yaml is finalized and the objects are destroyed
Stopped ==
    /\ op = "stop" /\ at > Len(order)
    /\ FinalizeMeta
    /\ phase' = [s \in Stream |-> "none"] /\ summary' = NoSummary
    /\ received' = [s \in Stream |-> 0] /\ written' = received' /\ lost' = received'
    /\ running' = FALSE /\ op' = "idle" /\ at' = 1 /\ labelled' = FALSE
    /\ UNCHANGED <<reportVars, runs, settings, order>>

\* The caller labels a session once, after stop(), as the header asks for.
WriteResult ==
    /\ op = "idle" /\ ~running /\ ~labelled
    /\ \E result \in {"", "success", "fail"} : AppendResult(result)
    /\ labelled' = TRUE
    /\ UNCHANGED <<counterVars, reportVars, op, at, running, phase, summary, runs,
                   settings, order>>

StartStep == StartStream \/ SkipStream \/ NoStream \/ Started
ReportStep == LoadReceived \/ PrintStream \/ ReportDone
StopStep == StopSource \/ CloseStream \/ Stopped

Next == \/ Start \/ StartStep \/ PrintReport \/ ReportStep \/ Stop \/ StopStep
        \/ PassOver \/ WriteResult
        \/ (\E s \in Stream : Receive(s) \/ Settle(s))
        \/ (Tick /\ UNCHANGED <<counterVars, reportVars, collectorVars>>)

\* The streams' writer threads run, and so does the owner within stop().
Spec == /\ Init /\ [][Next]_vars
        /\ WF_vars(StopStep \/ (op = "stop" /\ PassOver))
        /\ \A s \in Stream : WF_vars(Settle(s))
-----------------------------------------------------------------------------
\* What stop() puts into the summary, and finalizes meta.yaml with, stays
\* true: for each stream it has the counters as they are when nothing moves
\* them any more, and every record received is written or counted as lost.
SummaryIsFinal ==
    \A s \in DOMAIN summary :
        /\ summary[s] = Stats(s)
        /\ received[s] = written[s] + lost[s]

\* what the caller of start() and stop() sees
Caller == INSTANCE Recording WITH
    active <- IF running THEN {s \in Stream : phase[s] # "none"} ELSE {},
    stopping <- op = "stop",
    told <- DOMAIN summary,
    meta <- IF metaLost THEN <<"lost">> ELSE IF dir = NoDir THEN <<>> ELSE meta[dir]

\* stop() returns, and forgets no stream that was started: the objects go
\* when the counters of all of them are in the summary.  meta.yaml has, from
\* a start() that succeeded on and whenever the process is killed, one header,
\* one summary behind it once stop() is done, and at most one result behind
\* that, also when the directory was there before.
ImplementsRecording == Caller!Spec

\* one of the streams, as its assembly shows itself
Unit(s) == INSTANCE Assembly WITH
    phase <- IF phase[s] \in {"on", "drain"} THEN phase[s] ELSE "off",
    received <- received[s], written <- written[s], lost <- lost[s]

\* The collector asks no more of a stream than an assembly does: each of its
\* streams, over all recordings and while the owner goes through the others,
\* only ever does what Assembly says and SdkRecorder implements.
UsesAssemblies ==
    /\ \A s \in Stream : Unit(s)!Init
    /\ [][\A s \in Stream : [Unit(s)!Next]_(Unit(s)!vars)]_vars

\* A report never shows more records for its window than the stream has had
\* since it was started: the difference of two counts does not wrap around.
\* So it is for the streams whose last counts are in vectors, over any number
\* of runs; those of lowstate, uwb and motion_token start() does not reset.
VectorReportsFit ==
    op = "print" /\ Here \notin Scalar =>
        /\ Delta(seen, last[Here].rx) <= received[Here]
        /\ Delta(written[Here], last[Here].wr) <= written[Here]
=============================================================================
