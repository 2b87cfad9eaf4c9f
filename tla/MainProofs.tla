----------------------------- MODULE MainProofs -----------------------------
(***************************************************************************)
(* Proofs about the main threads of the programs: that of the collector,   *)
(* interrupted by signals, and that of the tools, over workers that are    *)
(* ExportJobs; for any number of signals, keys and directories.            *)
(***************************************************************************)
EXTENDS CollectorMain, ExportTool, SequenceTheorems, TLAPS

(* main.cpp.  What keeps a signal from ending the process with the         *)
(* terminal raw, or the session without its summary, is that neither       *)
(* signal has its default handler from the moment main() has installed     *)
(* both.                                                                   *)

\* main() is behind its loop, and has not returned.
Stopped == {"which", "isatty", "label"} \cup InPrompt

MainInv ==
    /\ TypeOK
    /\ pc = "signal_TERM" => handler["SIGINT"] # "default"
    /\ pc \in Recording \cup {"drain"} \cup Stopped => \A s \in Signal : handler[s] # "default"
    /\ pc = "killed" => \E s \in Signal : handler[s] = "default"
    /\ pc = "start" => session = "none"
    /\ pc \in Stopped => session = "finalized"
    /\ pc = "exited" => session \in {"none", "finalized"}
    /\ tty = "raw" => pc \in {"before_read", "read", "restore"}

LEMMA MainInit == Init => MainInv
<1> SUFFICES ASSUME Init PROVE MainInv
  OBVIOUS
<1>1. TypeOK
  <2>1. typed \in Seq(Key)
    BY EmptySeq DEF Init
  <2>2. signals \in 0..MaxSignals /\ keys \in 0..MaxKeys
    BY MainAssumption DEF Init, MainAssumption
  <2>3. handler \in [Signal -> {"default", "stop", "skip"}] /\ isTty \in BOOLEAN
    BY DEF Init
  <2>4. stop = FALSE /\ termSeen = FALSE
    BY DEF Init
  <2> QED
    BY <2>1, <2>2, <2>3, <2>4 DEF Init, TypeOK
<1> QED
  BY <1>1 DEF Init, MainInv, Recording, Stopped, InPrompt

LEMMA MainTypes == MainInv /\ [Next]_vars => TypeOK'
<1> SUFFICES ASSUME MainInv, [Next]_vars PROVE TypeOK'
  OBVIOUS
<1> USE DEF TypeOK, MainInv, flagVars, termVars, outcomeVars, envVars, Goto, Recording, InPrompt
<1>1. CASE StartRecording \/ StartFails \/ TestStop \/ SleepAndReport \/ Drain
  BY <1>1 DEF StartRecording, StartFails, TestStop, SleepAndReport, Drain
<1>2. CASE InstallInt \/ InstallTerm \/ InstallSkip
  BY <1>2 DEF InstallInt, InstallTerm, InstallSkip
<1>3. CASE Which \/ TestTty \/ MakeRaw \/ TcgetattrFails \/ CallRead \/ ReadEof \/ Restore
           \/ WriteLabel
  BY <1>3 DEF Which, TestTty, MakeRaw, TcgetattrFails, CallRead, ReadEof, Restore, WriteLabel
<1>4. CASE ReadKey
  <2>1. typed' \in Seq(Key)
    <3>1. typed \in Seq(Key) /\ typed # <<>> /\ typed' = Tail(typed)
      BY <1>4 DEF ReadKey
    <3> QED
      BY <3>1
  <2>2. result' \in {"none", "success", "fail"} /\ pc' \in {"before_read", "restore"}
    BY <1>4 DEF ReadKey
  <2> QED
    BY <1>4, <2>1, <2>2 DEF ReadKey
<1>5. ASSUME NEW sig \in Signal, Send(sig) PROVE TypeOK'
  <2>1. /\ stop' \in BOOLEAN /\ stopSignal' \in Signal \cup {"none"}
        /\ (stop' <=> stopSignal' # "none")
        /\ pc' \in {pc, "killed", "restore"}
    BY <1>5 DEF Send, Handle, Signal
  <2>2. signals' \in 0..MaxSignals /\ termSeen' \in BOOLEAN
    BY <1>5, MainAssumption DEF Send, MainAssumption
  <2> QED
    BY <1>5, <2>1, <2>2 DEF Send
<1>6. ASSUME NEW k \in Key, Type(k) PROVE TypeOK'
  <2>1. typed' \in Seq(Key) /\ keys' \in 0..MaxKeys
    BY <1>6, AppendProperties, MainAssumption DEF Type, MainAssumption
  <2> QED
    BY <1>6, <2>1 DEF Type
<1>7. CASE UNCHANGED vars
  BY <1>7 DEF vars
<1> QED
  BY <1>1, <1>2, <1>3, <1>4, <1>5, <1>6, <1>7 DEF Next, MainStep

LEMMA MainInvStep == MainInv /\ [Next]_vars => MainInv'
<1> SUFFICES ASSUME MainInv, [Next]_vars PROVE MainInv'
  OBVIOUS
<1>0. TypeOK' /\ handler \in [Signal -> {"default", "stop", "skip"}]
  BY MainTypes DEF MainInv, TypeOK
<1> USE DEF MainInv, flagVars, termVars, outcomeVars, envVars, Goto, Recording, InPrompt, Stopped
<1>1. CASE StartRecording \/ StartFails \/ TestStop \/ SleepAndReport \/ Drain
  BY <1>0, <1>1 DEF StartRecording, StartFails, TestStop, SleepAndReport, Drain
<1>2. CASE InstallInt \/ InstallTerm \/ InstallSkip
  BY <1>0, <1>2 DEF InstallInt, InstallTerm, InstallSkip, Signal
<1>3. CASE Which \/ TestTty \/ MakeRaw \/ TcgetattrFails \/ CallRead \/ ReadEof \/ ReadKey
           \/ Restore \/ WriteLabel
  BY <1>0, <1>3 DEF Which, TestTty, MakeRaw, TcgetattrFails, CallRead, ReadEof, ReadKey,
     Restore, WriteLabel
<1>4. ASSUME NEW sig \in Signal, Send(sig) PROVE MainInv'
  <2>1. CASE handler[sig] = "default"
    BY <1>0, <1>4, <2>1 DEF Send, Handle
  <2>2. CASE handler[sig] # "default"
    BY <1>0, <1>4, <2>2 DEF Send, Handle
  <2> QED
    BY <2>1, <2>2
<1>5. ASSUME NEW k \in Key, Type(k) PROVE MainInv'
  BY <1>0, <1>5 DEF Type
<1>6. CASE UNCHANGED vars
  BY <1>0, <1>6 DEF vars
<1> QED
  BY <1>1, <1>2, <1>3, <1>4, <1>5, <1>6 DEF Next, MainStep

LEMMA MainInvariant == Spec => []MainInv
  BY MainInit, MainInvStep, PTL DEF Spec

\* The types; the flag and the number of the signal agree.
THEOREM MainTypesHold == Spec => []TypeOK
<1>1. MainInv => TypeOK
  BY DEF MainInv
<1> QED
  BY <1>1, MainInvariant, PTL

\* The terminal is raw only within the prompt, however many keys and signals, of
\* SIGINT and SIGTERM, come and when.
THEOREM TerminalIsRestored == Spec => []TerminalRestored
<1>1. MainInv => TerminalRestored
  BY DEF MainInv, TerminalRestored, InPrompt
<1> QED
  BY <1>1, MainInvariant, PTL

\* No signal ends the process without the summary once both handlers are there.
THEOREM SummaryIsWritten == Spec => []NeverCutShort
<1>1. MainInv => NeverCutShort
  BY DEF MainInv, NeverCutShort
<1> QED
  BY <1>1, MainInvariant, PTL
-----------------------------------------------------------------------------
(* The tools.  Every worker that was started is in main()'s list, until    *)
(* main() has joined it and has its verdict in all_ok.                     *)

\* main() has called the worker's start().
Asked(w) == /\ w[1] \notin unseen
            /\ w[1] = entry => stage # "color" /\ (stage = "depth" => w[2] = "color")

\* What main() still waits for, and what it is done with
Waited(w) == \E i \in DOMAIN waits : waits[i] = w
Joined(w) == job[w].state # "new" /\ ~Waited(w)

\* The workers that were started are those of the streams that are there;
\* main() has each of them in its list or its verdict in all_ok.
ToolInv ==
    /\ ToolTypeOK /\ waits \in Seq(Worker)
    /\ stage \in Modality => entry \in Directories /\ entry \notin unseen
    /\ stage \in {"wait", "over"} => unseen = {}
    /\ stage # "over" => exit = None
    /\ \A w \in Worker : job[w].state # "new" <=> Asked(w) /\ w[2] \in streams[w[1]]
    /\ stage \in {"scan", "color", "depth"} => \A w \in Worker : ~Joined(w)
    /\ stage = "wait" => \E w \in Worker : job[w].state # "new"
    /\ stage # "over" =>
          /\ \A w \in Worker : Joined(w) => job[w].state = "over"
          /\ allOk <=> \A w \in Worker : Joined(w) => job[w].verdict
    /\ VerdictIsHonest

LEMMA ToolStarted == ToolInit => ToolInv
<1> SUFFICES ASSUME ToolInit PROVE ToolInv
  OBVIOUS
<1> USE DEF ToolInit, Modality, Worker, JobState, None
<1>1. \A w \in Worker : job[w].state = "new"
  OBVIOUS
<1>2. waits \in Seq(Worker) /\ DOMAIN waits = {}
  BY EmptySeq
<1>3. ToolTypeOK
  BY <1>2 DEF ToolTypeOK
<1>4. \A w \in Worker : ~Asked(w) /\ ~Joined(w)
  BY <1>1 DEF Asked, Joined
<1> QED
  BY <1>1, <1>2, <1>3, <1>4 DEF ToolInv, VerdictIsHonest

\* main() goes on: to the next entry, or to waiting.
LEMMA ToolScans == ToolInv /\ (NextEntry \/ NoJobs \/ AllStarted) => ToolInv'
<1> SUFFICES ASSUME ToolInv, NextEntry \/ NoJobs \/ AllStarted PROVE ToolInv'
  OBVIOUS
<1> USE DEF None
<1>0. UNCHANGED <<streams, job, waits, allOk>> /\ stage = "scan"
  BY DEF NextEntry, NoJobs, AllStarted
<1>1. \A w \in Worker : Joined(w)' = Joined(w)
  BY <1>0 DEF Joined, Waited
<1>2. CASE NextEntry
  <2>1. /\ entry' \in unseen /\ unseen' = unseen \ {entry'} /\ stage' = "color"
        /\ exit' = exit /\ unseen \subseteq Directories
    BY <1>2 DEF NextEntry, ToolInv, ToolTypeOK
  <2>2. \A w \in Worker : Asked(w)' <=> Asked(w)
    BY <1>0, <2>1 DEF Asked
  <2>3. ToolTypeOK'
    BY <1>0, <2>1 DEF ToolInv, ToolTypeOK
  <2> QED
    BY <1>0, <1>1, <2>1, <2>2, <2>3 DEF ToolInv, VerdictIsHonest, Modality
<1>3. CASE AllStarted \/ NoJobs
  <2>1. /\ UNCHANGED <<unseen, entry>> /\ unseen = {} /\ stage' \in {"wait", "over"}
    BY <1>3 DEF AllStarted, NoJobs
  <2>2. \A w \in Worker : Asked(w)' <=> Asked(w)
    BY <1>0, <2>1 DEF Asked
  <2>3. \A w \in Worker : job[w].state # "new" <=> w[2] \in streams[w[1]]
    BY <1>0, <2>1 DEF ToolInv, Asked
  <2>4. \A w \in Worker : ~Joined(w)
    BY <1>0 DEF ToolInv
  <2>5. CASE AllStarted
    <3>1. stage' = "wait" /\ exit' = exit /\ waits # <<>>
      BY <2>5 DEF AllStarted
    <3>2. ToolTypeOK'
      BY <1>0, <2>1, <3>1 DEF ToolInv, ToolTypeOK
    <3>3. waits \in Seq(Worker) /\ 1 \in DOMAIN waits /\ waits[1] \in Worker
      BY <3>1, EmptySeq, ElementOfSeq, LenProperties DEF ToolInv
    <3>4. job[waits[1]].state # "new"
      BY <3>3 DEF ToolInv, ToolTypeOK
    <3> QED
      BY <1>0, <1>1, <2>1, <2>2, <3>1, <3>2, <3>3, <3>4 DEF ToolInv, VerdictIsHonest, Modality
  <2>6. CASE NoJobs
    <3>1. stage' = "over" /\ exit' = 1 /\ waits = <<>>
      BY <2>6 DEF NoJobs
    <3>2. ToolTypeOK'
      BY <1>0, <2>1, <3>1 DEF ToolInv, ToolTypeOK
    <3>3. \A w \in Worker : job[w].state = "new"
      BY <2>4, <3>1 DEF Joined, Waited
    <3>4. \A d \in Directories : streams[d] = {}
      <4> SUFFICES ASSUME NEW d \in Directories, NEW m \in streams[d] PROVE FALSE
        OBVIOUS
      <4>1. m \in Modality
        BY DEF ToolInv, ToolTypeOK
      <4>2. <<d, m>> \in Worker
        BY <4>1 DEF Worker
      <4> QED
        BY <2>3, <3>3, <4>2
    <3>5. VerdictIsHonest'
      BY <1>0, <3>1, <3>3, <3>4 DEF VerdictIsHonest, Started
    <3> QED
      BY <1>0, <1>1, <2>1, <2>2, <2>4, <3>1, <3>2, <3>5 DEF ToolInv, Modality
  <2> QED
    BY <1>3, <2>5, <2>6
<1> QED
  BY <1>2, <1>3

\* A worker is started, or not kept.
LEMMA ToolStarts ==
    ASSUME ToolInv, NEW w \in Worker, StartWorker(w)
    PROVE  ToolInv'
<1> USE DEF None, Modality
<1>1. /\ stage \in Modality /\ w = <<entry, stage>>
      /\ stage' = IF stage = "color" THEN "depth" ELSE "scan"
      /\ UNCHANGED <<streams, unseen, entry, allOk, exit>>
      /\ entry \in Directories /\ entry \notin unseen
      /\ w[1] = entry /\ w[2] = stage
  BY DEF StartWorker, ToolInv
<1>2. ~Asked(w) /\ Asked(w)'
  BY <1>1 DEF Asked
<1>3. ASSUME NEW u \in Worker, u # w PROVE Asked(u)' <=> Asked(u)
  <2>1. u = <<u[1], u[2]>> /\ u[2] \in Modality
    BY DEF Worker
  <2>2. u[1] # entry \/ u[2] # stage
    BY <1>1, <1>3, <2>1
  <2> QED
    BY <1>1, <2>1, <2>2 DEF Asked
<1>4. job[w].state = "new" /\ job \in [Worker -> JobState]
  BY <1>2 DEF ToolInv, ToolTypeOK
<1>5. CASE stage \in streams[entry]
  <2>1. PICK j \in JobState : job' = [job EXCEPT ![w] = j] /\ Job(w)!Begin
    BY <1>5, Zenon DEF StartWorker
  <2>2. job'[w] = j /\ j.state = "running" /\ job' \in [Worker -> JobState]
        /\ \A u \in Worker : u # w => job'[u] = job[u]
    BY <1>4, <2>1 DEF Job!Begin
  <2>3. waits' = Append(waits, w)
    BY <1>1, <1>5 DEF StartWorker, Keep
  <2>4. /\ waits' \in Seq(Worker) /\ Len(waits') = Len(waits) + 1
        /\ waits'[Len(waits) + 1] = w /\ Len(waits) \in Nat
        /\ \A i \in 1..Len(waits) : waits'[i] = waits[i]
        /\ DOMAIN waits = 1..Len(waits) /\ DOMAIN waits' = 1..Len(waits) + 1
    BY <2>3, AppendProperties, LenProperties DEF ToolInv
  <2>5. \A i \in 1..Len(waits) : waits[i] # w
    BY <1>4, <2>4 DEF ToolInv, ToolTypeOK
  <2>6. ToolTypeOK'
    <3>1. \A i \in DOMAIN waits' : job'[waits'[i]].state # "new"
      <4> SUFFICES ASSUME NEW i \in DOMAIN waits' PROVE job'[waits'[i]].state # "new"
        OBVIOUS
      <4>1. CASE i \in 1..Len(waits)
        <5>1. waits[i] \in Worker /\ job[waits[i]].state # "new"
          BY <2>4, <4>1, ElementOfSeq DEF ToolInv, ToolTypeOK
        <5> QED
          BY <2>2, <2>4, <2>5, <4>1, <5>1
      <4>2. CASE i = Len(waits) + 1
        BY <2>2, <2>4, <4>2
      <4> QED
        BY <2>4, <4>1, <4>2
    <3>2. \A i, k \in DOMAIN waits' : waits'[i] = waits'[k] => i = k
      <4>1. \A i, k \in 1..Len(waits) : waits[i] = waits[k] => i = k
        BY <2>4 DEF ToolInv, ToolTypeOK
      <4> QED
        BY <2>4, <2>5, <4>1
    <3> QED
      BY <1>1, <2>2, <3>1, <3>2 DEF ToolInv, ToolTypeOK
  <2>7. Waited(w)' /\ \A u \in Worker : Waited(u) => Waited(u)'
    BY <2>4 DEF Waited
  <2>8. \A u \in Worker : ~Joined(u)'
    BY <1>1, <2>2, <2>7 DEF Joined, ToolInv
  <2>9. \A u \in Worker : job'[u].state # "new" <=> Asked(u)' /\ u[2] \in streams'[u[1]]
    BY <1>1, <1>2, <1>3, <1>5, <2>2 DEF ToolInv
  <2>10. allOk
    BY <1>1 DEF ToolInv
  <2> QED
    BY <1>1, <2>4, <2>6, <2>8, <2>9, <2>10 DEF ToolInv, VerdictIsHonest
<1>6. CASE stage \notin streams[entry]
  <2>1. UNCHANGED <<job, waits>>
    BY <1>1, <1>6 DEF StartWorker, Keep
  <2>2. \A u \in Worker : Joined(u)' = Joined(u)
    BY <2>1 DEF Joined, Waited
  <2>3. \A u \in Worker : job'[u].state # "new" <=> Asked(u)' /\ u[2] \in streams'[u[1]]
    BY <1>1, <1>2, <1>3, <1>4, <1>6, <2>1 DEF ToolInv
  <2>4. ToolTypeOK'
    BY <1>1, <2>1 DEF ToolInv, ToolTypeOK
  <2> QED
    BY <1>1, <2>1, <2>2, <2>3, <2>4 DEF ToolInv, VerdictIsHonest
<1> QED
  BY <1>5, <1>6

\* What becomes of the list when its first worker is joined
LEMMA JoinTakesOne ==
    ASSUME ToolInv, Join
    PROVE  /\ waits # <<>> /\ Head(waits) \in Worker
           /\ waits' \in Seq(Worker)
           /\ \A i \in DOMAIN waits' : i + 1 \in DOMAIN waits /\ waits'[i] = waits[i + 1]
           /\ \A u \in Worker : Waited(u)' <=> Waited(u) /\ u # Head(waits)
           /\ Waited(Head(waits))
<1>1. waits # <<>> /\ waits' = Tail(waits) /\ waits \in Seq(Worker)
  BY DEF ToolInv, Join
<1> DEFINE t == Tail(waits)
<1>2. /\ Len(waits) \in Nat /\ Len(waits) >= 1 /\ DOMAIN waits = 1..Len(waits)
      /\ Head(waits) = waits[1] /\ waits[1] \in Worker
      /\ t \in Seq(Worker) /\ Len(t) = Len(waits) - 1 /\ DOMAIN t = 1..Len(t)
      /\ \A i \in 1..Len(t) : t[i] = waits[i + 1]
  BY <1>1, HeadTailProperties, LenProperties, EmptySeq, ElementOfSeq
<1> HIDE DEF t
<1>3. \A i \in DOMAIN t : i + 1 \in DOMAIN waits /\ t[i] = waits[i + 1]
  BY <1>2
<1>4. \A i, k \in DOMAIN waits : waits[i] = waits[k] => i = k
  BY DEF ToolInv, ToolTypeOK
<1>5. ASSUME NEW u \in Worker
      PROVE  (\E i \in DOMAIN t : t[i] = u) <=> Waited(u) /\ u # Head(waits)
  <2>1. ASSUME NEW i \in DOMAIN t, t[i] = u PROVE Waited(u) /\ u # Head(waits)
    <3>1. i + 1 \in DOMAIN waits /\ waits[i + 1] = u /\ i + 1 # 1 /\ 1 \in DOMAIN waits
      BY <1>2, <1>3, <2>1
    <3> QED
      BY <1>2, <1>4, <3>1 DEF Waited
  <2>2. ASSUME NEW k \in DOMAIN waits, waits[k] = u, u # Head(waits)
        PROVE  \E i \in DOMAIN t : t[i] = u
    <3>1. k # 1
      BY <1>2, <2>2
    <3>2. k - 1 \in DOMAIN t /\ (k - 1) + 1 = k
      BY <1>2, <3>1
    <3>3. t[k - 1] = u
      BY <1>3, <2>2, <3>2
    <3> QED
      BY <3>2, <3>3
  <2> QED
    BY <2>1, <2>2 DEF Waited
<1>6. waits' = t
  BY <1>1 DEF t
<1>7. Waited(Head(waits))
  BY <1>2 DEF Waited
<1> QED
  BY <1>1, <1>2, <1>3, <1>5, <1>6, <1>7 DEF Waited

LEMMA ToolJoins == ToolInv /\ (Join \/ Exit) => ToolInv'
<1> SUFFICES ASSUME ToolInv, Join \/ Exit PROVE ToolInv'
  OBVIOUS
<1> USE DEF None, Modality
<1>0. UNCHANGED <<streams, job, unseen, entry>> /\ stage = "wait" /\ unseen = {}
  BY DEF ToolInv, Join, Exit
<1>1. \A u \in Worker : Asked(u) /\ (stage' \notin Modality => Asked(u)')
  BY <1>0 DEF Asked
<1>2. allOk \in BOOLEAN /\ \A u \in Worker : job[u].verdict \in BOOLEAN
  BY DEF ToolInv, ToolTypeOK, JobState
<1>3. CASE Join
  <2> DEFINE w == Head(waits)
  <2>1. /\ stage' = stage /\ exit' = exit
        /\ job[w].state # "running" /\ allOk' = (allOk /\ job[w].verdict)
    BY <1>3 DEF Join
  <2>2. /\ w \in Worker /\ waits' \in Seq(Worker)
        /\ \A i \in DOMAIN waits' : i + 1 \in DOMAIN waits /\ waits'[i] = waits[i + 1]
        /\ \A u \in Worker : Waited(u)' <=> Waited(u) /\ u # w
        /\ Waited(w)
    BY <1>3, JoinTakesOne
  <2>0. job[w].state = "over"
    BY <2>1, <2>2 DEF ToolInv, ToolTypeOK, Waited, JobState
  <2> HIDE DEF w
  <2>3. \A u \in Worker : Joined(u)' <=> Joined(u) \/ u = w
    BY <1>0, <2>0, <2>1, <2>2 DEF Joined
  <2>4. allOk' \in BOOLEAN /\ (allOk' <=> \A u \in Worker : Joined(u)' => job'[u].verdict)
    <3>1. allOk' \in BOOLEAN /\ (allOk' <=> allOk /\ job[w].verdict)
      BY <1>2, <2>1, <2>2, Zenon
    <3>2. allOk <=> \A u \in Worker : Joined(u) => job[u].verdict
      BY <1>0 DEF ToolInv
    <3> QED
      BY <1>0, <2>2, <2>3, <3>1, <3>2, Zenon
  <2>5. ToolTypeOK'
    <3>1. \A i \in DOMAIN waits' : job'[waits'[i]].state # "new"
      BY <1>0, <2>2 DEF ToolInv, ToolTypeOK
    <3>2. \A i, k \in DOMAIN waits' : waits'[i] = waits'[k] => i = k
      <4>1. DOMAIN waits' \subseteq Nat
        BY <2>2, LenProperties
      <4>2. \A i, k \in DOMAIN waits : waits[i] = waits[k] => i = k
        BY DEF ToolInv, ToolTypeOK
      <4> QED
        BY <2>2, <4>1, <4>2
    <3> QED
      BY <1>0, <2>1, <2>4, <3>1, <3>2 DEF ToolInv, ToolTypeOK
  <2>6. \A u \in Worker : Joined(u)' => job'[u].state = "over"
    BY <1>0, <2>0, <2>1, <2>3 DEF ToolInv
  <2> QED
    BY <1>0, <1>1, <2>1, <2>2, <2>4, <2>5, <2>6 DEF ToolInv, VerdictIsHonest
<1>4. CASE Exit
  <2>1. /\ waits = <<>> /\ exit' = (IF allOk THEN 0 ELSE 1) /\ stage' = "over"
        /\ UNCHANGED <<waits, allOk>>
    BY <1>4 DEF Exit
  <2>2. ToolTypeOK'
    BY <1>0, <2>1 DEF ToolInv, ToolTypeOK
  <2>3. \A u \in Worker : ~Waited(u)
    BY <2>1 DEF Waited
  <2>4. \A u \in Worker : job[u].state # "new" <=> u[2] \in streams[u[1]]
    BY <1>0, <1>1 DEF ToolInv
  <2>5. \A u \in Worker : u[2] \in streams[u[1]] => job[u].state = "over"
    BY <1>0, <2>3, <2>4 DEF ToolInv, Joined
  <2>6. allOk <=> \A u \in Worker : u[2] \in streams[u[1]] => job[u].verdict
    <3>1. allOk <=> \A u \in Worker : Joined(u) => job[u].verdict
      BY <1>0 DEF ToolInv
    <3>2. \A u \in Worker : Joined(u) <=> u[2] \in streams[u[1]]
      BY <2>3, <2>4 DEF Joined
    <3> QED
      BY <3>1, <3>2
  <2>7. streams \in [Directories -> SUBSET Modality]
    BY DEF ToolInv, ToolTypeOK
  <2>8. \A d \in Directories : \A m \in streams[d] :
           <<d, m>> \in Worker /\ <<d, m>>[1] = d /\ <<d, m>>[2] = m
    BY <2>7 DEF Worker
  <2>9. \A u \in Worker : u[1] \in Directories /\ u = <<u[1], u[2]>>
    BY DEF Worker
  <2>10. allOk <=> \A d \in Directories : \A m \in streams[d] : job[<<d, m>>].verdict
    BY <2>6, <2>8, <2>9
  <2>11. \E d \in Directories : streams[d] # {}
    <3>1. PICK u \in Worker : job[u].state # "new"
      BY <1>0 DEF ToolInv
    <3> QED
      BY <2>4, <2>9, <3>1
  <2>12. VerdictIsHonest'
    <3>1. exit' = 0 <=> allOk
      BY <2>1
    <3>2. \A u \in Started : job[u].state = "over"
      BY <2>4, <2>5 DEF Started
    <3> QED
      BY <1>0, <2>1, <2>10, <2>11, <3>1, <3>2 DEF VerdictIsHonest, Started
  <2> QED
    BY <1>0, <1>1, <2>1, <2>2, <2>12 DEF ToolInv
<1> QED
  BY <1>3, <1>4

\* A worker ends, which main() has yet to join.
LEMMA WorkerEnds ==
    ASSUME ToolInv, NEW w \in Worker, Finish(w)
    PROVE  ToolInv'
<1> USE DEF None
<1>0. UNCHANGED <<streams, unseen, entry, waits, stage, allOk, exit>>
  BY DEF Finish, mainVars
<1>1. job \in [Worker -> JobState]
  BY DEF ToolInv, ToolTypeOK
<1>2. PICK j \in JobState : job' = [job EXCEPT ![w] = j] /\ Job(w)!End
  BY Zenon DEF Finish
<1>3. /\ job[w].state = "running" /\ job'[w] = j /\ j.state = "over"
      /\ job' \in [Worker -> JobState]
      /\ \A u \in Worker : u # w => job'[u] = job[u]
  BY <1>1, <1>2 DEF Job!End
<1>4. stage # "over" /\ ~Joined(w)
  BY <1>3 DEF ToolInv, VerdictIsHonest, Started
<1>5. \A u \in Worker : /\ Joined(u)' <=> Joined(u)
                        /\ Joined(u) => job'[u] = job[u]
                        /\ (job'[u].state # "new") <=> (job[u].state # "new")
                        /\ Asked(u)' <=> Asked(u)
  BY <1>0, <1>3, <1>4 DEF Joined, Waited, Asked
<1>6. ToolTypeOK'
  <2>1. \A i \in DOMAIN waits : waits[i] \in Worker
    BY ElementOfSeq, LenProperties DEF ToolInv
  <2> QED
    BY <1>0, <1>3, <1>5, <2>1 DEF ToolInv, ToolTypeOK
<1> QED
  BY <1>0, <1>4, <1>5, <1>6 DEF ToolInv, VerdictIsHonest

LEMMA ToolStep == ToolInv /\ [ToolNext]_toolVars => ToolInv'
<1> SUFFICES ASSUME ToolInv, [ToolNext]_toolVars PROVE ToolInv'
  OBVIOUS
<1>1. CASE UNCHANGED toolVars
  <2>1. UNCHANGED <<streams, unseen, entry, job, waits, stage, allOk, exit>>
    BY <1>1 DEF toolVars, mainVars
  <2> QED
    BY <2>1 DEF ToolInv, ToolTypeOK, VerdictIsHonest, Started, Joined, Waited, Asked
<1> QED
  BY <1>1, ToolScans, ToolStarts, ToolJoins, WorkerEnds DEF ToolNext, Main

LEMMA ToolInvariant == ToolSpec => []ToolInv
  BY ToolStarted, ToolStep, PTL DEF ToolSpec

\* The types, and that main() waits for each worker it started once, and for no
\* other.
THEOREM ToolTypes == ToolSpec => []ToolTypeOK
<1>1. ToolInv => ToolTypeOK
  BY DEF ToolInv
<1> QED
  BY <1>1, ToolInvariant, PTL

\* The exit code is 0 exactly when there was a stream and every one of them was
\* exported, and no worker is left, for any number of directories.
THEOREM VerdictHonest == ToolSpec => []VerdictIsHonest
<1>1. ToolInv => VerdictIsHonest
  BY DEF ToolInv
<1> QED
  BY <1>1, ToolInvariant, PTL
=============================================================================
