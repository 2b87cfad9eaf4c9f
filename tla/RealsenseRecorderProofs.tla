---------------------- MODULE RealsenseRecorderProofs ----------------------
(***************************************************************************)
(* Proofs about RealsenseRecorder and its two ReliableSubscribers.         *)
(*                                                                         *)
(* A subscriber serves from the moment its thread is started until stop()  *)
(* has closed its reader.  While it serves, what it has delivered, what a  *)
(* drain() still holds and what is in the cache are one line of samples    *)
(* that ends just before the next one to land: the argument about the      *)
(* order, and about what a stop() may not lose, is about this line.        *)
(***************************************************************************)
EXTENDS CameraAssembly, SequenceTheorems, TLAPS

\* Who holds samples, who has joined whom, and which recorder is open then
ServiceInv ==
    \A s \in Stream :
        /\ taken[s] # <<>> => thread[s] = "deliver" \/ stopper[s] = "sweeping"
        /\ stopper[s] = "sweeping" => thread[s] = "absent"
        /\ stopper[s] = "idle" /\ thread[s] # "absent" => running[s]
        /\ Serving(s) => recorder[s] = "open" /\ ~abandoned[s]
        /\ reader[s] = "open" <=> Serving(s) \/ abandoned[s]

\* between the calls, all of it or nothing
OnOrOff ==
    op = "idle" => \A s \in Stream :
        IF recording THEN thread[s] # "absent" /\ recorder[s] = "open"
                     ELSE thread[s] = "absent" /\ recorder[s] = "closed"

\* Where the owner is tells what is running and what is open.
OwnerInv ==
    /\ \A s \in Stream : stopper[s] # "idle" <=> op = "join" /\ at = s
    /\ OnOrOff
    /\ op = "open" => /\ ~recording /\ \A s \in Stream : thread[s] = "absent"
                      /\ at = "depth" => recorder["color"] = "open"
    /\ op = "subscribe" => /\ ~recording /\ \A s \in Stream : recorder[s] = "open"
                           /\ thread["depth"] = "absent"
                           /\ thread["color"] = "absent" <=> at = "color"
    /\ op \in {"stop", "join"} /\ at = "depth" => thread["color"] = "absent"
    /\ op = "close" => /\ \A s \in Stream : thread[s] = "absent"
                       /\ at = "depth" => recorder["color"] = "closed"

\* c is in order and ends before n; it ends just before n and skips nothing.
Rising(c, n) == \A i \in 1..Len(c) : c[i] < n /\ \A j \in i + 1..Len(c) : c[i] < c[j]
Dense(c, n) == \A i \in 1..Len(c) : c[i] + Len(c) + 1 = n + i

Held(s) == delivered[s] \o taken[s]
Line(s) == Held(s) \o cache[s]

\* What is held is all there was, from the start of the reader to the stop.
Complete(s) ==
    \A i \in 1..atStop[s] - atStart[s] : i <= Len(Held(s)) /\ Held(s)[i] = atStart[s] + i

LineOK(s) ==
    /\ Serving(s) => Rising(Line(s), next[s])
    /\ Serving(s) /\ reliable
          => Dense(Line(s), next[s]) /\ Len(Line(s)) + atStart[s] + 1 = next[s]
    /\ stopper[s] = "joining" => atStop[s] < next[s]
    /\ reliable /\ stopper[s] # "joining" /\ thread[s] = "absent" => Complete(s)

LineInv == \A s \in Stream : LineOK(s)

RecordInv == TypeOK /\ ServiceInv /\ OwnerInv

LEMMA RecordInit == Init => RecordInv
<1> SUFFICES ASSUME Init PROVE RecordInv
  OBVIOUS
<1> USE CacheAssumption, StreamAssumption DEF CacheAssumption, StreamAssumption, Init, SubscriberInit
<1>1. TypeOK
  <2>1. <<>> \in Seq(Samples) /\ Len(<<>>) = 0
    BY EmptySeq
  <2>2. /\ cache \in [Stream -> Seq(Samples)] /\ taken \in [Stream -> Seq(Samples)]
        /\ delivered \in [Stream -> Seq(Samples)]
        /\ \A s \in Stream : Len(cache[s]) <= CacheLimit
    BY <2>1
  <2>3. /\ sent \in [Stream -> 0..MaxSamples] /\ next \in [Stream -> 1..MaxSamples + 1]
        /\ atStop \in [Stream -> 0..MaxSamples]
    OBVIOUS
  <2>0. MarksTypeOK
    BY <2>3 DEF MarksTypeOK
  <2>4. /\ reader \in [Stream -> {"none", "open"}] /\ running \in [Stream -> BOOLEAN]
        /\ thread \in [Stream -> {"absent", "check", "waiting", "deliver"}]
        /\ stopper \in [Stream -> {"idle", "joining", "sweeping"}] /\ reliable \in BOOLEAN
        /\ \A s \in Stream : ~(thread[s] # "absent" \/ stopper[s] # "idle")
    OBVIOUS
  <2>5. SubscriberTypeOK
    BY ONLY <2>2, <2>3, <2>4, <2>0 DEF SubscriberTypeOK
  <2>6. op = "idle" /\ at = "color" /\ recording = FALSE /\ starts = 0
    OBVIOUS
  <2>7. recorder \in [Stream -> {"closed", "open"}]
    OBVIOUS
  <2>8. at \in Stream
    BY <2>6
  <2>9. starts \in 0..MaxStarts
    BY ONLY <2>6, StreamAssumption DEF StreamAssumption
  <2> QED
    BY ONLY <2>5, <2>6, <2>7, <2>8, <2>9 DEF TypeOK
<1>2. ServiceInv
  BY DEF ServiceInv, Serving
<1>3. OwnerInv
  BY DEF OwnerInv, OnOrOff
<1> QED
  BY <1>1, <1>2, <1>3 DEF RecordInv

\* What start(), stop() and the camera note down has its types.
LEMMA MarksKept == RecordInv /\ [Next]_vars => MarksTypeOK'
<1> SUFFICES ASSUME RecordInv, [Next]_vars PROVE MarksTypeOK'
  OBVIOUS
<1>0. /\ MarksTypeOK /\ at \in Stream /\ MaxSamples \in Nat
      /\ sent \in [Stream -> 0..MaxSamples] /\ next \in [Stream -> 1..MaxSamples + 1]
  BY CacheAssumption DEF RecordInv, TypeOK, SubscriberTypeOK, CacheAssumption
<1> USE DEF MarksTypeOK, readerVars, historyVars
<1>1. ASSUME NEW s \in Stream, SubscriberWire(s) PROVE MarksTypeOK'
  BY <1>0, <1>1 DEF SubscriberWire, Publish, Land, LoseSample, Flood
<1>2. ASSUME NEW s \in Stream, TakeThread(s) PROVE MarksTypeOK'
  BY <1>0, <1>2 DEF TakeThread, CheckRunning, WaitTimesOut, Wake, TakeSamples, Deliver, Drained
<1>3. CASE Subscribe
  BY <1>0, <1>3 DEF Subscribe, StartSubscriber, NewReader
<1>4. CASE SubscribeFails
  BY <1>0, <1>4 DEF SubscribeFails, StartSubscriberFails, NewReader
<1>5. CASE StopSubscriber
  <2>1. next[at] - 1 \in 0..MaxSamples
    BY <1>0
  <2> QED
    BY <1>0, <1>5, <2>1 DEF StopSubscriber, BeginStop
<1>6. CASE Join \/ SubscriberStopped
  BY <1>0, <1>6 DEF Join, JoinAndSweep, TakeSamples, SubscriberStopped, CloseReader
<1>7. CASE UNCHANGED subscriberVars
  BY <1>0, <1>7 DEF subscriberVars
<1>8. CASE Start \/ Stop \/ OpenRecorder \/ OpenRecorderFails \/ GraceOver \/ SkipSubscriber
           \/ CloseRecorder \/ UNCHANGED vars
  BY <1>7, <1>8 DEF Start, Stop, OpenRecorder, OpenRecorderFails, GraceOver, SkipSubscriber,
     CloseRecorder, vars
<1> QED
  BY <1>1, <1>2, <1>3, <1>4, <1>5, <1>6, <1>8 DEF Next, Wire, TakeThreads, OwnerStep

\* What a sample's way through the subscriber changes of the types
LEMMA WireTypes ==
    ASSUME RecordInv, NEW s \in Stream, SubscriberWire(s), UNCHANGED ownerVars, MarksTypeOK'
    PROVE  TypeOK'
<1> USE CacheAssumption DEF CacheAssumption, wireVars, readerVars, historyVars
<1>0. /\ sent[s] \in Nat /\ next[s] \in Nat \ {0} /\ MaxSamples \in Nat
      /\ next[s] \in 1..MaxSamples + 1 /\ sent[s] \in 0..MaxSamples
      /\ cache[s] \in Seq(Samples) /\ Len(cache[s]) \in Nat /\ Len(cache[s]) <= CacheLimit
  BY LenProperties DEF RecordInv, TypeOK, SubscriberTypeOK
<1>1. CASE Publish(s)
  <2>1. sent[s] + 1 \in 0..MaxSamples /\ sent[s] + 2 \in 1..MaxSamples + 1
    BY <1>0, <1>1 DEF Publish
  <2> QED
    BY <1>1, <2>1 DEF Publish, RecordInv, TypeOK, SubscriberTypeOK, ownerVars
<1>2. CASE Land(s)
  <2> DEFINE kept == IF Len(cache[s]) = CacheLimit THEN Tail(cache[s]) ELSE cache[s]
             longer == Append(kept, next[s])
  <2>1. next[s] \in Samples /\ next[s] + 1 \in 1..MaxSamples + 1
    BY <1>0, <1>2 DEF Land, Samples
  <2>2. kept \in Seq(Samples) /\ Len(kept) \in Nat /\ Len(kept) + 1 <= CacheLimit
    <3>1. CASE Len(cache[s]) = CacheLimit
      <4>1. cache[s] # <<>>
        BY <3>1, EmptySeq
      <4> QED
        BY <1>0, <3>1, <4>1, HeadTailProperties, LenProperties
    <3>2. CASE Len(cache[s]) # CacheLimit
      BY <1>0, <3>2
    <3> QED
      BY <3>1, <3>2
  <2>3. longer \in Seq(Samples) /\ Len(longer) <= CacheLimit
    BY <2>1, <2>2, AppendProperties
  <2>4. /\ cache' = [cache EXCEPT ![s] = longer] /\ next' = [next EXCEPT ![s] = next[s] + 1]
        /\ UNCHANGED <<reliable, sent, reader, running, thread, stopper, taken, delivered>>
    BY <1>2 DEF Land
  <2> HIDE DEF longer
  <2> QED
    BY <2>1, <2>3, <2>4 DEF RecordInv, TypeOK, SubscriberTypeOK, ownerVars
<1>3. CASE LoseSample(s)
  <2>1. next[s] + 1 \in 1..MaxSamples + 1
    BY <1>0, <1>3 DEF LoseSample, RecordInv, TypeOK, SubscriberTypeOK
  <2> QED
    BY <1>3, <2>1 DEF LoseSample, RecordInv, TypeOK, SubscriberTypeOK, ownerVars
<1>4. CASE Flood(s)
  BY <1>4 DEF Flood, RecordInv, TypeOK, SubscriberTypeOK, ownerVars
<1> QED
  BY <1>1, <1>2, <1>3, <1>4 DEF SubscriberWire

LEMMA ThreadTypes ==
    ASSUME RecordInv, NEW s \in Stream, TakeThreads(s), MarksTypeOK'
    PROVE  TypeOK'
<1> USE CacheAssumption DEF CacheAssumption, wireVars, readerVars, historyVars
<1>1. CASE CheckRunning(s)
  BY <1>1 DEF CheckRunning, RecordInv, TypeOK, SubscriberTypeOK, TakeThreads, ownerVars
<1>2. CASE WaitTimesOut(s)
  BY <1>2 DEF WaitTimesOut, RecordInv, TypeOK, SubscriberTypeOK, TakeThreads, ownerVars
<1>3. CASE Wake(s)
  <2>1. <<>> \in Seq(Samples) /\ Len(<<>>) = 0
    BY EmptySeq
  <2>2. taken' \in [Stream -> Seq(Samples)] /\ cache' \in [Stream -> Seq(Samples)]
    BY <1>3, <2>1 DEF Wake, TakeSamples, RecordInv, TypeOK, SubscriberTypeOK
  <2>3. \A t \in Stream : Len(cache'[t]) <= CacheLimit
    BY <1>3, <2>1 DEF Wake, TakeSamples, RecordInv, TypeOK, SubscriberTypeOK
  <2>4. /\ thread' \in [Stream -> {"absent", "check", "waiting", "deliver"}]
        /\ \A t \in Stream :
              thread'[t] # "absent" \/ stopper'[t] # "idle" => reader'[t] = "open"
    BY <1>3 DEF Wake, RecordInv, TypeOK, SubscriberTypeOK
  <2> QED
    BY <1>3, <2>2, <2>3, <2>4
    DEF Wake, RecordInv, TypeOK, SubscriberTypeOK, TakeThreads, ownerVars
<1>4. CASE Deliver(s)
  <2>1. taken[s] \in Seq(Samples) /\ delivered[s] \in Seq(Samples) /\ taken[s] # <<>>
    BY <1>4 DEF Deliver, RecordInv, TypeOK, SubscriberTypeOK
  <2>2. Tail(taken[s]) \in Seq(Samples) /\ Append(delivered[s], Head(taken[s])) \in Seq(Samples)
    BY <2>1, HeadTailProperties, AppendProperties
  <2> QED
    BY <1>4, <2>2 DEF Deliver, RecordInv, TypeOK, SubscriberTypeOK, TakeThreads, ownerVars
<1>5. CASE Drained(s)
  BY <1>5 DEF Drained, RecordInv, TypeOK, SubscriberTypeOK, TakeThreads, ownerVars
<1> QED
  BY <1>1, <1>2, <1>3, <1>4, <1>5 DEF TakeThreads, TakeThread

LEMMA OwnerTypes == RecordInv /\ MarksTypeOK' /\ (Start \/ Stop \/ OwnerStep) => TypeOK'
<1> SUFFICES ASSUME RecordInv, MarksTypeOK', Start \/ Stop \/ OwnerStep PROVE TypeOK'
  OBVIOUS
<1> USE CacheAssumption, StreamAssumption DEF CacheAssumption, StreamAssumption, Proceed
<1>1. CASE Start
  BY <1>1 DEF Start, subscriberVars, wireVars, readerVars, historyVars, RecordInv, TypeOK,
     SubscriberTypeOK
<1>2. CASE Stop
  BY <1>2 DEF Stop, subscriberVars, wireVars, readerVars, historyVars, RecordInv, TypeOK,
     SubscriberTypeOK
<1>3. CASE OpenRecorder
  BY <1>3 DEF OpenRecorder, subscriberVars, wireVars, readerVars, historyVars, RecordInv, TypeOK,
     SubscriberTypeOK
<1>4. CASE OpenRecorderFails
  BY <1>4 DEF OpenRecorderFails, subscriberVars, wireVars, readerVars, historyVars, RecordInv,
     TypeOK, SubscriberTypeOK
<1>5. CASE Subscribe
  BY <1>5 DEF Subscribe, StartSubscriber, NewReader, RecordInv, TypeOK, SubscriberTypeOK
<1>6. CASE SubscribeFails
  <2>0. <<>> \in Seq(Samples) /\ Len(<<>>) = 0
    BY EmptySeq
  <2>1. sent[at] + 1 \in 1..MaxSamples + 1
    BY CacheAssumption DEF RecordInv, TypeOK, SubscriberTypeOK
  <2>2. CASE NewReader(at)
    BY <1>6, <2>0, <2>1, <2>2 DEF SubscribeFails, StartSubscriberFails, NewReader, RecordInv, TypeOK,
       SubscriberTypeOK
  <2>3. CASE UNCHANGED <<readerVars, next>>
    BY <1>6, <2>3 DEF SubscribeFails, StartSubscriberFails, readerVars, RecordInv, TypeOK,
       SubscriberTypeOK
  <2> QED
    BY <1>6, <2>2, <2>3 DEF SubscribeFails, StartSubscriberFails, NewReader, RecordInv,
                           TypeOK, SubscriberTypeOK
<1>7. CASE GraceOver
  BY <1>7 DEF GraceOver, subscriberVars, wireVars, readerVars, historyVars, RecordInv, TypeOK,
     SubscriberTypeOK
<1>8. CASE StopSubscriber
  BY <1>8 DEF StopSubscriber, BeginStop, wireVars, readerVars, historyVars, RecordInv, TypeOK,
     SubscriberTypeOK
<1>9. CASE SkipSubscriber
  BY <1>9 DEF SkipSubscriber, subscriberVars, wireVars, readerVars, historyVars, RecordInv,
     TypeOK, SubscriberTypeOK
<1>10. CASE Join
  <2>1. <<>> \in Seq(Samples) /\ Len(<<>>) = 0
    BY EmptySeq
  <2>2. /\ taken' \in [Stream -> Seq(Samples)] /\ cache' \in [Stream -> Seq(Samples)]
        /\ \A t \in Stream : Len(cache'[t]) <= CacheLimit
    BY <1>10, <2>1 DEF Join, JoinAndSweep, TakeSamples, RecordInv, TypeOK, SubscriberTypeOK
  <2> QED
    BY <1>10, <2>2, SMTT(20)
    DEF Join, JoinAndSweep, wireVars, readerVars, historyVars, ownerVars, RecordInv, TypeOK,
       SubscriberTypeOK
<1>11. CASE SubscriberStopped
  <2>1. <<>> \in Seq(Samples) /\ Len(<<>>) = 0
    BY EmptySeq
  <2>2. sent[at] + 1 \in 1..MaxSamples + 1 /\ at \in Stream
    BY DEF RecordInv, TypeOK, SubscriberTypeOK
  <2>3. thread[at] = "absent"
    BY <1>11, <2>2 DEF SubscriberStopped, CloseReader, RecordInv, ServiceInv
  <2>4. /\ cache' \in [Stream -> Seq(Samples)] /\ next' \in [Stream -> 1..MaxSamples + 1]
        /\ \A t \in Stream : Len(cache'[t]) <= CacheLimit
    BY <1>11, <2>1, <2>2 DEF SubscriberStopped, CloseReader, RecordInv, TypeOK, SubscriberTypeOK
  <2>5. \A t \in Stream :
           thread'[t] # "absent" \/ stopper'[t] # "idle" => reader'[t] = "open"
    BY <1>11, <2>2, <2>3 DEF SubscriberStopped, CloseReader, RecordInv, TypeOK, SubscriberTypeOK
  <2>6. UNCHANGED <<reliable, sent, running, thread, taken, delivered>>
    BY <1>11 DEF SubscriberStopped, CloseReader, historyVars
  <2> QED
    BY <1>11, <2>4, <2>5, <2>6, SMTT(20)
    DEF SubscriberStopped, CloseReader, RecordInv, TypeOK, SubscriberTypeOK
<1>12. CASE CloseRecorder
  BY <1>12 DEF CloseRecorder, subscriberVars, wireVars, readerVars, historyVars, RecordInv,
     TypeOK, SubscriberTypeOK
<1> QED
  BY <1>1, <1>2, <1>3, <1>4, <1>5, <1>6, <1>7, <1>8, <1>9, <1>10, <1>11, <1>12 DEF OwnerStep

LEMMA TypesKept == RecordInv /\ [Next]_vars => TypeOK'
<1> SUFFICES ASSUME RecordInv, [Next]_vars PROVE TypeOK'
  OBVIOUS
<1>1. CASE UNCHANGED vars
  BY <1>1, MarksKept DEF vars, subscriberVars, wireVars, readerVars, historyVars, ownerVars, RecordInv,
     TypeOK, SubscriberTypeOK
<1> QED
  BY <1>1, MarksKept, WireTypes, ThreadTypes, OwnerTypes DEF Next, Wire

LEMMA ServiceKept == RecordInv /\ [Next]_vars => ServiceInv' /\ OwnerInv'
<1> SUFFICES ASSUME RecordInv, [Next]_vars PROVE ServiceInv' /\ OwnerInv'
  OBVIOUS
<1>0. /\ TypeOK /\ SubscriberTypeOK /\ ServiceInv /\ OwnerInv
  BY DEF RecordInv, TypeOK
<1>1. ASSUME NEW s \in Stream, SubscriberWire(s), UNCHANGED ownerVars PROVE ServiceInv' /\ OwnerInv'
  <2>1. UNCHANGED <<thread, stopper, taken, running, reader, abandoned, ownerVars>>
    BY <1>1 DEF SubscriberWire, Publish, Land, LoseSample, Flood, readerVars, historyVars
  <2> QED
    BY <1>0, <2>1 DEF ServiceInv, Serving, OwnerInv, OnOrOff, ownerVars
<1>2. ASSUME NEW s \in Stream, TakeThreads(s) PROVE ServiceInv' /\ OwnerInv'
  <2>1. /\ UNCHANGED <<stopper, running, reader, abandoned, op, at, recording, recorder, starts>>
        /\ thread \in [Stream -> {"absent", "check", "waiting", "deliver"}]
        /\ taken \in [Stream -> Seq(Samples)]
    BY <1>0, <1>2 DEF TakeThreads, TakeThread, CheckRunning, WaitTimesOut, Wake, Deliver, Drained,
       ownerVars, readerVars, historyVars, SubscriberTypeOK
  <2>2. \A t \in Stream : thread'[t] = thread[t] \/ thread[t] # "absent"
    BY <2>1, <1>2 DEF TakeThreads, TakeThread, CheckRunning, WaitTimesOut, Wake, Deliver, Drained
  <2>3. \A t \in Stream : thread[t] # "absent" /\ stopper[t] = "idle" => thread'[t] # "absent"
    BY <2>1, <1>0, <1>2 DEF TakeThreads, TakeThread, CheckRunning, WaitTimesOut, Wake, Deliver,
       Drained, ServiceInv
  <2>4. \A t \in Stream : taken'[t] # <<>> => thread'[t] = "deliver" \/ stopper[t] = "sweeping"
    BY <2>1, <1>0, <1>2 DEF TakeThreads, TakeThread, CheckRunning, WaitTimesOut, Wake, TakeSamples,
       Deliver, Drained, ServiceInv
  <2>5. ServiceInv'
    BY <1>0, <2>1, <2>2, <2>3, <2>4 DEF ServiceInv, Serving
  <2>6. OwnerInv'
    BY <1>0, <2>1, <2>2, <2>3, StreamAssumption DEF OwnerInv, OnOrOff, StreamAssumption,
       SubscriberTypeOK
  <2> QED
    BY <2>5, <2>6
<1> USE StreamAssumption DEF StreamAssumption, Proceed, TypeOK, SubscriberTypeOK, ServiceInv, Serving,
        OwnerInv, OnOrOff
<1>3. CASE Start
  BY <1>0, <1>3 DEF Start, subscriberVars, wireVars, readerVars, historyVars
<1>4. CASE Stop
  BY <1>0, <1>4 DEF Stop, subscriberVars, wireVars, readerVars, historyVars
<1>5. CASE OpenRecorder
  BY <1>0, <1>5 DEF OpenRecorder, subscriberVars, wireVars, readerVars, historyVars
<1>6. CASE OpenRecorderFails
  BY <1>0, <1>6 DEF OpenRecorderFails, subscriberVars, wireVars, readerVars, historyVars
<1>7. CASE Subscribe
  BY <1>0, <1>7 DEF Subscribe, StartSubscriber, NewReader, MarksTypeOK
<1>8. CASE SubscribeFails
  <2>1. thread[at] = "absent" /\ stopper[at] = "idle" /\ at \in Stream
    BY <1>0, <1>8 DEF SubscribeFails
  <2>2. /\ UNCHANGED <<thread, stopper, taken, running, recording, recorder>>
        /\ op' = "grace" /\ at' = "color"
    BY <1>8 DEF SubscribeFails, StartSubscriberFails
  <2>3. /\ \A s \in Stream \ {at} : reader'[s] = reader[s] /\ abandoned'[s] = abandoned[s]
        /\ reader'[at] = "open" <=> abandoned'[at]
    <3>1. CASE NewReader(at) /\ abandoned' = [abandoned EXCEPT ![at] = TRUE]
      BY <1>0, <2>1, <3>1 DEF NewReader, MarksTypeOK
    <3>2. CASE UNCHANGED <<readerVars, next, abandoned>>
      BY <1>0, <2>1, <3>2 DEF readerVars
    <3> QED
      BY <1>8, <3>1, <3>2 DEF SubscribeFails, StartSubscriberFails
  <2> QED
    BY <1>0, <2>1, <2>2, <2>3
<1>9. CASE GraceOver
  BY <1>0, <1>9 DEF GraceOver, subscriberVars, wireVars, readerVars, historyVars
<1>10. CASE StopSubscriber
  BY <1>0, <1>10 DEF StopSubscriber, BeginStop, wireVars, readerVars, historyVars
<1>11. CASE SkipSubscriber
  BY <1>0, <1>11 DEF SkipSubscriber, subscriberVars, wireVars, readerVars, historyVars
<1>12. CASE Join
  BY <1>0, <1>12 DEF Join, JoinAndSweep, TakeSamples, wireVars, readerVars, historyVars, ownerVars
<1>13. CASE SubscriberStopped
  BY <1>0, <1>13 DEF SubscriberStopped, CloseReader, historyVars, MarksTypeOK
<1>14. CASE CloseRecorder
  BY <1>0, <1>14 DEF CloseRecorder, subscriberVars, wireVars, readerVars, historyVars
<1>15. CASE UNCHANGED vars
  BY <1>0, <1>15 DEF vars, subscriberVars, wireVars, readerVars, historyVars, ownerVars
<1> QED
  BY <1>1, <1>2, <1>3, <1>4, <1>5, <1>6, <1>7, <1>8, <1>9, <1>10,
     <1>11, <1>12, <1>13, <1>14, <1>15 DEF Next, Wire, OwnerStep

LEMMA RecordStep == RecordInv /\ [Next]_vars => RecordInv'
  BY TypesKept, ServiceKept DEF RecordInv

\* The types hold, a cache never holds more than its limit, and a reader is open
\* whenever somebody may look into it.
THEOREM RealsenseTypes == Spec => []TypeOK
<1>1. RecordInv => TypeOK
  BY DEF RecordInv
<1> QED
  BY <1>1, RecordInit, RecordStep, PTL DEF Spec

\* However the two take-threads, the camera and the owner interleave, and
\* whatever part of a start() fails, a frame taken from a reader is pushed into
\* a recorder that is open.
THEOREM FramesReach == Spec => []FramesReachOpenRecorder
<1>1. RecordInv => FramesReachOpenRecorder
  BY DEF RecordInv, ServiceInv, Serving, FramesReachOpenRecorder
<1> QED
  BY <1>1, RecordInit, RecordStep, PTL DEF Spec

\* Between its calls the recorder is on, with both streams served into open
\* recorders, or off, with no thread, no open recorder, and no open reader but
\* one whose own start() threw when it had made it.
THEOREM AllOrNothing == Spec => []StartedOrClean
<1>1. ASSUME RecordInv PROVE StartedOrClean
  <2>1. op = "idle" => \A s \in Stream : stopper[s] = "idle"
    BY <1>1 DEF RecordInv, OwnerInv
  <2> QED
    BY <1>1, <2>1 DEF RecordInv, OwnerInv, ServiceInv, Serving, OnOrOff, StartedOrClean
<1> QED
  BY <1>1, RecordInit, RecordStep, PTL DEF Spec
-----------------------------------------------------------------------------
(* The line of samples *)

\* Delivering the head of what is held leaves the line as it is.
LEMMA DeliverKeeps ==
    ASSUME NEW S, NEW d \in Seq(S), NEW t \in Seq(S), t # <<>>
    PROVE  Append(d, Head(t)) \o Tail(t) = d \o t
<1> DEFINE a == Append(d, Head(t))
           b == Tail(t)
<1>1. /\ a \in Seq(S) /\ Len(a) = Len(d) + 1 /\ a[Len(d) + 1] = Head(t)
      /\ \A i \in 1..Len(d) : a[i] = d[i]
  BY HeadTailProperties, AppendProperties
<1>2. /\ b \in Seq(S) /\ Len(b) = Len(t) - 1 /\ \A i \in 1..Len(b) : b[i] = t[i + 1]
      /\ Head(t) = t[1] /\ Len(t) \in Nat /\ Len(t) >= 1 /\ Len(d) \in Nat
  BY HeadTailProperties, LenProperties, EmptySeq
<1> HIDE DEF a, b
<1>3. /\ a \o b \in Seq(S) /\ Len(a \o b) = Len(a) + Len(b)
      /\ \A i \in 1..Len(a) + Len(b) : (a \o b)[i] = IF i <= Len(a) THEN a[i] ELSE b[i - Len(a)]
  BY <1>1, <1>2, ConcatProperties
<1>4. /\ d \o t \in Seq(S) /\ Len(d \o t) = Len(d) + Len(t)
      /\ \A i \in 1..Len(d) + Len(t) : (d \o t)[i] = IF i <= Len(d) THEN d[i] ELSE t[i - Len(d)]
  BY ConcatProperties
<1>5. ASSUME NEW i \in 1..Len(a \o b) PROVE (a \o b)[i] = (d \o t)[i]
  <2>0. i \in 1..Len(a) + Len(b) /\ i \in 1..Len(d) + Len(t)
    BY <1>1, <1>2, <1>3
  <2>1. CASE i <= Len(d)
    BY <1>1, <1>2, <1>3, <1>4, <2>0, <2>1
  <2>2. CASE i = Len(d) + 1
    <3>1. (a \o b)[i] = a[i] /\ (d \o t)[i] = t[i - Len(d)] /\ i - Len(d) = 1
      BY <1>1, <1>2, <1>3, <1>4, <2>0, <2>2
    <3> QED
      BY <1>1, <1>2, <2>2, <3>1
  <2>3. CASE i > Len(d) + 1
    <3>1. (a \o b)[i] = b[i - Len(a)] /\ (d \o t)[i] = t[i - Len(d)]
      BY <1>1, <1>2, <1>3, <1>4, <2>0, <2>3
    <3>2. i - Len(a) \in 1..Len(b) /\ (i - Len(a)) + 1 = i - Len(d)
      BY <1>1, <1>2, <2>0, <2>3
    <3> QED
      BY <1>2, <3>1, <3>2
  <2> QED
    BY <1>1, <1>2, <2>0, <2>1, <2>2, <2>3
<1>6. Len(a \o b) = Len(d \o t)
  BY <1>1, <1>2, <1>3, <1>4
<1>7. a \o b = d \o t
  BY <1>3, <1>4, <1>5, <1>6, SeqEqual
<1> QED
  BY <1>7 DEF a, b

\* A sample that lands goes to the end of the line.
LEMMA LandAtEnd ==
    ASSUME NEW S, NEW m \in Seq(S), NEW k \in Seq(S), NEW x \in S
    PROVE  m \o Append(k, x) = Append(m \o k, x)
<1> DEFINE e == <<x>>
<1>1. e \in Seq(S)
  OBVIOUS
<1>2. Append(k, x) = k \o e /\ m \o k \in Seq(S)
  BY AppendIsConcat, ConcatProperties
<1>3. Append(m \o k, x) = (m \o k) \o e
  BY <1>2, AppendIsConcat
<1> HIDE DEF e
<1> QED
  BY <1>1, <1>2, <1>3, ConcatAssociative

LEMMA Landed ==
    ASSUME NEW c \in Seq(Samples), NEW n \in Samples, Rising(c, n)
    PROVE  Rising(Append(c, n), n + 1) /\ (Dense(c, n) => Dense(Append(c, n), n + 1))
<1> DEFINE e == Append(c, n)
<1>1. /\ e \in Seq(Samples) /\ Len(e) = Len(c) + 1 /\ e[Len(c) + 1] = n
      /\ \A i \in 1..Len(c) : e[i] = c[i]
  BY AppendProperties
<1>2. Len(c) \in Nat /\ n \in Nat /\ \A i \in 1..Len(c) : c[i] \in Nat
  BY LenProperties, ElementOfSeq, CacheAssumption DEF Samples, CacheAssumption
<1> HIDE DEF e
<1>3. Rising(e, n + 1)
  <2>1. ASSUME NEW i \in 1..Len(e) PROVE e[i] < n + 1
    BY <1>1, <1>2 DEF Rising
  <2>2. ASSUME NEW i \in 1..Len(e), NEW j \in i + 1..Len(e) PROVE e[i] < e[j]
    <3>1. i \in 1..Len(c) /\ i \in Nat
      BY <1>1, <1>2
    <3>2. CASE j <= Len(c)
      <4>1. j \in i + 1..Len(c) /\ j \in 1..Len(c)
        BY <1>2, <3>1, <3>2
      <4> QED
        BY <1>1, <3>1, <4>1 DEF Rising
    <3>3. CASE j = Len(c) + 1
      BY <1>1, <3>1, <3>3 DEF Rising
    <3> QED
      BY <1>1, <1>2, <3>1, <3>2, <3>3
  <2> QED
    BY <2>1, <2>2 DEF Rising
<1>4. ASSUME Dense(c, n) PROVE Dense(e, n + 1)
  <2>1. ASSUME NEW i \in 1..Len(e) PROVE e[i] + Len(e) + 1 = (n + 1) + i
    <3>1. CASE i \in 1..Len(c)
      <4>1. c[i] + Len(c) + 1 = n + i
        BY <1>4, <3>1 DEF Dense
      <4> QED
        BY <1>1, <1>2, <3>1, <4>1
    <3>2. CASE i = Len(c) + 1
      BY <1>1, <1>2, <3>2
    <3> QED
      BY <1>1, <1>2, <3>1, <3>2
  <2> QED
    BY <2>1 DEF Dense
<1> QED
  BY <1>3, <1>4 DEF e

\* A best-effort reader may miss a sample or throw its oldest away.
LEMMA Missed ==
    ASSUME NEW c \in Seq(Samples), NEW n \in Nat, Rising(c, n)
    PROVE  Rising(c, n + 1)
<1>1. Len(c) \in Nat /\ \A i \in 1..Len(c) : c[i] \in Nat
  BY LenProperties, ElementOfSeq, CacheAssumption DEF Samples, CacheAssumption
<1> QED
  BY <1>1 DEF Rising

LEMMA OldestGone ==
    ASSUME NEW m \in Seq(Samples), NEW k \in Seq(Samples), k # <<>>, NEW n, Rising(m \o k, n)
    PROVE  Rising(m \o Tail(k), n)
<1> DEFINE c == m \o k
           b == Tail(k)
           e == m \o b
<1>1. /\ b \in Seq(Samples) /\ Len(b) = Len(k) - 1 /\ Len(k) \in Nat /\ Len(k) >= 1
      /\ \A i \in 1..Len(b) : b[i] = k[i + 1]
      /\ Len(m) \in Nat
  BY HeadTailProperties, EmptySeq, LenProperties
<1> HIDE DEF b
<1>2. /\ Len(c) = Len(m) + Len(k)
      /\ \A i \in 1..Len(m) + Len(k) : c[i] = IF i <= Len(m) THEN m[i] ELSE k[i - Len(m)]
  BY ConcatProperties
<1>3. /\ Len(e) = Len(m) + Len(b)
      /\ \A i \in 1..Len(m) + Len(b) : e[i] = IF i <= Len(m) THEN m[i] ELSE b[i - Len(m)]
  BY <1>1, ConcatProperties
<1> HIDE DEF c, e
<1>4. ASSUME NEW i \in 1..Len(e)
      PROVE  /\ i <= Len(m) => i \in 1..Len(c) /\ e[i] = c[i]
             /\ i > Len(m) => i + 1 \in 1..Len(c) /\ e[i] = c[i + 1]
  <2>1. CASE i <= Len(m)
    BY <1>1, <1>2, <1>3, <2>1
  <2>2. CASE i > Len(m)
    <3>1. i + 1 \in 1..Len(m) + Len(k) /\ ~(i + 1 <= Len(m)) /\ i - Len(m) \in 1..Len(b)
          /\ (i - Len(m)) + 1 = (i + 1) - Len(m)
      BY <1>1, <1>3, <2>2
    <3>2. c[i + 1] = k[(i + 1) - Len(m)]
      BY <1>2, <3>1
    <3>3. e[i] = b[i - Len(m)]
      BY <1>1, <1>3, <2>2
    <3>4. b[i - Len(m)] = k[(i + 1) - Len(m)]
      BY <1>1, <3>1
    <3>5. i + 1 \in 1..Len(c)
      BY <1>2, <3>1
    <3> QED
      BY <2>2, <3>2, <3>3, <3>4, <3>5
  <2> QED
    BY <1>1, <1>3, <2>1, <2>2
<1>5. ASSUME NEW i \in 1..Len(e) PROVE e[i] < n
  <2>1. CASE i <= Len(m)
    BY <1>4, <2>1 DEF Rising, c
  <2>2. CASE i > Len(m)
    BY <1>4, <2>2 DEF Rising, c
  <2> QED
    BY <1>1, <1>3, <2>1, <2>2
<1>6. ASSUME NEW i \in 1..Len(e), NEW j \in i + 1..Len(e) PROVE e[i] < e[j]
  <2>1. j \in 1..Len(e) /\ i \in Nat /\ j \in Nat /\ i < j
    BY <1>1, <1>3
  <2> DEFINE u == IF i <= Len(m) THEN i ELSE i + 1
             v == IF j <= Len(m) THEN j ELSE j + 1
  <2>2. u \in 1..Len(c) /\ e[i] = c[u] /\ v \in 1..Len(c) /\ e[j] = c[v] /\ u < v
    BY <1>1, <1>4, <2>1
  <2>3. v \in u + 1..Len(c)
    BY <1>1, <1>2, <2>1, <2>2
  <2> HIDE DEF u, v
  <2> QED
    BY <2>2, <2>3 DEF Rising, c
<1> QED
  BY <1>5, <1>6 DEF Rising, e, b

\* What has been delivered is the first part of the line.
LEMMA FirstPart ==
    ASSUME NEW d \in Seq(Samples), NEW t \in Seq(Samples), NEW n \in Nat, Rising(d \o t, n)
    PROVE  \A i \in 1..Len(d) - 1 : /\ d[i] < d[i + 1]
                                    /\ Dense(d \o t, n) => d[i + 1] = d[i] + 1
<1> DEFINE c == d \o t
<1>1. /\ Len(d) \in Nat /\ Len(t) \in Nat /\ Len(c) = Len(d) + Len(t)
      /\ \A i \in 1..Len(d) : c[i] = d[i] /\ d[i] \in Nat
  BY LenProperties, ConcatProperties, ElementOfSeq, CacheAssumption DEF Samples, CacheAssumption
<1> HIDE DEF c
<1> SUFFICES ASSUME NEW i \in 1..Len(d) - 1
             PROVE  d[i] < d[i + 1] /\ (Dense(c, n) => d[i + 1] = d[i] + 1)
  BY DEF c
<1>2. /\ i \in 1..Len(d) /\ i + 1 \in 1..Len(d) /\ i \in 1..Len(c) /\ i + 1 \in 1..Len(c)
      /\ i + 1 \in i + 1..Len(c)
  BY <1>1
<1>3. d[i] < d[i + 1]
  BY <1>1, <1>2 DEF Rising, c
<1>4. ASSUME Dense(c, n) PROVE d[i + 1] = d[i] + 1
  <2>1. c[i] + Len(c) + 1 = n + i /\ c[i + 1] + Len(c) + 1 = n + (i + 1)
    BY <1>2, <1>4 DEF Dense
  <2> QED
    BY <1>1, <1>2, <2>1
<1> QED
  BY <1>3, <1>4

\* A step that leaves a stream's subscriber alone leaves its line alone.
LEMMA OthersLine ==
    ASSUME NEW s \in Stream, LineOK(s), reliable' = reliable, thread'[s] = thread[s],
           stopper'[s] = stopper[s], delivered'[s] = delivered[s], taken'[s] = taken[s],
           atStart'[s] = atStart[s], atStop'[s] = atStop[s],
           \/ next'[s] = next[s] /\ cache'[s] = cache[s]
           \/ ~Serving(s)
    PROVE  LineOK(s)'
<1>1. Held(s)' = Held(s) /\ Serving(s)' = Serving(s) /\ Complete(s)' = Complete(s)
  BY DEF Held, Serving, Complete
<1>2. CASE next'[s] = next[s] /\ cache'[s] = cache[s]
  BY <1>1, <1>2 DEF LineOK, Line
<1>3. CASE ~Serving(s)
  BY <1>1, <1>3 DEF LineOK, Serving
<1> QED
  BY <1>2, <1>3

\* The types of one stream's line
LEMMA LineTypes ==
    ASSUME RecordInv, NEW s \in Stream
    PROVE  /\ delivered[s] \in Seq(Samples) /\ taken[s] \in Seq(Samples) /\ cache[s] \in Seq(Samples)
           /\ Held(s) \in Seq(Samples) /\ Line(s) \in Seq(Samples)
           /\ sent[s] \in Nat /\ next[s] \in Nat \ {0}
           /\ atStart[s] \in Nat /\ atStop[s] \in Nat
           /\ (next[s] <= sent[s] => next[s] \in Samples)
           /\ (~Serving(s) => taken[s] = <<>>)
<1>1. /\ delivered[s] \in Seq(Samples) /\ taken[s] \in Seq(Samples) /\ cache[s] \in Seq(Samples)
      /\ sent[s] \in 0..MaxSamples /\ next[s] \in 1..MaxSamples + 1 /\ atStop[s] \in 0..MaxSamples
      /\ atStart[s] \in 0..MaxSamples /\ MaxSamples \in Nat
  BY CacheAssumption DEF RecordInv, TypeOK, SubscriberTypeOK, MarksTypeOK, CacheAssumption
<1>2. Held(s) \in Seq(Samples) /\ Line(s) \in Seq(Samples)
  BY <1>1, ConcatProperties DEF Held, Line
<1>3. ~Serving(s) => taken[s] = <<>>
  BY DEF RecordInv, ServiceInv, Serving
<1> QED
  BY <1>1, <1>2, <1>3 DEF Samples

LEMMA WireLine ==
    ASSUME RecordInv, NEW r \in Stream, SubscriberWire(r), NEW s \in Stream, LineOK(s)
    PROVE  LineOK(s)'
<1>1. UNCHANGED <<reliable, reader, running, thread, stopper, taken, delivered, atStart, atStop>>
  BY DEF SubscriberWire, Publish, Land, LoseSample, Flood, readerVars, historyVars
<1>2. next \in [Stream -> 1..MaxSamples + 1] /\ cache \in [Stream -> Seq(Samples)]
  BY DEF RecordInv, TypeOK, SubscriberTypeOK
<1>3. Serving(s) => reader[s] = "open"
  BY DEF RecordInv, TypeOK, SubscriberTypeOK, Serving
<1>4. CASE s # r
  <2>1. next'[s] = next[s] /\ cache'[s] = cache[s]
    BY <1>2, <1>4 DEF SubscriberWire, Publish, Land, LoseSample, Flood, wireVars, readerVars
  <2> QED
    BY <1>1, <2>1, OthersLine
<1>5. CASE Publish(r) /\ s = r
  <2>1. cache'[s] = cache[s] /\ (Serving(s) => next'[s] = next[s])
    BY <1>2, <1>3, <1>5 DEF Publish, readerVars
  <2> QED
    BY <1>1, <2>1, OthersLine
<1>6. CASE Flood(r)
  BY <1>1, <1>6, OthersLine DEF Flood, wireVars
<1>7. CASE ~Serving(s)
  BY <1>1, <1>7, OthersLine
<1>8. ASSUME Serving(s), s = r, Land(s) \/ LoseSample(s) PROVE LineOK(s)'
  <2>1. next'[s] = next[s] + 1 /\ next[s] \in Samples /\ next[s] \in Nat
    BY <1>2, <1>8, LineTypes DEF Land, LoseSample
  <2>2. Held(s)' = Held(s) /\ Serving(s)' = Serving(s) /\ Complete(s)' = Complete(s)
    BY <1>1 DEF Held, Serving, Complete
  <2>3. /\ Line(s) \in Seq(Samples) /\ Held(s) \in Seq(Samples) /\ cache[s] \in Seq(Samples)
        /\ Rising(Line(s), next[s])
        /\ reliable => Dense(Line(s), next[s]) /\ Len(Line(s)) + atStart[s] + 1 = next[s]
        /\ atStart[s] \in Nat /\ Len(Line(s)) \in Nat
    BY <1>8, LineTypes, LenProperties DEF LineOK
  <2>6. /\ Held(s) \in Seq(Samples) /\ cache[s] \in Seq(Samples) /\ Line(s) \in Seq(Samples)
        /\ next[s] \in Samples
    BY <2>1, <2>3
  <2>4. stopper'[s] = "joining" => atStop'[s] < next'[s]
    BY <1>1, <2>1, LineTypes DEF LineOK
  <2>5. /\ Rising(Line(s)', next'[s])
        /\ reliable => Dense(Line(s)', next'[s]) /\ Len(Line(s)') + atStart[s] + 1 = next'[s]
    <3>1. CASE LoseSample(s)
      <4>1. Line(s)' = Line(s) /\ ~reliable
        BY <2>2, <3>1 DEF LoseSample, Line, readerVars
      <4> QED
        BY <2>1, <2>3, <4>1, Missed
    <3>2. CASE Land(s) /\ Len(cache[s]) # CacheLimit
      <4>1. cache'[s] = Append(cache[s], next[s])
        BY <1>2, <3>2 DEF Land
      <4>2. Line(s)' = Append(Line(s), next[s])
        BY <2>2, <2>6, <4>1, LandAtEnd DEF Line
      <4>3. Len(Line(s)') = Len(Line(s)) + 1
        BY <2>6, <4>2, AppendProperties
      <4>4. Rising(Line(s)', next[s] + 1) /\ (Dense(Line(s), next[s]) => Dense(Line(s)', next[s] + 1))
        BY <2>3, <2>6, <4>2, Landed
      <4>5. ASSUME Len(Line(s)) + atStart[s] + 1 = next[s]
            PROVE  Len(Line(s)') + atStart[s] + 1 = next'[s]
        <5> DEFINE l == Len(Line(s))
                   m == Len(Line(s)')
        <5>1. /\ l \in Nat /\ m = l + 1 /\ l + atStart[s] + 1 = next[s] /\ next'[s] = next[s] + 1
              /\ atStart[s] \in Nat /\ next[s] \in Nat
          BY <2>1, <2>3, <4>3, <4>5
        <5> HIDE DEF l, m
        <5>2. m + atStart[s] + 1 = next'[s]
          BY <5>1
        <5> QED
          BY <5>2 DEF m
      <4> QED
        BY <2>1, <2>3, <4>4, <4>5
    <3>3. CASE Land(s) /\ Len(cache[s]) = CacheLimit
      <4>1. cache'[s] = Append(Tail(cache[s]), next[s]) /\ ~reliable
        BY <1>2, <3>3, CacheAssumption DEF Land, CacheAssumption
      <4>2. cache[s] # <<>>
        BY <3>3, CacheAssumption, EmptySeq DEF CacheAssumption
      <4>3. Tail(cache[s]) \in Seq(Samples) /\ Held(s) \o Tail(cache[s]) \in Seq(Samples)
        BY <2>3, <4>2, HeadTailProperties, ConcatProperties
      <4>4. Rising(Held(s) \o Tail(cache[s]), next[s])
        BY <2>3, <4>2, OldestGone DEF Line
      <4>5. Line(s)' = Append(Held(s) \o Tail(cache[s]), next[s])
        BY <2>1, <2>2, <2>3, <4>1, <4>3, LandAtEnd DEF Line
      <4> QED
        BY <2>1, <4>1, <4>3, <4>4, <4>5, Landed
    <3> QED
      BY <1>8, <3>1, <3>2, <3>3
  <2> QED
    BY <1>1, <2>2, <2>4, <2>5 DEF LineOK
<1> QED
  BY <1>4, <1>5, <1>6, <1>7, <1>8 DEF SubscriberWire

LEMMA ThreadLine ==
    ASSUME RecordInv, NEW r \in Stream, TakeThread(r), NEW s \in Stream, LineOK(s)
    PROVE  LineOK(s)'
<1>1. /\ UNCHANGED <<reliable, next, stopper, atStart, atStop>>
      /\ thread \in [Stream -> {"absent", "check", "waiting", "deliver"}]
      /\ taken \in [Stream -> Seq(Samples)] /\ cache \in [Stream -> Seq(Samples)]
      /\ delivered \in [Stream -> Seq(Samples)]
  BY DEF TakeThread, CheckRunning, WaitTimesOut, Wake, Deliver, Drained, wireVars, readerVars,
     historyVars, RecordInv, TypeOK,
     SubscriberTypeOK
<1>2. CASE s # r
  <2>1. /\ thread'[s] = thread[s] /\ taken'[s] = taken[s] /\ delivered'[s] = delivered[s]
        /\ cache'[s] = cache[s]
    BY <1>1, <1>2 DEF TakeThread, CheckRunning, WaitTimesOut, Wake, TakeSamples, Deliver, Drained,
       readerVars, historyVars
  <2> QED
    BY <1>1, <2>1, OthersLine
<1>3. /\ delivered[s] \in Seq(Samples) /\ taken[s] \in Seq(Samples) /\ cache[s] \in Seq(Samples)
  BY <1>1
<1>4. CASE CheckRunning(s) \/ WaitTimesOut(s) \/ Drained(s)
  <2>1. /\ UNCHANGED <<delivered, taken, cache>> /\ thread[s] # "absent"
        /\ (stopper[s] = "idle" => thread'[s] # "absent")
        /\ stopper[s] # "sweeping" /\ stopper[s] \in {"idle", "joining", "sweeping"}
    BY <1>1, <1>4 DEF CheckRunning, WaitTimesOut, Drained, RecordInv, ServiceInv, TypeOK,
       SubscriberTypeOK, readerVars, historyVars
  <2>2. Held(s)' = Held(s) /\ Line(s)' = Line(s) /\ Serving(s)
    BY <2>1 DEF Held, Line, Serving
  <2> QED
    BY <1>1, <2>1, <2>2 DEF LineOK
<1>5. CASE Wake(s)
  <2>1. /\ thread[s] = "waiting" /\ thread'[s] = "deliver" /\ taken[s] = <<>>
        /\ taken'[s] = cache[s] /\ cache'[s] = <<>> /\ delivered'[s] = delivered[s]
    BY <1>1, <1>5 DEF Wake, TakeSamples, RecordInv, ServiceInv, historyVars
  <2>2. Line(s)' = Line(s)
    <3>1. Held(s) = delivered[s] /\ Held(s)' = delivered[s] \o cache[s]
      BY <1>3, <2>1, ConcatEmptySeq DEF Held
    <3>2. delivered[s] \o cache[s] \in Seq(Samples)
      BY <1>3, ConcatProperties
    <3>3. Line(s) = delivered[s] \o cache[s] /\ Line(s)' = (delivered[s] \o cache[s]) \o <<>>
      BY <2>1, <3>1 DEF Line
    <3> QED
      BY <3>2, <3>3, ConcatEmptySeq
  <2> QED
    BY <1>1, <2>1, <2>2 DEF LineOK, Serving
<1>6. CASE Deliver(s)
  <2>1. /\ taken[s] # <<>> /\ UNCHANGED <<thread, cache>>
        /\ delivered'[s] = Append(delivered[s], Head(taken[s])) /\ taken'[s] = Tail(taken[s])
    BY <1>1, <1>6 DEF Deliver, readerVars
  <2>2. Held(s)' = Held(s) /\ Complete(s)' = Complete(s)
    BY <1>1, <1>3, <2>1, DeliverKeeps DEF Held, Complete
  <2>3. Line(s)' = Line(s) /\ Serving(s)' = Serving(s)
    BY <1>1, <2>1, <2>2 DEF Line, Serving
  <2> QED
    BY <1>1, <2>1, <2>2, <2>3 DEF LineOK
<1> QED
  BY <1>2, <1>4, <1>5, <1>6 DEF TakeThread

LEMMA OwnerLine ==
    ASSUME RecordInv, Start \/ Stop \/ OwnerStep, NEW s \in Stream, LineOK(s)
    PROVE  LineOK(s)'
<1>1. /\ next \in [Stream -> 1..MaxSamples + 1] /\ cache \in [Stream -> Seq(Samples)]
      /\ thread \in [Stream -> {"absent", "check", "waiting", "deliver"}]
      /\ stopper \in [Stream -> {"idle", "joining", "sweeping"}]
      /\ taken \in [Stream -> Seq(Samples)] /\ delivered \in [Stream -> Seq(Samples)]
      /\ atStart \in [Stream -> 0..MaxSamples] /\ sent \in [Stream -> 0..MaxSamples]
      /\ atStop \in [Stream -> 0..MaxSamples] /\ reader \in [Stream -> {"none", "open"}]
  BY DEF RecordInv, TypeOK, SubscriberTypeOK, MarksTypeOK
<1>2. at \in Stream /\ ServiceInv /\ OwnerInv
  BY DEF RecordInv, TypeOK
<1>3. CASE UNCHANGED subscriberVars
  BY <1>3, OthersLine DEF subscriberVars, wireVars, readerVars, historyVars
<1>4. CASE Start \/ Stop \/ OpenRecorder \/ OpenRecorderFails \/ GraceOver \/ SkipSubscriber
           \/ CloseRecorder
  BY <1>3, <1>4 DEF Start, Stop, OpenRecorder, OpenRecorderFails, GraceOver, SkipSubscriber,
     CloseRecorder
<1>5. CASE (Subscribe \/ SubscribeFails \/ StopSubscriber \/ Join \/ SubscriberStopped) /\ s # at
  <2>1. /\ reliable' = reliable /\ thread'[s] = thread[s] /\ stopper'[s] = stopper[s]
        /\ delivered'[s] = delivered[s] /\ taken'[s] = taken[s] /\ atStop'[s] = atStop[s]
        /\ atStart'[s] = atStart[s]
        /\ next'[s] = next[s] /\ cache'[s] = cache[s]
    BY <1>1, <1>2, <1>5 DEF Subscribe, StartSubscriber, SubscribeFails, StartSubscriberFails, NewReader,
       StopSubscriber, BeginStop, Join, JoinAndSweep, TakeSamples, SubscriberStopped, CloseReader,
       wireVars, readerVars, historyVars
  <2> QED
    BY <2>1, OthersLine
<1>6. CASE Subscribe /\ s = at
  <2>1. /\ thread[s] = "absent" /\ stopper[s] = "idle"
    BY <1>2, <1>6, StreamAssumption DEF Subscribe, OwnerInv, StreamAssumption
  <2>2. /\ thread'[s] = "check" /\ stopper'[s] = "idle" /\ reliable' = reliable
        /\ delivered'[s] = <<>> /\ cache'[s] = <<>> /\ taken'[s] = <<>>
        /\ atStart'[s] = sent[s] /\ next'[s] = sent[s] + 1
    BY <1>1, <1>2, <1>6, <2>1 DEF Subscribe, StartSubscriber, NewReader, ServiceInv
  <2>3. Line(s)' = <<>>
    <3>1. <<>> \in Seq(Samples)
      BY EmptySeq
    <3>2. <<>> \o <<>> = <<>>
      BY <3>1, ConcatEmptySeq
    <3> QED
      BY <2>2, <3>2 DEF Line, Held
  <2>4. Rising(<<>>, next'[s]) /\ Dense(<<>>, next'[s]) /\ Len(<<>>) + atStart'[s] + 1 = next'[s]
    <3>1. Len(<<>>) = 0 /\ sent[s] \in Nat
      BY LineTypes, EmptySeq
    <3>2. Len(<<>>) + atStart'[s] + 1 = next'[s]
      BY <2>2, <3>1
    <3>3. Rising(<<>>, next'[s]) /\ Dense(<<>>, next'[s])
      BY DEF Rising, Dense
    <3> QED
      BY <3>2, <3>3
  <2> QED
    BY <2>2, <2>3, <2>4 DEF LineOK
<1>7. CASE SubscribeFails /\ s = at
  <2>1. /\ ~Serving(s) /\ UNCHANGED <<reliable, thread, stopper, delivered, taken, atStart, atStop>>
    BY <1>2, <1>7, StreamAssumption DEF SubscribeFails, StartSubscriberFails, OwnerInv,
       StreamAssumption, Serving
  <2> QED
    BY <2>1, OthersLine
<1>8. CASE StopSubscriber /\ s = at
  <2>1. /\ UNCHANGED <<reliable, next, cache, thread, taken, delivered, atStart>>
        /\ thread[s] # "absent" /\ stopper'[s] = "joining" /\ atStop'[s] = next[s] - 1
        /\ next[s] \in Nat
    BY <1>1, <1>2, <1>8, LineTypes DEF StopSubscriber, BeginStop, wireVars, readerVars, historyVars
  <2>2. Line(s)' = Line(s) /\ Serving(s)
    BY <2>1 DEF Line, Held, Serving
  <2>3. atStop'[s] < next'[s]
    BY <2>1
  <2> QED
    BY <2>1, <2>2, <2>3 DEF LineOK
<1>9. CASE Join /\ s = at
  <2>1. /\ UNCHANGED <<reliable, next, delivered, atStart, atStop, thread>>
        /\ thread[s] = "absent" /\ stopper[s] = "joining" /\ stopper'[s] = "sweeping"
        /\ taken[s] = <<>> /\ taken'[s] = cache[s] /\ cache'[s] = <<>>
    BY <1>1, <1>2, <1>9 DEF Join, JoinAndSweep, TakeSamples, wireVars, readerVars, historyVars,
       ServiceInv
  <2>2. delivered[s] \in Seq(Samples) /\ cache[s] \in Seq(Samples) /\ Line(s) \in Seq(Samples)
        /\ atStart[s] \in Nat /\ atStop[s] \in Nat /\ next[s] \in Nat
    BY LineTypes
  <2>3. Held(s)' = Line(s) /\ Line(s)' = Line(s)
    <3>1. Held(s) = delivered[s] /\ Held(s)' = delivered[s] \o cache[s]
      BY <2>1, <2>2, ConcatEmptySeq DEF Held
    <3>2. Line(s) = delivered[s] \o cache[s] /\ Line(s)' = (delivered[s] \o cache[s]) \o <<>>
      BY <2>1, <3>1 DEF Line
    <3> QED
      BY <2>2, <3>1, <3>2, ConcatEmptySeq
  <2>4. /\ Rising(Line(s), next[s]) /\ atStop[s] < next[s]
        /\ reliable => Dense(Line(s), next[s]) /\ Len(Line(s)) + atStart[s] + 1 = next[s]
    BY <2>1 DEF LineOK, Serving
  <2>5. ASSUME reliable, NEW i \in 1..atStop[s] - atStart[s]
        PROVE  i <= Len(Line(s)) /\ Line(s)[i] = atStart[s] + i
    <3>1. Len(Line(s)) \in Nat /\ i \in 1..Len(Line(s))
      BY <2>2, <2>4, <2>5, LenProperties
    <3>2. Line(s)[i] \in Nat
      BY <2>2, <3>1, ElementOfSeq, CacheAssumption DEF Samples, CacheAssumption
    <3>3. Line(s)[i] + Len(Line(s)) + 1 = next[s] + i
      BY <2>4, <2>5, <3>1 DEF Dense
    <3>4. Len(Line(s)) + atStart[s] + 1 = next[s] /\ i \in Nat
      BY <2>4, <2>5, <3>1
    <3> DEFINE x == Line(s)[i]
               l == Len(Line(s))
    <3>5. /\ x \in Nat /\ l \in Nat /\ next[s] \in Nat /\ atStart[s] \in Nat /\ i \in Nat
          /\ x + l + 1 = next[s] + i /\ l + atStart[s] + 1 = next[s]
      BY <2>2, <3>1, <3>2, <3>3, <3>4
    <3> HIDE DEF x, l
    <3>6. x = atStart[s] + i
      BY <3>5
    <3> QED
      BY <3>1, <3>6 DEF x
  <2>6. reliable => Complete(s)'
    BY <2>1, <2>3, <2>5 DEF Complete
  <2> QED
    BY <2>1, <2>3, <2>4, <2>6 DEF LineOK
<1>10. CASE SubscriberStopped /\ s = at
  <2>1. /\ UNCHANGED <<reliable, thread, taken, delivered, atStart, atStop>>
        /\ thread[s] = "absent" /\ stopper[s] = "sweeping" /\ stopper'[s] = "idle"
    BY <1>1, <1>2, <1>10 DEF SubscriberStopped, CloseReader, ServiceInv, historyVars
  <2>2. Held(s)' = Held(s) /\ Complete(s)' = Complete(s)
    BY <2>1 DEF Held, Complete
  <2> QED
    BY <2>1, <2>2 DEF LineOK, Serving
<1> QED
  BY <1>4, <1>5, <1>6, <1>7, <1>8, <1>9, <1>10 DEF OwnerStep

LEMMA LineInit == Init => LineInv
<1> SUFFICES ASSUME Init, NEW s \in Stream PROVE LineOK(s)
  BY DEF LineInv
<1>3. ~Serving(s) /\ stopper[s] # "joining"
  BY DEF Init, SubscriberInit, Serving
<1>4. Complete(s)
  <2>1. atStop[s] = 0 /\ atStart[s] = 0
    BY DEF Init, SubscriberInit
  <2> QED
    BY <2>1 DEF Complete
<1> QED
  BY <1>3, <1>4 DEF LineOK

LEMMA LineStep == RecordInv /\ LineInv /\ [Next]_vars => LineInv'
<1> SUFFICES ASSUME RecordInv, LineInv, [Next]_vars, NEW s \in Stream PROVE LineOK(s)'
  BY DEF LineInv
<1>1. LineOK(s)
  BY DEF LineInv
<1>2. CASE UNCHANGED vars
  BY <1>1, <1>2, OthersLine DEF vars, subscriberVars, wireVars, readerVars, historyVars
<1> QED
  BY <1>1, <1>2, WireLine, ThreadLine, OwnerLine DEF Next, Wire, TakeThreads

LEMMA LineInvariance == Spec => [](RecordInv /\ LineInv)
  BY RecordInit, RecordStep, LineInit, LineStep, PTL DEF Spec

\* Every sample that landed between the start of a reliable reader and stop()
\* has been delivered, each in its place, when stop() has closed the reader: the
\* thread has ended before the last sweep takes what is left of the line.
THEOREM NothingLandedIsLost == Spec => []StopLosesNothingLanded
<1>1. ASSUME RecordInv, LineInv PROVE StopLosesNothingLanded
  <2> SUFFICES ASSUME NEW s \in Stream, reliable, stopper[s] = "idle", reader[s] = "none"
               PROVE  \A i \in 1..atStop[s] - atStart[s] :
                         i <= Len(delivered[s]) /\ delivered[s][i] = atStart[s] + i
    BY DEF StopLosesNothingLanded
  <2>1. thread[s] = "absent" /\ ~Serving(s)
    BY <1>1 DEF RecordInv, TypeOK, SubscriberTypeOK, Serving
  <2>2. Held(s) = delivered[s]
    BY <1>1, <2>1, LineTypes, ConcatEmptySeq DEF Held
  <2> QED
    BY <1>1, <2>1, <2>2 DEF LineInv, LineOK, Complete
<1> QED
  BY <1>1, LineInvariance, PTL

\* The delivered samples of a stream that is not being served are in order, too.
LEMMA OrderStep ==
    ASSUME RecordInv, LineInv, RecordInv', LineInv', DeliveredInOrder, [Next]_vars
    PROVE  DeliveredInOrder'
<1> SUFFICES ASSUME NEW s \in Stream
             PROVE  (\A i \in 1..Len(delivered[s]) - 1 :
                        /\ delivered[s][i] < delivered[s][i + 1]
                        /\ reliable => delivered[s][i + 1] = delivered[s][i] + 1)'
  BY DEF DeliveredInOrder
<1> DEFINE d == delivered'[s]
           u == taken'[s]
           k == cache'[s]
           t == u \o k
<1>1. CASE Serving(s)'
  <2>1. /\ d \in Seq(Samples) /\ u \in Seq(Samples) /\ k \in Seq(Samples)
        /\ next'[s] \in Nat
    <3>1. /\ delivered' \in [Stream -> Seq(Samples)] /\ taken' \in [Stream -> Seq(Samples)]
          /\ cache' \in [Stream -> Seq(Samples)] /\ next' \in [Stream -> 1..MaxSamples + 1]
      BY DEF RecordInv, TypeOK, SubscriberTypeOK
    <3>2. next'[s] \in 1..MaxSamples + 1
      BY <3>1
    <3> QED
      BY <3>1, <3>2, CacheAssumption DEF CacheAssumption
  <2>2. t \in Seq(Samples) /\ Line(s)' = d \o t
    <3>1. Line(s)' = (d \o u) \o k
      BY DEF Line, Held
    <3> HIDE DEF d, u, k
    <3>2. u \o k \in Seq(Samples) /\ (d \o u) \o k = d \o (u \o k)
      BY <2>1, ConcatProperties, ConcatAssociative
    <3> QED
      BY <3>1, <3>2
  <2>3. Rising(d \o t, next'[s]) /\ (reliable' => Dense(d \o t, next'[s]))
    BY <1>1, <2>2 DEF LineInv, LineOK
  <2> HIDE DEF d, t
  <2>4. \A i \in 1..Len(d) - 1 : d[i] < d[i + 1] /\ (Dense(d \o t, next'[s]) => d[i + 1] = d[i] + 1)
    BY <2>1, <2>2, <2>3, FirstPart DEF d
  <2> QED
    BY <2>3, <2>4 DEF d
<1>2. CASE ~Serving(s)'
  <2>1. delivered'[s] = delivered[s] /\ reliable' = reliable
    <3>0. /\ delivered \in [Stream -> Seq(Samples)]
          /\ stopper \in [Stream -> {"idle", "joining", "sweeping"}]
          /\ thread \in [Stream -> {"absent", "check", "waiting", "deliver"}] /\ at \in Stream
      BY DEF RecordInv, TypeOK, SubscriberTypeOK
    <3>1. ASSUME NEW r \in Stream, SubscriberWire(r) PROVE UNCHANGED <<delivered, reliable>>
      BY <3>1 DEF SubscriberWire, Publish, Land, LoseSample, Flood, historyVars
    <3>2. ASSUME NEW r \in Stream, TakeThread(r)
          PROVE  delivered'[s] = delivered[s] /\ reliable' = reliable
      BY <1>2, <3>0, <3>2 DEF TakeThread, CheckRunning, WaitTimesOut, Wake, Deliver, Drained, Serving,
         historyVars
    <3>3. CASE Start \/ Stop \/ OwnerStep
      <4>1. CASE Subscribe
        BY <1>2, <3>0, <4>1 DEF Subscribe, StartSubscriber, Serving
      <4>2. CASE Start \/ Stop \/ OpenRecorder \/ OpenRecorderFails \/ SubscribeFails \/ GraceOver
                 \/ StopSubscriber \/ SkipSubscriber \/ Join \/ SubscriberStopped \/ CloseRecorder
        BY <4>2 DEF Start, Stop, OpenRecorder, OpenRecorderFails, SubscribeFails, StartSubscriberFails,
           GraceOver, StopSubscriber, BeginStop, SkipSubscriber, Join, JoinAndSweep, SubscriberStopped,
           CloseReader, CloseRecorder, subscriberVars, historyVars
      <4> QED
        BY <3>3, <4>1, <4>2 DEF OwnerStep
    <3>4. CASE UNCHANGED vars
      BY <3>4 DEF vars, subscriberVars, historyVars
    <3> QED
      BY <3>1, <3>2, <3>3, <3>4 DEF Next, Wire, TakeThreads
  <2> QED
    BY <2>1 DEF DeliveredInOrder
<1> QED
  BY <1>1, <1>2

\* Whatever the interleaving of the camera, the take-thread and stop(), a reader
\* delivers in the order of publication and nothing twice, and a reliable one
\* skips nothing: also across the sweep of stop().
THEOREM InOrder == Spec => []DeliveredInOrder
<1>1. Init => DeliveredInOrder
  BY DEF Init, SubscriberInit, DeliveredInOrder
<1>2. RecordInv /\ LineInv /\ (RecordInv /\ LineInv)' /\ DeliveredInOrder /\ [Next]_vars
        => DeliveredInOrder'
  BY OrderStep
<1> QED
  BY <1>1, <1>2, LineInvariance, PTL DEF Spec
-----------------------------------------------------------------------------
(* What the collector takes a camera for                                   *)

\* A camera that no subscriber was started for, and a recorder that is
\* closed, has nothing to settle.
CameraInv ==
    /\ CountersOK
    /\ \A s \in Stream : Serving(s) => used
    /\ \A s \in Stream : ~used \/ recorder[s] = "closed" => Settled(s)
    /\ op = "open" => ~used
    /\ op = "subscribe" /\ at = "color" => ~used
    /\ op = "idle" => (used <=> recording)

\* RealsenseRecorder is untouched by the counters.
LEMMA CameraIsRecorder ==
    /\ CameraInit => Init
    /\ [CameraNext]_cameraVars => [Next]_vars
<1>1. CameraInit => Init
  BY DEF CameraInit
<1>2. ASSUME CameraNext PROVE Next \/ UNCHANGED vars
  <2>1. ASSUME NEW s \in Stream, Push(s) \/ Looks(s) PROVE Next
    BY <2>1 DEF Push, Looks, TakeThread, TakeThreads, Next
  <2>2. ASSUME NEW s \in Stream, Settle(s) PROVE UNCHANGED vars
    BY <2>2 DEF Settle
  <2>3. CASE OwnerMoves
    BY <2>3 DEF OwnerMoves, CloseJoined, OwnerStep, Next
  <2> QED
    BY <1>2, <2>1, <2>2, <2>3 DEF CameraNext, Next
<1> QED
  BY <1>1, <1>2 DEF cameraVars

\* What is shown of RealsenseRecorder holds of it with its recorders, too.
THEOREM CameraIsRealsense == CameraSpec => Spec
  BY CameraIsRecorder, PTL DEF CameraSpec, Spec

LEMMA CameraRecordInv == CameraSpec => []RecordInv
<1>1. RecordInv /\ [CameraNext]_cameraVars => RecordInv'
  BY CameraIsRecorder, RecordStep
<1> QED
  BY <1>1, RecordInit, CameraIsRecorder, PTL DEF CameraSpec

\* While the recorders are being closed, no frame comes.
LEMMA QuietClose == RecordInv /\ op = "close" => \A s \in Stream : ~Serving(s)
  BY DEF RecordInv, OwnerInv, Serving

LEMMA PushKeeps ==
    ASSUME RecordInv, CameraInv, NEW s \in Stream, Push(s)
    PROVE  CameraInv'
<1>1. Serving(s) /\ recorder[s] = "open"
  BY DEF Push, Deliver, Serving, RecordInv, ServiceInv
<1>2. /\ received' = [received EXCEPT ![s] = @ + 1]
      /\ UNCHANGED <<written, lost, used, thread, stopper, ownerVars>>
  BY DEF Push, Deliver
<1>3. CountersOK'
  BY <1>2 DEF CameraInv, CountersOK
<1> QED
  BY <1>1, <1>2, <1>3 DEF CameraInv, Serving, Settled, ownerVars

LEMMA SettleKeeps ==
    ASSUME CameraInv, NEW s \in Stream, Settle(s)
    PROVE  CameraInv'
<1>1. recorder[s] = "open" /\ written[s] + lost[s] < received[s] /\ used
  BY DEF Settle, Settled, CameraInv, CountersOK
<1>2. UNCHANGED <<received, used, thread, stopper, ownerVars>>
  BY DEF Settle, vars, subscriberVars
<1>3. \/ written' = [written EXCEPT ![s] = @ + 1] /\ lost' = lost
      \/ lost' = [lost EXCEPT ![s] = @ + 1] /\ written' = written
  BY DEF Settle
<1>4. CountersOK'
  BY <1>1, <1>2, <1>3 DEF CameraInv, CountersOK
<1>5. \A t \in Stream \ {s} : Settled(t)' <=> Settled(t)
  BY <1>2, <1>3 DEF Settled, CameraInv, CountersOK
<1> QED
  BY <1>1, <1>2, <1>4, <1>5 DEF CameraInv, Serving, ownerVars

LEMMA CameraInvStep == RecordInv /\ CameraInv /\ [CameraNext]_cameraVars => CameraInv'
<1> SUFFICES ASSUME RecordInv, CameraInv, [CameraNext]_cameraVars PROVE CameraInv'
  OBVIOUS
<1> USE StreamAssumption DEF StreamAssumption
<1>1. ASSUME NEW s \in Stream, Looks(s) PROVE CameraInv'
  <2>1. /\ UNCHANGED <<stopper, counterVars, used, ownerVars>>
        /\ \A t \in Stream : thread'[t] # "absent" => thread[t] # "absent"
    BY <1>1 DEF Looks, CheckRunning, WaitTimesOut, Wake, Drained, RecordInv, TypeOK, SubscriberTypeOK
  <2> QED
    BY <2>1 DEF CameraInv, CountersOK, Serving, Settled, counterVars, ownerVars
<1>2. CASE Subscribe /\ used' = TRUE /\ UNCHANGED counterVars
  <2>1. /\ op = "subscribe" /\ recorder' = recorder /\ \A s \in Stream : recorder[s] = "open"
        /\ at \in Stream /\ recording' = (at = "depth")
        /\ IF at = "color" THEN at' = "depth" /\ op' = op ELSE at' = "color" /\ op' = "idle"
    BY <1>2 DEF Subscribe, Proceed, RecordInv, OwnerInv, TypeOK
  <2> QED
    BY <1>2, <2>1 DEF CameraInv, CountersOK, Settled, counterVars
<1>3. CASE CloseJoined
  <2>1. /\ op = "close" /\ at \in Stream /\ Settled(at) /\ UNCHANGED <<thread, stopper, counterVars>>
        /\ recorder' = [recorder EXCEPT ![at] = "closed"] /\ recorder \in [Stream -> {"closed", "open"}]
        /\ IF at = "color" THEN at' = "depth" /\ op' = op ELSE at' = "color" /\ op' = "idle"
        /\ recording' = (recording /\ at = "color") /\ used' = (used /\ at = "color")
    BY <1>3 DEF CloseJoined, CloseRecorder, Proceed, subscriberVars, RecordInv, TypeOK
  <2>2. at = "depth" => Settled("color")
    BY <2>1 DEF RecordInv, OwnerInv, CameraInv
  <2>3. \A s \in Stream : ~Serving(s)'
    BY <2>1, QuietClose DEF Serving
  <2>4. CountersOK'
    BY <2>1 DEF CameraInv, CountersOK, counterVars
  <2> QED
    BY <2>1, <2>2, <2>3, <2>4 DEF CameraInv, Settled, counterVars
<1>4. CASE /\ \/ OpenRecorder \/ OpenRecorderFails \/ Start \/ Stop
           /\ UNCHANGED <<counterVars, used>>
  <2>1. UNCHANGED <<thread, stopper, counterVars, used>>
    BY <1>4 DEF OpenRecorder, OpenRecorderFails, Start, Stop, subscriberVars
  <2> QED
    BY <1>4, <2>1 DEF OpenRecorder, OpenRecorderFails, Start, Stop, Proceed, CameraInv, CountersOK,
       Serving, Settled, counterVars, RecordInv, OwnerInv, OnOrOff, TypeOK
<1>5. CASE /\ \/ SubscribeFails \/ GraceOver \/ StopSubscriber \/ SkipSubscriber
              \/ Join \/ SubscriberStopped
           /\ UNCHANGED <<counterVars, used>>
  <2>1. /\ op' \notin {"open", "subscribe", "idle"} /\ UNCHANGED <<recorder, recording, counterVars, used>>
        /\ \A s \in Stream : Serving(s)' => Serving(s)
    BY <1>5 DEF SubscribeFails, StartSubscriberFails, GraceOver, StopSubscriber, BeginStop,
       SkipSubscriber,
       Join, JoinAndSweep, SubscriberStopped, CloseReader, Proceed, Serving, ownerVars, subscriberVars,
       RecordInv, TypeOK, SubscriberTypeOK
  <2> QED
    BY <2>1 DEF CameraInv, CountersOK, Settled, counterVars
<1>6. CASE Wire /\ UNCHANGED <<counterVars, used>>
  <2>1. UNCHANGED <<thread, stopper, ownerVars, counterVars, used>>
    BY <1>6 DEF Wire, SubscriberWire, Publish, Land, LoseSample, Flood
  <2> QED
    BY <2>1 DEF CameraInv, CountersOK, Serving, Settled, counterVars, ownerVars
<1>7. CASE UNCHANGED cameraVars
  BY <1>7 DEF cameraVars, vars, subscriberVars, ownerVars, CameraInv, CountersOK, Serving, Settled,
     counterVars
<1> QED
  BY <1>1, <1>2, <1>3, <1>4, <1>5, <1>6, <1>7, PushKeeps, SettleKeeps DEF CameraNext, OwnerMoves

Busy == \E s \in Stream : Serving(s)

\* Every step of a camera is one of Assembly or a stutter.
LEMMA CameraStep ==
    RecordInv /\ CameraInv /\ [CameraNext]_cameraVars => [Unit!Next]_(Unit!vars)
<1> SUFFICES ASSUME RecordInv, CameraInv, [CameraNext]_cameraVars
             PROVE  Unit!Next \/ UNCHANGED Unit!vars
  OBVIOUS
<1> USE StreamAssumption DEF StreamAssumption, Unit!vars, Unit!counters
<1>1. CameraInv'
  BY CameraInvStep
<1>2. \A s \in Stream : /\ received[s] \in Nat /\ written[s] \in Nat /\ lost[s] \in Nat
                        /\ written[s] + lost[s] <= received[s]
  BY DEF CameraInv, CountersOK
<1>3. ASSUME NEW s \in Stream, Push(s) PROVE Unit!Next
  <2>1. used /\ used' /\ Busy /\ Busy' /\ UNCHANGED <<written, lost>>
    BY <1>1, <1>3 DEF Push, Deliver, Serving, CameraInv, Busy, RecordInv, ServiceInv
  <2>2. received'["color"] + received'["depth"] = received["color"] + received["depth"] + 1
    BY <1>2, <1>3 DEF Push, CameraInv, CountersOK
  <2>3. Unit!Receive
    BY <2>1, <2>2 DEF Unit!Receive, Busy
  <2> QED
    BY <2>3 DEF Unit!Next
<1>4. ASSUME NEW s \in Stream, Settle(s) PROVE Unit!Next
  <2>1. used /\ used' /\ (Busy' <=> Busy) /\ UNCHANGED received /\ written[s] + lost[s] < received[s]
    BY <1>2, <1>4 DEF Settle, Settled, CameraInv, Busy, Serving, vars, subscriberVars
  <2>2. \/ /\ written'["color"] + written'["depth"] = written["color"] + written["depth"] + 1
           /\ lost' = lost
        \/ /\ lost'["color"] + lost'["depth"] = lost["color"] + lost["depth"] + 1
           /\ written' = written
    BY <1>2, <1>4 DEF Settle, CameraInv, CountersOK
  <2>3. (written["color"] + written["depth"]) + (lost["color"] + lost["depth"])
           < received["color"] + received["depth"]
    BY <1>2, <2>1
  <2>4. Unit!Settle
    BY <2>1, <2>2, <2>3 DEF Unit!Settle, Busy
  <2> QED
    BY <2>4 DEF Unit!Next
<1>5. ASSUME NEW s \in Stream, Looks(s) PROVE UNCHANGED Unit!vars
  <2>1. UNCHANGED <<counterVars, used, stopper>>
    BY <1>5 DEF Looks, CheckRunning, WaitTimesOut, Wake, Drained
  <2>2. \A t \in Stream : Serving(t)' <=> Serving(t)
    BY <1>5 DEF Looks, CheckRunning, WaitTimesOut, Wake, Drained, Serving, RecordInv, ServiceInv,
       TypeOK, SubscriberTypeOK
  <2> QED
    BY <2>1, <2>2 DEF counterVars
<1>6. CASE Subscribe /\ used' = TRUE /\ UNCHANGED counterVars
  <2>1. at \in Stream /\ thread'[at] = "check" /\ op = "subscribe"
    BY <1>6 DEF Subscribe, StartSubscriber, RecordInv, TypeOK, SubscriberTypeOK
  <2>2. Busy'
    BY <2>1 DEF Busy, Serving
  <2>3. CASE at = "color"
    <3>1. Unit!TurnOn
      BY <1>6, <2>1, <2>2, <2>3 DEF Unit!TurnOn, Busy, CameraInv, counterVars
    <3> QED
      BY <3>1 DEF Unit!Next
  <2>4. CASE at = "depth"
    <3>1. Serving("color")
      BY <2>1, <2>4 DEF RecordInv, OwnerInv, Serving
    <3>2. Busy /\ used
      BY <3>1 DEF Busy, CameraInv
    <3> QED
      BY <1>6, <2>2, <3>2 DEF Busy, counterVars
  <2> QED
    BY <2>1, <2>3, <2>4
<1>7. CASE CloseJoined
  <2>1. ~Busy /\ ~Busy' /\ at \in Stream /\ used' = (used /\ at = "color") /\ UNCHANGED counterVars
    BY <1>7, QuietClose
    DEF CloseJoined, CloseRecorder, RecordInv, TypeOK, Busy, Serving, subscriberVars
  <2>2. at = "color" \/ ~used => UNCHANGED Unit!vars
    BY <2>1 DEF Busy, counterVars, CameraInv, CountersOK
  <2>3. ASSUME at = "depth", used PROVE Unit!Close
    <3>1. Settled("color") /\ Settled("depth")
      BY <1>7, <2>3 DEF CloseJoined, CloseRecorder, RecordInv, OwnerInv, CameraInv
    <3>2. Unit!Settled
      BY <1>2, <3>1 DEF Settled, Unit!Settled
    <3> QED
      BY <2>1, <2>3, <3>2 DEF Unit!Close, Busy, counterVars
  <2> QED
    BY <2>1, <2>2, <2>3 DEF Unit!Next, CameraInv, CountersOK
<1>8. CASE /\ \/ OpenRecorder \/ OpenRecorderFails \/ Start \/ Stop \/ Wire
              \/ SubscribeFails \/ GraceOver \/ SkipSubscriber
           /\ UNCHANGED <<counterVars, used>>
  <2>1. UNCHANGED <<thread, stopper>>
    BY <1>8 DEF OpenRecorder, OpenRecorderFails, Start, Stop, Wire, SubscriberWire, Publish, Land,
       LoseSample, Flood, SubscribeFails, StartSubscriberFails, GraceOver, SkipSubscriber, subscriberVars
  <2> QED
    BY <1>8, <2>1 DEF Serving, counterVars
<1>9. CASE (StopSubscriber \/ Join) /\ UNCHANGED <<counterVars, used>>
  <2>1. \A t \in Stream : Serving(t)' <=> Serving(t)
    BY <1>9 DEF StopSubscriber, BeginStop, Join, JoinAndSweep, Serving, RecordInv, TypeOK,
       SubscriberTypeOK
  <2> QED
    BY <1>9, <2>1 DEF counterVars
<1>10. CASE SubscriberStopped /\ UNCHANGED <<counterVars, used>>
  <2>1. Busy /\ used /\ used'
    BY <1>10 DEF SubscriberStopped, CloseReader, Busy, Serving, RecordInv, TypeOK, CameraInv
  <2>2. CASE Busy'
    BY <1>10, <2>1, <2>2 DEF Busy, counterVars
  <2>3. CASE ~Busy'
    <3>1. Unit!TurnOff
      BY <1>10, <2>1, <2>3 DEF Unit!TurnOff, Busy, counterVars
    <3> QED
      BY <3>1 DEF Unit!Next
  <2> QED
    BY <2>2, <2>3
<1>11. CASE UNCHANGED cameraVars
  BY <1>11 DEF cameraVars, vars, subscriberVars, counterVars, Serving
<1> QED
  BY <1>3, <1>4, <1>5, <1>6, <1>7, <1>8, <1>9, <1>10, <1>11 DEF CameraNext, OwnerMoves

LEMMA CameraStart == CameraInit => Unit!Init /\ CameraInv
<1> SUFFICES ASSUME CameraInit PROVE Unit!Init /\ CameraInv
  OBVIOUS
<1> USE StreamAssumption DEF StreamAssumption, CameraInit
<1>1. \A s \in Stream : ~Serving(s)
  BY DEF Init, SubscriberInit, Serving
<1>2. /\ received \in [Stream -> Nat] /\ written = received /\ lost = received
      /\ used = FALSE /\ \A s \in Stream : received[s] = 0
  OBVIOUS
<1>3. CountersOK
  <2>1. \A n \in Nat : n = 0 => n + n <= n
    OBVIOUS
  <2>2. \A s \in Stream : written[s] + lost[s] <= received[s]
    BY <1>2, <2>1
  <2> QED
    BY <1>2, <2>2 DEF CountersOK
<1>4. \A s \in Stream : Settled(s)
  BY <1>2 DEF Settled
<1>5. Unit!Init
  BY <1>2 DEF Unit!Init
<1> QED
  BY <1>1, <1>2, <1>3, <1>4, <1>5 DEF CameraInv, Init

LEMMA CameraInvariant == CameraSpec => [](RecordInv /\ CameraInv)
  BY CameraStart, CameraRecordInv, CameraInvStep, PTL DEF CameraSpec

\* The types, and that no recorder settles more than it received.
THEOREM CameraTypes == CameraSpec => []CameraTypeOK
<1>1. RecordInv /\ CameraInv => CameraTypeOK
  BY DEF RecordInv, CameraInv, CameraTypeOK
<1> QED
  BY <1>1, CameraInvariant, PTL

\* A camera, its two take-threads, two recorders and every failure of start()
\* included, does step by step what Assembly says: DataCollector may take it for
\* a stream like the others.
THEOREM CameraIsAssembly == CameraSpec => Unit!Safety
<1>1. RecordInv /\ CameraInv /\ [CameraNext]_cameraVars => [Unit!Next]_(Unit!vars)
  BY CameraStep
<1> QED
  BY <1>1, CameraStart, CameraInvariant, PTL DEF CameraSpec, Unit!Safety
=============================================================================
