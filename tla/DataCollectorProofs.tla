------------------------ MODULE DataCollectorProofs ------------------------
(***************************************************************************)
(* Proofs about the collector, for any configurations, any number of       *)
(* streams, records and runs, and any clock.                               *)
(*                                                                         *)
(* The invariant says where the streams are while the owner goes through   *)
(* them, what the summary and the last report have of their counters, and  *)
(* what the meta.yaml of every directory holds as long as the disk took    *)
(* what was written.                                                       *)
(***************************************************************************)
EXTENDS DataCollector, SequenceTheorems, TLAPS

\* The streams to record are each one stream, named once.
OrderInv ==
    /\ order \in Seq(Stream)
    /\ \A i, j \in DOMAIN order : order[i] = order[j] => i = j
    /\ SomethingEnabled(settings) <=> order # <<>>

\* Where the streams are when the owner is there
PhaseInv ==
    /\ \A s \in Stream : phase[s] # "none" => \E i \in DOMAIN order : order[i] = s
    /\ op = "start" => ~running /\ \A i \in at..Len(order) : phase[order[i]] = "none"
    /\ op \in {"report", "print", "stop"} => running
    /\ ~running /\ op # "start" => \A s \in Stream : phase[s] = "none"
    /\ running => \E s \in Stream : phase[s] # "none"
    /\ op # "stop" => \A s \in Stream : phase[s] \in {"none", "on"}
    /\ op = "stop" => \A i \in DOMAIN order :
          /\ i < at => phase[order[i]] \in {"none", "closed"}
          /\ i = at => phase[order[i]] # "closed"
          /\ i > at => phase[order[i]] \in {"none", "on"}
    /\ op = "print" => at <= Len(order)

\* The summary has the streams that are closed, and is true of them.
SummaryInv ==
    /\ DOMAIN summary = {s \in Stream : phase[s] = "closed"}
    /\ SummaryIsFinal

\* The last report has not more than there is.
ReportInv ==
    /\ running => \A s \in Stream \ Scalar :
          last[s].rx <= received[s] /\ last[s].wr <= written[s]
    /\ op = "print" =>
          seen <= received[Here] /\ (Here \notin Scalar => last[Here].rx <= seen)

Block == {"start", "summary", "result"}

\* What a meta.yaml may hold when nothing is recorded into its directory
Complete == {<<>>, <<"start", "summary">>, <<"start", "summary", "result">>}

MetaInv ==
    /\ meta \in [0..MaxClock -> Seq(Block)]
    /\ running \/ op = "start" \/ ~labelled => dir # NoDir
    /\ ~labelled => ~running /\ op = "idle"
    /\ ~metaLost =>
          /\ \A d \in 0..MaxClock : d # dir \/ ~running => meta[d] \in Complete
          /\ running => meta[dir] = <<"start">>
          /\ ~labelled => meta[dir] = <<"start", "summary">>
-----------------------------------------------------------------------------
(* The configuration *)

StreamName == {<<"camera", name>> : name \in STRING} \cup {<<section>> : section \in Section}
              \cup ({"hand", "hand_cmd"} \X {"left", "right"})

\* What a section adds to the streams: nothing when it is off.
LEMMA SectionStreams ==
    ASSUME NEW configured, NEW section \in Section
    PROVE  /\ If(configured, section) \in Seq(StreamName)
           /\ Len(If(configured, section)) \in Nat
           /\ Len(If(configured, section)) > 0 <=> section \in configured.enabled
<1>1. /\ <<"hand", "left">> \in StreamName /\ <<"hand", "right">> \in StreamName
      /\ <<"hand_cmd", "left">> \in StreamName /\ <<"hand_cmd", "right">> \in StreamName
      /\ <<section>> \in StreamName
  BY DEF StreamName
<1>2. Of(section) \in Seq(StreamName) /\ Len(Of(section)) \in {1, 2}
  <2>1. CASE section = "dex3"
    BY <1>1, <2>1 DEF Of
  <2>2. CASE section = "dex3_cmd"
    BY <1>1, <2>2 DEF Of
  <2>3. CASE section \notin {"dex3", "dex3_cmd"}
    BY <1>1, <2>3 DEF Of
  <2> QED
    BY <2>1, <2>2, <2>3
<1>3. <<>> \in Seq(StreamName) /\ Len(<<>>) = 0
  BY EmptySeq
<1> QED
  BY <1>2, <1>3 DEF If

\* The cameras are the streams of their names.
LEMMA CameraStreams ==
    ASSUME NEW configured, configured.cameras \in Seq(STRING)
    PROVE  LET s == [i \in DOMAIN configured.cameras |-> <<"camera", configured.cameras[i]>>] IN
           /\ s \in Seq(StreamName)
           /\ Len(s) \in Nat
           /\ Len(s) > 0 <=> configured.cameras # <<>>
<1> DEFINE c == configured.cameras
           s == [i \in DOMAIN c |-> <<"camera", c[i]>>]
<1>1. c \in Seq(STRING)
  OBVIOUS
<1> HIDE DEF c
<1>2. Len(c) \in Nat /\ DOMAIN c = 1..Len(c) /\ (\A i \in 1..Len(c) : c[i] \in STRING)
  BY <1>1, LenProperties, ElementOfSeq
<1>3. s \in [1..Len(c) -> StreamName]
  BY <1>2 DEF StreamName
<1>4. s \in Seq(StreamName) /\ Len(s) = Len(c)
  BY <1>2, <1>3
<1>5. c # <<>> <=> Len(c) > 0
  BY <1>1, <1>2, EmptySeq
<1> QED
  BY <1>2, <1>4, <1>5 DEF c

LEMMA ConcatIs ==
    ASSUME NEW s \in Seq(StreamName), NEW t \in Seq(StreamName)
    PROVE  s \o t \in Seq(StreamName) /\ Len(s \o t) = Len(s) + Len(t)
           /\ Len(s) \in Nat /\ Len(t) \in Nat
BY ConcatProperties, LenProperties

\* There is a stream to start exactly when a camera or a section is on.
LEMMA StreamsOf ==
    ASSUME NEW configured, configured.cameras \in Seq(STRING), configured.enabled \subseteq Section
    PROVE  /\ Streams(configured) \in Seq(StreamName)
           /\ SomethingEnabled(configured) <=> Streams(configured) # <<>>
<1> DEFINE c == [i \in DOMAIN configured.cameras |-> <<"camera", configured.cameras[i]>>]
           s(section) == If(configured, section)
<1>1. /\ "lowstate" \in Section /\ "dex3" \in Section /\ "uwb" \in Section /\ "lowcmd" \in Section
      /\ "arm_sdk" \in Section /\ "dex3_cmd" \in Section /\ "motion_token" \in Section
  BY DEF Section
<1>2. /\ c \in Seq(StreamName) /\ Len(c) \in Nat
      /\ Len(c) > 0 <=> configured.cameras # <<>>
  BY CameraStreams
<1>3. \A section \in Section :
         /\ s(section) \in Seq(StreamName) /\ Len(s(section)) \in Nat
         /\ Len(s(section)) > 0 <=> section \in configured.enabled
  BY SectionStreams
<1>4. PICK c0, low, dex, uwb, cmd, arm, dexCmd, token :
         /\ c0 = c /\ low = s("lowstate") /\ dex = s("dex3") /\ uwb = s("uwb") /\ cmd = s("lowcmd")
         /\ arm = s("arm_sdk") /\ dexCmd = s("dex3_cmd") /\ token = s("motion_token")
  OBVIOUS
<1>5. Streams(configured) = c0 \o low \o dex \o uwb \o cmd \o arm \o dexCmd \o token
  BY <1>4 DEF Streams
<1> HIDE DEF c, s
<1>6. /\ c0 \in Seq(StreamName) /\ Len(c0) \in Nat /\ low \in Seq(StreamName) /\ Len(low) \in Nat
      /\ dex \in Seq(StreamName) /\ Len(dex) \in Nat /\ uwb \in Seq(StreamName) /\ Len(uwb) \in Nat
      /\ cmd \in Seq(StreamName) /\ Len(cmd) \in Nat /\ arm \in Seq(StreamName) /\ Len(arm) \in Nat
      /\ dexCmd \in Seq(StreamName) /\ Len(dexCmd) \in Nat
      /\ token \in Seq(StreamName) /\ Len(token) \in Nat
  BY <1>1, <1>2, <1>3, <1>4
<1> DEFINE s2 == c0 \o low
           s3 == s2 \o dex
           s4 == s3 \o uwb
           s5 == s4 \o cmd
           s6 == s5 \o arm
           s7 == s6 \o dexCmd
           s8 == s7 \o token
<1>7. s2 \in Seq(StreamName) /\ Len(s2) = Len(c0) + Len(low)
  BY <1>6, ConcatIs
<1> HIDE DEF s2
<1>8. s3 \in Seq(StreamName) /\ Len(s3) = Len(s2) + Len(dex)
  BY <1>6, <1>7, ConcatIs
<1> HIDE DEF s3
<1>9. s4 \in Seq(StreamName) /\ Len(s4) = Len(s3) + Len(uwb)
  BY <1>6, <1>8, ConcatIs
<1> HIDE DEF s4
<1>10. s5 \in Seq(StreamName) /\ Len(s5) = Len(s4) + Len(cmd)
  BY <1>6, <1>9, ConcatIs
<1> HIDE DEF s5
<1>11. s6 \in Seq(StreamName) /\ Len(s6) = Len(s5) + Len(arm)
  BY <1>6, <1>10, ConcatIs
<1> HIDE DEF s6
<1>12. s7 \in Seq(StreamName) /\ Len(s7) = Len(s6) + Len(dexCmd)
  BY <1>6, <1>11, ConcatIs
<1> HIDE DEF s7
<1>13. s8 \in Seq(StreamName) /\ Len(s8) = Len(s7) + Len(token)
  BY <1>6, <1>12, ConcatIs
<1> HIDE DEF s8
<1>14. Streams(configured) = s8
  BY <1>5 DEF s2, s3, s4, s5, s6, s7, s8
<1>15. Len(s8) = Len(c0) + Len(low) + Len(dex) + Len(uwb) + Len(cmd) + Len(arm) + Len(dexCmd)
                 + Len(token)
  BY <1>6, <1>7, <1>8, <1>9, <1>10, <1>11, <1>12, <1>13
<1>16. Len(s8) > 0 <=> \/ configured.cameras # <<>>
                       \/ \E section \in Section : section \in configured.enabled
  <2>1. /\ Len(c0) > 0 <=> configured.cameras # <<>>
        /\ Len(low) > 0 <=> "lowstate" \in configured.enabled
        /\ Len(dex) > 0 <=> "dex3" \in configured.enabled
        /\ Len(uwb) > 0 <=> "uwb" \in configured.enabled
        /\ Len(cmd) > 0 <=> "lowcmd" \in configured.enabled
        /\ Len(arm) > 0 <=> "arm_sdk" \in configured.enabled
        /\ Len(dexCmd) > 0 <=> "dex3_cmd" \in configured.enabled
        /\ Len(token) > 0 <=> "motion_token" \in configured.enabled
    BY <1>1, <1>2, <1>3, <1>4
  <2>2. Len(s8) > 0 <=> \/ Len(c0) > 0 \/ Len(low) > 0 \/ Len(dex) > 0 \/ Len(uwb) > 0 \/ Len(cmd) > 0
                        \/ Len(arm) > 0 \/ Len(dexCmd) > 0 \/ Len(token) > 0
    BY <1>6, <1>15
  <2>3. (\E section \in Section : section \in configured.enabled)
           <=> \/ "lowstate" \in configured.enabled \/ "dex3" \in configured.enabled
               \/ "uwb" \in configured.enabled \/ "lowcmd" \in configured.enabled
               \/ "arm_sdk" \in configured.enabled \/ "dex3_cmd" \in configured.enabled
               \/ "motion_token" \in configured.enabled
    BY DEF Section
  <2> QED
    BY <2>1, <2>2, <2>3
<1>17. s8 # <<>> <=> Len(s8) > 0
  BY <1>13, <1>6, EmptySeq, LenProperties
<1>18. (\E section \in Section : section \in configured.enabled) <=> configured.enabled # {}
  OBVIOUS
<1> QED
  BY <1>13, <1>14, <1>16, <1>17, <1>18 DEF SomethingEnabled

LEMMA OrderInit == Init => OrderInv
<1> SUFFICES ASSUME Init PROVE OrderInv
  OBVIOUS
<1>1. PICK root \in Roots : settings = from_yaml(root)
  BY DEF Init
<1>2. order = Streams(settings)
  BY DEF Init
<1>3. settings.cameras \in Seq(STRING) /\ settings.enabled \subseteq Section
  BY <1>1, CollectorAssumption DEF CollectorAssumption, from_yaml
<1>4. order \in Seq(StreamName) /\ (SomethingEnabled(settings) <=> order # <<>>)
  BY <1>2, <1>3, StreamsOf
<1>5. /\ \A i \in DOMAIN order : order[i] \in Stream
      /\ \A i, j \in DOMAIN order : order[i] = order[j] => i = j
  BY <1>1, <1>2, CollectorAssumption DEF CollectorAssumption
<1>6. order \in Seq(Stream)
  <2>1. Len(order) \in Nat /\ order \in [1..Len(order) -> StreamName]
    BY <1>4, LenProperties
  <2>2. order \in [1..Len(order) -> Stream]
    BY <1>5, <2>1
  <2> QED
    BY <2>1, <2>2
<1> QED
  BY <1>4, <1>5, <1>6 DEF OrderInv
-----------------------------------------------------------------------------
(* The steps *)

LEMMA OrderStep == OrderInv /\ [Next]_vars => OrderInv' /\ order' = order /\ settings' = settings
<1> SUFFICES ASSUME OrderInv, [Next]_vars PROVE OrderInv' /\ order' = order /\ settings' = settings
  OBVIOUS
<1>1. order' = order /\ settings' = settings
  BY DEF Next, StartStep, ReportStep, StopStep, Start, StartStream, SkipStream, NoStream, Started,
     PrintReport, LoadReceived, PrintStream, ReportDone, Stop, StopSource, CloseStream, Stopped,
     PassOver, WriteResult, Receive, Settle, vars, collectorVars
<1> QED
  BY <1>1 DEF OrderInv

\* The owner is at a stream, or behind the last one.
LEMMA HereIs ==
    ASSUME OrderInv, TypeOK
    PROVE  /\ Len(order) \in Nat /\ DOMAIN order = 1..Len(order) /\ at \in Nat /\ at >= 1
           /\ \A i \in DOMAIN order : order[i] \in Stream
           /\ at <= Len(order) => at \in DOMAIN order /\ Here \in Stream
<1>1. order \in Seq(Stream) /\ Len(order) \in Nat /\ DOMAIN order = 1..Len(order)
  BY LenProperties DEF OrderInv
<1>2. at \in Nat /\ at >= 1
  BY <1>1 DEF TypeOK
<1>3. \A i \in DOMAIN order : order[i] \in Stream
  BY <1>1, ElementOfSeq
<1>4. at <= Len(order) => at \in DOMAIN order
  BY <1>1, <1>2
<1> QED
  BY <1>1, <1>2, <1>3, <1>4 DEF Here

LEMMA TypeInit == Init => TypeOK
<1> SUFFICES ASSUME Init PROVE TypeOK
  OBVIOUS
<1>1. OrderInv
  BY OrderInit
<1>2. Len(order) \in Nat
  BY <1>1, LenProperties DEF OrderInv
<1>3. op = "idle" /\ at \in 1..Len(order) + 1 /\ (SomethingEnabled(settings) <=> order # <<>>)
  BY <1>1, <1>2 DEF Init, OrderInv
<1>4. 0 \in Count /\ runs \in 0..MaxRuns /\ clock \in 0..MaxClock /\ dir \in 0..MaxClock \cup {NoDir}
  BY CollectorAssumption, ClockAssumption
  DEF Init, SessionInit, Count, CollectorAssumption, ClockAssumption
<1>5. /\ received \in [Stream -> Count] /\ written \in [Stream -> Count] /\ lost \in [Stream -> Count]
      /\ \A s \in Stream : written[s] + lost[s] <= received[s]
  BY <1>4 DEF Init
<1>6. /\ seen \in Count /\ last \in [Stream -> [rx : Count, wr : Count]]
      /\ phase \in [Stream -> {"none", "on", "drain", "closed"}]
  BY <1>4 DEF Init, Zero
<1>7. DOMAIN summary = {}
  BY DEF Init, NoSummary
<1>8. running \in BOOLEAN /\ labelled \in BOOLEAN /\ metaLost \in BOOLEAN
  BY DEF Init, SessionInit
<1> QED
  BY <1>3, <1>4, <1>5, <1>6, <1>7, <1>8 DEF TypeOK

\* What a write of meta.yaml leaves alone.
LEMMA SessionSteps ==
    ASSUME TypeOK,
           \/ SessionCreate \/ SessionCreateFails \/ WriteMeta \/ FinalizeMeta \/ Tick
           \/ UNCHANGED sessionVars \/ \E result : AppendResult(result)
    PROVE  clock' \in 0..MaxClock /\ dir' \in 0..MaxClock \cup {NoDir} /\ metaLost' \in BOOLEAN
<1>1. /\ clock \in 0..MaxClock /\ dir \in 0..MaxClock \cup {NoDir}
      /\ metaLost \in BOOLEAN /\ MaxClock \in Nat
  BY ClockAssumption DEF TypeOK, ClockAssumption
<1>2. CASE SessionCreate \/ SessionCreateFails \/ Tick \/ UNCHANGED sessionVars
  BY <1>1, <1>2 DEF SessionCreate, SessionCreateFails, Tick, sessionVars
<1>3. ASSUME NEW content, MetaBecomes(content)
      PROVE  clock' = clock /\ dir' = dir /\ metaLost' \in BOOLEAN
  BY <1>1, <1>3 DEF MetaBecomes
<1>4. CASE WriteMeta \/ FinalizeMeta
  BY <1>1, <1>3, <1>4 DEF WriteMeta, FinalizeMeta
<1>5. ASSUME NEW result, AppendResult(result)
      PROVE  clock' = clock /\ dir' = dir /\ metaLost' \in BOOLEAN
  BY <1>1, <1>3, <1>5 DEF AppendResult, sessionVars
<1> QED
  BY <1>1, <1>2, <1>4, <1>5

LEMMA TypeStep ==
    ASSUME OrderInv, TypeOK, PhaseInv, [Next]_vars
    PROVE  TypeOK'
<1>0. order' = order /\ settings' = settings
  BY OrderStep
<1>1. /\ Len(order) \in Nat /\ DOMAIN order = 1..Len(order)
      /\ at \in Nat /\ at >= 1 /\ at <= Len(order) + 1
      /\ at <= Len(order) => Here \in Stream
      /\ 1 \in 1..Len(order) + 1 /\ (at <= Len(order) => at + 1 \in 1..Len(order) + 1)
  <2>1. /\ Len(order) \in Nat /\ DOMAIN order = 1..Len(order) /\ at \in Nat /\ at >= 1
        /\ at <= Len(order) => Here \in Stream
    BY HereIs
  <2>2. at <= Len(order) + 1
    BY <2>1 DEF TypeOK
  <2> QED
    BY <2>1, <2>2
<1>2. MaxRecords \in Nat /\ MaxRuns \in Nat /\ Count = 0..MaxRecords /\ 0 \in Count
  BY CollectorAssumption DEF CollectorAssumption, Count
<1>3. clock' \in 0..MaxClock /\ dir' \in 0..MaxClock \cup {NoDir} /\ metaLost' \in BOOLEAN
  <2>1. \/ SessionCreate \/ SessionCreateFails \/ WriteMeta \/ FinalizeMeta \/ Tick
        \/ UNCHANGED sessionVars \/ \E result : AppendResult(result)
    BY DEF Next, StartStep, ReportStep, StopStep, Start, StartStream, SkipStream, NoStream, Started,
       PrintReport, LoadReceived, PrintStream, ReportDone, Stop, StopSource, CloseStream, Stopped,
       PassOver, WriteResult, Receive, Settle, vars
  <2> QED
    BY <2>1, SessionSteps
<1> USE DEF TypeOK, counterVars, reportVars, collectorVars
<1>4. CASE Start
  BY <1>0, <1>1, <1>2, <1>3, <1>4 DEF Start
<1>5. CASE StartStream
  <2>1. /\ Here \in Stream /\ op' = "start" /\ at' \in 1..Len(order) + 1
        /\ UNCHANGED <<reportVars, running, summary, runs, labelled>>
    BY <1>1, <1>5 DEF StartStream, Step
  <2>2. /\ received' \in [Stream -> Count] /\ written' \in [Stream -> Count]
        /\ lost' \in [Stream -> Count]
        /\ phase' \in [Stream -> {"none", "on", "drain", "closed"}]
    BY <1>2, <1>5 DEF StartStream
  <2>3. \A s \in Stream : written'[s] + lost'[s] <= received'[s]
    BY <1>5, <2>1 DEF StartStream
  <2>4. {received', written', lost'} \subseteq [Stream -> Count]
    BY <2>2
  <2> QED
    BY <1>0, <1>3, <2>1, <2>2, <2>3, <2>4
<1>6. CASE SkipStream \/ NoStream \/ PrintReport \/ ReportDone \/ Stop
  BY <1>0, <1>1, <1>2, <1>3, <1>6 DEF SkipStream, NoStream, PrintReport, ReportDone, Stop, Step
<1>7. CASE Started
  <2>1. last' \in [Stream -> [rx : Count, wr : Count]]
    BY <1>2, <1>7 DEF Started, ResetLast, Zero
  <2> QED
    BY <1>0, <1>1, <1>2, <1>3, <1>7, <2>1 DEF Started
<1>8. CASE LoadReceived
  BY <1>0, <1>1, <1>2, <1>3, <1>8 DEF LoadReceived
<1>9. CASE PrintStream
  <2>1. at <= Len(order)
    BY <1>9 DEF PrintStream, PhaseInv
  <2> QED
    BY <1>0, <1>1, <1>2, <1>3, <1>9, <2>1 DEF PrintStream, Step
<1>10. CASE PassOver
  BY <1>0, <1>1, <1>2, <1>3, <1>10 DEF PassOver, Step
<1>11. CASE StopSource
  BY <1>0, <1>1, <1>2, <1>3, <1>11 DEF StopSource
<1>12. CASE CloseStream
  <2>1. Here \in Stream
    BY <1>1, <1>12 DEF CloseStream
  <2>2. Stats(Here) \in StatsSet
    BY <2>1 DEF Stats, StatsSet
  <2>3. DOMAIN summary' \subseteq Stream /\ \A s \in DOMAIN summary' : summary'[s] \in StatsSet
    BY <1>12, <2>1, <2>2 DEF CloseStream, Summarize
  <2> QED
    BY <1>0, <1>1, <1>2, <1>3, <1>12, <2>1, <2>3 DEF CloseStream, Step
<1>13. CASE Stopped
  <2>1. /\ received' \in [Stream -> Count] /\ written' = received' /\ lost' = received'
        /\ \A s \in Stream : written'[s] + lost'[s] <= received'[s]
    BY <1>2, <1>13 DEF Stopped
  <2>2. phase' \in [Stream -> {"none", "on", "drain", "closed"}] /\ DOMAIN summary' = {}
    BY <1>13 DEF Stopped, NoSummary
  <2>3. {received', written', lost'} \subseteq [Stream -> Count]
    BY <2>1
  <2>4. op' = "idle" /\ at' = 1 /\ running' \in BOOLEAN /\ labelled' \in BOOLEAN
        /\ UNCHANGED <<seen, last, runs>>
    BY <1>13 DEF Stopped
  <2> QED
    BY <1>0, <1>1, <1>2, <1>3, <2>1, <2>2, <2>3, <2>4
<1>14. CASE WriteResult
  BY <1>0, <1>1, <1>2, <1>3, <1>14 DEF WriteResult
<1>15. ASSUME NEW s \in Stream, Receive(s) PROVE TypeOK'
  <2>1. /\ received' \in [Stream -> Count] /\ written' = written /\ lost' = lost
        /\ \A r \in Stream : written'[r] + lost'[r] <= received'[r]
    BY <1>2, <1>15 DEF Receive
  <2>2. {received', written', lost'} \subseteq [Stream -> Count]
    BY <2>1
  <2> QED
    BY <1>0, <1>1, <1>2, <1>3, <1>15, <2>1, <2>2 DEF Receive
<1>16. ASSUME NEW s \in Stream, Settle(s) PROVE TypeOK'
  <2>1. received \in [Stream -> Count] /\ written \in [Stream -> Count] /\ lost \in [Stream -> Count]
    OBVIOUS
  <2>2. received[s] \in 0..MaxRecords /\ written[s] \in 0..MaxRecords /\ lost[s] \in 0..MaxRecords
    BY <1>2, <2>1
  <2>3. written[s] + 1 \in Count /\ lost[s] + 1 \in Count
    BY <1>2, <1>16, <2>2 DEF Settle
  <2>4. written' \in [Stream -> Count] /\ lost' \in [Stream -> Count]
    BY <1>16, <2>1, <2>3 DEF Settle
  <2>5. \A r \in Stream : written'[r] + lost'[r] <= received[r]
    <3> TAKE r \in Stream
    <3>1. CASE r = s
      BY <1>16, <2>1, <2>2, <3>1 DEF Settle
    <3>2. CASE r # s
      BY <1>16, <2>1, <3>2 DEF Settle
    <3> QED
      BY <3>1, <3>2
  <2>6. {received', written', lost'} \subseteq [Stream -> Count] /\ received' = received
    BY <1>16, <2>1, <2>4 DEF Settle
  <2> QED
    BY <1>0, <1>1, <1>2, <1>3, <1>16, <2>5, <2>6 DEF Settle
<1>17. CASE UNCHANGED <<counterVars, reportVars, collectorVars>>
  BY <1>0, <1>1, <1>2, <1>3, <1>17
<1> QED
  BY <1>4, <1>5, <1>6, <1>7, <1>8, <1>9, <1>10, <1>11, <1>12, <1>13, <1>14, <1>15, <1>16, <1>17
  DEF Next, StartStep, ReportStep, StopStep, vars

LEMMA PhaseStep ==
    ASSUME OrderInv, TypeOK, PhaseInv, [Next]_vars
    PROVE  PhaseInv'
<1>0. order' = order
  BY OrderStep
<1>1. /\ Len(order) \in Nat /\ DOMAIN order = 1..Len(order) /\ at \in Nat /\ at >= 1
      /\ \A i \in DOMAIN order : order[i] \in Stream
      /\ \A i, j \in DOMAIN order : order[i] = order[j] => i = j
      /\ at <= Len(order) => at \in DOMAIN order /\ Here \in Stream
      /\ phase \in [Stream -> {"none", "on", "drain", "closed"}] /\ running \in BOOLEAN
  BY HereIs DEF OrderInv, TypeOK
<1> USE DEF PhaseInv, counterVars, reportVars, collectorVars
<1>2. CASE Start
  BY <1>0, <1>1, <1>2 DEF Start
<1>3. CASE StartStream
  <2>1. /\ op = "start" /\ op' = "start" /\ at' = at + 1 /\ at \in DOMAIN order /\ Here \in Stream
        /\ running' = running /\ phase' = [phase EXCEPT ![Here] = "on"] /\ Here = order[at]
    BY <1>1, <1>3 DEF StartStream, Step, Here
  <2>2. \A i \in at'..Len(order) : i \in DOMAIN order /\ i # at /\ order[i] # Here
    BY <1>1, <2>1
  <2> QED
    BY <1>0, <1>1, <2>1, <2>2
<1>4. CASE SkipStream
  BY <1>0, <1>1, <1>4 DEF SkipStream, Step
<1>5. CASE NoStream
  BY <1>0, <1>1, <1>5 DEF NoStream
<1>6. CASE Started
  BY <1>0, <1>1, <1>6 DEF Started
<1>7. CASE PrintReport
  BY <1>0, <1>1, <1>7 DEF PrintReport
<1>8. CASE LoadReceived
  BY <1>0, <1>1, <1>8 DEF LoadReceived
<1>9. CASE PrintStream
  BY <1>0, <1>1, <1>9 DEF PrintStream, Step
<1>10. CASE ReportDone
  BY <1>0, <1>1, <1>10 DEF ReportDone
<1>11. CASE PassOver
  <2>1. /\ op' = op /\ running' = running /\ phase' = phase /\ at' = at + 1 /\ at \in DOMAIN order
        /\ phase[order[at]] = "none" /\ op \in {"report", "stop"}
    BY <1>1, <1>11 DEF PassOver, Step, Here
  <2> QED
    BY <1>0, <1>1, <2>1
<1>12. CASE Stop
  BY <1>0, <1>1, <1>12 DEF Stop
<1>13. CASE StopSource
  <2>1. /\ op = "stop" /\ op' = "stop" /\ at' = at /\ at \in DOMAIN order /\ Here \in Stream
        /\ running' = running /\ phase' = [phase EXCEPT ![Here] = "drain"] /\ Here = order[at]
    BY <1>1, <1>13 DEF StopSource, Here
  <2>2. phase[Here] = "on"
    BY <1>13 DEF StopSource
  <2> QED
    BY <1>0, <1>1, <2>1, <2>2
<1>14. CASE CloseStream
  <2>1. /\ op = "stop" /\ op' = "stop" /\ at' = at + 1 /\ at \in DOMAIN order /\ Here \in Stream
        /\ running' = running /\ phase' = [phase EXCEPT ![Here] = "closed"] /\ Here = order[at]
        /\ phase[Here] = "drain"
    BY <1>1, <1>14 DEF CloseStream, Step, Here
  <2>2. \A i \in DOMAIN order : i # at => order[i] # Here
    BY <1>1, <2>1
  <2> QED
    BY <1>0, <1>1, <2>1, <2>2
<1>15. CASE Stopped
  BY <1>0, <1>1, <1>15 DEF Stopped
<1>16. CASE WriteResult
  BY <1>0, <1>1, <1>16 DEF WriteResult
<1>17. CASE UNCHANGED collectorVars
  BY <1>0, <1>1, <1>17
<1>18. ASSUME NEW s \in Stream, Receive(s) \/ Settle(s) PROVE PhaseInv'
  BY <1>17, <1>18 DEF Receive, Settle
<1> QED
  BY <1>2, <1>3, <1>4, <1>5, <1>6, <1>7, <1>8, <1>9, <1>10, <1>11, <1>12, <1>13, <1>14, <1>15, <1>16,
     <1>17, <1>18 DEF Next, StartStep, ReportStep, StopStep, vars

LEMMA SummaryStep ==
    ASSUME OrderInv, TypeOK, PhaseInv, SummaryInv, [Next]_vars
    PROVE  SummaryInv'
<1>0. order' = order
  BY OrderStep
<1>1. /\ Len(order) \in Nat /\ DOMAIN order = 1..Len(order)
      /\ at <= Len(order) => at \in DOMAIN order /\ Here \in Stream
      /\ phase \in [Stream -> {"none", "on", "drain", "closed"}] /\ running \in BOOLEAN
      /\ received \in [Stream -> Count] /\ written \in [Stream -> Count] /\ lost \in [Stream -> Count]
  BY HereIs DEF TypeOK
<1> USE DEF SummaryInv, SummaryIsFinal, Stats
\* A step that moves no counter and closes no stream.
<1>2. ASSUME UNCHANGED counterVars, UNCHANGED summary,
             {s \in Stream : phase'[s] = "closed"} = {s \in Stream : phase[s] = "closed"}
      PROVE  SummaryInv'
  BY <1>2 DEF counterVars
<1>3. CASE Start \/ SkipStream \/ NoStream \/ Started \/ PrintReport \/ LoadReceived \/ PrintStream
           \/ ReportDone \/ PassOver \/ Stop \/ WriteResult
           \/ UNCHANGED <<counterVars, reportVars, collectorVars>>
  BY <1>2, <1>3 DEF Start, SkipStream, NoStream, Started, PrintReport, LoadReceived, PrintStream,
     ReportDone, PassOver, Stop, WriteResult, collectorVars
<1>4. CASE StartStream
  <2>1. Here \in Stream /\ DOMAIN summary = {} /\ summary' = summary
    BY <1>1, <1>4 DEF StartStream, PhaseInv
  <2>2. \A s \in Stream : phase'[s] # "closed"
    BY <1>1, <1>4, <2>1 DEF StartStream, PhaseInv
  <2> QED
    BY <2>1, <2>2
<1>5. CASE StopSource
  <2>1. /\ Here \in Stream /\ phase[Here] = "on" /\ phase' = [phase EXCEPT ![Here] = "drain"]
        /\ UNCHANGED <<counterVars, summary>>
    BY <1>1, <1>5 DEF StopSource
  <2>2. {s \in Stream : phase'[s] = "closed"} = {s \in Stream : phase[s] = "closed"}
    BY <1>1, <2>1
  <2> QED
    BY <1>2, <2>1, <2>2
<1>6. CASE CloseStream
  <2>1. /\ Here \in Stream /\ phase' = [phase EXCEPT ![Here] = "closed"]
        /\ written[Here] + lost[Here] = received[Here]
        /\ received' = received /\ written' = written /\ lost' = lost
        /\ DOMAIN summary' = DOMAIN summary \cup {Here}
        /\ \A s \in DOMAIN summary' : summary'[s] = IF s = Here THEN Stats(s) ELSE summary[s]
    BY <1>1, <1>6 DEF CloseStream, Summarize, counterVars
  <2>2. DOMAIN summary' = {s \in Stream : phase'[s] = "closed"}
    BY <1>1, <2>1
  <2>3. ASSUME NEW s \in DOMAIN summary'
        PROVE  summary'[s] = Stats(s)' /\ received'[s] = written'[s] + lost'[s]
    <3>1. CASE s = Here
      BY <1>1, <2>1, <3>1 DEF Count
    <3>2. CASE s # Here
      BY <2>1, <3>2
    <3> QED
      BY <3>1, <3>2
  <2> QED
    BY <2>2, <2>3
<1>7. CASE Stopped
  BY <1>7 DEF Stopped, NoSummary
<1>8. ASSUME NEW s \in Stream, Receive(s) \/ Settle(s) PROVE SummaryInv'
  <2>1. /\ phase[s] # "closed" /\ phase' = phase /\ summary' = summary
        /\ \A r \in Stream : r # s =>
              received'[r] = received[r] /\ written'[r] = written[r] /\ lost'[r] = lost[r]
    BY <1>1, <1>8 DEF Receive, Settle, collectorVars
  <2> QED
    BY <2>1
<1> QED
  BY <1>3, <1>4, <1>5, <1>6, <1>7, <1>8 DEF Next, StartStep, ReportStep, StopStep, vars

LEMMA ReportInvStep ==
    ASSUME OrderInv, TypeOK, PhaseInv, ReportInv, [Next]_vars
    PROVE  ReportInv'
<1>0. order' = order
  BY OrderStep
<1>1. /\ at <= Len(order) => Here \in Stream
      /\ received \in [Stream -> Count] /\ written \in [Stream -> Count] /\ seen \in Count
      /\ Count \subseteq Nat /\ 0 \in Count /\ last \in [Stream -> [rx : Count, wr : Count]]
      /\ \A s \in Stream : received[s] \in Nat /\ written[s] \in Nat
      /\ \A s \in Stream : last[s].rx \in Nat /\ last[s].wr \in Nat
  <2>1. /\ at <= Len(order) => Here \in Stream
        /\ received \in [Stream -> Count] /\ written \in [Stream -> Count] /\ seen \in Count
        /\ last \in [Stream -> [rx : Count, wr : Count]]
    BY HereIs DEF TypeOK
  <2>2. Count \subseteq Nat /\ 0 \in Count
    BY CollectorAssumption DEF Count, CollectorAssumption
  <2>3. \A s \in Stream : received[s] \in Nat /\ written[s] \in Nat
    BY <2>1, <2>2
  <2>4. \A s \in Stream : last[s].rx \in Nat /\ last[s].wr \in Nat
    BY <2>1, <2>2
  <2> QED
    BY <2>1, <2>2, <2>3, <2>4
<1> USE DEF ReportInv, Here
<1>2. CASE Start
  BY <1>2 DEF Start, PhaseInv
<1>3. CASE StartStream \/ SkipStream \/ NoStream
  BY <1>3 DEF StartStream, SkipStream, NoStream, PhaseInv
<1>4. CASE Started
  <2>1. /\ \A s \in Stream \ Scalar : last'[s] = Zero
        /\ received' = received /\ written' = written /\ op' = "idle"
    BY <1>4 DEF Started, ResetLast, counterVars
  <2> QED
    BY <1>1, <2>1 DEF Zero
<1>5. CASE PrintReport \/ ReportDone \/ PassOver \/ Stop \/ StopSource \/ CloseStream \/ WriteResult
  <2>1. /\ UNCHANGED <<counterVars, reportVars>> /\ op' # "print" /\ running' = running
    BY <1>5 DEF PrintReport, ReportDone, PassOver, Stop, StopSource, CloseStream, WriteResult
  <2> QED
    BY <2>1 DEF counterVars, reportVars
<1>6. CASE LoadReceived
  <2>1. /\ at <= Len(order) /\ at' = at /\ seen' = received[order[at]] /\ running' = running /\ running
        /\ UNCHANGED <<received, written, last>> /\ order[at] \in Stream
    BY <1>1, <1>6 DEF LoadReceived, counterVars, PhaseInv
  <2> QED
    BY <1>0, <1>1, <2>1
<1>7. CASE PrintStream
  <2>1. /\ Here \in Stream /\ op' = "report" /\ running' = running /\ running
        /\ last' = [last EXCEPT ![Here] = [rx |-> seen, wr |-> written[Here]]]
        /\ received' = received /\ written' = written /\ seen <= received[Here]
    BY <1>1, <1>7 DEF PrintStream, PhaseInv, counterVars
  <2>2. ASSUME NEW s \in Stream \ Scalar
        PROVE  last'[s].rx <= received'[s] /\ last'[s].wr <= written'[s]
    <3>1. CASE s = Here
      BY <1>1, <2>1, <3>1
    <3>2. CASE s # Here
      BY <1>1, <2>1, <3>2
    <3> QED
      BY <3>1, <3>2
  <2> QED
    BY <2>1, <2>2
<1>8. CASE Stopped
  BY <1>8 DEF Stopped
<1>9. ASSUME NEW s \in Stream, Receive(s) \/ Settle(s) PROVE ReportInv'
  <2>1. \A r \in Stream : received'[r] >= received[r] /\ written'[r] >= written[r]
                          /\ received'[r] \in Nat /\ written'[r] \in Nat
    <3>1. CASE Receive(s)
      BY <1>1, <3>1 DEF Receive
    <3>2. CASE Settle(s)
      BY <1>1, <3>2 DEF Settle
    <3> QED
      BY <1>9, <3>1, <3>2
  <2>2. UNCHANGED <<last, seen, running, op, at>>
    BY <1>9 DEF Receive, Settle, reportVars, collectorVars
  <2>3. op = "print" => Here \in Stream /\ seen \in Nat
    BY <1>1 DEF PhaseInv
  <2>4. \A r \in Stream : (last[r].rx <= received[r] => last[r].rx <= received'[r])
                          /\ (last[r].wr <= written[r] => last[r].wr <= written'[r])
    BY <1>1, <2>1
  <2>5. op = "print" => seen <= received'[Here]
    BY <1>1, <2>1, <2>3
  <2> QED
    BY <1>0, <2>2, <2>4, <2>5
<1>10. CASE UNCHANGED <<counterVars, reportVars, collectorVars>>
  BY <1>10 DEF counterVars, reportVars, collectorVars
<1> QED
  BY <1>2, <1>3, <1>4, <1>5, <1>6, <1>7, <1>8, <1>9, <1>10
  DEF Next, StartStep, ReportStep, StopStep, vars

LEMMA Blocks ==
    /\ <<>> \in Seq(Block) /\ <<"start">> \in Seq(Block)
    /\ \A m \in Seq(Block) : Append(m, "summary") \in Seq(Block) /\ Append(m, "result") \in Seq(Block)
    /\ Append(<<"start">>, "summary") = <<"start", "summary">>
    /\ Append(<<"start", "summary">>, "result") = <<"start", "summary", "result">>
    /\ <<"start">> \notin Complete /\ <<"start", "summary">> \in Complete
    /\ <<"start", "summary", "result">> \in Complete /\ <<>> \in Complete
<1>1. <<>> \in Seq(Block) /\ <<"start">> \in Seq(Block)
  BY DEF Block
<1>2. \A m \in Seq(Block) : Append(m, "summary") \in Seq(Block) /\ Append(m, "result") \in Seq(Block)
  BY DEF Block
<1>3. Append(<<"start">>, "summary") = <<"start", "summary">>
  <2> DEFINE a == Append(<<"start">>, "summary")
             b == <<"start", "summary">>
  <2>1. a \in Seq(Block) /\ Len(a) = 2 /\ a[1] = "start" /\ a[2] = "summary"
    BY DEF Block
  <2>2. b \in Seq(Block) /\ Len(b) = 2 /\ b[1] = "start" /\ b[2] = "summary"
    BY DEF Block
  <2> HIDE DEF a, b
  <2>3. a = b
    BY <2>1, <2>2, SeqEqual
  <2> QED
    BY <2>3 DEF a, b
<1>4. Append(<<"start", "summary">>, "result") = <<"start", "summary", "result">>
  <2> DEFINE a == Append(<<"start", "summary">>, "result")
             b == <<"start", "summary", "result">>
  <2>1. a \in Seq(Block) /\ Len(a) = 3 /\ a[1] = "start" /\ a[2] = "summary" /\ a[3] = "result"
    BY DEF Block
  <2>2. b \in Seq(Block) /\ Len(b) = 3 /\ b[1] = "start" /\ b[2] = "summary" /\ b[3] = "result"
    BY DEF Block
  <2> HIDE DEF a, b
  <2>3. a = b
    BY <2>1, <2>2, SeqEqual
  <2> QED
    BY <2>3 DEF a, b
<1>5. Len(<<>>) = 0 /\ Len(<<"start">>) = 1 /\ Len(<<"start", "summary">>) = 2
      /\ Len(<<"start", "summary", "result">>) = 3
  OBVIOUS
<1>6. /\ <<"start">> \notin Complete /\ <<"start", "summary">> \in Complete
      /\ <<"start", "summary", "result">> \in Complete /\ <<>> \in Complete
  BY <1>5 DEF Complete
<1> QED
  BY <1>1, <1>2, <1>3, <1>4, <1>6

\* The meta.yaml that is written is that of the session's directory, and either
\* has the new content or the loss is on record.
LEMMA MetaWritten ==
    ASSUME MetaInv, TypeOK, dir # NoDir, NEW content \in Seq(Block), MetaBecomes(content)
    PROVE  /\ meta' \in [0..MaxClock -> Seq(Block)] /\ dir' = dir /\ dir \in 0..MaxClock
           /\ \A d \in 0..MaxClock : d # dir => meta'[d] = meta[d]
           /\ ~metaLost' => ~metaLost /\ meta'[dir] = content
  BY DEF MetaBecomes, MetaInv, TypeOK

LEMMA MetaStep ==
    ASSUME OrderInv, TypeOK, PhaseInv, MetaInv, [Next]_vars
    PROVE  MetaInv'
<1>1. /\ running \in BOOLEAN /\ labelled \in BOOLEAN /\ metaLost \in BOOLEAN
      /\ clock \in 0..MaxClock /\ NoDir \notin 0..MaxClock /\ dir \in 0..MaxClock \cup {NoDir}
      /\ dir # NoDir => dir \in 0..MaxClock
  BY ClockAssumption DEF TypeOK, ClockAssumption
<1>2. CASE Start
  <2>1. op = "idle" /\ running = FALSE /\ running' = FALSE /\ labelled' = TRUE
    BY <1>1, <1>2 DEF Start
  <2>2. meta' = meta /\ metaLost' = metaLost
    BY <1>2 DEF Start, SessionCreate, SessionCreateFails
  <2>3. op' = "start" => dir' # NoDir
    BY <1>1, <1>2 DEF Start, SessionCreate
  <2>4. op' \in {"idle", "start"}
    BY <1>2, <2>1 DEF Start
  <2> QED
    BY <2>1, <2>2, <2>3, <2>4 DEF MetaInv
<1>3. CASE /\ UNCHANGED <<dir, meta, metaLost, running, labelled>>
           /\ (op' = op \/ (op' # "start" /\ labelled) \/ op' = "idle")
  BY <1>3 DEF MetaInv
<1>4. CASE StartStream \/ SkipStream \/ NoStream \/ PassOver \/ StopSource \/ CloseStream
           \/ UNCHANGED <<dir, meta, metaLost, collectorVars>>
  BY <1>3, <1>4 DEF StartStream, SkipStream, NoStream, PassOver, StopSource, CloseStream, sessionVars,
     collectorVars
<1>5. CASE PrintReport \/ LoadReceived \/ PrintStream \/ ReportDone \/ Stop
  <2>1. running
    BY <1>5 DEF PrintReport, LoadReceived, PrintStream, ReportDone, Stop, PhaseInv
  <2>2. labelled
    BY <1>1, <2>1 DEF MetaInv
  <2>3. UNCHANGED <<dir, meta, metaLost, running, labelled>> /\ op' # "start"
    BY <1>5 DEF PrintReport, LoadReceived, PrintStream, ReportDone, Stop, sessionVars
  <2> QED
    BY <1>3, <2>2, <2>3
<1>6. CASE Started
  <2>1. /\ op = "start" /\ ~running /\ running' = TRUE /\ op' = "idle" /\ labelled' = labelled /\ labelled
        /\ MetaBecomes(<<"start">>) /\ dir # NoDir
    BY <1>1, <1>6 DEF Started, WriteMeta, PhaseInv, MetaInv
  <2>2. /\ meta' \in [0..MaxClock -> Seq(Block)] /\ dir' = dir /\ dir \in 0..MaxClock
        /\ \A d \in 0..MaxClock : d # dir => meta'[d] = meta[d]
        /\ ~metaLost' => ~metaLost /\ meta'[dir] = <<"start">>
    BY <2>1, Blocks, MetaWritten
  <2> QED
    BY <2>1, <2>2 DEF MetaInv
<1>7. CASE Stopped
  <2>1. /\ op = "stop" /\ running /\ running' = FALSE /\ op' = "idle" /\ labelled' = FALSE
        /\ MetaBecomes(Append(meta[dir], "summary")) /\ dir # NoDir
    BY <1>7 DEF Stopped, FinalizeMeta, PhaseInv, MetaInv
  <2>2. meta[dir] \in Seq(Block)
    BY <1>1, <2>1 DEF MetaInv
  <2>3. /\ meta' \in [0..MaxClock -> Seq(Block)] /\ dir' = dir /\ dir \in 0..MaxClock
        /\ \A d \in 0..MaxClock : d # dir => meta'[d] = meta[d]
        /\ ~metaLost' => ~metaLost /\ meta'[dir] = Append(meta[dir], "summary")
    BY <2>1, <2>2, Blocks, MetaWritten
  <2>4. ~metaLost => meta[dir] = <<"start">>
    BY <2>1 DEF MetaInv
  <2>5. ~metaLost' => meta'[dir] = <<"start", "summary">>
    BY <2>3, <2>4, Blocks
  <2>6. ~metaLost' => \A d \in 0..MaxClock : meta'[d] \in Complete
    BY <2>3, <2>5, Blocks DEF MetaInv
  <2> QED
    BY <2>1, <2>3, <2>5, <2>6 DEF MetaInv
<1>8. CASE WriteResult
  <2>1. PICK result \in {"", "success", "fail"} : AppendResult(result)
    BY <1>8 DEF WriteResult
  <2>2. /\ op = "idle" /\ ~running /\ running' = running /\ op' = op /\ ~labelled /\ labelled' = TRUE
        /\ dir # NoDir
    BY <1>8 DEF WriteResult, MetaInv
  <2>3. CASE UNCHANGED sessionVars
    BY <2>2, <2>3 DEF MetaInv, sessionVars
  <2>4. CASE MetaBecomes(Append(meta[dir], "result"))
    <3>1. meta[dir] \in Seq(Block)
      BY <1>1, <2>2 DEF MetaInv
    <3>2. /\ meta' \in [0..MaxClock -> Seq(Block)] /\ dir' = dir /\ dir \in 0..MaxClock
          /\ \A d \in 0..MaxClock : d # dir => meta'[d] = meta[d]
          /\ ~metaLost' => ~metaLost /\ meta'[dir] = Append(meta[dir], "result")
      BY <2>2, <2>4, <3>1, Blocks, MetaWritten
    <3>3. ~metaLost => meta[dir] = <<"start", "summary">>
      BY <2>2 DEF MetaInv
    <3>4. ~metaLost' => \A d \in 0..MaxClock : meta'[d] \in Complete
      BY <2>2, <3>2, <3>3, Blocks DEF MetaInv
    <3> QED
      BY <2>2, <3>2, <3>4 DEF MetaInv
  <2> QED
    BY <2>1, <2>3, <2>4 DEF AppendResult
<1>9. ASSUME NEW s \in Stream, Receive(s) \/ Settle(s) PROVE MetaInv'
  BY <1>4, <1>9 DEF Receive, Settle, sessionVars
<1>10. CASE Tick /\ UNCHANGED <<counterVars, reportVars, collectorVars>>
  BY <1>4, <1>10 DEF Tick
<1>11. CASE UNCHANGED vars
  BY <1>4, <1>11 DEF vars, sessionVars
<1> QED
  BY <1>2, <1>4, <1>5, <1>6, <1>7, <1>8, <1>9, <1>10, <1>11
  DEF Next, StartStep, ReportStep, StopStep
-----------------------------------------------------------------------------
(* The invariant, and what it shows *)

CollectorInv == OrderInv /\ TypeOK /\ PhaseInv /\ SummaryInv /\ ReportInv /\ MetaInv

LEMMA CollectorInit == Init => CollectorInv
<1> SUFFICES ASSUME Init PROVE CollectorInv
  OBVIOUS
<1>1. OrderInv /\ TypeOK
  BY OrderInit, TypeInit
<1>2. PhaseInv /\ SummaryInv
  BY DEF Init, PhaseInv, SummaryInv, SummaryIsFinal, NoSummary
<1>3. ReportInv
  BY DEF Init, ReportInv
<1>4. MetaInv
  BY Blocks DEF Init, SessionInit, MetaInv
<1> QED
  BY <1>1, <1>2, <1>3, <1>4 DEF CollectorInv

LEMMA CollectorStep == CollectorInv /\ [Next]_vars => CollectorInv'
  BY OrderStep, TypeStep, PhaseStep, SummaryStep, ReportInvStep, MetaStep DEF CollectorInv

LEMMA CollectorInvariant == Spec => []CollectorInv
  BY CollectorInit, CollectorStep, PTL DEF Spec

\* The types, that no stream writes or loses what it did not get, and that
\* start() gives up early exactly when there is no stream to start.
THEOREM CollectorTypes == Spec => []TypeOK
<1>1. CollectorInv => TypeOK
  BY DEF CollectorInv
<1> QED
  BY <1>1, CollectorInvariant, PTL

\* What stop() puts into the summary stays true of the stream.
THEOREM SummaryFinal == Spec => []SummaryIsFinal
<1>1. CollectorInv => SummaryIsFinal
  BY DEF CollectorInv, SummaryInv
<1> QED
  BY <1>1, CollectorInvariant, PTL

\* The difference of two counts does not wrap around when the earlier is not larger.
LEMMA DeltaFits ==
    ASSUME NEW count \in Nat, NEW before \in Nat, NEW bound \in Nat,
           before <= count, count <= bound, bound < Wrap
    PROVE  Delta(count, before) <= bound
<1>1. Wrap \in Nat
  BY CollectorAssumption DEF CollectorAssumption
<1>2. count - before \in 0..Wrap - 1
  BY <1>1
<1>3. (count - before) % Wrap = count - before
  BY <1>1, <1>2
<1> QED
  BY <1>3 DEF Delta

\* A report of a stream whose last counts are in vectors never shows more
\* than the stream has had.
THEOREM ReportsFit == Spec => []VectorReportsFit
<1>1. ASSUME CollectorInv PROVE VectorReportsFit
  <2> SUFFICES ASSUME op = "print", Here \notin Scalar
               PROVE  /\ Delta(seen, last[Here].rx) <= received[Here]
                      /\ Delta(written[Here], last[Here].wr) <= written[Here]
    BY DEF VectorReportsFit
  <2>1. /\ at <= Len(order) /\ running /\ seen <= received[Here] /\ last[Here].rx <= seen
        /\ \A s \in Stream \ Scalar : last[s].rx <= received[s] /\ last[s].wr <= written[s]
    BY <1>1 DEF CollectorInv, PhaseInv, ReportInv
  <2>2. Here \in Stream
    BY <1>1, <2>1, HereIs DEF CollectorInv
  <2>3. /\ received[Here] \in 0..MaxRecords /\ written[Here] \in 0..MaxRecords /\ seen \in 0..MaxRecords
        /\ last[Here].rx \in 0..MaxRecords /\ last[Here].wr \in 0..MaxRecords
        /\ MaxRecords \in Nat /\ Wrap \in Nat /\ MaxRecords < Wrap
    BY <1>1, <2>2, CollectorAssumption DEF CollectorInv, TypeOK, Count, CollectorAssumption
  <2>4. last[Here].wr <= written[Here]
    BY <2>1, <2>2
  <2>5. Delta(seen, last[Here].rx) <= received[Here]
    BY <2>1, <2>3, DeltaFits
  <2>6. Delta(written[Here], last[Here].wr) <= written[Here]
    BY <2>3, <2>4, DeltaFits
  <2> QED
    BY <2>5, <2>6
<1> QED
  BY <1>1, CollectorInvariant, PTL
-----------------------------------------------------------------------------
(* What the caller is promised *)

\* the streams that are recorded, and what the session's meta.yaml shows
Active == IF running THEN {s \in Stream : phase[s] # "none"} ELSE {}
Shown == IF metaLost THEN <<"lost">> ELSE IF dir = NoDir THEN <<>> ELSE meta[dir]

LEMMA ShownIs ==
    ASSUME CollectorInv
    PROVE  /\ metaLost <=> Shown = <<"lost">>
           /\ running /\ ~metaLost => Shown = <<"start">>
           /\ ~labelled /\ ~metaLost => Shown = <<"start", "summary">>
           /\ ~running /\ ~metaLost => Shown \in Complete
           /\ ~metaLost /\ dir # NoDir => Shown = meta[dir]
<1>1. <<"lost">> # <<"start">> /\ <<"lost">> \notin Complete
  BY DEF Complete
<1>2. metaLost \in BOOLEAN /\ running \in BOOLEAN /\ dir \in 0..MaxClock \cup {NoDir}
  BY DEF CollectorInv, TypeOK
<1>3. CASE metaLost
  BY <1>2, <1>3 DEF Shown
<1>4. CASE ~metaLost /\ running
  BY <1>1, <1>2, <1>4 DEF Shown, CollectorInv, MetaInv
<1>5. CASE ~metaLost /\ ~running
  <2>1. Shown \in Complete
    BY <1>2, <1>5, Blocks DEF Shown, CollectorInv, MetaInv
  <2> QED
    BY <1>1, <1>2, <1>5, <2>1 DEF Shown, CollectorInv, MetaInv
<1> QED
  BY <1>2, <1>3, <1>4, <1>5

\* What a write of meta.yaml shows of it
LEMMA ShownWritten ==
    ASSUME CollectorInv, dir # NoDir, NEW content \in Seq(Block), MetaBecomes(content)
    PROVE  Shown' \in IF Shown = <<"lost">> THEN {<<"lost">>} ELSE {content, <<"lost">>}
<1>1. /\ dir' = dir /\ dir \in 0..MaxClock /\ (~metaLost' => ~metaLost /\ meta'[dir] = content)
  BY MetaWritten DEF CollectorInv
<1>2. metaLost <=> Shown = <<"lost">>
  BY ShownIs
<1>3. metaLost => metaLost'
  BY DEF MetaBecomes
<1>4. metaLost' => Shown' = <<"lost">>
  BY DEF Shown
<1>5. ~metaLost' => Shown' = content
  BY <1>1 DEF Shown
<1> QED
  BY <1>2, <1>3, <1>4, <1>5

LEMMA CallerInit == Init => Caller!Init
<1> SUFFICES ASSUME Init PROVE Caller!Init
  OBVIOUS
<1>1. running = FALSE /\ op = "idle" /\ DOMAIN summary = {} /\ metaLost = FALSE /\ dir = NoDir
  BY DEF Init, SessionInit, NoSummary
<1> QED
  BY <1>1 DEF Caller!Init

LEMMA CallerStep == CollectorInv /\ [Next]_vars => [Caller!Next]_(Caller!vars)
<1> SUFFICES ASSUME CollectorInv, [Next]_vars PROVE [Caller!Next]_(Caller!vars)
  OBVIOUS
<1>1. /\ TypeOK /\ OrderInv /\ PhaseInv /\ SummaryInv /\ MetaInv
      /\ Len(order) \in Nat /\ DOMAIN order = 1..Len(order)
      /\ at <= Len(order) => at \in DOMAIN order /\ Here \in Stream
      /\ running \in BOOLEAN /\ phase \in [Stream -> {"none", "on", "drain", "closed"}]
      /\ ~running => Active = {}
      /\ running => Active # {} /\ Active = {s \in Stream : phase[s] # "none"}
  BY HereIs DEF CollectorInv, TypeOK, PhaseInv, Active
<1>2. CASE UNCHANGED Active /\ UNCHANGED (op = "stop") /\ UNCHANGED DOMAIN summary /\ UNCHANGED Shown
  BY <1>2 DEF Caller!vars, Active, Shown
<1>3. CASE Start
  <2>1. /\ running = FALSE /\ running' = FALSE /\ op = "idle" /\ op' # "stop"
        /\ DOMAIN summary' = DOMAIN summary /\ metaLost' = metaLost /\ meta' = meta
    BY <1>3 DEF Start, SessionCreate, SessionCreateFails
  <2>2. dir' = NoDir \/ (dir' = clock /\ dir' # NoDir /\ dir' \in 0..MaxClock)
    BY <1>1, <1>3, ClockAssumption DEF Start, SessionCreate, SessionCreateFails, TypeOK, ClockAssumption
  <2>3. CASE metaLost
    <3>1. Shown' = Shown
      BY <2>1, <2>3 DEF Shown
    <3> QED
      BY <1>2, <2>1, <3>1 DEF Active
  <2>4. CASE ~metaLost
    <3>1. Shown # <<"lost">>
      BY <2>4, ShownIs
    <3>2. Shown' \in Complete
      BY <1>1, <2>1, <2>2, <2>4, Blocks DEF Shown, MetaInv
    <3>3. Active = {} /\ Active' = {}
      BY <2>1 DEF Active
    <3>4. Caller!Prepare
      BY <2>1, <3>1, <3>2, <3>3 DEF Caller!Prepare, Caller!Lost, Shown, Active, Complete
    <3> QED
      BY <3>4 DEF Caller!Next
  <2> QED
    BY <2>3, <2>4
<1>4. CASE StartStream \/ SkipStream \/ NoStream
  <2>1. /\ running = FALSE /\ running' = FALSE /\ op # "stop" /\ op' # "stop"
        /\ summary' = summary /\ UNCHANGED sessionVars
    BY <1>1, <1>4 DEF StartStream, SkipStream, NoStream, PhaseInv
  <2> QED
    BY <1>2, <2>1 DEF Active, Shown, sessionVars
<1>5. CASE Started
  <2>1. /\ op = "start" /\ running = FALSE /\ running' = TRUE /\ op' = "idle" /\ summary' = summary
        /\ phase' = phase /\ (\E s \in Stream : phase[s] # "none")
        /\ MetaBecomes(<<"start">>) /\ dir # NoDir
    BY <1>1, <1>5 DEF Started, WriteMeta, PhaseInv, MetaInv
  <2>2. Active = {} /\ Active' \in (SUBSET Stream) \ {{}}
    <3>1. Active = {} /\ Active' = {s \in Stream : phase[s] # "none"}
      BY <2>1 DEF Active
    <3>2. \E s \in Stream : phase[s] # "none"
      BY <2>1
    <3>3. Active' \subseteq Stream /\ Active' # {}
      BY <3>1, <3>2
    <3>4. Active' \in (SUBSET Stream) \ {{}}
      BY <3>3
    <3> QED
      BY <3>1, <3>4
  <2>3. Shown' \in IF Shown = <<"lost">> THEN {<<"lost">>} ELSE {<<"start">>, <<"lost">>}
    BY <2>1, Blocks, ShownWritten
  <2>4. Caller!Begin
    BY <2>1, <2>2, <2>3 DEF Caller!Begin, Caller!Write, Caller!Lost, Shown, Active
  <2> QED
    BY <2>4 DEF Caller!Next
<1>6. CASE PrintReport \/ LoadReceived \/ PrintStream \/ ReportDone
  <2>1. op # "stop" /\ op' # "stop" /\ UNCHANGED <<running, phase, summary, sessionVars>>
    BY <1>6 DEF PrintReport, LoadReceived, PrintStream, ReportDone
  <2> QED
    BY <1>2, <2>1 DEF Active, Shown, sessionVars
<1>7. CASE PassOver \/ UNCHANGED <<op, running, phase, summary, sessionVars>>
  <2>1. UNCHANGED <<op, running, phase, summary, sessionVars>>
    BY <1>7 DEF PassOver
  <2> QED
    BY <1>2, <2>1 DEF Active, Shown, sessionVars
<1>8. CASE Stop
  <2>1. op = "idle" /\ op' = "stop" /\ running /\ UNCHANGED <<running, phase, summary, sessionVars>>
    BY <1>8 DEF Stop
  <2>2. Active # {} /\ Active' = Active /\ Shown' = Shown
    BY <1>1, <2>1 DEF Active, Shown, sessionVars
  <2>3. Caller!Stop
    BY <2>1, <2>2 DEF Caller!Stop, Active, Shown
  <2> QED
    BY <2>3 DEF Caller!Next
<1>9. CASE StopSource
  <2>1. /\ UNCHANGED <<op, running, summary, sessionVars>> /\ Here \in Stream /\ phase[Here] = "on"
        /\ phase' = [phase EXCEPT ![Here] = "drain"]
    BY <1>1, <1>9 DEF StopSource
  <2>2. Active' = Active
    BY <1>1, <2>1 DEF Active
  <2> QED
    BY <1>2, <2>1, <2>2 DEF Shown, sessionVars
<1>10. CASE CloseStream
  <2>1. /\ op = "stop" /\ UNCHANGED <<op, running, sessionVars>> /\ running
        /\ Here \in Stream /\ phase[Here] = "drain"
        /\ phase' = [phase EXCEPT ![Here] = "closed"] /\ DOMAIN summary' = DOMAIN summary \cup {Here}
    BY <1>1, <1>10 DEF CloseStream, Summarize, PhaseInv
  <2>2. Active' = Active /\ Here \in Active /\ Here \notin DOMAIN summary /\ Shown' = Shown
    BY <1>1, <2>1 DEF Active, Shown, sessionVars, SummaryInv
  <2>3. Caller!Tell
    BY <2>1, <2>2 DEF Caller!Tell, Active, Shown
  <2> QED
    BY <2>3 DEF Caller!Next
<1>11. CASE Stopped
  <2>1. /\ op = "stop" /\ op' = "idle" /\ running /\ running' = FALSE /\ at > Len(order)
        /\ DOMAIN summary' = {} /\ MetaBecomes(Append(meta[dir], "summary")) /\ dir # NoDir
    BY <1>1, <1>11 DEF Stopped, FinalizeMeta, NoSummary, PhaseInv, MetaInv
  <2>2. \A s \in Stream : phase[s] # "none" => phase[s] = "closed"
    <3> TAKE s \in Stream
    <3> HAVE phase[s] # "none"
    <3>1. PICK i \in DOMAIN order : order[i] = s
      BY <1>1 DEF PhaseInv
    <3>2. i < at
      BY <1>1, <2>1, <3>1 DEF TypeOK
    <3> QED
      BY <1>1, <2>1, <3>1, <3>2 DEF PhaseInv
  <2>3. DOMAIN summary = Active /\ Active' = {}
    BY <1>1, <2>1, <2>2 DEF SummaryInv, Active
  <2>4. meta[dir] \in Seq(Block)
    BY <1>1, <2>1 DEF MetaInv, TypeOK
  <2>5. Shown' \in IF Shown = <<"lost">> THEN {<<"lost">>}
                   ELSE {Append(meta[dir], "summary"), <<"lost">>}
    BY <2>1, <2>4, Blocks, ShownWritten
  <2>6. Shown # <<"lost">> => Shown = meta[dir]
    BY <2>1, ShownIs
  <2>7. Shown' \in IF Shown = <<"lost">> THEN {<<"lost">>} ELSE {Append(Shown, "summary"), <<"lost">>}
    BY <2>5, <2>6
  <2>8. Caller!End
    BY <2>1, <2>3, <2>7 DEF Caller!End, Caller!Write, Caller!Lost, Active, Shown
  <2> QED
    BY <2>8 DEF Caller!Next
<1>12. CASE WriteResult
  <2>1. PICK result \in {"", "success", "fail"} : AppendResult(result)
    BY <1>12 DEF WriteResult
  <2>2. /\ op = "idle" /\ op' = op /\ ~running /\ UNCHANGED <<running, phase, summary>> /\ ~labelled
        /\ dir # NoDir
    BY <1>1, <1>12 DEF WriteResult, MetaInv
  <2>3. CASE UNCHANGED sessionVars
    BY <1>2, <2>2, <2>3 DEF Active, Shown, sessionVars
  <2>4. CASE MetaBecomes(Append(meta[dir], "result"))
    <3>1. meta[dir] \in Seq(Block)
      BY <1>1, <2>2 DEF MetaInv, TypeOK
    <3>2. Shown' \in IF Shown = <<"lost">> THEN {<<"lost">>}
                     ELSE {Append(meta[dir], "result"), <<"lost">>}
      BY <2>2, <2>4, <3>1, Blocks, ShownWritten
    <3>3. Shown # <<"lost">> => Shown = meta[dir] /\ Shown = <<"start", "summary">>
      BY <2>2, ShownIs
    <3>4. Shown' \in IF Shown = <<"lost">> THEN {<<"lost">>} ELSE {Append(Shown, "result"), <<"lost">>}
      BY <3>2, <3>3
    <3>5. Active = {} /\ Active' = {} /\ Shown \in {<<"start", "summary">>, <<"lost">>}
      BY <2>2, <3>3 DEF Active
    <3>6. Caller!Label
      BY <2>2, <3>4, <3>5 DEF Caller!Label, Caller!Write, Caller!Lost, Active, Shown
    <3> QED
      BY <3>6 DEF Caller!Next
  <2> QED
    BY <2>1, <2>3, <2>4 DEF AppendResult
<1>13. ASSUME NEW s \in Stream, Receive(s) \/ Settle(s)
       PROVE  UNCHANGED <<op, running, phase, summary, sessionVars>>
  BY <1>13 DEF Receive, Settle, collectorVars
<1>14. CASE Tick /\ UNCHANGED <<counterVars, reportVars, collectorVars>>
  BY <1>2, <1>14 DEF Tick, Active, Shown, collectorVars
<1>15. CASE UNCHANGED vars
  BY <1>7, <1>15 DEF vars, collectorVars
<1> QED
  BY <1>3, <1>4, <1>5, <1>6, <1>7, <1>8, <1>9, <1>10, <1>11, <1>12, <1>13, <1>14, <1>15
  DEF Next, StartStep, ReportStep, StopStep

\* The collector implements what its caller is promised of the streams, of the
\* summary and of the session's meta.yaml.
THEOREM IsRecording == Spec => Caller!Safety
  BY CallerInit, CallerStep, CollectorInvariant, PTL DEF Spec, Caller!Safety
-----------------------------------------------------------------------------
(* What the collector takes its streams for                                *)

\* A stream without an object has no counters.
ZeroInv == \A s \in Stream : phase[s] = "none" => received[s] = 0 /\ written[s] = 0 /\ lost[s] = 0

\* the counters and the phases stay as they are
Still == UNCHANGED <<phase, received, written, lost>>

\* What a step may do to a stream: nothing, or one of these.
Began(s) == /\ phase[s] = "none" /\ phase'[s] = "on"
            /\ received'[s] = 0 /\ written'[s] = 0 /\ lost'[s] = 0
Same(s) == /\ received'[s] = received[s] /\ written'[s] = written[s] /\ lost'[s] = lost[s]
Got(s) == /\ phase[s] = "on" /\ phase'[s] = "on" /\ received'[s] = received[s] + 1
          /\ written'[s] = written[s] /\ lost'[s] = lost[s]
Settles(s) == /\ phase[s] \in {"on", "drain"} /\ phase'[s] = phase[s]
              /\ written[s] + lost[s] < received[s] /\ received'[s] = received[s]
              /\ \/ written'[s] = written[s] + 1 /\ lost'[s] = lost[s]
                 \/ written'[s] = written[s] /\ lost'[s] = lost[s] + 1
SourceStops(s) == phase[s] = "on" /\ phase'[s] = "drain" /\ Same(s)
Closes(s) == /\ phase[s] = "drain" /\ phase'[s] = "closed" /\ Same(s)
             /\ written[s] + lost[s] = received[s]
Goes(s) == /\ phase[s] \in {"none", "closed"} /\ phase'[s] = "none"
           /\ received'[s] = 0 /\ written'[s] = 0 /\ lost'[s] = 0

\* Every stream stays as it is or does one of these.
LEMMA StreamSteps ==
    ASSUME CollectorInv, [Next]_vars, NEW s \in Stream
    PROVE  \/ phase'[s] = phase[s] /\ Same(s)
           \/ Began(s) \/ Got(s) \/ Settles(s) \/ SourceStops(s) \/ Closes(s) \/ Goes(s)
<1>1. /\ phase \in [Stream -> {"none", "on", "drain", "closed"}]
      /\ received \in [Stream -> Count] /\ written \in [Stream -> Count]
      /\ lost \in [Stream -> Count]
      /\ at <= Len(order) => at \in DOMAIN order /\ Here \in Stream
      /\ OrderInv /\ PhaseInv /\ TypeOK
  BY HereIs DEF CollectorInv, TypeOK
<1> USE DEF Same, counterVars, collectorVars
<1>2. CASE Still
  BY <1>2 DEF Still
<1>3. CASE Start \/ SkipStream \/ NoStream \/ Started \/ PrintReport
  BY <1>2, <1>3 DEF Still, Start, SkipStream, NoStream, Started, PrintReport
<1>4. CASE LoadReceived \/ PrintStream \/ ReportDone \/ PassOver \/ Stop \/ WriteResult
  BY <1>2, <1>4 DEF Still, LoadReceived, PrintStream, ReportDone, PassOver, Stop, WriteResult
<1>5. CASE UNCHANGED vars \/ (Tick /\ UNCHANGED <<counterVars, reportVars, collectorVars>>)
  BY <1>2, <1>5 DEF Still, vars
<1>6. CASE StartStream
  <2>1. /\ Here \in Stream /\ phase[Here] = "none"
        /\ phase' = [phase EXCEPT ![Here] = "on"] /\ received' = [received EXCEPT ![Here] = 0]
        /\ written' = [written EXCEPT ![Here] = 0] /\ lost' = [lost EXCEPT ![Here] = 0]
    <3>1. op = "start" /\ at <= Len(order) /\ at \in at..Len(order)
      BY <1>1, <1>6 DEF StartStream, TypeOK, OrderInv
    <3> QED
      BY <1>1, <1>6, <3>1 DEF StartStream, PhaseInv, Here
  <2> QED
    BY <1>1, <2>1 DEF Began
<1>7. CASE StopSource
  BY <1>1, <1>7 DEF StopSource, SourceStops
<1>8. CASE CloseStream
  BY <1>1, <1>8 DEF CloseStream, Closes
<1>9. CASE Stopped
  <2>1. phase[s] \in {"none", "closed"}
    <3>1. op = "stop" /\ at > Len(order)
      BY <1>9 DEF Stopped
    <3>2. CASE phase[s] # "none"
      <4>1. PICK i \in DOMAIN order : order[i] = s
        BY <1>1, <3>2 DEF PhaseInv
      <4>2. i < at
        BY <1>1, <3>1, <4>1 DEF TypeOK, OrderInv
      <4> QED
        BY <1>1, <3>1, <4>1, <4>2 DEF PhaseInv
    <3> QED
      BY <3>2
  <2> QED
    BY <1>9, <2>1 DEF Stopped, Goes
<1>10. ASSUME NEW t \in Stream, Receive(t)
       PROVE  (phase'[s] = phase[s] /\ Same(s)) \/ Got(s)
  BY <1>1, <1>10 DEF Receive, Got
<1>11. ASSUME NEW t \in Stream, Settle(t)
       PROVE  (phase'[s] = phase[s] /\ Same(s)) \/ Settles(s)
  BY <1>1, <1>11 DEF Settle, Settles
<1> QED
  BY <1>3, <1>4, <1>5, <1>6, <1>7, <1>8, <1>9, <1>10, <1>11
  DEF Next, StartStep, ReportStep, StopStep

LEMMA ZeroStep == CollectorInv /\ ZeroInv /\ [Next]_vars => ZeroInv'
<1> SUFFICES ASSUME CollectorInv, ZeroInv, [Next]_vars, NEW s \in Stream, phase'[s] = "none"
             PROVE  received'[s] = 0 /\ written'[s] = 0 /\ lost'[s] = 0
  BY DEF ZeroInv
<1> QED
  BY StreamSteps
  DEF ZeroInv, Same, Began, Got, Settles, SourceStops, Closes, Goes

LEMMA UnitSteps ==
    ASSUME CollectorInv, ZeroInv, [Next]_vars, NEW s \in Stream
    PROVE  [Unit(s)!Next]_(Unit(s)!vars)
<1> SUFFICES Unit(s)!Next \/ UNCHANGED Unit(s)!vars
  OBVIOUS
<1> USE DEF Same, Unit!vars, Unit!counters
<1>1. CASE phase'[s] = phase[s] /\ Same(s)
  BY <1>1
<1>2. CASE Began(s)
  <2>1. Unit(s)!TurnOn
    BY <1>2 DEF Began, ZeroInv, Unit!TurnOn
  <2> QED
    BY <2>1 DEF Unit!Next
<1>3. CASE Got(s)
  <2>1. Unit(s)!Receive
    BY <1>3 DEF Got, Unit!Receive
  <2> QED
    BY <2>1 DEF Unit!Next
<1>4. CASE Settles(s)
  <2>1. Unit(s)!Settle
    BY <1>4 DEF Settles, Unit!Settle
  <2> QED
    BY <2>1 DEF Unit!Next
<1>5. CASE SourceStops(s)
  <2>1. Unit(s)!TurnOff
    BY <1>5 DEF SourceStops, Unit!TurnOff
  <2> QED
    BY <2>1 DEF Unit!Next
<1>6. CASE Closes(s)
  <2>1. Unit(s)!Close
    BY <1>6 DEF Closes, Unit!Close, Unit!Settled
  <2> QED
    BY <2>1 DEF Unit!Next
<1>7. CASE Goes(s)
  <2>1. Unit(s)!Destroy
    BY <1>7 DEF Goes, Unit!Destroy
  <2> QED
    BY <2>1 DEF Unit!Next
<1> QED
  BY <1>1, <1>2, <1>3, <1>4, <1>5, <1>6, <1>7, StreamSteps

\* The collector takes each of its streams for no more than Assembly, which the
\* assemblies around an SDK subscriber implement, for any configuration and any
\* number of streams, records and runs.
THEOREM StreamsAreAssemblies == Spec => UsesAssemblies
<1>1. Init => ZeroInv /\ \A s \in Stream : Unit(s)!Init
  BY DEF Init, ZeroInv, Unit!Init
<1>2. CollectorInv /\ ZeroInv /\ [Next]_vars
         => ZeroInv' /\ [\A s \in Stream : [Unit(s)!Next]_(Unit(s)!vars)]_vars
  BY ZeroStep, UnitSteps
<1> QED
  BY <1>1, <1>2, CollectorInvariant, PTL DEF Spec, UsesAssemblies
=============================================================================
