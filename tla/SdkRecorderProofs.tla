------------------------- MODULE SdkRecorderProofs -------------------------
(***************************************************************************)
(* A RowRecorder, and an assembly of src/system around one, is a Recorder  *)
(* whatever its file does; what a kill leaves in the file; and that the    *)
(* callbacks always find the recorder open, however often the assembly is  *)
(* started, fails to start and is stopped, which then keeps every message. *)
(* The rows come first: they fit their headers for messages of every size, *)
(* of which the run tries two.                                             *)
(***************************************************************************)
EXTENDS SdkRecorder, RecorderProofs

(* The rows *)

\* the names of fields, of fields in a slot and of tables
FieldName == {"recv_ns", "tick", "mode_machine", "mode_pr", "quat_w", "quat_x", "quat_y",
              "quat_z", "gyro_x", "gyro_y", "gyro_z", "accel_x", "accel_y", "accel_z",
              "rpy_roll", "rpy_pitch", "rpy_yaw", "imu_temp", "stamp_ns", "seq",
              "arbiter_mode", "encoder_mode", "x", "y", "z"}
SlotName == {"mode", "q", "dq", "ddq", "tau", "kp", "kd", "token"} \cup Int
TableName == {"m", "f", "press", "t"}

Cell == {<<>>} \cup {<<x>> : x \in FieldName} \cup (TableName \X Int \X SlotName)

LEMMA FieldsAre ==
    ASSUME NEW names \in Seq(FieldName)
    PROVE  Fields(names) \in Seq(Cell) /\ Len(Fields(names)) = Len(names)
<1>1. ASSUME NEW i \in 1..Len(names) PROVE <<names[i]>> \in Cell
  <2>1. names[i] \in FieldName
    OBVIOUS
  <2> QED
    BY <2>1, Zenon DEF Cell
<1> QED
  BY <1>1 DEF Fields, Field

LEMMA SlotIsInt == ASSUME NEW c \in Nat, NEW k \in Nat \ {0}
                   PROVE  (c \div k) \in Nat /\ (c % k) \in 0..k-1
  OBVIOUS

LEMMA TableIs ==
    ASSUME NEW table \in TableName, NEW n \in Nat, NEW names \in Seq(SlotName), Len(names) # 0
    PROVE  Table(table, n, names) \in Seq(Cell) /\ Len(Table(table, n, names)) = n * Len(names)
<1> DEFINE k == Len(names)
           Col(c) == <<table, (c - 1) \div k, names[1 + ((c - 1) % k)]>>
<1>0. k \in Nat \ {0} /\ n * k \in Nat
  OBVIOUS
<1>1. ASSUME NEW c \in 1..n * k PROVE Col(c) \in Cell
  <2>1. c - 1 \in Nat
    BY <1>0
  <2> HIDE DEF k
  <2>2. (c - 1) \div k \in Int /\ 1 + ((c - 1) % k) \in 1..k
    BY <2>1, <1>0
  <2>3. names[1 + ((c - 1) % k)] \in SlotName
    BY <2>2 DEF k
  <2> QED
    BY <2>2, <2>3 DEF Cell
<1>2. Table(table, n, names) = [c \in 1..n * k |-> Col(c)]
  BY DEF Table, SlotField
<1> HIDE DEF k, Col
<1>3. [c \in 1..n * k |-> Col(c)] \in Seq(Cell)
  BY <1>0, <1>1
<1> QED
  BY <1>0, <1>2, <1>3 DEF k

\* what Under says of one column
At(msg, cells, columns, c) ==
    cells[c] = IF Lacks(msg, columns[c]) THEN Zero ELSE columns[c]

LEMMA Both ==
    ASSUME NEW msg, NEW S, NEW r1 \in Seq(S), NEW h1 \in Seq(S),
           NEW r2 \in Seq(S), NEW h2 \in Seq(S),
           Under(msg, r1, h1), Under(msg, r2, h2)
    PROVE  r1 \o r2 \in Seq(S) /\ h1 \o h2 \in Seq(S) /\ Under(msg, r1 \o r2, h1 \o h2)
<1>1. /\ Len(r1) = Len(h1) /\ Len(r2) = Len(h2)
      /\ \A c \in 1..Len(h1) : At(msg, r1, h1, c)
      /\ \A c \in 1..Len(h2) : At(msg, r2, h2, c)
  BY DEF Under, At
<1>2. /\ r1 \o r2 \in Seq(S) /\ h1 \o h2 \in Seq(S)
      /\ Len(r1 \o r2) = Len(r1) + Len(r2) /\ Len(h1 \o h2) = Len(h1) + Len(h2)
  OBVIOUS
<1>3. ASSUME NEW c \in 1..Len(h1 \o h2) PROVE At(msg, r1 \o r2, h1 \o h2, c)
  <2>1. CASE c <= Len(h1)
    <3>1. (r1 \o r2)[c] = r1[c] /\ (h1 \o h2)[c] = h1[c] /\ c \in 1..Len(h1)
      BY <2>1, <1>1
    <3> QED
      BY <3>1, <1>1 DEF At
  <2>2. CASE c > Len(h1)
    <3>1. /\ c - Len(h1) \in 1..Len(h2)
          /\ (r1 \o r2)[c] = r2[c - Len(h1)] /\ (h1 \o h2)[c] = h2[c - Len(h1)]
      BY <2>2, <1>1, <1>2
    <3>2. At(msg, r2, h2, c - Len(h1))
      BY <3>1, <1>1
    <3> QED
      BY <3>1, <3>2 DEF At
  <2> QED
    BY <2>1, <2>2
<1> QED
  BY <1>1, <1>2, <1>3 DEF Under, At

\* Fields, and the slots of an array, are under themselves.
LEMMA Own ==
    ASSUME NEW msg, NEW cells \in Seq(Cell),
           \A c \in 1..Len(cells) : cells[c][1] \notin {"f", "press"}
    PROVE  Under(msg, cells, cells)
  BY DEF Under, Lacks

LEMMA OwnFields ==
    ASSUME NEW msg, NEW names \in Seq(FieldName),
           \A i \in 1..Len(names) : names[i] \notin {"f", "press"}
    PROVE  Under(msg, Fields(names), Fields(names))
<1>1. \A c \in 1..Len(names) : Fields(names)[c][1] = names[c]
  BY DEF Fields, Field
<1> QED
  BY <1>1, FieldsAre, Own

LEMMA OwnTable ==
    ASSUME NEW msg, NEW table \in TableName, NEW n \in Nat, NEW names \in Seq(SlotName), Len(names) # 0,
           table \notin {"f", "press"}
    PROVE  Under(msg, Table(table, n, names), Table(table, n, names))
<1>1. \A c \in 1..n * Len(names) : Table(table, n, names)[c][1] = table
  BY DEF Table, SlotField
<1> QED
  BY <1>1, TableIs, Own

\* The slots of a vector are under the columns of its table, whatever the size
\* of the vector.
LEMMA PaddedUnder ==
    ASSUME NEW msg \in Message, NEW table \in {"f", "press"},
           NEW n \in Nat, NEW names \in Seq(SlotName), Len(names) # 0
    PROVE  LET have == IF table = "f" THEN msg.motors ELSE msg.pads
           IN  /\ Padded(table, n, have, names) \in Seq(Cell)
               /\ Under(msg, Padded(table, n, have, names), Table(table, n, names))
<1> DEFINE have == IF table = "f" THEN msg.motors ELSE msg.pads
           T == Table(table, n, names)
           slot(c) == (c - 1) \div Len(names)
           P == Padded(table, n, have, names)
<1>1. T \in Seq(Cell) /\ Len(T) = n * Len(names) /\ n * Len(names) \in Nat
  <2>2. table \in TableName
    BY DEF TableName
  <2>3. n * Len(names) \in Nat
    OBVIOUS
  <2> QED
    BY <2>2, <2>3, TableIs
<1>2. \A c \in 1..n * Len(names) : T[c][1] = table /\ T[c][2] = slot(c)
  BY DEF Table, SlotField
<1>3. P = [c \in 1..n * Len(names) |-> IF slot(c) < have THEN T[c] ELSE Zero]
  BY DEF Padded
<1>4. \A c \in 1..n * Len(names) : Lacks(msg, T[c]) <=> slot(c) >= have
  BY <1>2 DEF Lacks
<1>5. \A c \in 1..n * Len(names) : (slot(c) >= have) <=> ~(slot(c) < have)
  <2> SUFFICES ASSUME NEW c \in 1..n * Len(names)
               PROVE  (slot(c) >= have) <=> ~(slot(c) < have)
    OBVIOUS
  <2>1. have \in Nat
    BY DEF Message
  <2>2. c - 1 \in Nat /\ Len(names) \in Nat \ {0}
    BY <1>1
  <2>3. slot(c) \in Nat
    BY <2>2, SlotIsInt
  <2> HIDE DEF slot, have
  <2> QED
    BY <2>1, <2>3
<1> HIDE DEF have, T, slot, P
<1>6. Zero \in Cell
  BY DEF Zero, Cell
<1>7. P \in Seq(Cell) /\ Len(P) = Len(T)
  <2>1. \A c \in 1..n * Len(names) : (IF slot(c) < have THEN T[c] ELSE Zero) \in Cell
    BY <1>1, <1>6
  <2> QED
    BY <1>1, <1>3, <2>1
<1>8. Under(msg, P, T)
  BY <1>1, <1>3, <1>4, <1>5, <1>7 DEF Under
<1> QED
  BY <1>7, <1>8 DEF have, T, P
-----------------------------------------------------------------------------
LEMMA UwbFits == ASSUME NEW msg \in Message PROVE Fits("uwb", msg)
<1>1. Header("uwb") = kUwbCsvHeader /\ Row("uwb", msg) = kUwbCsvHeader
  BY DEF Header, Row, kUwbCsvHeader, uwb_row
<1> DEFINE A == <<"recv_ns", "stamp_ns", "x", "y", "z">>
<1>2. A \in Seq(FieldName) /\ \A i \in 1..Len(A) : A[i] \notin {"f", "press"}
  BY DEF FieldName
<1> HIDE DEF A
<1>3. Under(msg, Fields(A), Fields(A))
  BY <1>2, OwnFields
<1> QED
  BY <1>1, <1>3, Zenon DEF Fits, kUwbCsvHeader, A

LEMMA LowcmdFits == ASSUME NEW msg \in Message PROVE Fits("lowcmd", msg)
<1> DEFINE A == <<"recv_ns", "mode_pr", "mode_machine">>
           B == <<"mode", "q", "dq", "tau", "kp", "kd">>
<1>1. /\ Header("lowcmd") = Fields(A) \o Table("m", 35, B)
      /\ Row("lowcmd", msg) = Fields(A) \o Table("m", 35, B)
  BY DEF Header, Row, lowcmd_header, lowcmd_row, kLowcmdMotors, ArrayMotors
<1>2. A \in Seq(FieldName) /\ \A i \in 1..Len(A) : A[i] \notin {"f", "press"}
  BY DEF FieldName
<1>3. B \in Seq(SlotName) /\ Len(B) # 0
  BY DEF SlotName
<1>4. "m" \in TableName /\ "m" \notin {"f", "press"}
  BY DEF TableName
<1> HIDE DEF A, B
<1>5. Fields(A) \in Seq(Cell) /\ Under(msg, Fields(A), Fields(A))
  BY <1>2, FieldsAre, OwnFields
<1> DEFINE T == Table("m", 35, B)
<1>6. T \in Seq(Cell) /\ Under(msg, T, T)
  BY <1>3, <1>4, TableIs, OwnTable
<1> HIDE DEF T
<1>7. Under(msg, Fields(A) \o T, Fields(A) \o T)
  BY <1>5, <1>6, Both
<1> QED
  BY <1>1, <1>7, Zenon DEF Fits, T

LEMMA TokenFits == ASSUME NEW msg \in Message PROVE Fits("motion_token", msg)
<1> DEFINE A == <<"recv_ns", "stamp_ns", "seq", "arbiter_mode", "encoder_mode">>
           B == <<"token">>
           T == Table("t", 64, B)
<1>1. A \in Seq(FieldName) /\ \A i \in 1..Len(A) : A[i] \notin {"f", "press"}
  BY DEF FieldName
<1>2. B \in Seq(SlotName) /\ Len(B) = 1
  BY DEF SlotName
<1>3. "t" \in TableName /\ "t" \notin {"f", "press"}
  BY DEF TableName
<1>4. /\ Header("motion_token") = Fields(A) \o T
      /\ Row("motion_token", msg) = Fields(A) \o SubSeq(T, 1, 64)
  BY DEF Header, Row, motion_token_header, motion_token_row, kMotionTokenDim, ArrayToken
<1> HIDE DEF A, B
<1>5. T \in Seq(Cell) /\ Len(T) = 64 * Len(B) /\ Under(msg, T, T)
  <2>1. Len(B) # 0
    BY <1>2
  <2>2. Table("t", 64, B) \in Seq(Cell) /\ Len(Table("t", 64, B)) = 64 * Len(B)
    BY <1>2, <1>3, <2>1, TableIs
  <2>3. Under(msg, Table("t", 64, B), Table("t", 64, B))
    BY <1>2, <1>3, <2>1, OwnTable
  <2> QED
    BY <2>2, <2>3
<1> HIDE DEF T
<1>6. SubSeq(T, 1, 64) = T
  BY <1>2, <1>5
<1>7. Fields(A) \in Seq(Cell) /\ Under(msg, Fields(A), Fields(A))
  BY <1>1, FieldsAre, OwnFields
<1>8. Under(msg, Fields(A) \o T, Fields(A) \o T)
  BY <1>5, <1>7, Both
<1> QED
  BY <1>4, <1>6, <1>8, Zenon DEF Fits

LEMMA Dex3CmdFits == ASSUME NEW msg \in Message PROVE Fits("dex3_cmd", msg)
<1> DEFINE A == <<"recv_ns">>
           B == <<"mode", "q", "dq", "tau", "kp", "kd">>
<1>1. /\ Header("dex3_cmd") = Fields(A) \o Table("f", 7, B)
      /\ Row("dex3_cmd", msg) = Fields(A) \o Padded("f", 7, msg.motors, B)
  BY DEF Header, Row, dex3_cmd_header, dex3_cmd_row, kDex3CmdMotors
<1>2. A \in Seq(FieldName) /\ \A i \in 1..Len(A) : A[i] \notin {"f", "press"}
  BY DEF FieldName
<1>3. B \in Seq(SlotName) /\ Len(B) # 0
  BY DEF SlotName
<1>4. "f" \in TableName
  BY DEF TableName
<1> HIDE DEF A, B
<1>5. /\ Padded("f", 7, msg.motors, B) \in Seq(Cell)
      /\ Under(msg, Padded("f", 7, msg.motors, B), Table("f", 7, B))
  BY <1>3, PaddedUnder
<1>6. Table("f", 7, B) \in Seq(Cell)
  BY <1>3, <1>4, TableIs
<1>7. Fields(A) \in Seq(Cell) /\ Under(msg, Fields(A), Fields(A))
  BY <1>2, FieldsAre, OwnFields
<1>8. Under(msg, Fields(A) \o Padded("f", 7, msg.motors, B), Fields(A) \o Table("f", 7, B))
  BY <1>5, <1>6, <1>7, Both
<1> QED
  BY <1>1, <1>8, Zenon DEF Fits

LEMMA Dex3Fits == ASSUME NEW msg \in Message PROVE Fits("dex3", msg)
<1> DEFINE A == <<"recv_ns">>
           B == <<"q", "dq", "ddq", "tau">>
           F == Table("f", 7, B)
           G == Padded("f", 7, msg.motors, B)
           P == Table("press", 9, Channels)
           Q == Padded("press", 9, msg.pads, Channels)
<1>1. /\ Header("dex3") = (Fields(A) \o F) \o P
      /\ Row("dex3", msg) = (Fields(A) \o G) \o Q
  BY DEF Header, Row, dex3_header, dex3_row, kDex3Motors, kDex3PressPads
<1>2. A \in Seq(FieldName) /\ \A i \in 1..Len(A) : A[i] \notin {"f", "press"}
  BY DEF FieldName
<1>3. B \in Seq(SlotName) /\ Len(B) # 0
  BY DEF SlotName
<1>4. Channels \in Seq(SlotName) /\ Len(Channels) # 0
  BY DEF SlotName, Channels, kDex3PressChannel
<1>5. "f" \in TableName /\ "press" \in TableName
  BY DEF TableName
<1> HIDE DEF A, B
<1>6. F \in Seq(Cell) /\ G \in Seq(Cell) /\ Under(msg, G, F)
  BY <1>3, <1>5, TableIs, PaddedUnder
<1>7. P \in Seq(Cell) /\ Q \in Seq(Cell) /\ Under(msg, Q, P)
  BY <1>4, <1>5, TableIs, PaddedUnder
<1>8. Fields(A) \in Seq(Cell) /\ Under(msg, Fields(A), Fields(A))
  BY <1>2, FieldsAre, OwnFields
<1> HIDE DEF F, G, P, Q
<1>9. /\ Fields(A) \o G \in Seq(Cell) /\ Fields(A) \o F \in Seq(Cell)
      /\ Under(msg, Fields(A) \o G, Fields(A) \o F)
  BY <1>6, <1>8, Both
<1>10. Under(msg, (Fields(A) \o G) \o Q, (Fields(A) \o F) \o P)
  BY <1>7, <1>9, Both
<1> QED
  BY <1>1, <1>10, Zenon DEF Fits

LEMMA LowstateFits == ASSUME NEW msg \in Message PROVE Fits("lowstate", msg)
<1> DEFINE A == <<"recv_ns", "tick", "mode_machine", "mode_pr",
                  "quat_w", "quat_x", "quat_y", "quat_z", "gyro_x", "gyro_y", "gyro_z",
                  "accel_x", "accel_y", "accel_z", "rpy_roll", "rpy_pitch", "rpy_yaw",
                  "imu_temp">>
           B == <<"q", "dq", "ddq", "tau">>
           T == Table("m", 35, B)
           R == Fields(<<"recv_ns", "tick", "mode_machine", "mode_pr">>)
                \o Fields(<<"quat_w", "quat_x", "quat_y", "quat_z">>)
                \o Fields(<<"gyro_x", "gyro_y", "gyro_z">>)
                \o Fields(<<"accel_x", "accel_y", "accel_z">>)
                \o Fields(<<"rpy_roll", "rpy_pitch", "rpy_yaw">>) \o Fields(<<"imu_temp">>)
<1>1. Header("lowstate") = Fields(A) \o T /\ Row("lowstate", msg) = R \o T
  BY DEF Header, Row, lowstate_header, lowstate_row, kLowstateMotors, ArrayMotors
<1>2. R = Fields(A)
  BY DEF Fields, Field
<1>3. A \in Seq(FieldName) /\ \A i \in 1..Len(A) : A[i] \notin {"f", "press"}
  BY DEF FieldName
<1>4. B \in Seq(SlotName) /\ Len(B) # 0
  BY DEF SlotName
<1>5. "m" \in TableName /\ "m" \notin {"f", "press"}
  BY DEF TableName
<1> HIDE DEF A, B, R
<1>6. Fields(A) \in Seq(Cell) /\ Under(msg, Fields(A), Fields(A))
  BY <1>3, FieldsAre, OwnFields
<1>7. T \in Seq(Cell) /\ Under(msg, T, T)
  BY <1>4, <1>5, TableIs, OwnTable
<1> HIDE DEF T
<1>8. Under(msg, Fields(A) \o T, Fields(A) \o T)
  BY <1>6, <1>7, Both
<1> QED
  BY <1>1, <1>2, <1>8, Zenon DEF Fits

\* Whatever sizes a publisher gives the vectors of its messages, the row of
\* each assembly has one cell under each column of its header, the column's
\* own field or a zero where the message has none.
THEOREM EveryRowFits == \A assembly \in Assemblies : \A msg \in Message : Fits(assembly, msg)
<1> TAKE assembly \in Assemblies
<1> TAKE msg \in Message
<1> QED
  BY UwbFits, LowcmdFits, TokenFits, Dex3CmdFits, Dex3Fits, LowstateFits, Zenon DEF Assemblies
-----------------------------------------------------------------------------
(* The recorder *)

LEMMA StepIsRecorderStep == [Next]_vars => [RecorderNext]_recorderVars
<1> SUFFICES ASSUME [Next]_vars PROVE RecorderNext \/ UNCHANGED recorderVars
  OBVIOUS
<1> USE DEF RecorderNext, CallerStep, WriterStep, OwnerStep
<1>1. CASE Push
  BY <1>1 DEF Push
<1>2. CASE WriterThread
  BY <1>2 DEF WriterThread, TakeBatch, WriteRow, Flush, Exit
<1>3. CASE OwnerThread
  BY <1>3 DEF OwnerThread, Open, OpenFails, Close, Join
<1>4. CASE UNCHANGED vars
  BY <1>4 DEF vars
<1> QED
  BY <1>1, <1>2, <1>3, <1>4 DEF Next

\* Every behaviour of a RowRecorder is a behaviour of a Recorder.
THEOREM IsRecorder == Spec => RecorderSpec
<1>1. Init => RecorderInit
  BY DEF Init
<1> QED
  BY <1>1, StepIsRecorderStep, PTL DEF Spec, RecorderSpec

\* No row is ever unaccounted for, rows are written in the order they were
\* accepted, and close() leaves none behind.
THEOREM RowsAccounted == Spec => [](Accounted /\ AcceptedInOrder /\ ClosedIsDrained)
  BY IsRecorder, AllAccounted, Ordered, Drains, PTL
-----------------------------------------------------------------------------
(* The file.  ThisRun grows with what is attempted; a good file's content  *)
(* is always all of it, and what a flush took stays.                       *)

\* The inductive invariant, next to IInv.
FileInv ==
    /\ file \in Stream(Line)
    /\ runStart \in Nat /\ runStart <= Len(attempted)
    /\ owner # "idle" => runs > 0
    /\ owner = "idle" => ~file.isOpen /\ (file.good => file.buffered = <<>>)
    /\ file.good => Content(file) = IF runs = 0 THEN <<>> ELSE ThisRun
    /\ flushed \in Nat /\ flushed <= Len(ThisRun) /\ flushed <= Len(file.disk)
    /\ \A i \in 1..flushed : file.disk[i] = ThisRun[i]

LEMMA ThisRunIs ==
    ASSUME attempted \in Seq(Record), runStart \in Nat, runStart <= Len(attempted)
    PROVE  /\ ThisRun \in Seq(Line) /\ Len(ThisRun) = 1 + Len(attempted) - runStart
           /\ ThisRun[1] = HeaderLine
           /\ \A i \in 2..Len(ThisRun) : ThisRun[i] = attempted[runStart + i - 1]
<1> DEFINE rows == SubSeq(attempted, runStart + 1, Len(attempted))
<1>1. /\ rows \in Seq(Record) /\ Len(rows) = Len(attempted) - runStart
      /\ \A i \in 1..Len(attempted) - runStart : rows[i] = attempted[runStart + i]
  BY SubSeqIs, LenProperties
<1>2. rows \in Seq(Line) /\ <<HeaderLine>> \in Seq(Line)
  BY <1>1 DEF Line
<1>3. ThisRun = <<HeaderLine>> \o rows
  BY DEF ThisRun
<1> HIDE DEF rows
<1>4. /\ ThisRun \in Seq(Line) /\ Len(ThisRun) = 1 + Len(rows)
      /\ \A i \in 1..1 + Len(rows) :
            ThisRun[i] = IF i <= 1 THEN HeaderLine ELSE rows[i - 1]
  BY <1>2, <1>3, ConcatProperties
<1>5. ASSUME NEW i \in 2..Len(ThisRun) PROVE ThisRun[i] = attempted[runStart + i - 1]
  <2>1. i - 1 \in 1..Len(attempted) - runStart /\ i \in 1..1 + Len(rows) /\ ~(i <= 1)
    BY <1>1, <1>4, LenProperties
  <2>2. rows[i - 1] = attempted[runStart + (i - 1)] /\ runStart + (i - 1) = runStart + i - 1
    BY <1>1, <2>1
  <2> QED
    BY <1>4, <2>1, <2>2
<1>6. Len(ThisRun) = 1 + Len(attempted) - runStart /\ ThisRun[1] = HeaderLine
  BY <1>1, <1>4, LenProperties
<1> QED
  BY <1>4, <1>5, <1>6

\* A row more is attempted: it is the next of this run.
LEMMA ThisRunGrows ==
    ASSUME attempted \in Seq(Record), runStart \in Nat, runStart <= Len(attempted),
           NEW r \in Record, attempted' = Append(attempted, r), UNCHANGED runStart
    PROVE  ThisRun' = ThisRun \o <<r>>
<1> DEFINE rows == SubSeq(attempted, runStart + 1, Len(attempted))
           grown == SubSeq(attempted', runStart + 1, Len(attempted'))
<1>1. /\ attempted' \in Seq(Record) /\ Len(attempted') = Len(attempted) + 1
      /\ attempted'[Len(attempted) + 1] = r
      /\ \A i \in 1..Len(attempted) : attempted'[i] = attempted[i]
  BY AppendProperties
<1>2. /\ rows \in Seq(Record) /\ Len(rows) = Len(attempted) - runStart
      /\ \A i \in 1..Len(attempted) - runStart : rows[i] = attempted[runStart + i]
  BY SubSeqIs, LenProperties
<1>3. /\ grown \in Seq(Record) /\ Len(grown) = Len(attempted) + 1 - runStart
      /\ \A i \in 1..Len(attempted) + 1 - runStart : grown[i] = attempted'[runStart + i]
  BY <1>1, SubSeqIs, LenProperties
<1>4. ThisRun = <<HeaderLine>> \o rows /\ ThisRun' = <<HeaderLine>> \o grown
  BY DEF ThisRun
<1> HIDE DEF rows, grown
<1>5. grown = rows \o <<r>>
  <2>1. rows \o <<r>> \in Seq(Record) /\ Len(rows \o <<r>>) = Len(grown)
    BY <1>2, <1>3
  <2>2. ASSUME NEW i \in 1..Len(grown) PROVE grown[i] = (rows \o <<r>>)[i]
    <3>1. (rows \o <<r>>)[i] = IF i <= Len(rows) THEN rows[i] ELSE r
      BY <1>2, <1>3
    <3>2. grown[i] = attempted'[runStart + i]
      BY <1>3
    <3>3. CASE i <= Len(rows)
      <4>1. rows[i] = attempted[runStart + i] /\ runStart + i \in 1..Len(attempted)
        BY <1>2, <3>3
      <4> QED
        BY <1>1, <3>1, <3>2, <3>3, <4>1
    <3>4. CASE i > Len(rows)
      <4>1. runStart + i = Len(attempted) + 1
        BY <1>2, <1>3, <3>4
      <4> QED
        BY <1>1, <1>2, <1>3, <3>1, <3>2, <3>4, <4>1
    <3> QED
      BY <1>2, <1>3, <3>3, <3>4, LenProperties
  <2> QED
    BY <1>3, <2>1, <2>2, SeqEqual
<1>6. (<<HeaderLine>> \o rows) \o <<r>> = <<HeaderLine>> \o (rows \o <<r>>)
  <2>1. <<HeaderLine>> \in Seq(Line) /\ rows \in Seq(Line) /\ <<r>> \in Seq(Line)
    BY <1>2 DEF Line
  <2> QED
    BY <2>1, ConcatAssociative
<1> QED
  BY <1>4, <1>5, <1>6

LEMMA FileInit == Init => FileInv
<1> SUFFICES ASSUME Init PROVE FileInv
  OBVIOUS
<1>1. /\ file = Unopened /\ runStart = 0 /\ flushed = 0
      /\ owner = "idle" /\ runs = 0 /\ attempted = <<>>
  BY DEF Init, RecorderInit
<1>2. file \in Stream(Line) /\ Content(file) = <<>> /\ Len(file.disk) = 0
  BY <1>1 DEF Unopened, Stream, Content
<1>3. attempted \in Seq(Record) /\ Len(attempted) = 0
  BY <1>1
<1>4. Len(ThisRun) = 1
  BY <1>1, <1>3, ThisRunIs
<1> QED
  BY <1>1, <1>2, <1>3, <1>4 DEF FileInv, Unopened

\* What was flushed stays in a file that only grows under a run that only grows.
LEMMA FlushedStays ==
    ASSUME FileInv, Grows(file, file'), UNCHANGED flushed,
           file' \in Stream(Line), ThisRun' \in Seq(Line), Len(ThisRun) <= Len(ThisRun'),
           ThisRun \in Seq(Line),
           \A i \in 1..Len(ThisRun) : ThisRun'[i] = ThisRun[i]
    PROVE  /\ flushed' \in Nat /\ flushed' <= Len(ThisRun') /\ flushed' <= Len(file'.disk)
           /\ \A i \in 1..flushed' : file'.disk[i] = ThisRun'[i]
<1>1. /\ Len(ThisRun) \in Nat /\ Len(ThisRun') \in Nat
      /\ Len(file.disk) \in Nat /\ Len(file'.disk) \in Nat
  BY LenProperties DEF FileInv, Stream
<1> QED
  BY <1>1 DEF FileInv, Grows

LEMMA FileStep == IInv /\ FileInv /\ [Next]_vars => FileInv'
<1> SUFFICES ASSUME IInv, FileInv, [Next]_vars PROVE FileInv'
  OBVIOUS
<1>0. /\ attempted \in Seq(Record) /\ batch \in Seq(Record) /\ Len(attempted) \in Nat
      /\ runs \in Nat /\ (owner = "idle" => writer = "absent")
      /\ file \in Stream(Line) /\ runStart \in Nat /\ runStart <= Len(attempted)
      /\ flushed \in Nat
  BY LenProperties DEF IInv, RecorderTypeOK, WriterMatchesOwner, FileInv
<1>1. ThisRun \in Seq(Line) /\ Len(ThisRun) \in Nat
  BY <1>0, ThisRunIs, LenProperties
\* a step that leaves all of this alone, but for the owner going on to the join
<1>2. ASSUME UNCHANGED <<file, runStart, flushed, attempted, runs>>,
             owner' = owner \/ (owner = "open" /\ owner' = "joining")
      PROVE  FileInv'
  <2>1. ThisRun' = ThisRun
    BY <1>2 DEF ThisRun
  <2> QED
    BY <1>2, <2>1 DEF FileInv
<1>3. CASE Push
  BY <1>2, <1>3 DEF Push, CallerStep, Receive, Enqueue, Refuse, CountDrop
<1>4. CASE TakeBatch \/ Exit
  BY <1>2, <1>4 DEF TakeBatch, PopBatch, Exit, WriterExit
<1>5. CASE Close
  BY <1>2, <1>5 DEF Close, BeginClose
<1>6. CASE UNCHANGED vars
  BY <1>2, <1>6 DEF vars, recorderVars
<1>7. CASE WriteRow
  <2> DEFINE r == Head(batch)
  <2>1. /\ r \in Record /\ <<r>> \in Seq(Line) /\ file' \in WriteOutcomes(file, <<r>>)
        /\ writer = "write" /\ attempted' = Append(attempted, r)
        /\ UNCHANGED <<runStart, flushed, owner, runs>>
    BY <1>0, <1>7, HeadTailProperties DEF WriteRow, WriteOne, Line
  <2> HIDE DEF r
  <2>2. /\ file' \in Stream(Line) /\ file'.isOpen = file.isOpen /\ Grows(file, file')
        /\ file'.good => file.good /\ Content(file') = Content(file) \o <<r>>
    <3> DEFINE x == <<r>>
    <3>1. x \in Seq(Line) /\ file' \in WriteOutcomes(file, x)
      BY <2>1
    <3> HIDE DEF x
    <3>2. /\ file' \in Stream(Line) /\ file'.isOpen = file.isOpen /\ Grows(file, file')
          /\ file'.good => file.good /\ Content(file') = Content(file) \o x
      BY <1>0, <3>1, Written
    <3> QED
      BY <3>2 DEF x
  <2>3. ThisRun' = ThisRun \o <<r>>
    BY <1>0, <2>1, ThisRunGrows
  <2>4. /\ ThisRun' \in Seq(Line) /\ Len(ThisRun) <= Len(ThisRun')
        /\ \A i \in 1..Len(ThisRun) : ThisRun'[i] = ThisRun[i]
    BY <1>1, <2>1, <2>3
  <2>5. /\ flushed' \in Nat /\ flushed' <= Len(ThisRun') /\ flushed' <= Len(file'.disk)
        /\ \A i \in 1..flushed' : file'.disk[i] = ThisRun'[i]
    BY <1>1, <2>1, <2>2, <2>4, FlushedStays
  <2>6. owner # "idle" /\ runs > 0 /\ UNCHANGED <<owner, runs>>
    BY <1>0, <2>1 DEF FileInv
  <2>7. file'.good => Content(file') = ThisRun'
    BY <2>2, <2>3, <2>6 DEF FileInv
  <2>8. runStart' \in Nat /\ runStart' <= Len(attempted')
    BY <1>0, <2>1
  <2> QED
    BY <1>0, <2>2, <2>5, <2>6, <2>7, <2>8 DEF FileInv
<1>8. CASE Flush
  <2>1. /\ file' \in FlushOutcomes(file) /\ writer = "flush"
        /\ flushed' = IF file'.good THEN 1 + Len(attempted) - runStart ELSE flushed
        /\ UNCHANGED <<runStart, attempted, owner, runs>>
    BY <1>8 DEF Flush, EndBatch
  <2>2. ThisRun' = ThisRun /\ Len(ThisRun) = 1 + Len(attempted) - runStart
    BY <1>0, <2>1, ThisRunIs DEF ThisRun
  <2>3. owner # "idle" /\ runs > 0
    BY <1>0, <2>1 DEF FileInv
  <2>4. /\ file' \in Stream(Line) /\ file'.isOpen = file.isOpen /\ Grows(file, file')
        /\ file'.good => file.good /\ file'.buffered = <<>> /\ file'.disk = Content(file)
    <3>1. CASE file.good
      BY <1>0, <2>1, <3>1, Synced DEF FlushOutcomes
    <3>2. CASE ~file.good
      BY <1>0, <2>1, <3>2 DEF FlushOutcomes, Grows
    <3> QED
      BY <3>1, <3>2
  <2>5. file'.good => file'.disk = ThisRun /\ Content(file') = ThisRun
    <3> SUFFICES ASSUME file'.good PROVE file'.disk = ThisRun /\ Content(file') = ThisRun
      OBVIOUS
    <3>1. file'.disk = ThisRun /\ file'.buffered = <<>>
      BY <2>3, <2>4 DEF FileInv
    <3> QED
      BY <1>1, <3>1, ConcatEmptySeq DEF Content
  <2>6. /\ flushed' \in Nat /\ flushed' <= Len(ThisRun') /\ flushed' <= Len(file'.disk)
        /\ \A i \in 1..flushed' : file'.disk[i] = ThisRun'[i]
    <3>1. CASE file'.good
      BY <1>0, <1>1, <2>1, <2>2, <2>5, <3>1
    <3>2. CASE ~file'.good
      BY <1>1, <2>1, <2>2, <2>4, <3>2, FlushedStays
    <3> QED
      BY <3>1, <3>2
  <2> QED
    BY <1>0, <2>1, <2>2, <2>3, <2>4, <2>5, <2>6 DEF FileInv
<1>9. CASE Join
  <2>1. /\ file' \in CloseOutcomes(file) /\ owner' = "idle" /\ owner = "joining"
        /\ UNCHANGED <<runStart, flushed, attempted, runs>>
    BY <1>9 DEF Join, EndClose
  <2>2. PICK g \in SyncOutcomes(file) : file' = [g EXCEPT !.isOpen = FALSE]
    BY <2>1 DEF CloseOutcomes
  <2>3. /\ g \in Stream(Line) /\ Grows(file, g)
        /\ g.good => file.good /\ g.buffered = <<>> /\ g.disk = Content(file)
    BY <1>0, Synced
  <2>4. /\ file' \in Stream(Line) /\ ~file'.isOpen /\ Grows(file, file')
        /\ file'.good => file.good /\ file'.buffered = <<>> /\ file'.disk = Content(file)
    BY <2>2, <2>3 DEF Stream, Grows
  <2>5. ThisRun' = ThisRun
    BY <2>1 DEF ThisRun
  <2>6. runs > 0 /\ runs' > 0
    BY <2>1 DEF FileInv
  <2>7. file'.good => Content(file') = ThisRun'
    <3> SUFFICES ASSUME file'.good PROVE Content(file') = ThisRun
      BY <2>5
    <3>1. file'.disk = ThisRun /\ file'.buffered = <<>>
      BY <2>4, <2>6 DEF FileInv
    <3> QED
      BY <1>1, <3>1, ConcatEmptySeq DEF Content
  <2>8. /\ flushed' \in Nat /\ flushed' <= Len(ThisRun') /\ flushed' <= Len(file'.disk)
        /\ \A i \in 1..flushed' : file'.disk[i] = ThisRun'[i]
    BY <1>1, <2>1, <2>4, <2>5, FlushedStays
  <2> QED
    BY <1>0, <2>1, <2>4, <2>6, <2>7, <2>8 DEF FileInv
<1>10. CASE Open
  <2>1. PICK f \in {g \in OpenOutcomes(file) : g.isOpen} :
            file' \in WriteOutcomes(f, <<HeaderLine>>)
    BY <1>10 DEF Open
  <2>2. /\ runStart' = Len(attempted) /\ flushed' = 0 /\ attempted' = attempted
        /\ owner = "idle" /\ owner' = "open" /\ runs' = runs + 1
    BY <1>10 DEF Open, StartRun
  <2>3. f = [Unopened EXCEPT !.isOpen = TRUE]
    <3>1. ~file.isOpen
      BY <2>2 DEF FileInv
    <3> QED
      BY <1>0, <2>1, <3>1 DEF OpenOutcomes, Stream
  <2>4. f \in Stream(Line) /\ Content(f) = <<>> /\ <<HeaderLine>> \in Seq(Line)
    <3>1. f = [isOpen |-> TRUE, good |-> TRUE, buffered |-> <<>>, disk |-> <<>>]
      BY <2>3 DEF Unopened
    <3>2. HeaderLine \in Line
      BY DEF Line
    <3> QED
      BY <3>1, <3>2 DEF Stream, Content
  <2>5. file' \in Stream(Line) /\ (file'.good => Content(file') = <<HeaderLine>>)
    <3> DEFINE x == <<HeaderLine>>
    <3>1. x \in Seq(Line) /\ file' \in WriteOutcomes(f, x)
      BY <2>1, <2>4
    <3> HIDE DEF x
    <3>2. file' \in Stream(Line) /\ (file'.good => Content(file') = Content(f) \o x)
      BY <2>4, <3>1, Written
    <3>3. <<>> \o x = x
      BY <3>1, ConcatEmptySeq
    <3> QED
      BY <2>4, <3>2, <3>3 DEF x
  <2>6. ThisRun' = <<HeaderLine>> /\ Len(ThisRun') = 1
    <3>1. SubSeq(attempted', runStart' + 1, Len(attempted')) = <<>>
      BY <1>0, <2>2, SubSeqEmpty
    <3>2. <<HeaderLine>> \o <<>> = <<HeaderLine>> /\ Len(<<HeaderLine>>) = 1
      BY <2>4, ConcatEmptySeq
    <3> QED
      BY <3>1, <3>2 DEF ThisRun
  <2> QED
    BY <1>0, <2>2, <2>5, <2>6, LenProperties DEF FileInv, Stream
<1>11. CASE OpenFails
  <2>1. /\ file' \in OpenOutcomes(file) /\ ~file'.isOpen
        /\ UNCHANGED <<runStart, flushed, attempted, owner, runs>>
    BY <1>11 DEF OpenFails, recorderVars
  <2>2. file' = [file EXCEPT !.good = FALSE]
    BY <2>1 DEF OpenOutcomes, Unopened
  <2>3. /\ file' \in Stream(Line) /\ ~file'.good /\ file'.disk = file.disk
    BY <1>0, <2>2 DEF Stream
  <2>4. ThisRun' = ThisRun
    BY <2>1 DEF ThisRun
  <2> QED
    BY <1>0, <2>1, <2>3, <2>4 DEF FileInv
<1> QED
  BY <1>3, <1>4, <1>5, <1>6, <1>7, <1>8, <1>9, <1>10, <1>11
  DEF Next, WriterThread, OwnerThread
-----------------------------------------------------------------------------
\* A subscriber calls only between start() and stop(), a call is over when
\* its subscriber is gone, and the recorder is open around all of that.
Inv == /\ channel = "open" => owner = "open" /\ op \in {"idle", "reset"}
       /\ op = "channel" => owner = "open"
       /\ op = "idle" => (running <=> channel = "open")
       /\ caller # "idle" => channel = "open"
       /\ op = "idle" /\ ~running => owner = "idle"
       /\ op = "join" <=> owner = "joining"

LEMMA StepIsRowStep == [SdkNext]_assemblyVars => [Next]_vars
<1> SUFFICES ASSUME [SdkNext]_assemblyVars PROVE Next \/ UNCHANGED vars
  OBVIOUS
<1>1. CASE Callback
  BY <1>1 DEF Callback, Next
<1>2. CASE WriteRows
  BY <1>2 DEF WriteRows, Next
<1>3. CASE AssemblyStep
  BY <1>3 DEF AssemblyStep, Start, StartFails, InitChannel, InitChannelFails, Stop,
              ResetSubscriber, CloseRecorder, CloseNothing, Joined, Next, OwnerThread
<1>4. CASE UNCHANGED assemblyVars
  BY <1>4 DEF assemblyVars
<1> QED
  BY <1>1, <1>2, <1>3, <1>4 DEF SdkNext

\* What push() and the writer thread do leaves the owner's state alone.
LEMMA OwnerKept ==
    /\ Push => UNCHANGED owner
    /\ WriterThread => UNCHANGED <<owner, caller>>
<1>1. Push => UNCHANGED owner
  BY DEF Push, CallerStep, Receive, Enqueue, Refuse, CountDrop
<1>2. WriterThread => UNCHANGED <<owner, caller>>
  BY DEF WriterThread, TakeBatch, WriteRow, Flush, Exit, PopBatch, WriteOne,
         EndBatch, WriterExit, callerVars
<1> QED
  BY <1>1, <1>2

LEMMA InvStep == Inv /\ [SdkNext]_assemblyVars => Inv'
<1> SUFFICES ASSUME Inv, [SdkNext]_assemblyVars PROVE Inv'
  OBVIOUS
<1> USE DEF Inv
<1>1. CASE Callback
  BY <1>1, OwnerKept DEF Callback, sdkVars
<1>2. CASE WriteRows
  BY <1>2, OwnerKept DEF WriteRows, sdkVars
<1>3. CASE Start
  BY <1>3 DEF Start, Open, StartRun, callerVars
<1>4. CASE StartFails
  BY <1>4 DEF StartFails, OpenFails, recorderVars, callerVars, sdkVars
<1>5. CASE InitChannel
  BY <1>5 DEF InitChannel, vars, recorderVars, callerVars
<1>6. CASE InitChannelFails
  BY <1>6 DEF InitChannelFails, vars, recorderVars, callerVars
<1>7. CASE Stop
  BY <1>7 DEF Stop, vars, recorderVars, callerVars
<1>8. CASE ResetSubscriber
  BY <1>8 DEF ResetSubscriber, vars, recorderVars, callerVars
<1>9. CASE CloseRecorder
  BY <1>9 DEF CloseRecorder, Close, BeginClose, callerVars
<1>10. CASE CloseNothing
  BY <1>10 DEF CloseNothing, vars, recorderVars, callerVars
<1>11. CASE Joined
  BY <1>11 DEF Joined, Join, EndClose, callerVars
<1>12. CASE UNCHANGED assemblyVars
  BY <1>12 DEF assemblyVars, vars, recorderVars, callerVars, sdkVars
<1> QED
  BY <1>1, <1>2, <1>3, <1>4, <1>5, <1>6, <1>7, <1>8, <1>9, <1>10, <1>11, <1>12
  DEF SdkNext, AssemblyStep
-----------------------------------------------------------------------------
LEMMA SdkInits == SdkInit => Inv /\ IInv /\ FileInv
  BY InitIInv, FileInit DEF SdkInit, Init, RecorderInit, Inv

LEMMA SdkInvariance == SdkSpec => [](Inv /\ IInv /\ FileInv)
<1>1. [SdkNext]_assemblyVars => [Next]_vars /\ [RecorderNext]_recorderVars
  BY StepIsRowStep, StepIsRecorderStep
<1>2. Inv /\ IInv /\ FileInv /\ [SdkNext]_assemblyVars => (Inv /\ IInv /\ FileInv)'
  BY <1>1, InvStep, IInvStep, FileStep
<1> QED
  BY <1>2, SdkInits, PTL DEF SdkSpec, SdkSafety

LEMMA TypesFollow == IInv /\ FileInv => TypeOK
  BY DEF IInv, FileInv, TypeOK

\* The rows of this run, and that a good file has a prefix of them.
LEMMA PrefixFollows == IInv /\ FileInv => FileIsPrefix
<1> SUFFICES ASSUME IInv, FileInv PROVE FileIsPrefix
  OBVIOUS
<1>1. /\ attempted \in Seq(Record) /\ runStart \in Nat /\ runStart <= Len(attempted)
      /\ file \in Stream(Line) /\ flushed \in Nat
      /\ flushed <= Len(ThisRun) /\ flushed <= Len(file.disk)
  BY DEF IInv, RecorderTypeOK, FileInv
<1>2. ThisRun \in Seq(Line) /\ file.disk \in Seq(Line) /\ file.buffered \in Seq(Line)
      /\ Len(ThisRun) \in Nat /\ Len(file.disk) \in Nat
  BY <1>1, ThisRunIs, LenProperties DEF Stream
<1>3. ASSUME file.good PROVE IsPrefix(file.disk, ThisRun)
  <2>1. CASE runs = 0
    <3>1. file.disk \o file.buffered = <<>>
      BY <1>3, <2>1 DEF FileInv, Content
    <3>2. Len(file.disk) = 0
      BY <1>2, <3>1, ConcatProperties, LenProperties
    <3>3. SubSeq(file.disk, 1, 0) = <<>> /\ SubSeq(ThisRun, 1, 0) = <<>>
      BY SubSeqEmpty
    <3> QED
      BY <1>2, <3>2, <3>3 DEF IsPrefix
  <2>2. CASE runs # 0
    <3>1. ThisRun = file.disk \o file.buffered
      BY <1>3, <2>2 DEF FileInv, Content
    <3>2. /\ Len(file.disk) <= Len(ThisRun)
          /\ \A i \in 1..Len(file.disk) : ThisRun[i] = file.disk[i]
      BY <1>2, <3>1, ConcatKeeps
    <3>3. SubSeq(file.disk, 1, Len(file.disk)) = SubSeq(ThisRun, 1, Len(file.disk))
      BY <1>2, <3>2, SamePrefix
    <3> QED
      BY <3>2, <3>3 DEF IsPrefix
  <2> QED
    BY <2>1, <2>2
<1>4. SubSeq(file.disk, 1, flushed) = SubSeq(ThisRun, 1, flushed)
  BY <1>1, <1>2, SamePrefix DEF FileInv
<1> QED
  BY <1>1, <1>2, <1>3, <1>4 DEF FileIsPrefix

LEMMA KeepsFollow == Inv /\ IInv /\ FileInv => StopKeepsReceived
<1> SUFFICES ASSUME Inv, IInv, FileInv,
                    op = "idle", ~running, dropped = 0, file.good, runs > 0
             PROVE  /\ received = Len(accepted)
                    /\ file.disk = <<HeaderLine>>
                                   \o SubSeq(accepted, runStart + 1, Len(accepted))
  BY DEF StopKeepsReceived
<1>1. owner = "idle" /\ caller = "idle" /\ attempted = accepted
  BY IInvDrained DEF Inv, ClosedIsDrained
<1>2. queue = <<>> /\ batch = <<>>
  BY <1>1 DEF IInv, WriterMatchesOwner, RecorderTypeOK
<1>3. received = Len(accepted)
  <2>1. /\ received = dropped + written + writeErrors + Len(queue) + Len(batch)
        /\ Len(attempted) = written + writeErrors
        /\ written \in Nat /\ writeErrors \in Nat
    BY <1>1 DEF IInv, Accounted, AttemptsCounted, RecorderTypeOK
  <2>2. Len(queue) = 0 /\ Len(batch) = 0
    BY <1>2
  <2> QED
    BY <1>1, <2>1, <2>2
<1>4. file.buffered = <<>> /\ file.disk \in Seq(Line) /\ Content(file) = ThisRun
  BY <1>1 DEF FileInv, Stream
<1>5. file.disk = ThisRun
  BY <1>4, ConcatEmptySeq DEF Content
<1> QED
  BY <1>1, <1>3, <1>5 DEF ThisRun

LEMMA FitsFollow == IInv /\ FileInv => RowsFitHeader
<1> SUFFICES ASSUME IInv, FileInv, file.good, file.disk # <<>>
             PROVE  /\ Head(file.disk) = HeaderLine
                    /\ ToSet(Tail(file.disk)) \subseteq FittingMessages
  BY DEF RowsFitHeader
<1>1. FittingMessages = Record
  BY EveryRowFits, MessageAssumption DEF FittingMessages, MessageAssumption
<1>2. /\ attempted \in Seq(Record) /\ runStart \in Nat /\ runStart <= Len(attempted)
      /\ file.disk \in Seq(Line)
  BY DEF IInv, RecorderTypeOK, FileInv, Stream
<1>3. /\ ThisRun \in Seq(Line) /\ Len(ThisRun) = 1 + Len(attempted) - runStart
      /\ ThisRun[1] = HeaderLine
      /\ \A i \in 2..Len(ThisRun) : ThisRun[i] = attempted[runStart + i - 1]
  BY <1>2, ThisRunIs
<1>4. SubSeq(file.disk, 1, Len(file.disk)) = SubSeq(ThisRun, 1, Len(file.disk))
      /\ Len(file.disk) <= Len(ThisRun)
  BY PrefixFollows DEF FileIsPrefix, IsPrefix
<1>5. ASSUME NEW i \in 1..Len(file.disk) PROVE file.disk[i] = ThisRun[i]
  BY <1>2, <1>3, <1>4, SubSeqProperties, LenProperties
<1>6. Len(file.disk) \in Nat \ {0}
  BY <1>2, EmptySeq, LenProperties
<1>7. Head(file.disk) = HeaderLine
  BY <1>2, <1>3, <1>5, <1>6
<1>8. ASSUME NEW j \in 1..Len(file.disk) - 1 PROVE file.disk[j + 1] \in Record
  <2>1. j + 1 \in 2..Len(ThisRun) /\ j + 1 \in 1..Len(file.disk)
    BY <1>3, <1>4, <1>6, LenProperties, <1>2
  <2>2. file.disk[j + 1] = attempted[runStart + (j + 1) - 1]
    BY <1>3, <1>5, <2>1
  <2>3. runStart + (j + 1) - 1 \in 1..Len(attempted)
    BY <1>2, <1>3, <2>1, LenProperties
  <2> QED
    BY <1>2, <2>2, <2>3
<1>9. /\ Tail(file.disk) \in Seq(Line) /\ Len(Tail(file.disk)) = Len(file.disk) - 1
      /\ \A j \in 1..Len(file.disk) - 1 : Tail(file.disk)[j] = file.disk[j + 1]
  BY <1>2, HeadTailProperties
<1>10. ToSet(Tail(file.disk)) \subseteq Record
  BY <1>8, <1>9 DEF ToSet
<1> QED
  BY <1>1, <1>7, <1>10
-----------------------------------------------------------------------------
\* The types of an assembly, and that one that says it is running has its
\* subscriber.
THEOREM SdkTypes == SdkSpec => []SdkTypeOK
<1>1. SdkTypeOK /\ [SdkNext]_assemblyVars /\ Inv' /\ TypeOK' => SdkTypeOK'
  BY DEF SdkTypeOK, Inv, SdkNext, assemblyVars, sdkVars, Callback, WriteRows,
         AssemblyStep, Start, StartFails, InitChannel, InitChannelFails, Stop,
         ResetSubscriber, CloseRecorder, CloseNothing, Joined
<1>2. SdkInit /\ Inv /\ TypeOK => SdkTypeOK
  BY DEF SdkInit, SdkTypeOK
<1> QED
  BY <1>1, <1>2, SdkInvariance, TypesFollow, PTL DEF SdkSpec, SdkSafety

\* No callback pushes into a recorder that is not open, in any number of
\* recordings and failed starts.
THEOREM CallbacksSafe == SdkSpec => []CallbacksFindRecorder
<1>1. Inv => CallbacksFindRecorder
  BY DEF Inv, CallbacksFindRecorder
<1> QED
  BY <1>1, SdkInvariance, PTL

\* Every behaviour of an assembly is one of a Recorder: no message is
\* unaccounted for, and stop() leaves none behind in the queue.
THEOREM MessagesAccounted ==
    SdkSpec => [](Accounted /\ AcceptedInOrder /\ ClosedIsDrained)
  BY SdkInvariance, IInvDrained, PTL DEF IInv

\* A kill at any moment leaves a header and the run's first rows, without a
\* hole or a repetition as long as no write has failed; what a flush took is
\* there whatever the disk does later, in any number of recordings.
THEOREM FilePrefix == SdkSpec => []FileIsPrefix
  BY SdkInvariance, PrefixFollows, PTL

\* When stop() has returned, the file has every record received, in order, if
\* the queue never dropped one and the disk never refused one.
THEOREM StopKeeps == SdkSpec => []StopKeepsReceived
  BY SdkInvariance, KeepsFollow, PTL

\* Every file has one header, first, and rows with exactly its columns, for
\* messages with vectors of any size.
THEOREM RowsFit == SdkSpec => []RowsFitHeader
  BY SdkInvariance, FitsFollow, PTL
-----------------------------------------------------------------------------
(* What the collector takes an assembly for                                *)

\* Off, an assembly has nothing queued and nothing held.
UnitInv == /\ channel = "open" => running
           /\ op = "channel" => ~running
           /\ channel # "open" /\ ~running => queue = <<>> /\ batch = <<>>

LEMMA NoWriterEmpty == IInv /\ writer = "absent" => queue = <<>> /\ batch = <<>>
  BY DEF IInv, WriterMatchesOwner, RecorderTypeOK

LEMMA UnitInvStep == Inv /\ IInv /\ UnitInv /\ [SdkNext]_assemblyVars => UnitInv'
<1> SUFFICES ASSUME Inv, IInv, UnitInv, [SdkNext]_assemblyVars PROVE UnitInv'
  OBVIOUS
<1>1. CASE Callback
  <2>1. channel = "open"
    BY <1>1 DEF Callback, Inv
  <2> QED
    BY <1>1, <2>1 DEF Callback, sdkVars, UnitInv
<1>2. CASE WriteRows
  <2>1. queue = <<>> /\ batch = <<>> => queue' = <<>> /\ batch' = <<>>
    BY <1>2 DEF WriteRows, WriterThread, TakeBatch, PopBatch, TakeAll, Ready, WriteRow, Flush,
       EndBatch, Exit, WriterExit, queueVars
  <2> QED
    BY <1>2, <2>1 DEF WriteRows, sdkVars, UnitInv
<1>3. CASE Start
  <2>1. owner = "idle" /\ batch' = <<>> /\ Arm /\ ~running /\ UNCHANGED <<channel, running>>
    BY <1>3 DEF Start, Open, StartRun
  <2>2. queue = <<>>
    BY <2>1, NoWriterEmpty DEF IInv, WriterMatchesOwner
  <2>3. queue' = <<>>
    BY <2>1, <2>2 DEF Arm
  <2> QED
    BY <2>1, <2>3 DEF UnitInv
<1>4. CASE InitChannel
  BY <1>4 DEF InitChannel, UnitInv
<1>5. CASE StartFails \/ InitChannelFails \/ Stop \/ UNCHANGED assemblyVars
  BY <1>5 DEF StartFails, OpenFails, InitChannelFails, Stop, assemblyVars, vars, sdkVars,
     recorderVars, queueVars, writerVars, UnitInv
<1>6. CASE ResetSubscriber
  BY <1>6 DEF ResetSubscriber, vars, recorderVars, queueVars, writerVars, UnitInv
<1>7. CASE CloseRecorder
  BY <1>7 DEF CloseRecorder, Close, BeginClose, Shut, writerVars, UnitInv, Inv
<1>8. CASE CloseNothing \/ Joined
  <2>1. writer = "absent" /\ UNCHANGED <<queue, batch, channel>> /\ op' = "idle"
    BY <1>8 DEF CloseNothing, Joined, Join, EndClose, IInv, WriterMatchesOwner,
       vars, recorderVars, queueVars, writerVars
  <2>2. channel # "open"
    BY <1>8 DEF CloseNothing, Joined, Inv
  <2> QED
    BY <2>1, <2>2, NoWriterEmpty DEF UnitInv
<1> QED
  BY <1>1, <1>2, <1>3, <1>4, <1>5, <1>6, <1>7, <1>8 DEF SdkNext, AssemblyStep

\* A record in the call, queued or held is received and not settled yet.
LEMMA Unsettled ==
    ASSUME IInv
    PROVE  /\ received \in Nat /\ written \in Nat /\ dropped + writeErrors \in Nat
           /\ caller = "refused" \/ batch # <<>> => written + (dropped + writeErrors) < received
           /\ caller = "idle" /\ queue = <<>> /\ batch = <<>>
                 => written + (dropped + writeErrors) = received
<1>1. /\ received \in Nat /\ written \in Nat /\ dropped \in Nat /\ writeErrors \in Nat
      /\ queue \in Seq(Record) /\ batch \in Seq(Record)
  BY DEF IInv, RecorderTypeOK, QueueTypeOK
<1>2. /\ Len(queue) \in Nat /\ Len(batch) \in Nat
      /\ (batch # <<>> => Len(batch) > 0)
      /\ (queue = <<>> => Len(queue) = 0) /\ (batch = <<>> => Len(batch) = 0)
  BY <1>1, EmptySeq, LenProperties
<1>3. received = dropped + written + writeErrors + Len(queue) + Len(batch)
                 + (IF caller = "idle" THEN 0 ELSE 1)
  BY DEF IInv, Accounted
<1> QED
  BY <1>1, <1>2, <1>3

\* Every step of an assembly is one of Assembly or a stutter.
LEMMA UnitStep ==
    Inv /\ IInv /\ UnitInv /\ [SdkNext]_assemblyVars => [Unit!Next]_(Unit!vars)
<1> SUFFICES ASSUME Inv, IInv, UnitInv, [SdkNext]_assemblyVars
             PROVE  Unit!Next \/ UNCHANGED Unit!vars
  OBVIOUS
<1> USE DEF Unit!vars, Unit!counters
<1>1. CASE Callback
  <2>1. channel = "open" /\ UNCHANGED <<channel, running>>
    BY <1>1 DEF Callback, Inv, sdkVars
  <2>2. CASE Receive
    <3>1. received' = received + 1 /\ UNCHANGED <<written, dropped, writeErrors>>
      BY <2>2 DEF Receive, writerVars
    <3>2. Unit!Receive
      BY <2>1, <3>1 DEF Unit!Receive
    <3> QED
      BY <3>2 DEF Unit!Next
  <2>3. CASE CountDrop
    <3>1. caller = "refused" /\ dropped' = dropped + 1
          /\ UNCHANGED <<received, written, writeErrors>>
      BY <2>3 DEF CountDrop, writerVars
    <3>2. dropped' + writeErrors' = (dropped + writeErrors) + 1
      BY <3>1 DEF IInv, RecorderTypeOK
    <3>3. Unit!Settle
      BY <2>1, <3>1, <3>2, Unsettled DEF Unit!Settle
    <3> QED
      BY <3>3 DEF Unit!Next
  <2>4. CASE Refuse \/ \E r \in Record : Enqueue(r)
    BY <2>1, <2>4 DEF Refuse, Enqueue, writerVars
  <2> QED
    BY <1>1, <2>2, <2>3, <2>4 DEF Callback, Push, CallerStep
<1>2. CASE WriteRows
  <2>1. UNCHANGED <<channel, running>>
    BY <1>2 DEF WriteRows, sdkVars
  <2>2. CASE WriteRow
    <3>1. PICK ok \in BOOLEAN : WriteOne(ok)
      BY <2>2 DEF WriteRow
    <3>2. /\ batch # <<>> /\ UNCHANGED <<received, dropped>>
          /\ \/ written' = written + 1 /\ writeErrors' = writeErrors
             \/ written' = written /\ writeErrors' = writeErrors + 1
      BY <2>2, <3>1 DEF WriteRow, WriteOne, callerVars
    <3>3. channel = "open" \/ running
      BY <3>2 DEF UnitInv
    <3>4. \/ written' = written + 1 /\ dropped' + writeErrors' = dropped + writeErrors
          \/ written' = written /\ dropped' + writeErrors' = (dropped + writeErrors) + 1
      BY <3>2 DEF IInv, RecorderTypeOK
    <3>5. Unit!Settle
      BY <2>1, <3>2, <3>3, <3>4, Unsettled DEF Unit!Settle
    <3> QED
      BY <3>5 DEF Unit!Next
  <2>3. CASE TakeBatch \/ Flush \/ Exit
    BY <2>1, <2>3 DEF TakeBatch, PopBatch, Flush, EndBatch, Exit, WriterExit, callerVars
  <2> QED
    BY <1>2, <2>2, <2>3 DEF WriteRows, WriterThread
\* The counters are nobody's who starts and stops.
<1>3. AssemblyStep => UNCHANGED <<received, written, dropped, writeErrors>>
  BY DEF AssemblyStep, Start, Open, StartRun, StartFails, OpenFails, InitChannel,
     InitChannelFails, Stop, ResetSubscriber, CloseRecorder, Close, BeginClose, CloseNothing,
     Joined, Join, EndClose, vars, recorderVars, callerVars, writerVars
<1>4. CASE Start \/ StartFails \/ InitChannelFails \/ Stop \/ CloseRecorder
  <2>1. UNCHANGED <<channel, running>>
    BY <1>4 DEF Start, StartFails, InitChannelFails, Stop, CloseRecorder, sdkVars
  <2> QED
    BY <1>3, <1>4, <2>1 DEF AssemblyStep
<1>5. CASE InitChannel
  <2>1. channel # "open" /\ ~running /\ channel' = "open"
    BY <1>5 DEF InitChannel, Inv, UnitInv
  <2>2. Unit!TurnOn
    BY <1>3, <1>5, <2>1 DEF Unit!TurnOn, AssemblyStep
  <2> QED
    BY <2>2 DEF Unit!Next
<1>6. CASE ResetSubscriber
  <2>1. channel' = "none" /\ running' = running
    BY <1>6 DEF ResetSubscriber
  <2>2. CASE channel = "open"
    <3>1. Unit!TurnOff
      BY <1>3, <1>6, <2>1, <2>2 DEF Unit!TurnOff, AssemblyStep, UnitInv
    <3> QED
      BY <3>1 DEF Unit!Next
  <2>3. CASE channel # "open"
    BY <1>3, <1>6, <2>1, <2>3 DEF AssemblyStep
  <2> QED
    BY <2>2, <2>3
<1>7. CASE CloseNothing \/ Joined
  <2>1. writer = "absent" /\ channel # "open" /\ channel' = channel /\ ~running'
    BY <1>7 DEF CloseNothing, Joined, Join, EndClose, Inv, IInv, WriterMatchesOwner
  <2>2. written + (dropped + writeErrors) = received
    BY <2>1, NoWriterEmpty, Unsettled DEF Inv
  <2>3. CASE running
    <3>1. Unit!Close
      BY <1>3, <1>7, <2>1, <2>2, <2>3 DEF Unit!Close, Unit!Settled, AssemblyStep
    <3> QED
      BY <3>1 DEF Unit!Next
  <2>4. CASE ~running
    BY <1>3, <1>7, <2>1, <2>4 DEF AssemblyStep
  <2> QED
    BY <2>3, <2>4
<1>8. CASE UNCHANGED assemblyVars
  BY <1>8 DEF assemblyVars, vars, sdkVars, recorderVars, callerVars, writerVars
<1> QED
  BY <1>1, <1>2, <1>4, <1>5, <1>6, <1>7, <1>8 DEF SdkNext, AssemblyStep

\* To whoever starts and stops it, an assembly is a source and three counters
\* that are even when stop() has returned, and that move at no other time than
\* Assembly says, over any number of recordings and failed starts.
THEOREM IsAssembly == SdkSpec => Unit!Safety
<1>1. SdkInit => Unit!Init /\ UnitInv
  BY DEF SdkInit, Init, RecorderInit, QueueInit, Unit!Init, UnitInv
<1>2. Inv /\ IInv /\ UnitInv /\ [SdkNext]_assemblyVars => UnitInv' /\ [Unit!Next]_(Unit!vars)
  BY UnitInvStep, UnitStep
<1> QED
  BY <1>1, <1>2, SdkInvariance, PTL DEF SdkSpec, SdkSafety, Unit!Safety
=============================================================================
