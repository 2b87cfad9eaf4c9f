--------------------------- MODULE ExporterProofs ---------------------------
(***************************************************************************)
(* Proofs about the export workers, for an index of any length.            *)
(*                                                                         *)
(* First what read_index() makes of the lines, from the layouts and the    *)
(* scans; then the run: the rows it has gone through are those from the    *)
(* first one on, each of them could be read, and what it has put out is    *)
(* for these rows in their order.                                          *)
(***************************************************************************)
EXTENDS Exporter, SequenceTheorems, FiniteSetTheorems, WellFoundedInduction, TLAPS

\* Of every complete line comes a row of its own.  A last line never gives
\* the color index a row of another frame.
InputInv ==
    /\ kind \in Color \cup Depth
    /\ lines \in Nat /\ rows \in Seq(Row) /\ whole \in 0..Len(rows)
    /\ ReadsWhatWasWritten
    /\ kind \in Depth => \A i \in DOMAIN rows : rows[i].key

\* The payload of the row could be read.
Readable(row) ==
    \/ row <= whole
    \/ row = whole + 1 /\ (kind = "color_mp4" \/ rows[row].slice = "short")
    \/ rows[row].slice = "other"

\* Where the worker is
WorkInv ==
    /\ TypeOK
    /\ thread # "run" => pc = "end"
    /\ running => runs > 0
    /\ Keys = {} => done = 0 /\ ~ok /\ pc \in {"open", "end"}
    /\ pc = "open" => done = 0 /\ ~failed /\ ~complete /\ ~ok
    /\ pc \in {"loop", "end_of_loop"} => ~complete
    /\ pc \in {"loop", "end_of_loop", "ok"} => ~ok
    /\ pc = "loop" => ~failed \/ kind = "color_images"

\* What has been done of the rows
RowsInv ==
    Keys # {} =>
        /\ done <= Expected
        /\ \A i \in 0..done - 1 : Readable(First + i)
        /\ pc = "end_of_loop" /\ ~failed /\ ~cancel /\ kind = "color_images" => done = Expected
        /\ complete \/ ok => done = Expected

\* What has been put out
OutInv ==
    /\ out \in Seq([row : Nat, stamp : Int])
    /\ \A i \in DOMAIN out : out[i].row \in First..First + done - 1
    /\ \A i \in 1..Len(out) - 1 : out[i].row < out[i + 1].row
    /\ kind \in {"color_mp4", "depth_images"} =>
          Len(out) = done /\ \A i \in DOMAIN out : out[i].row = First + i - 1
    /\ StampsIncrease
-----------------------------------------------------------------------------
(* The index *)

LEMMA FirstNumbers ==
    ASSUME NEW n \in Nat
    PROVE  IsFiniteSet(1..n) /\ Cardinality(1..n) = n
  BY FS_Interval

\* A scan with as many variables as the layout has columns matches a complete
\* line, unless a fraction stops it; the row's slice is then the line's own.
LEMMA ScanMatches ==
    ASSUME NEW layout \in Layout, NEW line \in Complete(layout), NEW scan, NEW n \in Nat,
           Len(scan) = n, Len(Columns[layout]) = n,
           \A i \in 1..n : ~StopsShort(layout, line, scan, i),
           NEW m, m = n - 1, Columns[layout][m] = "offset", Columns[layout][n] = "size"
    PROVE  Matched(layout, line, scan) = Len(scan) /\ Slice(layout, line, scan) = "own"
<1>1. line.cells = n /\ ~line.cut
  BY DEF Complete
<1>2. {k \in 1..n : k <= line.cells /\ \A i \in 1..k - 1 : ~StopsShort(layout, line, scan, i)} = 1..n
  BY <1>1
<1>3. Cardinality(1..n) = n
  BY FirstNumbers
<1>4. Matched(layout, line, scan) = n
  BY <1>2, <1>3 DEF Matched
<1>5. Slice(layout, line, scan) = "own"
  BY <1>1 DEF Slice
<1> QED
  BY <1>4, <1>5

\* A scan with more variables than the line has cells does not match.
LEMMA ScanTooLong ==
    ASSUME NEW layout \in Layout, NEW line, line.cells \in Nat, NEW scan, Len(scan) \in Nat,
           line.cells < Len(scan)
    PROVE  Matched(layout, line, scan) # Len(scan)
<1> DEFINE c == line.cells
           m == {k \in 1..Len(scan) : k <= c /\ \A i \in 1..k - 1 : ~StopsShort(layout, line, scan, i)}
<1>1. m \subseteq 1..c
  OBVIOUS
<1>2. IsFiniteSet(1..c) /\ Cardinality(1..c) = c
  BY FirstNumbers
<1>3. Cardinality(m) <= c /\ Cardinality(m) \in Nat
  BY <1>1, <1>2, FS_Subset, FS_CardinalityType
<1> QED
  BY <1>3 DEF Matched

LEMMA ColumnsAre ==
    /\ Layout = {"color", "depth", "oldDepth"}
    /\ Len(Columns["color"]) = 8 /\ Columns["color"][7] = "offset" /\ Columns["color"][8] = "size"
    /\ Len(Columns["depth"]) = 12 /\ Columns["depth"][11] = "offset" /\ Columns["depth"][12] = "size"
    /\ Len(Columns["oldDepth"]) = 8
    /\ Columns["oldDepth"][7] = "offset" /\ Columns["oldDepth"][8] = "size"
  BY DEF Layout, Columns

LEMMA CompleteColor ==
    ASSUME NEW line \in Complete("color")
    PROVE  ReadLine("color", line) = "own"
<1>1. \A i \in 1..8 : ~StopsShort("color", line, ColorScan, i)
  <2>1. line.fraction \subseteq Real
    BY DEF Complete, Line
  <2>2. \A i \in 1..8 : Columns["color"][i] \notin Real
    BY DEF Columns, Real
  <2> QED
    BY <2>1, <2>2 DEF StopsShort
<1>2. Len(ColorScan) = 8
  BY DEF ColorScan
<1>3. Matched("color", line, ColorScan) = Len(ColorScan) /\ Slice("color", line, ColorScan) = "own"
  <2>1. 8 \in Nat /\ 7 = 8 - 1 /\ "color" \in Layout
    BY ColumnsAre
  <2> QED
    BY <1>1, <1>2, <2>1, ScanMatches, ColumnsAre
<1>4. Matching("color", line) = {1} /\ Scans("color")[1] = ColorScan
  BY <1>3 DEF Matching, Scans
<1>5. (CHOOSE k \in Matching("color", line) : \A j \in Matching("color", line) : k <= j) = 1
  BY <1>4
<1> QED
  BY <1>3, <1>4, <1>5 DEF ReadLine

LEMMA CompleteDepth ==
    ASSUME NEW line \in Complete("depth")
    PROVE  ReadLine("depth", line) = "own"
<1>1. \A i \in 1..12 : ~StopsShort("depth", line, DepthScan, i)
  <2>1. line.fraction \subseteq Real
    BY DEF Complete, Line
  <2>2. \A i \in 1..12 : Columns["depth"][i] \notin Real \/ DepthScan[i] \in Float
    BY DEF Columns, Real, DepthScan, Float
  <2> QED
    BY <2>1, <2>2 DEF StopsShort
<1>2. Len(DepthScan) = 12
  BY DEF DepthScan
<1>3. Matched("depth", line, DepthScan) = Len(DepthScan) /\ Slice("depth", line, DepthScan) = "own"
  <2>1. 12 \in Nat /\ 11 = 12 - 1 /\ "depth" \in Layout
    BY ColumnsAre
  <2> QED
    BY <1>1, <1>2, <2>1, ScanMatches, ColumnsAre
<1>4. DOMAIN Scans("depth") = {1, 2} /\ Scans("depth")[1] = DepthScan
  BY DEF Scans, DepthScans
<1>5. 1 \in Matching("depth", line) /\ Matching("depth", line) \subseteq {1, 2}
  BY <1>3, <1>4 DEF Matching
<1>6. (CHOOSE k \in Matching("depth", line) : \A j \in Matching("depth", line) : k <= j) = 1
  BY <1>5
<1> QED
  BY <1>3, <1>4, <1>5, <1>6 DEF ReadLine

LEMMA CompleteOldDepth ==
    ASSUME NEW line \in Complete("oldDepth")
    PROVE  ReadLine("oldDepth", line) = "own"
<1>1. \A i \in 1..8 : ~StopsShort("oldDepth", line, OldDepthScan, i)
  <2>1. line.fraction \subseteq Real
    BY DEF Complete, Line
  <2>2. \A i \in 1..8 : Columns["oldDepth"][i] \notin Real \/ OldDepthScan[i] \in Float
    BY DEF Columns, Real, OldDepthScan, Float
  <2> QED
    BY <2>1, <2>2 DEF StopsShort
<1>2. Len(OldDepthScan) = 8 /\ Len(DepthScan) = 12
  BY DEF OldDepthScan, DepthScan
<1>3. /\ Matched("oldDepth", line, OldDepthScan) = Len(OldDepthScan)
      /\ Slice("oldDepth", line, OldDepthScan) = "own"
  <2>1. 8 \in Nat /\ 7 = 8 - 1 /\ "oldDepth" \in Layout
    BY ColumnsAre
  <2> QED
    BY <1>1, <1>2, <2>1, ScanMatches, ColumnsAre
<1>4. Matched("oldDepth", line, DepthScan) # Len(DepthScan)
  <2>1. line.cells = 8
    BY ColumnsAre DEF Complete
  <2>2. /\ line.cells \in Nat /\ Len(DepthScan) \in Nat /\ line.cells < Len(DepthScan)
        /\ "oldDepth" \in Layout
    BY <1>2, <2>1, ColumnsAre
  <2> QED
    BY <2>2, ScanTooLong
<1>5. /\ DOMAIN Scans("oldDepth") = {1, 2}
      /\ Scans("oldDepth")[1] = DepthScan /\ Scans("oldDepth")[2] = OldDepthScan
  BY DEF Scans, DepthScans
<1>6. Matching("oldDepth", line) = {2}
  BY <1>3, <1>4, <1>5 DEF Matching
<1> QED
  BY <1>3, <1>5, <1>6 DEF ReadLine

\* Wherever the last line of a color index is cut, its row speaks of no other
\* frame's slice: the two numbers the slice is made of are the last ones.
LEMMA LastColor ==
    ASSUME NEW line
    PROVE  ReadLine("color", line) # "other"
<1>1. DOMAIN Scans("color") = {1} /\ Scans("color")[1] = ColorScan
  BY DEF Scans
<1>2. Slice("color", line, ColorScan) # "other"
  <2>1. Len(ColorScan) = 8
    BY DEF ColorScan
  <2> QED
    BY <2>1, ColumnsAre DEF Slice
<1>3. CASE Matching("color", line) = {}
  BY <1>3 DEF ReadLine
<1>4. CASE Matching("color", line) # {}
  <2>1. Matching("color", line) = {1}
    BY <1>1, <1>4 DEF Matching
  <2> QED
    BY <1>1, <1>2, <2>1 DEF ReadLine
<1> QED
  BY <1>3, <1>4

LEMMA WhatIsRead ==
    /\ \A layout \in Layout : ReadComplete[layout] \subseteq {"own"}
    /\ "other" \notin ReadLast["color"]
    /\ \A layout \in Layout : ReadLast[layout] \subseteq {"own", "short", "other", "no_row"}
<1>1. \A layout \in Layout : \A line \in Complete(layout) : ReadLine(layout, line) = "own"
  BY ColumnsAre, CompleteColor, CompleteDepth, CompleteOldDepth
<1>2. \A layout \in Layout : \A line : ReadLine(layout, line) \in {"own", "short", "other", "no_row"}
  BY DEF ReadLine, Slice
<1>3. \A line : ReadLine("color", line) # "other"
  BY LastColor
<1>4. \A layout \in Layout : ReadComplete[layout] \subseteq {"own"}
  BY <1>1 DEF ReadComplete
<1>5. \A layout \in Layout : ReadLast[layout] = {ReadLine(layout, line) : line \in Line(layout)}
  BY DEF ReadLast
<1>6. "other" \notin ReadLast["color"]
  BY <1>3, <1>5, ColumnsAre
<1>7. ASSUME NEW layout \in Layout, NEW r \in ReadLast[layout]
      PROVE  r \in {"own", "short", "other", "no_row"}
  <2>1. PICK line \in Line(layout) : r = ReadLine(layout, line)
    BY <1>5, <1>7
  <2> QED
    BY <1>2, <2>1
<1> QED
  BY <1>4, <1>6, <1>7

LEMMA InputInit == Init => InputInv
<1> SUFFICES ASSUME Init PROVE InputInv
  OBVIOUS
<1>1. PICK layout \in IF kind \in Color THEN {"color"} ELSE {"depth", "oldDepth"} :
          rows \in ReadIndex(layout, lines)
  BY DEF Init
<1>2. /\ layout \in Layout /\ kind \in Color \cup Depth /\ (kind \in Color => layout = "color")
      /\ lines \in Nat /\ whole \in 0..Len(rows)
  BY <1>1, ColumnsAre, ExporterAssumption DEF Init, ExporterAssumption
<1> DEFINE row == [seq : Seq0, recv : Arrival, key : BOOLEAN, slice : ReadComplete[layout]]
           lastRow == [seq : Seq0, recv : Arrival, key : BOOLEAN,
                       slice : ReadLast[layout] \ {"own", "no_row"}]
<1>3. /\ row \subseteq Row /\ \A r \in row : r.slice = "own"
      /\ lastRow \subseteq Row /\ (kind \in Color => \A r \in lastRow : r.slice # "other")
  BY <1>2, WhatIsRead DEF Row
<1>4. PICK f \in [1..lines -> row] : rows = f \/ \E l \in lastRow : rows = Append(f, l)
  <2>1. ReadIndex(layout, lines)
           = [1..lines -> row] \cup {Append(f, l) : f \in [1..lines -> row], l \in lastRow}
    BY DEF ReadIndex
  <2>2. rows \in ReadIndex(layout, lines)
    BY <1>1
  <2> HIDE DEF row, lastRow
  <2> QED
    BY <2>1, <2>2
<1> HIDE DEF row, lastRow
<1>5. f \in Seq(Row) /\ Len(f) = lines /\ \A i \in 1..lines : f[i] \in Row /\ f[i].slice = "own"
  BY <1>2, <1>3
<1>6. rows \in Seq(Row) /\ ReadsWhatWasWritten
  <2>1. CASE rows = f
    <3>1. DOMAIN rows = 1..lines
      BY <1>4, <2>1
    <3> QED
      BY <1>2, <1>5, <2>1, <3>1 DEF ReadsWhatWasWritten
  <2>2. ASSUME NEW l \in lastRow, rows = Append(f, l) PROVE rows \in Seq(Row) /\ ReadsWhatWasWritten
    <3>1. l \in Row
      BY <1>3
    <3>2. /\ rows \in Seq(Row) /\ Len(rows) = lines + 1 /\ rows[lines + 1] = l
          /\ \A i \in 1..lines : rows[i] = f[i]
      BY <1>5, <2>2, <3>1, AppendProperties
    <3>3. DOMAIN rows = 1..lines + 1
      BY <3>2, LenProperties
    <3> QED
      BY <1>2, <1>3, <1>5, <3>2, <3>3 DEF ReadsWhatWasWritten
  <2> QED
    BY <1>4, <2>1, <2>2
<1> QED
  BY <1>2, <1>6 DEF InputInv, Init

\* The inputs are read once.
LEMMA InputStep == InputInv /\ [Next]_vars => InputInv' /\ UNCHANGED inputVars
<1> SUFFICES ASSUME InputInv, [Next]_vars PROVE InputInv' /\ UNCHANGED inputVars
  OBVIOUS
<1>1. UNCHANGED inputVars
  BY DEF Next, Run, Start, StartUnjoined, Terminated, Stop, Wait, Joined, GiveUp, Open, ExportFrame,
     DropFrame, Unreadable, WriteFails, LoopDone, Conclude, SetOk, ClearRunning, Return, vars
<1> QED
  BY <1>1 DEF InputInv, ReadsWhatWasWritten, inputVars

\* Every complete line of the index becomes one row, of its own slice, whatever
\* the layout; a line that was cut short adds one row at most, and to the color
\* index none of another frame's slice.
THEOREM ReadsWhole == Spec => []ReadsWhatWasWritten
<1>1. InputInv => ReadsWhatWasWritten
  BY DEF InputInv
<1> QED
  BY <1>1, InputInit, InputStep, PTL DEF Spec
-----------------------------------------------------------------------------
(* The run *)

\* The export starts with a row, the first of those it could start with.
LEMMA FirstIs ==
    ASSUME InputInv, Keys # {}
    PROVE  /\ First \in Keys /\ First \in 1..Len(rows) /\ \A j \in Keys : First <= j
           /\ Len(rows) \in Nat /\ Expected \in 1..Len(rows)
           /\ (kind \in Depth => First = 1)
<1>1. rows \in Seq(Row) /\ Len(rows) \in Nat /\ DOMAIN rows = 1..Len(rows)
  BY LenProperties DEF InputInv
<1>2. Keys \subseteq 1..Len(rows) /\ Keys \subseteq Nat
  BY <1>1 DEF Keys
<1>3. \E i \in Keys : \A j \in Keys : ~(<<j, i>> \in OpToRel(<, Nat))
  BY <1>2, NatLessThanWellFounded, WFMin
<1>4. \E i \in Keys : \A j \in Keys : i <= j
  <2>1. PICK i \in Keys : \A j \in Keys : ~(<<j, i>> \in OpToRel(<, Nat))
    BY <1>3
  <2>2. \A j \in Nat : j < i => <<j, i>> \in OpToRel(<, Nat)
    BY <1>2, Zenon DEF OpToRel
  <2>3. \A j \in Keys : ~(j < i)
    BY <1>2, <2>1, <2>2, Zenon
  <2> QED
    BY <1>2, <2>3
<1>5. First \in Keys /\ \A j \in Keys : First <= j
  BY <1>4 DEF First
<1>6. ASSUME kind \in Depth PROVE First = 1
  <2>1. Keys = 1..Len(rows)
    BY <1>1, <1>6 DEF InputInv, Keys
  <2> QED
    BY <1>1, <1>5, <2>1
<1> QED
  BY <1>1, <1>2, <1>5, <1>6 DEF Expected

\* Everything that depends only on the inputs stays.
LEMMA InputsStay ==
    ASSUME UNCHANGED inputVars
    PROVE  /\ Keys' = Keys /\ First' = First /\ Expected' = Expected
           /\ (kind' = kind /\ rows' = rows /\ whole' = whole /\ lines' = lines)
           /\ \A r : Arrived(r)' = Arrived(r)
           /\ \A r : Readable(r)' = Readable(r)
<1>1. kind' = kind /\ rows' = rows /\ whole' = whole /\ lines' = lines
  BY DEF inputVars
<1>2. Keys' = Keys
  BY <1>1 DEF Keys
<1>3. First' = First
  BY <1>2 DEF First
<1>4. Expected' = Expected
  BY <1>1, <1>3 DEF Expected
<1>5. \A r : Arrived(r)' = Arrived(r)
  BY <1>1, <1>3 DEF Arrived
<1>6. \A r : Readable(r)' = Readable(r)
  BY <1>1 DEF Readable
<1> QED
  BY <1>1, <1>2, <1>3, <1>4, <1>5, <1>6

LEMMA WorkInit == Init => WorkInv /\ RowsInv
<1> SUFFICES ASSUME Init PROVE WorkInv /\ RowsInv
  OBVIOUS
<1>1. InputInv
  BY InputInit
<1>2. Len(rows) \in Nat /\ Len(<<>>) = 0
  BY <1>1, LenProperties DEF InputInv
<1>3. TypeOK
  <2>1. owner = "idle" /\ thread = "none" /\ pc = "end" /\ done \in 0..Len(rows) /\ Len(out) <= done
    BY <1>2 DEF Init
  <2>2. /\ running \in BOOLEAN /\ cancel \in BOOLEAN /\ ok \in BOOLEAN
        /\ failed \in BOOLEAN /\ complete \in BOOLEAN /\ ~running
    BY DEF Init
  <2>3. runs \in 0..MaxRuns
    BY ExporterAssumption DEF Init, ExporterAssumption
  <2> QED
    BY <2>1, <2>2, <2>3 DEF TypeOK
<1>4. RowsInv
  BY <1>1, FirstIs DEF Init, RowsInv
<1> QED
  BY <1>3, <1>4 DEF Init, WorkInv

LEMMA WorkStep ==
    ASSUME InputInv, WorkInv, RowsInv, [Next]_vars
    PROVE  WorkInv'
<1>0. /\ UNCHANGED inputVars /\ Keys' = Keys /\ kind' = kind /\ rows' = rows
  BY InputStep, InputsStay
<1>1. /\ Len(rows) \in Nat /\ MaxRuns \in Nat /\ Len(<<>>) = 0
      /\ (Keys # {} => Expected \in 1..Len(rows))
      /\ done \in Nat /\ Len(out) <= done
  BY FirstIs, LenProperties, ExporterAssumption DEF WorkInv, InputInv, ExporterAssumption, TypeOK
<1>2. CASE Start
  <2>1. TypeOK'
    <3>1. done' \in 0..Len(rows') /\ Len(out') <= done' /\ runs' \in 0..MaxRuns
      BY <1>0, <1>1, <1>2 DEF Start, WorkInv, TypeOK
    <3> QED
      BY <1>2, <3>1 DEF Start, WorkInv, TypeOK
  <2>2. runs' > 0
    BY <1>2 DEF Start, WorkInv, TypeOK
  <2> QED
    BY <1>0, <1>2, <2>1, <2>2 DEF Start, WorkInv
<1>3. CASE StartUnjoined
  BY <1>0, <1>1, <1>3 DEF StartUnjoined, runVars, WorkInv, TypeOK
<1>4. CASE Terminated \/ UNCHANGED vars
  BY <1>0, <1>1, <1>4 DEF Terminated, vars, runVars, WorkInv, TypeOK
<1>5. CASE Stop
  BY <1>0, <1>1, <1>5 DEF Stop, runVars, WorkInv, TypeOK
<1>6. CASE Wait
  BY <1>0, <1>1, <1>6 DEF Wait, runVars, WorkInv, TypeOK
<1>7. CASE Joined
  BY <1>0, <1>1, <1>7 DEF Joined, runVars, WorkInv, TypeOK
<1>8. CASE GiveUp
  BY <1>0, <1>1, <1>8 DEF GiveUp, runVars, WorkInv, TypeOK
<1>9. CASE Open
  BY <1>0, <1>1, <1>9 DEF Open, EnoughRows, runVars, WorkInv, TypeOK
<1>10. CASE ExportFrame
  BY <1>0, <1>1, <1>10 DEF ExportFrame, InLoop, WorkInv, TypeOK
<1>11. CASE DropFrame
  BY <1>0, <1>1, <1>11 DEF DropFrame, InLoop, WorkInv, TypeOK
<1>12. CASE Unreadable
  BY <1>0, <1>1, <1>12 DEF Unreadable, InLoop, Mp4, WorkInv, TypeOK
<1>13. CASE WriteFails
  BY <1>0, <1>1, <1>13 DEF WriteFails, InLoop, WorkInv, TypeOK
<1>14. CASE LoopDone
  BY <1>0, <1>1, <1>14 DEF LoopDone, runVars, WorkInv, TypeOK
<1>15. CASE Conclude
  BY <1>0, <1>1, <1>15 DEF Conclude, PublishOrder, AllDone, WorkInv, TypeOK
<1>16. CASE SetOk
  BY <1>0, <1>1, <1>16 DEF SetOk, After, PublishOrder, runVars, WorkInv, TypeOK
<1>17. CASE ClearRunning
  BY <1>0, <1>1, <1>17 DEF ClearRunning, After, PublishOrder, runVars, WorkInv, TypeOK
<1>18. CASE Return
  BY <1>0, <1>1, <1>18 DEF Return, runVars, WorkInv, TypeOK
<1> QED
  BY <1>2, <1>3, <1>4, <1>5, <1>6, <1>7, <1>8, <1>9, <1>10,
     <1>11, <1>12, <1>13, <1>14, <1>15, <1>16, <1>17, <1>18 DEF Next, Run

LEMMA RowsStep ==
    ASSUME InputInv, WorkInv, RowsInv, [Next]_vars
    PROVE  RowsInv'
<1>0. /\ UNCHANGED inputVars /\ Keys' = Keys /\ kind' = kind /\ rows' = rows
      /\ First' = First /\ Expected' = Expected /\ \A r : Readable(r)' = Readable(r)
  BY InputStep, InputsStay
<1> SUFFICES ASSUME Keys # {}
             PROVE  /\ done' <= Expected
                    /\ \A i \in 0..done' - 1 : Readable(First + i)
                    /\ pc' = "end_of_loop" /\ ~failed' /\ ~cancel' /\ kind = "color_images"
                          => done' = Expected
                    /\ complete' \/ ok' => done' = Expected
  BY <1>0 DEF RowsInv
<1>1. /\ done <= Expected /\ done \in Nat /\ Expected \in Nat /\ First \in Nat
      /\ \A i \in 0..done - 1 : Readable(First + i)
      /\ pc = "end_of_loop" /\ ~failed /\ ~cancel /\ kind = "color_images" => done = Expected
      /\ complete \/ ok => done = Expected
  <2>1. Expected \in 1..Len(rows) /\ First \in 1..Len(rows) /\ Len(rows) \in Nat
    BY FirstIs
  <2>2. done \in Nat /\ Expected \in Nat /\ First \in Nat
    BY <2>1 DEF WorkInv, TypeOK
  <2> QED
    BY <2>2 DEF RowsInv
<1>2. CASE Start
  BY <1>0, <1>1, <1>2 DEF Start
<1>3. CASE StartUnjoined \/ Terminated \/ UNCHANGED vars \/ Wait \/ Joined
  BY <1>0, <1>1, <1>3 DEF StartUnjoined, Terminated, Wait, Joined, vars, runVars
<1>4. CASE Stop
  BY <1>0, <1>1, <1>4 DEF Stop, runVars
<1>5. CASE GiveUp \/ Open
  BY <1>0, <1>1, <1>5 DEF GiveUp, Open, runVars
<1>6. CASE ExportFrame \/ DropFrame \/ (WriteFails /\ kind = "color_images")
  <2>1. /\ done' = done + 1 /\ done < Expected /\ MayRead /\ pc' = "loop"
        /\ UNCHANGED <<complete, ok>>
    BY <1>6 DEF ExportFrame, DropFrame, WriteFails, InLoop
  <2>2. Readable(First + done)
    BY <2>1 DEF MayRead, Readable, Current
  <2>3. ASSUME NEW i \in 0..done' - 1 PROVE Readable(First + i)
    <3>1. i \in 0..done - 1 \/ i = done
      BY <1>1, <2>1
    <3> QED
      BY <1>1, <2>2, <3>1
  <2>4. ~complete /\ ~ok
    BY <1>6 DEF WorkInv, ExportFrame, DropFrame, WriteFails, InLoop
  <2> QED
    BY <1>1, <2>1, <2>3, <2>4
<1>7. CASE Unreadable \/ (WriteFails /\ kind # "color_images")
  <2>1. /\ done' = done /\ UNCHANGED <<complete, ok>>
        /\ (kind = "color_images" => failed')
    BY <1>7 DEF Unreadable, WriteFails, Mp4
  <2> QED
    BY <1>1, <2>1
<1>8. CASE LoopDone
  BY <1>0, <1>1, <1>8 DEF LoopDone, runVars
<1>9. CASE Conclude
  BY <1>0, <1>1, <1>9 DEF Conclude, PublishOrder, AllDone, WorkInv
<1>10. CASE SetOk \/ ClearRunning \/ Return
  BY <1>0, <1>1, <1>10 DEF SetOk, ClearRunning, Return, After, PublishOrder, runVars
<1> QED
  BY <1>2, <1>3, <1>4, <1>5, <1>6, <1>7, <1>8, <1>9, <1>10 DEF Next, Run

LEMMA OutInit == Init => OutInv
<1> SUFFICES ASSUME Init PROVE OutInv
  OBVIOUS
<1>1. out = <<>> /\ out \in Seq([row : Nat, stamp : Int]) /\ Len(out) = 0 /\ DOMAIN out = {}
      /\ done = 0
  BY EmptySeq DEF Init
<1> QED
  BY <1>1 DEF OutInv, StampsIncrease

LEMMA ArrivalIs ==
    ASSUME InputInv, NEW r \in 1..Len(rows), Keys # {}
    PROVE  Arrived(r) \in Int /\ rows[r].seq \in Nat
<1>1. First \in 1..Len(rows) /\ rows \in Seq(Row) /\ Arrival \subseteq Nat /\ Seq0 \subseteq Nat
  BY FirstIs, ExporterAssumption DEF InputInv, ExporterAssumption
<1>2. rows[r].recv \in Nat /\ rows[First].recv \in Nat /\ rows[r].seq \in Nat
  <2>1. rows[r] \in Row /\ rows[First] \in Row
    BY <1>1, ElementOfSeq
  <2> QED
    BY <1>1, <2>1 DEF Row
<1> DEFINE us == rows[r].recv - rows[First].recv
<1>3. us \in Int
  BY <1>2
<1> HIDE DEF us
<1>4. Rescale(us) \in Int
  BY <1>3 DEF Rescale
<1> QED
  BY <1>2, <1>4 DEF Arrived, us

\* The stamp of the next frame of color.mp4 is later than the last one, and is the
\* arrival time as long as the arrivals were increasing.
LEMMA NextStamp ==
    ASSUME InputInv, WorkInv, OutInv, Keys # {}, kind = "color_mp4", done < Expected
    PROVE  /\ Stamp \in Int
           /\ out # <<>> => out[Len(out)].stamp < Stamp
           /\ (\A j \in First + 1..Current : Arrived(j - 1) < Arrived(j)) => Stamp = Arrived(Current)
<1>1. /\ First \in 1..Len(rows) /\ Len(rows) \in Nat /\ Expected = Len(rows) - First + 1
      /\ done \in Nat /\ Current \in 1..Len(rows) /\ Current = First + done
  <2>1. First \in 1..Len(rows) /\ Len(rows) \in Nat
    BY FirstIs
  <2>2. done \in Nat
    BY <2>1 DEF WorkInv, TypeOK
  <2> QED
    BY <2>1, <2>2 DEF Expected, Current
<1>2. Arrived(Current) \in Int
  BY <1>1, ArrivalIs
<1>3. out \in Seq([row : Nat, stamp : Int]) /\ Len(out) = done
      /\ \A i \in DOMAIN out : out[i].row = First + i - 1
  BY DEF OutInv
<1>4. CASE out = <<>>
  BY <1>2, <1>4 DEF Stamp
<1>5. CASE out # <<>>
  <2> DEFINE n == Len(out)
  <2>1. n \in 1..n /\ n \in Nat /\ n \in DOMAIN out /\ n = done
    BY <1>3, <1>5, EmptySeq, LenProperties
  <2>2. out[n].stamp \in Int /\ out[n].row = First + n - 1
    <3>1. out[n] \in [row : Nat, stamp : Int]
      BY <1>3, <2>1, ElementOfSeq
    <3> QED
      BY <1>3, <2>1, <3>1
  <2>3. out[n].row = Current - 1
    BY <1>1, <2>1, <2>2
  <2>4. Stamp \in Int /\ out[n].stamp < Stamp
    BY <1>2, <1>5, <2>2 DEF Stamp
  <2>5. ASSUME \A j \in First + 1..Current : Arrived(j - 1) < Arrived(j)
        PROVE  Stamp = Arrived(Current)
    <3>1. \A j \in First + 1..out[n].row : Arrived(j - 1) < Arrived(j)
      BY <1>1, <2>3, <2>5
    <3>2. out[n].stamp = Arrived(out[n].row)
      BY <2>1, <3>1 DEF OutInv, StampsIncrease
    <3>3. Arrived(Current - 1) < Arrived(Current)
      BY <1>1, <2>1, <2>5
    <3>4. Current - 1 \in 1..Len(rows)
      BY <1>1, <2>1
    <3>5. Arrived(Current - 1) \in Int
      BY <3>4, ArrivalIs
    <3> QED
      BY <1>2, <2>3, <3>2, <3>3, <3>5 DEF Stamp
  <2> QED
    BY <2>4, <2>5
<1> QED
  BY <1>4, <1>5

LEMMA StampsStay ==
    ASSUME UNCHANGED inputVars, UNCHANGED out, StampsIncrease
    PROVE  StampsIncrease'
<1>1. kind' = kind /\ First' = First /\ \A r : Arrived(r)' = Arrived(r)
  BY InputsStay
<1> QED
  BY <1>1 DEF StampsIncrease

\* What appending does to what has been put out.
LEMMA OutGrows ==
    ASSUME InputInv, WorkInv, OutInv, Keys # {}, UNCHANGED inputVars, InLoop,
           out' = Append(out, Put), done' = done + 1
    PROVE  OutInv'
<1>0. /\ Keys' = Keys /\ kind' = kind /\ First' = First /\ \A r : Arrived(r)' = Arrived(r)
  BY InputsStay
<1>1. /\ First \in 1..Len(rows) /\ Len(rows) \in Nat /\ Expected = Len(rows) - First + 1
      /\ done \in Nat /\ Current \in 1..Len(rows) /\ Current = First + done /\ done < Expected
  <2>1. First \in 1..Len(rows) /\ Len(rows) \in Nat
    BY FirstIs
  <2>2. done \in Nat /\ done < Expected
    BY <2>1 DEF WorkInv, TypeOK, InLoop
  <2> QED
    BY <2>1, <2>2 DEF Expected, Current
<1>2. /\ out \in Seq([row : Nat, stamp : Int]) /\ Len(out) \in Nat /\ DOMAIN out = 1..Len(out)
      /\ \A i \in DOMAIN out : out[i].row \in First..First + done - 1
      /\ \A i \in 1..Len(out) - 1 : out[i].row < out[i + 1].row
      /\ kind \in {"color_mp4", "depth_images"} =>
            Len(out) = done /\ \A i \in DOMAIN out : out[i].row = First + i - 1
  BY LenProperties DEF OutInv
<1>3. Put.row = Current /\ Put.stamp \in Int
  <2>1. rows[Current].seq \in Nat /\ Arrived(Current) \in Int
    BY <1>1, ArrivalIs
  <2>2. out # <<>> => out[Len(out)].stamp \in Int
    <3> SUFFICES ASSUME out # <<>> PROVE out[Len(out)].stamp \in Int
      OBVIOUS
    <3>1. Len(out) \in 1..Len(out)
      BY <1>2, EmptySeq
    <3>2. out[Len(out)] \in [row : Nat, stamp : Int]
      BY <1>2, <3>1, ElementOfSeq
    <3> QED
      BY <3>2
  <2>3. Stamp \in Int
    BY <2>1, <2>2 DEF Stamp
  <2> QED
    BY <2>1, <2>3 DEF Put
<1> DEFINE n == Len(out)
<1>4. PICK p : p = Put
  OBVIOUS
<1>5. p \in [row : Nat, stamp : Int] /\ p.row = Current
  <2>1. Put = [row |-> Put.row, stamp |-> Put.stamp]
    BY DEF Put
  <2>2. Put.row \in Nat /\ Put.stamp \in Int
    BY <1>1, <1>3
  <2> QED
    BY <1>3, <1>4, <2>1, <2>2
<1>6. /\ out' \in Seq([row : Nat, stamp : Int]) /\ Len(out') = n + 1 /\ out'[n + 1] = p
      /\ \A i \in 1..n : out'[i] = out[i]
  BY <1>2, <1>4, <1>5, AppendProperties
<1>7. DOMAIN out' = 1..n + 1
  BY <1>6, LenProperties
<1> HIDE DEF n
<1>8. /\ n \in Nat /\ n = Len(out) /\ (n > 0 => out[n].row < Current)
      /\ \A i \in 1..n : out[i].row \in First..First + done - 1 /\ out[i].row \in Nat
  <2>1. n \in Nat /\ n = Len(out)
    BY <1>2 DEF n
  <2>2. \A i \in 1..n : out[i].row \in First..First + done - 1 /\ out[i].row \in Nat
    <3> TAKE i \in 1..n
    <3>1. i \in DOMAIN out
      BY <1>2, <2>1
    <3>2. out[i].row \in First..First + done - 1
      BY <1>2, <3>1
    <3> QED
      BY <1>1, <3>2
  <2>3. ASSUME n > 0 PROVE out[n].row < Current
    <3>1. n \in 1..n
      BY <2>1, <2>3
    <3>2. out[n].row \in First..First + done - 1
      BY <2>2, <3>1
    <3> QED
      BY <1>1, <3>2
  <2> QED
    BY <2>1, <2>2, <2>3
<1>9. \A i \in DOMAIN out' : out'[i].row \in First..First + done' - 1
  <2> TAKE i \in DOMAIN out'
  <2>1. CASE i = n + 1
    BY <1>1, <1>5, <1>6, <2>1
  <2>2. CASE i \in 1..n
    BY <1>1, <1>6, <1>8, <2>2
  <2> QED
    BY <1>7, <1>8, <2>1, <2>2
<1>10. \A i \in 1..Len(out') - 1 : out'[i].row < out'[i + 1].row
  <2> SUFFICES ASSUME NEW i \in 1..n PROVE out'[i].row < out'[i + 1].row
    BY <1>6, <1>8
  <2>1. CASE i = n
    BY <1>5, <1>6, <1>8, <2>1
  <2>2. CASE i < n
    BY <1>2, <1>6, <1>8, <2>2
  <2> QED
    BY <1>8, <2>1, <2>2
<1>11. kind \in {"color_mp4", "depth_images"} =>
          Len(out') = done' /\ \A i \in DOMAIN out' : out'[i].row = First + i - 1
  <2> SUFFICES ASSUME kind \in {"color_mp4", "depth_images"}
               PROVE  Len(out') = done' /\ \A i \in DOMAIN out' : out'[i].row = First + i - 1
    OBVIOUS
  <2>1. n = done /\ \A i \in 1..n : out[i].row = First + i - 1
    BY <1>2, <1>8
  <2>2. ASSUME NEW i \in DOMAIN out' PROVE out'[i].row = First + i - 1
    <3>1. CASE i = n + 1
      BY <1>1, <1>5, <1>6, <2>1, <3>1
    <3>2. CASE i \in 1..n
      BY <1>6, <2>1, <3>2
    <3> QED
      BY <1>7, <1>8, <3>1, <3>2
  <2> QED
    BY <1>6, <2>1, <2>2
<1>12. StampsIncrease'
  <2> SUFFICES ASSUME kind = "color_mp4"
               PROVE  /\ \A i \in 1..Len(out') - 1 : out'[i].stamp < out'[i + 1].stamp
                      /\ \A i \in DOMAIN out' :
                            (\A j \in First + 1..out'[i].row : Arrived(j - 1) < Arrived(j))
                               => out'[i].stamp = Arrived(out'[i].row)
    BY <1>0 DEF StampsIncrease
  <2>1. /\ \A i \in 1..n - 1 : out[i].stamp < out[i + 1].stamp
        /\ \A i \in DOMAIN out :
              (\A j \in First + 1..out[i].row : Arrived(j - 1) < Arrived(j))
                 => out[i].stamp = Arrived(out[i].row)
    BY <1>8 DEF OutInv, StampsIncrease
  <2>2. /\ out # <<>> => out[n].stamp < p.stamp
        /\ (\A j \in First + 1..Current : Arrived(j - 1) < Arrived(j)) => p.stamp = Arrived(Current)
    <3>1. Put.stamp = Stamp
      BY DEF Put, Mp4
    <3> QED
      BY <1>1, <1>4, <1>8, <3>1, NextStamp
  <2>3. n > 0 => out # <<>>
    BY <1>8, EmptySeq
  <2>4. \A i \in 1..Len(out') - 1 : out'[i].stamp < out'[i + 1].stamp
    <3>1. ASSUME NEW i \in 1..n PROVE out'[i].stamp < out'[i + 1].stamp
      <4>1. CASE i = n
        BY <1>2, <1>6, <1>8, <2>2, <2>3, <4>1
      <4>2. CASE i < n
        BY <1>2, <1>6, <1>8, <2>1, <4>2
      <4> QED
        BY <1>8, <4>1, <4>2
    <3> QED
      BY <1>6, <1>8, <3>1
  <2>5. ASSUME NEW i \in DOMAIN out',
               \A j \in First + 1..out'[i].row : Arrived(j - 1) < Arrived(j)
        PROVE  out'[i].stamp = Arrived(out'[i].row)
    <3>1. CASE i = n + 1
      <4>1. out'[i] = p
        BY <1>6, <3>1
      <4>2. \A j \in First + 1..Current : Arrived(j - 1) < Arrived(j)
        BY <1>5, <2>5, <4>1
      <4> QED
        BY <1>5, <2>2, <4>1, <4>2
    <3>2. CASE i \in 1..n
      <4>1. out'[i] = out[i] /\ i \in DOMAIN out
        BY <1>2, <1>6, <1>8, <3>2
      <4> QED
        BY <2>1, <2>5, <4>1
    <3> QED
      BY <1>7, <1>8, <3>1, <3>2
  <2> QED
    BY <2>4, <2>5
<1> QED
  BY <1>0, <1>6, <1>9, <1>10, <1>11, <1>12 DEF OutInv

LEMMA OutStep ==
    ASSUME InputInv, WorkInv, RowsInv, OutInv, [Next]_vars
    PROVE  OutInv'
<1>0. /\ UNCHANGED inputVars /\ Keys' = Keys /\ kind' = kind /\ First' = First
  BY InputStep, InputsStay
<1>1. CASE Start
  <2>1. /\ out' = <<>> /\ out' \in Seq([row : Nat, stamp : Int]) /\ Len(out') = 0
        /\ DOMAIN out' = {} /\ done' = 0
    BY <1>1, EmptySeq DEF Start
  <2> QED
    BY <2>1 DEF OutInv, StampsIncrease
<1>2. CASE UNCHANGED <<done, out>>
  <2>1. StampsIncrease'
    BY <1>0, <1>2, StampsStay DEF OutInv
  <2> QED
    BY <1>0, <1>2, <2>1 DEF OutInv
<1>3. CASE ExportFrame
  <2>1. Keys # {}
    BY <1>3 DEF ExportFrame, InLoop, WorkInv
  <2> QED
    BY <1>0, <1>3, <2>1, OutGrows DEF ExportFrame
<1>4. CASE DropFrame \/ (WriteFails /\ kind = "color_images")
  <2>1. /\ done' = done + 1 /\ out' = out /\ InLoop /\ kind \in {"color_images", "depth_mp4"}
    BY <1>4 DEF DropFrame, WriteFails
  <2>2. Keys # {} /\ done \in Nat
    BY <2>1, LenProperties DEF InLoop, WorkInv, TypeOK, InputInv
  <2>3. First \in Nat
    BY <2>2, FirstIs
  <2>4. StampsIncrease'
    BY <1>0, <2>1, StampsStay DEF OutInv
  <2>5. \A i \in DOMAIN out' : out'[i].row \in First'..First' + done' - 1
    BY <1>0, <2>1, <2>2, <2>3 DEF OutInv
  <2> QED
    BY <1>0, <2>1, <2>4, <2>5 DEF OutInv
<1>5. CASE StartUnjoined \/ Terminated \/ Stop \/ Wait \/ Joined \/ GiveUp \/ Open \/ Unreadable
           \/ (WriteFails /\ kind # "color_images") \/ LoopDone \/ Conclude \/ SetOk
           \/ ClearRunning \/ Return \/ UNCHANGED vars
  BY <1>2, <1>5 DEF StartUnjoined, Terminated, Stop, Wait, Joined, GiveUp, Open, Unreadable,
     WriteFails, LoopDone, Conclude, SetOk, ClearRunning, Return, vars, runVars
<1> QED
  BY <1>1, <1>3, <1>4, <1>5 DEF Next, Run

LEMMA RunInvariant == Spec => [](InputInv /\ WorkInv /\ RowsInv /\ OutInv)
<1> DEFINE I == InputInv /\ WorkInv /\ RowsInv /\ OutInv
<1>1. Init => I
  BY InputInit, WorkInit, OutInit
<1>2. I /\ [Next]_vars => I'
  BY InputStep, WorkStep, RowsStep, OutStep
<1> QED
  BY <1>1, <1>2, PTL DEF Spec

\* The worker's types, and that its flag tells whether it is at work.
THEOREM ExporterTypes == Spec => []TypeOK
<1>1. WorkInv => TypeOK
  BY DEF WorkInv
<1> QED
  BY <1>1, RunInvariant, PTL

\* color.mp4's time stamps increase strictly and, while the arrivals do, are the
\* arrival times.
THEOREM Stamps == Spec => []StampsIncrease
<1>1. OutInv => StampsIncrease
  BY DEF OutInv
<1> QED
  BY <1>1, RunInvariant, PTL

\* After a success the blob holds the payload of every complete line: what was
\* done reaches to the last row, and the row of a complete line is read from
\* its own slice.
LEMMA WholeBlob ==
    ASSUME InputInv, RowsInv, Keys # {}, done = Expected
    PROVE  whole >= IF kind = "color_mp4" THEN Len(rows) - 1 ELSE lines
<1>1. /\ First \in Keys /\ First \in 1..Len(rows) /\ Len(rows) \in Nat
      /\ Expected \in Nat /\ Expected = Len(rows) - First + 1
      /\ (kind \in Depth => First = 1)
  BY FirstIs DEF Expected
<1>2. /\ lines \in Nat /\ whole \in 0..Len(rows) /\ kind \in Color \cup Depth
      /\ Len(rows) \in {lines, lines + 1} /\ DOMAIN rows = 1..Len(rows)
      /\ \A i \in 1..lines : rows[i].slice = "own"
      /\ kind \in Color => \A i \in DOMAIN rows : rows[i].slice # "other"
  BY LenProperties DEF InputInv, ReadsWhatWasWritten
<1>3. ASSUME NEW r \in First..Len(rows) PROVE Readable(r)
  <2>1. r - First \in 0..done - 1 /\ First + (r - First) = r
    BY <1>1, <1>3
  <2>2. \A i \in 0..done - 1 : Readable(First + i)
    BY DEF RowsInv
  <2>3. Readable(First + (r - First))
    BY <2>1, <2>2
  <2> QED
    BY <2>1, <2>3
<1>4. Len(rows) = lines \/ Len(rows) = lines + 1
  BY <1>2
<1>5. lines \in Nat /\ whole \in Nat
  <2>1. lines \in Nat /\ whole \in 0..Len(rows)
    BY DEF InputInv
  <2> QED
    BY <2>1
<1>6. CASE kind = "color_mp4"
  <2>1. Readable(Len(rows))
    BY <1>1, <1>3
  <2>2. rows[Len(rows)].slice # "other"
    <3>1. kind \in Color
      BY <1>6 DEF Color
    <3>2. Len(rows) \in 1..Len(rows)
      BY FirstIs
    <3>3. DOMAIN rows = 1..Len(rows) /\ \A i \in DOMAIN rows : rows[i].slice # "other"
      BY <1>2, <3>1
    <3> QED
      BY <3>2, <3>3
  <2>3. Len(rows) <= whole \/ Len(rows) = whole + 1
    BY <2>1, <2>2 DEF Readable
  <2> QED
    BY <1>1, <1>5, <1>6, <2>3
<1>7. CASE kind # "color_mp4"
  <2>1. CASE lines = 0
    BY <1>5, <1>7, <2>1
  <2>2. CASE lines > 0 /\ First <= lines
    <3>1. lines \in First..Len(rows) /\ lines \in 1..lines
      BY <1>1, <1>4, <1>5, <2>2
    <3>2. Readable(lines) /\ rows[lines].slice = "own"
      BY <1>2, <1>3, <3>1
    <3>3. lines <= whole
      BY <1>7, <3>2 DEF Readable
    <3> QED
      BY <1>5, <1>7, <3>3
  <2>3. CASE lines > 0 /\ First > lines
    <3>1. First = lines + 1 /\ First # 1 /\ First \in First..Len(rows)
      BY <1>1, <1>4, <1>5, <2>3
    <3>2. kind \in Color
      BY <1>1, <1>2, <3>1
    <3>3. Readable(First) /\ rows[First].slice # "other"
      BY <1>1, <1>2, <1>3, <3>1, <3>2
    <3>4. First <= whole \/ First = whole + 1
      BY <3>3 DEF Readable
    <3> QED
      BY <1>1, <1>5, <1>7, <3>1, <3>4
  <2> QED
    BY <1>1, <1>5, <2>1, <2>2, <2>3
<1> QED
  BY <1>6, <1>7

\* succeeded() means that the rows from the first keyframe on are there, once
\* and in order, and that the blob held what was recorded of them.
THEOREM Succeeded == Spec => []SucceededMeansWhole
<1>1. ASSUME InputInv, WorkInv, RowsInv, OutInv PROVE SucceededMeansWhole
  <2> SUFFICES ASSUME ok PROVE LET exported == [i \in DOMAIN out |-> out[i].row] IN
        /\ \A i \in 1..Len(out) - 1 : exported[i] < exported[i + 1]
        /\ kind \in {"color_mp4", "depth_images"} =>
              exported = [i \in 1..Expected |-> First + i - 1]
        /\ whole >= IF kind = "color_mp4" THEN Len(rows) - 1 ELSE lines
    BY DEF SucceededMeansWhole
  <2> DEFINE exported == [i \in DOMAIN out |-> out[i].row]
  <2>1. Keys # {} /\ done = Expected
    BY <1>1 DEF WorkInv, RowsInv
  <2>2. Len(out) \in Nat /\ DOMAIN out = 1..Len(out)
    BY <1>1, LenProperties DEF OutInv
  <2>3. \A i \in 1..Len(out) - 1 : exported[i] < exported[i + 1]
    <3>1. \A i \in 1..Len(out) - 1 : out[i].row < out[i + 1].row
      BY <1>1 DEF OutInv
    <3> QED
      BY <2>2, <3>1
  <2>4. ASSUME kind \in {"color_mp4", "depth_images"}
        PROVE  exported = [i \in 1..Expected |-> First + i - 1]
    <3>1. Len(out) = Expected /\ \A i \in DOMAIN out : out[i].row = First + i - 1
      BY <1>1, <2>1, <2>4 DEF OutInv
    <3> QED
      BY <2>2, <3>1
  <2>5. whole >= IF kind = "color_mp4" THEN Len(rows) - 1 ELSE lines
    BY <1>1, <2>1, WholeBlob
  <2> QED
    BY <2>3, <2>4, <2>5
<1> QED
  BY <1>1, RunInvariant, PTL

\* The worker implements the promise to its owner: its flag and its verdict change
\* together, so that whoever sees the run over sees its outcome.
THEOREM IsJob == Spec => Job!JobSafety
<1>1. Init => Job!Init
  BY DEF Init, Job!Init
<1>2. ASSUME WorkInv, [Next]_vars
      PROVE  [Job!Next]_(<<IF running THEN "running" ELSE IF runs = 0 THEN "new" ELSE "over",
                           ok /\ ~running>>)
  <2>1. CASE Start
    <3>1. ~running /\ ~ok' /\ running'
      BY <1>2, <2>1 DEF Start, WorkInv, TypeOK
    <3>2. Job!Begin
      BY <3>1 DEF Job!Begin
    <3> QED
      BY <3>2 DEF Job!Next
  <2>2. CASE GiveUp \/ ClearRunning
    <3>1. running /\ ~running' /\ ok' \in BOOLEAN /\ runs' > 0
      BY <1>2, <2>2 DEF GiveUp, ClearRunning, runVars, WorkInv, TypeOK
    <3>2. Job!End
      BY <3>1 DEF Job!End
    <3> QED
      BY <3>2 DEF Job!Next
  <2>3. CASE SetOk
    <3>1. running /\ UNCHANGED <<running, runs>>
      BY <1>2, <2>3 DEF SetOk, WorkInv, TypeOK
    <3> QED
      BY <3>1
  <2>4. CASE UNCHANGED <<running, ok, runs>>
    BY <2>4
  <2>5. CASE StartUnjoined \/ Terminated \/ Stop \/ Wait \/ Joined \/ Open \/ ExportFrame \/ DropFrame
             \/ Unreadable \/ WriteFails \/ LoopDone \/ Conclude \/ Return \/ UNCHANGED vars
    BY <2>4, <2>5 DEF StartUnjoined, Terminated, Stop, Wait, Joined, Open, ExportFrame, DropFrame,
       Unreadable, WriteFails, LoopDone, Conclude, Return, vars
  <2> QED
    BY <1>2, <2>1, <2>2, <2>3, <2>5 DEF Next, Run
<1> QED
  BY <1>1, <1>2, RunInvariant, PTL DEF Spec, Job!JobSafety
=============================================================================
