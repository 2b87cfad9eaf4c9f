----------------------------- MODULE IndexFile -----------------------------
(***************************************************************************)
(* The index of a camera stream, as BlobRecorder writes it and the         *)
(* exporters' read_index() gets it back.  Of a line only the last one, of  *)
(* a recording that was cut off, may be a part of what was written.        *)
(*                                                                         *)
(* A reader knows the columns by their place alone: what sscanf() matches  *)
(* decides.  A number is a whole one or has a fraction, which an integer   *)
(* conversion leaves unread.                                               *)
(***************************************************************************)
EXTENDS Integers, Sequences, FiniteSets

\* the columns of a row and the two BlobSink appends; the layout depth
\* recordings had before they got their intrinsics
Columns ==
    [color |-> <<"seq", "stamp_ns", "recv_ns", "width", "height", "is_keyframe",
                 "offset", "size">>,
     depth |-> <<"seq", "stamp_ns", "recv_ns", "width", "height", "depth_scale",
                 "fx", "fy", "cx", "cy", "offset", "size">>,
     oldDepth |-> <<"seq", "stamp_ns", "recv_ns", "width", "height", "depth_scale",
                    "offset", "size">>]

Layout == DOMAIN Columns

\* the columns written with %g
Real == {"depth_scale", "fx", "fy", "cx", "cy"}

\* the lines a file may have: as many cells, the last of them cut short or
\* not, and which of the numbers have a fraction
Line(layout) ==
    [cells : 0..Len(Columns[layout]), cut : BOOLEAN, fraction : SUBSET Real]

Complete(layout) == {line \in Line(layout) : line.cells = Len(Columns[layout]) /\ ~line.cut}
-----------------------------------------------------------------------------
(* read_index() *)

\* the variables of a scan, place by place
ColorScan == <<"seq", "stamp_ns", "recv_ns", "w", "h", "key", "offset", "size">>
DepthScan == <<"seq", "stamp_ns", "recv_ns", "w", "h", "scale", "fx", "fy", "cx", "cy",
               "offset", "size">>
OldDepthScan == <<"seq", "stamp_ns", "recv_ns", "w", "h", "scale", "offset", "size">>

Float == {"scale", "fx", "fy", "cx", "cy"}

\* Mutant: the shorter layout is tried first.
OldLayoutFirst == <<OldDepthScan, DepthScan>>

\* the scans a depth line is tried with, in this order
DepthScans == <<DepthScan, OldDepthScan>>

Scans(layout) == IF layout = "color" THEN <<ColorScan>> ELSE DepthScans

\* The conversion stops before the comma.
StopsShort(layout, line, scan, i) ==
    Columns[layout][i] \in line.fraction /\ scan[i] \notin Float

\* what sscanf() returns: conversions up to the first one that has nothing to
\* read, or does not end where the scan has its comma
Matched(layout, line, scan) ==
    Cardinality({n \in 1..Len(scan) :
        n <= line.cells /\ \A i \in 1..n - 1 : ~StopsShort(layout, line, scan, i)})

\* the scans that match all of their variables
Matching(layout, line) ==
    {k \in DOMAIN Scans(layout) :
        Matched(layout, line, Scans(layout)[k]) = Len(Scans(layout)[k])}

\* Which slice of the blob the row read from a line speaks of: its own, the
\* first part of it, or some other one.  Its offset and size are what stands
\* where the scan has them.
Slice(layout, line, scan) ==
    LET n == Len(scan)
    IN  CASE Columns[layout][n - 1] # "offset" -> "other"
          [] Columns[layout][n] # "size" -> "other"
          [] line.cells = n /\ line.cut -> "short"
          [] OTHER -> "own"

\* what read_index() makes of a line
ReadLine(layout, line) ==
    IF Matching(layout, line) = {} THEN "no_row"
    ELSE LET first == CHOOSE k \in Matching(layout, line) :
                          \A j \in Matching(layout, line) : k <= j
         IN  Slice(layout, line, Scans(layout)[first])

\* of the complete lines; of a last line that may be cut anywhere
ReadComplete == [layout \in Layout |-> {ReadLine(layout, line) : line \in Complete(layout)}]
ReadLast == [layout \in Layout |-> {ReadLine(layout, line) : line \in Line(layout)}]
=============================================================================
