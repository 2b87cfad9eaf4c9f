--------------------------- MODULE MCSdkRecorder ---------------------------
(* SdkRecorder with two messages of a hand: one with too few motors and    *)
(* too many press pads for the schema, one with too many and none.         *)
EXTENDS SdkRecorder

MCRecord == {[motors |-> 6, pads |-> 10], [motors |-> 8, pads |-> 0]}
=============================================================================
