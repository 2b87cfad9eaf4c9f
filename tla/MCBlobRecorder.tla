--------------------------- MODULE MCBlobRecorder ---------------------------
(* BlobRecorder with frames for its records, whose sizes alternate between *)
(* 1 and 2, so that an offset that is off by a frame is a wrong offset.    *)
EXTENDS BlobRecorder

MCRecord == [gen : 0..MaxRestarts, seq : 0..MaxSeq - 1]
MCSize == [s \in 0..MaxSeq - 1 |-> 1 + (s % 2)]
=============================================================================
