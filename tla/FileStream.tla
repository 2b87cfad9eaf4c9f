----------------------------- MODULE FileStream -----------------------------
(***************************************************************************)
(* The std::ofstream the recorders write through, as they use it.  It is   *)
(* not code of this repository: the buffer decides by itself when to pass  *)
(* something on to the file, and after a failure the stream stays bad     *)
(* until it is opened again and takes nothing more.  A failed write leaves *)
(* a prefix of what it had in the file and all of it in the buffer, and    *)
(* close() tries it again from its start.                                  *)
(***************************************************************************)
EXTENDS Naturals, Sequences

CONSTANT DiskMayFail       \* whether opening, writing and flushing may fail

ASSUME DiskAssumption == DiskMayFail \in BOOLEAN

\* a stream of a file that is made of elements of S
Stream(S) == [isOpen : BOOLEAN, good : BOOLEAN, buffered : Seq(S), disk : Seq(S)]

\* A stream never opened; disk is the content of the file opened last.
Unopened == [isOpen |-> FALSE, good |-> TRUE, buffered |-> <<>>, disk |-> <<>>]

\* What has been written, whether the file has it yet or not
Content(f) == f.disk \o f.buffered

\* open() with trunc.  On a stream that is already open it fails, and is_open
\* stays true.
OpenOutcomes(f) ==
    IF f.isOpen
    THEN {[f EXCEPT !.good = FALSE]}
    ELSE {[Unopened EXCEPT !.isOpen = TRUE]}
         \cup (IF DiskMayFail THEN {[f EXCEPT !.good = FALSE]} ELSE {})

\* f with the first k elements of s in the file and the rest in the buffer
Spilled(f, s, k) == [f EXCEPT !.disk = @ \o SubSeq(s, 1, k),
                              !.buffered = SubSeq(s, k + 1, Len(s))]

\* f after a write that stopped behind the first k elements of its buffer
Failed(f, k) == [f EXCEPT !.disk = @ \o SubSeq(f.buffered, 1, k), !.good = FALSE]

Failures(f, ks) == IF DiskMayFail THEN {Failed(f, k) : k \in ks} ELSE {}

\* writing x: the buffer may keep it or pass on everything
WriteOutcomes(f, x) ==
    IF ~f.good THEN {f}
    ELSE LET s == f.buffered \o x
         IN  {Spilled(f, s, k) : k \in {0, Len(s)}} \cup Failures(f, {0, Len(f.buffered)})

\* pushing out the buffer
SyncOutcomes(f) ==
    IF f.buffered = <<>> THEN {f}
    ELSE {Spilled(f, f.buffered, Len(f.buffered))} \cup Failures(f, 0..Len(f.buffered) - 1)

\* flush() does nothing on a bad stream, close() does not look.
FlushOutcomes(f) == IF f.good THEN SyncOutcomes(f) ELSE {f}
CloseOutcomes(f) == {[g EXCEPT !.isOpen = FALSE] : g \in SyncOutcomes(f)}
=============================================================================
