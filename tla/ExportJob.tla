----------------------------- MODULE ExportJob -----------------------------
(***************************************************************************)
(* What the owner of an export worker is promised: a run that was begun    *)
(* comes to an end by itself, and at that very moment its verdict is       *)
(* known, and stays known until the next run.                              *)
(***************************************************************************)
VARIABLES state,        \* "new", "running", "over"
          verdict       \* what succeeded() says of the last run

Init == state = "new" /\ verdict = FALSE

Begin ==
    /\ state # "running"
    /\ state' = "running" /\ verdict' = FALSE

End ==
    /\ state = "running"
    /\ state' = "over" /\ verdict' \in BOOLEAN

Next == Begin \/ End

JobSafety == Init /\ [][Next]_<<state, verdict>>

Spec == JobSafety /\ WF_<<state, verdict>>(End)
=============================================================================
