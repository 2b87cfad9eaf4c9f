-------------------------- MODULE MCDataCollector --------------------------
(* DataCollector with three configurations: one stream of each sort, a     *)
(* camera, whose last report is in a vector, and lowstate, whose last      *)
(* report is in plain members; one camera by default among those that are  *)
(* not recorded; and sections that turn nothing on.                        *)
EXTENDS DataCollector

MCRoots ==
    {[realsense_cameras |-> [enabled |-> TRUE, cameras |-> <<[name |-> "head"]>>],
      lowstate |-> [enabled |-> TRUE]],
     [realsense_cameras |-> [cameras |-> <<[name |-> "head", enabled |-> FALSE], Empty,
                                           [name |-> "left_wrist"]>>],
      dex3_cmd |-> Empty],
     [realsense_cameras |-> [enabled |-> FALSE, cameras |-> <<[name |-> "head"]>>],
      uwb |-> [enabled |-> FALSE]]}

MCStream == {<<"camera", "head">>, <<"camera", "left_wrist">>, <<"lowstate">>}
=============================================================================
