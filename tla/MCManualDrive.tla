---------------------------- MODULE MCManualDrive ----------------------------
(* Sliders at both ends, next to them and in between; two buttons that are *)
(* mapped elsewhere and back; a storage that is empty or partly corrupt.   *)
EXTENDS ManualDrive

MCReassignments ==
  {<<"forward", "back">>, <<"forward", "forward">>, <<"left", "back">>}

Empty == [left |-> Unusable, right |-> Unusable,
          assignments |-> [d \in Directions |-> "invalid"]]

MCInitialStored ==
  {Empty,
   [left |-> 100, right |-> Unusable,
    assignments |-> [Empty.assignments EXCEPT !["right"] = "left"]]}
==============================================================================
