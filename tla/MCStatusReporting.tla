-------------------------- MODULE MCStatusReporting --------------------------
(* Requests below, at both ends of and above the accepted range.           *)
EXTENDS StatusReporting

MCRequestedMs == {0, 1, 2, 6, 7}
==============================================================================
