--------------------------- MODULE MCOperatorView ----------------------------
(* Two writes and two notifications under way: a reset and a stop can be   *)
(* on their way together, and an ack can replace a report.                 *)
EXTENDS OperatorView
==============================================================================
