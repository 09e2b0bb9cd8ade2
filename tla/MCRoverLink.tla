----------------------------- MODULE MCRoverLink -----------------------------
(* One drive command that does not expire and one that does.               *)
EXTENDS RoverLink

ManualForward == [manual |-> TRUE, brake |-> FALSE, coast |-> FALSE,
                  moves |-> TRUE, ttl |-> 1]
MCBleCmds == {ManualForward, [ManualForward EXCEPT !.manual = FALSE]}
==============================================================================
