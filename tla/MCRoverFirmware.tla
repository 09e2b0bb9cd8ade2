--------------------------- MODULE MCRoverFirmware ---------------------------
(* Small instances of RoverFirmware: one drive command per transport, a    *)
(* manual one (BLE only) and one that only coasts.                         *)
EXTENDS RoverFirmware

Forward ==
  [manual |-> FALSE, brake |-> FALSE, coast |-> FALSE, moves |-> TRUE,
   ttl |-> 2]
ManualForward == [Forward EXCEPT !.manual = TRUE]
ManualCoast ==
  [manual |-> TRUE, brake |-> FALSE, coast |-> TRUE, moves |-> FALSE,
   ttl |-> 1]

MCSerialCmds == {Forward}
MCBleCmds == {[Forward EXCEPT !.ttl = 1], ManualForward, ManualCoast}
==============================================================================
