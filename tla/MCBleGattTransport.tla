-------------------------- MODULE MCBleGattTransport --------------------------
(* One payload of every kind the parser tells apart, a cmd_vel with fields *)
(* out of range, and an E-stop longer than the buffer.                     *)
EXTENDS BleGattTransport

Short(kind, valid) == [kind |-> kind, valid |-> valid, long |-> FALSE]

MCPayloads ==
  {Short("None", FALSE), Short("CmdVel", TRUE), Short("CmdVel", FALSE),
   Short("EmergencyStop", TRUE), Short("Heartbeat", TRUE),
   Short("ResetEstop", TRUE),
   [kind |-> "EmergencyStop", valid |-> TRUE, long |-> TRUE]}

\* What the page writes: nothing that the rover would refuse.
MCPagePayloads ==
  {Short("CmdVel", TRUE), Short("EmergencyStop", TRUE),
   Short("Heartbeat", TRUE), Short("ResetEstop", TRUE)}
==============================================================================
