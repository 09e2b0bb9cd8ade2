-------------------------- MODULE MCWebCommandLink --------------------------
(* Two attempts and three changes of transport: a second Bluetooth         *)
(* transport meets the writes and the attempt that the first left behind.  *)
EXTENDS WebCommandLink

MCUserKinds == {"cmd_vel", "reset_estop"}
==============================================================================
