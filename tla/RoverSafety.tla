----------------------------- MODULE RoverSafety -----------------------------
(***************************************************************************)
(* What the rover firmware promises about motion, without clocks, packets  *)
(* or transports.  The rover holds an authority to move.  Only a granted   *)
(* authority lets the motors start; losing the authority and stopping are  *)
(* one step, except for the emergency stop, which takes the authority away *)
(* at once and owes the stop; a stopped rover regains the authority only   *)
(* through a reset followed by a new grant.                                *)
(***************************************************************************)

VARIABLES
  authority,   \* "none", "granted" or "estopped"
  moving       \* do the motors turn the wheels?

safetyVars == <<authority, moving>>

Authority == {"none", "granted", "estopped"}

SafetyTypeOK == authority \in Authority /\ moving \in BOOLEAN

SafetyInit == authority = "none" /\ moving = FALSE

\* A drive command is accepted.  It does not move anything by itself.
Grant ==
  /\ authority # "estopped"
  /\ authority' = "granted"
  /\ UNCHANGED moving

\* The authority is lost (heartbeat timeout, refused command): motion ends
\* in the same step.
Withdraw ==
  /\ authority = "granted"
  /\ authority' = "none"
  /\ moving' = FALSE

\* The emergency stop is latched.  Motion ends later, see Halt.
EmergencyStop ==
  /\ authority' = "estopped"
  /\ UNCHANGED moving

\* The latch is cleared.  That never moves the rover.
Reset ==
  /\ authority' = "none"
  /\ moving' = FALSE

\* The motors stop, whatever the authority.
Halt ==
  /\ moving
  /\ moving' = FALSE
  /\ UNCHANGED authority

Move ==
  /\ authority = "granted"
  /\ moving' = TRUE
  /\ UNCHANGED authority

SafetyNext == Grant \/ Withdraw \/ EmergencyStop \/ Reset \/ Halt \/ Move

SafetySpec == SafetyInit /\ [][SafetyNext]_safetyVars

(***************************************************************************)
(* The emergency stop is not only a promise to refuse new motion: the      *)
(* motion that was under way ends.                                         *)
(***************************************************************************)
EstopIsServed == authority = "estopped" ~> ~moving
==============================================================================
