---------------------------- MODULE RoverFirmware ----------------------------
(***************************************************************************)
(* The safety kernel of the Pico W firmware: roverFirmwareSetup,           *)
(* roverFirmwareLoop and PacketHandler::handle with the E-stop latch, the  *)
(* heartbeat watchdog, the cmd_vel TTL guard and the motor driver.         *)
(*                                                                         *)
(* The main loop reads millis() once, drains the serial transport, drains  *)
(* the BLE transport, decides whether a safety stop is required and then   *)
(* either stops the motors or applies the active command.  The clock runs  *)
(* on meanwhile, so the value the loop works with grows stale.             *)
(*                                                                         *)
(* Transports are abstracted to "poll may return any packet the parser can *)
(* produce"; BleGattTransport and MockTransport model what is behind a     *)
(* poll.  The status packets and the periodic reports do not touch this    *)
(* state; StatusReporting models them.                                     *)
(***************************************************************************)
EXTENDS Naturals

CONSTANTS
  ClockMod,          \* millis() counts modulo ClockMod (2^32 in the code)
  HeartbeatTimeout,  \* kHeartbeatTimeoutMs
  MaxTtl,            \* the largest ttl_ms the parser lets through
  MaxLoopMs,         \* platform assumption: the loop reads millis() again
                     \*   at most MaxLoopMs after it last did
  SerialCmds,        \* the cmd_vel commands the serial transport produces
  BleCmds            \* the cmd_vel commands the BLE transport produces

\* A command, reduced to what decides the motor output: does the mixed or
\* manual output turn a wheel?
CmdVel == [manual : BOOLEAN, brake : BOOLEAN, coast : BOOLEAN,
           moves : BOOLEAN, ttl : 1..MaxTtl]

ASSUME ConfigAssumption ==
  /\ ClockMod \in Nat /\ HeartbeatTimeout \in Nat
  /\ MaxTtl \in Nat \ {0} /\ MaxLoopMs \in Nat
  /\ HeartbeatTimeout + 2 * MaxLoopMs < ClockMod
  /\ MaxTtl + 2 * MaxLoopMs < ClockMod
  /\ SerialCmds \subseteq CmdVel /\ BleCmds \subseteq CmdVel

VARIABLES
  clock,                  \* millis(): the hardware clock
  phase,                  \* where the main loop is
  nowMs,                  \* the loop's copy of millis()
  lastHeartbeatMs,        \* HeartbeatWatchdog.lastHeartbeatMs_
  latched,                \* EstopLatch.latched_
  activeCmdVel, activeCmdReceivedAtMs, hasActiveCmdVel,
  motor,                  \* what the motor pins were last set to
  \* History variables, read by the properties and never by a guard on the
  \* program's own state:
  loopMs,                 \* real time since nowMs was read
  hbAge,                  \* real time since the watchdog was last fed
  cmdAge,                 \* real time since the active command was stamped
  expired,                \* the loop has stopped the rover because the
                          \*   active command had expired
  owesStop                \* emergency_stop came while moving and the motors
                          \*   have not been stopped since

kernel == <<lastHeartbeatMs, latched, activeCmdVel, activeCmdReceivedAtMs,
            hasActiveCmdVel, motor>>
time == <<clock, nowMs, loopMs>>
ages == <<hbAge, cmdAge>>
vars == <<time, phase, kernel, ages, expired, owesStop>>

Phases == {"idle", "serial", "ble", "safety"}
MotorStates == {"brake", "coast", "drive"}

------------------------------------------------------------------------------
(* uint32_t arithmetic, for operands already in 0..ClockMod-1.             *)

\* Mutant: the counter is wider than the type it is compared in.
WrapSuccWide(t) == t + 1
WrapSucc(t) == IF t + 1 = ClockMod THEN 0 ELSE t + 1
Elapsed(now, since) ==
  IF now >= since THEN now - since ELSE now - since + ClockMod

\* Ages saturate at ClockMod: from there on the wrapped difference no longer
\* tells how old the stamp is.
Older(age) == IF age < ClockMod THEN age + 1 ELSE age

IsTimedOut == Elapsed(nowMs, lastHeartbeatMs) > HeartbeatTimeout
\* Mutants: the TTL is measured from the last heartbeat; the expiry is a
\* moment to be hit, not a threshold.
IsExpiredSinceHeartbeat ==
  Elapsed(nowMs, lastHeartbeatMs) > activeCmdVel.ttl
IsExpiredAtDeadline ==
  Elapsed(nowMs, activeCmdReceivedAtMs) = activeCmdVel.ttl + 1
IsExpired == Elapsed(nowMs, activeCmdReceivedAtMs) > activeCmdVel.ttl

\* Mutants: the watchdog test is lost; the exemption of manual PWM from the
\* TTL comes before the latch and the watchdog.
SafetyStopWithoutWatchdog ==
  latched \/ ~hasActiveCmdVel \/ (~activeCmdVel.manual /\ IsExpired)
SafetyStopManualFirst ==
  ~activeCmdVel.manual
    /\ (latched \/ IsTimedOut \/ ~hasActiveCmdVel \/ IsExpired)
SafetyStopRequired ==
  \/ latched
  \/ IsTimedOut
  \/ ~hasActiveCmdVel
  \/ (~activeCmdVel.manual /\ IsExpired)

\* applyActiveCommand.  The mixer ignores the coast flag: a mixed command
\* coasts when both its outputs are zero.
MotorOutput(cmd) ==
  IF cmd.brake THEN "brake"
  ELSE IF (cmd.manual /\ cmd.coast) \/ ~cmd.moves THEN "coast"
  ELSE "drive"

MotorStop == motor' = "brake" /\ owesStop' = FALSE
MotorUntouched == UNCHANGED <<motor, owesStop>>

------------------------------------------------------------------------------
\* CmdVel's member initialisers.
DefaultCmdVel ==
  [manual |-> FALSE, brake |-> FALSE, coast |-> FALSE, moves |-> FALSE,
   ttl |-> MaxTtl]

\* roverFirmwareSetup: the motors stopped, the watchdog fed by begin().
Init ==
  /\ clock = 0 /\ nowMs = 0 /\ loopMs = 0
  /\ phase = "idle"
  /\ lastHeartbeatMs = clock
  /\ latched = FALSE
  /\ activeCmdVel = DefaultCmdVel
  /\ activeCmdReceivedAtMs = 0
  /\ hasActiveCmdVel = FALSE
  /\ motor = "brake"
  /\ hbAge = 0 /\ cmdAge = 0
  /\ expired = FALSE
  /\ owesStop = FALSE

\* A millisecond passes, between any two steps of the loop.
Tick ==
  /\ loopMs < MaxLoopMs
  /\ clock' = WrapSucc(clock)
  /\ loopMs' = loopMs + 1
  /\ hbAge' = Older(hbAge)
  /\ cmdAge' = Older(cmdAge)
  /\ UNCHANGED <<nowMs, phase, kernel, expired, owesStop>>

LoopBegin ==
  /\ phase = "idle"
  /\ phase' = "serial"
  /\ nowMs' = clock
  /\ loopMs' = 0
  /\ UNCHANGED <<clock, kernel, ages, expired, owesStop>>

\* processTransport: poll returned a packet ...
Polling == phase \in {"serial", "ble"}
Handling == Polling /\ UNCHANGED <<time, phase>>

Cmds == IF phase = "serial" THEN SerialCmds ELSE BleCmds

RefuseCmdVel ==
  /\ Handling
  /\ latched \/ IsTimedOut
  /\ hasActiveCmdVel' = FALSE
  /\ MotorStop
  /\ UNCHANGED <<lastHeartbeatMs, latched, activeCmdVel,
                 activeCmdReceivedAtMs, ages, expired>>

AcceptCmdVel(cmd) ==
  /\ Handling
  /\ ~latched /\ ~IsTimedOut
  /\ activeCmdVel' = cmd
  /\ activeCmdReceivedAtMs' = nowMs
  /\ hasActiveCmdVel' = TRUE
  /\ cmdAge' = loopMs
  /\ expired' = FALSE
  /\ MotorUntouched
  /\ UNCHANGED <<lastHeartbeatMs, latched, hbAge>>

HandleCmdVel(cmd) == RefuseCmdVel \/ AcceptCmdVel(cmd)

HandleEmergencyStop ==
  /\ Handling
  /\ hasActiveCmdVel' = FALSE
  /\ latched' = TRUE
  /\ owesStop' = (owesStop \/ motor = "drive")
  /\ UNCHANGED <<lastHeartbeatMs, activeCmdVel, activeCmdReceivedAtMs, motor,
                 ages, expired>>

HandleHeartbeat ==
  /\ Handling
  /\ lastHeartbeatMs' = nowMs
  /\ hbAge' = loopMs
  /\ MotorUntouched
  /\ UNCHANGED <<latched, activeCmdVel, activeCmdReceivedAtMs,
                 hasActiveCmdVel, cmdAge, expired>>

\* Mutants: reset_estop leaves the motors alone; it restores the command that
\* was active before the stop.
ResetEstopWithoutStop ==
  /\ Handling
  /\ hasActiveCmdVel' = FALSE
  /\ latched' = FALSE
  /\ MotorUntouched
  /\ UNCHANGED <<lastHeartbeatMs, activeCmdVel, activeCmdReceivedAtMs, ages,
                 expired>>
ResetEstopResumes ==
  /\ Handling
  /\ hasActiveCmdVel' = TRUE
  /\ latched' = FALSE
  /\ MotorStop
  /\ UNCHANGED <<lastHeartbeatMs, activeCmdVel, activeCmdReceivedAtMs, ages,
                 expired>>

HandleResetEstop ==
  /\ Handling
  /\ hasActiveCmdVel' = FALSE
  /\ latched' = FALSE
  /\ MotorStop
  /\ UNCHANGED <<lastHeartbeatMs, activeCmdVel, activeCmdReceivedAtMs, ages,
                 expired>>

\* ... or poll returned false, and the loop turns to the next part.
TransportDrained ==
  /\ Polling
  /\ phase' = IF phase = "serial" THEN "ble" ELSE "safety"
  /\ UNCHANGED <<time, kernel, ages, expired, owesStop>>

\* Mutant: the command survives the loss of the heartbeat.
SafetyStopKeepsCommand ==
  /\ phase = "safety"
  /\ SafetyStopRequired
  /\ hasActiveCmdVel' = (hasActiveCmdVel /\ ~latched)
  /\ MotorStop
  /\ expired' = (expired \/ (hasActiveCmdVel' /\ ~IsTimedOut))
  /\ phase' = "idle"
  /\ UNCHANGED <<time, lastHeartbeatMs, latched, activeCmdVel,
                 activeCmdReceivedAtMs, ages>>

SafetyStop ==
  /\ phase = "safety"
  /\ SafetyStopRequired
  /\ hasActiveCmdVel' = (hasActiveCmdVel /\ ~latched /\ ~IsTimedOut)
  /\ MotorStop
  /\ expired' = (expired \/ hasActiveCmdVel')
  /\ phase' = "idle"
  /\ UNCHANGED <<time, lastHeartbeatMs, latched, activeCmdVel,
                 activeCmdReceivedAtMs, ages>>

ApplyActiveCommand ==
  /\ phase = "safety"
  /\ ~SafetyStopRequired
  /\ motor' = MotorOutput(activeCmdVel)
  /\ owesStop' = (owesStop /\ motor' = "drive")
  /\ phase' = "idle"
  /\ UNCHANGED <<time, lastHeartbeatMs, latched, activeCmdVel,
                 activeCmdReceivedAtMs, hasActiveCmdVel, ages, expired>>

Next ==
  \/ Tick
  \/ LoopBegin
  \/ \E cmd \in Cmds : HandleCmdVel(cmd)
  \/ HandleEmergencyStop
  \/ HandleHeartbeat
  \/ HandleResetEstop
  \/ TransportDrained
  \/ SafetyStop
  \/ ApplyActiveCommand

SafeSpec == Init /\ [][Next]_vars

(***************************************************************************)
(* The core calls loop() for ever and every step of it terminates.  A      *)
(* transport runs dry again and again: the loop reads its input faster     *)
(* than the serial line and the BLE link deliver it.                       *)
(***************************************************************************)
Fairness ==
  /\ WF_vars(Tick)
  /\ WF_vars(LoopBegin)
  /\ WF_vars(TransportDrained)
  /\ WF_vars(SafetyStop \/ ApplyActiveCommand)

Spec == SafeSpec /\ Fairness

------------------------------------------------------------------------------
(* Properties                                                              *)

TypeOK ==
  /\ clock \in 0..(ClockMod - 1) /\ nowMs \in 0..(ClockMod - 1)
  /\ loopMs \in 0..MaxLoopMs
  /\ phase \in Phases
  /\ lastHeartbeatMs \in 0..(ClockMod - 1)
  /\ latched \in BOOLEAN
  /\ activeCmdVel \in CmdVel
  /\ activeCmdReceivedAtMs \in 0..(ClockMod - 1)
  /\ hasActiveCmdVel \in BOOLEAN
  /\ motor \in MotorStates
  /\ hbAge \in 0..ClockMod /\ cmdAge \in 0..ClockMod
  /\ expired \in BOOLEAN /\ owesStop \in BOOLEAN

(***************************************************************************)
(* When the wheels turn, the watchdog was fed within the timeout, plus one *)
(* loop because the check uses the time read at the start of its loop, plus *)
(* one because the output stands until the next check.  The only exception *)
(* is a feed so old that millis() has gone all the way round since.        *)
(***************************************************************************)
HeartbeatDeadline ==
  motor = "drive" => \/ hbAge <= HeartbeatTimeout + 2 * MaxLoopMs
                     \/ hbAge = ClockMod

(***************************************************************************)
(* A cmd_vel that is not manual PWM stops turning the wheels two loops     *)
(* after its ttl_ms at the latest, again unless the clock has gone round.  *)
(***************************************************************************)
TtlDeadline ==
  motor = "drive" /\ ~activeCmdVel.manual =>
    \/ cmdAge <= activeCmdVel.ttl + 2 * MaxLoopMs
    \/ cmdAge = ClockMod

(***************************************************************************)
(* emergency_stop only sets the latch; the motors stop later.  Whatever    *)
(* packets arrive in the same batch (a reset, a new cmd_vel), no new       *)
(* command is taken before the motors have really been stopped.            *)
(***************************************************************************)
StopBeforeNewCommand == owesStop => latched /\ ~hasActiveCmdVel

(***************************************************************************)
(* A command the loop has seen expired stays in activeCmdVel with          *)
(* hasActiveCmdVel set, yet it never starts the motors again (while its    *)
(* stamp is younger than the range of the clock).                          *)
(***************************************************************************)
ExpiredCommandStaysDead ==
  [][motor # "drive" /\ motor' = "drive" /\ cmdAge < ClockMod => ~expired]_vars

(***************************************************************************)
(* The firmware implements the abstract safety promise, and serves an      *)
(* emergency stop under the loop's fairness.                               *)
(***************************************************************************)
Promise == INSTANCE RoverSafety WITH
  authority <- IF latched THEN "estopped"
               ELSE IF hasActiveCmdVel THEN "granted" ELSE "none",
  moving <- motor = "drive"

ImplementsRoverSafety == Promise!SafetySpec

EstopServed == Promise!EstopIsServed

==============================================================================
