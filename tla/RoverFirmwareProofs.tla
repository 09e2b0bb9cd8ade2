------------------------- MODULE RoverFirmwareProofs -------------------------
(***************************************************************************)
(* The safety kernel's invariants, action property and refinement, for     *)
(* every clock range, timeout, loop bound and command set that             *)
(* ConfigAssumption allows; and what the loss of the link and a restart do *)
(* to it.  The second part takes the firmware's invariant from the first:  *)
(* every step of the composition but a restart is a step of the firmware   *)
(* or leaves it alone.                                                     *)
(***************************************************************************)
EXTENDS RoverLink, TLAPS

Clock == 0..(ClockMod - 1)

\* The history variables measure what the program computes with wrapping
\* subtraction, as long as they are below the range of the clock.
AgesExact ==
  /\ Elapsed(clock, nowMs) = loopMs
  /\ loopMs <= hbAge /\ loopMs <= cmdAge
  /\ hbAge < ClockMod => Elapsed(clock, lastHeartbeatMs) = hbAge
  /\ cmdAge < ClockMod => Elapsed(clock, activeCmdReceivedAtMs) = cmdAge

\* How much real time may lie between the moment the last check looked at
\* and now: the running loop, and the one before it once a new one has begun.
SinceCheck == IF phase = "idle" THEN loopMs ELSE MaxLoopMs + loopMs

HeartbeatFresh ==
  motor = "drive" => \/ hbAge <= HeartbeatTimeout + SinceCheck
                     \/ hbAge = ClockMod

TtlFresh ==
  motor = "drive" /\ ~activeCmdVel.manual =>
    \/ cmdAge <= activeCmdVel.ttl + SinceCheck
    \/ cmdAge = ClockMod

ExpiredIsOld ==
  expired /\ cmdAge < ClockMod =>
    ~activeCmdVel.manual /\ cmdAge > activeCmdVel.ttl + loopMs

IInv ==
  /\ TypeOK
  /\ AgesExact
  /\ HeartbeatFresh
  /\ TtlFresh
  /\ StopBeforeNewCommand
  /\ ExpiredIsOld

------------------------------------------------------------------------------
(* Wrapping subtraction.                                                   *)

LEMMA ElapsedRange ==
  ASSUME NEW a \in Clock, NEW b \in Clock
  PROVE  Elapsed(a, b) \in Clock
BY ConfigAssumption DEF Clock, Elapsed

\* One tick of the clock ages every stamp by one, except one that is already
\* a full turn old.
LEMMA ElapsedTick ==
  ASSUME NEW a \in Clock, NEW b \in Clock, Elapsed(a, b) + 1 < ClockMod
  PROVE  /\ WrapSucc(a) \in Clock
         /\ Elapsed(WrapSucc(a), b) = Elapsed(a, b) + 1
BY ConfigAssumption DEF Clock, Elapsed, WrapSucc

LEMMA WrapSuccRange ==
  ASSUME NEW a \in Clock
  PROVE  WrapSucc(a) \in Clock
BY ConfigAssumption DEF Clock, WrapSucc

\* The age at the loop's start is the age now less the loop's own time.
LEMMA ElapsedAtLoopStart ==
  ASSUME NEW c \in Clock, NEW n \in Clock, NEW s \in Clock,
         Elapsed(c, n) <= Elapsed(c, s)
  PROVE  Elapsed(n, s) = Elapsed(c, s) - Elapsed(c, n)
BY ConfigAssumption DEF Clock, Elapsed

------------------------------------------------------------------------------
(* Type correctness is inductive by itself.                                *)

LEMMA InitType == Init => TypeOK
<1>1. DefaultCmdVel \in CmdVel
  BY ConfigAssumption DEF DefaultCmdVel, CmdVel
<1>2. 0 \in 0..(ClockMod - 1) /\ 0 \in 0..ClockMod /\ 0 \in 0..MaxLoopMs
  BY ConfigAssumption
<1> QED
  BY <1>1, <1>2 DEF Init, TypeOK, Phases, MotorStates

LEMMA CmdsAreCmdVel == Cmds \subseteq CmdVel
BY ConfigAssumption DEF Cmds

LEMMA OutputIsMotorState ==
  ASSUME NEW cmd \in CmdVel PROVE MotorOutput(cmd) \in MotorStates
BY DEF MotorOutput, MotorStates

LEMMA NextType == TypeOK /\ [Next]_vars => TypeOK'
<1> SUFFICES ASSUME TypeOK, [Next]_vars PROVE TypeOK'
  OBVIOUS
<1> USE ConfigAssumption DEF TypeOK
<1>1. CASE Tick
  <2>1. clock' \in 0..(ClockMod - 1)
    BY <1>1, WrapSuccRange DEF Tick, Clock
  <2>2. hbAge' \in 0..ClockMod /\ cmdAge' \in 0..ClockMod
    BY <1>1 DEF Tick, Older
  <2>3. loopMs' \in 0..MaxLoopMs
    BY <1>1 DEF Tick
  <2> QED
    BY <1>1, <2>1, <2>2, <2>3 DEF Tick, kernel
<1>2. CASE LoopBegin
  BY <1>2 DEF LoopBegin, kernel, ages, Phases
<1>3. ASSUME NEW cmd \in Cmds, RefuseCmdVel PROVE TypeOK'
  BY <1>3 DEF RefuseCmdVel, Handling, MotorStop, time, ages, MotorStates
<1>4. ASSUME NEW cmd \in Cmds, AcceptCmdVel(cmd) PROVE TypeOK'
  <2>1. cmdAge' \in 0..ClockMod
    BY <1>4 DEF AcceptCmdVel
  <2> QED
    BY <1>4, <2>1, CmdsAreCmdVel
       DEF AcceptCmdVel, Handling, MotorUntouched, time
<1>5. CASE HandleEmergencyStop
  BY <1>5 DEF HandleEmergencyStop, Handling, time, ages
<1>6. CASE HandleHeartbeat
  BY <1>6 DEF HandleHeartbeat, Handling, MotorUntouched, time
<1>7. CASE HandleResetEstop
  BY <1>7 DEF HandleResetEstop, Handling, MotorStop, time, ages, MotorStates
<1>8. CASE TransportDrained
  BY <1>8 DEF TransportDrained, kernel, time, ages, Phases
<1>9. CASE SafetyStop
  BY <1>9 DEF SafetyStop, MotorStop, time, ages, Phases, MotorStates
<1>10. CASE ApplyActiveCommand
  BY <1>10, OutputIsMotorState DEF ApplyActiveCommand, time, ages, Phases
<1>11. CASE UNCHANGED vars
  BY <1>11 DEF vars, kernel, time, ages
<1> QED
  BY <1>1, <1>2, <1>3, <1>4, <1>5, <1>6, <1>7, <1>8, <1>9, <1>10, <1>11
     DEF Next, HandleCmdVel
------------------------------------------------------------------------------
(* The strengthened invariant.                                             *)

\* Every stamp is taken from nowMs, so seen from nowMs its age is the history
\* variable less the loop's own time.
LEMMA AgeAtCheck ==
  ASSUME TypeOK, AgesExact
  PROVE  /\ hbAge < ClockMod =>
              Elapsed(nowMs, lastHeartbeatMs) = hbAge - loopMs
         /\ cmdAge < ClockMod =>
              Elapsed(nowMs, activeCmdReceivedAtMs) = cmdAge - loopMs
BY ElapsedAtLoopStart DEF TypeOK, AgesExact, Clock

LEMMA NextAgesExact ==
  ASSUME TypeOK, AgesExact, [Next]_vars PROVE AgesExact'
<1> USE ConfigAssumption DEF TypeOK, AgesExact
<1>1. CASE Tick
  <2>1. Elapsed(clock, nowMs)' = loopMs'
    BY <1>1, ElapsedTick DEF Tick, Clock
  <2>2. hbAge' < ClockMod => Elapsed(clock, lastHeartbeatMs)' = hbAge'
    BY <1>1, ElapsedTick DEF Tick, Older, Clock, kernel
  <2>3. cmdAge' < ClockMod =>
          Elapsed(clock, activeCmdReceivedAtMs)' = cmdAge'
    BY <1>1, ElapsedTick DEF Tick, Older, Clock, kernel
  <2>4. loopMs' <= hbAge' /\ loopMs' <= cmdAge'
    BY <1>1 DEF Tick, Older
  <2> QED
    BY <2>1, <2>2, <2>3, <2>4
<1>2. CASE LoopBegin
  <2>1. Elapsed(clock, nowMs)' = 0
    BY <1>2 DEF LoopBegin, Elapsed
  <2> QED
    BY <1>2, <2>1 DEF LoopBegin, kernel, ages, Elapsed
<1>3. ASSUME NEW cmd \in Cmds, AcceptCmdVel(cmd) PROVE AgesExact'
  BY <1>3 DEF AcceptCmdVel, Handling, time, Elapsed
<1>4. CASE HandleHeartbeat
  BY <1>4 DEF HandleHeartbeat, Handling, time, Elapsed
<1>5. CASE UNCHANGED <<time, ages, lastHeartbeatMs, activeCmdReceivedAtMs>>
  BY <1>5 DEF time, ages, Elapsed
<1>6. RefuseCmdVel \/ HandleEmergencyStop \/ HandleResetEstop
      \/ TransportDrained \/ SafetyStop \/ ApplyActiveCommand
      \/ UNCHANGED vars
      => UNCHANGED <<time, ages, lastHeartbeatMs, activeCmdReceivedAtMs>>
  BY DEF RefuseCmdVel, HandleEmergencyStop, HandleResetEstop, Handling,
         TransportDrained, SafetyStop, ApplyActiveCommand, kernel, vars
<1> QED
  BY <1>1, <1>2, <1>3, <1>4, <1>5, <1>6 DEF Next, HandleCmdVel

\* The wheels may only be set turning by a check that found the heartbeat
\* fresh, and every other step moves the deadline on with the time.
LEMMA NextHeartbeatFresh ==
  ASSUME TypeOK, AgesExact, HeartbeatFresh, [Next]_vars
  PROVE  HeartbeatFresh'
<1> USE ConfigAssumption DEF TypeOK, HeartbeatFresh, SinceCheck
<1>1. CASE Tick
  BY <1>1 DEF Tick, Older, kernel
<1>2. CASE LoopBegin
  BY <1>2 DEF LoopBegin, kernel, ages
<1>3. ASSUME NEW cmd \in Cmds, AcceptCmdVel(cmd) PROVE HeartbeatFresh'
  BY <1>3 DEF AcceptCmdVel, Handling, MotorUntouched, time
<1>4. CASE HandleHeartbeat
  BY <1>4 DEF HandleHeartbeat, Handling, Polling, MotorUntouched, time
<1>5. CASE RefuseCmdVel \/ HandleResetEstop \/ SafetyStop
  BY <1>5 DEF RefuseCmdVel, HandleResetEstop, SafetyStop, MotorStop
<1>6. CASE HandleEmergencyStop
  BY <1>6 DEF HandleEmergencyStop, Handling, time, ages
<1>7. CASE TransportDrained
  BY <1>7 DEF TransportDrained, Polling, kernel, time, ages
<1>8. CASE ApplyActiveCommand
  <2>1. hbAge < ClockMod => hbAge - loopMs <= HeartbeatTimeout
    BY <1>8, AgeAtCheck
       DEF ApplyActiveCommand, SafetyStopRequired, IsTimedOut
  <2> QED
    BY <1>8, <2>1 DEF ApplyActiveCommand, time, ages
<1>9. CASE UNCHANGED vars
  BY <1>9 DEF vars, kernel, time, ages
<1> QED
  BY <1>1, <1>2, <1>3, <1>4, <1>5, <1>6, <1>7, <1>8, <1>9
     DEF Next, HandleCmdVel

LEMMA NextTtlFresh ==
  ASSUME TypeOK, AgesExact, TtlFresh, [Next]_vars
  PROVE  TtlFresh'
<1> USE ConfigAssumption DEF TypeOK, CmdVel, TtlFresh, SinceCheck
<1>1. CASE Tick
  BY <1>1 DEF Tick, Older, kernel
<1>2. CASE LoopBegin
  BY <1>2 DEF LoopBegin, kernel, ages
<1>3. ASSUME NEW cmd \in Cmds, AcceptCmdVel(cmd) PROVE TtlFresh'
  BY <1>3, CmdsAreCmdVel
     DEF AcceptCmdVel, Handling, Polling, MotorUntouched, time
<1>4. CASE HandleHeartbeat
  BY <1>4 DEF HandleHeartbeat, Handling, MotorUntouched, time
<1>5. CASE RefuseCmdVel \/ HandleResetEstop \/ SafetyStop
  BY <1>5 DEF RefuseCmdVel, HandleResetEstop, SafetyStop, MotorStop
<1>6. CASE HandleEmergencyStop
  BY <1>6 DEF HandleEmergencyStop, Handling, time, ages
<1>7. CASE TransportDrained
  BY <1>7 DEF TransportDrained, Polling, kernel, time, ages
<1>8. CASE ApplyActiveCommand
  <2>1. ~activeCmdVel.manual /\ cmdAge < ClockMod =>
          cmdAge - loopMs <= activeCmdVel.ttl
    BY <1>8, AgeAtCheck
       DEF ApplyActiveCommand, SafetyStopRequired, IsExpired
  <2> QED
    BY <1>8, <2>1 DEF ApplyActiveCommand, time, ages
<1>9. CASE UNCHANGED vars
  BY <1>9 DEF vars, kernel, time, ages
<1> QED
  BY <1>1, <1>2, <1>3, <1>4, <1>5, <1>6, <1>7, <1>8, <1>9
     DEF Next, HandleCmdVel

\* A stop is owed only under the latch; the latch is left only through
\* reset_estop, which pays it.
LEMMA NextStopBeforeNewCommand ==
  ASSUME TypeOK, StopBeforeNewCommand, [Next]_vars
  PROVE  StopBeforeNewCommand'
<1> USE DEF StopBeforeNewCommand
<1>1. CASE Tick \/ LoopBegin \/ TransportDrained \/ UNCHANGED vars
  BY <1>1 DEF Tick, LoopBegin, TransportDrained, vars, kernel
<1>2. ASSUME NEW cmd \in Cmds, AcceptCmdVel(cmd)
      PROVE  StopBeforeNewCommand'
  BY <1>2 DEF AcceptCmdVel, MotorUntouched
<1>3. CASE RefuseCmdVel \/ HandleResetEstop \/ SafetyStop
  BY <1>3 DEF RefuseCmdVel, HandleResetEstop, SafetyStop, MotorStop
<1>4. CASE HandleEmergencyStop
  BY <1>4 DEF HandleEmergencyStop
<1>5. CASE HandleHeartbeat
  BY <1>5 DEF HandleHeartbeat, MotorUntouched
<1>6. CASE ApplyActiveCommand
  BY <1>6 DEF ApplyActiveCommand, SafetyStopRequired
<1> QED
  BY <1>1, <1>2, <1>3, <1>4, <1>5, <1>6 DEF Next, HandleCmdVel

LEMMA NextExpiredIsOld ==
  ASSUME TypeOK, AgesExact, ExpiredIsOld, [Next]_vars
  PROVE  ExpiredIsOld'
<1> USE ConfigAssumption DEF TypeOK, CmdVel, ExpiredIsOld
<1>1. CASE Tick
  BY <1>1 DEF Tick, Older, kernel
<1>2. CASE LoopBegin
  BY <1>2 DEF LoopBegin, kernel, ages
<1>3. ASSUME NEW cmd \in Cmds, AcceptCmdVel(cmd) PROVE ExpiredIsOld'
  BY <1>3 DEF AcceptCmdVel
<1>4. CASE SafetyStop
  <2>1. CASE expired
    BY <1>4, <2>1 DEF SafetyStop, time, ages
  <2>2. CASE ~expired
    <3>1. expired' => ~activeCmdVel.manual /\ IsExpired
      BY <1>4, <2>2 DEF SafetyStop, SafetyStopRequired
    <3>2. IsExpired /\ cmdAge < ClockMod => cmdAge > activeCmdVel.ttl + loopMs
      BY AgeAtCheck DEF IsExpired
    <3> QED
      BY <1>4, <3>1, <3>2 DEF SafetyStop, time, ages
  <2> QED
    BY <2>1, <2>2
<1>5. CASE UNCHANGED <<activeCmdVel, loopMs, cmdAge, expired>>
  BY <1>5
<1>6. RefuseCmdVel \/ HandleEmergencyStop \/ HandleHeartbeat
      \/ HandleResetEstop \/ TransportDrained \/ ApplyActiveCommand
      \/ UNCHANGED vars
      => UNCHANGED <<activeCmdVel, loopMs, cmdAge, expired>>
  BY DEF RefuseCmdVel, HandleEmergencyStop, HandleHeartbeat,
         HandleResetEstop, Handling, TransportDrained, ApplyActiveCommand,
         kernel, time, ages, vars
<1> QED
  BY <1>1, <1>2, <1>3, <1>4, <1>5, <1>6 DEF Next, HandleCmdVel

LEMMA InitIInv == Init => IInv
<1> SUFFICES ASSUME Init PROVE IInv
  OBVIOUS
<1>1. TypeOK
  BY InitType
<1>2. AgesExact
  BY ConfigAssumption DEF Init, AgesExact, Elapsed
<1>3. HeartbeatFresh /\ TtlFresh /\ StopBeforeNewCommand /\ ExpiredIsOld
  BY DEF Init, HeartbeatFresh, TtlFresh, StopBeforeNewCommand, ExpiredIsOld
<1> QED
  BY <1>1, <1>2, <1>3 DEF IInv

LEMMA NextIInv == IInv /\ [Next]_vars => IInv'
BY NextType, NextAgesExact, NextHeartbeatFresh, NextTtlFresh,
   NextStopBeforeNewCommand, NextExpiredIsOld DEF IInv

LEMMA InductiveInvariant == SafeSpec => []IInv
BY InitIInv, NextIInv, PTL DEF SafeSpec

------------------------------------------------------------------------------
(* Results                                                                 *)

\* Every variable keeps its type, above all: the clock values stay inside the
\* range the wrapping subtraction is defined on.
THEOREM TypeCorrect == SafeSpec => []TypeOK
<1>1. IInv => TypeOK
  BY DEF IInv
<1> QED
  BY <1>1, InductiveInvariant, PTL

\* When the wheels turn, the last heartbeat is at most the timeout and two
\* loops old, or a full turn of millis(): safetyStopRequired's watchdog test.
THEOREM HeartbeatDeadlineHolds == SafeSpec => []HeartbeatDeadline
<1>1. IInv => HeartbeatDeadline
  BY ConfigAssumption
     DEF IInv, TypeOK, HeartbeatFresh, SinceCheck, HeartbeatDeadline
<1> QED
  BY <1>1, InductiveInvariant, PTL

\* The same for the ttl_ms of a cmd_vel that is not manual PWM:
\* safetyStopRequired's TTL test.
THEOREM TtlDeadlineHolds == SafeSpec => []TtlDeadline
<1>1. IInv => TtlDeadline
  BY ConfigAssumption
     DEF IInv, TypeOK, CmdVel, TtlFresh, SinceCheck, TtlDeadline
<1> QED
  BY <1>1, InductiveInvariant, PTL

\* Between an emergency_stop and the next accepted cmd_vel the motors are
\* stopped: handle's EmergencyStop, ResetEstop and CmdVel cases together.
THEOREM StopBeforeNewCommandHolds == SafeSpec => []StopBeforeNewCommand
<1>1. IInv => StopBeforeNewCommand
  BY DEF IInv
<1> QED
  BY <1>1, InductiveInvariant, PTL

\* A command the loop has stopped for expiry never starts the motors again
\* (hasActiveCmdVel stays set; only the TTL test holds it back).
THEOREM ExpiredCommandStaysDeadHolds == SafeSpec => ExpiredCommandStaysDead
<1>1. IInv /\ [Next]_vars =>
        [motor # "drive" /\ motor' = "drive" /\ cmdAge < ClockMod
           => ~expired]_vars
  <2> SUFFICES ASSUME IInv, Next, motor # "drive", motor' = "drive",
                      cmdAge < ClockMod, expired
               PROVE  FALSE
    BY DEF vars
  <2>1. ApplyActiveCommand
    BY DEF Next, HandleCmdVel, Tick, LoopBegin, RefuseCmdVel, AcceptCmdVel,
           HandleEmergencyStop, HandleHeartbeat, HandleResetEstop,
           TransportDrained, SafetyStop, MotorStop, MotorUntouched, kernel
  <2>2. ~activeCmdVel.manual /\ cmdAge - loopMs > activeCmdVel.ttl
    BY ConfigAssumption DEF IInv, ExpiredIsOld, TypeOK, CmdVel
  <2>3. IsExpired
    BY <2>2, AgeAtCheck DEF IInv, IsExpired
  <2> QED
    BY <2>1, <2>2, <2>3 DEF ApplyActiveCommand, SafetyStopRequired
<1> QED
  BY <1>1, InductiveInvariant, PTL DEF SafeSpec, ExpiredCommandStaysDead

\* Every step of the firmware is a step the abstract rover may take, or
\* changes neither its authority nor its motion.
THEOREM Refinement == SafeSpec => ImplementsRoverSafety
<1> USE DEF Promise!SafetyInit, Promise!SafetyNext, Promise!safetyVars,
            Promise!Grant, Promise!Withdraw, Promise!EmergencyStop,
            Promise!Reset, Promise!Halt, Promise!Move
<1>1. Init => Promise!SafetyInit
  BY DEF Init
<1>2. TypeOK /\ [Next]_vars => [Promise!SafetyNext]_Promise!safetyVars
  <2> SUFFICES ASSUME TypeOK, [Next]_vars
               PROVE  [Promise!SafetyNext]_Promise!safetyVars
    OBVIOUS
  <2> USE DEF TypeOK, MotorStates
  <2>1. CASE Tick \/ LoopBegin \/ TransportDrained \/ UNCHANGED vars
    BY <2>1 DEF Tick, LoopBegin, TransportDrained, vars, kernel
  <2>2. CASE RefuseCmdVel
    BY <2>2 DEF RefuseCmdVel, MotorStop
  <2>3. ASSUME NEW cmd \in Cmds, AcceptCmdVel(cmd)
        PROVE  Promise!Grant
    BY <2>3 DEF AcceptCmdVel, MotorUntouched
  <2>4. CASE HandleEmergencyStop
    BY <2>4 DEF HandleEmergencyStop
  <2>5. CASE HandleHeartbeat
    BY <2>5 DEF HandleHeartbeat, MotorUntouched
  <2>6. CASE HandleResetEstop
    BY <2>6 DEF HandleResetEstop, MotorStop
  <2>7. CASE SafetyStop
    BY <2>7 DEF SafetyStop, MotorStop
  <2>8. CASE ApplyActiveCommand
    BY <2>8 DEF ApplyActiveCommand, SafetyStopRequired
  <2> QED
    BY <2>1, <2>2, <2>3, <2>4, <2>5, <2>6, <2>7, <2>8
       DEF Next, HandleCmdVel
<1> QED
  BY <1>1, <1>2, TypeCorrect, PTL
     DEF SafeSpec, ImplementsRoverSafety, Promise!SafetySpec

------------------------------------------------------------------------------
(* RoverLink: the firmware behind its link, on a board that restarts.      *)

\* The age the watchdog sees.  It wraps with the clock, unlike hbAge.
HeartbeatAge == Elapsed(clock, lastHeartbeatMs)

\* There is something to be stopped.
Alive == hasActiveCmdVel \/ motor = "drive"

SlotTyped ==
  /\ link \in BOOLEAN
  /\ slot \in Packet \cup {NoPacket}
  /\ slot.kind = "cmd_vel" => slot.cmd \in BleCmds
  /\ outage \in 0..(OutageLimit + 1)
  /\ slotStale \in BOOLEAN /\ stale \in BOOLEAN

\* The buffer is read in every loop, so what it holds was written in this
\* loop or, before this one has read it, in the last.
SlotFresh ==
  /\ link => outage = 0
  /\ ~link /\ slot # NoPacket =>
       outage <= IF Polling THEN MaxLoopMs + loopMs ELSE loopMs
  /\ ~slotStale

\* The last check has found the heartbeat fresh.
AliveIsFresh == Alive => HeartbeatAge <= HeartbeatTimeout + SinceCheck

\* A heartbeat that is handled after the link went down was in the buffer
\* then.
OutageCounted == ~link /\ Alive => outage <= HeartbeatAge + MaxLoopMs

StaleIsStopped == stale => ~Alive

LinkInv ==
  /\ IInv
  /\ SlotTyped
  /\ SlotFresh
  /\ AliveIsFresh
  /\ OutageCounted
  /\ StaleIsStopped

------------------------------------------------------------------------------
(* The firmware's part.                                                    *)

LEMMA SetupInit == Setup => Init'
BY DEF Setup, Init

\* What the link delivers is a packet the firmware may be given.
LEMMA StepOfFirmware ==
  ASSUME SlotTyped, LinkNext, ~Restart PROVE [Next]_vars
<1>1. CASE Connect \/ LinkLost \/ Write
  BY <1>1 DEF Connect, LinkLost, Write, OnCommandWrite
<1>2. CASE HandlePacket
  BY <1>2 DEF HandlePacket, SlotTyped, Next, HandleCmdVel, Cmds
<1>3. CASE Drained
  BY <1>3 DEF Drained, Next
<1>4. CASE RestOfLoop
  BY <1>4 DEF RestOfLoop, Next
<1>5. CASE TimePasses
  BY <1>5 DEF TimePasses, Next
<1> QED
  BY <1>1, <1>2, <1>3, <1>4, <1>5 DEF LinkNext

LEMMA LinkNextIInv ==
  ASSUME IInv, SlotTyped, [LinkNext]_allVars PROVE IInv'
<1>1. CASE Restart
  <2>1. Init'
    BY <1>1, SetupInit DEF Restart
  <2>2. Init' => IInv'
    BY InitIInv, PTL
  <2> QED
    BY <2>1, <2>2
<1>2. CASE LinkNext /\ ~Restart
  BY <1>2, StepOfFirmware, NextIInv
<1>3. CASE UNCHANGED allVars
  <2>1. UNCHANGED vars
    BY <1>3 DEF allVars
  <2> QED
    BY <2>1, NextIInv
<1> QED
  BY <1>1, <1>2, <1>3

------------------------------------------------------------------------------
(* The link's part.                                                        *)

LEMMA LimitIsNat ==
  OutageLimit \in Nat /\ OutageLimit >= HeartbeatTimeout + 3 * MaxLoopMs
BY ConfigAssumption DEF OutageLimit

LEMMA EmptySlot == NoPacket.kind = "none" /\ NoPacket.kind # "cmd_vel"
BY DEF NoPacket

LEMMA OutageStarts == 0 \in 0..(OutageLimit + 1)
BY LimitIsNat

LEMMA AgeInClock ==
  ASSUME TypeOK PROVE HeartbeatAge \in Nat /\ HeartbeatAge < ClockMod
BY ElapsedRange, ConfigAssumption DEF TypeOK, HeartbeatAge, Clock

LEMMA InitLinkInv == LinkInit => LinkInv
<1> SUFFICES ASSUME LinkInit PROVE LinkInv
  OBVIOUS
<1>1. IInv
  BY InitIInv DEF LinkInit
<1>2. SlotTyped
  <2>1. slot = NoPacket /\ outage = 0
        /\ {link, slotStale, stale} = {FALSE}
    BY DEF LinkInit
  <2> QED
    BY <2>1, OutageStarts, EmptySlot DEF SlotTyped
<1>3. SlotFresh /\ AliveIsFresh /\ OutageCounted /\ StaleIsStopped
  BY DEF LinkInit, Init, SlotFresh, Alive, AliveIsFresh, OutageCounted,
         StaleIsStopped
<1> QED
  BY <1>1, <1>2, <1>3 DEF LinkInv

LEMMA LinkNextSlotTyped ==
  ASSUME SlotTyped, [LinkNext]_allVars PROVE SlotTyped'
<1> USE ConfigAssumption DEF SlotTyped
<1>1. CASE Connect \/ LinkLost
  BY <1>1, OutageStarts DEF Connect, LinkLost
<1>2. CASE Write
  <2>1. ASSUME NEW cmd \in BleCmds,
               OnCommandWrite([kind |-> "cmd_vel", cmd |-> cmd])
        PROVE  SlotTyped'
    <3> DEFINE packet == [kind |-> "cmd_vel", cmd |-> cmd]
    <3>1. packet \in Packet /\ packet.cmd \in BleCmds
      BY DEF Packet, Kinds
    <3> QED
      BY <2>1, <3>1 DEF OnCommandWrite
  <2>2. ASSUME NEW kind \in Kinds \ {"cmd_vel"},
               OnCommandWrite([kind |-> kind, cmd |-> DefaultCmdVel])
        PROVE  SlotTyped'
    <3> DEFINE packet == [kind |-> kind, cmd |-> DefaultCmdVel]
    <3>1. packet \in Packet /\ packet.kind # "cmd_vel"
      BY DEF Packet
    <3> QED
      BY <2>2, <3>1 DEF OnCommandWrite
  <2> QED
    BY <1>2, <2>1, <2>2 DEF Write
<1>3. CASE HandlePacket
  BY <1>3, EmptySlot DEF HandlePacket
<1>4. CASE TimePasses
  BY <1>4, LimitIsNat DEF TimePasses
<1>5. CASE UNCHANGED linkVars
  BY <1>5 DEF linkVars
<1>6. CASE Restart
  <2>1. slot' = NoPacket /\ outage' \in {0, outage}
        /\ {link', slotStale', stale'} \subseteq BOOLEAN
    BY <1>6 DEF Restart
  <2> QED
    BY <2>1, OutageStarts, EmptySlot
<1> QED
  BY <1>1, <1>2, <1>3, <1>4, <1>5, <1>6
     DEF LinkNext, Drained, RestOfLoop, allVars

\* The loop reads the buffer before it ends; the time that counts is bounded
\* by the loop's.
LEMMA LinkNextSlotFresh ==
  ASSUME TypeOK, SlotTyped, SlotFresh, [LinkNext]_allVars PROVE SlotFresh'
<1> USE ConfigAssumption DEF TypeOK, SlotTyped, SlotFresh, Polling
<1>1. CASE Connect \/ LinkLost \/ Write
  BY <1>1 DEF Connect, LinkLost, Write, OnCommandWrite, vars, time
<1>2. CASE Restart
  BY <1>2 DEF Restart
<1>3. CASE HandlePacket
  <2>1. UNCHANGED <<clock, nowMs, loopMs, phase, link, outage>>
    BY <1>3 DEF HandlePacket, RefuseCmdVel, AcceptCmdVel, HandleEmergencyStop,
                HandleHeartbeat, HandleResetEstop, Handling, time
  <2> QED
    BY <1>3, <2>1 DEF HandlePacket
<1>4. CASE Drained
  BY <1>4 DEF Drained, TransportDrained, linkVars, time, Phases
<1>5. CASE RestOfLoop /\ UNCHANGED linkVars
  BY <1>5 DEF RestOfLoop, LoopBegin, SafetyStop, ApplyActiveCommand,
              linkVars, time
<1>6. CASE TimePasses
  BY <1>6 DEF TimePasses, Tick, OutageLimit
<1>7. CASE UNCHANGED allVars
  BY <1>7 DEF allVars, linkVars, vars, time
<1> QED
  BY <1>1, <1>2, <1>3, <1>4, <1>5, <1>6, <1>7 DEF LinkNext

------------------------------------------------------------------------------
(* The watchdog's part.                                                    *)

\* What the check sees, on a clock that has not gone round since.
LEMMA FreshAtCheck ==
  ASSUME TypeOK, AgesExact, ~IsTimedOut
  PROVE  /\ HeartbeatAge <= HeartbeatTimeout + loopMs
         /\ loopMs <= HeartbeatAge
BY ConfigAssumption DEF TypeOK, AgesExact, IsTimedOut, HeartbeatAge, Elapsed

LEMMA NextAliveIsFresh ==
  ASSUME TypeOK, AgesExact, AliveIsFresh, [Next]_vars PROVE AliveIsFresh'
<1> USE ConfigAssumption, AgeInClock
    DEF TypeOK, AliveIsFresh, Alive, SinceCheck
<1>1. CASE Tick
  <2>1. CASE Alive
    <3>1. HeartbeatAge + 1 < ClockMod
      BY <1>1, <2>1 DEF Tick
    <3>2. HeartbeatAge' = HeartbeatAge + 1
      BY <1>1, <3>1, ElapsedTick DEF Tick, kernel, HeartbeatAge, Clock
    <3> QED
      BY <1>1, <2>1, <3>2 DEF Tick, kernel
  <2>2. CASE ~Alive
    BY <1>1, <2>2 DEF Tick, kernel
  <2> QED
    BY <2>1, <2>2
<1>2. CASE LoopBegin
  BY <1>2 DEF LoopBegin, kernel, HeartbeatAge
<1>3. ASSUME NEW cmd \in Cmds, AcceptCmdVel(cmd) PROVE AliveIsFresh'
  <2>1. HeartbeatAge <= HeartbeatTimeout + loopMs
    BY <1>3, FreshAtCheck DEF AcceptCmdVel
  <2>2. HeartbeatAge' = HeartbeatAge /\ loopMs' = loopMs
    BY <1>3 DEF AcceptCmdVel, Handling, time, HeartbeatAge
  <2> QED
    BY <2>1, <2>2
<1>4. CASE HandleHeartbeat
  <2>1. HeartbeatAge' = loopMs
    BY <1>4 DEF HandleHeartbeat, Handling, time, HeartbeatAge, AgesExact
  <2> QED
    BY <1>4, <2>1 DEF HandleHeartbeat, Handling, time
<1>5. CASE RefuseCmdVel \/ HandleResetEstop
  BY <1>5 DEF RefuseCmdVel, HandleResetEstop, MotorStop
<1>6. CASE HandleEmergencyStop
  BY <1>6 DEF HandleEmergencyStop, Handling, time, HeartbeatAge
<1>7. CASE TransportDrained
  BY <1>7 DEF TransportDrained, Polling, kernel, time, HeartbeatAge
<1>8. CASE SafetyStop
  BY <1>8, FreshAtCheck
     DEF SafetyStop, MotorStop, time, HeartbeatAge
<1>9. CASE ApplyActiveCommand
  BY <1>9, FreshAtCheck
     DEF ApplyActiveCommand, SafetyStopRequired, time, HeartbeatAge
<1>10. CASE UNCHANGED vars
  BY <1>10 DEF vars, kernel, time, HeartbeatAge
<1> QED
  BY <1>1, <1>2, <1>3, <1>4, <1>5, <1>6, <1>7, <1>8, <1>9, <1>10
     DEF Next, HandleCmdVel

LEMMA RestartStops == Restart => ~Alive'
BY DEF Restart, Setup, Alive

LEMMA LinkNextAliveIsFresh ==
  ASSUME TypeOK, AgesExact, SlotTyped, AliveIsFresh, [LinkNext]_allVars
  PROVE  AliveIsFresh'
<1>1. CASE Restart
  BY <1>1, RestartStops DEF AliveIsFresh
<1>2. CASE LinkNext /\ ~Restart
  BY <1>2, StepOfFirmware, NextAliveIsFresh
<1>3. CASE UNCHANGED allVars
  BY <1>3, NextAliveIsFresh DEF allVars
<1> QED
  BY <1>1, <1>2, <1>3

\* The heartbeat ages with the outage; only what was in the buffer when the
\* link went down can make it younger.
LEMMA LinkNextOutageCounted ==
  ASSUME TypeOK, AgesExact, SlotTyped, SlotFresh, AliveIsFresh,
         OutageCounted, [LinkNext]_allVars
  PROVE  OutageCounted'
<1> USE ConfigAssumption, AgeInClock DEF TypeOK, OutageCounted, SlotTyped
<1>1. CASE Connect
  BY <1>1 DEF Connect
<1>2. CASE LinkLost
  BY <1>2 DEF LinkLost, SlotFresh, vars, time, kernel, HeartbeatAge
<1>3. CASE Write
  BY <1>3 DEF Write, OnCommandWrite
<1>4. CASE HandlePacket
  <2>1. CASE RefuseCmdVel \/ HandleResetEstop
    BY <2>1 DEF RefuseCmdVel, HandleResetEstop, MotorStop, Alive
  <2>2. CASE HandleEmergencyStop
    BY <1>4, <2>2 DEF HandlePacket, HandleEmergencyStop, Handling, time,
                      Alive, HeartbeatAge
  <2>3. ~link /\ slot # NoPacket => outage <= MaxLoopMs + loopMs
    BY <1>4 DEF HandlePacket, SlotFresh, Polling
  <2>4. slot # NoPacket
    BY <1>4 DEF HandlePacket, NoPacket
  <2>5. CASE HandleHeartbeat
    <3>1. HeartbeatAge' = loopMs
      BY <2>5 DEF HandleHeartbeat, Handling, time, HeartbeatAge, AgesExact
    <3> QED
      BY <1>4, <2>3, <2>4, <3>1 DEF HandlePacket
  <2>6. CASE AcceptCmdVel(slot.cmd)
    <3>1. loopMs <= HeartbeatAge /\ HeartbeatAge' = HeartbeatAge
      BY <2>6, FreshAtCheck DEF AcceptCmdVel, Handling, time, HeartbeatAge
    <3> QED
      BY <1>4, <2>3, <2>4, <3>1 DEF HandlePacket
  <2> QED
    BY <1>4, <2>1, <2>2, <2>5, <2>6 DEF HandlePacket
<1>5. CASE Drained
  BY <1>5 DEF Drained, TransportDrained, linkVars, time, kernel, Alive,
              HeartbeatAge
<1>6. CASE LoopBegin /\ UNCHANGED linkVars
  BY <1>6 DEF LoopBegin, linkVars, kernel, Alive, HeartbeatAge
<1>7. CASE SafetyStop /\ UNCHANGED linkVars
  BY <1>7 DEF SafetyStop, MotorStop, linkVars, time, Alive, HeartbeatAge
<1>8. CASE ApplyActiveCommand /\ UNCHANGED linkVars
  BY <1>8 DEF ApplyActiveCommand, SafetyStopRequired, linkVars, time, Alive,
              HeartbeatAge
<1>9. CASE TimePasses
  <2>1. Alive' <=> Alive
    BY <1>9 DEF TimePasses, Tick, kernel, Alive
  <2>2. Alive => HeartbeatAge + 1 < ClockMod
    BY <1>9 DEF TimePasses, Tick, AliveIsFresh, SinceCheck
  <2>3. Alive => HeartbeatAge' = HeartbeatAge + 1
    BY <1>9, <2>2, ElapsedTick
       DEF TimePasses, Tick, kernel, HeartbeatAge, Clock
  <2> QED
    BY <1>9, <2>1, <2>3 DEF TimePasses
<1>10. CASE Restart
  BY <1>10, RestartStops
<1>11. CASE UNCHANGED allVars
  BY <1>11 DEF allVars, linkVars, vars, time, kernel, Alive, HeartbeatAge
<1> QED
  BY <1>1, <1>2, <1>3, <1>4, <1>5, <1>6, <1>7, <1>8, <1>9, <1>10, <1>11
     DEF LinkNext, RestOfLoop

\* An outage that has grown past the limit finds nothing alive.
LEMMA LinkNextStaleIsStopped ==
  ASSUME TypeOK, AgesExact, SlotTyped, SlotFresh, AliveIsFresh,
         OutageCounted, StaleIsStopped, [LinkNext]_allVars
  PROVE  StaleIsStopped'
<1> USE ConfigAssumption DEF TypeOK, StaleIsStopped, SlotTyped
<1>1. CASE Connect \/ LinkLost \/ Write
  BY <1>1 DEF Connect, LinkLost, Write, OnCommandWrite, vars, kernel, Alive
<1>2. CASE HandlePacket
  BY <1>2 DEF HandlePacket, RefuseCmdVel, AcceptCmdVel, HandleEmergencyStop,
              HandleHeartbeat, HandleResetEstop, MotorStop, MotorUntouched,
              SlotFresh, Alive
<1>3. CASE Drained
  BY <1>3 DEF Drained, TransportDrained, linkVars, kernel, Alive
<1>4. CASE RestOfLoop /\ UNCHANGED linkVars
  BY <1>4 DEF RestOfLoop, LoopBegin, SafetyStop, ApplyActiveCommand,
              SafetyStopRequired, MotorStop, linkVars, kernel, Alive
<1>5. CASE TimePasses
  <2>1. Alive' <=> Alive
    BY <1>5 DEF TimePasses, Tick, kernel, Alive
  <2>2. Alive => outage' <= OutageLimit
    <3>1. HeartbeatAge \in Nat
      BY AgeInClock
    <3>2. Alive => HeartbeatAge <= HeartbeatTimeout + MaxLoopMs + loopMs
      BY <3>1 DEF AliveIsFresh, SinceCheck
    <3>3. Alive /\ ~link => outage < OutageLimit
      BY <1>5, <3>1, <3>2 DEF TimePasses, Tick, OutageCounted, OutageLimit
    <3> QED
      BY <1>5, <3>3 DEF TimePasses, OutageLimit
  <2> QED
    BY <1>5, <2>1, <2>2 DEF TimePasses, OutageLimit
<1>6. CASE Restart
  BY <1>6, RestartStops
<1>7. CASE UNCHANGED allVars
  BY <1>7 DEF allVars, linkVars, vars, kernel, Alive
<1> QED
  BY <1>1, <1>2, <1>3, <1>4, <1>5, <1>6, <1>7 DEF LinkNext

LEMMA NextLinkInv == LinkInv /\ [LinkNext]_allVars => LinkInv'
BY LinkNextIInv, LinkNextSlotTyped, LinkNextSlotFresh, LinkNextAliveIsFresh,
   LinkNextOutageCounted, LinkNextStaleIsStopped DEF LinkInv, IInv

LEMMA LinkInvariant == LinkSpec => []LinkInv
BY InitLinkInv, NextLinkInv, PTL DEF LinkSpec

------------------------------------------------------------------------------
(* Results                                                                 *)

\* Every variable of the composition keeps its type, across restarts of the
\* board too.
THEOREM LinkTypeCorrect == LinkSpec => []LinkTypeOK
<1>1. LinkInv => LinkTypeOK
  BY DEF LinkInv, IInv, SlotTyped, LinkTypeOK
<1> QED
  BY <1>1, LinkInvariant, PTL

\* After an outage longer than the heartbeat timeout and three loops, or a
\* restart, the wheels turn only for a command written since: what the
\* watchdog in main.cpp's safetyStopRequired makes of a lost link that nobody
\* reports to it.
THEOREM OutageEndsCommandHolds == LinkSpec => []OutageEndsCommand
<1>1. LinkInv => OutageEndsCommand
  BY DEF LinkInv, StaleIsStopped, Alive, OutageEndsCommand
<1> QED
  BY <1>1, LinkInvariant, PTL

\* The deadlines of safetyStopRequired and the order of handle's stops hold
\* over restarts and lost links too.
THEOREM DeadlinesSurviveRestarts ==
  LinkSpec => [](HeartbeatDeadline /\ TtlDeadline /\ StopBeforeNewCommand)
<1>1. LinkInv => HeartbeatDeadline /\ TtlDeadline /\ StopBeforeNewCommand
  BY ConfigAssumption
     DEF LinkInv, IInv, TypeOK, CmdVel, HeartbeatFresh, TtlFresh, SinceCheck,
         HeartbeatDeadline, TtlDeadline
<1> QED
  BY <1>1, LinkInvariant, PTL
==============================================================================
