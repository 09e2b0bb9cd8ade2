--------------------------- MODULE StatusReporting ---------------------------
(***************************************************************************)
(* The two periodic reports of the firmware's main loop: the serial status *)
(* line (maybePrintStatus, with the status packets PacketHandler handles)  *)
(* and the BLE safety_state notification (maybeSendBleSafetyState).        *)
(*                                                                         *)
(* Both keep the moment of the next report in a uint32_t of milliseconds   *)
(* that wraps, and both are looked at once in a loop, so that the moment   *)
(* itself may be passed over.  Moment 0 doubles as "no status line wanted".*)
(* RoverFirmware models the rest of the loop.                              *)
(***************************************************************************)
EXTENDS Naturals

CONSTANTS
  ClockMod,           \* millis() counts modulo ClockMod (2^32 in the code)
  MaxLoopMs,          \* platform assumption: the longest loop
  MaxSetupMs,         \* platform assumption: the first loop begins by then
  MinStatusInterval,  \* kMinStatusIntervalMs
  MaxStatusInterval,  \* kMaxStatusIntervalMs
  BleInterval,        \* kBleSafetyStateIntervalMs
  RequestedMs         \* the intervals ?NNNNN may ask for

ASSUME ReportingAssumption ==
  /\ ClockMod \in Nat /\ MaxLoopMs \in Nat \ {0}
  /\ MaxSetupMs \in Nat \ {0}
  /\ MinStatusInterval \in Nat \ {0} /\ MaxStatusInterval \in Nat
  /\ BleInterval \in Nat \ {0}
  /\ RequestedMs \subseteq Nat
  /\ 2 * (BleInterval + MaxLoopMs) < ClockMod
  /\ 2 * (BleInterval + MaxSetupMs) < ClockMod
  /\ 2 * (MaxStatusInterval + MaxLoopMs) < ClockMod

VARIABLES
  phase,                   \* "idle", or "packets" while packets are handled
  nowMs,
  statusIntervalMs,        \* 0: no periodic status line
  nextStatusAtMs,
  nextBleSafetyStateAtMs,
  \* History variables:
  sincePrint,              \* ms from the last status line to nowMs
  sinceBle,                \* ms from the last safety_state to nowMs
  wanted                   \* a status line was asked for and not printed:
                           \*   "no", "yes", or "off" when ?00000 came after

reports == <<statusIntervalMs, nextStatusAtMs, nextBleSafetyStateAtMs>>
vars == <<phase, nowMs, reports, sincePrint, sinceBle, wanted>>

Millis == 0..(ClockMod - 1)

Elapsed(now, since) ==
  IF now >= since THEN now - since ELSE now - since + ClockMod

Plus(t, ms) == IF t + ms >= ClockMod THEN t + ms - ClockMod ELSE t + ms

\* Mutant: only the moment itself counts.
DueExactly(now, at) == now = at
\* static_cast<int32_t>(now - at) >= 0
Due(now, at) == 2 * Elapsed(now, at) < ClockMod

Older(age, ms) == IF age + ms < ClockMod THEN age + ms ELSE ClockMod

------------------------------------------------------------------------------
\* The first loop has read the clock.  Its moment is not 0: setup takes time.
Init ==
  /\ phase = "packets"
  /\ nowMs \in 1..MaxSetupMs
  /\ statusIntervalMs = 0 /\ nextStatusAtMs = 0
  /\ nextBleSafetyStateAtMs = 0
  /\ sincePrint = ClockMod
  /\ sinceBle = BleInterval + nowMs
  /\ wanted = "no"

LoopBegin(ms) ==
  /\ phase = "idle"
  /\ phase' = "packets"
  /\ nowMs' = Plus(nowMs, ms)
  /\ sincePrint' = Older(sincePrint, ms)
  /\ sinceBle' = Older(sinceBle, ms)
  /\ wanted' = "no"
  /\ UNCHANGED reports

Handling ==
  /\ phase = "packets"
  /\ UNCHANGED <<phase, nowMs, nextBleSafetyStateAtMs, sincePrint, sinceBle>>

HandlePrintStatus ==
  /\ Handling
  /\ nextStatusAtMs' = nowMs
  /\ wanted' = "yes"
  /\ UNCHANGED statusIntervalMs

DisableStatus ==
  /\ Handling
  /\ statusIntervalMs' = 0
  /\ nextStatusAtMs' = 0
  /\ wanted' = IF wanted = "yes" THEN "off" ELSE wanted

\* Mutant: the upper limit is not checked.
SetStatusIntervalUnlimited(ms) ==
  /\ Handling
  /\ IF ms >= MinStatusInterval
     THEN /\ statusIntervalMs' = ms
          /\ nextStatusAtMs' = nowMs
          /\ wanted' = "yes"
     ELSE UNCHANGED <<statusIntervalMs, nextStatusAtMs, wanted>>
SetStatusInterval(ms) ==
  /\ Handling
  /\ IF ms \in MinStatusInterval..MaxStatusInterval
     THEN /\ statusIntervalMs' = ms
          /\ nextStatusAtMs' = nowMs
          /\ wanted' = "yes"
     ELSE UNCHANGED <<statusIntervalMs, nextStatusAtMs, wanted>>

HandleSetStatusInterval(ms) ==
  IF ms = 0 THEN DisableStatus ELSE SetStatusInterval(ms)

PrintNow ==
  \/ nextStatusAtMs = nowMs
  \/ statusIntervalMs > 0 /\ Due(nowMs, nextStatusAtMs)

MaybePrintStatus ==
  /\ IF PrintNow
     THEN /\ nextStatusAtMs' = IF statusIntervalMs > 0
                               THEN Plus(nowMs, statusIntervalMs) ELSE 0
          /\ sincePrint' = 0
          /\ wanted' = "no"
     ELSE UNCHANGED <<nextStatusAtMs, sincePrint, wanted>>

MaybeSendBleSafetyState ==
  IF Due(nowMs, nextBleSafetyStateAtMs)
  THEN /\ nextBleSafetyStateAtMs' = Plus(nowMs, BleInterval)
       /\ sinceBle' = 0
  ELSE UNCHANGED <<nextBleSafetyStateAtMs, sinceBle>>

Report ==
  /\ phase = "packets"
  /\ phase' = "idle"
  /\ MaybePrintStatus
  /\ MaybeSendBleSafetyState
  /\ UNCHANGED <<nowMs, statusIntervalMs>>

Next ==
  \/ \E ms \in 0..MaxLoopMs : LoopBegin(ms)
  \/ HandlePrintStatus
  \/ \E ms \in RequestedMs : HandleSetStatusInterval(ms)
  \/ Report

Spec == Init /\ [][Next]_vars

------------------------------------------------------------------------------
(* Properties                                                              *)

TypeOK ==
  /\ phase \in {"idle", "packets"}
  /\ nowMs \in Millis
  /\ statusIntervalMs \in {0} \cup (MinStatusInterval..MaxStatusInterval)
  /\ nextStatusAtMs \in Millis /\ nextBleSafetyStateAtMs \in Millis
  /\ sincePrint \in 0..ClockMod /\ sinceBle \in 0..ClockMod
  /\ wanted \in {"no", "yes", "off"}

(***************************************************************************)
(* While periodic status is on, the loop never ends with a status line     *)
(* overdue, whatever requests came between two lines, however the loops    *)
(* fall, and across the wrap of millis().                                  *)
(***************************************************************************)
StatusPaced == phase = "idle" /\ statusIntervalMs > 0
                 => sincePrint < statusIntervalMs

(***************************************************************************)
(* The loop never ends with a safety_state notification overdue: the web   *)
(* app's view of the rover is at most one interval and one loop old.       *)
(***************************************************************************)
SafetyStatePaced == phase = "idle" => sinceBle < BleInterval

(***************************************************************************)
(* A status line asked for is printed by the loop that took the request,   *)
(* unless periodic status was switched off after it in the same loop.      *)
(***************************************************************************)
RequestPrinted == phase = "idle" => wanted # "yes"

==============================================================================
