------------------------ MODULE StatusReportingProofs ------------------------
(***************************************************************************)
(* Theorems about StatusReporting, for every size of the clock and every   *)
(* interval, setup and longest loop that fit half the clock's range.       *)
(*                                                                         *)
(* The invariant says how far away the next moment is, on a clock that     *)
(* wraps: as long as a report is not due, its moment lies ahead by what is *)
(* missing to the interval; once due, it lies behind by the excess.        *)
(***************************************************************************)
EXTENDS StatusReporting, TLAPS

\* Moment "at" belongs to a report made age ms ago and due every interval ms.
Scheduled(at, age, interval) ==
  /\ 2 * age < ClockMod
  /\ age < interval => Elapsed(at, nowMs) = interval - age
  /\ age >= interval => Elapsed(nowMs, at) = age - interval

BleScheduled ==
  /\ Scheduled(nextBleSafetyStateAtMs, sinceBle, BleInterval)
  /\ phase = "idle" => sinceBle < BleInterval

\* A request replaces the schedule until the loop's report serves it.
Requested == wanted = "yes" /\ nextStatusAtMs = nowMs

StatusScheduled ==
  /\ wanted = "yes" => phase = "packets" /\ nextStatusAtMs = nowMs
  /\ statusIntervalMs > 0 =>
       \/ Requested
       \/ Scheduled(nextStatusAtMs, sincePrint, statusIntervalMs)
  /\ phase = "idle" /\ statusIntervalMs > 0 => sincePrint < statusIntervalMs

IInv == TypeOK /\ BleScheduled /\ StatusScheduled

------------------------------------------------------------------------------
LEMMA InitIInv == ASSUME Init PROVE IInv
<1>1. /\ nowMs \in 1..MaxSetupMs /\ nowMs \in Millis
      /\ BleInterval + nowMs \in 0..ClockMod
  BY ReportingAssumption DEF Init, Millis
<1>2. TypeOK
  <2>1. 0 \in Millis /\ ClockMod \in 0..ClockMod
    BY ReportingAssumption DEF Millis
  <2> QED
    BY <1>1, <2>1, Zenon DEF Init, TypeOK
<1>3. BleScheduled
  <2>1. ~(BleInterval + nowMs < BleInterval)
    BY <1>1, ReportingAssumption
  <2>2. Elapsed(nowMs, 0) = (BleInterval + nowMs) - BleInterval
    BY <1>1, ReportingAssumption DEF Elapsed
  <2>3. 2 * (BleInterval + nowMs) < ClockMod
    BY <1>1, ReportingAssumption
  <2> QED
    BY <2>1, <2>2, <2>3 DEF Init, BleScheduled, Scheduled
<1>4. StatusScheduled
  BY DEF Init, StatusScheduled
<1> QED
  BY <1>2, <1>3, <1>4 DEF IInv

\* A schedule that is not yet due survives the passing of one loop.
LEMMA ScheduledLater ==
  ASSUME NEW at \in Millis, NEW age \in 0..ClockMod, NEW ms \in 0..MaxLoopMs,
         NEW interval \in Nat, 2 * (interval + MaxLoopMs) < ClockMod,
         nowMs \in Millis, age < interval, Scheduled(at, age, interval),
         nowMs' = Plus(nowMs, ms)
  PROVE  /\ Older(age, ms) = age + ms
         /\ age + ms < interval =>
              Elapsed(at, nowMs') = interval - (age + ms)
         /\ age + ms >= interval =>
              Elapsed(nowMs', at) = (age + ms) - interval
         /\ 2 * (age + ms) < ClockMod
  BY ReportingAssumption, SMTT(60) DEF Scheduled, Elapsed, Plus, Older, Millis

LEMMA PlusMillis ==
  ASSUME NEW t \in Millis, NEW ms \in Nat, ms < ClockMod
  PROVE  /\ Plus(t, ms) \in Millis
         /\ Elapsed(Plus(t, ms), t) = ms
  BY ReportingAssumption DEF Plus, Elapsed, Millis

\* A due moment lies behind, a scheduled one ahead.
LEMMA DueWhenScheduled ==
  ASSUME NEW at \in Millis, NEW age \in 0..ClockMod, NEW interval \in Nat,
         2 * (interval + MaxLoopMs) < ClockMod,
         nowMs \in Millis, Scheduled(at, age, interval)
  PROVE  /\ Due(nowMs, at) <=> age >= interval
         /\ at = nowMs => age >= interval
  BY ReportingAssumption, SMTT(60) DEF Scheduled, Due, Elapsed, Millis

LEMMA NextIInv == ASSUME IInv, [Next]_vars PROVE IInv'
<1> USE ReportingAssumption
<1>1. ASSUME NEW ms \in 0..MaxLoopMs, LoopBegin(ms) PROVE IInv'
  <2>1. ms \in Nat /\ ms < ClockMod
    OBVIOUS
  <2>2. nowMs' \in Millis /\ TypeOK'
    <3>1. nowMs' \in Millis
      BY <1>1, <2>1, PlusMillis DEF LoopBegin, IInv, TypeOK
    <3>2. sincePrint' \in 0..ClockMod /\ sinceBle' \in 0..ClockMod
      BY <1>1, <2>1 DEF LoopBegin, IInv, TypeOK, Older
    <3> QED
      BY <1>1, <3>1, <3>2 DEF LoopBegin, IInv, TypeOK, reports
  <2>3. BleScheduled'
    <3>1. /\ sinceBle \in 0..ClockMod /\ nextBleSafetyStateAtMs \in Millis
          /\ nowMs \in Millis /\ sinceBle < BleInterval
          /\ Scheduled(nextBleSafetyStateAtMs, sinceBle, BleInterval)
      BY <1>1 DEF LoopBegin, IInv, TypeOK, BleScheduled
    <3>2. nowMs' = Plus(nowMs, ms)
      BY <1>1 DEF LoopBegin
    <3>3. /\ Older(sinceBle, ms) = sinceBle + ms
          /\ sinceBle + ms < BleInterval =>
               Elapsed(nextBleSafetyStateAtMs, nowMs')
                 = BleInterval - (sinceBle + ms)
          /\ sinceBle + ms >= BleInterval =>
               Elapsed(nowMs', nextBleSafetyStateAtMs)
                 = (sinceBle + ms) - BleInterval
          /\ 2 * (sinceBle + ms) < ClockMod
      BY <3>1, <3>2, ScheduledLater
    <3> QED
      BY <1>1, <3>3 DEF LoopBegin, BleScheduled, Scheduled, reports, Elapsed
  <2>4. StatusScheduled'
    <3>1. wanted' = "no" /\ phase' = "packets"
          /\ UNCHANGED <<statusIntervalMs, nextStatusAtMs>>
          /\ sincePrint' = Older(sincePrint, ms) /\ nowMs' = Plus(nowMs, ms)
      BY <1>1 DEF LoopBegin, reports
    <3>2. CASE statusIntervalMs = 0
      BY <3>1, <3>2 DEF StatusScheduled
    <3>3. CASE statusIntervalMs > 0
      <4>1. /\ sincePrint \in 0..ClockMod /\ nextStatusAtMs \in Millis
            /\ nowMs \in Millis /\ sincePrint < statusIntervalMs
            /\ Scheduled(nextStatusAtMs, sincePrint, statusIntervalMs)
        BY <1>1, <3>3
        DEF LoopBegin, IInv, TypeOK, StatusScheduled, Requested
      <4>2. statusIntervalMs \in Nat
            /\ 2 * (statusIntervalMs + MaxLoopMs) < ClockMod
        BY <3>3 DEF IInv, TypeOK
      <4>3. /\ Older(sincePrint, ms) = sincePrint + ms
            /\ sincePrint + ms < statusIntervalMs =>
                 Elapsed(nextStatusAtMs, nowMs')
                   = statusIntervalMs - (sincePrint + ms)
            /\ sincePrint + ms >= statusIntervalMs =>
                 Elapsed(nowMs', nextStatusAtMs)
                   = (sincePrint + ms) - statusIntervalMs
            /\ 2 * (sincePrint + ms) < ClockMod
        BY <3>1, <4>1, <4>2, ScheduledLater
      <4> QED
        BY <3>1, <4>3 DEF StatusScheduled, Scheduled, Elapsed
    <3> QED
      BY <3>2, <3>3 DEF IInv, TypeOK
  <2> QED
    BY <2>2, <2>3, <2>4 DEF IInv
<1>2. ASSUME HandlePrintStatus PROVE IInv'
  BY <1>2 DEF HandlePrintStatus, Handling, IInv, TypeOK, BleScheduled,
     StatusScheduled, Scheduled, Requested, Elapsed
<1>3. ASSUME NEW ms \in RequestedMs, HandleSetStatusInterval(ms) PROVE IInv'
  <2>1. CASE DisableStatus
    BY <2>1 DEF DisableStatus, Handling, IInv, TypeOK, BleScheduled,
       StatusScheduled, Scheduled, Requested, Elapsed, Millis
  <2>2. CASE SetStatusInterval(ms)
    BY <2>2 DEF SetStatusInterval, Handling, IInv, TypeOK, BleScheduled,
       StatusScheduled, Scheduled, Requested, Elapsed, Millis
  <2> QED
    BY <1>3, <2>1, <2>2 DEF HandleSetStatusInterval
<1>4. ASSUME Report PROVE IInv'
  <2>1. BleScheduled'
    <3>1. nowMs \in Millis /\ nextBleSafetyStateAtMs \in Millis
          /\ sinceBle \in 0..ClockMod
          /\ Scheduled(nextBleSafetyStateAtMs, sinceBle, BleInterval)
      BY DEF IInv, TypeOK, BleScheduled
    <3>2. CASE Due(nowMs, nextBleSafetyStateAtMs)
      <4>1. Elapsed(Plus(nowMs, BleInterval), nowMs) = BleInterval
        BY <3>1, PlusMillis
      <4> QED
        BY <1>4, <3>2, <4>1 DEF Report, MaybeSendBleSafetyState,
           BleScheduled, Scheduled, Elapsed
    <3>3. CASE ~Due(nowMs, nextBleSafetyStateAtMs)
      <4>1. sinceBle < BleInterval
        BY <3>1, <3>3, DueWhenScheduled
      <4> QED
        BY <1>4, <3>1, <3>3, <4>1 DEF Report, MaybeSendBleSafetyState,
           BleScheduled, Scheduled, Elapsed
    <3> QED
      BY <3>2, <3>3
  <2>2. StatusScheduled'
    <3>1. nowMs \in Millis /\ nextStatusAtMs \in Millis
          /\ sincePrint \in 0..ClockMod /\ nowMs' = nowMs
          /\ statusIntervalMs' = statusIntervalMs
          /\ statusIntervalMs \in Nat
          /\ 2 * (statusIntervalMs + MaxLoopMs) < ClockMod
      BY <1>4 DEF IInv, TypeOK, Report
    <3>2. CASE PrintNow
      <4>1. Elapsed(Plus(nowMs, statusIntervalMs), nowMs) = statusIntervalMs
        BY <3>1, PlusMillis
      <4> QED
        BY <1>4, <3>1, <3>2, <4>1
        DEF Report, MaybePrintStatus, StatusScheduled, Scheduled, Elapsed
    <3>3. CASE ~PrintNow
      <4>1. wanted # "yes"
        BY <3>3 DEF PrintNow, IInv, StatusScheduled
      <4>2. UNCHANGED <<nextStatusAtMs, sincePrint, wanted>>
        BY <1>4, <3>3 DEF Report, MaybePrintStatus
      <4>3. CASE statusIntervalMs > 0
        <5>1. Scheduled(nextStatusAtMs, sincePrint, statusIntervalMs)
          BY <4>1, <4>3 DEF IInv, StatusScheduled, Requested
        <5>2. sincePrint < statusIntervalMs
          BY <3>1, <3>3, <4>3, <5>1, DueWhenScheduled DEF PrintNow
        <5> QED
          BY <3>1, <4>1, <4>2, <5>1, <5>2
          DEF StatusScheduled, Scheduled, Elapsed
      <4>4. CASE ~(statusIntervalMs > 0)
        BY <3>1, <4>1, <4>2, <4>4 DEF StatusScheduled
      <4> QED
        BY <4>3, <4>4
    <3> QED
      BY <3>2, <3>3
  <2>3. TypeOK'
    <3>1. /\ nowMs \in Millis
          /\ Plus(nowMs, BleInterval) \in Millis
          /\ statusIntervalMs > 0 => Plus(nowMs, statusIntervalMs) \in Millis
      BY PlusMillis DEF IInv, TypeOK
    <3>2. nextBleSafetyStateAtMs' \in Millis /\ sinceBle' \in 0..ClockMod
      BY <1>4, <3>1 DEF Report, MaybeSendBleSafetyState, IInv, TypeOK
    <3>3. nextStatusAtMs' \in Millis /\ sincePrint' \in 0..ClockMod
          /\ wanted' \in {"no", "yes", "off"}
      BY <1>4, <3>1 DEF Report, MaybePrintStatus, IInv, TypeOK, Millis
    <3> QED
      BY <1>4, <3>1, <3>2, <3>3, Zenon
      DEF Report, MaybePrintStatus, IInv, TypeOK
  <2> QED
    BY <2>1, <2>2, <2>3 DEF IInv
<1>5. ASSUME UNCHANGED vars PROVE IInv'
  BY <1>5 DEF vars, reports, IInv, TypeOK, BleScheduled, StatusScheduled,
     Scheduled, Requested, Elapsed
<1> QED
  BY <1>1, <1>2, <1>3, <1>4, <1>5 DEF Next

LEMMA Invariance == Spec => []IInv
<1>1. Init => IInv
  BY InitIInv
<1>2. IInv /\ [Next]_vars => IInv'
  BY NextIInv
<1> QED
  BY <1>1, <1>2, PTL DEF Spec

------------------------------------------------------------------------------
(***************************************************************************)
(* Type correctness: the moments of the next reports stay inside the       *)
(* clock's range and the interval inside its limits, whatever is asked for.*)
(***************************************************************************)
THEOREM TypeCorrect == Spec => []TypeOK
<1>1. IInv => TypeOK
  BY DEF IInv
<1> QED
  BY <1>1, Invariance, PTL

(***************************************************************************)
(* A status line is never overdue at the end of a loop.                    *)
(***************************************************************************)
THEOREM StatusPacedHolds == Spec => []StatusPaced
<1>1. IInv => StatusPaced
  BY DEF IInv, StatusScheduled, StatusPaced
<1> QED
  BY <1>1, Invariance, PTL

(***************************************************************************)
(* A safety_state notification is never overdue at the end of a loop.      *)
(***************************************************************************)
THEOREM SafetyStatePacedHolds == Spec => []SafetyStatePaced
<1>1. IInv => SafetyStatePaced
  BY DEF IInv, BleScheduled, SafetyStatePaced
<1> QED
  BY <1>1, Invariance, PTL

(***************************************************************************)
(* A request is served by the loop that took it.                           *)
(***************************************************************************)
THEOREM RequestPrintedHolds == Spec => []RequestPrinted
<1>1. IInv => RequestPrinted
  BY DEF IInv, StatusScheduled, RequestPrinted
<1> QED
  BY <1>1, Invariance, PTL
==============================================================================
