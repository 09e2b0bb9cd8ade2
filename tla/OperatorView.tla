---------------------------- MODULE OperatorView -----------------------------
(***************************************************************************)
(* What the operator does and sees, and what the rover does meanwhile: the *)
(* page's buttons, the writes on their way to the rover, the acks, rejects *)
(* and safety_state notifications on their way back, and the page's        *)
(* display of them.  The rover is the abstract one of RoverSafety, which   *)
(* the firmware implements.                                                *)
(*                                                                         *)
(* What other modules establish is taken for granted: writes reach the     *)
(* rover one at a time, in the order of the clicks and only on the         *)
(* connection they were sent on (WebCommandLink); a write that arrives     *)
(* before the loop has read the last one replaces it (BleGattTransport);   *)
(* safety_state is sent again and again (StatusReporting).  A packet made  *)
(* of two writes counts as the first, whose type it has.                   *)
(***************************************************************************)
EXTENDS RoverSafety, Naturals, Sequences

CONSTANTS
  MaxOutbox,   \* bound: writes that have not arrived
  MaxAir,      \* bound: notifications that have not been received
  MaxEpochs    \* bound: resets clicked and restarts of the rover

ASSUME ViewAssumption ==
  MaxOutbox \in Nat \ {0} /\ MaxAir \in Nat \ {0} /\ MaxEpochs \in Nat

VARIABLES
  connected,      \* App's: what the page shows
  link,           \* the GATT link, with notifications started
  outbox,         \* packets sent on this link and not yet arrived
  slot,           \* the firmware's command write buffer, while one waits
  air,            \* notifications not yet received, oldest first
  safetyState,    \* App's: estop of the last safety_state received
  lastAckReject,  \* App's
  \* History variable:
  epoch           \* how many resets were clicked and restarts happened

page == <<connected, safetyState, lastAckReject>>
way == <<link, outbox, slot, air>>
viewVars == <<safetyVars, page, way, epoch>>

Epochs == 0..MaxEpochs
Kinds == {"cmd_vel", "emergency_stop", "heartbeat", "reset_estop"}

\* An emergency_stop carries the epoch of its click, which stands for its
\* seq; an ack or reject repeats it.
Packet == {p \in [kind : Kinds, epoch : Epochs] :
             p.kind # "emergency_stop" => p.epoch = 0}
NoPacket == [kind |-> "none", epoch |-> 0]
AckReject == [msg : {"ack", "reject"}, of : Packet]
NoAckReject == [msg |-> "none", of |-> NoPacket]
SafetyState == [msg : {"safety_state"}, estop : {"clear", "latched"}]

ViewTypeOK ==
  /\ SafetyTypeOK
  /\ connected \in BOOLEAN /\ link \in BOOLEAN
  /\ outbox \in Seq(Packet) /\ Len(outbox) <= MaxOutbox
  /\ slot \in Packet \cup {NoPacket}
  /\ air \in Seq(AckReject \cup SafetyState) /\ Len(air) <= MaxAir
  /\ safetyState \in {"unknown", "clear", "latched"}
  /\ lastAckReject \in AckReject \cup {NoAckReject}
  /\ epoch \in Epochs

ViewInit ==
  /\ SafetyInit
  /\ connected = FALSE /\ link = FALSE
  /\ outbox = <<>> /\ slot = NoPacket /\ air = <<>>
  /\ safetyState = "unknown" /\ lastAckReject = NoAckReject
  /\ epoch = 0

------------------------------------------------------------------------------
(* The page                                                                *)

ClickConnect ==
  /\ ~connected
  /\ connected' = TRUE /\ link' = TRUE
  /\ UNCHANGED <<safetyVars, safetyState, lastAckReject, outbox, slot, air,
                 epoch>>

\* The writes that wait are refused, the notifications reach nobody.  The
\* page goes on showing the last ones.
LinkDown ==
  /\ link' = FALSE /\ outbox' = <<>> /\ air' = <<>>
  /\ UNCHANGED <<safetyVars, safetyState, lastAckReject, slot, epoch>>

ClickDisconnect == connected /\ connected' = FALSE /\ LinkDown

\* Nothing listens to the loss of the link.
LinkLost == link /\ LinkDown /\ UNCHANGED connected

\* Without a link send throws and the page logs it.
Send(kind, e) ==
  /\ link /\ Len(outbox) < MaxOutbox
  /\ outbox' = Append(outbox, [kind |-> kind, epoch |-> e])
  /\ UNCHANGED <<safetyVars, page, link, slot, air>>

SendManualDirection == Send("cmd_vel", 0) /\ UNCHANGED epoch

SendEmergencyStop == Send("emergency_stop", epoch) /\ UNCHANGED epoch

\* The button is enabled by estopLatched, however old that is.
SendResetEstop ==
  /\ safetyState = "latched" /\ epoch < MaxEpochs
  /\ Send("reset_estop", 0)
  /\ epoch' = epoch + 1

SendHeartbeat == outbox = <<>> /\ Send("heartbeat", 0) /\ UNCHANGED epoch

\* Mutant: the write that waits last goes first.
DeliverNewest ==
  /\ outbox # <<>>
  /\ slot' = outbox[Len(outbox)]
  /\ outbox' = SubSeq(outbox, 1, Len(outbox) - 1)
  /\ UNCHANGED <<safetyVars, page, link, air, epoch>>
Deliver ==
  /\ outbox # <<>>
  /\ slot' = Head(outbox)
  /\ outbox' = Tail(outbox)
  /\ UNCHANGED <<safetyVars, page, link, air, epoch>>

WriteFails ==
  /\ outbox # <<>>
  /\ outbox' = Tail(outbox)
  /\ UNCHANGED <<safetyVars, page, link, slot, air, epoch>>

\* handleTelemetryMessage
HandleTelemetryMessage ==
  /\ air # <<>>
  /\ air' = Tail(air)
  /\ LET message == Head(air) IN
     IF message.msg = "safety_state"
     THEN safetyState' = message.estop /\ UNCHANGED lastAckReject
     ELSE lastAckReject' = message /\ UNCHANGED safetyState
  /\ UNCHANGED <<safetyVars, connected, link, outbox, slot, epoch>>

------------------------------------------------------------------------------
(* The rover                                                               *)

\* Mutant: every notification is kept.
NotifyUnbounded(message) == air' = IF link THEN Append(air, message) ELSE air
\* notifyJson: setValue replaces a value that has not been sent yet.
Notify(message) ==
  air' = IF ~link THEN air
         ELSE IF Len(air) < MaxAir THEN Append(air, message)
         ELSE [air EXCEPT ![MaxAir] = message]

Stop == moving' = FALSE /\ UNCHANGED authority

Answer(msg) == Notify([msg |-> msg, of |-> slot])

\* PacketHandler::handle and the answer of processTransport.  A write that
\* came when the flag was down already and the parse had not begun is handled
\* now and, as it has raised the flag again, once more.
HandlePacket ==
  /\ slot' \in {NoPacket, slot}
  /\ \/ slot.kind = "cmd_vel" /\ Grant /\ Answer("ack")
     \/ slot.kind = "cmd_vel" /\ (Withdraw \/ Stop) /\ Answer("reject")
     \/ slot.kind = "emergency_stop" /\ EmergencyStop /\ Answer("ack")
     \/ slot.kind = "reset_estop" /\ Reset /\ Answer("ack")
     \/ slot.kind = "heartbeat" /\ UNCHANGED <<safetyVars, air>>
  /\ UNCHANGED <<page, link, outbox, epoch>>

SendSafetyState ==
  Notify([msg |-> "safety_state",
          estop |-> IF authority = "estopped" THEN "latched" ELSE "clear"])

\* Mutant: the report comes after the early return of the safety stop.
EndLoopReportsLast(due) ==
  /\ Withdraw \/ Stop \/ Move
  /\ IF due /\ moving' THEN SendSafetyState ELSE UNCHANGED air
  /\ UNCHANGED <<page, link, outbox, slot, epoch>>
\* The rest of the loop: safety_state when it is due, then the motors.
EndLoop(due) ==
  /\ Withdraw \/ Stop \/ Move
  /\ IF due THEN SendSafetyState ELSE UNCHANGED air
  /\ UNCHANGED <<page, link, outbox, slot, epoch>>

\* Power fails and comes back, or the Pico is reset: the latch is lost with
\* everything else, and the page is not told.
RoverRestarts ==
  /\ epoch < MaxEpochs /\ epoch' = epoch + 1
  /\ Reset
  /\ link' = FALSE /\ outbox' = <<>> /\ air' = <<>> /\ slot' = NoPacket
  /\ UNCHANGED page

------------------------------------------------------------------------------
Operator ==
  \/ ClickConnect
  \/ ClickDisconnect
  \/ SendManualDirection
  \/ SendEmergencyStop
  \/ SendResetEstop

ViewNext ==
  \/ Operator
  \/ LinkLost
  \/ SendHeartbeat
  \/ Deliver
  \/ WriteFails
  \/ HandleTelemetryMessage
  \/ HandlePacket
  \/ \E due \in BOOLEAN : EndLoop(due)
  \/ RoverRestarts

ViewSafeSpec == ViewInit /\ [][ViewNext]_viewVars

(***************************************************************************)
(* The firmware's loop ends again and again with a safety_state that is    *)
(* due, and the browser hands over what it receives.  Nothing makes the    *)
(* operator act or a write arrive.                                         *)
(***************************************************************************)
ViewSpec ==
  /\ ViewSafeSpec
  /\ WF_viewVars(HandleTelemetryMessage)
  /\ SF_viewVars(EndLoop(TRUE))

------------------------------------------------------------------------------
(* Properties                                                              *)

(***************************************************************************)
(* The page shows the ack of an emergency_stop and the operator has not    *)
(* clicked Reset since that stop was clicked: then the latch is still set, *)
(* whatever commands and resets were under way at the time and however     *)
(* writes failed or links ended in between - unless the rover restarted.   *)
(***************************************************************************)
AckedEstopHolds ==
  /\ lastAckReject.msg = "ack"
  /\ lastAckReject.of.kind = "emergency_stop"
  /\ lastAckReject.of.epoch = epoch
  => authority = "estopped"

(***************************************************************************)
(* On a link that stays up the page learns of a latch that stays, and the  *)
(* reset button is enabled, once the rover has nothing but heartbeats to   *)
(* handle: reports that acks have replaced in the characteristic are made  *)
(* good, heartbeats crowd none out, and an old "clear" is not the last     *)
(* word.                                                                   *)
(***************************************************************************)
OnlyHeartbeats == slot.kind \in {"none", "heartbeat"}
PageLearnsLatch ==
  <>[](authority = "estopped" /\ link /\ OnlyHeartbeats)
    => <>[](safetyState = "latched")
==============================================================================
