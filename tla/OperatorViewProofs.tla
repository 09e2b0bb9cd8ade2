-------------------------- MODULE OperatorViewProofs --------------------------
(***************************************************************************)
(* What an ack on the page is worth, for every number of writes and        *)
(* notifications under way and every number of resets and restarts.        *)
(***************************************************************************)
EXTENDS OperatorView, TLAPS

\* The stop clicked since the last reset or restart, and the rover's answer.
CurrentStop == [kind |-> "emergency_stop", epoch |-> epoch]
AckOfCurrentStop == [msg |-> "ack", of |-> CurrentStop]

\* Nothing under way is of an epoch that has not begun.
FromThePast ==
  /\ \A i \in 1..Len(outbox) : outbox[i].epoch <= epoch
  /\ slot.epoch <= epoch
  /\ \A i \in 1..Len(air) :
       air[i].msg # "safety_state" => air[i].of.epoch <= epoch
  /\ lastAckReject.of.epoch <= epoch

NoResetInOutbox == \A i \in 1..Len(outbox) : outbox[i].kind # "reset_estop"

\* The reset that begins an epoch is sent before the stops of that epoch,
\* and stays before them.
ResetsFirst ==
  /\ \A i, j \in 1..Len(outbox) :
       outbox[i] = CurrentStop /\ i < j => outbox[j].kind # "reset_estop"
  /\ slot = CurrentStop => NoResetInOutbox

Acked ==
  \/ \E i \in 1..Len(air) : air[i] = AckOfCurrentStop
  \/ lastAckReject = AckOfCurrentStop

\* What the current stop's ack says remains true: nothing can come any more
\* that clears the latch.
AckKept ==
  Acked => /\ authority = "estopped"
           /\ slot.kind # "reset_estop"
           /\ NoResetInOutbox

ViewInv ==
  /\ ViewTypeOK
  /\ FromThePast
  /\ ResetsFirst
  /\ AckKept

------------------------------------------------------------------------------
(* Type correctness.                                                       *)

Message == AckReject \cup SafetyState

LEMMA NothingUnderWay ==
  /\ <<>> \in Seq(Packet) /\ Len(<<>>) <= MaxOutbox
  /\ <<>> \in Seq(AckReject \cup SafetyState) /\ Len(<<>>) <= MaxAir
BY ViewAssumption

LEMMA EpochGrows ==
  ASSUME epoch \in Epochs, epoch < MaxEpochs PROVE epoch + 1 \in Epochs
BY ViewAssumption DEF Epochs

\* The characteristic holds the newest notification and the queue keeps its
\* bound.
LEMMA NotifyType ==
  ASSUME NEW message \in Message, Notify(message),
         air \in Seq(Message), Len(air) <= MaxAir
  PROVE  air' \in Seq(Message) /\ Len(air') <= MaxAir
BY ViewAssumption DEF Notify

\* Of a notification's queue nothing is new but the notification.
LEMMA NotifyAdds ==
  ASSUME NEW message \in Message, Notify(message),
         air \in Seq(Message), Len(air) <= MaxAir
  PROVE  \A i \in 1..Len(air') :
           air'[i] = message \/ (i <= Len(air) /\ air'[i] = air[i])
BY ViewAssumption DEF Notify

LEMMA AnswerIsMessage ==
  ASSUME ViewTypeOK, slot # NoPacket, NEW msg \in {"ack", "reject"}
  PROVE  [msg |-> msg, of |-> slot] \in Message
BY DEF ViewTypeOK, Message, AckReject

LEMMA ReportIsMessage ==
  [msg |-> "safety_state",
   estop |-> IF authority = "estopped" THEN "latched" ELSE "clear"] \in Message
BY DEF Message, SafetyState

LEMMA SentIsPacket ==
  ASSUME epoch \in Epochs, NEW kind \in Kinds, NEW e \in {0, epoch},
         kind # "emergency_stop" => e = 0
  PROVE  [kind |-> kind, epoch |-> e] \in Packet
BY ViewAssumption DEF Packet, Epochs

LEMMA RoverType ==
  ASSUME SafetyTypeOK,
         Grant \/ Withdraw \/ Stop \/ EmergencyStop \/ Reset \/ Move
  PROVE  SafetyTypeOK'
BY DEF SafetyTypeOK, Authority, Grant, Withdraw, Stop, EmergencyStop, Reset,
       Move

\* A button adds one packet to the outbox and may begin an epoch.
Sending(kind, e) ==
  /\ Send(kind, e)
  /\ kind \in Kinds /\ e \in {0, epoch}
  /\ e = IF kind = "emergency_stop" THEN epoch ELSE 0
  /\ IF kind = "reset_estop" THEN epoch < MaxEpochs /\ epoch' = epoch + 1
     ELSE UNCHANGED epoch

LEMMA ButtonsSend ==
  ASSUME SendManualDirection \/ SendEmergencyStop \/ SendResetEstop
           \/ SendHeartbeat
  PROVE  \E kind \in Kinds, e \in {0, epoch} : Sending(kind, e)
BY DEF SendManualDirection, SendEmergencyStop, SendResetEstop, SendHeartbeat,
       Sending, Kinds

LEMMA NextType == ViewTypeOK /\ [ViewNext]_viewVars => ViewTypeOK'
<1> SUFFICES ASSUME ViewTypeOK, [ViewNext]_viewVars PROVE ViewTypeOK'
  OBVIOUS
<1> USE ViewAssumption DEF ViewTypeOK
<1>1. CASE ClickConnect \/ ClickDisconnect \/ LinkLost
  <2>1. UNCHANGED <<safetyVars, safetyState, lastAckReject, slot, epoch>>
    BY <1>1 DEF ClickConnect, ClickDisconnect, LinkLost, LinkDown
  <2>2. connected' \in BOOLEAN /\ link' \in BOOLEAN
    BY <1>1 DEF ClickConnect, ClickDisconnect, LinkLost, LinkDown
  <2>3. /\ outbox' = outbox \/ outbox' = <<>>
        /\ air' = air \/ air' = <<>>
    BY <1>1 DEF ClickConnect, ClickDisconnect, LinkLost, LinkDown
  <2> QED
    BY <2>1, <2>2, <2>3, NothingUnderWay DEF safetyVars, SafetyTypeOK
<1>2. ASSUME NEW kind \in Kinds, NEW e \in {0, epoch}, Sending(kind, e)
      PROVE  ViewTypeOK'
  <2>1. [kind |-> kind, epoch |-> e] \in Packet
    BY <1>2, SentIsPacket DEF Sending
  <2>2. outbox' \in Seq(Packet) /\ Len(outbox') <= MaxOutbox
    BY <1>2, <2>1 DEF Sending, Send
  <2>3. epoch' \in Epochs
    BY <1>2, EpochGrows DEF Sending
  <2> QED
    BY <1>2, <2>2, <2>3 DEF Sending, Send, safetyVars, page, SafetyTypeOK
<1>3. CASE Deliver
  <2>1. Head(outbox) \in Packet /\ Tail(outbox) \in Seq(Packet)
        /\ Len(Tail(outbox)) <= MaxOutbox
    BY <1>3 DEF Deliver
  <2> QED
    BY <1>3, <2>1 DEF Deliver, safetyVars, page, SafetyTypeOK
<1>4. CASE WriteFails
  BY <1>4 DEF WriteFails, safetyVars, page, SafetyTypeOK
<1>5. CASE HandleTelemetryMessage
  <2>1. Head(air) \in Message /\ Tail(air) \in Seq(Message)
        /\ Len(Tail(air)) <= MaxAir
    BY <1>5 DEF HandleTelemetryMessage, Message
  <2>2. Head(air).msg = "safety_state" => Head(air) \in SafetyState
    BY <2>1 DEF Message, AckReject, SafetyState
  <2>3. Head(air).msg # "safety_state" => Head(air) \in AckReject
    BY <2>1 DEF Message, AckReject, SafetyState
  <2>4. safetyState' \in {"unknown", "clear", "latched"}
    BY <1>5, <2>2 DEF HandleTelemetryMessage, SafetyState
  <2>5. lastAckReject' \in AckReject \cup {NoAckReject}
    BY <1>5, <2>3 DEF HandleTelemetryMessage
  <2> QED
    BY <1>5, <2>1, <2>4, <2>5
       DEF HandleTelemetryMessage, safetyVars, Message, SafetyTypeOK
<1>6. CASE HandlePacket
  <2>1. SafetyTypeOK'
    BY <1>6, RoverType DEF HandlePacket, safetyVars, SafetyTypeOK
  <2>2. air' \in Seq(Message) /\ Len(air') <= MaxAir
    <3>1. CASE UNCHANGED air
      BY <3>1 DEF Message
    <3>2. ASSUME NEW msg \in {"ack", "reject"}, Answer(msg), slot # NoPacket
          PROVE  air' \in Seq(Message) /\ Len(air') <= MaxAir
      BY <3>2, AnswerIsMessage, NotifyType DEF Answer, Message
    <3>3. slot # NoPacket
      BY <1>6 DEF HandlePacket, NoPacket
    <3> QED
      BY <1>6, <3>1, <3>2, <3>3 DEF HandlePacket
  <2> QED
    BY <1>6, <2>1, <2>2 DEF HandlePacket, page, Message
<1>7. ASSUME NEW due \in BOOLEAN, EndLoop(due) PROVE ViewTypeOK'
  <2>1. SafetyTypeOK'
    BY <1>7, RoverType DEF EndLoop
  <2>2. air' \in Seq(Message) /\ Len(air') <= MaxAir
    BY <1>7, ReportIsMessage, NotifyType DEF EndLoop, SendSafetyState, Message
  <2> QED
    BY <1>7, <2>1, <2>2 DEF EndLoop, page, Message
<1>8. CASE RoverRestarts
  <2>1. SafetyTypeOK'
    BY <1>8, RoverType DEF RoverRestarts
  <2> QED
    BY <1>8, <2>1, EpochGrows, NothingUnderWay DEF RoverRestarts, page
<1>9. CASE UNCHANGED viewVars
  BY <1>9 DEF viewVars, page, way, safetyVars, SafetyTypeOK
<1> QED
  BY <1>1, <1>2, <1>3, <1>4, <1>5, <1>6, <1>7, <1>8, <1>9, ButtonsSend
     DEF ViewNext, Operator
------------------------------------------------------------------------------
(* The strengthened invariant.                                             *)

LEMMA EpochIsNat == ASSUME ViewTypeOK PROVE epoch \in Nat
BY ViewAssumption DEF ViewTypeOK, Epochs

\* The packet appended is the only new one.
LEMMA SendAdds ==
  ASSUME ViewTypeOK, NEW kind, NEW e, Sending(kind, e)
  PROVE  /\ Len(outbox') = Len(outbox) + 1 /\ Len(outbox) \in Nat
         /\ outbox'[Len(outbox')] = [kind |-> kind, epoch |-> e]
         /\ \A i \in 1..Len(outbox) : outbox'[i] = outbox[i]
BY DEF ViewTypeOK, Sending, Send

\* The head of a queue goes, the rest moves up.
LEMMA TailMovesUp ==
  ASSUME NEW S, NEW q \in Seq(S), q # <<>>
  PROVE  /\ Head(q) = q[1] /\ 1 \in 1..Len(q)
         /\ Len(Tail(q)) = Len(q) - 1
         /\ \A i \in 1..Len(Tail(q)) : Tail(q)[i] = q[i + 1]
OBVIOUS

LEMMA NextFromThePast ==
  ASSUME ViewTypeOK, FromThePast, [ViewNext]_viewVars PROVE FromThePast'
<1> USE DEF FromThePast
<1>0. epoch \in Nat
  BY EpochIsNat
<1>1. CASE ClickConnect \/ ClickDisconnect \/ LinkLost
  <2>1. UNCHANGED <<lastAckReject, slot, epoch>>
        /\ (outbox' = outbox \/ outbox' = <<>>)
        /\ (air' = air \/ air' = <<>>)
    BY <1>1 DEF ClickConnect, ClickDisconnect, LinkLost, LinkDown
  <2> QED
    BY <2>1
<1>2. ASSUME NEW kind \in Kinds, NEW e \in {0, epoch}, Sending(kind, e)
      PROVE  FromThePast'
  <2>1. epoch' \in Nat /\ epoch <= epoch' /\ e \in Nat /\ e <= epoch'
    BY <1>0, <1>2 DEF Sending
  <2>2. \A i \in 1..Len(outbox') : outbox'[i].epoch <= epoch'
    <3>0. /\ Len(outbox') = Len(outbox) + 1 /\ Len(outbox) \in Nat
          /\ outbox'[Len(outbox')] = [kind |-> kind, epoch |-> e]
          /\ \A i \in 1..Len(outbox) : outbox'[i] = outbox[i]
      BY <1>2, SendAdds
    <3> SUFFICES ASSUME NEW i \in 1..Len(outbox')
                 PROVE  outbox'[i].epoch <= epoch'
      OBVIOUS
    <3>1. CASE i = Len(outbox')
      BY <2>1, <3>0, <3>1
    <3>2. CASE i # Len(outbox')
      <4>1. i \in 1..Len(outbox) /\ outbox'[i] = outbox[i]
        BY <3>0, <3>2
      <4>2. outbox[i].epoch \in Nat
        BY <4>1, ViewAssumption DEF ViewTypeOK, Packet, Epochs
      <4> QED
        BY <1>0, <2>1, <4>1, <4>2
    <3> QED
      BY <3>1, <3>2
  <2>3. slot.epoch \in Nat /\ lastAckReject.of.epoch \in Nat
    BY ViewAssumption DEF ViewTypeOK, Packet, NoPacket, AckReject,
                          NoAckReject, Epochs
  <2>4. \A i \in 1..Len(air) :
          air[i].msg # "safety_state" => air[i].of.epoch \in Nat
    BY ViewAssumption DEF ViewTypeOK, Packet, AckReject, SafetyState, Epochs
  <2> QED
    BY <1>0, <1>2, <2>1, <2>2, <2>3, <2>4 DEF Sending, Send, page
<1>3. CASE Deliver
  BY <1>3, TailMovesUp DEF Deliver, page, ViewTypeOK
<1>4. CASE WriteFails
  BY <1>4, TailMovesUp DEF WriteFails, page, ViewTypeOK
<1>5. CASE HandleTelemetryMessage
  BY <1>5, TailMovesUp DEF HandleTelemetryMessage, ViewTypeOK
<1>6. CASE HandlePacket
  <2>1. ASSUME NEW msg \in {"ack", "reject"}, Answer(msg), slot # NoPacket
        PROVE  \A i \in 1..Len(air') :
                 air'[i].msg # "safety_state" => air'[i].of.epoch <= epoch
    <3>1. \A i \in 1..Len(air') :
            \/ air'[i] = [msg |-> msg, of |-> slot]
            \/ i <= Len(air) /\ air'[i] = air[i]
      BY <2>1, AnswerIsMessage, NotifyAdds DEF Answer, ViewTypeOK, Message
    <3> QED
      BY <3>1 DEF ViewTypeOK
  <2>2. /\ slot # NoPacket /\ slot' \in {NoPacket, slot}
        /\ UNCHANGED <<page, outbox, epoch>>
    BY <1>6 DEF HandlePacket, NoPacket
  <2>3. UNCHANGED air \/ \E msg \in {"ack", "reject"} : Answer(msg)
    BY <1>6 DEF HandlePacket
  <2> QED
    BY <1>0, <2>1, <2>2, <2>3 DEF page, NoPacket
<1>7. ASSUME NEW due \in BOOLEAN, EndLoop(due) PROVE FromThePast'
  <2>1. \A i \in 1..Len(air') :
          \/ air'[i].msg = "safety_state"
          \/ i <= Len(air) /\ air'[i] = air[i]
    BY <1>7, ReportIsMessage, NotifyAdds
       DEF EndLoop, SendSafetyState, ViewTypeOK, Message
  <2> QED
    BY <1>7, <2>1 DEF EndLoop, page, ViewTypeOK
<1>8. CASE RoverRestarts
  <2>1. lastAckReject.of.epoch \in Nat
    BY ViewAssumption DEF ViewTypeOK, Packet, NoPacket, AckReject,
                          NoAckReject, Epochs
  <2> QED
    BY <1>0, <1>8, <2>1 DEF RoverRestarts, page, NoPacket
<1>9. CASE UNCHANGED viewVars
  BY <1>9 DEF viewVars, page, way
<1> QED
  BY <1>1, <1>2, <1>3, <1>4, <1>5, <1>6, <1>7, <1>8, <1>9, ButtonsSend
     DEF ViewNext, Operator

\* A reset is clicked in the epoch it ends: no stop of the new epoch is
\* before it.
LEMMA NextResetsFirst ==
  ASSUME ViewTypeOK, FromThePast, ResetsFirst, [ViewNext]_viewVars
  PROVE  ResetsFirst'
<1> USE DEF ResetsFirst, NoResetInOutbox, CurrentStop
<1>0. epoch \in Nat /\ Len(outbox) \in Nat
  BY EpochIsNat DEF ViewTypeOK
<1>1. CASE ClickConnect \/ ClickDisconnect \/ LinkLost
  <2>1. UNCHANGED <<slot, epoch>> /\ (outbox' = outbox \/ outbox' = <<>>)
    BY <1>1 DEF ClickConnect, ClickDisconnect, LinkLost, LinkDown
  <2> QED
    BY <2>1
<1>2. ASSUME NEW kind \in Kinds, NEW e \in {0, epoch}, Sending(kind, e)
      PROVE  ResetsFirst'
  <2>1. /\ Len(outbox') = Len(outbox) + 1
        /\ outbox'[Len(outbox')] = [kind |-> kind, epoch |-> e]
        /\ \A i \in 1..Len(outbox) : outbox'[i] = outbox[i]
    BY <1>2, SendAdds
  <2>2. slot' = slot
    BY <1>2 DEF Sending, Send
  <2>3. CASE kind = "reset_estop"
    <3>1. epoch' = epoch + 1 /\ slot.epoch <= epoch
          /\ \A i \in 1..Len(outbox) : outbox[i].epoch <= epoch
      BY <1>2, <2>3 DEF Sending, FromThePast
    <3>2. slot' # CurrentStop'
      BY <1>0, <2>2, <3>1
    <3>3. \A i \in 1..Len(outbox') : outbox'[i] # CurrentStop'
      <4> SUFFICES ASSUME NEW i \in 1..Len(outbox'),
                          outbox'[i] = CurrentStop'
                   PROVE  FALSE
        OBVIOUS
      <4>1. CASE i = Len(outbox')
        BY <2>1, <2>3, <4>1
      <4>2. CASE i # Len(outbox')
        <5>1. i \in 1..Len(outbox)
          BY <1>0, <2>1, <4>2
        <5>2. outbox[i].epoch = epoch + 1
          BY <2>1, <3>1, <5>1
        <5> QED
          BY <1>0, <3>1, <5>1, <5>2
      <4> QED
        BY <4>1, <4>2
    <3> QED
      BY <3>2, <3>3
  <2>4. CASE kind # "reset_estop"
    <3>1. epoch' = epoch
      BY <1>2, <2>4 DEF Sending
    <3>2. outbox'[Len(outbox')].kind # "reset_estop"
      BY <2>1, <2>4
    <3>3. \A i \in 1..Len(outbox') :
            i = Len(outbox') \/ (i \in 1..Len(outbox) /\ outbox'[i] = outbox[i])
      BY <1>0, <2>1
    <3>4. \A i, j \in 1..Len(outbox') :
            outbox'[i] = CurrentStop' /\ i < j
              => outbox'[j].kind # "reset_estop"
      <4> SUFFICES ASSUME NEW i \in 1..Len(outbox'),
                          NEW j \in 1..Len(outbox'),
                          outbox'[i] = CurrentStop', i < j
                   PROVE  outbox'[j].kind # "reset_estop"
        OBVIOUS
      <4>1. CASE j = Len(outbox')
        BY <3>2, <4>1
      <4>2. CASE j # Len(outbox')
        <5>1. i # Len(outbox')
          BY <1>0, <2>1, <4>2
        <5> QED
          BY <3>1, <3>3, <4>2, <5>1
      <4> QED
        BY <4>1, <4>2
    <3> QED
      BY <2>2, <3>1, <3>2, <3>3, <3>4
  <2> QED
    BY <2>3, <2>4
<1>3. CASE Deliver \/ WriteFails
  <2>1. /\ outbox[1] = Head(outbox) /\ 1 \in 1..Len(outbox)
        /\ outbox' = Tail(outbox) /\ Len(outbox') = Len(outbox) - 1
        /\ \A i \in 1..Len(outbox') : outbox'[i] = outbox[i + 1]
    BY <1>3, TailMovesUp DEF Deliver, WriteFails, ViewTypeOK
  <2>2. epoch' = epoch /\ (slot' = slot \/ slot' = outbox[1])
    BY <1>3, <2>1 DEF Deliver, WriteFails
  <2>3. \A i \in 1..Len(outbox') :
          i + 1 \in 1..Len(outbox) /\ 1 < i + 1
    BY <1>0, <2>1
  <2>4. \A i, j \in 1..Len(outbox') : i < j => i + 1 < j + 1
    BY <1>0, <2>1
  <2> QED
    BY <2>1, <2>2, <2>3, <2>4
<1>4. CASE HandlePacket
  BY <1>4 DEF HandlePacket, NoPacket
<1>5. CASE RoverRestarts
  BY <1>5 DEF RoverRestarts, NoPacket
<1>6. CASE HandleTelemetryMessage \/ (\E due \in BOOLEAN : EndLoop(due))
             \/ UNCHANGED viewVars
  <2>1. UNCHANGED <<outbox, slot, epoch>>
    BY <1>6 DEF HandleTelemetryMessage, EndLoop, viewVars, way
  <2> QED
    BY <2>1
<1> QED
  BY <1>1, <1>2, <1>3, <1>4, <1>5, <1>6, ButtonsSend DEF ViewNext, Operator

\* A new epoch begins without an ack.
LEMMA NewEpochUnacked ==
  ASSUME ViewTypeOK, FromThePast, epoch' = epoch + 1,
         UNCHANGED lastAckReject, air' \in {air, <<>>}
  PROVE  ~Acked'
<1>1. epoch \in Nat
  BY EpochIsNat
<1>2. lastAckReject' # AckOfCurrentStop'
  BY <1>1 DEF FromThePast, AckOfCurrentStop, CurrentStop
<1>3. ASSUME NEW i \in 1..Len(air') PROVE air'[i] # AckOfCurrentStop'
  BY <1>1, <1>3 DEF FromThePast, AckOfCurrentStop, CurrentStop
<1> QED
  BY <1>2, <1>3 DEF Acked

\* An answer acknowledges the current stop only if it answers that stop.
LEMMA AnswerAcks ==
  ASSUME ViewTypeOK, NEW msg \in {"ack", "reject"}, Answer(msg),
         slot # NoPacket, UNCHANGED <<epoch, lastAckReject>>
  PROVE  Acked' => Acked \/ (msg = "ack" /\ slot = CurrentStop)
<1> SUFFICES ASSUME Acked' PROVE Acked \/ (msg = "ack" /\ slot = CurrentStop)
  OBVIOUS
<1>1. \A i \in 1..Len(air') :
        \/ air'[i] = [msg |-> msg, of |-> slot]
        \/ i <= Len(air) /\ air'[i] = air[i]
  BY AnswerIsMessage, NotifyAdds DEF Answer, ViewTypeOK, Message
<1>2. CASE lastAckReject' = AckOfCurrentStop'
  BY <1>2 DEF Acked, AckOfCurrentStop, CurrentStop
<1>3. ASSUME NEW i \in 1..Len(air'), air'[i] = AckOfCurrentStop'
      PROVE  Acked \/ (msg = "ack" /\ slot = CurrentStop)
  <2>1. CASE air'[i] = [msg |-> msg, of |-> slot]
    BY <1>3, <2>1 DEF AckOfCurrentStop, CurrentStop
  <2>2. CASE i <= Len(air) /\ air'[i] = air[i]
    <3>1. i \in 1..Len(air)
      BY <1>3, <2>2 DEF ViewTypeOK
    <3> QED
      BY <1>3, <2>2, <3>1 DEF Acked, AckOfCurrentStop, CurrentStop
  <2> QED
    BY <1>1, <2>1, <2>2
<1> QED
  BY <1>2, <1>3 DEF Acked

LEMMA NextAckKept ==
  ASSUME ViewTypeOK, FromThePast, ResetsFirst, AckKept, [ViewNext]_viewVars
  PROVE  AckKept'
<1> USE DEF AckKept
<1>0. Len(outbox) \in Nat
  BY DEF ViewTypeOK
<1>1. CASE ClickConnect \/ ClickDisconnect \/ LinkLost
  <2>1. UNCHANGED <<authority, slot, epoch, lastAckReject>>
        /\ (outbox' = outbox \/ outbox' = <<>>)
        /\ (air' = air \/ air' = <<>>)
    BY <1>1 DEF ClickConnect, ClickDisconnect, LinkLost, LinkDown, safetyVars
  <2>2. Acked' => Acked
    BY <2>1 DEF Acked, AckOfCurrentStop, CurrentStop
  <2>3. NoResetInOutbox => NoResetInOutbox'
    BY <2>1 DEF NoResetInOutbox
  <2> QED
    BY <2>1, <2>2, <2>3
<1>2. ASSUME NEW kind \in Kinds, NEW e \in {0, epoch}, Sending(kind, e)
      PROVE  AckKept'
  <2>1. UNCHANGED <<authority, slot, lastAckReject, air>>
    BY <1>2 DEF Sending, Send, safetyVars, page
  <2>2. CASE kind = "reset_estop"
    BY <1>2, <2>1, <2>2, NewEpochUnacked DEF Sending
  <2>3. CASE kind # "reset_estop"
    <3>1. Acked' => Acked
      BY <1>2, <2>1, <2>3 DEF Sending, Acked, AckOfCurrentStop, CurrentStop
    <3>2. /\ Len(outbox') = Len(outbox) + 1
          /\ outbox'[Len(outbox')] = [kind |-> kind, epoch |-> e]
          /\ \A i \in 1..Len(outbox) : outbox'[i] = outbox[i]
      BY <1>2, SendAdds
    <3>3. \A i \in 1..Len(outbox') : i = Len(outbox') \/ i \in 1..Len(outbox)
      BY <1>0, <3>2
    <3>4. NoResetInOutbox => NoResetInOutbox'
      BY <2>3, <3>2, <3>3 DEF NoResetInOutbox
    <3> QED
      BY <2>1, <3>1, <3>4
  <2> QED
    BY <2>2, <2>3
<1>3. CASE Deliver \/ WriteFails
  <2>1. /\ outbox[1] = Head(outbox) /\ 1 \in 1..Len(outbox)
        /\ outbox' = Tail(outbox) /\ Len(outbox') = Len(outbox) - 1
        /\ \A i \in 1..Len(outbox') : outbox'[i] = outbox[i + 1]
    BY <1>3, TailMovesUp DEF Deliver, WriteFails, ViewTypeOK
  <2>2. UNCHANGED <<authority, lastAckReject, air, epoch>>
        /\ (slot' = slot \/ slot' = outbox[1])
    BY <1>3, <2>1 DEF Deliver, WriteFails, safetyVars, page
  <2>3. \A i \in 1..Len(outbox') : i + 1 \in 1..Len(outbox)
    BY <1>0, <2>1
  <2>4. Acked' => Acked
    BY <2>2 DEF Acked, AckOfCurrentStop, CurrentStop
  <2>5. NoResetInOutbox => NoResetInOutbox' /\ outbox[1].kind # "reset_estop"
    BY <2>1, <2>3 DEF NoResetInOutbox
  <2> QED
    BY <2>2, <2>4, <2>5
<1>4. CASE HandleTelemetryMessage
  <2>1. UNCHANGED <<authority, slot, outbox, epoch>>
    BY <1>4 DEF HandleTelemetryMessage, safetyVars
  <2>2. /\ air[1] = Head(air) /\ 1 \in 1..Len(air)
        /\ air' = Tail(air)
        /\ \A i \in 1..Len(air') : air'[i] = air[i + 1]
        /\ Len(air') = Len(air) - 1 /\ Len(air) \in Nat
    BY <1>4, TailMovesUp DEF HandleTelemetryMessage, ViewTypeOK
  <2>3. \A i \in 1..Len(air') : i + 1 \in 1..Len(air)
    BY <2>2
  <2>4. lastAckReject' = lastAckReject \/ lastAckReject' = air[1]
    BY <1>4, <2>2 DEF HandleTelemetryMessage
  <2>5. Acked' => Acked
    BY <2>1, <2>2, <2>3, <2>4 DEF Acked, AckOfCurrentStop, CurrentStop
  <2> QED
    BY <2>1, <2>5 DEF NoResetInOutbox
<1>5. CASE HandlePacket
  <2>1. /\ slot # NoPacket
        /\ slot.kind # "reset_estop" => slot'.kind # "reset_estop"
        /\ UNCHANGED <<epoch, lastAckReject, outbox>>
    BY <1>5 DEF HandlePacket, NoPacket, page
  <2>2. NoResetInOutbox' <=> NoResetInOutbox
    BY <2>1 DEF NoResetInOutbox
  <2>3. CASE slot.kind = "emergency_stop"
    <3>1. authority' = "estopped" /\ Answer("ack")
      BY <1>5, <2>3 DEF HandlePacket, EmergencyStop
    <3>2. Acked' => Acked \/ slot = CurrentStop
      BY <2>1, <3>1, AnswerAcks
    <3> QED
      BY <2>1, <2>2, <2>3, <3>1, <3>2 DEF ResetsFirst
  <2>4. CASE slot.kind = "heartbeat"
    <3>1. UNCHANGED <<authority, air>>
      BY <1>5, <2>4 DEF HandlePacket, safetyVars
    <3>2. Acked' => Acked
      BY <2>1, <3>1 DEF Acked, AckOfCurrentStop, CurrentStop
    <3> QED
      BY <2>1, <2>2, <3>1, <3>2
  <2>5. CASE slot.kind \notin {"emergency_stop", "heartbeat"}
    <3>1. slot # CurrentStop
      BY <2>5 DEF CurrentStop
    <3>2. \E msg \in {"ack", "reject"} : Answer(msg)
      BY <1>5, <2>5 DEF HandlePacket
    <3>3. Acked' => Acked
      BY <2>1, <3>1, <3>2, AnswerAcks
    <3>4. Acked => authority' = "estopped"
      BY <1>5, <2>5 DEF HandlePacket, Grant, Withdraw, Stop
    <3> QED
      BY <2>1, <2>2, <3>3, <3>4
  <2> QED
    BY <2>3, <2>4, <2>5
<1>6. ASSUME NEW due \in BOOLEAN, EndLoop(due) PROVE AckKept'
  <2>1. UNCHANGED <<slot, outbox, epoch, lastAckReject>>
    BY <1>6 DEF EndLoop, page
  <2>2. \A i \in 1..Len(air') :
          \/ air'[i].msg = "safety_state"
          \/ i \in 1..Len(air) /\ air'[i] = air[i]
    BY <1>6, ReportIsMessage, NotifyAdds
       DEF EndLoop, SendSafetyState, ViewTypeOK, Message
  <2>3. Acked' => Acked
    <3>1. AckOfCurrentStop'.msg = "ack" /\ AckOfCurrentStop' = AckOfCurrentStop
      BY <2>1 DEF AckOfCurrentStop, CurrentStop
    <3> QED
      BY <2>1, <2>2, <3>1 DEF Acked
  <2>4. authority = "estopped" => authority' = "estopped"
    BY <1>6 DEF EndLoop, Withdraw, Stop, Move
  <2> QED
    BY <2>1, <2>3, <2>4 DEF NoResetInOutbox
<1>7. CASE RoverRestarts
  BY <1>7, NewEpochUnacked DEF RoverRestarts, page
<1>8. CASE UNCHANGED viewVars
  BY <1>8 DEF viewVars, way, page, safetyVars, Acked, AckOfCurrentStop,
              CurrentStop, NoResetInOutbox
<1> QED
  BY <1>1, <1>2, <1>3, <1>4, <1>5, <1>6, <1>7, <1>8, ButtonsSend
     DEF ViewNext, Operator

LEMMA InitViewInv == ViewInit => ViewInv
<1> SUFFICES ASSUME ViewInit PROVE ViewInv
  OBVIOUS
<1>1. 0 \in Epochs
  BY ViewAssumption DEF Epochs
<1>2. ViewTypeOK
  BY <1>1, NothingUnderWay
     DEF ViewInit, ViewTypeOK, SafetyInit, SafetyTypeOK, Authority
<1>3. FromThePast /\ ResetsFirst /\ ~Acked
  BY DEF ViewInit, FromThePast, ResetsFirst, NoResetInOutbox, Acked, NoPacket,
         NoAckReject, AckOfCurrentStop
<1> QED
  BY <1>2, <1>3 DEF ViewInv, AckKept

LEMMA NextViewInv == ViewInv /\ [ViewNext]_viewVars => ViewInv'
BY NextType, NextFromThePast, NextResetsFirst, NextAckKept DEF ViewInv

LEMMA ViewInvariant == ViewSafeSpec => []ViewInv
BY InitViewInv, NextViewInv, PTL DEF ViewSafeSpec

------------------------------------------------------------------------------
(* Results                                                                 *)

\* The writes and notifications under way keep within their bounds and every
\* display shows something that was sent.
THEOREM ViewTypeCorrect == ViewSafeSpec => []ViewTypeOK
<1>1. ViewInv => ViewTypeOK
  BY DEF ViewInv
<1> QED
  BY <1>1, ViewInvariant, PTL

\* The ack of an emergency_stop on the page, with no reset clicked and no
\* restart since that stop, means the latch is set: App.tsx's display against
\* PacketHandler's latch, over every delay, loss and overwriting between.
THEOREM AckedEstopHoldsAlways == ViewSafeSpec => []AckedEstopHolds
<1>1. ViewInv => AckedEstopHolds
  <2> SUFFICES ASSUME ViewInv,
                      lastAckReject.msg = "ack",
                      lastAckReject.of.kind = "emergency_stop",
                      lastAckReject.of.epoch = epoch
               PROVE  authority = "estopped"
    BY DEF AckedEstopHolds
  <2>1. lastAckReject = AckOfCurrentStop
    BY DEF ViewInv, ViewTypeOK, AckReject, NoAckReject, Packet,
           AckOfCurrentStop, CurrentStop
  <2> QED
    BY <2>1 DEF ViewInv, AckKept, Acked
<1> QED
  BY <1>1, ViewInvariant, PTL

\* Behind the page and the link, restarts included, the rover takes only the
\* steps that RoverSafety allows.
THEOREM RoverKeepsItsPromise == ViewSafeSpec => SafetySpec
<1>1. ViewInit => SafetyInit
  BY DEF ViewInit
<1>2. ViewTypeOK /\ [ViewNext]_viewVars => [SafetyNext]_safetyVars
  BY DEF ViewTypeOK, SafetyTypeOK, ViewNext, Operator, ClickConnect,
         ClickDisconnect, LinkLost, LinkDown, SendManualDirection,
         SendEmergencyStop, SendResetEstop, SendHeartbeat, Send, Deliver,
         WriteFails, HandleTelemetryMessage, HandlePacket, EndLoop,
         RoverRestarts, Stop, SafetyNext, Halt, safetyVars, viewVars
<1> QED
  BY <1>1, <1>2, ViewTypeCorrect, PTL DEF ViewSafeSpec, SafetySpec
==============================================================================
