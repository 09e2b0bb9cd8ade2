-------------------------- MODULE BleGattTransport --------------------------
(***************************************************************************)
(* The receiving side of the BLE GATT transport: one command write buffer, *)
(* filled by the Bluetooth stack's callback (onCommandWrite) and drained   *)
(* by the main loop (poll, processPendingCommandWriteDebug and             *)
(* JsonPacketParser), a two-packet queue and the ack/reject notifications  *)
(* processTransport sends.                                                 *)
(*                                                                         *)
(* The callback runs to completion but may interrupt the main loop between *)
(* any two accesses of the buffer.  The main loop reads the buffer once to *)
(* classify, again to test for truncation, and three more times to parse,  *)
(* so that one packet may be put together from several writes.             *)
(*                                                                         *)
(* A payload is abstracted to its msg_type, whether its cmd_vel fields are *)
(* valid and whether it is longer than the buffer.  Writes are numbered,   *)
(* and the number doubles as the payload's seq.                            *)
(***************************************************************************)
EXTENDS Naturals, Sequences

CONSTANTS
  Payloads,    \* the payloads a central may write
  MaxWrites    \* bound: how many writes are modelled

Kinds == {"None", "CmdVel", "EmergencyStop", "Heartbeat", "ResetEstop"}
Payload == [kind : Kinds, valid : BOOLEAN, long : BOOLEAN]

ASSUME TransportAssumption ==
  Payloads \subseteq Payload /\ MaxWrites \in Nat

Ids == 1..MaxWrites
NoId == 0
QueueSize == 2   \* kQueueSize

VARIABLES
  pending,       \* commandWritePending
  slot,          \* commandWriteBuffer and commandWriteTruncated
  stage,         \* where poll is
  msgType,       \* processPendingCommandWriteDebug's local
  packet,        \* the packet being parsed
  lastError,     \* the write whose error JsonPacketParser::lastError_ holds
  queue,
  \* History variables:
  newest,        \* number of the newest write
  outcome,       \* what became of the payload processed last
  estopWritten,  \* was a valid emergency_stop written, was one handled?
  estopHandled

vars == <<pending, slot, stage, msgType, packet, lastError, queue, newest,
          outcome, estopWritten, estopHandled>>

Stages == {"start", "classify", "truncated", "type", "seq", "body", "read"}

\* Which write each part of a packet was read from.
RawPacket == [type : Kinds, typeFrom : Ids \cup {NoId},
              seq : Ids \cup {NoId}, body : Ids \cup {NoId}]

\* Only a cmd_vel has a body.
Packet == {p \in RawPacket : p.type # "CmdVel" => p.body = NoId}
EmptyPacket == [type |-> "None", typeFrom |-> NoId, seq |-> NoId,
                body |-> NoId]

Verdicts == {"none", "handled", "refused", "ignored"}

\* reasonOf: the write a parse error in the reject's reason belongs to.
Outcome == [verdict : Verdicts, packet : Packet, reasonOf : Ids \cup {NoId}]

TypeOK ==
  /\ pending \in BOOLEAN
  /\ slot \in [payload : Payload, id : Ids \cup {NoId}]
  /\ stage \in Stages
  /\ msgType \in Kinds
  /\ packet \in Packet
  /\ lastError \in Ids \cup {NoId}
  /\ queue \in Seq(Packet) /\ Len(queue) <= QueueSize
  /\ newest \in 0..MaxWrites
  /\ outcome \in Outcome
  /\ estopWritten \in BOOLEAN /\ estopHandled \in BOOLEAN

EmptyPayload == [kind |-> "None", valid |-> FALSE, long |-> FALSE]

Init ==
  /\ pending = FALSE
  /\ slot = [payload |-> EmptyPayload, id |-> NoId]
  /\ stage = "start"
  /\ msgType = "None"
  /\ packet = EmptyPacket
  /\ lastError = NoId
  /\ queue = <<>>
  /\ newest = 0
  /\ outcome = [verdict |-> "none", packet |-> EmptyPacket,
                reasonOf |-> NoId]
  /\ estopWritten = FALSE /\ estopHandled = FALSE

------------------------------------------------------------------------------
\* What the parser takes: it fits into the buffer and is well formed.
Acceptable(payload) ==
  /\ ~payload.long
  /\ payload.kind # "None"
  /\ payload.kind = "CmdVel" => payload.valid

\* The stack's callback: a write overwrites whatever the buffer still holds.
OnCommandWrite(payload) ==
  /\ newest < MaxWrites
  /\ newest' = newest + 1
  /\ slot' = [payload |-> payload, id |-> newest + 1]
  /\ pending' = TRUE
  /\ estopWritten' = \/ estopWritten
                     \/ payload.kind = "EmergencyStop" /\ Acceptable(payload)
  /\ UNCHANGED <<stage, msgType, packet, lastError, queue, outcome,
                 estopHandled>>

history == <<newest, estopWritten>>

\* Mutant: the flag is never cleared.
PollKeepsPending ==
  /\ stage = "start" /\ pending
  /\ stage' = "classify"
  /\ UNCHANGED <<pending, slot, msgType, packet, lastError, queue, outcome,
                 history, estopHandled>>

PollPending ==
  /\ stage = "start" /\ pending
  /\ pending' = FALSE
  /\ stage' = "classify"
  /\ UNCHANGED <<slot, msgType, packet, lastError, queue, outcome, history,
                 estopHandled>>

PollNothing ==
  /\ stage = "start" /\ ~pending
  /\ stage' = "read"
  /\ UNCHANGED <<pending, slot, msgType, packet, lastError, queue, outcome,
                 history, estopHandled>>

Classify ==
  /\ stage = "classify"
  /\ msgType' = slot.payload.kind
  /\ stage' = "truncated"
  /\ UNCHANGED <<pending, slot, packet, lastError, queue, outcome, history,
                 estopHandled>>

\* A payload is refused: rejectReason and rejectSeq make a reject packet.
Refuse(refused, reasonOf) ==
  /\ outcome' = [verdict |-> "refused", packet |-> refused,
                 reasonOf |-> reasonOf]
  /\ stage' = "read"
  /\ UNCHANGED <<pending, slot, msgType, queue, history, estopHandled>>

CheckTruncated ==
  /\ stage = "truncated"
  /\ IF slot.payload.long
     THEN Refuse(EmptyPacket, NoId) /\ UNCHANGED <<packet, lastError>>
     ELSE /\ stage' = "type"
          /\ UNCHANGED <<pending, slot, msgType, packet, lastError, queue,
                         outcome, history, estopHandled>>

\* The parsed packet is queued, unless the classification made before the
\* parse was "unknown": then it is dropped without an answer.
Deliver(parsed) ==
  /\ packet' = parsed
  /\ queue' = IF msgType # "None" /\ Len(queue) < QueueSize
              THEN Append(queue, parsed) ELSE queue
  /\ outcome' = IF msgType = "None"
                THEN [verdict |-> "ignored", packet |-> parsed,
                      reasonOf |-> NoId]
                ELSE IF Len(queue) = QueueSize
                THEN [verdict |-> "refused", packet |-> parsed,
                      reasonOf |-> NoId]
                ELSE outcome
  /\ stage' = "read"
  /\ UNCHANGED <<pending, slot, msgType, history, estopHandled>>

\* Mutant: parse does not start from an empty packet.
ParseTypeKeepsPacket ==
  /\ stage = "type"
  /\ UNCHANGED lastError
  /\ IF slot.payload.kind = "None"
     THEN packet' = EmptyPacket /\ Refuse(EmptyPacket, lastError)
     ELSE /\ packet' = [packet EXCEPT !.type = slot.payload.kind,
                                      !.typeFrom = slot.id]
          /\ stage' = "seq"
          /\ UNCHANGED <<pending, slot, msgType, queue, outcome, history,
                         estopHandled>>
\* parse classifies the buffer again.  An unknown type fails without touching
\* lastError_, so that the reason given is the one of an earlier payload.
ParseType ==
  /\ stage = "type"
  /\ UNCHANGED lastError
  /\ IF slot.payload.kind = "None"
     THEN packet' = EmptyPacket /\ Refuse(EmptyPacket, lastError)
     ELSE /\ packet' = [EmptyPacket EXCEPT !.type = slot.payload.kind,
                                           !.typeFrom = slot.id]
          /\ stage' = "seq"
          /\ UNCHANGED <<pending, slot, msgType, queue, outcome, history,
                         estopHandled>>

ParseSeq ==
  /\ stage = "seq"
  /\ lastError' = NoId
  /\ LET numbered == [packet EXCEPT !.seq = slot.id]
     IN  IF packet.type = "CmdVel"
         THEN /\ packet' = numbered
              /\ stage' = "body"
              /\ UNCHANGED <<pending, slot, msgType, queue, outcome, history,
                             estopHandled>>
         ELSE Deliver(numbered)

ParseBody ==
  /\ stage = "body"
  /\ IF slot.payload.kind = "CmdVel" /\ slot.payload.valid
     THEN lastError' = NoId /\ Deliver([packet EXCEPT !.body = slot.id])
     ELSE /\ lastError' = slot.id
          /\ Refuse(packet, slot.id)
          /\ UNCHANGED packet

\* Mutants: a packet is only read when no further write is waiting; the flag
\* is cleared when the packet has been handled.
ReadPacketWhenQuiet ==
  /\ stage = "read"
  /\ stage' = "start"
  /\ IF queue = <<>> \/ pending
     THEN UNCHANGED <<queue, outcome, estopHandled>>
     ELSE /\ queue' = Tail(queue)
          /\ outcome' = [verdict |-> "handled", packet |-> Head(queue),
                         reasonOf |-> NoId]
          /\ estopHandled' =
               (estopHandled \/ Head(queue).type = "EmergencyStop")
  /\ UNCHANGED <<pending, slot, msgType, packet, lastError, history>>
ReadPacketClearsPending ==
  /\ stage = "read"
  /\ stage' = "start"
  /\ pending' = FALSE
  /\ IF queue = <<>>
     THEN UNCHANGED <<queue, outcome, estopHandled>>
     ELSE /\ queue' = Tail(queue)
          /\ outcome' = [verdict |-> "handled", packet |-> Head(queue),
                         reasonOf |-> NoId]
          /\ estopHandled' =
               (estopHandled \/ Head(queue).type = "EmergencyStop")
  /\ UNCHANGED <<slot, msgType, packet, lastError, history>>

\* readPacket, and processTransport handing the packet to the handler.
ReadPacket ==
  /\ stage = "read"
  /\ stage' = "start"
  /\ IF queue = <<>>
     THEN UNCHANGED <<queue, outcome, estopHandled>>
     ELSE /\ queue' = Tail(queue)
          /\ outcome' = [verdict |-> "handled", packet |-> Head(queue),
                         reasonOf |-> NoId]
          /\ estopHandled' =
               (estopHandled \/ Head(queue).type = "EmergencyStop")
  /\ UNCHANGED <<pending, slot, msgType, packet, lastError, history>>

LoopStep ==
  \/ PollPending
  \/ PollNothing
  \/ Classify
  \/ CheckTruncated
  \/ ParseType
  \/ ParseSeq
  \/ ParseBody
  \/ ReadPacket

Next == LoopStep \/ \E payload \in Payloads : OnCommandWrite(payload)

SafeSpec == Init /\ [][Next]_vars

\* The main loop keeps running; nothing makes a central write.
Spec == SafeSpec /\ WF_vars(LoopStep)

------------------------------------------------------------------------------
(* Properties                                                              *)

\* A parsed packet that is one write, whole.
WholeWrite(p, w) ==
  /\ p.type = w.payload.kind
  /\ p.typeFrom = w.id /\ p.seq = w.id
  /\ p.body = IF p.type = "CmdVel" THEN w.id ELSE NoId

Quiet == stage = "start" /\ ~pending

(***************************************************************************)
(* However the callback interrupts the parsing, the newest write is        *)
(* processed whole: once poll has nothing left, the payload handled last   *)
(* is exactly the one in the buffer, or it was refused and deserved it.    *)
(***************************************************************************)
NewestWriteSettled ==
  Quiet /\ newest > 0 =>
    IF Acceptable(slot.payload)
    THEN outcome.verdict = "handled" /\ WholeWrite(outcome.packet, slot)
    ELSE outcome.verdict = "refused"

(***************************************************************************)
(* The queue holds two packets, but poll takes one out for each it puts    *)
(* in: the queue_full reject cannot happen, and nothing waits in the queue *)
(* between polls.                                                          *)
(***************************************************************************)
QueueDrainedByEachPoll ==
  /\ Len(queue) < QueueSize
  /\ stage # "read" => queue = <<>>

(***************************************************************************)
(* No payload keeps the loop busy for ever: the flag that announces a      *)
(* write is down again and the loop free for its safety check.             *)
(***************************************************************************)
EveryWriteSettles == pending ~> Quiet

------------------------------------------------------------------------------
(* What the documents say, where the code does something else.             *)

(***************************************************************************)
(* ble_gatt_contract.md: "A valid emergency_stop must be accepted at all   *)
(* times."  One that the rover could have accepted is written, another     *)
(* write overwrites it in the buffer before the loop has read it, and no   *)
(* emergency_stop is ever handled.                                         *)
(***************************************************************************)
EstopNeverLost == Quiet /\ estopWritten => estopHandled
==============================================================================
