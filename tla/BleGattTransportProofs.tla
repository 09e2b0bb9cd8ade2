----------------------- MODULE BleGattTransportProofs -----------------------
(***************************************************************************)
(* The command write buffer, for every set of payloads and any number of   *)
(* writes: although every read of the buffer may see a newer write than    *)
(* the read before, the newest write is in the end processed whole.        *)
(***************************************************************************)
EXTENDS BleGattTransport, TLAPS

\* What the loop owes the write in the buffer once it has come to rest.
Settled ==
  IF Acceptable(slot.payload)
  THEN outcome.verdict = "handled" /\ WholeWrite(outcome.packet, slot)
  ELSE outcome.verdict = "refused"

\* The queue is only used within one poll, by the packet just parsed.
QueueInv ==
  /\ stage # "read" => queue = <<>>
  /\ stage = "read" => queue = <<>> \/ queue = <<packet>>

\* While the flag is down, whatever the loop has read so far it has read from
\* the write now in the buffer: the flag went down before the first read.
ReadSoFar ==
  ~pending =>
    /\ stage \in {"truncated", "type", "seq", "body"} =>
         msgType = slot.payload.kind
    /\ stage \in {"type", "seq", "body"} => ~slot.payload.long
    /\ stage \in {"seq", "body"} =>
         /\ slot.payload.kind # "None"
         /\ packet.type = slot.payload.kind
         /\ packet.typeFrom = slot.id
         /\ packet.body = NoId
    /\ stage = "body" => packet.type = "CmdVel" /\ packet.seq = slot.id
    /\ stage = "read" /\ queue # <<>> =>
         Acceptable(slot.payload) /\ WholeWrite(packet, slot)
    /\ stage = "read" /\ queue = <<>> /\ newest > 0 => Settled
    /\ stage = "start" /\ newest > 0 => Settled

\* The buffer holds the newest write; nothing is parsed that was not written,
\* and only the fields of a cmd_vel are.
Started ==
  /\ slot.id = newest
  /\ stage = "body" => packet.type = "CmdVel"
  /\ pending \/ stage \notin {"start", "read"} => newest > 0

IInv == TypeOK /\ QueueInv /\ ReadSoFar /\ Started

------------------------------------------------------------------------------
LEMMA EmptyPacketIsPacket == EmptyPacket \in Packet
<1>1. EmptyPacket \in RawPacket
  BY DEF EmptyPacket, RawPacket, Kinds, NoId
<1> QED
  BY <1>1 DEF EmptyPacket, Packet, NoId

LEMMA InitIInv == Init => IInv
<1> SUFFICES ASSUME Init PROVE IInv
  OBVIOUS
<1>1. slot \in [payload : Payload, id : Ids \cup {NoId}]
  BY DEF Init, EmptyPayload, Payload, Kinds
<1>2. outcome \in Outcome
  BY EmptyPacketIsPacket DEF Init, Outcome, Verdicts
<1>3. queue \in Seq(Packet) /\ Len(queue) <= QueueSize
  BY DEF Init, QueueSize
<1>4. newest \in 0..MaxWrites
  BY TransportAssumption DEF Init
<1>5. /\ pending \in BOOLEAN /\ stage \in Stages /\ msgType \in Kinds
      /\ packet \in Packet /\ lastError \in Ids \cup {NoId}
      /\ estopWritten \in BOOLEAN /\ estopHandled \in BOOLEAN
  BY EmptyPacketIsPacket DEF Init, Stages, Kinds
<1>6. TypeOK
  BY <1>1, <1>2, <1>3, <1>4, <1>5 DEF TypeOK
<1>7. QueueInv /\ ReadSoFar /\ Started
  BY DEF Init, QueueInv, ReadSoFar, Started, NoId
<1> QED
  BY <1>6, <1>7 DEF IInv

\* A packet being completed stays a packet.
LEMMA PacketUpdates ==
  ASSUME NEW p \in Packet, NEW id \in Ids, NEW kind \in Kinds
  PROVE  /\ EmptyPacket \in Packet
         /\ [EmptyPacket EXCEPT !.type = kind, !.typeFrom = id] \in Packet
         /\ [p EXCEPT !.seq = id] \in Packet
         /\ p.type = "CmdVel" => [p EXCEPT !.body = id] \in Packet
<1>1. p \in RawPacket /\ (p.type # "CmdVel" => p.body = NoId)
  BY DEF Packet
<1>2. EmptyPacket \in Packet
  BY EmptyPacketIsPacket
<1> DEFINE typed == [EmptyPacket EXCEPT !.type = kind, !.typeFrom = id]
           numbered == [p EXCEPT !.seq = id]
           whole == [p EXCEPT !.body = id]
<1>3. typed \in RawPacket /\ typed.body = NoId
  BY DEF EmptyPacket, RawPacket, NoId
<1>4. /\ numbered \in RawPacket
      /\ numbered.type = p.type /\ numbered.body = p.body
  BY <1>1 DEF RawPacket
<1>5. whole \in RawPacket /\ whole.type = p.type
  BY <1>1 DEF RawPacket
<1> QED
  BY <1>1, <1>2, <1>3, <1>4, <1>5 DEF Packet

\* In every stage that reads the buffer it holds a write.
LEMMA SlotId ==
  ASSUME TypeOK, Started
  PROVE  stage \notin {"start", "read"} => slot.id \in Ids
BY DEF TypeOK, Started, Ids

LEMMA NextType == IInv /\ [Next]_vars => TypeOK'
<1> SUFFICES ASSUME IInv, [Next]_vars PROVE TypeOK'
  OBVIOUS
<1>0. TypeOK /\ (stage \notin {"start", "read"} => slot.id \in Ids)
  BY SlotId DEF IInv
<1>1. ASSUME NEW payload \in Payloads, OnCommandWrite(payload) PROVE TypeOK'
  BY <1>0, <1>1, TransportAssumption
     DEF TypeOK, OnCommandWrite, Payload, Ids
<1>2. CASE PollPending \/ PollNothing \/ Classify
  BY <1>0, <1>2
     DEF TypeOK, PollPending, PollNothing, Classify, history, Stages, Payload
<1>3. ASSUME NEW p \in Packet, NEW id \in Ids \cup {NoId}, Refuse(p, id),
             packet' \in Packet, lastError' \in Ids \cup {NoId}
      PROVE  TypeOK'
  BY <1>0, <1>3 DEF TypeOK, Refuse, history, Outcome, Verdicts, Stages
<1>4. ASSUME NEW p \in Packet, Deliver(p), lastError' \in Ids \cup {NoId}
      PROVE  TypeOK'
  <2>1. queue' \in Seq(Packet) /\ Len(queue') <= QueueSize
    BY <1>0, <1>4 DEF TypeOK, Deliver, QueueSize
  <2>2. outcome' \in Outcome
    BY <1>0, <1>4 DEF TypeOK, Deliver, Outcome, Verdicts, NoId
  <2> QED
    BY <1>0, <1>4, <2>1, <2>2 DEF TypeOK, Deliver, history, Stages
<1>5. EmptyPacket \in Packet
  BY EmptyPacketIsPacket
<1>6. CASE CheckTruncated
  <2>1. CASE slot.payload.long
    BY <1>0, <1>3, <1>5, <1>6, <2>1 DEF CheckTruncated, TypeOK
  <2>2. CASE ~slot.payload.long
    BY <1>0, <1>6, <2>2 DEF CheckTruncated, TypeOK, history, Stages
  <2> QED
    BY <2>1, <2>2
<1>7. CASE ParseType
  <2>1. CASE slot.payload.kind = "None"
    BY <1>0, <1>3, <1>5, <1>7, <2>1 DEF ParseType, TypeOK
  <2>2. CASE slot.payload.kind # "None"
    <3>1. slot.id \in Ids /\ slot.payload.kind \in Kinds
      BY <1>0, <1>7 DEF ParseType, TypeOK, Payload
    <3>2. packet' \in Packet
      BY <1>5, <1>7, <2>2, <3>1, PacketUpdates DEF ParseType
    <3> QED
      BY <1>0, <1>7, <2>2, <3>2 DEF ParseType, TypeOK, history, Stages
  <2> QED
    BY <2>1, <2>2
<1>8. CASE ParseSeq
  <2> DEFINE numbered == [packet EXCEPT !.seq = slot.id]
  <2>1. numbered \in Packet /\ lastError' \in Ids \cup {NoId}
    BY <1>0, <1>8, PacketUpdates DEF ParseSeq, TypeOK
  <2>2. CASE packet.type = "CmdVel"
    BY <1>0, <1>8, <2>1, <2>2 DEF ParseSeq, TypeOK, history, Stages
  <2>3. CASE packet.type # "CmdVel"
    BY <1>4, <1>8, <2>1, <2>3 DEF ParseSeq
  <2> QED
    BY <2>2, <2>3
<1>9. CASE ParseBody
  <2>1. CASE slot.payload.kind = "CmdVel" /\ slot.payload.valid
    <3>1. [packet EXCEPT !.body = slot.id] \in Packet
      BY <1>0, <1>9, PacketUpdates DEF ParseBody, TypeOK, IInv, Started
    <3> QED
      BY <1>4, <1>9, <2>1, <3>1 DEF ParseBody
  <2>2. CASE ~(slot.payload.kind = "CmdVel" /\ slot.payload.valid)
    <3>1. packet \in Packet /\ slot.id \in Ids \cup {NoId}
      BY <1>0 DEF TypeOK
    <3>2. Refuse(packet, slot.id) /\ packet' = packet /\ lastError' = slot.id
      BY <1>9, <2>2 DEF ParseBody
    <3> QED
      BY <1>3, <3>1, <3>2
  <2> QED
    BY <2>1, <2>2
<1>10. CASE ReadPacket
  <2>1. CASE queue = <<>>
    BY <1>0, <1>10, <2>1 DEF ReadPacket, TypeOK, history, Stages
  <2>2. CASE queue # <<>>
    <3>1. Head(queue) \in Packet /\ Tail(queue) \in Seq(Packet)
          /\ Len(Tail(queue)) <= QueueSize
      BY <1>0, <2>2 DEF TypeOK, QueueSize
    <3>2. outcome' \in Outcome
      BY <1>10, <2>2, <3>1 DEF ReadPacket, Outcome, Verdicts, NoId
    <3>3. estopHandled' \in BOOLEAN
      BY <1>0, <1>10, <2>2 DEF ReadPacket, TypeOK
    <3> QED
      BY <1>0, <1>10, <2>2, <3>1, <3>2, <3>3
         DEF ReadPacket, TypeOK, history, Stages
  <2> QED
    BY <2>1, <2>2
<1>11. CASE UNCHANGED vars
  BY <1>0, <1>11 DEF TypeOK, vars
<1> QED
  BY <1>1, <1>2, <1>6, <1>7, <1>8, <1>9, <1>10, <1>11 DEF Next, LoopStep

LEMMA NextStarted == IInv /\ [Next]_vars => Started'
<1> SUFFICES ASSUME IInv, [Next]_vars PROVE Started'
  OBVIOUS
<1> USE DEF IInv, TypeOK, Started
<1>1. ASSUME NEW payload \in Payloads, OnCommandWrite(payload)
      PROVE  Started'
  BY <1>1, TransportAssumption DEF OnCommandWrite
<1>2. CASE PollPending \/ PollNothing \/ Classify \/ ReadPacket
  BY <1>2 DEF PollPending, PollNothing, Classify, ReadPacket, history
<1>3. CASE CheckTruncated \/ ParseType \/ ParseBody
  BY <1>3 DEF CheckTruncated, ParseType, ParseBody, Refuse, Deliver, history
<1>4. CASE ParseSeq
  <2>1. packet \in RawPacket
    BY DEF Packet
  <2>2. [packet EXCEPT !.seq = slot.id].type = packet.type
    BY <2>1 DEF RawPacket
  <2> QED
    BY <1>4, <2>2 DEF ParseSeq, Deliver, history
<1>5. CASE UNCHANGED vars
  BY <1>5 DEF vars
<1> QED
  BY <1>1, <1>2, <1>3, <1>4, <1>5 DEF Next, LoopStep

LEMMA NextQueueInv == IInv /\ [Next]_vars => QueueInv'
<1> SUFFICES ASSUME IInv, [Next]_vars PROVE QueueInv'
  OBVIOUS
<1> USE DEF IInv, TypeOK, QueueInv
<1>1. ASSUME NEW payload \in Payloads, OnCommandWrite(payload)
      PROVE  QueueInv'
  BY <1>1 DEF OnCommandWrite
<1>2. CASE PollPending \/ PollNothing \/ Classify
  BY <1>2 DEF PollPending, PollNothing, Classify
<1>3. ASSUME queue = <<>>, NEW p, Deliver(p) PROVE QueueInv'
  BY <1>3 DEF Deliver
<1>4. ASSUME queue = <<>>, NEW p, NEW id, Refuse(p, id) PROVE QueueInv'
  BY <1>4 DEF Refuse
<1>5. CASE CheckTruncated
  BY <1>4, <1>5 DEF CheckTruncated
<1>6. CASE ParseType
  BY <1>4, <1>6 DEF ParseType
<1>7. CASE ParseSeq
  BY <1>3, <1>7 DEF ParseSeq
<1>8. CASE ParseBody
  BY <1>3, <1>4, <1>8 DEF ParseBody
<1>9. CASE ReadPacket
  BY <1>9 DEF ReadPacket
<1>10. CASE UNCHANGED vars
  BY <1>10 DEF vars
<1> QED
  BY <1>1, <1>2, <1>5, <1>6, <1>7, <1>8, <1>9, <1>10 DEF Next, LoopStep

LEMMA NextReadSoFar == IInv /\ [Next]_vars => ReadSoFar'
<1> SUFFICES ASSUME IInv, [Next]_vars PROVE ReadSoFar'
  OBVIOUS
<1> USE DEF IInv, QueueInv, ReadSoFar
<1>1. ASSUME NEW payload \in Payloads, OnCommandWrite(payload)
      PROVE  ReadSoFar'
  BY <1>1 DEF OnCommandWrite
<1>2. CASE PollPending \/ Classify
  BY <1>2 DEF PollPending, Classify
<1>3. CASE PollNothing
  BY <1>3 DEF PollNothing, history, Settled
<1>4. ASSUME ~pending => ~Acceptable(slot.payload), queue = <<>>,
             NEW p, NEW id, Refuse(p, id)
      PROVE  ReadSoFar'
  BY <1>4 DEF Refuse, Settled
<1>5. ASSUME NEW p, Deliver(p), queue = <<>>,
             ~pending => /\ Acceptable(slot.payload)
                         /\ msgType = slot.payload.kind
                         /\ WholeWrite(p, slot)
      PROVE  ReadSoFar'
  BY <1>5 DEF Deliver, Acceptable, QueueSize
<1>6. CASE CheckTruncated
  <2>1. CASE slot.payload.long
    BY <1>4, <1>6, <2>1 DEF CheckTruncated, Acceptable
  <2>2. CASE ~slot.payload.long
    BY <1>6, <2>2 DEF CheckTruncated
  <2> QED
    BY <2>1, <2>2
<1>7. CASE ParseType
  <2>1. CASE slot.payload.kind = "None"
    BY <1>4, <1>7, <2>1 DEF ParseType, Acceptable
  <2>2. CASE slot.payload.kind # "None"
    BY <1>7, <2>2 DEF ParseType, EmptyPacket
  <2> QED
    BY <2>1, <2>2
<1>8. CASE ParseSeq
  <2> DEFINE numbered == [packet EXCEPT !.seq = slot.id]
  <2>1. /\ numbered.type = packet.type
        /\ numbered.typeFrom = packet.typeFrom
        /\ numbered.seq = slot.id
        /\ numbered.body = packet.body
    BY DEF TypeOK, Packet, RawPacket
  <2>2. CASE packet.type = "CmdVel"
    BY <1>8, <2>1, <2>2 DEF ParseSeq
  <2>3. CASE packet.type # "CmdVel"
    <3>1. Deliver(numbered) /\ queue = <<>>
      BY <1>8, <2>3 DEF ParseSeq
    <3>2. ~pending => /\ Acceptable(slot.payload)
                      /\ msgType = slot.payload.kind
                      /\ WholeWrite(numbered, slot)
      BY <1>8, <2>1, <2>3 DEF ParseSeq, Acceptable, WholeWrite
    <3> QED
      BY <1>5, <3>1, <3>2
  <2> QED
    BY <2>2, <2>3
<1>9. CASE ParseBody
  <2> DEFINE whole == [packet EXCEPT !.body = slot.id]
  <2>1. /\ whole.type = packet.type /\ whole.typeFrom = packet.typeFrom
        /\ whole.seq = packet.seq /\ whole.body = slot.id
    BY DEF TypeOK, Packet, RawPacket
  <2>2. CASE slot.payload.kind = "CmdVel" /\ slot.payload.valid
    <3>1. Deliver(whole) /\ queue = <<>>
      BY <1>9, <2>2 DEF ParseBody
    <3>2. ~pending => /\ Acceptable(slot.payload)
                      /\ msgType = slot.payload.kind
                      /\ WholeWrite(whole, slot)
      BY <1>9, <2>1, <2>2 DEF ParseBody, Acceptable, WholeWrite
    <3> QED
      BY <1>5, <3>1, <3>2
  <2>3. CASE ~(slot.payload.kind = "CmdVel" /\ slot.payload.valid)
    <3>1. ~pending => ~Acceptable(slot.payload)
      BY <1>9, <2>3 DEF ParseBody, Acceptable
    <3>2. Refuse(packet, slot.id) /\ queue = <<>>
      BY <1>9, <2>3 DEF ParseBody
    <3> QED
      BY <1>4, <3>1, <3>2
  <2> QED
    BY <2>2, <2>3
<1>10. CASE ReadPacket
  <2>1. CASE queue = <<>>
    BY <1>10, <2>1 DEF ReadPacket, history, Settled
  <2>2. CASE queue # <<>>
    <3>1. queue = <<packet>> /\ Head(queue) = packet
      BY <1>10, <2>2 DEF ReadPacket
    <3>2. outcome'.verdict = "handled" /\ outcome'.packet = packet
      BY <1>10, <2>2, <3>1 DEF ReadPacket
    <3> QED
      BY <1>10, <2>2, <3>2 DEF ReadPacket, Settled
  <2> QED
    BY <2>1, <2>2
<1>11. CASE UNCHANGED vars
  BY <1>11 DEF vars, Settled
<1> QED
  BY <1>1, <1>2, <1>3, <1>6, <1>7, <1>8, <1>9, <1>10, <1>11
     DEF Next, LoopStep

LEMMA InductiveInvariant == SafeSpec => []IInv
<1>1. IInv /\ [Next]_vars => IInv'
  BY NextType, NextQueueInv, NextReadSoFar, NextStarted DEF IInv
<1> QED
  BY InitIInv, <1>1, PTL DEF SafeSpec

------------------------------------------------------------------------------
(* Results                                                                 *)

\* Type correctness: the buffer, the packet being put together and the queue
\* hold what the parser can produce, wherever the callback interrupts it.
THEOREM TypeCorrect == SafeSpec => []TypeOK
<1>1. IInv => TypeOK
  BY DEF IInv
<1> QED
  BY <1>1, InductiveInvariant, PTL

\* The newest write is processed whole, or refused for cause: onCommandWrite
\* against processPendingCommandWriteDebug and the parser.
THEOREM NewestWriteSettledHolds == SafeSpec => []NewestWriteSettled
<1>1. IInv => NewestWriteSettled
  BY DEF IInv, ReadSoFar, Settled, NewestWriteSettled, Quiet
<1> QED
  BY <1>1, InductiveInvariant, PTL

\* The two-packet queue never fills up, so poll never answers queue_full.
THEOREM QueueDrainedByEachPollHolds == SafeSpec => []QueueDrainedByEachPoll
<1>1. IInv => QueueDrainedByEachPoll
  <2>1. Len(<<>>) = 0 /\ Len(<<packet>>) = 1
    OBVIOUS
  <2> QED
    BY <2>1 DEF IInv, QueueInv, QueueDrainedByEachPoll, QueueSize
<1> QED
  BY <1>1, InductiveInvariant, PTL
==============================================================================
