------------------------- MODULE MockTransportProofs -------------------------
(***************************************************************************)
(* Theorems about MockTransport, for every size of the line buffer and     *)
(* every number of packets.  The invariant: every number handed out or     *)
(* waiting is below the next one, none was handed out twice, and the one   *)
(* waiting was not handed out at all.                                      *)
(***************************************************************************)
EXTENDS MockTransport, TLAPS

NumbersUsed ==
  /\ \A seq \in 1..MaxSeq : seq >= nextSeq => given[seq] = 0
  /\ pendingPacket # NoPacket =>
       pendingPacket.seq < nextSeq /\ given[pendingPacket.seq] = 0

IInv == TypeOK /\ AliasInOrder /\ SeqGivenOnce /\ NumbersUsed

LEMMA EmptyLineFits == <<>> \in Seq(Chars) /\ Len(<<>>) < LineBufferLength
<1>1. <<>> \in Seq(Chars) /\ Len(<<>>) = 0
  OBVIOUS
<1> QED
  BY <1>1, LineAssumption

LEMMA InitIInv == ASSUME Init PROVE IInv
<1>1. TypeOK
  <2>1. 1 \in 1..(MaxSeq + 1)
    BY LineAssumption
  <2> QED
    BY <2>1, EmptyLineFits DEF Init, TypeOK
<1>2. AliasInOrder /\ SeqGivenOnce /\ NumbersUsed
  BY DEF Init, AliasInOrder, SeqGivenOnce, NumbersUsed
<1> QED
  BY <1>1, <1>2 DEF IInv

\* Handing out a packet counts for its number only.
LEMMA ReturnCounts ==
  ASSUME IInv, NEW packet \in Packet, Return(packet)
  PROVE  /\ polled' = packet
         /\ given' \in [1..MaxSeq -> Nat]
         /\ packet.seq \in 1..MaxSeq
         /\ given'[packet.seq] = given[packet.seq] + 1
         /\ \A seq \in 1..MaxSeq \ {packet.seq} : given'[seq] = given[seq]
<1>1. packet # NoPacket /\ packet.seq \in 1..MaxSeq
  BY DEF Packet, NoPacket, Types
<1>2. given \in [1..MaxSeq -> Nat]
  BY DEF IInv, TypeOK
<1> QED
  BY <1>1, <1>2 DEF Return

\* A packet with the next number that is handed out at once.
LEMMA ReturnsNext ==
  ASSUME IInv, Reading, NEW type \in Types,
         Number(1), Return([type |-> type, seq |-> nextSeq]),
         EndLine, UNCHANGED pendingPacket
  PROVE  IInv'
<1> DEFINE packet == [type |-> type, seq |-> nextSeq]
<1>1. /\ packet \in Packet /\ packet # NoPacket /\ packet.seq = nextSeq
      /\ nextSeq' = nextSeq + 1 /\ nextSeq' \in 1..(MaxSeq + 1)
  BY LineAssumption DEF Number, Packet, NoPacket, IInv, TypeOK
<1>2. /\ polled' = packet /\ given' \in [1..MaxSeq -> Nat]
      /\ nextSeq \in 1..MaxSeq
      /\ given'[nextSeq] = given[nextSeq] + 1
      /\ \A seq \in 1..MaxSeq \ {nextSeq} : given'[seq] = given[seq]
  <2> HIDE DEF packet
  <2> QED
    BY <1>1, ReturnCounts DEF packet
<1>3. TypeOK'
  <2>1. nextSeq \in 1..MaxSeq
    BY <1>1, LineAssumption DEF IInv, TypeOK
  <2>2. lineBuffer' = <<>>
    BY DEF EndLine
  <2> HIDE DEF packet
  <2> QED
    BY <1>1, <1>2, <2>1, <2>2, EmptyLineFits DEF IInv, TypeOK
<1>4. AliasInOrder'
  BY DEF AliasInOrder, Reading
<1>5. SeqGivenOnce' /\ NumbersUsed'
  BY <1>1, <1>2 DEF IInv, TypeOK, SeqGivenOnce, NumbersUsed, Reading
<1> QED
  BY <1>3, <1>4, <1>5 DEF IInv

\* poll returns false, and a number may have been used up.
LEMMA ReturnsNothing ==
  ASSUME IInv, Reading, Return(NoPacket), UNCHANGED pendingPacket,
         nextSeq' \in {nextSeq, nextSeq + 1}, nextSeq' <= MaxSeq + 1,
         lineBuffer' \in {lineBuffer, <<>>}
  PROVE  IInv'
<1>1. polled' = NoPacket /\ given' = given
  BY DEF Return
<1>2. TypeOK'
  <2>1. nextSeq' \in 1..(MaxSeq + 1)
    BY LineAssumption DEF IInv, TypeOK
  <2>2. lineBuffer' \in Seq(Chars) /\ Len(lineBuffer') < LineBufferLength
    <3>1. CASE lineBuffer' = lineBuffer
      BY <3>1 DEF IInv, TypeOK
    <3>2. CASE lineBuffer' = <<>>
      BY <3>2, EmptyLineFits
    <3> QED
      BY <3>1, <3>2
  <2> QED
    BY <1>1, <2>1, <2>2 DEF IInv, TypeOK
<1>3. AliasInOrder' /\ SeqGivenOnce' /\ NumbersUsed'
  BY <1>1 DEF IInv, TypeOK, AliasInOrder, SeqGivenOnce, NumbersUsed, Reading
<1> QED
  BY <1>1, <1>2, <1>3 DEF IInv

LEMMA NextIInv == ASSUME IInv, [Next]_vars PROVE IInv'
<1>1. CASE PollPending
  <2>1. /\ pendingPacket \in Packet /\ pendingPacket' = NoPacket
        /\ Return(pendingPacket)
        /\ UNCHANGED <<lineBuffer, nextSeq>>
    BY <1>1 DEF PollPending, IInv, TypeOK
  <2>2. /\ polled' = pendingPacket /\ given' \in [1..MaxSeq -> Nat]
        /\ pendingPacket.seq \in 1..MaxSeq
        /\ given'[pendingPacket.seq] = given[pendingPacket.seq] + 1
        /\ \A seq \in 1..MaxSeq \ {pendingPacket.seq} :
             given'[seq] = given[seq]
    BY <2>1, ReturnCounts
  <2>3. TypeOK'
    BY <2>1, <2>2 DEF IInv, TypeOK
  <2>4. pendingPacket.seq < nextSeq /\ given[pendingPacket.seq] = 0
    BY <1>1 DEF PollPending, IInv, NumbersUsed
  <2>5. AliasInOrder' /\ SeqGivenOnce' /\ NumbersUsed'
    BY <2>1, <2>2, <2>4
    DEF IInv, TypeOK, AliasInOrder, SeqGivenOnce, NumbersUsed
  <2> QED
    BY <2>3, <2>5 DEF IInv
<1>2. CASE PortDry
  BY <1>2, ReturnsNothing DEF PortDry, IInv, TypeOK
<1>3. ASSUME NEW char \in Chars, KeepChar(char) PROVE IInv'
  <2>1. lineBuffer' \in Seq(Chars) /\ Len(lineBuffer') < LineBufferLength
    BY <1>3, LineAssumption DEF KeepChar, Room, IInv, TypeOK
  <2> QED
    BY <1>3, <2>1
    DEF KeepChar, IInv, TypeOK, AliasInOrder, SeqGivenOnce, NumbersUsed
<1>4. CASE DropLongLine \/ SkipEmptyLine
  <2>1. /\ lineBuffer' \in Seq(Chars) /\ Len(lineBuffer') < LineBufferLength
        /\ UNCHANGED <<pendingPacket, nextSeq, polled, given>>
    BY <1>4, EmptyLineFits DEF DropLongLine, SkipEmptyLine, IInv, TypeOK
  <2> QED
    BY <2>1 DEF IInv, TypeOK, AliasInOrder, SeqGivenOnce, NumbersUsed
<1>5. CASE ParseSingleChar
  <2>1. lineBuffer[1] \in {"motion", "h", "e", "r", "?"}
    <3>1. lineBuffer \in Seq(Chars) /\ Len(lineBuffer) = 1
      BY <1>5 DEF ParseSingleChar, IsSingleChar, IInv, TypeOK
    <3>2. lineBuffer[1] \in Chars
      BY <3>1
    <3>3. lineBuffer[1] \notin {"digit", "other"}
      BY <1>5 DEF ParseSingleChar, IsSingleChar
    <3> QED
      BY <3>2, <3>3 DEF Chars
  <2>2. TypeOfChar(lineBuffer[1]) \in Types
    BY <2>1 DEF TypeOfChar, Types
  <2> QED
    BY <1>5, <2>2, ReturnsNext DEF ParseSingleChar, EndLine
<1>6. CASE ParseAlias
  <2> DEFINE heartbeat == [type |-> "Heartbeat", seq |-> nextSeq + 1]
             motion == [type |-> "CmdVel", seq |-> nextSeq]
  <2>1. /\ nextSeq' = nextSeq + 2 /\ nextSeq' \in 1..(MaxSeq + 1)
        /\ heartbeat \in Packet /\ motion \in Packet
        /\ heartbeat # NoPacket /\ motion # NoPacket
        /\ heartbeat.seq = nextSeq + 1 /\ motion.seq = nextSeq
    BY <1>6, LineAssumption
    DEF ParseAlias, Number, Packet, Types, NoPacket, IInv, TypeOK
  <2>2. /\ pendingPacket' = motion /\ polled' = heartbeat
        /\ given' \in [1..MaxSeq -> Nat] /\ nextSeq + 1 \in 1..MaxSeq
        /\ given'[nextSeq + 1] = given[nextSeq + 1] + 1
        /\ \A seq \in 1..MaxSeq \ {nextSeq + 1} : given'[seq] = given[seq]
        /\ lineBuffer' = <<>>
    <3>1. pendingPacket' = motion /\ Return(heartbeat) /\ lineBuffer' = <<>>
      BY <1>6 DEF ParseAlias, EndLine
    <3> HIDE DEF heartbeat, motion
    <3> QED
      BY <2>1, <3>1, ReturnCounts
  <2>3. TypeOK'
    <3> HIDE DEF heartbeat, motion
    <3> QED
      BY <2>1, <2>2, EmptyLineFits DEF IInv, TypeOK
  <2>4. AliasInOrder'
    BY <2>1, <2>2 DEF AliasInOrder
  <2>5. SeqGivenOnce' /\ NumbersUsed'
    <3> HIDE DEF heartbeat, motion
    <3>0. \A seq \in 1..MaxSeq :
            given[seq] <= 1 /\ (seq >= nextSeq => given[seq] = 0)
      BY DEF SeqGivenOnce, NumbersUsed, IInv
    <3>1. /\ nextSeq \in 1..MaxSeq /\ given[nextSeq] = 0
          /\ given[nextSeq + 1] = 0
      <4>1. nextSeq \in Nat /\ nextSeq >= 1 /\ MaxSeq \in Nat
        BY LineAssumption DEF IInv, TypeOK
      <4> QED
        BY <2>2, <3>0, <4>1
    <3>2. pendingPacket' # NoPacket /\ pendingPacket'.seq = nextSeq
      BY <2>1, <2>2
    <3>3. \A seq \in 1..MaxSeq :
            given'[seq] = IF seq = nextSeq + 1 THEN 1 ELSE given[seq]
      BY <2>2, <3>0, <3>1
    <3>4. SeqGivenOnce'
      BY <3>0, <3>3 DEF SeqGivenOnce
    <3>5. \A seq \in 1..MaxSeq : seq >= nextSeq' => given'[seq] = 0
      BY <2>1, <3>0, <3>1, <3>3
    <3>6. pendingPacket'.seq < nextSeq' /\ given'[pendingPacket'.seq] = 0
      BY <2>1, <3>1, <3>2, <3>3
    <3> QED
      BY <3>4, <3>5, <3>6 DEF NumbersUsed
  <2> QED
    BY <2>3, <2>4, <2>5 DEF IInv
<1>7. CASE RejectAlias
  BY <1>7, ReturnsNothing
  DEF RejectAlias, EndLine, Number
<1>8. CASE ParseStatusInterval
  <2>1. "SetStatusInterval" \in Types
    BY DEF Types
  <2> QED
    BY <1>8, <2>1, ReturnsNext DEF ParseStatusInterval, EndLine
<1>9. CASE RejectLine
  <2>1. /\ Reading /\ Return(NoPacket)
        /\ UNCHANGED pendingPacket /\ nextSeq' = nextSeq
        /\ lineBuffer' = <<>>
    BY <1>9 DEF RejectLine, EndLine
  <2>2. nextSeq <= MaxSeq + 1
    BY LineAssumption DEF IInv, TypeOK
  <2> QED
    BY <2>1, <2>2, ReturnsNothing
<1>10. CASE UNCHANGED vars
  BY <1>10 DEF vars, IInv, TypeOK, AliasInOrder, SeqGivenOnce, NumbersUsed
<1> QED
  BY <1>1, <1>2, <1>3, <1>4, <1>5, <1>6, <1>7, <1>8, <1>9, <1>10 DEF Next

LEMMA Invariant == Spec => []IInv
  BY InitIInv, NextIInv, PTL DEF Spec

(***************************************************************************)
(* The line buffer never overruns: it always has room for the terminating  *)
(* zero, whatever is typed.                                                *)
(***************************************************************************)
THEOREM TypeCorrect == Spec => []TypeOK
<1>1. IInv => TypeOK
  BY DEF IInv
<1> QED
  BY <1>1, Invariant, PTL

(***************************************************************************)
(* The motion of an alias follows its heartbeat without anything between.  *)
(***************************************************************************)
THEOREM AliasInOrderHolds == Spec => []AliasInOrder
<1>1. IInv => AliasInOrder
  BY DEF IInv
<1> QED
  BY <1>1, Invariant, PTL

(***************************************************************************)
(* No packet is handed out twice, not by the very next poll either, and no *)
(* number is given to two packets.                                         *)
(***************************************************************************)
THEOREM SeqGivenOnceHolds == Spec => []SeqGivenOnce
<1>1. IInv => SeqGivenOnce
  BY DEF IInv
<1> QED
  BY <1>1, Invariant, PTL
==============================================================================
