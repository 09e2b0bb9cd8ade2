---------------------------- MODULE MockTransport ----------------------------
(***************************************************************************)
(* The serial debug transport: poll assembles a line from the characters   *)
(* the serial port has received and turns it into a packet; an alias line  *)
(* ("hw") yields two, the second of which waits for the next poll.         *)
(*                                                                         *)
(* The characters come from the operator: any character may be the next    *)
(* one, and the port may run dry between any two.  A step reads one        *)
(* character, or ends a poll, or both.                                     *)
(***************************************************************************)
EXTENDS Naturals, Sequences

CONSTANTS
  LineBufferLength,   \* kLineBufferLength
  StatusDigitCount,   \* kStatusDigitCount
  MaxSeq              \* bound: how many packets are numbered

ASSUME LineAssumption ==
  /\ LineBufferLength \in Nat \ {0, 1} /\ StatusDigitCount \in Nat \ {0}
  /\ MaxSeq \in Nat \ {0, 1}

\* "motion" stands for w, s, a, d, x and n, "other" for what no line holds.
Chars == {"motion", "h", "e", "r", "?", "digit", "other"}
Types == {"CmdVel", "Heartbeat", "EmergencyStop", "ResetEstop",
          "PrintStatus", "SetStatusInterval"}

Packet == [type : Types, seq : 1..MaxSeq]
NoPacket == [type |-> "None", seq |-> 0]

VARIABLES
  lineBuffer,       \* lineBuffer_ up to lineLength_
  pendingPacket,    \* pendingPacket_, NoPacket unless hasPendingPacket_
  nextSeq,          \* nextSeq_
  polled,           \* the packet poll returned last, NoPacket for false
  given             \* history: how often a packet of each number was
                    \*   handed out

vars == <<lineBuffer, pendingPacket, nextSeq, polled, given>>

Init ==
  /\ lineBuffer = <<>>
  /\ pendingPacket = NoPacket
  /\ nextSeq = 1
  /\ polled = NoPacket
  /\ given = [seq \in 1..MaxSeq |-> 0]

------------------------------------------------------------------------------
\* poll returns a packet, or false.
Return(packet) ==
  /\ polled' = packet
  /\ given' = IF packet = NoPacket THEN given
              ELSE [given EXCEPT ![packet.seq] = @ + 1]

\* Mutant: the packet stays pending.
PollPendingAgain ==
  /\ pendingPacket # NoPacket
  /\ Return(pendingPacket)
  /\ UNCHANGED <<lineBuffer, pendingPacket, nextSeq>>
PollPending ==
  /\ pendingPacket # NoPacket
  /\ Return(pendingPacket)
  /\ pendingPacket' = NoPacket
  /\ UNCHANGED <<lineBuffer, nextSeq>>

\* Mutant: the port is read before the pending packet is looked at.
ReadingFirst == TRUE
Reading == pendingPacket = NoPacket

PortDry ==
  /\ Reading
  /\ Return(NoPacket)
  /\ UNCHANGED <<lineBuffer, pendingPacket, nextSeq>>

\* Mutant: no room is kept for the terminating zero.
RoomWithoutTerminator == Len(lineBuffer) < LineBufferLength
Room == Len(lineBuffer) < LineBufferLength - 1

KeepChar(char) ==
  /\ Reading /\ Room
  /\ lineBuffer' = Append(lineBuffer, char)
  /\ UNCHANGED <<pendingPacket, nextSeq, polled, given>>

\* "line too long": what was read is dropped, and this character with it.
DropLongLine ==
  /\ Reading /\ ~Room
  /\ lineBuffer' = <<>>
  /\ UNCHANGED <<pendingPacket, nextSeq, polled, given>>

------------------------------------------------------------------------------
(* A line ends                                                             *)

\* A line end at the very beginning of a line is skipped.
SkipEmptyLine ==
  /\ Reading /\ lineBuffer = <<>>
  /\ UNCHANGED <<lineBuffer, pendingPacket, nextSeq, polled, given>>

EndLine ==
  /\ Reading /\ lineBuffer # <<>>
  /\ lineBuffer' = <<>>

TypeOfChar(char) ==
  CASE char = "motion" -> "CmdVel"
    [] char = "h" -> "Heartbeat"
    [] char = "e" -> "EmergencyStop"
    [] char = "r" -> "ResetEstop"
    [] char = "?" -> "PrintStatus"

IsSingleChar ==
  Len(lineBuffer) = 1 /\ lineBuffer[1] \notin {"digit", "other"}

IsAlias == Len(lineBuffer) = 2 /\ lineBuffer[1] = "h"

IsStatusInterval ==
  /\ Len(lineBuffer) = StatusDigitCount + 1
  /\ lineBuffer[1] = "?"
  /\ \A i \in 2..Len(lineBuffer) : lineBuffer[i] = "digit"

\* nextPacket, unless the bound is reached.
Number(packets) ==
  /\ nextSeq + packets <= MaxSeq + 1
  /\ nextSeq' = nextSeq + packets

ParseSingleChar ==
  /\ EndLine /\ IsSingleChar
  /\ Number(1)
  /\ Return([type |-> TypeOfChar(lineBuffer[1]), seq |-> nextSeq])
  /\ UNCHANGED pendingPacket

\* The motion packet is built, and numbered, before the heartbeat.
ParseAlias ==
  /\ EndLine /\ IsAlias /\ lineBuffer[2] = "motion"
  /\ Number(2)
  /\ pendingPacket' = [type |-> "CmdVel", seq |-> nextSeq]
  /\ Return([type |-> "Heartbeat", seq |-> nextSeq + 1])

\* An alias without a motion is rejected, but has used up a number.
RejectAlias ==
  /\ EndLine /\ IsAlias /\ lineBuffer[2] # "motion"
  /\ Number(1)
  /\ Return(NoPacket)
  /\ UNCHANGED pendingPacket

ParseStatusInterval ==
  /\ EndLine /\ ~IsAlias /\ IsStatusInterval
  /\ Number(1)
  /\ Return([type |-> "SetStatusInterval", seq |-> nextSeq])
  /\ UNCHANGED pendingPacket

RejectLine ==
  /\ EndLine /\ ~IsSingleChar /\ ~IsAlias /\ ~IsStatusInterval
  /\ Return(NoPacket)
  /\ UNCHANGED <<pendingPacket, nextSeq>>

Next ==
  \/ PollPending
  \/ PortDry
  \/ \E char \in Chars : KeepChar(char)
  \/ DropLongLine
  \/ SkipEmptyLine
  \/ ParseSingleChar
  \/ ParseAlias
  \/ RejectAlias
  \/ ParseStatusInterval
  \/ RejectLine

Spec == Init /\ [][Next]_vars

------------------------------------------------------------------------------
(* Properties                                                              *)

\* The line always leaves room for its terminating zero.
TypeOK ==
  /\ lineBuffer \in Seq(Chars) /\ Len(lineBuffer) < LineBufferLength
  /\ pendingPacket \in Packet \cup {NoPacket}
  /\ nextSeq \in 1..(MaxSeq + 1)
  /\ polled \in Packet \cup {NoPacket}
  /\ given \in [1..MaxSeq -> Nat]

(***************************************************************************)
(* The motion of an alias comes right behind its heartbeat: no other       *)
(* packet comes between, and poll never returns false with the motion      *)
(* still waiting, which would have it obeyed in a later loop, after a      *)
(* heartbeat that is no longer its own.                                    *)
(***************************************************************************)
AliasInOrder ==
  pendingPacket # NoPacket =>
    polled = [type |-> "Heartbeat", seq |-> pendingPacket.seq + 1]

(***************************************************************************)
(* No packet is handed out twice, be it by the very next poll or later,    *)
(* and no number is used for two packets, although the numbers do not come *)
(* out in order.                                                           *)
(***************************************************************************)
SeqGivenOnce == \A seq \in 1..MaxSeq : given[seq] <= 1
==============================================================================
