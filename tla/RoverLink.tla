------------------------------ MODULE RoverLink ------------------------------
(***************************************************************************)
(* The firmware of RoverFirmware behind a Bluetooth link that comes and    *)
(* goes, and on a board that may restart.  Its steps are taken over as     *)
(* they are; what the link adds is where the packets come from.  The       *)
(* firmware is told neither of the end of a link nor of the beginning of   *)
(* one: BleGattTransport never sets connected_ and registers no callback   *)
(* for it.  It only misses the heartbeats, and goes on with what the       *)
(* buffer still holds.                                                     *)
(*                                                                         *)
(* A central may write any packet whenever the link is up; OperatorView    *)
(* models the page that does.  The buffer holds the newest packet written  *)
(* (BleGattTransport), and nothing is typed at the serial port.            *)
(***************************************************************************)
EXTENDS RoverFirmware

VARIABLES
  link,       \* is a central connected?
  slot,       \* commandWriteBuffer, while commandWritePending
  \* History variables:
  outage,     \* ms since the link went down; stays at its limit
  slotStale,  \* since the packet in the buffer was written, the link has
              \*   been down longer than OutageLimit
  stale       \* the same of the active command, or the board has restarted
              \*   since

linkVars == <<link, slot, outage, slotStale, stale>>
allVars == <<vars, linkVars>>

\* The firmware keeps a command for the heartbeat timeout and up to three
\* loops: the one that reads the last heartbeat, the one that finds the
\* timeout, and the one between them.
OutageLimit == HeartbeatTimeout + 3 * MaxLoopMs

Kinds == {"cmd_vel", "emergency_stop", "heartbeat", "reset_estop"}
Packet == [kind : Kinds, cmd : BleCmds \cup {DefaultCmdVel}]
NoPacket == [kind |-> "none", cmd |-> DefaultCmdVel]

LinkTypeOK ==
  /\ TypeOK
  /\ link \in BOOLEAN
  /\ slot \in Packet \cup {NoPacket}
  /\ outage \in 0..(OutageLimit + 1)
  /\ slotStale \in BOOLEAN /\ stale \in BOOLEAN

LinkInit ==
  /\ Init
  /\ link = FALSE /\ slot = NoPacket
  /\ outage = 0 /\ slotStale = FALSE /\ stale = FALSE

------------------------------------------------------------------------------
(* The link                                                                *)

Connect ==
  /\ ~link
  /\ link' = TRUE /\ outage' = 0
  /\ UNCHANGED <<vars, slot, slotStale, stale>>

LinkLost ==
  /\ link
  /\ link' = FALSE
  /\ UNCHANGED <<vars, slot, outage, slotStale, stale>>

\* onCommandWrite: whatever was there is replaced.
OnCommandWrite(packet) ==
  /\ link
  /\ slot' = packet /\ slotStale' = FALSE
  /\ UNCHANGED <<vars, link, outage, stale>>

Write ==
  \/ \E cmd \in BleCmds : OnCommandWrite([kind |-> "cmd_vel", cmd |-> cmd])
  \/ \E kind \in Kinds \ {"cmd_vel"} :
       OnCommandWrite([kind |-> kind, cmd |-> DefaultCmdVel])

------------------------------------------------------------------------------
(* The firmware                                                            *)

\* poll returns the packet of the buffer, and it is handled.  If it was written
\* when poll had taken down the flag and not begun to parse, the flag is up
\* again and the packet is handled a second time.
HandlePacket ==
  /\ phase = "ble"
  /\ \/ slot.kind = "cmd_vel" /\ RefuseCmdVel /\ UNCHANGED stale
     \/ /\ slot.kind = "cmd_vel"
        /\ AcceptCmdVel(slot.cmd)
        /\ stale' = slotStale
     \/ slot.kind = "emergency_stop" /\ HandleEmergencyStop /\ UNCHANGED stale
     \/ slot.kind = "heartbeat" /\ HandleHeartbeat /\ UNCHANGED stale
     \/ slot.kind = "reset_estop" /\ HandleResetEstop /\ UNCHANGED stale
  /\ \/ slot' = NoPacket /\ slotStale' = FALSE
     \/ UNCHANGED <<slot, slotStale>>
  /\ UNCHANGED <<link, outage>>

Drained ==
  /\ TransportDrained
  /\ phase = "ble" => slot = NoPacket
  /\ UNCHANGED linkVars

RestOfLoop ==
  LoopBegin \/ SafetyStop \/ ApplyActiveCommand

TimePasses ==
  /\ Tick
  /\ outage' = IF link THEN 0
               ELSE IF outage <= OutageLimit THEN outage + 1 ELSE outage
  /\ stale' = (stale \/ outage' > OutageLimit)
  /\ slotStale' = (slotStale \/ (slot # NoPacket /\ outage' > OutageLimit))
  /\ UNCHANGED <<link, slot>>

\* Mutant: what was written before the restart is handled after it.
SetupKeepsCommand ==
  /\ clock' = 0 /\ nowMs' = 0 /\ loopMs' = 0 /\ phase' = "idle"
  /\ lastHeartbeatMs' = 0 /\ hbAge' = 0
  /\ latched' = FALSE
  /\ UNCHANGED <<activeCmdVel, hasActiveCmdVel>>
  /\ activeCmdReceivedAtMs' = 0 /\ cmdAge' = 0
  /\ motor' = "brake"
  /\ expired' = FALSE /\ owesStop' = FALSE
\* roverFirmwareSetup, with every variable at its initialiser.
Setup ==
  /\ clock' = 0 /\ nowMs' = 0 /\ loopMs' = 0 /\ phase' = "idle"
  /\ lastHeartbeatMs' = 0 /\ hbAge' = 0
  /\ latched' = FALSE
  /\ activeCmdVel' = DefaultCmdVel /\ hasActiveCmdVel' = FALSE
  /\ activeCmdReceivedAtMs' = 0 /\ cmdAge' = 0
  /\ motor' = "brake"
  /\ expired' = FALSE /\ owesStop' = FALSE

\* Power fails and comes back, or the Pico is reset.
Restart ==
  /\ Setup
  /\ link' = FALSE /\ slot' = NoPacket /\ slotStale' = FALSE
  /\ outage' = IF link THEN 0 ELSE outage
  /\ stale' = TRUE

------------------------------------------------------------------------------
LinkNext ==
  \/ Connect
  \/ LinkLost
  \/ Write
  \/ HandlePacket
  \/ Drained
  \/ RestOfLoop /\ UNCHANGED linkVars
  \/ TimePasses
  \/ Restart

LinkSpec == LinkInit /\ [][LinkNext]_allVars

------------------------------------------------------------------------------
(* Properties                                                              *)

(***************************************************************************)
(* Losing the link ends the command without the firmware being told: after *)
(* an outage longer than OutageLimit, whatever heartbeat or command was    *)
(* still in the buffer when it began and however soon after it heartbeats  *)
(* arrive again, the wheels turn only for a command written since.  A      *)
(* restart ends the command too.                                           *)
(***************************************************************************)
OutageEndsCommand == motor = "drive" => ~stale
==============================================================================
