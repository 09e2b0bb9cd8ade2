------------------------ MODULE CommandAuthorization ------------------------
(***************************************************************************)
(* CommandAuthorizationPipeline and its guards (envelope and schema        *)
(* hashes, mission profile, safety policy, board profile), evaluated for   *)
(* one packet after the other, and the two ways the web app uses it:       *)
(* authorizeAndSend, and sendResetEstop, which does not.                   *)
(*                                                                         *)
(* The guards keep no state.  What can go wrong is the interplay of their  *)
(* rules: an exemption that lets too much through, a permission that turns *)
(* into a prohibition.                                                     *)
(***************************************************************************)
EXTENDS Integers, FiniteSets

CONSTANTS
  Configs,      \* the loaded mission databases, see Config
  Requests      \* the requests made of the pipeline, see Request

FixedSafe == {"emergency_stop", "heartbeat", "basic_status", "disconnect",
              "read_schema_info"}
Manual == {"cmd_vel", "manual_override"}
Release == {"fire_nichrome", "arm_release"}
Reports == {"pico_hk", "release_status", "local_log_status", "cds_reading",
            "limit_switch"}
MsgTypes == FixedSafe \cup Manual \cup Release \cup Reports
              \cup {"reset_estop", "unknown"}

Remote == {"remote_ground", "cloud"}
Automatic == {"system", "phone_autonomy"}
Origins == Remote \cup Automatic \cup {"local_phone"}

Autonomous == {"AUTO_ARMED", "GNSS_GUIDANCE", "CONE_SEARCH",
               "CAM_VISUAL_SERVOING"}
Modes == Autonomous \cup {"IDLE", "MANUAL", "GOAL", "SAFE_STOP",
                          "MANUAL_OVERRIDE", "ABORT"}

Capabilities == {"drive_control", "release_mechanism", "local_telemetry",
                 "release_detection", "local_logging", "external_sensor_if",
                 "safety_supervisor"}

HashFields == {"core_protocol", "mission_db", "board_profile"}

\* defects: the envelope fields that are missing or ill-formed; mismatches:
\* the hashes that differ from the loaded ones; numeric: vx, wz are numbers.
Packet == [msgType : MsgTypes, defects : SUBSET {"seq", "ttl_ms", "schema"},
           mismatches : SUBSET HashFields, numeric : BOOLEAN,
           vx : Int, wz : Int, ttl : Nat]

Request == [packet : Packet, origin : Origins, mode : Modes]

Config ==
  [commands : SUBSET MsgTypes, telemetry : SUBSET MsgTypes,
   uplink : BOOLEAN,           \* remote_uplink_allowed
   manual : BOOLEAN,           \* remote_manual_cmd_allowed
   override : BOOLEAN,         \* manual_override_allowed
   competition : BOOLEAN,      \* remote_manual_cmd_vel is disabled
   limited : BOOLEAN,          \* the three limits are there
   maxVx : Nat, maxWz : Nat, maxTtl : Nat,
   releaseModes : SUBSET Modes,
   capabilities : SUBSET Capabilities]

ASSUME AuthorizationAssumption ==
  Configs \subseteq Config /\ Requests \subseteq Request

Stages == {"packet_admission", "mission_profile", "safety_policy",
           "board_profile", "authorized"}

VARIABLES
  config,    \* what the pipeline was given
  request,   \* the request evaluated last
  stage,     \* the stage at which it was decided
  written    \* what the last step wrote to the link: the packet's type and
             \*   whether the pipeline had authorized it

vars == <<config, request, stage, written>>

------------------------------------------------------------------------------
(* The guards                                                              *)

\* PacketEnvelopeValidator.
EnvelopeValid(p) == p.defects = {}

KnownMessage(type, c) == type \in FixedSafe \cup c.commands \cup c.telemetry

HashesMatch(p) == p.mismatches = {}

\* Mutant: unknown types are refused before the fixed safe ones are let pass.
SchemaHashAllowsRegistered(p, c) ==
  /\ p.msgType \in c.commands \cup c.telemetry
  /\ HashesMatch(p) \/ p.msgType \in FixedSafe
SchemaHashAllows(p, c) ==
  /\ KnownMessage(p.msgType, c)
  /\ HashesMatch(p) \/ p.msgType \in FixedSafe

Admitted(p, c) == EnvelopeValid(p) /\ SchemaHashAllows(p, c)

IsManualOverride(mode) == mode \in Autonomous \cup {"MANUAL_OVERRIDE"}

\* Mutants: the competition rule needs an override mode; an allowed override
\* is demanded instead of an override being allowed; what no rule forbids is
\* allowed.
MissionAllowsIdleDrive(r, c) ==
  LET manual == r.packet.msgType \in Manual
      remote == r.origin \in Remote
  IN  /\ remote => c.uplink
      /\ manual => c.manual
      /\ manual /\ IsManualOverride(r.mode) => c.override /\ ~c.competition
      /\ manual \/ remote \/ r.origin \in Automatic
MissionAllowsOverrideOnly(r, c) ==
  LET manual == r.packet.msgType \in Manual
      remote == r.origin \in Remote
  IN  /\ remote => c.uplink
      /\ manual => c.manual
      /\ manual => IsManualOverride(r.mode) = c.override
      /\ remote /\ manual => ~c.competition
      /\ manual \/ remote \/ r.origin \in Automatic
MissionAllowsByDefault(r, c) ==
  LET manual == r.packet.msgType \in Manual
      remote == r.origin \in Remote
  IN  /\ remote => c.uplink
      /\ manual => c.manual
      /\ manual /\ IsManualOverride(r.mode) => c.override
      /\ remote /\ manual => ~c.competition
MissionAllows(r, c) ==
  LET manual == r.packet.msgType \in Manual
      remote == r.origin \in Remote
  IN  /\ remote => c.uplink
      /\ manual => c.manual
      /\ manual /\ IsManualOverride(r.mode) => c.override
      /\ remote /\ manual => ~c.competition
      /\ manual \/ remote \/ r.origin \in Automatic

WithinLimit(value, limit) == -limit <= value /\ value <= limit

CmdVelIsSafe(p, c) ==
  /\ c.limited /\ p.numeric
  /\ WithinLimit(p.vx, c.maxVx) /\ WithinLimit(p.wz, c.maxWz)
  /\ p.ttl <= c.maxTtl

ReleaseIsSafe(r, c) == r.mode \in c.releaseModes

SafetyAllows(r, c) ==
  \/ r.packet.msgType = "cmd_vel" /\ CmdVelIsSafe(r.packet, c)
  \/ r.packet.msgType \in Release /\ ReleaseIsSafe(r, c)

\* The capabilities any one of which a board needs for a message.
SufficientCapabilities(type) ==
  CASE type = "cmd_vel" -> {"drive_control"}
    [] type \in Release -> {"release_mechanism"}
    [] type = "pico_hk" -> {"local_telemetry", "safety_supervisor"}
    [] type \in {"release_status", "limit_switch"} -> {"release_detection"}
    [] type = "local_log_status" -> {"local_logging"}
    [] type = "cds_reading" -> {"external_sensor_if"}
    [] OTHER -> {}

BoardAllows(r, c) ==
  SufficientCapabilities(r.packet.msgType) \cap c.capabilities # {}

\* evaluate: the stage that decides.
Evaluate(r, c) ==
  IF ~Admitted(r.packet, c) THEN "packet_admission"
  ELSE IF r.packet.msgType \in FixedSafe THEN "authorized"
  ELSE IF ~MissionAllows(r, c) THEN "mission_profile"
  ELSE IF ~SafetyAllows(r, c) THEN "safety_policy"
  ELSE IF ~BoardAllows(r, c) THEN "board_profile"
  ELSE "authorized"

------------------------------------------------------------------------------
(* The callers                                                             *)

\* No normal command.
NothingWritten == [msgType |-> "heartbeat", authorized |-> TRUE]

Init ==
  /\ config \in Configs
  /\ request \in Requests
  /\ stage = Evaluate(request, config)
  /\ written = NothingWritten

Decide(r) ==
  /\ request' = r
  /\ stage' = Evaluate(r, config)
  /\ UNCHANGED config

\* Any caller of the pipeline.
Authorize(r) == Decide(r) /\ written' = NothingWritten

\* The web app: only what is authorized is written.
AuthorizeAndSend(r) ==
  /\ r.origin = "local_phone" /\ r.mode = "MANUAL"
  /\ Decide(r)
  /\ written' = IF stage' = "authorized"
                THEN [msgType |-> r.packet.msgType, authorized |-> TRUE]
                ELSE NothingWritten

SendResetEstop ==
  /\ written' = [msgType |-> "reset_estop", authorized |-> FALSE]
  /\ UNCHANGED <<config, request, stage>>

Next ==
  \/ \E r \in Requests : Authorize(r) \/ AuthorizeAndSend(r)
  \/ SendResetEstop

Spec == Init /\ [][Next]_vars

------------------------------------------------------------------------------
(* Properties                                                              *)

\* The web app speaks for the operator at the phone, whom no rule lets do
\* more than drive.
Writable == FixedSafe \cup {"cmd_vel", "reset_estop"}

TypeOK ==
  /\ config \in Configs /\ request \in Requests /\ stage \in Stages
  /\ written \in [msgType : Writable, authorized : BOOLEAN]

(***************************************************************************)
(* An emergency stop with a valid envelope is authorized whatever mission  *)
(* database is loaded: with other hashes, a registry that does not know    *)
(* it, no permissions, any origin and any mode.                            *)
(***************************************************************************)
EstopAlwaysAuthorized ==
  request.packet.msgType = "emergency_stop" /\ request.packet.defects = {}
    => stage = "authorized"

(***************************************************************************)
(* A single differing hash stops every packet but the fixed safe ones.     *)
(***************************************************************************)
MismatchStopsCommands ==
  request.packet.mismatches # {} /\ stage = "authorized"
    => request.packet.msgType \in FixedSafe

(***************************************************************************)
(* Under the competition profile nobody drives the rover from remote,      *)
(* in whatever mode and whatever the other permissions say.                *)
(***************************************************************************)
CompetitionIsAutonomous ==
  config.competition /\ request.origin \in Remote /\ stage = "authorized"
    => request.packet.msgType \notin Manual

\* c allows everything d allows: no permission of d is missing in c.
MorePermissive(c, d) ==
  /\ d.commands \subseteq c.commands /\ d.telemetry \subseteq c.telemetry
  /\ d.uplink => c.uplink
  /\ d.manual => c.manual
  /\ d.override => c.override
  /\ c.competition => d.competition
  /\ d.limited => /\ c.limited /\ c.maxVx >= d.maxVx
                  /\ c.maxWz >= d.maxWz /\ c.maxTtl >= d.maxTtl
  /\ d.releaseModes \subseteq c.releaseModes
  /\ d.capabilities \subseteq c.capabilities

(***************************************************************************)
(* A permission never works as a prohibition: what one mission database    *)
(* authorizes, one that permits more authorizes too.                       *)
(***************************************************************************)
PermissionsOnlyPermit ==
  stage = "authorized" =>
    \A c \in Configs :
      MorePermissive(c, config) => Evaluate(request, c) = "authorized"

==============================================================================
