----------------------- MODULE MCCommandAuthorization -----------------------
(* Every combination of the mission permissions, with a board and policy   *)
(* that allow almost everything or little; packets of every kind the guards *)
(* tell apart, and the defects, mismatches and speeds one at a time.       *)
EXTENDS CommandAuthorization

Registry == MsgTypes \ (FixedSafe \cup {"unknown"})

MCConfigs ==
  {[commands |-> known \ Reports, telemetry |-> known \cap Reports,
    uplink |-> u, manual |-> m, override |-> o, competition |-> k,
    limited |-> rich, maxVx |-> 1, maxWz |-> IF rich THEN 2 ELSE 1,
    maxTtl |-> 2,
    releaseModes |-> IF rich THEN {"MANUAL", "GOAL"} ELSE {"GOAL"},
    capabilities |-> IF rich THEN Capabilities \ {"local_telemetry"}
                     ELSE {"drive_control"}] :
     known \in {Registry, {"cmd_vel", "pico_hk"}},
     u \in BOOLEAN, m \in BOOLEAN, o \in BOOLEAN, k \in BOOLEAN,
     rich \in BOOLEAN}

Sound(type) ==
  [msgType |-> type, defects |-> {}, mismatches |-> {}, numeric |-> TRUE,
   vx |-> 1, wz |-> -2, ttl |-> 2]

Types == {"emergency_stop", "heartbeat", "cmd_vel", "manual_override",
          "arm_release", "fire_nichrome", "pico_hk", "cds_reading",
          "reset_estop", "unknown"}

MCPackets ==
  {Sound(type) : type \in Types}
    \cup {[Sound(type) EXCEPT !.defects = {"ttl_ms"}] :
            type \in {"emergency_stop", "cmd_vel"}}
    \cup {[Sound(type) EXCEPT !.mismatches = {"mission_db"}] :
            type \in {"emergency_stop", "cmd_vel"}}
    \cup {[Sound("cmd_vel") EXCEPT !.vx = -2],
          [Sound("cmd_vel") EXCEPT !.wz = 3],
          [Sound("cmd_vel") EXCEPT !.ttl = 3],
          [Sound("cmd_vel") EXCEPT !.numeric = FALSE]}

MCRequests ==
  [packet : MCPackets, origin : {"local_phone", "cloud", "system"},
   mode : {"MANUAL", "GNSS_GUIDANCE"}]
==============================================================================
