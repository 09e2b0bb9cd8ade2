-------------------------- MODULE MCMissionDatabase --------------------------
(* MissionDatabase with a few contents per file: good ones, ones that      *)
(* validation has to refuse, and ones whose values JSON confuses.          *)
EXTENDS MissionDatabase

Good == [object |-> TRUE, version |-> "good", section |-> "object",
         kernel |-> "absent", entries |-> {}, name |-> "absent",
         leaves |-> [key \in {} |-> "absent"], list |-> NoList]

Array(items) == [array |-> TRUE, items |-> items]

Commands(entries) == [Good EXCEPT !.entries = entries]
CmdVel(shape, names) == [key |-> "cmd_vel", shape |-> shape, names |-> names]

Safety(maxVx, list) ==
  [Good EXCEPT !.kernel = "object", !.leaves = [max_vx |-> maxVx],
               !.list = list]

NotAnObject ==
  [Safety("absent", NoList) EXCEPT !.object = FALSE, !.version = "absent",
                                   !.section = "absent", !.kernel = "absent"]

Mission(remote, list) ==
  [Good EXCEPT !.name = "demo", !.leaves = [remote |-> remote],
               !.list = list]

Board(name, driveControl) ==
  [Good EXCEPT !.name = name, !.leaves = [drive_control |-> driveControl]]

MCCandidates ==
  [commands |->
     {Commands({CmdVel("object", {"cmd_vel"})}),
      Commands({CmdVel("null", {})}),
      [Good EXCEPT !.section = "absent"]},
   telemetry |-> {Commands({[CmdVel("date", {}) EXCEPT !.key = "pico_hk"]})},
   safety |->
     {Safety("1", Array(<<"MANUAL", "2">>)),
      Safety("inf", Array(<<"MANUAL", "nan">>)),
      Safety("null", Array(<<"MANUAL", "null">>)),
      [Safety("absent", NoList) EXCEPT !.section = "date"], NotAnObject},
   mission |->
     {Mission("true", Array(<<"remote_manual_cmd_vel">>)),
      Mission("true", [NoList EXCEPT !.items = <<"remote_manual_cmd_vel">>])},
   board |->
     {Board("a", "true"), Board("b", "date"), Board("b", "empty"),
      Board("number", "true")}]

MCMissionFiles == <<"mission.yaml">>
MCBoardFiles == <<"board1.yaml", "board2.yaml">>
MCNameOrder == <<"a", "b">>
==============================================================================
