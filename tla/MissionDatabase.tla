--------------------------- MODULE MissionDatabase ---------------------------
(***************************************************************************)
(* The mission database: loadMissionDb reads a directory of YAML files,    *)
(* validateMissionDb tells whether it may be used, hashMissionDb condenses *)
(* it to the three hashes by which two nodes know that they use the same   *)
(* one, and CommandRegistry and the guards take from it what they decide   *)
(* by.                                                                     *)
(*                                                                         *)
(* The files are listed and read one by one, in no fixed order; somebody   *)
(* may replace, add or remove files meanwhile, so that what is loaded need *)
(* never have been on the disk as a whole.                                 *)
(*                                                                         *)
(* A value of a file is one of Leaves, the values that JSON text or a      *)
(* guard tells apart or confuses.  SHA-256 is taken to be injective: a     *)
(* hash is the canonical value it is computed from.                        *)
(***************************************************************************)
EXTENDS Naturals, Sequences, SequencesExt, FiniteSets

CONSTANTS
  Candidates,     \* Candidates[kind]: the definitions a file of that kind
                  \*   may hold
  MissionFiles,   \* the names *.yaml in missions/, in the order of
  BoardFiles,     \*   localeCompare; likewise in boards/
  NameOrder,      \* the board names, in the order of localeCompare, which
                  \*   is taken to tell any two of them apart
  MaxEdits        \* bound: how often a file is changed

CoreFiles == {"commands", "telemetry", "safety"}
\* Mutant: the mission profiles are looked for among the boards.
DirectoryOfBoards == [missions |-> BoardFiles, boards |-> BoardFiles]
DirectoryOf == [missions |-> MissionFiles, boards |-> BoardFiles]
Directories == {"missions", "boards"}
Files == CoreFiles \cup ToSet(MissionFiles) \cup ToSet(BoardFiles)
Kind(f) == IF f \in CoreFiles THEN f
           ELSE IF f \in ToSet(MissionFiles) THEN "mission" ELSE "board"

\* Leaves: a YAML value is true, false, a number, infinite, not a number,
\* null, a date, an empty object, or the key is not there.
Leaves == {"true", "false", "1", "2", "inf", "nan", "null", "date", "empty",
           "absent"}
Shapes == {"object", "date", "scalar", "null", "absent"}

\* An entry of commands or telemetry: its key, what its value is, and the
\* strings among the value's name and msg_type.
Entry == [key : STRING, shape : Shapes, names : SUBSET STRING]

\* A value that the guards take for a list of strings, if it is an array.
\* Its items are strings, where they are not Leaves; any other value is its
\* only item.
List == [array : BOOLEAN, items : Seq(STRING)]
NoList == [array |-> FALSE, items |-> <<"absent">>]

\* The content of a file.  section is the part the kind of file requires
\* (commands, telemetry, policy_defaults, mission_profile, board_profile),
\* kernel is fixed_safety_kernel; entries, name, leaves and list are what
\* the section holds, leaves a function from the keys the guards read, list
\* the release_allowed_modes of a policy or a mission profile's
\* disabled_capabilities_in_competition.  "absent" and "number" as a name
\* are not strings.
Definition(keys) ==
  [object : BOOLEAN, version : {"good", "bad", "absent"}, section : Shapes,
   kernel : Shapes, entries : SUBSET Entry, name : STRING,
   leaves : [keys -> Leaves], list : List]

\* Only an object holds anything.
WellFormed(d) ==
  /\ ~d.object => /\ d.section = "absent" /\ d.kernel = "absent"
                  /\ d.version = "absent"
  /\ d.section # "object" => /\ d.entries = {} /\ d.name = "absent"
                             /\ d.list = NoList
                             /\ \A key \in DOMAIN d.leaves :
                                  d.leaves[key] = "absent"

ASSUME DatabaseAssumption ==
  /\ MaxEdits \in Nat
  /\ \A kind \in CoreFiles \cup {"mission", "board"} :
       /\ Candidates[kind] # {}
       /\ \A d \in Candidates[kind] :
            d \in Definition(DOMAIN d.leaves) /\ WellFormed(d)
  /\ MissionFiles \in Seq(STRING) /\ BoardFiles \in Seq(STRING)
  /\ ToSet(MissionFiles) \cap ToSet(BoardFiles) = {}
  /\ CoreFiles \cap (ToSet(MissionFiles) \cup ToSet(BoardFiles)) = {}
  /\ NameOrder \in Seq(STRING)
  /\ \A d \in Candidates["board"] :
       d.name \in ToSet(NameOrder) \cup {"absent", "number", ""}

VARIABLES
  disk,      \* the files that are there, with their content
  edits,     \* how often a file was changed
  state,     \* of the load: "loading", "loaded" or "rejected"
  listed,    \* the directories listed so far, with their file names
  content    \* the files read so far, with their content

loadVars == <<disk, edits, state, listed, content>>

------------------------------------------------------------------------------
(* validateMissionDb                                                       *)

\* A Date is an object to isRecord.
\* Mutant: null is an object too, as typeof has it.
IsRecordOrNull(shape) == shape \in {"object", "date", "null"}
IsRecord(shape) == shape \in {"object", "date"}

ValidSchemaVersion(d) == d.object /\ d.version = "good"

NonEmptyString(name) == name \notin {"absent", "number", ""}

ReadRecordProperty(d, property) == d.object /\ IsRecord(property)

ValidNamedDefinitionMap(entries) ==
  /\ entries # {}
  /\ \A entry \in entries : entry.key # "" /\ IsRecord(entry.shape)

\* validateCommandsDefinition and validateTelemetryDefinition
ValidNamedDefinitions(d) ==
  /\ ValidSchemaVersion(d) /\ ReadRecordProperty(d, d.section)
  /\ ValidNamedDefinitionMap(d.entries)

ValidSafetyDefinition(d) ==
  /\ ValidSchemaVersion(d)
  /\ ReadRecordProperty(d, d.kernel) /\ ReadRecordProperty(d, d.section)

\* validateMissionProfileDefinition and validateBoardProfileDefinition
ValidProfile(d) ==
  /\ ValidSchemaVersion(d) /\ ReadRecordProperty(d, d.section)
  /\ NonEmptyString(d.name)

Valid(db) ==
  /\ ValidNamedDefinitions(db.commands)
  /\ ValidNamedDefinitions(db.telemetry)
  /\ ValidSafetyDefinition(db.safety)
  /\ \A i \in DOMAIN db.missionProfiles : ValidProfile(db.missionProfiles[i])
  /\ \A i \in DOMAIN db.boardProfiles : ValidProfile(db.boardProfiles[i])

------------------------------------------------------------------------------
(* hashMissionDb                                                           *)

\* JSON.stringify has no infinity and no NaN, and toCanonicalValue takes a
\* Date, whose fields are not enumerable, for an empty object.
Json(leaf) ==
  CASE leaf \in {"inf", "nan"} -> "null"
    [] leaf = "date" -> "empty"
    [] OTHER -> leaf

JsonShape(shape) == IF shape = "date" THEN "object" ELSE shape

JsonList(list) ==
  [list EXCEPT !.items = [i \in DOMAIN list.items |-> Json(list.items[i])]]

Canonical(d) ==
  [d EXCEPT !.leaves = [key \in DOMAIN d.leaves |-> Json(d.leaves[key])],
            !.list = JsonList(d.list),
            !.section = JsonShape(d.section),
            !.kernel = JsonShape(d.kernel),
            !.entries = {[e EXCEPT !.shape = JsonShape(e.shape)] :
                           e \in d.entries}]

CanonicalArray(ds) == [i \in DOMAIN ds |-> Canonical(ds[i])]

NameRank(name) == CHOOSE i \in DOMAIN NameOrder : NameOrder[i] = name

\* Where the sort puts board i: behind those of smaller names, and those of
\* the same name that stood before it.
Place(boards, i) ==
  Cardinality({j \in DOMAIN boards :
    LET a == NameRank(boards[j].name)
        b == NameRank(boards[i].name)
    IN  a < b \/ (a = b /\ j <= i)})

\* Mutant: the profiles stay in the order of their files.
NormalizeBoardProfilesNot(boards) == boards
NormalizeBoardProfiles(boards) ==
  [k \in DOMAIN boards |->
     boards[CHOOSE i \in DOMAIN boards : Place(boards, i) = k]]

HashMissionDb(db) ==
  LET core == <<Canonical(db.commands), Canonical(db.telemetry),
                Canonical(db.safety)>>
  IN  [core_protocol_hash |-> core,
       mission_db_hash |-> <<core, CanonicalArray(db.missionProfiles),
                             CanonicalArray(db.boardProfiles)>>,
       board_profile_hash |->
         CanonicalArray(NormalizeBoardProfiles(db.boardProfiles))]

\* The sort compares names as soon as there are two profiles.
HasStringName(d) ==
  d.object /\ d.section = "object" /\ d.name \notin {"absent", "number"}
HashThrows(db) ==
  /\ Len(db.boardProfiles) > 1
  /\ \E i \in DOMAIN db.boardProfiles : ~HasStringName(db.boardProfiles[i])

------------------------------------------------------------------------------
(* CommandRegistry and the guards                                          *)

CollectMessageTypes(d) ==
  (UNION {{entry.key} \cup entry.names : entry \in d.entries}) \ {""}

RegistryThrows(d) ==
  \/ ~d.object \/ d.section \in {"absent", "null"}
  \/ \E entry \in d.entries : entry.shape = "null"

Throws(db) ==
  \/ HashThrows(db)
  \/ RegistryThrows(db.commands) \/ RegistryThrows(db.telemetry)
  \/ ~db.safety.object   \* "policy_defaults" in value
  \/ \E i \in DOMAIN db.missionProfiles : ~db.missionProfiles[i].object
  \/ \E i \in DOMAIN db.boardProfiles : ~db.boardProfiles[i].object

\* Mutant: any number will do.
IsLimitAtAll(leaf) == leaf \in {"1", "2", "inf"}
\* typeof limit === "number" && Number.isFinite(limit)
IsLimit(leaf) == leaf \in {"1", "2"}

\* SafetyPolicyGuard's limits; with one of them missing cmd_vel is refused.
Limits(safety) ==
  IF \A key \in DOMAIN safety.leaves : IsLimit(safety.leaves[key])
  THEN safety.leaves ELSE [key \in {} |-> "absent"]

\* What is === true: the permissions of a mission profile, the capabilities
\* of a board profile.
Granted(profile) ==
  {key \in DOMAIN profile.leaves : profile.leaves[key] = "true"}

\* What includes finds in a list: of anything but an array nothing.  The
\* empty string is never asked for.
Listed(list) == IF list.array THEN ToSet(list.items) \ (Leaves \cup {""})
                ELSE {}

\* A mission profile under which no remote origin drives the rover.
RemoteDriveDisabled(profile) ==
  "remote_manual_cmd_vel" \in Listed(profile.list)

\* Everything CommandAuthorization's guards decide by.
Rules(db) ==
  [commands |-> CollectMessageTypes(db.commands),
   telemetry |-> CollectMessageTypes(db.telemetry),
   limits |-> Limits(db.safety),
   releaseModes |-> Listed(db.safety.list),
   permissions |-> [i \in DOMAIN db.missionProfiles |->
                      <<db.missionProfiles[i].name,
                        Granted(db.missionProfiles[i]),
                        RemoteDriveDisabled(db.missionProfiles[i])>>],
   capabilities |-> [i \in DOMAIN db.boardProfiles |->
                       <<db.boardProfiles[i].name,
                         Granted(db.boardProfiles[i])>>]]

------------------------------------------------------------------------------
(* loadMissionDb                                                           *)

\* Some of these files, each with one of the contents its kind may have.
Contents(kind, files) ==
  UNION {[there -> Candidates[kind]] : there \in SUBSET files}

LoadInit ==
  /\ \E commands \in Candidates["commands"],
        telemetry \in Candidates["telemetry"],
        safety \in Candidates["safety"],
        missions \in Contents("mission", ToSet(MissionFiles)),
        boards \in Contents("board", ToSet(BoardFiles)) :
       disk = [f \in CoreFiles \cup DOMAIN missions \cup DOMAIN boards |->
                 CASE f \in DOMAIN missions -> missions[f]
                   [] f \in DOMAIN boards -> boards[f]
                   [] f = "commands" -> commands
                   [] f = "telemetry" -> telemetry
                   [] OTHER -> safety]
  /\ edits = 0
  /\ state = "loading"
  /\ listed = [directory \in {} |-> {}]
  /\ content = [f \in {} |-> disk]

With(files, f, d) ==
  [g \in DOMAIN files \cup {f} |-> IF g = f THEN d ELSE files[g]]

Write(f, d) ==
  /\ edits < MaxEdits /\ edits' = edits + 1
  /\ disk' = With(disk, f, d)
  /\ UNCHANGED <<state, listed, content>>

Unlink(f) ==
  /\ edits < MaxEdits /\ edits' = edits + 1
  /\ f \in DOMAIN disk
  /\ disk' = [g \in DOMAIN disk \ {f} |-> disk[g]]
  /\ UNCHANGED <<state, listed, content>>

\* readdir
ListDirectory(directory) ==
  /\ state = "loading" /\ directory \notin DOMAIN listed
  /\ listed' = With(listed, directory,
                    ToSet(DirectoryOf[directory]) \cap DOMAIN disk)
  /\ UNCHANGED <<disk, edits, state, content>>

\* The files whose reading has begun.
Wanted == CoreFiles \cup UNION {listed[dir] : dir \in DOMAIN listed}

\* loadYamlFile.  A file that is gone or is not YAML rejects the whole load.
LoadYamlFile(f) ==
  /\ state = "loading" /\ f \in Wanted \ DOMAIN content
  /\ \/ /\ f \in DOMAIN disk /\ content' = With(content, f, disk[f])
        /\ UNCHANGED <<state, listed>>
     \/ /\ state' = "rejected"
        /\ listed' = [directory \in {} |-> {}]
        /\ content' = [g \in {} |-> disk]
  /\ UNCHANGED <<disk, edits>>

\* The k-th smallest of a set of numbers.
Kth(S, k) == CHOOSE i \in S : Cardinality({j \in S : j <= i}) = k

\* The contents of the listed files, in the order of their names.
Profiles(directory) ==
  LET names == DirectoryOf[directory]
      there == {i \in DOMAIN names : names[i] \in listed[directory]}
  IN  [k \in 1..Cardinality(there) |-> content[names[Kth(there, k)]]]

MissionDb ==
  [commands |-> content["commands"], telemetry |-> content["telemetry"],
   safety |-> content["safety"],
   missionProfiles |-> Profiles("missions"),
   boardProfiles |-> Profiles("boards")]

\* Promise.all has everything.
LoadMissionDb ==
  /\ state = "loading"
  /\ DOMAIN listed = Directories /\ DOMAIN content = Wanted
  /\ state' = "loaded"
  /\ UNCHANGED <<disk, edits, listed, content>>

\* It is loaded anew.
Reload ==
  /\ state # "loading"
  /\ state' = "loading"
  /\ listed' = [directory \in {} |-> {}]
  /\ content' = [f \in {} |-> disk]
  /\ UNCHANGED <<disk, edits>>

LoadNext ==
  \/ \E f \in Files : \E d \in Candidates[Kind(f)] : Write(f, d)
  \/ \E f \in Files : Unlink(f)
  \/ \E directory \in Directories : ListDirectory(directory)
  \/ \E f \in Wanted : LoadYamlFile(f)
  \/ LoadMissionDb
  \/ Reload

LoadSpec == LoadInit /\ [][LoadNext]_loadVars

------------------------------------------------------------------------------
(* Properties                                                              *)

\* Every database that can be put together from the candidates.
ProfileArrays(kind, files) ==
  UNION {[1..n -> Candidates[kind]] : n \in 0..Len(files)}
MissionDbs ==
  [commands : Candidates["commands"], telemetry : Candidates["telemetry"],
   safety : Candidates["safety"],
   missionProfiles : ProfileArrays("mission", MissionFiles),
   boardProfiles : ProfileArrays("board", BoardFiles)]

DatabaseTypeOK ==
  /\ DOMAIN disk \subseteq Files /\ DOMAIN content \subseteq Files
  /\ \A f \in DOMAIN disk : disk[f] \in Candidates[Kind(f)]
  /\ \A f \in DOMAIN content : content[f] \in Candidates[Kind(f)]
  /\ edits \in 0..MaxEdits
  /\ state \in {"loading", "loaded", "rejected"}
  /\ DOMAIN listed \subseteq Directories
  /\ state = "loaded" => MissionDb \in MissionDbs

(***************************************************************************)
(* A database that passes validation can be used: neither the hashes nor   *)
(* the registry nor a guard throws on it, however it was put together.     *)
(***************************************************************************)
ValidNeverThrows == state = "loaded" /\ Valid(MissionDb) => ~Throws(MissionDb)

Known == {[hashes |-> HashMissionDb(db), rules |-> Rules(db)] :
            db \in {db \in MissionDbs : Valid(db)}}

(***************************************************************************)
(* Nodes whose three hashes agree decide by the same rules: the values     *)
(* that canonicalJson confuses, in a list too, are values the guards do    *)
(* not tell apart.                                                         *)
(***************************************************************************)
SameHashesSameRules ==
  state = "loaded" /\ Valid(MissionDb) =>
    \A other \in Known :
      other.hashes = HashMissionDb(MissionDb) => other.rules = Rules(MissionDb)

(***************************************************************************)
(* The board hash names the set of boards, not the files they are in:      *)
(* with other file names, and so in another order, it is the same.         *)
(***************************************************************************)
BoardHashIgnoresFileNames ==
  state = "loaded" /\ Valid(MissionDb) =>
    LET boards == MissionDb.boardProfiles
        distinct == \A i, k \in DOMAIN boards :
                      i # k => boards[i].name # boards[k].name
    IN  distinct =>
          \A order \in SetToSeqs(DOMAIN boards) :
            CanonicalArray(NormalizeBoardProfiles(
              [i \in DOMAIN boards |-> boards[order[i]]]))
            = HashMissionDb(MissionDb).board_profile_hash
==============================================================================
