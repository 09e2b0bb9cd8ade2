--------------------------- MODULE MissionDbProofs ---------------------------
(***************************************************************************)
(* Theorems about the mission-db package: CommandAuthorization, for every  *)
(* database and every request, and MissionDatabase, for every set of files *)
(* and definitions.                                                        *)
(*                                                                         *)
(* The decision is a function of the request and the database; each guard  *)
(* is monotone in the permissions, hence so is the pipeline.  Of a load    *)
(* the invariant says that whatever was read is a definition of its kind;  *)
(* the rest is about the functions of the database: validation excludes    *)
(* what throws, Json confuses only what no guard tells apart, and a sort   *)
(* by distinct names has exactly one place for every board.                *)
(***************************************************************************)
EXTENDS CommandAuthorization, MissionDatabase, FiniteSetTheorems,
        SequenceTheorems, TLAPS

------------------------------------------------------------------------------
(* CommandAuthorization.                                                   *)

Authorized(r, c) ==
  /\ Admitted(r.packet, c)
  /\ \/ r.packet.msgType \in FixedSafe
     \/ MissionAllows(r, c) /\ SafetyAllows(r, c) /\ BoardAllows(r, c)

LEMMA EvaluateAuthorizes ==
  ASSUME NEW r, NEW c
  PROVE  Evaluate(r, c) = "authorized" <=> Authorized(r, c)
BY DEF Evaluate, Authorized

DecisionInv ==
  /\ config \in Config /\ request \in Request
  /\ stage = Evaluate(request, config)

LEMMA DecisionInvariant == Spec => []DecisionInv
<1>1. Init => DecisionInv
  BY AuthorizationAssumption DEF Init, DecisionInv
<1>2. DecisionInv /\ [Next]_vars => DecisionInv'
  <2> SUFFICES ASSUME DecisionInv, [Next]_vars PROVE DecisionInv'
    OBVIOUS
  <2>1. ASSUME NEW r \in Requests, Decide(r) PROVE DecisionInv'
    BY <2>1, AuthorizationAssumption DEF Decide, DecisionInv
  <2>2. CASE SendResetEstop
    BY <2>2 DEF SendResetEstop, DecisionInv
  <2>3. CASE UNCHANGED vars
    BY <2>3 DEF vars, DecisionInv
  <2> QED
    BY <2>1, <2>2, <2>3 DEF Next, Authorize, AuthorizeAndSend
<1> QED
  BY <1>1, <1>2, PTL DEF Spec

\* What is authorized for the phone in MANUAL mode is fixed safe or drives.
LEMMA PhoneOnlyDrives ==
  ASSUME NEW r, NEW c, r.origin = "local_phone", Authorized(r, c)
  PROVE  r.packet.msgType \in Writable
BY DEF Authorized, MissionAllows, SafetyAllows, Manual, Release, Remote,
       Automatic, Writable, FixedSafe

------------------------------------------------------------------------------
LEMMA AdmittedMonotone ==
  ASSUME NEW p \in Packet, NEW c, NEW d, MorePermissive(c, d), Admitted(p, d)
  PROVE  Admitted(p, c)
BY DEF MorePermissive, Admitted, EnvelopeValid, SchemaHashAllows,
       KnownMessage, HashesMatch

LEMMA MissionMonotone ==
  ASSUME NEW r, NEW c, NEW d, MorePermissive(c, d), MissionAllows(r, d)
  PROVE  MissionAllows(r, c)
BY DEF MorePermissive, MissionAllows

LEMMA SafetyMonotone ==
  ASSUME NEW r \in Request, NEW c \in Config, NEW d \in Config,
         MorePermissive(c, d), SafetyAllows(r, d)
  PROVE  SafetyAllows(r, c)
<1> DEFINE p == r.packet
<1>1. CASE p.msgType \in Release /\ ReleaseIsSafe(r, d)
  BY <1>1 DEF MorePermissive, SafetyAllows, ReleaseIsSafe
<1>2. CASE p.msgType = "cmd_vel" /\ CmdVelIsSafe(p, d)
  <2>1. c.limited /\ c.maxVx >= d.maxVx /\ c.maxWz >= d.maxWz
        /\ c.maxTtl >= d.maxTtl
    BY <1>2 DEF MorePermissive, CmdVelIsSafe
  <2>2. /\ p.vx \in Int /\ p.wz \in Int /\ p.ttl \in Nat
        /\ c.maxVx \in Nat /\ c.maxWz \in Nat /\ c.maxTtl \in Nat
        /\ d.maxVx \in Nat /\ d.maxWz \in Nat /\ d.maxTtl \in Nat
    BY DEF Request, Packet, Config
  <2>3. WithinLimit(p.vx, c.maxVx) /\ WithinLimit(p.wz, c.maxWz)
        /\ p.ttl <= c.maxTtl
    BY <1>2, <2>1, <2>2 DEF WithinLimit, CmdVelIsSafe
  <2> QED
    BY <1>2, <2>1, <2>3 DEF SafetyAllows, CmdVelIsSafe
<1> QED
  BY <1>1, <1>2 DEF SafetyAllows

LEMMA BoardMonotone ==
  ASSUME NEW r, NEW c, NEW d, MorePermissive(c, d), BoardAllows(r, d)
  PROVE  BoardAllows(r, c)
BY DEF MorePermissive, BoardAllows

------------------------------------------------------------------------------
(***************************************************************************)
(* Type correctness, and with it that the web app writes nothing but the   *)
(* fixed safe messages, drive commands and reset_estop.                    *)
(***************************************************************************)
THEOREM TypeCorrect == Spec => []TypeOK
<1>1. Init => TypeOK
  BY DEF Init, TypeOK, Stages, Evaluate, Writable, FixedSafe, NothingWritten
<1>2. TypeOK /\ [Next]_vars => TypeOK'
  <2> SUFFICES ASSUME TypeOK, [Next]_vars PROVE TypeOK'
    OBVIOUS
  <2>1. NothingWritten \in [msgType : Writable, authorized : BOOLEAN]
    BY DEF NothingWritten, Writable, FixedSafe
  <2>2. ASSUME NEW r \in Requests, Decide(r)
        PROVE  UNCHANGED config /\ request' \in Requests /\ stage' \in Stages
    BY <2>2 DEF Decide, Evaluate, Stages
  <2>3. ASSUME NEW r \in Requests, Authorize(r) PROVE TypeOK'
    BY <2>1, <2>2, <2>3 DEF Authorize, TypeOK
  <2>4. ASSUME NEW r \in Requests, AuthorizeAndSend(r) PROVE TypeOK'
    <3>1. stage' = "authorized" => r.packet.msgType \in Writable
      BY <2>4, EvaluateAuthorizes, PhoneOnlyDrives
         DEF AuthorizeAndSend, Decide
    <3> QED
      BY <2>1, <2>2, <2>4, <3>1 DEF AuthorizeAndSend, TypeOK
  <2>5. CASE SendResetEstop
    BY <2>5 DEF SendResetEstop, TypeOK, Writable
  <2>6. CASE UNCHANGED vars
    BY <2>6 DEF vars, TypeOK
  <2> QED
    BY <2>3, <2>4, <2>5, <2>6 DEF Next
<1> QED
  BY <1>1, <1>2, PTL DEF Spec

(***************************************************************************)
(* A permission never works as a prohibition, for every pair of mission    *)
(* databases.                                                              *)
(***************************************************************************)
THEOREM PermissionsOnlyPermitHolds == Spec => []PermissionsOnlyPermit
<1>1. DecisionInv => PermissionsOnlyPermit
  <2> SUFFICES ASSUME DecisionInv, stage = "authorized", NEW c \in Configs,
                      MorePermissive(c, config)
               PROVE  Evaluate(request, c) = "authorized"
    BY DEF PermissionsOnlyPermit
  <2>1. c \in Config /\ config \in Config /\ request \in Request
        /\ request.packet \in Packet
    BY AuthorizationAssumption DEF DecisionInv, Request
  <2>2. Authorized(request, config)
    BY EvaluateAuthorizes DEF DecisionInv
  <2>3. Admitted(request.packet, c)
    BY <2>1, <2>2, AdmittedMonotone DEF Authorized
  <2>4. CASE request.packet.msgType \in FixedSafe
    BY <2>3, <2>4, EvaluateAuthorizes DEF Authorized
  <2>5. CASE /\ MissionAllows(request, config)
             /\ SafetyAllows(request, config)
             /\ BoardAllows(request, config)
    <3>1. MissionAllows(request, c)
      BY <2>5, MissionMonotone
    <3>2. SafetyAllows(request, c)
      BY <2>1, <2>5, SafetyMonotone
    <3>3. BoardAllows(request, c)
      BY <2>5, BoardMonotone
    <3> QED
      BY <2>3, <3>1, <3>2, <3>3, EvaluateAuthorizes DEF Authorized
  <2> QED
    BY <2>2, <2>4, <2>5 DEF Authorized
<1> QED
  BY <1>1, DecisionInvariant, PTL

(***************************************************************************)
(* An emergency stop with a valid envelope is always authorized.  A wrong  *)
(* hash does not stop it.                                                  *)
(***************************************************************************)
THEOREM EstopAlwaysAuthorizedHolds == Spec => []EstopAlwaysAuthorized
<1>1. DecisionInv => EstopAlwaysAuthorized
  BY EvaluateAuthorizes
  DEF DecisionInv, EstopAlwaysAuthorized, Authorized, Admitted,
      EnvelopeValid, SchemaHashAllows, KnownMessage, FixedSafe
<1> QED
  BY <1>1, DecisionInvariant, PTL

(***************************************************************************)
(* A wrong hash stops everything that is not fixed safe.                   *)
(***************************************************************************)
THEOREM MismatchStopsCommandsHolds == Spec => []MismatchStopsCommands
<1>1. DecisionInv => MismatchStopsCommands
  BY EvaluateAuthorizes
  DEF DecisionInv, MismatchStopsCommands, Authorized, Admitted,
      SchemaHashAllows, HashesMatch
<1> QED
  BY <1>1, DecisionInvariant, PTL

(***************************************************************************)
(* Under the competition profile no remote origin drives the rover.        *)
(***************************************************************************)
THEOREM CompetitionIsAutonomousHolds == Spec => []CompetitionIsAutonomous
<1>1. DecisionInv => CompetitionIsAutonomous
  <2> SUFFICES ASSUME DecisionInv, config.competition,
                      request.origin \in Remote, stage = "authorized",
                      request.packet.msgType \in Manual
               PROVE  FALSE
    BY DEF CompetitionIsAutonomous
  <2>1. request.packet.msgType \notin FixedSafe
    BY DEF Manual, FixedSafe
  <2>2. MissionAllows(request, config)
    BY <2>1, EvaluateAuthorizes DEF DecisionInv, Authorized
  <2> QED
    BY <2>2 DEF MissionAllows
<1> QED
  BY <1>1, DecisionInvariant, PTL

------------------------------------------------------------------------------
(* Sorting: every place is taken, once.                                    *)

LEMMA IntervalSize ==
  ASSUME NEW n \in Nat PROVE IsFiniteSet(1..n) /\ Cardinality(1..n) = n
BY FS_Interval

\* upto[i] holds i and what is below it; of two elements one is below the other.
Ordered(S, upto) ==
  /\ upto \in [S -> SUBSET S]
  /\ \A i \in S : i \in upto[i]
  /\ \A i, j \in S : i # j => \/ upto[i] \subseteq upto[j] /\ j \notin upto[i]
                              \/ upto[j] \subseteq upto[i] /\ i \notin upto[j]

\* In a finite set whose elements are ordered one below the other, there is
\* exactly one with k elements up to itself, for every k there is a place for.
LEMMA PlacesTaken ==
  ASSUME NEW S, IsFiniteSet(S), NEW upto, Ordered(S, upto)
  PROVE  /\ Cardinality(S) \in Nat
         /\ \A i \in S : Cardinality(upto[i]) \in 1..Cardinality(S)
         /\ \A i, j \in S :
              Cardinality(upto[i]) = Cardinality(upto[j]) => i = j
         /\ \A k \in 1..Cardinality(S) :
              \E i \in S : Cardinality(upto[i]) = k
<1> DEFINE n == Cardinality(S)
           place == [i \in S |-> Cardinality(upto[i])]
<1> USE DEF Ordered
<1>1. n \in Nat
  BY FS_CardinalityType
<1>2. ASSUME NEW i \in S PROVE Cardinality(upto[i]) \in 1..n
  <2>1. /\ IsFiniteSet(upto[i])
        /\ Cardinality(upto[i]) <= n
    BY FS_Subset
  <2>2. Cardinality(upto[i]) \in Nat /\ Cardinality(upto[i]) # 0
    BY <2>1, FS_CardinalityType, FS_EmptySet
  <2> QED
    BY <1>1, <2>1, <2>2
<1>3. ASSUME NEW i \in S, NEW j \in S,
             upto[i] \subseteq upto[j], j \notin upto[i]
      PROVE  Cardinality(upto[i]) # Cardinality(upto[j])
  <2>1. IsFiniteSet(upto[j]) /\ upto[i] # upto[j]
    BY <1>3, FS_Subset
  <2> QED
    BY <1>3, <2>1, FS_Subset
<1>4. ASSUME NEW i \in S, NEW j \in S,
             Cardinality(upto[i]) = Cardinality(upto[j])
      PROVE  i = j
  BY <1>3, <1>4
<1>5. place \in Injection(S, 1..n)
  BY <1>2, <1>4 DEF Injection, IsInjective
<1>6. IsFiniteSet(1..n) /\ Cardinality(1..n) = n
  BY <1>1, IntervalSize
<1>7. place \in Surjection(S, 1..n)
  BY <1>5, <1>6, FS_Injection
<1>8. \A k \in 1..n : \E i \in S : place[i] = k
  BY <1>7 DEF Surjection
<1> QED
  BY <1>1, <1>2, <1>4, <1>8

Numbers(S) == S \subseteq Nat

UpTo(S) == [i \in S |-> {j \in S : j <= i}]

\* Kth(S, _) counts S through, from below.
LEMMA KthProperties ==
  ASSUME NEW S, Numbers(S), IsFiniteSet(S)
  PROVE  /\ Cardinality(S) \in Nat
         /\ \A k \in 1..Cardinality(S) : Kth(S, k) \in S
         /\ \A k, m \in 1..Cardinality(S) :
              k < m => Kth(S, k) < Kth(S, m)
<1> DEFINE upto == UpTo(S)
<1>1. \A i \in S : i \in Nat
  BY DEF Numbers
<1>2. /\ upto \in [S -> SUBSET S]
      /\ \A i \in S : upto[i] = {j \in S : j <= i}
  BY DEF UpTo
<1> HIDE DEF upto
<1>3. \A i \in S : i \in upto[i]
  BY <1>1, <1>2
<1>4. ASSUME NEW i \in S, NEW j \in S, i <= j PROVE upto[i] \subseteq upto[j]
  <2> SUFFICES ASSUME NEW x \in upto[i] PROVE x \in upto[j]
    OBVIOUS
  <2>1. x \in S /\ x <= i
    BY <1>2
  <2>2. x <= j
    BY <1>1, <1>4, <2>1
  <2> QED
    BY <1>2, <2>1, <2>2
<1>5. \A i, j \in S :
        i # j => \/ upto[i] \subseteq upto[j] /\ j \notin upto[i]
                 \/ upto[j] \subseteq upto[i] /\ i \notin upto[j]
  <2> SUFFICES ASSUME NEW i \in S, NEW j \in S, i # j
               PROVE  \/ upto[i] \subseteq upto[j] /\ j \notin upto[i]
                      \/ upto[j] \subseteq upto[i] /\ i \notin upto[j]
    OBVIOUS
  <2>1. i < j \/ j < i
    BY <1>1
  <2>2. j < i => i \notin upto[j]
    BY <1>1, <1>2
  <2>3. i < j => j \notin upto[i]
    BY <1>1, <1>2
  <2> QED
    BY <1>1, <2>1, <2>2, <2>3, <1>4
<1>6. /\ Cardinality(S) \in Nat
      /\ \A k \in 1..Cardinality(S) : \E i \in S : Cardinality(upto[i]) = k
  <2>1. Ordered(S, upto)
    BY <1>2, <1>3, <1>5 DEF Ordered
  <2> QED
    BY <2>1, PlacesTaken
<1>7. \A k \in 1..Cardinality(S) :
        Kth(S, k) \in S /\ Cardinality(upto[Kth(S, k)]) = k
  BY <1>2, <1>6 DEF Kth
<1>8. ASSUME NEW k \in 1..Cardinality(S), NEW m \in 1..Cardinality(S), k < m
      PROVE  Kth(S, k) < Kth(S, m)
  <2>1. /\ Kth(S, k) \in S /\ Kth(S, m) \in S
        /\ Kth(S, k) \in Nat /\ Kth(S, m) \in Nat
    BY <1>1, <1>7
  <2> SUFFICES ASSUME Kth(S, m) <= Kth(S, k) PROVE FALSE
    BY <2>1
  <2>2. upto[Kth(S, m)] \subseteq upto[Kth(S, k)]
    BY <1>4, <2>1
  <2>3. IsFiniteSet(upto[Kth(S, k)])
    BY <1>2, <2>1, FS_Subset
  <2>4. Cardinality(upto[Kth(S, m)]) <= Cardinality(upto[Kth(S, k)])
    BY <2>2, <2>3, FS_Subset
  <2> QED
    BY <1>6, <1>7, <1>8, <2>4
<1> QED
  BY <1>6, <1>7, <1>8

------------------------------------------------------------------------------
(* MissionDatabase: loading.                                               *)

\* Every file holds what its kind may hold.
Typed(files) ==
  /\ DOMAIN files \subseteq Files
  /\ \A f \in DOMAIN files : files[f] \in Candidates[Kind(f)]

LoadInv ==
  /\ Typed(disk) /\ Typed(content)
  /\ edits \in 0..MaxEdits
  /\ state \in {"loading", "loaded", "rejected"}
  /\ DOMAIN listed \subseteq Directories
  /\ \A directory \in DOMAIN listed :
       listed[directory] \subseteq ToSet(DirectoryOf[directory])
  /\ state = "loaded" => DOMAIN listed = Directories /\ DOMAIN content = Wanted

LEMMA EditsBounded == MaxEdits \in Nat
BY DatabaseAssumption

LEMMA Kinds ==
  /\ Kind("commands") = "commands" /\ Kind("telemetry") = "telemetry"
  /\ Kind("safety") = "safety"
  /\ \A f \in ToSet(MissionFiles) : Kind(f) = "mission"
  /\ \A f \in ToSet(BoardFiles) : Kind(f) = "board"
BY DatabaseAssumption DEF Kind, CoreFiles

\* Writing or reading one more file keeps the files typed.
LEMMA WithTyped ==
  ASSUME NEW files, Typed(files), NEW f \in Files, NEW d \in Candidates[Kind(f)]
  PROVE  Typed(With(files, f, d))
BY DEF Typed, With

LEMMA LoadStep == ASSUME LoadInv, [LoadNext]_loadVars PROVE LoadInv'
<1> USE DEF LoadInv
\* A load begins, or is given up: nothing is listed, nothing read.
<1>1. ASSUME DOMAIN listed' = {}, DOMAIN content' = {},
             state' \in {"loading", "rejected"}, UNCHANGED <<disk, edits>>
      PROVE  LoadInv'
  BY <1>1 DEF Typed
<1>2. ASSUME NEW f \in Files, NEW d \in Candidates[Kind(f)], Write(f, d)
      PROVE  LoadInv'
  <2>1. Typed(disk)'
    BY <1>2, WithTyped DEF Write
  <2>2. edits' \in 0..MaxEdits
    BY <1>2, EditsBounded DEF Write
  <2> QED
    BY <1>2, <2>1, <2>2 DEF Write, Wanted
<1>3. ASSUME NEW f \in Files, Unlink(f) PROVE LoadInv'
  <2>1. Typed(disk)'
    BY <1>3 DEF Unlink, Typed
  <2>2. edits' \in 0..MaxEdits
    BY <1>3, EditsBounded DEF Unlink
  <2> QED
    BY <1>3, <2>1, <2>2 DEF Unlink, Wanted
<1>4. ASSUME NEW directory \in Directories, ListDirectory(directory)
      PROVE  LoadInv'
  BY <1>4 DEF ListDirectory, With
<1>5. ASSUME NEW f \in Wanted, LoadYamlFile(f) PROVE LoadInv'
  <2>1. CASE /\ f \in DOMAIN disk /\ content' = With(content, f, disk[f])
             /\ UNCHANGED <<state, listed, disk, edits>>
    <3>1. f \in Files /\ disk[f] \in Candidates[Kind(f)]
      BY <2>1 DEF Typed
    <3>2. Typed(content)'
      BY <2>1, <3>1, WithTyped
    <3>3. state' = "loading"
      BY <1>5, <2>1 DEF LoadYamlFile
    <3> QED
      BY <2>1, <3>2, <3>3
  <2>2. CASE /\ state' = "rejected"
             /\ listed' = [directory \in {} |-> {}]
             /\ content' = [g \in {} |-> disk]
             /\ UNCHANGED <<disk, edits>>
    BY <1>1, <2>2
  <2> QED
    BY <1>5, <2>1, <2>2 DEF LoadYamlFile
<1>6. CASE LoadMissionDb
  BY <1>6 DEF LoadMissionDb, Wanted
<1>7. CASE Reload
  BY <1>1, <1>7 DEF Reload
<1>8. CASE UNCHANGED loadVars
  BY <1>8 DEF loadVars, Wanted
<1> QED
  BY <1>2, <1>3, <1>4, <1>5, <1>6, <1>7, <1>8 DEF LoadNext

LEMMA LoadInitInv == ASSUME LoadInit PROVE LoadInv
<1>1. PICK commands \in Candidates["commands"],
           telemetry \in Candidates["telemetry"],
           safety \in Candidates["safety"],
           missions \in Contents("mission", ToSet(MissionFiles)),
           boards \in Contents("board", ToSet(BoardFiles)) :
        disk = [f \in CoreFiles \cup DOMAIN missions \cup DOMAIN boards |->
                  CASE f \in DOMAIN missions -> missions[f]
                    [] f \in DOMAIN boards -> boards[f]
                    [] f = "commands" -> commands
                    [] f = "telemetry" -> telemetry
                    [] OTHER -> safety]
  BY DEF LoadInit
<1>2. /\ DOMAIN missions \subseteq ToSet(MissionFiles)
      /\ \A f \in DOMAIN missions : missions[f] \in Candidates["mission"]
      /\ DOMAIN boards \subseteq ToSet(BoardFiles)
      /\ \A f \in DOMAIN boards : boards[f] \in Candidates["board"]
  BY DEF Contents
<1>3. DOMAIN disk = CoreFiles \cup DOMAIN missions \cup DOMAIN boards
  BY <1>1
<1>4. ASSUME NEW f \in DOMAIN disk PROVE disk[f] \in Candidates[Kind(f)]
  <2>1. CASE f \in DOMAIN missions
    BY <1>1, <1>2, <2>1, Kinds
  <2>2. CASE f \in DOMAIN boards
    <3>1. f \notin DOMAIN missions
      BY <1>2, <2>2, DatabaseAssumption
    <3> QED
      BY <1>1, <1>2, <1>3, <2>2, <3>1, Kinds
  <2>3. CASE f \in CoreFiles
    <3>1. f \notin DOMAIN missions /\ f \notin DOMAIN boards
      BY <1>2, <2>3, DatabaseAssumption
    <3> QED
      BY <1>1, <1>3, <2>3, <3>1, Kinds DEF CoreFiles
  <2> QED
    BY <1>3, <2>1, <2>2, <2>3
<1>5. Typed(disk)
  BY <1>2, <1>3, <1>4 DEF Typed, Files
<1>6. Typed(content)
  BY DEF LoadInit, Typed
<1> QED
  BY <1>5, <1>6, EditsBounded DEF LoadInit, LoadInv

LEMMA LoadInvariant == LoadSpec => []LoadInv
BY LoadInitInv, LoadStep, PTL DEF LoadSpec

LEMMA ProfilesTyped ==
  ASSUME LoadInv, state = "loaded",
         NEW directory \in Directories, NEW kind,
         DirectoryOf[directory] \in Seq(STRING),
         \A f \in ToSet(DirectoryOf[directory]) : Kind(f) = kind
  PROVE  Profiles(directory) \in ProfileArrays(kind, DirectoryOf[directory])
<1> DEFINE names == DirectoryOf[directory]
           there == {i \in DOMAIN names : names[i] \in listed[directory]}
<1>1. /\ listed[directory] \subseteq ToSet(names)
      /\ listed[directory] \subseteq DOMAIN content
  BY DEF LoadInv, Wanted
<1>2. /\ Len(names) \in Nat /\ DOMAIN names = 1..Len(names)
      /\ IsFiniteSet(1..Len(names))
      /\ Cardinality(1..Len(names)) = Len(names)
  <2>1. Len(names) \in Nat /\ DOMAIN names = 1..Len(names)
    BY LenProperties
  <2> QED
    BY <2>1, IntervalSize
<1>3. /\ IsFiniteSet(there) /\ Numbers(there)
      /\ Cardinality(there) <= Len(names)
  <2>1. there \subseteq 1..Len(names)
    BY <1>2
  <2> QED
    BY <1>2, <2>1, FS_Subset DEF Numbers
<1>4. \A i \in there : /\ names[i] \in DOMAIN content
                       /\ content[names[i]] \in Candidates[kind]
  BY <1>1 DEF LoadInv, Typed
<1>5. Profiles(directory)
        = [k \in 1..Cardinality(there) |-> content[names[Kth(there, k)]]]
  BY DEF Profiles
<1> HIDE DEF names, there
<1>6. /\ Cardinality(there) \in 0..Len(names)
      /\ \A k \in 1..Cardinality(there) : Kth(there, k) \in there
  BY <1>2, <1>3, KthProperties
<1>7. Profiles(directory) \in [1..Cardinality(there) -> Candidates[kind]]
  BY <1>4, <1>5, <1>6
<1> QED
  BY <1>6, <1>7 DEF ProfileArrays, names

LEMMA LoadedTyped == ASSUME LoadInv, state = "loaded" PROVE MissionDb \in MissionDbs
<1>1. /\ content["commands"] \in Candidates["commands"]
      /\ content["telemetry"] \in Candidates["telemetry"]
      /\ content["safety"] \in Candidates["safety"]
  BY Kinds DEF LoadInv, Typed, Wanted, CoreFiles
<1>2. Profiles("missions") \in ProfileArrays("mission", MissionFiles)
  <2>1. "missions" \in Directories /\ DirectoryOf["missions"] = MissionFiles
    BY DEF Directories, DirectoryOf
  <2>2. MissionFiles \in Seq(STRING)
    BY DatabaseAssumption
  <2> QED
    BY <2>1, <2>2, Kinds, ProfilesTyped
<1>3. Profiles("boards") \in ProfileArrays("board", BoardFiles)
  <2>1. "boards" \in Directories /\ DirectoryOf["boards"] = BoardFiles
    BY DEF Directories, DirectoryOf
  <2>2. BoardFiles \in Seq(STRING)
    BY DatabaseAssumption
  <2> QED
    BY <2>1, <2>2, Kinds, ProfilesTyped
<1> QED
  BY <1>1, <1>2, <1>3 DEF MissionDb, MissionDbs

\* Whatever is edited while a load goes on, what it puts together is a
\* database: every part read from a file of its own kind.
THEOREM DatabaseTypeCorrect == LoadSpec => []DatabaseTypeOK
<1>1. LoadInv => DatabaseTypeOK
  BY LoadedTyped DEF LoadInv, Typed, DatabaseTypeOK
<1> QED
  BY <1>1, LoadInvariant, PTL

------------------------------------------------------------------------------
(* MissionDatabase: validation, hashing and what the guards read.          *)

\* A definition some file of that kind may hold.
IsDefinition(d) == d \in Definition(DOMAIN d.leaves) /\ WellFormed(d)

LEMMA CandidatesAreDefinitions ==
  ASSUME NEW kind \in CoreFiles \cup {"mission", "board"},
         NEW d \in Candidates[kind]
  PROVE  IsDefinition(d)
BY DatabaseAssumption DEF IsDefinition

LEMMA ArrayLength ==
  ASSUME NEW kind, NEW files, Len(files) \in Nat,
         NEW array \in ProfileArrays(kind, files)
  PROVE  \E n \in Nat : array \in [1..n -> Candidates[kind]]
<1>1. PICK n \in 0..Len(files) : array \in [1..n -> Candidates[kind]]
  BY DEF ProfileArrays
<1> QED
  BY <1>1

LEMMA DatabaseParts ==
  ASSUME NEW db \in MissionDbs
  PROVE  /\ IsDefinition(db.commands) /\ IsDefinition(db.telemetry)
         /\ IsDefinition(db.safety)
         /\ \E n \in Nat : DOMAIN db.missionProfiles = 1..n
         /\ \A i \in DOMAIN db.missionProfiles :
              IsDefinition(db.missionProfiles[i])
         /\ Len(db.boardProfiles) \in Nat
         /\ DOMAIN db.boardProfiles = 1..Len(db.boardProfiles)
         /\ \A i \in DOMAIN db.boardProfiles :
              /\ IsDefinition(db.boardProfiles[i])
              /\ db.boardProfiles[i] \in Candidates["board"]
<1>1. /\ db.commands \in Candidates["commands"]
      /\ db.telemetry \in Candidates["telemetry"]
      /\ db.safety \in Candidates["safety"]
      /\ db.missionProfiles \in ProfileArrays("mission", MissionFiles)
      /\ db.boardProfiles \in ProfileArrays("board", BoardFiles)
  BY DEF MissionDbs
<1>2. Len(MissionFiles) \in Nat /\ Len(BoardFiles) \in Nat
  BY DatabaseAssumption, LenProperties
<1>3. PICK m \in Nat : db.missionProfiles \in [1..m -> Candidates["mission"]]
  BY <1>1, <1>2, ArrayLength
<1>4. PICK n \in Nat : db.boardProfiles \in [1..n -> Candidates["board"]]
  BY <1>1, <1>2, ArrayLength
<1>5. Len(db.boardProfiles) = n
  BY <1>4, LenProperties
<1> QED
  BY <1>1, <1>3, <1>4, <1>5, CandidatesAreDefinitions DEF CoreFiles

\* What validation accepts is an object with an object in it, and no entry
\* of it is null.
LEMMA ValidParts ==
  ASSUME NEW d, IsDefinition(d)
  PROVE  /\ ValidNamedDefinitions(d) => ~RegistryThrows(d)
         /\ ValidProfile(d) => HasStringName(d) /\ d.object
         /\ ValidSafetyDefinition(d) => d.object
<1>1. ASSUME ValidNamedDefinitions(d) PROVE ~RegistryThrows(d)
  BY <1>1 DEF ValidNamedDefinitions, ValidSchemaVersion, ReadRecordProperty,
              ValidNamedDefinitionMap, IsRecord, RegistryThrows
<1>2. ASSUME ValidProfile(d) PROVE HasStringName(d) /\ d.object
  BY <1>2 DEF ValidProfile, ValidSchemaVersion, ReadRecordProperty,
              NonEmptyString, IsRecord, IsDefinition, WellFormed,
              HasStringName
<1>3. ASSUME ValidSafetyDefinition(d) PROVE d.object
  BY <1>3 DEF ValidSafetyDefinition, ValidSchemaVersion
<1> QED
  BY <1>1, <1>2, <1>3

\* A database that passes validation can be hashed and decided by.
THEOREM ValidatedIsUsable == LoadSpec => []ValidNeverThrows
<1>1. ASSUME LoadInv PROVE ValidNeverThrows
  <2> SUFFICES ASSUME state = "loaded", Valid(MissionDb)
               PROVE  ~Throws(MissionDb)
    BY DEF ValidNeverThrows
  <2> DEFINE db == MissionDb
  <2>1. db \in MissionDbs
    BY <1>1, LoadedTyped
  <2> HIDE DEF db
  <2>2. Valid(db)
    BY DEF db
  <2>3. /\ ~RegistryThrows(db.commands) /\ ~RegistryThrows(db.telemetry)
        /\ db.safety.object
    BY <2>1, <2>2, DatabaseParts, ValidParts DEF Valid
  <2>4. \A i \in DOMAIN db.missionProfiles : db.missionProfiles[i].object
    BY <2>1, <2>2, DatabaseParts, ValidParts DEF Valid
  <2>5. \A i \in DOMAIN db.boardProfiles :
          HasStringName(db.boardProfiles[i]) /\ db.boardProfiles[i].object
    BY <2>1, <2>2, DatabaseParts, ValidParts DEF Valid
  <2>6. ~Throws(db)
    BY <2>3, <2>4, <2>5 DEF Throws, HashThrows
  <2> QED
    BY <2>6 DEF db
<1> QED
  BY <1>1, LoadInvariant, PTL

\* The values that canonicalJson confuses are values no guard tells apart.
LEMMA JsonKeepsWhatGuardsRead ==
  ASSUME NEW a \in Leaves, NEW b \in Leaves, Json(a) = Json(b)
  PROVE  /\ a = "true" <=> b = "true"
         /\ IsLimit(a) <=> IsLimit(b)
         /\ IsLimit(a) => a = b
BY DEF Leaves, Json, IsLimit

\* Nor does a list tell the guards more than its canonical form does.
LEMMA JsonKeepsLists ==
  ASSUME NEW a \in List, NEW b \in List, JsonList(a) = JsonList(b)
  PROVE  Listed(a) = Listed(b)
<1>1. /\ JsonList(a).array = a.array /\ JsonList(b).array = b.array
      /\ JsonList(a).items = [i \in DOMAIN a.items |-> Json(a.items[i])]
      /\ JsonList(b).items = [i \in DOMAIN b.items |-> Json(b.items[i])]
  BY DEF JsonList, List
<1>2. a.array = b.array
  BY <1>1
<1>3. /\ DOMAIN a.items = DOMAIN b.items
      /\ \A i \in DOMAIN a.items : Json(a.items[i]) = Json(b.items[i])
  BY <1>1
<1>4. ASSUME NEW x, NEW y, Json(x) = Json(y), x \notin Leaves PROVE x = y
  BY <1>4 DEF Json, Leaves
<1>5. ASSUME NEW x, x \notin Leaves
      PROVE  x \in ToSet(a.items) <=> x \in ToSet(b.items)
  BY <1>3, <1>4, <1>5 DEF ToSet
<1> QED
  BY <1>2, <1>5 DEF Listed

CanonicalEntry(e) == [e EXCEPT !.shape = JsonShape(e.shape)]

LEMMA CanonicalFields ==
  ASSUME NEW d, IsDefinition(d)
  PROVE  /\ Canonical(d).name = d.name
         /\ Canonical(d).list = JsonList(d.list) /\ d.list \in List
         /\ Canonical(d).leaves = [key \in DOMAIN d.leaves |->
                                     Json(d.leaves[key])]
         /\ Canonical(d).entries = {CanonicalEntry(e) : e \in d.entries}
BY DEF Canonical, IsDefinition, Definition, CanonicalEntry

\* What the guards take from a definition is a function of its canonical form.
LEMMA CanonicalTells ==
  ASSUME NEW c, IsDefinition(c), NEW d, IsDefinition(d),
         Canonical(c) = Canonical(d)
  PROVE  /\ c.name = d.name
         /\ Granted(c) = Granted(d)
         /\ Listed(c.list) = Listed(d.list)
         /\ Limits(c) = Limits(d)
         /\ CollectMessageTypes(c) = CollectMessageTypes(d)
<1>1. c.name = d.name /\ Listed(c.list) = Listed(d.list)
  <2>1. c.name = d.name /\ JsonList(c.list) = JsonList(d.list)
    BY CanonicalFields
  <2>2. c.list \in List /\ d.list \in List
    BY CanonicalFields
  <2> QED
    BY <2>1, <2>2, JsonKeepsLists
<1>2. /\ DOMAIN c.leaves = DOMAIN d.leaves
      /\ \A key \in DOMAIN c.leaves :
           /\ c.leaves[key] \in Leaves /\ d.leaves[key] \in Leaves
           /\ Json(c.leaves[key]) = Json(d.leaves[key])
  <2>1. /\ c.leaves \in [DOMAIN c.leaves -> Leaves]
        /\ d.leaves \in [DOMAIN d.leaves -> Leaves]
    BY DEF IsDefinition, Definition
  <2>2. [key \in DOMAIN c.leaves |-> Json(c.leaves[key])]
          = [key \in DOMAIN d.leaves |-> Json(d.leaves[key])]
    BY CanonicalFields
  <2> QED
    BY <2>1, <2>2
<1>3. Granted(c) = Granted(d)
  BY <1>2, JsonKeepsWhatGuardsRead DEF Granted
<1>4. Limits(c) = Limits(d)
  <2>1. \A key \in DOMAIN c.leaves :
          /\ IsLimit(c.leaves[key]) <=> IsLimit(d.leaves[key])
          /\ IsLimit(c.leaves[key]) => c.leaves[key] = d.leaves[key]
    BY <1>2, JsonKeepsWhatGuardsRead
  <2>2. CASE \A key \in DOMAIN c.leaves : IsLimit(c.leaves[key])
    <3>1. c.leaves = d.leaves
      BY <1>2, <2>1, <2>2 DEF IsDefinition, Definition
    <3> QED
      BY <2>2, <3>1 DEF Limits
  <2>3. CASE ~\A key \in DOMAIN c.leaves : IsLimit(c.leaves[key])
    BY <1>2, <2>1, <2>3 DEF Limits
  <2> QED
    BY <2>2, <2>3
<1>5. ASSUME NEW a, IsDefinition(a), NEW b, IsDefinition(b),
             Canonical(a).entries = Canonical(b).entries
      PROVE  CollectMessageTypes(a) \subseteq CollectMessageTypes(b)
  <2>1. ASSUME NEW e \in a.entries
        PROVE  \E f \in b.entries : f.key = e.key /\ f.names = e.names
    <3>1. {CanonicalEntry(f) : f \in a.entries}
            = {CanonicalEntry(f) : f \in b.entries}
      BY <1>5, CanonicalFields
    <3>2. PICK f \in b.entries : CanonicalEntry(e) = CanonicalEntry(f)
      BY <3>1
    <3>3. e \in Entry /\ f \in Entry
      BY <1>5 DEF IsDefinition, Definition
    <3> QED
      BY <3>2, <3>3 DEF Entry, CanonicalEntry
  <2> QED
    BY <2>1 DEF CollectMessageTypes
<1>6. CollectMessageTypes(c) = CollectMessageTypes(d)
  <2>1. CollectMessageTypes(c) \subseteq CollectMessageTypes(d)
    BY <1>5
  <2>2. CollectMessageTypes(d) \subseteq CollectMessageTypes(c)
    BY <1>5
  <2> QED
    BY <2>1, <2>2
<1> QED
  BY <1>1, <1>3, <1>4, <1>6

\* Two databases with the same mission_db_hash give the same rules.
LEMMA HashTellsRules ==
  ASSUME NEW a \in MissionDbs, NEW b \in MissionDbs,
         HashMissionDb(a) = HashMissionDb(b)
  PROVE  Rules(a) = Rules(b)
<1>1. /\ Canonical(a.commands) = Canonical(b.commands)
      /\ Canonical(a.telemetry) = Canonical(b.telemetry)
      /\ Canonical(a.safety) = Canonical(b.safety)
      /\ CanonicalArray(a.missionProfiles) = CanonicalArray(b.missionProfiles)
      /\ CanonicalArray(a.boardProfiles) = CanonicalArray(b.boardProfiles)
  <2>1. HashMissionDb(a).mission_db_hash = HashMissionDb(b).mission_db_hash
    OBVIOUS
  <2> QED
    BY <2>1 DEF HashMissionDb
<1>2. /\ CollectMessageTypes(a.commands) = CollectMessageTypes(b.commands)
      /\ CollectMessageTypes(a.telemetry) = CollectMessageTypes(b.telemetry)
      /\ Limits(a.safety) = Limits(b.safety)
      /\ Listed(a.safety.list) = Listed(b.safety.list)
  BY <1>1, DatabaseParts, CanonicalTells
<1>3. ASSUME NEW s, NEW t,
             \A i \in DOMAIN s : IsDefinition(s[i]),
             \A i \in DOMAIN t : IsDefinition(t[i]),
             CanonicalArray(s) = CanonicalArray(t)
      PROVE  /\ DOMAIN s = DOMAIN t
             /\ \A i \in DOMAIN s :
                  /\ s[i].name = t[i].name /\ Granted(s[i]) = Granted(t[i])
                  /\ RemoteDriveDisabled(s[i]) = RemoteDriveDisabled(t[i])
  <2>1. DOMAIN s = DOMAIN t
    BY <1>3 DEF CanonicalArray
  <2>2. \A i \in DOMAIN s : Canonical(s[i]) = Canonical(t[i])
    BY <1>3, <2>1 DEF CanonicalArray
  <2> QED
    BY <1>3, <2>1, <2>2, CanonicalTells DEF RemoteDriveDisabled
<1>4. Rules(a).permissions = Rules(b).permissions
  BY <1>1, <1>3, DatabaseParts DEF Rules
<1>5. Rules(a).capabilities = Rules(b).capabilities
  BY <1>1, <1>3, DatabaseParts DEF Rules
<1> QED
  BY <1>2, <1>4, <1>5 DEF Rules

\* Nodes whose hashes agree decide by the same rules: the message types, the
\* limits, the modes a release is allowed in, and of every profile the
\* permissions or capabilities and whether it bars remote driving.
THEOREM HashesFixRules == LoadSpec => []SameHashesSameRules
<1>1. ASSUME LoadInv PROVE SameHashesSameRules
  <2> SUFFICES ASSUME state = "loaded", NEW other \in Known,
                      other.hashes = HashMissionDb(MissionDb)
               PROVE  other.rules = Rules(MissionDb)
    BY DEF SameHashesSameRules
  <2>1. MissionDb \in MissionDbs
    BY <1>1, LoadedTyped
  <2>2. PICK db \in MissionDbs :
          other = [hashes |-> HashMissionDb(db), rules |-> Rules(db)]
    BY DEF Known
  <2>3. HashMissionDb(db) = HashMissionDb(MissionDb)
    BY <2>2
  <2> QED
    BY <2>1, <2>2, <2>3, HashTellsRules
<1> QED
  BY <1>1, LoadInvariant, PTL

------------------------------------------------------------------------------
(* MissionDatabase: the sort of the boards.                                *)

\* Boards whose names the sort can compare.
Named(boards) ==
  /\ Len(boards) \in Nat /\ DOMAIN boards = 1..Len(boards)
  /\ \A i \in DOMAIN boards : NameRank(boards[i].name) \in Nat
  /\ \A i, k \in DOMAIN boards :
       i # k => NameRank(boards[i].name) # NameRank(boards[k].name)

\* The boards whose names are not above that of board i.
UpToName(boards) ==
  [i \in DOMAIN boards |->
     {j \in DOMAIN boards :
        NameRank(boards[j].name) <= NameRank(boards[i].name)}]

\* With distinct names the sort has one board for every place.
LEMMA NamedPlaces ==
  ASSUME NEW boards, Named(boards)
  PROVE  /\ \A i \in DOMAIN boards : Place(boards, i) \in DOMAIN boards
         /\ \A i, k \in DOMAIN boards :
              Place(boards, i) = Place(boards, k) => i = k
         /\ \A k \in DOMAIN boards :
              \E i \in DOMAIN boards : Place(boards, i) = k
         /\ \A i \in DOMAIN boards :
              Place(boards, i) = Cardinality(UpToName(boards)[i])
<1> DEFINE D == DOMAIN boards
           rank == [i \in D |-> NameRank(boards[i].name)]
           upto == UpToName(boards)
<1>1. /\ Len(boards) \in Nat /\ D = 1..Len(boards)
      /\ \A i \in D : i \in Nat /\ rank[i] \in Nat
      /\ \A i, k \in D : i # k => rank[i] # rank[k]
      /\ \A i \in D : rank[i] = NameRank(boards[i].name)
  BY DEF Named
<1>2. IsFiniteSet(D) /\ Cardinality(D) = Len(boards)
  BY <1>1, IntervalSize
<1>3. /\ upto \in [D -> SUBSET D]
      /\ \A i \in D : upto[i] = {j \in D : rank[j] <= rank[i]}
  BY DEF UpToName
<1>4. ASSUME NEW i \in D PROVE Place(boards, i) = Cardinality(upto[i])
  <2> DEFINE before == {j \in D :
               LET a == NameRank(boards[j].name)
                   b == NameRank(boards[i].name)
               IN  a < b \/ (a = b /\ j <= i)}
  <2>1. Place(boards, i) = Cardinality(before)
    BY DEF Place
  <2>2. before = {j \in D : rank[j] < rank[i] \/ (rank[j] = rank[i] /\ j <= i)}
    OBVIOUS
  <2> HIDE DEF before, D, rank, upto
  <2>3. ASSUME NEW j \in D
        PROVE  rank[j] < rank[i] \/ (rank[j] = rank[i] /\ j <= i)
                 <=> rank[j] <= rank[i]
    <3>1. rank[j] \in Nat /\ rank[i] \in Nat /\ (rank[j] = rank[i] => j = i)
          /\ i \in Nat
      BY <1>1
    <3> QED
      BY <3>1
  <2>4. before = upto[i]
    BY <1>3, <2>2, <2>3
  <2> QED
    BY <2>1, <2>4
<1> HIDE DEF D, rank, upto
<1>5. Ordered(D, upto)
  <2>1. \A i \in D : i \in upto[i]
    BY <1>1, <1>3
  <2>2. ASSUME NEW i \in D, NEW j \in D, rank[i] < rank[j]
        PROVE  upto[i] \subseteq upto[j] /\ j \notin upto[i]
    <3>1. j \notin upto[i]
      BY <1>1, <1>3, <2>2
    <3>2. ASSUME NEW x \in upto[i] PROVE x \in upto[j]
      <4>1. x \in D /\ rank[x] <= rank[i]
        BY <1>3, <3>2
      <4>2. rank[x] <= rank[j]
        BY <1>1, <2>2, <4>1
      <4> QED
        BY <1>3, <4>1, <4>2
    <3> QED
      BY <3>1, <3>2
  <2>3. \A i, j \in D : i # j => rank[i] < rank[j] \/ rank[j] < rank[i]
    BY <1>1
  <2> QED
    BY <1>3, <2>1, <2>2, <2>3 DEF Ordered
<1>6. /\ \A i \in D : Cardinality(upto[i]) \in 1..Cardinality(D)
      /\ \A i, j \in D : Cardinality(upto[i]) = Cardinality(upto[j]) => i = j
      /\ \A k \in 1..Cardinality(D) : \E i \in D : Cardinality(upto[i]) = k
  BY <1>2, <1>5, PlacesTaken
<1>7. /\ \A i \in D : Place(boards, i) \in D
      /\ \A i, k \in D : Place(boards, i) = Place(boards, k) => i = k
      /\ \A k \in D : \E i \in D : Place(boards, i) = k
      /\ \A i \in D : Place(boards, i) = Cardinality(upto[i])
  BY <1>1, <1>2, <1>4, <1>6
<1> QED
  BY <1>7 DEF D, upto

\* The sort puts every board at its place.
LEMMA SortedAt ==
  ASSUME NEW boards, Named(boards),
         NEW i \in DOMAIN boards, NEW k \in DOMAIN boards,
         Place(boards, i) = k
  PROVE  NormalizeBoardProfiles(boards)[k] = boards[i]
<1> DEFINE there == CHOOSE j \in DOMAIN boards : Place(boards, j) = k
<1>1. there \in DOMAIN boards /\ Place(boards, there) = k
  OBVIOUS
<1>2. NormalizeBoardProfiles(boards)[k] = boards[there]
  BY DEF NormalizeBoardProfiles
<1> HIDE DEF there
<1>3. there = i
  BY <1>1, NamedPlaces
<1> QED
  BY <1>2, <1>3

\* Where the boards stand does not matter to what the sort makes of them.
LEMMA SortIgnoresOrder ==
  ASSUME NEW boards, Named(boards),
         NEW order \in SetToSeqs(DOMAIN boards)
  PROVE  NormalizeBoardProfiles([i \in DOMAIN boards |-> boards[order[i]]])
           = NormalizeBoardProfiles(boards)
<1> DEFINE D == DOMAIN boards
           other == [i \in D |-> boards[order[i]]]
<1>1. Len(boards) \in Nat /\ D = 1..Len(boards)
  BY DEF Named
<1>2. IsFiniteSet(D) /\ Cardinality(D) = Len(boards)
  BY <1>1, IntervalSize
<1>3. /\ order \in [D -> D]
      /\ \A i, j \in D : order[i] = order[j] => i = j
  BY <1>1, <1>2 DEF SetToSeqs
<1>4. \A k \in D : \E i \in D : order[i] = k
  <2>1. order \in Injection(D, D)
    BY <1>3 DEF Injection, IsInjective
  <2>2. order \in Surjection(D, D)
    BY <1>2, <2>1, FS_Injection
  <2> QED
    BY <2>2 DEF Surjection
<1>5. /\ DOMAIN other = D
      /\ \A i \in D : other[i] = boards[order[i]]
  OBVIOUS
<1>6. Len(other) = Len(boards)
  BY <1>1, <1>5, LenProperties
<1> HIDE DEF other
<1>7. Named(other)
  <2>1. \A i \in D : NameRank(other[i].name) \in Nat
    BY <1>3, <1>5 DEF Named
  <2>2. ASSUME NEW i \in D, NEW k \in D,
               NameRank(other[i].name) = NameRank(other[k].name)
        PROVE  i = k
    <3>1. order[i] \in D /\ order[k] \in D
      BY <1>3
    <3>2. NameRank(boards[order[i]].name) = NameRank(boards[order[k]].name)
      BY <1>5, <2>2
    <3>3. order[i] = order[k]
      BY <3>1, <3>2 DEF Named
    <3> QED
      BY <1>3, <3>3
  <2>3. DOMAIN other = 1..Len(other) /\ Len(other) \in Nat
    BY <1>1, <1>5, <1>6
  <2> QED
    BY <1>5, <2>1, <2>2, <2>3 DEF Named
<1>8. ASSUME NEW i \in D PROVE Place(other, i) = Place(boards, order[i])
  <2> DEFINE S == UpToName(other)[i]
             T == UpToName(boards)[order[i]]
             f == [j \in S |-> order[j]]
  <2>1. /\ S = {j \in D : NameRank(boards[order[j]].name)
                            <= NameRank(boards[order[i]].name)}
        /\ T = {j \in D : NameRank(boards[j].name)
                            <= NameRank(boards[order[i]].name)}
    BY <1>3, <1>5 DEF UpToName
  <2> HIDE DEF S, T
  <2>2. IsFiniteSet(S)
    <3>1. S \subseteq D
      BY <2>1
    <3> QED
      BY <1>2, <3>1, FS_Subset
  <2>3. f \in Bijection(S, T)
    <3>1. f \in [S -> T]
      BY <1>3, <2>1
    <3>2. \A j, k \in S : f[j] = f[k] => j = k
      BY <1>3, <2>1
    <3>3. \A k \in T : \E j \in S : f[j] = k
      BY <1>4, <2>1
    <3> QED
      BY <3>1, <3>2, <3>3 DEF Bijection, Injection, Surjection, IsInjective
  <2>4. Cardinality(S) = Cardinality(T)
    BY <2>2, <2>3, FS_Bijection DEF ExistsBijection
  <2> QED
    BY <1>3, <1>5, <1>7, <2>4, NamedPlaces DEF S, T
<1>9. ASSUME NEW boards2 \in {boards, other}, NEW k \in D
      PROVE  \A i \in D : Place(boards2, i) = k =>
               NormalizeBoardProfiles(boards2)[k] = boards2[i]
  BY <1>5, <1>7, <1>9, SortedAt
<1>10. ASSUME NEW k \in D
       PROVE  NormalizeBoardProfiles(other)[k] = NormalizeBoardProfiles(boards)[k]
  <2>1. PICK i \in D : Place(other, i) = k
    BY <1>5, <1>7, <1>10, NamedPlaces
  <2> QED
    BY <1>3, <1>5, <1>8, <1>9, <2>1
<1>11. /\ NormalizeBoardProfiles(other)
            = [k \in D |-> NormalizeBoardProfiles(other)[k]]
       /\ NormalizeBoardProfiles(boards)
            = [k \in D |-> NormalizeBoardProfiles(boards)[k]]
  BY <1>5 DEF NormalizeBoardProfiles
<1> QED
  BY <1>10, <1>11 DEF other

\* The name of a valid profile is one of NameOrder, at its rank.
LEMMA RankOfName ==
  ASSUME NEW board \in Candidates["board"], ValidProfile(board)
  PROVE  /\ NameRank(board.name) \in Nat
         /\ NameOrder[NameRank(board.name)] = board.name
<1>1. board.name \in ToSet(NameOrder)
  BY DatabaseAssumption DEF ValidProfile, NonEmptyString
<1>2. NameOrder \in Seq(STRING)
  BY DatabaseAssumption
<1>3. DOMAIN NameOrder = 1..Len(NameOrder) /\ Len(NameOrder) \in Nat
  BY <1>2, LenProperties
<1>4. \E i \in DOMAIN NameOrder : NameOrder[i] = board.name
  BY <1>1 DEF ToSet
<1>5. /\ NameRank(board.name) \in DOMAIN NameOrder
      /\ NameOrder[NameRank(board.name)] = board.name
  BY <1>4 DEF NameRank
<1> QED
  BY <1>3, <1>5

\* The board hash is the one of the boards, whatever files they come from.
THEOREM BoardHashFixed == LoadSpec => []BoardHashIgnoresFileNames
<1>1. ASSUME LoadInv PROVE BoardHashIgnoresFileNames
  <2> DEFINE boards == MissionDb.boardProfiles
             D == DOMAIN boards
  <2> SUFFICES ASSUME state = "loaded", Valid(MissionDb),
                      \A i, k \in D : i # k => boards[i].name # boards[k].name,
                      NEW order \in SetToSeqs(D)
               PROVE  CanonicalArray(NormalizeBoardProfiles(
                        [i \in D |-> boards[order[i]]]))
                      = CanonicalArray(NormalizeBoardProfiles(boards))
    BY DEF BoardHashIgnoresFileNames, HashMissionDb
  <2>1. MissionDb \in MissionDbs
    BY <1>1, LoadedTyped
  <2>2. /\ Len(boards) \in Nat /\ D = 1..Len(boards)
        /\ \A i \in D : boards[i] \in Candidates["board"]
    BY <2>1, DatabaseParts
  <2>3. \A i \in D : ValidProfile(boards[i])
    BY DEF Valid
  <2> HIDE DEF boards
  <2>4. \A i \in D : /\ NameRank(boards[i].name) \in Nat
                     /\ NameOrder[NameRank(boards[i].name)] = boards[i].name
    BY <2>2, <2>3, RankOfName
  <2>5. Named(boards)
    BY <2>2, <2>4 DEF Named
  <2> QED
    BY <2>5, SortIgnoresOrder
<1> QED
  BY <1>1, LoadInvariant, PTL
==============================================================================
