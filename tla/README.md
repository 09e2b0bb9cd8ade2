# Formal models of the Smartphone-driven rover

A phone (or a PC) runs the web app; the web app drives a small rover over
Bluetooth Low Energy; a Pico W on the rover checks, times and executes the
commands and stops the motors when anything is wrong.  This directory holds TLA+
models of the parts in which the safety of the rover is decided, TLC
configurations that check them on small instances, and TLAPS proofs for every
value of the constants.

Paths below are relative to the repository.  `FW` is
`firmware/pico-w/arduino/src`, `WEB` is `apps/web/src`, `MDB` is
`packages/mission-db/src`.

## 1. Inventory

| Component | State | Operations | Spoken to by |
|---|---|---|---|
| Safety kernel: `FW/main.cpp`, `FW/protocol/PacketHandler.cpp`, `FW/safety/*` | latch, last heartbeat, active command with its stamp, motor output | setup; loop: read the clock, drain serial, drain BLE, decide, stop or apply; one handler per packet type | the two transports (`poll`), the motor driver |
| Reports: `maybePrintStatus`, `maybeSendBleSafetyState` in `main.cpp` | interval, the moments of the next reports | one look per loop; `?`, `?NNNNN`, `?00000` | the loop; the web app receives `safety_state` |
| BLE transport and parser: `FW/transport/BleGattTransport.*`, `FW/protocol/JsonPacketParser.h` | pending flag, one write buffer, parser error, queue of two | write callback, `poll`, parse in stages, ack and reject | BTstack's callback against the main loop, through shared memory |
| Serial transport: `FW/transport/MockTransport.h` | line buffer, pending packet, next number | read a character, end a line, alias lines | the operator's terminal |
| Motor output: `FW/control/*`, `FW/hal/*` | pin levels, PWM duties | mix, brake, coast, drive | the loop |
| Web command link: `WEB/App.tsx`, `WEB/heartbeat/HeartbeatScheduler.ts`, `WEB/transport/*` | transport in use, shown connection, characteristic, chain of writes, two in-flight flags | connect, disconnect, send, heartbeat effect and timer, change of transport | the operator; the BLE transport, by GATT writes |
| Authorization: `MDB/CommandAuthorizationPipeline.ts` and its guards | none; a mission database is given | evaluate one packet | `App.authorizeAndSend` before a send |
| Manual drive: `WEB/manual/*`, `WEB/packet/*` | sliders, button assignments, browser storage | load, save, press | the web command link |
| Telemetry: `WEB/telemetry/*`, `App.tsx` | last ack, reject, `safety_state` | notification handler, reset button | the rover's reports |
| Mission database: `MDB/loadMissionDb.ts`, `validateMissionDb.ts`, `hashMissionDb.ts`, `canonicalJson.ts` | none; YAML files on disk | load file by file, validate, hash | so far only the tests; made for the authorization |
| Mission definitions, page layout, build files | data | none | everything |

What is hard here, and what each part must get right:

- **Safety kernel.** Every decision is made with a `millis()` value read at the
  start of a loop, on a counter that wraps; an emergency stop is latched at
  once but the motors stop at the end of the loop, with a batch of other
  packets in between.  Correct means: motion ends within a bounded time of the
  last heartbeat and of the end of a command's life, nothing new is obeyed
  before an emergency stop has really stopped the motors, and a command that
  has expired does not come back.
- **BLE transport.** An interrupt-like callback overwrites the buffer that the
  loop reads five times.  Correct means: the newest write is settled whole,
  nothing can keep the loop busy, the queue cannot overflow.
- **Reports.** Moments on a wrapping clock, looked at once per loop.  Correct
  means: never overdue at the end of a loop and never early.
- **Serial transport.** A line may be spread over many polls and one line may
  hold two packets.  Correct means: no overrun, the two packets adjacent, no
  number used twice.
- **Web command link.** Everything is asynchronous: clicks, ticks and the loss
  of the link come between any two awaits.  Correct means: one write at a time,
  commands in the order of the clicks, nothing of an old session in a new one,
  heartbeats that go on.
- **Manual drive.** Three settings stored apart in a storage that may refuse,
  lack or throw; a motion that is carried twice, as powers and as `vx`/`wz`,
  through a wiring correction, two sets of limits and a truncating driver.
  Correct means: what the page shows is what a reload brings back, every press
  is accepted, and the pins do what the sliders and buttons say.
- **Authorization.** Overlapping rules with exemptions.  Correct means: the
  emergency stop always passes, nothing else passes on an exemption, and
  permissions are monotone.
- **Firmware behind its link.** The firmware is told of no connection and no
  disconnection (`connected_` is never set), and a restart forgets everything.
  Correct means: once an outage has lasted, or the board has restarted, nothing
  written before it turns the wheels, whatever arrives afterwards.
- **Telemetry.** What the page shows may be old, replaced on its way, or of a
  rover that has restarted since; the reset button obeys it.  Correct means: an
  acknowledged emergency stop can be relied on, and a latch is learnt of.
- **Mission database.** Read file by file while it may change; values that YAML
  has and JSON has not.  Correct means: what validation passes can be used, and
  nodes that compare hashes decide by the same rules.

`PROJECT.json` lists each hazard at its line with the properties that guard it.

## 2. Modules

| Module | Models | Proofs |
|---|---|---|
| `RoverSafety` | the abstract promise about motion: authority and movement | |
| `RoverFirmware` | the safety kernel; implements `RoverSafety` | `RoverFirmwareProofs` |
| `StatusReporting` | the periodic reports | `StatusReportingProofs` |
| `BleGattTransport` | the receiving side of BLE with the parser's stages | `BleGattTransportProofs` |
| `MockTransport` | the serial line and its aliases | `MockTransportProofs` |
| `RoverLink` | `RoverFirmware` behind a link that is lost, on a board that restarts | `RoverFirmwareProofs` |
| `WebCommandLink` | connection, change of transport, heartbeat timer and write chain; implements `CommandChannel` | `WebCommandLinkProofs` |
| `CommandChannel` | the abstract promise about commands: oldest first, one failure at a time, nothing outlives its connection | |
| `OperatorView` | buttons, writes, notifications and the page's display, over the rover of `RoverSafety` | `OperatorViewProofs` |
| `CommandAuthorization` | the pipeline, its guards and its two callers | `MissionDbProofs` |
| `ManualDrive` | sliders, assignments and their storage; buttons down to the pins | `ManualDriveProofs` |
| `MissionDatabase` | loading, validation, hashes, and what the guards take from the database | `MissionDbProofs` |

Each has an `MC...` module with the small values of its constants.  Definitions
marked *Mutant* are plausible mistakes in the definition that follows them; no
specification uses them, they serve to show that a property would notice.

### RoverFirmware

`phase` is the place of `roverFirmwareLoop`: `LoopBegin` copies `clock` to
`nowMs`; `HandleCmdVel`, `HandleEmergencyStop`, `HandleHeartbeat` and
`HandleResetEstop` are the cases of `PacketHandler::handle`, possible while a
transport is drained; `TransportDrained` is `poll` returning false; `SafetyStop`
and `ApplyActiveCommand` are the two branches at the end of the loop.  `Tick`
lets a millisecond pass between any two steps.  The variables are those of the
code.  A command is reduced to what its output depends on: is it manual PWM,
does it brake or coast, does any wheel turn.  Four history variables measure
real time and remember obligations; `loopMs` also carries the assumption that
the loop reads the clock again at most `MaxLoopMs` later.

`RoverSafety` has no clock, packet or transport: an authority that is granted,
withdrawn or replaced by the emergency stop, and motors that start only under
it.  The refinement maps `latched` and `hasActiveCmdVel` to the authority.  An
expired command keeps its authority there, as `hasActiveCmdVel` stays set; that
it nevertheless stays dead is the property `ExpiredCommandStaysDead`.

### BleGattTransport

`OnCommandWrite` may happen between any two steps of the main loop; the loop's
steps are the separate reads of the buffer (classify, truncation test, type,
seq, the `cmd_vel` fields), so that a packet may mix several writes; each part
of a packet carries the number of the write it was read from.  `estopWritten` is set by
an emergency stop that the parser would take (`Acceptable`): one too long for the
buffer is refused with a reject, as the contract allows.  `slot` is the
buffer with its truncation flag, `queue` the two-packet queue, `outcome` the
verdict that is acked or rejected.  A callback runs to completion.

### StatusReporting

A loop is `LoopBegin(ms)`, any number of status packets, `Report`.  `Due` is the
signed comparison of the code on a clock of `ClockMod`.

### MockTransport

`given` counts how often `poll` returned a packet of each number.  One step
reads a character, ends a poll, or both.  A line is a sequence of
character classes: the six motion letters are one class.

### WebCommandLink

JavaScript's rule that promise reactions run before the next task is the guard
`TaskBoundary`.  Every call of `send` is a job with the characteristic and the
chain it was queued on; `StartWrite` is the reaction that starts or refuses it,
`Deliver` the arrival at the rover, `WriteResolves` and `WriteRejects` the end of
`writeValue`.  `SendHeartbeat` is used by the interval timer and by the effect
that is run anew when Mission ID or Rover ID is edited: the pipeline first, then
`SendHeartbeatIfIdle`.  Attempts to connect overlap, as the button stays enabled.

Of the pipeline's reasons to refuse only one can occur to the page's own packets,
since the permissions and hashes are constants of the page and `ManualDrive` shows
its commands to be within the limits: an empty Mission ID or Rover ID.  `idsGiven`
says that neither is empty; an edit may change it at any time.  While it is false
heartbeats and commands are refused; `reset_estop` does not pass the pipeline
(`Authorized`).  So the kinds of command are one that is authorized and
`reset_estop`.

Transport objects are numbered, the odd ones being Bluetooth ones, since every
`changeTransportMode` makes a new object of the other kind.  An old object is
never used again but what was under way on it goes on, an attempt to connect
included: `FinishConnect` sets the characteristic of the transport the attempt
began on and marks the page connected whichever transport it has now.  The mock
transport is its connected flag.

`CommandChannel` has no attempts, chains, promises or heartbeats: a set of
numbered commands that are under way, of which the oldest arrives or fails, or
all are cut off together.  The refinement maps `underWay` to the commands that
have not arrived and whose characteristic is of the present link.  A loss of
the link, a disconnect and a change of transport are `CutOff`; a refused or
failed write is `Fail` while its link is there, and nothing when it was cut off
before.

### RoverLink

EXTENDS `RoverFirmware` and takes its steps as they are; `HandlePacket` says
which packet `poll` returns, the one in the write buffer, and that the flag may
be up for it again: a write that came after the flag was taken down and before
the parse is handled twice.  A central writes any packet whenever the link is up.
`Restart` is `roverFirmwareSetup` with every
static variable at its initialiser, possible at any moment of a loop; the loop's
clock begins at 0 again.  `stale` follows the active command, `slotStale` the
packet in the buffer, and `outage` the time without a link.

### OperatorView

Page, link and rover together, each by what its own module establishes: the
rover is `RoverSafety` (which `RoverFirmware` implements), writes arrive one at a
time, in order and on their own connection (`WebCommandLink`, as a `CommandChannel`), a write replaces
one that was not read (`BleGattTransport`), `safety_state` comes again and again
(`StatusReporting`).  `HandlePacket` answers from the cases of
`PacketHandler::handle` and may, as in `RoverLink`, handle one write twice.  A
packet made of two writes has the type of the first, so it is handled like the
first; only its ack, which repeats the `seq` of the second, is not modelled (see
the list in section 3).  `EndLoop` is the report, when due, and then the motors;
`Notify` is `notifyJson`, where a value not sent yet is replaced.
`RoverRestarts` is a step like any other.  `epoch` counts clicks on Reset and
restarts, and stands for the `seq` by which an ack is told to be the one of the
last emergency stop.

### MissionDatabase

A database is its files, a file its `Definition`: is it an object, is its version
good, which shape has the section it must have, which entries, name and values.
Values are leaves: a number, an infinite one, not a number, null, a date and so
on, because `canonicalJson` and the guards tell them apart differently (`Json`
against `IsLimit` and `Granted`).  `list` is the one array that guards read: the
`release_allowed_modes` of the safety policy, or a mission profile's
`disabled_capabilities_in_competition`.  A guard asks whether a string is in it
(`Listed`), of a value that is no array it finds nothing.  `Rules` is all that the
guards and the registry read of a database.  Directories are listed and files read one at a
time while files are written and removed; whatever combination results is
judged.  SHA-256 is taken to be injective.

`Profiles` gives the files of a directory in the order of their names: its k-th
entry is the file with k-1 listed ones before it (`Kth`).
`NormalizeBoardProfiles` is the sort, told by where each board ends up: `Place`
counts the boards of smaller names and those of the same name before it, which
is what a stable sort does.  `localeCompare` is the order of `NameOrder`, which is
assumed to tell any two names apart.  `localeCompare` does hold a few different
strings to be equal, such as two Unicode forms of one letter; boards of two such
names behave like two boards of one name.

### CommandAuthorization

One operator per guard, `Evaluate` for the order of the stages, `Authorize` for
any caller, `AuthorizeAndSend` and `SendResetEstop` for the web app.  A mission
database is a record of the permissions the guards read; its values are
quantified over.

### ManualDrive

The page's state with what the browser's storage holds, one action per slider,
assignment and button, and `ReloadPage` with each way a browser may treat
`window.localStorage`.  A stored percentage that is missing, malformed or out of
range is one value, as `sanitizePwmPercent` does not tell them apart; the empty
text is not among them, as `Number("")` is 0.  Powers are 400ths of full power,
in which everything a slider yields is whole.  Computed in 32-bit floating
point, the duty of every slider position is the one of the model; after the
detour through `vx`, `wz` and the mixer it may be one lower, so that
`CompatDrivesTheSame` is about powers.

## 3. Runs

| Run | Question | Bounds | Distinct states |
|---|---|---|---|
| `firmware` | Does motion end in time, is an emergency stop served first, does an expired command stay dead, does the loop implement `RoverSafety`? | clock of 10 ms, timeout 3, TTL up to 2, loops of up to 2 ms, four commands | 505,808 |
| `rover_link` | Does an outage, or a restart, end the command, whatever was in the buffer and however soon heartbeats come again? | clock of 5, timeout 1, loops of up to 1 ms, a manual command and one with a TTL | 659,354 |
| `ble_transport` | Is the newest write settled whole however the callback interrupts the parse? | 4 writes of 7 kinds of payload | 61,559 |
| `ble_transport_estop` | Can a valid emergency stop be lost? Yes, overwritten before the loop reads it, with no reject. | 3 writes, none of which would be refused | violation |
| `status_reporting` | Do both reports keep their pace across the wrap? | clock of 20, intervals 2 to 6 and 4, loops of up to 3 ms | 18,873 |
| `serial_transport` | Overruns, separated aliases, a packet handed out twice? | lines of 3 characters, 5 numbers | 105,615 |
| `web_link` | One write at a time, is the app a command channel (in order, nothing from an old session or transport), do heartbeats go on? | 2 attempts, 3 commands of 2 kinds, 3 changes of transport | 290,750 |
| `operator_view` | Is an acknowledged emergency stop still in force, and does the page learn of a latch? | 2 writes and 2 notifications under way, 2 resets or restarts | 190,214 |
| `authorization` | Exemptions, competition, monotonicity. | 64 databases, 108 requests | 13,968 |
| `manual_drive` | Are settings kept, presses accepted, does the policy see the motion that is driven? | sliders at 0, 1, 100 (and the default 50), two buttons remapped, two initial storages | 690,800 |
| `manual_drive_storage` | Does the page run without storage? Not when reading `window.localStorage` throws. | the same | violation |
| `mission_database` | Can every valid database be used, do equal hashes mean equal rules, is the board hash independent of file names? | 6 files, 1 to 5 contents each, one edit during a load | 1,218,976 |

Why these bounds are enough to be interesting:

- The clocks are longer than a timeout plus two loops and short enough to wrap
  many times with commands and heartbeats anywhere on them; ages saturate at the
  size of the clock, which makes a stamp that is a whole turn old reachable.
  Loops of 0, 1 and 2 ms let a deadline pass within a loop and between loops.
  `rover_link` has a clock one millisecond longer than the shortest that
  `ConfigAssumption` allows; an outage may last many turns of it, the case in which
  the watchdog reads as fed again.
  The firmware's commands are the four combinations that differ in the output or
  in the TTL; the default command is a fifth.
- Three writes are enough to mix a packet from a type, a seq and a body of
  different writes; the fourth one settles after that.
- Lines of up to three characters are every line the parser accepts with two
  status digits, every line shorter, and those one character too long.
- Two attempts give an old and a new characteristic and chain; three commands
  and a heartbeat give a job in flight, jobs behind it and one of the new
  session.  Three changes of transport give two Bluetooth transports with a mock
  one before and between them, so that an old one can have writes and attempts
  under way while the new one is used.  Of the commands one kind is refused while
  an ID is empty and the other, `reset_estop`, is not.
- In `OperatorView` two places on each way are enough for a reset and a stop to be
  under way together and for a report to be overwritten; two epochs, for a stop
  acknowledged before, between and after resets and restarts.
- In `MissionDatabase` an edit may fall between any two reads.  The candidates
  hold good contents, contents that the checks on the version, the sections, the
  entries and the names refuse, a file that is no object, and values that JSON
  confuses: infinity with null in a limit, NaN with null in `release_allowed_modes`,
  a date with an empty object in a board's capability; and the name that disables
  remote driving both in an array and as a mere string.
- The sliders' two ends, the step next to zero and the default are where the
  offset, the limits and the truncation change; the proofs cover every position.
- Every combination of the four mission permissions is there, with a generous
  and a poor board and policy, and registries that know everything or little.

The *violation* runs are disagreements between the code and what the documents
say; `PROJECT.json` quotes the lines.  Others were found while reading or
modelling and have no run, because the disagreement is visible in a few lines:

- `main.cpp:117`: a manual PWM command is exempt from its TTL, for as long as
  heartbeats arrive, against `docs/design/ble_gatt_contract.md:124` ("Pico W must
  stop motor output when the active `cmd_vel` expires").  The firmware's README
  describes the hold as intended; `TtlDeadline` is about the other commands.
- `WebBluetoothTransport.ts:160`: an `emergency_stop` is queued behind whatever was
  clicked before it, against line 147 ("`emergency_stop` has highest priority").
- `App.tsx:364`: `reset_estop` does not pass the authorization pipeline, against
  line 62; sent through it, it would be refused as unknown.
- `BleGattTransport.cpp`: nothing notices a BLE disconnect; the contract's section
  on it wants heartbeat loss and a stop at once, the firmware stops on the
  heartbeat timeout, which is what `HeartbeatDeadline` and `OutageEndsCommand` say.
- `App.tsx:163` and `283`: with an empty Mission ID or Rover ID
  `PacketEnvelopeValidator.ts:58-59` makes the page refuse every heartbeat and every
  command, the emergency stop button included, against
  `docs/design/ble_gatt_contract.md:148` ("A valid `emergency_stop` must be accepted
  at all times", if the page's packet is taken to be valid).  A connected rover then
  stops on the heartbeat timeout.  `HeartbeatsGoOn` is about a page whose IDs are
  given.
- `App.tsx:210`: a connection attempt that was pending when the transport was
  changed marks the page connected with a transport that is not.
- `App.tsx:215`: neither a disconnect nor a new connection clears the last
  `safety_state` and ack; after a restart of the rover the page shows "latched",
  with Reset enabled, until the next report, or without a connection for good.
- `canonicalJson.ts:2`: infinity and NaN hash like null, a date like an empty
  object.  `SameHashesSameRules` shows that no guard tells these apart, so that
  equal hashes still mean equal rules.
- `validateMissionDb.ts`: two board profiles may have the same name; then the
  board hash depends on the names of their files after all
  (`BoardHashIgnoresFileNames` is about different names).
- `JsonPacketParser.h:22`: an unknown message leaves `lastError_` as it was, so
  that the reject may carry the reason of an earlier payload (`reasonOf` in
  `BleGattTransport` keeps track of it).
- `BleGattTransport.cpp:76`: the flag goes down before the buffer is read.  A write
  that arrives between the two is handled at once and, as it has raised the flag,
  again, with two acks.  One that arrives during the parse can lend its `seq` to the
  packet of the write before: the ack that names an emergency stop can then be
  the one of a reset, a moment before the stop itself is handled.
- `PacketHandler.cpp:52`: `?00000` behind a `?` in the same batch takes back the
  status line asked for; `main.cpp:175`: a loop at millisecond 0 of the wrapping
  clock prints a line although periodic status is off.
- `HeartbeatWatchdog.h:14`: a whole turn of `millis()` (49.7 days) after the last
  heartbeat the watchdog reads as fed for the length of the timeout; the
  deadlines state the exception (`hbAge = ClockMod`).
- `ManualDriveSettingsStorage.ts:119`: a stored empty text is read as 0 percent
  where the firmware's README promises the default for malformed values.
- `SafetyPolicyGuard.ts`: `require_arm_before_fire` of `core/safety.yaml` is read by
  no guard.
- `MockTransport.h:41`: a line that is too long is cut into a rejected head and a
  tail that is parsed as a line of its own.

## 4. Fairness and deadlock

- `RoverFirmware`: the Arduino core calls `loop()` for ever and each step
  terminates (weak fairness of `LoopBegin`, of the end of the loop, and of
  `Tick`, time passes).  A transport runs dry again and again
  (`TransportDrained`): the loop reads faster than a serial line and a BLE link
  deliver.  The code has no bound on packets per loop that would give this
  without an assumption.  Handlers have no fairness: nobody must send anything.
- `BleGattTransport`: the loop keeps running; no central must write.
- `OperatorView`: the browser hands over what it has received (weak fairness of
  `HandleTelemetryMessage`), and the firmware's loop ends again and again at a
  moment when `safety_state` is due (strong fairness of `EndLoop(TRUE)`, justified by
  `SafetyStatePaced`; `TransportDrained` is the same assumption as above).  Writes,
  operator and link have none: `PageLearnsLatch` is about a rover that is left
  with nothing but heartbeats to handle.
- `RoverLink` and `MissionDatabase` are about safety only.
- `WebCommandLink`: promise reactions run and `writeValue` settles in the end
  (weak fairness of `Writing`), the interval timer ticks (`HeartbeatTick`), and a
  link that stays up does not fail every heartbeat for ever (strong fairness of
  `DeliverHeartbeat`).  Operator and link have none.  `HeartbeatsGoOn` is about the
  program's own part: that a heartbeat is attempted again and again.
- Deadlock is checked everywhere but in `WebCommandLink`, whose bounds on clicks
  run out: a page that is not connected and whose operator has left really stops.

## 5. Proofs

All are for every value of the constants under the named assumptions, which say
that a timeout plus two loops fits the clock (`ConfigAssumption`), that twice an
interval plus a loop fits it (`ReportingAssumption`: the comparison is signed),
that there is room for a line of one character and its terminating zero
(`LineAssumption`), or only give the constants' types.

- `RoverFirmwareProofs`. The inductive invariant joins `TypeOK`;
  `AgesExact` (the history variables equal what wrapping subtraction computes,
  as long as they are below a turn); `HeartbeatFresh` and `TtlFresh` (the deadlines,
  sharpened by where the loop is: inside a loop one more loop has gone by since
  the last check than between loops); `StopBeforeNewCommand`; and `ExpiredIsOld` (a
  command seen expired is older than its TTL even at the time the loop uses).
  None of the deadlines is inductive alone: that a check with a stale `nowMs` is at
  most one loop behind needs `AgesExact`.  From it follow the two deadlines,
  `ExpiredCommandStaysDead` as an action property, and the refinement of
  `RoverSafety`, step by step.
- `RoverFirmwareProofs`, on `RoverLink`. `LinkInv` adds to the firmware's invariant that what is in the
  buffer is never older than two loops (`SlotFresh`), that whatever moves or may
  move was seen with a fresh heartbeat at the last check (`AliveIsFresh`), and that
  an outage is not longer than the heartbeat's age and a loop (`OutageCounted`).
  `OutageEndsCommand` is not inductive without them: a heartbeat handled after the
  link went down makes the age start again.  Every step but a restart is a step of
  the firmware (`StepOfFirmware`), so its deadlines carry over
  (`DeadlinesSurviveRestarts`).
- `OperatorViewProofs`. `ViewInv`: nothing under way is of an epoch to come
  (`FromThePast`); the reset that begins an epoch is before the stops of that
  epoch wherever both are (`ResetsFirst`); and while the ack of the current stop
  exists, on its way or on the page, no reset is under way and the latch is set
  (`AckKept`).  The rover's part refines `RoverSafety` step by step.
- `BleGattTransportProofs`. `ReadSoFar`: while the pending flag is down, whatever
  the loop has read it has read from the write now in the buffer, because the
  flag goes down before the first read.  So the last parse that is not
  interrupted is whole, for every set of payloads and any number of writes; with
  it, that the queue is empty outside of a poll.
- `StatusReportingProofs`. `Scheduled` says how far away the next moment is on the
  wrapping clock: ahead by what is missing, or behind by the excess.
- `MockTransportProofs`. Type correctness is the absence of an overrun.  A
  packet handed out has a number below `nextSeq` that is not pending, and the one
  that is pending has not been handed out; with one step that counts a delivery
  (`ReturnCounts`), no number is counted twice.
- `WebCommandLinkProofs`, for every number of clicks, attempts and changes of
  transport, from the safety part of the specification alone (no fairness).
  `LinkInv` joins `TypeOK` with five facts.  `ChainsCounted`: there are no more
  chains than attempts that are over and changes of transport, so the numbers
  do not run out.  `ConnectionShape`: a characteristic is of an attempt that is
  over and of a transport that has existed, also when a change of transport
  overtook the attempt.  `LiveAreCurrent`: a send whose characteristic can still
  reach the rover is of the present chain and transport, because whatever
  starts a new chain kills the old characteristic in the same step.
  `OnlyTheFirstWrites`: of one chain only the first send is ever being written;
  with the fact before, `OneWriteAtATime` follows.  `InOrder`: the operator's
  commands are queued in the order of their numbers, and those that can still
  arrive are above the last one that did.  None of the three properties is
  inductive alone: two writes could meet if a live send might be of an old
  chain.  The lemmas `Removal` and `Addition` say what taking a send out of the
  queue and putting one behind it does to such facts.  The refinement of
  `CommandChannel` (`LinkIsChannel`) follows step by step: what settles or arrives is
  the first of the chain, hence the oldest under way (`FirstIsOldest`), numbers tell
  commands apart (`NumbersTell`), and a new link revives nothing, since the attempt
  that makes it is not over and every send was made through one that is
  (`ConnectionStepsCutOff`).
- `MissionDbProofs`, on `CommandAuthorization`. `stage` is always the decision on the
  last request; each guard is monotone in the permissions (one lemma each), and so
  is the pipeline.  The three other theorems follow from what authorization
  implies.
- `MissionDbProofs`, on `MissionDatabase`, for every set of files and definitions.
  `LoadInv` says that what is on the disk and what was read is a definition of its
  kind, that only files of a directory are listed in it, and that a load which is
  done has read exactly the core files and what it listed; so the result is one of `MissionDbs` (`LoadedTyped`; that `Kth` counts a set through needs
  `KthProperties`).  The rest is about databases and no longer about steps.
  Validation excludes each cause of an exception (`ValidParts`).  `Json` keeps
  whatever `IsLimit` and `Granted` look at (`JsonKeepsWhatGuardsRead`) and what
  `Listed` finds in a list of any length (`JsonKeepsLists`), hence a
  canonical value determines its part of the rules (`CanonicalTells`), array by
  array (`HashTellsRules`).  In a finite set whose elements are ordered there is
  exactly one with k elements up to itself (`PlacesTaken`), so boards of distinct
  names have distinct places that do not depend on where they stood
  (`NamedPlaces`, `SortIgnoresOrder`).  `DatabaseAssumption` says that the files of the
  directories have different paths, that the candidates are well formed (what is no
  object holds nothing) and that the names of boards are in `NameOrder`.
- `ManualDriveProofs`. `SettingsSurviveReload` is inductive with `TypeOK`.  The four
  properties of commands follow from `TypeOK` alone, by the two powers being even
  and within full scale (`LeftPowerRange`, `RightPowerRange`), the shape of each
  command (`CommandShape`) and the range of a duty (`DutyRange`).

Every invariant and every action property that a passing run checks is proved.
Only model-checked are the properties under fairness (`EstopServed`,
`EveryWriteSettles`, `HeartbeatsGoOn`, `PageLearnsLatch`), which the prover does not
reach: `ENABLED` and the fairness rules are beyond it.
Proved, and in no run: `MismatchStopsCommands`, `CommandsArriveInOrder`,
`RequestPrinted`, `OppositesReverse` and `SlidersMeanPower`.

## 6. Not modelled, and why

- Text: JSON scanning and printing, the wording of logs and status lines, page
  layout.  A field is valid or not.
- The packet builders and the codec: records and their JSON text.
- The rounding of floating point, and the mixer's scaling beyond full power.
- SHA-256, and YAML: anchors that make a value contain itself would not end in
  `toCanonicalValue`; no file of the repository has one.
- Nothing under `apps` or `firmware` loads the mission database yet; the web app
  uses constants of its own.  `MissionDatabase` models the package as its tests use
  it.
- The list of packets that `MockRoverTransport` keeps for tests.
- Packets typed at the serial port while the Bluetooth link is used: `RoverLink`
  has no serial commands.  `RoverFirmware` has both transports.
- How long a notification or a write takes; BLE's own retransmission.
- Empty IDs in `OperatorView`: a button the pipeline refuses changes nothing there.

## 7. Plan

Done, in the order of importance: `RoverFirmware` with `RoverSafety`,
`BleGattTransport`, `StatusReporting`, `WebCommandLink`, `CommandAuthorization`,
`MockTransport`, `ManualDrive`; then the change of transport, `RoverLink`,
`OperatorView` and `MissionDatabase`; proofs about all of them.  Next:

1. The mixer's scaling beyond full power, and the serial port in `RoverLink`.
2. That `BleGattTransport` implements the buffer which `RoverLink` and `OperatorView`
   take it for, one whose packet may be handled twice, as a refinement.
