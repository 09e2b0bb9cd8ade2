----------------------------- MODULE ManualDrive -----------------------------
(***************************************************************************)
(* Manual driving from the page down to the motor pins: the two sliders,   *)
(* the button assignments and their browser storage (App,                  *)
(* ManualDriveSettingsStorage), the command a button sends                 *)
(* (manualDriveCommands), the limits it must pass on the way (safety       *)
(* policy, firmware parser) and the duties the driver puts on the pins.    *)
(*                                                                         *)
(* Powers are counted in 400ths of full power, in which every power a      *)
(* slider yields is whole.  The rounding of floating point is left out; it *)
(* never reaches the duty of a manual command.  The link is ideal and the  *)
(* rover neither latched nor timed out: WebCommandLink and RoverFirmware   *)
(* model those.                                                            *)
(***************************************************************************)
EXTENDS Integers

CONSTANTS
  Percents,        \* the slider values the operator chooses
  Reassignments,   \* the <<button, direction>> pairs the operator chooses
  InitialStored    \* what the storage may hold from earlier

Directions == {"forward", "back", "left", "right"}
Percent == 0..100
DefaultPercent == 50
Fresh == [d \in Directions |-> d]   \* defaultManualButtonAssignments

\* Unusable stands for a stored percentage that is missing, no integer or out
\* of range, "invalid" for an assignment that is missing or unknown.  (The
\* empty text reads as the number 0, and is not told from it.)
Unusable == 101
Stored == [left : Percent \cup {Unusable}, right : Percent \cup {Unusable},
           assignments : [Directions -> Directions \cup {"invalid"}]]

\* How the browser treats window.localStorage: setItem throws; it is not
\* there, or getItem throws; reading the property itself throws.
Access == {"works", "readOnly", "absent", "denied"}

ASSUME ManualAssumption ==
  /\ Percents \subseteq Percent
  /\ Reassignments \subseteq Directions \X Directions
  /\ InitialStored \subseteq Stored

VARIABLES
  access,        \* as of the page load
  stored,        \* the contents of the storage
  running,       \* did the page come up?
  leftPwmPercent, rightPwmPercent, buttonAssignments,
  pins           \* the duties on IN1 and IN2 of the left and right motor

settings == <<leftPwmPercent, rightPwmPercent, buttonAssignments>>
vars == <<access, stored, running, settings, pins>>

------------------------------------------------------------------------------
(* manualDriveCommands                                                     *)

Full == 400

\* normalizePwmPercent and normalizeRightPwmPercent.  Mutant: the offset of
\* the right side is added to the whole range.
NormalizePwmPercent(percent) ==
  IF percent < 0 THEN 0 ELSE IF percent > 100 THEN 100 ELSE percent
LeftPower(percent) == 4 * NormalizePwmPercent(percent)
RightPowerOverfull(percent) == IF percent = 0 THEN 0 ELSE 200 + 4 * percent
RightPower(percent) ==
  LET normalized == NormalizePwmPercent(percent)
  IN  IF normalized = 0 THEN 0 ELSE 200 + 2 * normalized

ApplyCurrentWiringMap(logicalLeft, logicalRight) ==
  [left |-> logicalRight, right |-> -logicalLeft, brake |-> FALSE,
   coast |-> FALSE]

CreateManualDriveCommand(direction, leftPercent, rightPercent) ==
  LET l == LeftPower(leftPercent)
      r == RightPower(rightPercent)
  IN  CASE direction = "forward" -> ApplyCurrentWiringMap(l, r)
        [] direction = "back"    -> ApplyCurrentWiringMap(-l, -r)
        [] direction = "left"    -> ApplyCurrentWiringMap(-l, r)
        [] direction = "right"   -> ApplyCurrentWiringMap(l, -r)

StopCommand == [left |-> 0, right |-> 0, brake |-> TRUE, coast |-> FALSE]
NeutralCommand == [left |-> 0, right |-> 0, brake |-> FALSE, coast |-> TRUE]

\* manualPwmToCompatCmdVel; every power is even.  Mutant: the sign of wz.
CompatVx(command) == (command.left + command.right) \div 2
CompatWzReversed(command) == (command.left - command.right) \div 2
CompatWz(command) == (command.right - command.left) \div 2

------------------------------------------------------------------------------
(* The limits, and the motor output                                        *)

WithinUnit(power) == -Full <= power /\ power <= Full

\* SafetyPolicyGuard sees vx and wz, the firmware's parser the two powers.
PolicyAllows(command) ==
  WithinUnit(CompatVx(command)) /\ WithinUnit(CompatWz(command))
ParserAccepts(command) ==
  WithinUnit(command.left) /\ WithinUnit(command.right)

\* DifferentialDriveMixer.mix without its scaling, which starts beyond Full.
MixLeft(vx, wz) == vx - wz
MixRight(vx, wz) == vx + wz

\* Tb67hMotorDriver.
Duty(power) == ((IF power < 0 THEN -power ELSE power) * 255) \div Full
MotorPins(power) ==
  [in1 |-> IF power > 0 THEN Duty(power) ELSE 0,
   in2 |-> IF power < 0 THEN Duty(power) ELSE 0]

BrakePins == [in1 |-> 255, in2 |-> 255]
CoastPins == [in1 |-> 0, in2 |-> 0]
Both(motorPins) == [left |-> motorPins, right |-> motorPins]

\* The parser's coast flag, and applyActiveCommand for a manual command.
Coasts(command) ==
  command.coast \/ (~command.brake /\ command.left = 0 /\ command.right = 0)
Output(command) ==
  IF command.brake THEN Both(BrakePins)
  ELSE IF Coasts(command) THEN Both(CoastPins)
  ELSE [left |-> MotorPins(command.left), right |-> MotorPins(command.right)]

------------------------------------------------------------------------------
(* ManualDriveSettingsStorage                                              *)

\* Mutant: what is stored is taken as it is.
SanitizePwmPercentNot(value) == value
SanitizePwmPercent(value) ==
  IF value \in Percent THEN value ELSE DefaultPercent

SanitizeButtonAssignments(value) ==
  [b \in Directions |-> IF value[b] \in Directions THEN value[b] ELSE b]

\* loadManualDriveSettings.
Restored == [left |-> SanitizePwmPercent(stored.left),
             right |-> SanitizePwmPercent(stored.right),
             assignments |-> SanitizeButtonAssignments(stored.assignments)]
Defaults == [left |-> DefaultPercent, right |-> DefaultPercent,
             assignments |-> Fresh]
Loaded(how) == IF how \in {"works", "readOnly"} THEN Restored ELSE Defaults

Init ==
  /\ access \in Access
  /\ stored \in InitialStored
  /\ running = (access # "denied")
  /\ leftPwmPercent = Loaded(access).left
  /\ rightPwmPercent = Loaded(access).right
  /\ buttonAssignments = Loaded(access).assignments
  /\ pins = Both(BrakePins)

\* The page is loaded.  When window.localStorage throws, so does the
\* initialiser of the page's state, and no page comes up.
ReloadPage(how) ==
  /\ access' = how
  /\ running' = (how # "denied")
  /\ leftPwmPercent' = Loaded(how).left
  /\ rightPwmPercent' = Loaded(how).right
  /\ buttonAssignments' = Loaded(how).assignments
  /\ UNCHANGED <<stored, pins>>

\* savePwmPercent and saveButtonAssignments: a failure to store is ignored.
Save(contents) == stored' = IF access = "works" THEN contents ELSE stored

MoveLeftSlider(percent) ==
  /\ running
  /\ leftPwmPercent' = percent
  /\ Save([stored EXCEPT !.left = SanitizePwmPercent(percent)])
  /\ UNCHANGED <<access, running, rightPwmPercent, buttonAssignments, pins>>

MoveRightSlider(percent) ==
  /\ running
  /\ rightPwmPercent' = percent
  /\ Save([stored EXCEPT !.right = SanitizePwmPercent(percent)])
  /\ UNCHANGED <<access, running, leftPwmPercent, buttonAssignments, pins>>

\* Mutant: only the button that was changed is stored.
ChangeButtonAssignmentOnly(button, direction) ==
  /\ running
  /\ buttonAssignments' = [buttonAssignments EXCEPT ![button] = direction]
  /\ Save([stored EXCEPT !.assignments =
             [Fresh EXCEPT ![button] = direction]])
  /\ UNCHANGED <<access, running, leftPwmPercent, rightPwmPercent, pins>>
ChangeButtonAssignment(button, direction) ==
  /\ running
  /\ buttonAssignments' = [buttonAssignments EXCEPT ![button] = direction]
  /\ Save([stored EXCEPT !.assignments =
             SanitizeButtonAssignments(buttonAssignments')])
  /\ UNCHANGED <<access, running, leftPwmPercent, rightPwmPercent, pins>>

------------------------------------------------------------------------------
(* The buttons                                                             *)

SendManualPwmCommand(command) ==
  /\ running
  /\ pins' = IF PolicyAllows(command) /\ ParserAccepts(command)
             THEN Output(command) ELSE pins
  /\ UNCHANGED <<access, stored, running, settings>>

CommandOf(direction) ==
  CreateManualDriveCommand(direction, leftPwmPercent, rightPwmPercent)

SendManualDirection(button) ==
  SendManualPwmCommand(CommandOf(buttonAssignments[button]))
SendExplicitStop == SendManualPwmCommand(StopCommand)
SendNeutralCoast == SendManualPwmCommand(NeutralCommand)

Next ==
  \/ \E how \in Access : ReloadPage(how)
  \/ \E percent \in Percents :
       MoveLeftSlider(percent) \/ MoveRightSlider(percent)
  \/ \E change \in Reassignments :
       ChangeButtonAssignment(change[1], change[2])
  \/ \E button \in Directions : SendManualDirection(button)
  \/ SendExplicitStop
  \/ SendNeutralCoast

Spec == Init /\ [][Next]_vars

------------------------------------------------------------------------------
(* Properties                                                              *)

Pins == [in1 : 0..255, in2 : 0..255]

TypeOK ==
  /\ access \in Access /\ stored \in Stored /\ running \in BOOLEAN
  /\ leftPwmPercent \in Percent /\ rightPwmPercent \in Percent
  /\ buttonAssignments \in [Directions -> Directions]
  /\ pins \in [left : Pins, right : Pins]

(***************************************************************************)
(* While the storage works, a reload at any moment brings back exactly     *)
(* what the page shows, although every setting is stored by itself, some   *)
(* never were, and what was there before may be corrupt.                   *)
(***************************************************************************)
SettingsSurviveReload ==
  access = "works" =>
    Restored = [left |-> leftPwmPercent, right |-> rightPwmPercent,
                assignments |-> buttonAssignments]

(***************************************************************************)
(* Whatever the sliders say, every drive button's command passes both the  *)
(* safety policy of the page and the firmware's parser.                    *)
(***************************************************************************)
EveryPressAccepted ==
  \A d \in Directions :
    PolicyAllows(CommandOf(d)) /\ ParserAccepts(CommandOf(d))

Opposite == [d \in Directions |->
  CASE d = "forward" -> "back" [] d = "back" -> "forward"
    [] d = "left" -> "right" [] d = "right" -> "left"]

Reversed(motorPins) == [in1 |-> motorPins.in2, in2 |-> motorPins.in1]

(***************************************************************************)
(* Opposite buttons drive both wheels in opposite directions with equal    *)
(* duties, through the wiring correction and the rounding of the driver.   *)
(***************************************************************************)
OppositesReverse ==
  \A d \in Directions :
    LET there == Output(CommandOf(d))
        back == Output(CommandOf(Opposite[d]))
    IN  there.left = Reversed(back.left) /\ there.right = Reversed(back.right)

(***************************************************************************)
(* A slider at zero leaves its wheel without current, any other value      *)
(* turns it, and the right side then has at least half its duty.  (The     *)
(* wiring correction puts the right side on the left motor's pins.)        *)
(***************************************************************************)
Turns(motorPins) == motorPins.in1 > 0 \/ motorPins.in2 > 0
SlidersMeanPower ==
  \A d \in Directions :
    LET out == Output(CommandOf(d))
    IN  /\ Turns(out.right) <=> leftPwmPercent > 0
        /\ Turns(out.left) <=> rightPwmPercent > 0
        /\ rightPwmPercent > 0 =>
             out.left.in1 + out.left.in2 \in 127..255

(***************************************************************************)
(* The vx and wz sent along for compatibility mean the same motion: mixed  *)
(* by DifferentialDriveMixer they give the two powers of the command, and  *)
(* its scaling never sets in.                                              *)
(***************************************************************************)
CompatDrivesTheSame ==
  \A d \in Directions :
    LET command == CommandOf(d)
        vx == CompatVx(command)
        wz == CompatWz(command)
    IN  /\ MixLeft(vx, wz) = command.left /\ WithinUnit(MixLeft(vx, wz))
        /\ MixRight(vx, wz) = command.right /\ WithinUnit(MixRight(vx, wz))

------------------------------------------------------------------------------
(* What the documents say, where the code does something else.             *)

(***************************************************************************)
(* ManualDriveSettingsStorage.ts: "Browser storage may be disabled. UI can *)
(* continue with in-memory state."  Storage that is disabled by throwing   *)
(* on access keeps the page from coming up.                                *)
(***************************************************************************)
PageRunsWithoutStorage == running
==============================================================================
