-------------------------- MODULE ManualDriveProofs --------------------------
(***************************************************************************)
(* Theorems about ManualDrive for every slider position from 0 to 100,     *)
(* every assignment of the buttons and anything the storage may hold.      *)
(*                                                                         *)
(* The properties of the commands are arithmetic about the two powers, and *)
(* need of the state only that the sliders are percentages: they follow    *)
(* from the type invariant.                                                *)
(***************************************************************************)
EXTENDS ManualDrive, TLAPS

IInv == TypeOK /\ SettingsSurviveReload

------------------------------------------------------------------------------
(* The two powers and what is made of them.                                *)

\* Powers are even, at most Full, and zero exactly for a slider at zero.
LEMMA LeftPowerRange ==
  ASSUME NEW p \in Percent
  PROVE  /\ LeftPower(p) \in 0..Full
         /\ \E h \in Int : LeftPower(p) = 2 * h
         /\ (LeftPower(p) = 0) <=> (p = 0)
         /\ p > 0 => LeftPower(p) >= 4
  <1>1. LeftPower(p) = 4 * p /\ 4 * p = 2 * (2 * p) /\ 2 * p \in Int
    BY DEF LeftPower, NormalizePwmPercent, Percent
  <1> QED  BY <1>1 DEF Percent, Full

LEMMA RightPowerRange ==
  ASSUME NEW p \in Percent
  PROVE  /\ RightPower(p) \in 0..Full
         /\ \E h \in Int : RightPower(p) = 2 * h
         /\ (RightPower(p) = 0) <=> (p = 0)
         /\ p > 0 => RightPower(p) >= 200
  <1>1. CASE p = 0
    <2>1. RightPower(p) = 2 * 0
      BY <1>1 DEF RightPower, NormalizePwmPercent
    <2> QED  BY <1>1, <2>1 DEF Full
  <1>2. CASE p # 0
    <2>1. RightPower(p) = 2 * (100 + p)
      BY <1>2 DEF RightPower, NormalizePwmPercent, Percent
    <2>2. 100 + p \in Int
      BY DEF Percent
    <2> QED  BY <1>2, <2>1, <2>2 DEF Full, Percent
  <1> QED  BY <1>1, <1>2

\* A command with the powers a button can send.
EvenPower == {h \in Int : h \in -Full..Full /\ h = 2 * (h \div 2)}

LEMMA PowersEven ==
  ASSUME NEW h \in -Full..Full, \E k \in Int : h = 2 * k
  PROVE  h \in EvenPower /\ -h \in EvenPower
  <1>1. PICK k \in Int : h = 2 * k
    OBVIOUS
  <1>2. h \div 2 = k /\ (-h) \div 2 = -k
    BY <1>1
  <1> QED  BY <1>1, <1>2 DEF EvenPower, Full

\* Every button's command, by the two powers it is made of.
LEMMA CommandShape ==
  ASSUME TypeOK, NEW d \in Directions
  PROVE  /\ CommandOf(d).left \in EvenPower
         /\ CommandOf(d).right \in EvenPower
         /\ ~CommandOf(d).brake /\ ~CommandOf(d).coast
         /\ CommandOf(d).left \in {RightPower(rightPwmPercent),
                                   -RightPower(rightPwmPercent)}
         /\ CommandOf(d).right \in {LeftPower(leftPwmPercent),
                                    -LeftPower(leftPwmPercent)}
  <1> DEFINE l == LeftPower(leftPwmPercent)
             r == RightPower(rightPwmPercent)
  <1>1. l \in 0..Full /\ r \in 0..Full
    BY LeftPowerRange, RightPowerRange DEF TypeOK
  <1>2. l \in EvenPower /\ -l \in EvenPower
    <2>1. \E k \in Int : l = 2 * k
      BY LeftPowerRange DEF TypeOK
    <2> QED  BY <1>1, <2>1, PowersEven DEF Full
  <1>3. r \in EvenPower /\ -r \in EvenPower
    <2>1. \E k \in Int : r = 2 * k
      BY RightPowerRange DEF TypeOK
    <2> QED  BY <1>1, <2>1, PowersEven DEF Full
  <1>4. -(-l) = l
    BY <1>1 DEF Full
  <1> HIDE DEF l, r
  <1>5. \E a \in {l, -l}, b \in {r, -r} :
          CommandOf(d) = [left |-> b, right |-> -a, brake |-> FALSE,
                          coast |-> FALSE]
    BY DEF CommandOf, CreateManualDriveCommand, ApplyCurrentWiringMap,
           Directions, l, r
  <1> QED  BY <1>2, <1>3, <1>4, <1>5 DEF l, r

\* The duty of a power fits the eight bits of the PWM.
LEMMA DutyRange ==
  ASSUME NEW h \in -Full..Full
  PROVE  /\ Duty(h) \in 0..255
         /\ (h >= 2 \/ h <= -2) => Duty(h) > 0
         /\ (h >= 200 \/ h <= -200) => Duty(h) >= 127
         /\ Duty(-h) = Duty(h)
  BY DEF Duty, Full

LEMMA OutputType ==
  ASSUME NEW command,
         command.left \in -Full..Full, command.right \in -Full..Full
  PROVE  Output(command) \in [left : Pins, right : Pins]
  <1>1. MotorPins(command.left) \in Pins /\ MotorPins(command.right) \in Pins
    BY DutyRange DEF MotorPins, Pins
  <1>2. BrakePins \in Pins /\ CoastPins \in Pins
    BY DEF BrakePins, CoastPins, Pins
  <1> QED  BY <1>1, <1>2 DEF Output, Both

\* Which pins have current.
LEMMA PinsPower ==
  ASSUME NEW h \in -Full..Full
  PROVE  /\ h = 0 => ~Turns(MotorPins(h))
         /\ (h >= 2 \/ h <= -2) => Turns(MotorPins(h))
         /\ (h >= 200 \/ h <= -200) =>
              /\ Turns(MotorPins(h))
              /\ MotorPins(h).in1 + MotorPins(h).in2 \in 127..255
  <1> DEFINE n == Duty(h)
  <1>1. /\ n \in 0..255
        /\ (h >= 2 \/ h <= -2) => n > 0
        /\ (h >= 200 \/ h <= -200) => n >= 127
    BY DutyRange
  <1> HIDE DEF n
  <1>2. CASE h = 0
    BY <1>2 DEF Turns, MotorPins
  <1>3. CASE h > 0
    <2>1. MotorPins(h) = [in1 |-> n, in2 |-> 0]
      BY <1>3 DEF MotorPins, Full, n
    <2> QED  BY <1>1, <1>3, <2>1 DEF Turns, Full
  <1>4. CASE h < 0
    <2>1. MotorPins(h) = [in1 |-> 0, in2 |-> n]
      BY <1>4 DEF MotorPins, Full, n
    <2> QED  BY <1>1, <1>4, <2>1 DEF Turns, Full
  <1> QED  BY <1>2, <1>3, <1>4 DEF Full

\* Half the sum and half the difference of two even powers.
LEMMA Halves ==
  ASSUME NEW a \in EvenPower, NEW b \in EvenPower
  PROVE  /\ (a + b) \div 2 \in -Full..Full
         /\ (b - a) \div 2 \in -Full..Full
         /\ (a + b) \div 2 - (b - a) \div 2 = a
         /\ (a + b) \div 2 + (b - a) \div 2 = b
  <1> DEFINE x == a \div 2
             y == b \div 2
  <1>1. x \in Int /\ y \in Int /\ a = 2 * x /\ b = 2 * y
    BY DEF EvenPower
  <1>2. a \in -Full..Full /\ b \in -Full..Full
    BY DEF EvenPower
  <1> HIDE DEF x, y
  <1>3. (2 * x + 2 * y) \div 2 = x + y /\ (2 * y - 2 * x) \div 2 = y - x
    BY <1>1
  <1> QED  BY <1>1, <1>2, <1>3 DEF Full

LEMMA InUnit ==
  ASSUME NEW h \in -Full..Full
  PROVE  WithinUnit(h)
  BY DEF WithinUnit, Full

\* The same of a command.
LEMMA CompatOfCommand ==
  ASSUME NEW command,
         command.left \in EvenPower, command.right \in EvenPower
  PROVE  /\ WithinUnit(CompatVx(command)) /\ WithinUnit(CompatWz(command))
         /\ MixLeft(CompatVx(command), CompatWz(command)) = command.left
         /\ MixRight(CompatVx(command), CompatWz(command)) = command.right
         /\ WithinUnit(command.left) /\ WithinUnit(command.right)
  <1> DEFINE a == command.left
             b == command.right
  <1>1. a \in EvenPower /\ b \in EvenPower
    OBVIOUS
  <1>2. /\ CompatVx(command) = (a + b) \div 2
        /\ CompatWz(command) = (b - a) \div 2
    BY DEF CompatVx, CompatWz
  <1> HIDE DEF a, b
  <1>3. a \in -Full..Full /\ b \in -Full..Full
    BY <1>1 DEF EvenPower
  <1>4. WithinUnit(a) /\ WithinUnit(b)
    BY <1>3, InUnit
  <1>5. WithinUnit(CompatVx(command)) /\ WithinUnit(CompatWz(command))
    BY <1>1, <1>2, Halves, InUnit
  <1>6. /\ MixLeft(CompatVx(command), CompatWz(command)) = a
        /\ MixRight(CompatVx(command), CompatWz(command)) = b
    BY <1>1, <1>2, Halves DEF MixLeft, MixRight
  <1> QED  BY <1>4, <1>5, <1>6 DEF a, b

\* Opposite buttons send opposite powers.
LEMMA OppositeCommand ==
  ASSUME TypeOK, NEW d \in Directions
  PROVE  /\ Opposite[d] \in Directions
         /\ CommandOf(Opposite[d]).left = -CommandOf(d).left
         /\ CommandOf(Opposite[d]).right = -CommandOf(d).right
  <1>1. /\ LeftPower(leftPwmPercent) \in Int
        /\ RightPower(rightPwmPercent) \in Int
    BY LeftPowerRange, RightPowerRange DEF TypeOK, Full
  <1> QED
    BY <1>1 DEF Opposite, Directions, CommandOf, CreateManualDriveCommand,
                ApplyCurrentWiringMap

\* A drive command either coasts or puts its duties on the pins.
LEMMA DriveOutput ==
  ASSUME TypeOK, NEW d \in Directions
  PROVE  Output(CommandOf(d)) = [left |-> MotorPins(CommandOf(d).left),
                                 right |-> MotorPins(CommandOf(d).right)]
  <1>1. ~CommandOf(d).brake /\ ~CommandOf(d).coast
    BY CommandShape
  <1>2. MotorPins(0) = CoastPins
    BY DEF MotorPins, CoastPins
  <1> QED  BY <1>1, <1>2 DEF Output, Coasts, Both

------------------------------------------------------------------------------
(* The properties of the commands, in every type-correct state.            *)

LEMMA TypeGivesAccepted == TypeOK => EveryPressAccepted
  <1> SUFFICES ASSUME TypeOK, NEW d \in Directions
               PROVE  PolicyAllows(CommandOf(d)) /\ ParserAccepts(CommandOf(d))
    BY DEF EveryPressAccepted
  <1>1. CommandOf(d).left \in EvenPower /\ CommandOf(d).right \in EvenPower
    BY CommandShape
  <1> QED  BY <1>1, CompatOfCommand DEF PolicyAllows, ParserAccepts

LEMMA TypeGivesReverse == TypeOK => OppositesReverse
  <1> SUFFICES ASSUME TypeOK, NEW d \in Directions
               PROVE  LET there == Output(CommandOf(d))
                          back == Output(CommandOf(Opposite[d]))
                      IN  /\ there.left = Reversed(back.left)
                          /\ there.right = Reversed(back.right)
    BY DEF OppositesReverse
  <1>1. ASSUME NEW h \in -Full..Full
        PROVE  MotorPins(h) = Reversed(MotorPins(-h))
    <2>1. Duty(-h) = Duty(h)
      BY DutyRange
    <2> QED  BY <2>1 DEF MotorPins, Reversed, Full
  <1>2. /\ CommandOf(d).left \in -Full..Full
        /\ CommandOf(d).right \in -Full..Full
    BY CommandShape DEF EvenPower
  <1>3. /\ Output(CommandOf(d)).left = MotorPins(CommandOf(d).left)
        /\ Output(CommandOf(d)).right = MotorPins(CommandOf(d).right)
    BY DriveOutput
  <1>4. /\ Output(CommandOf(Opposite[d])).left = MotorPins(-CommandOf(d).left)
        /\ Output(CommandOf(Opposite[d])).right = MotorPins(-CommandOf(d).right)
    BY DriveOutput, OppositeCommand
  <1> QED  BY <1>1, <1>2, <1>3, <1>4

LEMMA TypeGivesPower == TypeOK => SlidersMeanPower
  <1> SUFFICES ASSUME TypeOK, NEW d \in Directions
               PROVE  LET out == Output(CommandOf(d))
                      IN  /\ Turns(out.right) <=> leftPwmPercent > 0
                          /\ Turns(out.left) <=> rightPwmPercent > 0
                          /\ rightPwmPercent > 0 =>
                               out.left.in1 + out.left.in2 \in 127..255
    BY DEF SlidersMeanPower
  <1> DEFINE l == CommandOf(d).left
             r == CommandOf(d).right
  <1>1. l \in -Full..Full /\ r \in -Full..Full
    BY CommandShape DEF EvenPower
  <1>2. rightPwmPercent > 0 => l >= 200 \/ l <= -200
    BY CommandShape, RightPowerRange DEF TypeOK, Full
  <1>3. rightPwmPercent = 0 => l = 0
    BY CommandShape, RightPowerRange DEF TypeOK
  <1>4. leftPwmPercent > 0 => r >= 2 \/ r <= -2
    BY CommandShape, LeftPowerRange DEF TypeOK, Full
  <1>5. leftPwmPercent = 0 => r = 0
    BY CommandShape, LeftPowerRange DEF TypeOK
  <1>6. /\ Output(CommandOf(d)).left = MotorPins(l)
        /\ Output(CommandOf(d)).right = MotorPins(r)
    BY DriveOutput
  <1>7. leftPwmPercent \in Percent /\ rightPwmPercent \in Percent
    BY DEF TypeOK
  <1> HIDE DEF l, r
  <1>8. Turns(MotorPins(r)) <=> leftPwmPercent > 0
    BY <1>1, <1>4, <1>5, <1>7, PinsPower DEF Percent
  <1>9. /\ Turns(MotorPins(l)) <=> rightPwmPercent > 0
        /\ rightPwmPercent > 0 =>
             MotorPins(l).in1 + MotorPins(l).in2 \in 127..255
    BY <1>1, <1>2, <1>3, <1>7, PinsPower DEF Percent
  <1> QED  BY <1>6, <1>8, <1>9

LEMMA TypeGivesCompat == TypeOK => CompatDrivesTheSame
  <1> SUFFICES ASSUME TypeOK, NEW d \in Directions
               PROVE  LET command == CommandOf(d)
                          vx == CompatVx(command)
                          wz == CompatWz(command)
                      IN  /\ MixLeft(vx, wz) = command.left
                          /\ WithinUnit(MixLeft(vx, wz))
                          /\ MixRight(vx, wz) = command.right
                          /\ WithinUnit(MixRight(vx, wz))
    BY DEF CompatDrivesTheSame
  <1>1. CommandOf(d).left \in EvenPower /\ CommandOf(d).right \in EvenPower
    BY CommandShape
  <1> QED  BY <1>1, CompatOfCommand

------------------------------------------------------------------------------
(* The invariant.                                                          *)

LEMMA SanitizeType ==
  ASSUME NEW s \in Stored
  PROVE  /\ SanitizePwmPercent(s.left) \in Percent
         /\ SanitizePwmPercent(s.right) \in Percent
         /\ SanitizeButtonAssignments(s.assignments)
              \in [Directions -> Directions]
  BY DEF SanitizePwmPercent, SanitizeButtonAssignments, Percent,
         DefaultPercent

\* What is on the page survives being stored and read.
LEMMA SanitizeKeeps ==
  /\ \A p \in Percent : SanitizePwmPercent(p) = p
  /\ \A a \in [Directions -> Directions] : SanitizeButtonAssignments(a) = a
  BY DEF SanitizePwmPercent, SanitizeButtonAssignments

LEMMA LoadedType ==
  ASSUME stored \in Stored, NEW how
  PROVE  /\ Loaded(how).left \in Percent /\ Loaded(how).right \in Percent
         /\ Loaded(how).assignments \in [Directions -> Directions]
  BY SanitizeType DEF Loaded, Restored, Defaults, DefaultPercent, Percent,
                      Fresh

LEMMA InitIInv == ASSUME Init PROVE IInv
  <1>1. stored \in Stored
    BY ManualAssumption DEF Init
  <1>2. TypeOK
    <2>1. pins \in [left : Pins, right : Pins]
      BY DEF Init, Both, BrakePins, Pins
    <2> QED  BY <1>1, <2>1, LoadedType DEF Init, TypeOK, Access
  <1>3. SettingsSurviveReload
    BY DEF Init, SettingsSurviveReload, Loaded, Restored
  <1> QED  BY <1>2, <1>3 DEF IInv

LEMMA NextIInv == ASSUME IInv, [Next]_vars PROVE IInv'
  <1> USE DEF IInv
  <1>1. ASSUME NEW how \in Access, ReloadPage(how) PROVE IInv'
    <2>1. TypeOK'
      BY <1>1, LoadedType DEF ReloadPage, TypeOK
    <2>2. SettingsSurviveReload'
      BY <1>1 DEF ReloadPage, SettingsSurviveReload, Loaded, Restored
    <2> QED  BY <2>1, <2>2
  <1>2. ASSUME NEW percent \in Percents, MoveLeftSlider(percent) PROVE IInv'
    <2>1. percent \in Percent /\ SanitizePwmPercent(percent) = percent
      BY ManualAssumption, SanitizeKeeps
    <2>2. stored' \in Stored
      BY <1>2, <2>1 DEF MoveLeftSlider, Save, TypeOK, Stored
    <2>3. TypeOK'
      BY <1>2, <2>1, <2>2 DEF MoveLeftSlider, TypeOK
    <2>4. SettingsSurviveReload'
      BY <1>2, <2>1 DEF MoveLeftSlider, Save, TypeOK, Stored,
                        SettingsSurviveReload, Restored
    <2> QED  BY <2>3, <2>4
  <1>3. ASSUME NEW percent \in Percents, MoveRightSlider(percent) PROVE IInv'
    <2>1. percent \in Percent /\ SanitizePwmPercent(percent) = percent
      BY ManualAssumption, SanitizeKeeps
    <2>2. stored' \in Stored
      BY <1>3, <2>1 DEF MoveRightSlider, Save, TypeOK, Stored
    <2>3. TypeOK'
      BY <1>3, <2>1, <2>2 DEF MoveRightSlider, TypeOK
    <2>4. SettingsSurviveReload'
      BY <1>3, <2>1 DEF MoveRightSlider, Save, TypeOK, Stored,
                        SettingsSurviveReload, Restored
    <2> QED  BY <2>3, <2>4
  <1>4. ASSUME NEW change \in Reassignments,
               ChangeButtonAssignment(change[1], change[2])
        PROVE  IInv'
    <2>1. change[1] \in Directions /\ change[2] \in Directions
      BY ManualAssumption
    <2>2. /\ buttonAssignments' \in [Directions -> Directions]
          /\ SanitizeButtonAssignments(buttonAssignments')
               = buttonAssignments'
      BY <1>4, <2>1, SanitizeKeeps DEF ChangeButtonAssignment, TypeOK
    <2>3. stored' \in Stored
      <3>1. buttonAssignments' \in [Directions -> Directions \cup {"invalid"}]
        BY <2>2
      <3>2. \/ stored' = stored
            \/ stored' = [stored EXCEPT !.assignments = buttonAssignments']
        BY <1>4, <2>2 DEF ChangeButtonAssignment, Save
      <3>3. stored \in Stored
        BY DEF TypeOK
      <3> QED  BY <3>1, <3>2, <3>3 DEF Stored
    <2>4. TypeOK'
      BY <1>4, <2>2, <2>3 DEF ChangeButtonAssignment, TypeOK
    <2>5. SettingsSurviveReload'
      BY <1>4, <2>2 DEF ChangeButtonAssignment, Save, TypeOK, Stored,
                        SettingsSurviveReload, Restored
    <2> QED  BY <2>4, <2>5
  <1>5. ASSUME NEW command, SendManualPwmCommand(command),
               Output(command) \in [left : Pins, right : Pins]
        PROVE  IInv'
    BY <1>5 DEF SendManualPwmCommand, settings, TypeOK,
                SettingsSurviveReload, Restored
  <1>6. ASSUME NEW button \in Directions, SendManualDirection(button)
        PROVE  IInv'
    <2>1. buttonAssignments[button] \in Directions
      BY DEF TypeOK
    <2>2. Output(CommandOf(buttonAssignments[button]))
            \in [left : Pins, right : Pins]
      BY <2>1, CommandShape, OutputType DEF EvenPower
    <2> QED  BY <1>5, <1>6, <2>2 DEF SendManualDirection
  <1>7. ASSUME SendExplicitStop \/ SendNeutralCoast PROVE IInv'
    <2>1. /\ Output(StopCommand) \in [left : Pins, right : Pins]
          /\ Output(NeutralCommand) \in [left : Pins, right : Pins]
      BY OutputType DEF StopCommand, NeutralCommand, Full
    <2> QED  BY <1>5, <1>7, <2>1 DEF SendExplicitStop, SendNeutralCoast
  <1>8. CASE UNCHANGED vars
    BY <1>8 DEF vars, settings, TypeOK, SettingsSurviveReload, Restored
  <1> QED
    BY <1>1, <1>2, <1>3, <1>4, <1>6, <1>7, <1>8 DEF Next

LEMMA Invariance == Spec => []IInv
  <1>1. Init => IInv
    BY InitIInv
  <1>2. IInv /\ [Next]_vars => IInv'
    BY NextIInv
  <1> QED  BY <1>1, <1>2, PTL DEF Spec

------------------------------------------------------------------------------

(***************************************************************************)
(* The page, the storage and the pins always hold legal values, whatever   *)
(* the storage held at first.                                              *)
(***************************************************************************)
THEOREM TypeCorrect == Spec => []TypeOK
  <1>1. IInv => TypeOK
    BY DEF IInv
  <1> QED  BY <1>1, Invariance, PTL

(***************************************************************************)
(* A reload with working storage changes no setting.                       *)
(***************************************************************************)
THEOREM SettingsSurviveReloadHolds == Spec => []SettingsSurviveReload
  <1>1. IInv => SettingsSurviveReload
    BY DEF IInv
  <1> QED  BY <1>1, Invariance, PTL

(***************************************************************************)
(* No slider position makes a drive button fail on the way to the motors.  *)
(***************************************************************************)
THEOREM EveryPressAcceptedHolds == Spec => []EveryPressAccepted
  BY TypeCorrect, TypeGivesAccepted, PTL

(***************************************************************************)
(* Opposite buttons reverse both motors, at every slider position.         *)
(***************************************************************************)
THEOREM OppositesReverseHolds == Spec => []OppositesReverse
  BY TypeCorrect, TypeGivesReverse, PTL

(***************************************************************************)
(* A wheel has power exactly when its slider is not at zero.               *)
(***************************************************************************)
THEOREM SlidersMeanPowerHolds == Spec => []SlidersMeanPower
  BY TypeCorrect, TypeGivesPower, PTL

(***************************************************************************)
(* The compatible vx and wz mix to the very powers of the command.         *)
(***************************************************************************)
THEOREM CompatDrivesTheSameHolds == Spec => []CompatDrivesTheSame
  BY TypeCorrect, TypeGivesCompat, PTL
==============================================================================
