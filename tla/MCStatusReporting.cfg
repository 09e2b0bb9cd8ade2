CONSTANTS
  ClockMod = 20
  MaxLoopMs = 3
  MaxSetupMs = 5
  MinStatusInterval = 2
  MaxStatusInterval = 6
  BleInterval = 4
  RequestedMs <- MCRequestedMs
SPECIFICATION Spec
INVARIANTS
  TypeOK
  StatusPaced
  SafetyStatePaced
