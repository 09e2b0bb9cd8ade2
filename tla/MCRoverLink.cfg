CONSTANTS
  ClockMod = 5
  HeartbeatTimeout = 1
  MaxTtl = 1
  MaxLoopMs = 1
  SerialCmds = {}
  BleCmds <- MCBleCmds
SPECIFICATION LinkSpec
INVARIANTS
  LinkTypeOK
  OutageEndsCommand
