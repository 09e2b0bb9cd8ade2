CONSTANTS
  ClockMod = 10
  HeartbeatTimeout = 3
  MaxTtl = 2
  MaxLoopMs = 2
  SerialCmds <- MCSerialCmds
  BleCmds <- MCBleCmds
SPECIFICATION Spec
INVARIANTS
  TypeOK
  HeartbeatDeadline
  TtlDeadline
  StopBeforeNewCommand
PROPERTIES
  ExpiredCommandStaysDead
  ImplementsRoverSafety
  EstopServed
