CONSTANTS
  UserKinds <- MCUserKinds
  MaxCommands = 3
  MaxAttempts = 2
  MaxChanges = 3
  MaxEditJobs = 3
SPECIFICATION Spec
INVARIANTS
  TypeOK
  OneWriteAtATime
PROPERTIES
  ImplementsCommandChannel
  NothingArrivesAfterDisconnect
  QueuedFailOnlyWithTheirLink
  HeartbeatsGoOn
CHECK_DEADLOCK FALSE
