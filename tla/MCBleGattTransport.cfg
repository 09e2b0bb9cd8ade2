CONSTANTS
  Payloads <- MCPayloads
  MaxWrites = 4
SPECIFICATION Spec
INVARIANTS
  TypeOK
  NewestWriteSettled
  QueueDrainedByEachPoll
PROPERTY EveryWriteSettles
