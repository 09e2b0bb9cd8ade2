CONSTANTS
  MaxOutbox = 2
  MaxAir = 2
  MaxEpochs = 2
SPECIFICATION ViewSpec
INVARIANTS
  ViewTypeOK
  AckedEstopHolds
PROPERTIES
  PageLearnsLatch
