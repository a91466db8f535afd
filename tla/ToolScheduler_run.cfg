SPECIFICATION FairSpec
CONSTANTS
  N = 8
  Kind <- MCKind
  Key <- MCKey
  Stops = {7}
  MaxParallel = 2
INVARIANTS TypeOK Bounded ReadsInOrder SharedOnce
PROPERTIES NothingAfterCancel AllAnswered
CHECK_DEADLOCK FALSE
