\* One daemon, two workers; anything may fail.
CONSTANTS
  d1 = d1
  d2 = d2
  Daemons = {d1}
  Conns = {d1}
  WorkerSlots <- Slots
  MayFail <- Anything
SPECIFICATION FairSpec
INVARIANTS
  TypeOK
  NoUseAfterFree
PROPERTIES
  LostIsReplaced
  StopsWhenTold
CHECK_DEADLOCK FALSE
