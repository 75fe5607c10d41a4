\* Two daemons: start.sh daemon, twice.  Nothing fails.
CONSTANTS
  d1 = d1
  d2 = d2
  Daemons = {d1, d2}
  Conns = {d1, d2}
  WorkerSlots <- Slots
  MayFail = {}
SPECIFICATION Spec
INVARIANT StartedMeansServing
CHECK_DEADLOCK FALSE
