\* Two workers, one of which may not get its buffer, and two sources: safety,
\* liveness and the refinement of RestBatch.
CONSTANTS
  w1 = w1
  w2 = w2
  Workers = {w1, w2}
  MallocFails = {w1}
  RestCount = 2
  MaxFailures = 1
SPECIFICATION FairSpec
INVARIANTS
  TypeOK
  ClaimInBounds
  HealthExclusive
  PublishAfterBatch
  NoSleeperAfterStop
  NoSleeperWithJobs
  HealthMatchesStatus
PROPERTIES
  BatchSpec
  JobsGetClaimed
  StopReturns
