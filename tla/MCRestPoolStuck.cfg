\* The dispatcher's wait for the batch: one worker, one source suffice.
CONSTANTS
  w1 = w1
  w2 = w2
  Workers = {w1}
  MallocFails = {}
  RestCount = 1
  MaxFailures = 0
SPECIFICATION FairSpec
PROPERTY BatchFinishes
