\* One feed, two REST sources for one worker, one restart.
CONSTANTS
  RssCount = 1
  RestCount = 2
  WorkerCount = 1
  NameOf <- OwnNames
  Interval <- IntervalSmall
  CheckSec = 2
  PruneSec = 2
  MaxBackoff = 3
  MaxFailures <- FailTwice
  FetchMax = 1
  MaxRestarts = 1
  AgeCap = 3
  AskCap = 0
SPECIFICATION Spec
INVARIANTS
  TypeOK
  TriedInTime
  StatusNotBehind
PROPERTIES
  EarlyOnlyIfAsked
  BackoffRespected
CONSTRAINT AskedInFirstRun
