\* Intervals of 20 s: only a refresh request fetches a source twice so soon.
CONSTANTS
  RssCount = 1
  RestCount = 1
  WorkerCount = 1
  NameOf <- OwnNames
  Interval <- IntervalLong
  CheckSec = 2
  PruneSec = 5
  MaxBackoff = 3
  MaxFailures <- FailOnce
  FetchMax = 1
  MaxRestarts = 0
  AgeCap = 20
  AskCap = 6
SPECIFICATION Spec
INVARIANTS RefreshRefetches
