\* Two updaters that may overlap, one reader.
CONSTANTS
  Updaters = {prune, ws}
  Pruner = prune
  Readers = {api}
  prune = prune
  ws = ws
  api = api
  NCat = 2
  MaxEntries = 3
  MaxNews = 1
  MaxCount = 2
  Throttle = 1
  RowsAt <- RowsSmall
  MaxVersion = 2
  MaxStall = 1
  MaxFaults = 1
SPECIFICATION FairSpec
INVARIANTS
  TypeOK
  ReaderConsistent
  WithinBuffers
  OneUpdateAtATime
PROPERTIES
  StoredBecomesVisible
  NoRegress
