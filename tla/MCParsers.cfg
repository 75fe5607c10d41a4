\* Every answer of a small grammar, and every configuration of another.
CONSTANTS
  Numeral <- Numerals
  Folded <- LowerCase
  DateOf <- Times
  DisplayNames <- Names
  Fetches <- AllFetches
  Slots = 2
  Files <- SmallFiles
  Ports = {0, 81}
  Homes = {TRUE, FALSE}
  MaxSources = 2
  MaxSymbols = 2
  MaxTabs = 5
  IntMax = 127
SPECIFICATION Spec
INVARIANTS
  FetchTypeOK
  FeedRight
  EntriesRight
  CalendarRight
  ConfigRight
CHECK_DEADLOCK FALSE
