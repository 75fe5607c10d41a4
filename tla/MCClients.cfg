CONSTANTS
  MaxServed = 16
  MaxStatuses = 2
  NotGiven = NotGiven
  Tabs <- MCTabs
  MAX_ENTRIES = 4
  MAX_NEWS = 4
  MAX_SEARCH = 2
  PAGE_SIZE = 2
  Heights = {7, 9}
  Characters = {"a", "b", "s"}
  Letters = {"a"}
  Snapshots <- MCSnapshots
  Down = Down
  NoItem = NoItem
  WebTabs <- MCWebTabs
  NewsTabs = {"news", "official_pub"}
  Held <- MCHeld
  MaxPending = 3
  MaxFailures = 1
  MaxClicks = 2
  Nothing = Nothing
SPECIFICATION Spec
INVARIANTS ClientsTypeOK CursorInView
PROPERTIES OpensWhatIsShown CatchesUp SettlesOnActiveTab
CHECK_DEADLOCK FALSE
