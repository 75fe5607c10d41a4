\* One economic calendar, and an event whose actual value becomes known.
CONSTANTS
  ticker = ticker
  quotes = quotes
  feed = feed
  local = local
  calendar = calendar
  btc = btc
  story = story
  second = second
  event = event
  Keys = {}
  Urls = {event}
  Symbol <- NoSymbol
  Sources = {calendar}
  Streams = {}
  Delivers <- DeliversCalendar
  Region <- RegionCalendar
  Editions = {1, 2}
  Moving = {event}
  OldSchemas <- OldFiles
  MaxAge = 1
  MaxDelay = 1
  MaxTime = 2
  MaxFetches = 2
  MaxEditions = 1
  MaxMishaps = 0
SPECIFICATION Spec
INVARIANT CalendarCurrent
CHECK_DEADLOCK FALSE
