CONSTANTS
  ticker = ticker
  quotes = quotes
  feed = feed
  local = local
  calendar = calendar
  btc = btc
  story = story
  second = second
  event = event
  Keys = {btc}
  Urls = {story, second}
  Symbol <- SymbolAll
  Sources = {ticker, quotes, feed, local}
  Streams = {ticker}
  Delivers <- DeliversAll
  Region <- RegionAll
  Editions = {1, 2}
  Moving = {btc}
  OldSchemas <- OldFiles
  MaxAge = 1
  MaxDelay = 1
  MaxTime = 3
  MaxFetches = 2
  MaxEditions = 1
  MaxMishaps = 2
SPECIFICATION Spec
INVARIANTS
  TypeOK
  SchemaWhole
  OnlyRefusedMissing
PROPERTIES
  NeverShownOlder
  BoardSpec
CHECK_DEADLOCK FALSE
