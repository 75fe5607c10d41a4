\* One Atom feed.
CONSTANTS
  Numeral <- Numerals
  Folded <- LowerCase
  DateOf <- Times
  DisplayNames <- Names
  Fetches <- AtomFetches
  Slots = 2
SPECIFICATION FetchSpec
INVARIANT AtomLinked
CHECK_DEADLOCK FALSE
