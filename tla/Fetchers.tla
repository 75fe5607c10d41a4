------------------------------- MODULE Fetchers -------------------------------
(***************************************************************************)
(* A fetch, from the answer of the network to the array its caller stores: *)
(* mc_fetch_rss, mc_fetch_rest, mc_fetch_rest_calendar and the message of  *)
(* a stream.  All of them fill the caller's array slot by slot: an item    *)
(* that is not counted leaves its fields in a slot that the next item gets *)
(* again, and the array still holds what the fetch before has left.        *)
(***************************************************************************)
EXTENDS RestParser, FeedParser, Selections

CONSTANTS
  Fetches,    \* a source's configuration, and what the network answers
  Slots         \* slots of the caller's array

ASSUME SlotsAssumption == Slots \in Nat \ {0}

VARIABLES
  source,    \* the configuration
  status,    \* how the request ends: "failed", "garbage" or "document"
  answer,    \* the document
  fetched,   \* where the fetch is
  pos,       \* the next item
  count,     \* slots filled so far, and the result
  out        \* the array

fetchVars == <<source, status, answer, fetched, pos, count, out>>

Parser(c) ==
  CASE c.kind = "rss" -> "feed" [] c.kind = "ws" -> "ticker" [] OTHER -> RestParserOf(c)

(* The document, or the part of it that data_path leads to.                *)
Data(c, doc) ==
  IF Parser(c) = "generic" THEN json_navigate(doc, c.data_path) ELSE doc

Shape(c, data) ==
  IF Parser(c) # "generic" THEN Parser(c)
  ELSE CASE data.type = "array"               -> "array"
         [] data.type \notin {"array", "object"} -> "nothing"
         [] data.type = "object"              -> IF DirectPrice(c, data) THEN "flat" ELSE "keyed"

ItemsOf(c, data) ==
  LET shape == Shape(c, data)
  IN  CASE shape = "feed" -> FeedItems(data)
        [] shape \in {"flat", "ticker"} -> <<data>>
        [] shape \in {"array", "binance", "calendar"} /\ data.type = "array" -> data.items
        [] shape \in {"keyed", "coingecko"} /\ data.type = "object" -> data.members
        [] OTHER -> <<>>

(* The items of a document are a list, and so are the children of one of a *)
(* feed.                                                                   *)
ASSUME FetchesAssumption ==
  \A f \in Fetches :
    /\ f[1].kind \in {"rss", "rest", "ws"}
    /\ f[2] = "document" =>
         LET items == ItemsOf(f[1], Data(f[1], f[3]))
         IN  /\ IsList(items)
             /\ Parser(f[1]) = "feed" => \A i \in DOMAIN items : IsList(items[i])

Skipped(shape, c, x) ==
  \/ shape = "binance" /\ ~Wanted(c, x)
  \/ shape = "calendar" /\ ~Titled(x)

Filled(shape, e, c, x, i) ==
  CASE shape = "feed"      -> FeedItem(e, c, x)
    [] shape = "array"     -> ArrayItem(e, c, x)
    [] shape = "flat"      -> FlatObject(e, c, x)
    [] shape = "keyed"     -> KeyedItem(e, c, x)
    [] shape = "binance"   -> BinanceItem(e, x)
    [] shape = "coingecko" -> CoinGeckoItem(e, x)
    [] shape = "calendar"  -> Event(e, x, i)
    [] shape = "ticker"    -> Ticker(e, x)

Counts(shape, e) ==
  CASE shape = "feed"   -> FeedItemCounts(e)
    [] shape = "array"  -> ArrayItemCounts(e)
    [] shape = "flat"   -> FlatObjectCounts(e)
    [] shape = "keyed"  -> KeyedItemCounts(e)
    [] shape = "ticker" -> TickerCounts(e)
    [] OTHER            -> TRUE

Blank(shape) ==
  CASE shape = "feed" -> BlankStory [] shape = "calendar" -> BlankEvent [] OTHER -> BlankEntry

(* What an earlier fetch of the source has left in the array.              *)
Stale(shape) ==
  CASE shape = "feed" -> [BlankStory EXCEPT !.title = "stale", !.url = "stale", !.at = 9]
    [] shape = "calendar" -> [BlankEvent EXCEPT !.title = <<"stale", "">>, !.actual = "stale"]
    [] OTHER -> Entry("stale", "stale", 9, 9)

FetchInit ==
  /\ \E f \in Fetches : source = f[1] /\ status = f[2] /\ answer = f[3]
  /\ fetched = "request" /\ pos = 0 /\ count = 0 /\ out = <<>>

TheData == Data(source, answer)
TheShape == Shape(source, TheData)
TheItems == ItemsOf(source, TheData)

-----------------------------------------------------------------------------
(* Slips.                                                                  *)

(* The slot is not cleared.                                                *)
SlipNotCleared(shape, slot) == slot

(* The end of the array does not end the loop.                             *)
SlipPastTheArray ==
  /\ fetched = "loop" /\ pos <= Len(TheItems)
  /\ count' = count + 1
  /\ pos' = pos + 1
  /\ UNCHANGED <<source, status, answer, fetched, out>>

-----------------------------------------------------------------------------
(* curl_easy_perform fails: -1, which the scheduler takes for a failure.   *)
(* (An HTTP error is none: its body goes to the parser.)                   *)
RequestFails ==
  /\ fetched = "request" /\ status = "failed"
  /\ fetched' = "done" /\ count' = -1
  /\ UNCHANGED <<source, status, answer, pos, out>>

(* Not XML or JSON, or no data at data_path: no items, and no failure.     *)
NoDocument ==
  /\ fetched = "request"
  /\ status = "garbage"
  /\ fetched' = "done"
  /\ UNCHANGED <<source, status, answer, pos, count, out>>

Begin ==
  /\ fetched = "request"
  /\ status = "document"
  /\ fetched' = "loop" /\ pos' = 1
  /\ out' = [j \in 1..Slots |-> Stale(TheShape)]
  /\ UNCHANGED <<source, status, answer, count>>

(* memset of the slot.                                                     *)
Cleared(shape, slot) == Blank(shape)

Pass(x) ==
  LET slot == Filled(TheShape, Cleared(TheShape, out[count + 1]), source, x, pos - 1)
  IN  IF Skipped(TheShape, source, x) THEN UNCHANGED <<count, out>>
      ELSE /\ out' = [out EXCEPT ![count + 1] = slot]
           /\ count' = IF Counts(TheShape, slot) THEN count + 1 ELSE count

Loop ==
  /\ fetched = "loop" /\ pos <= Len(TheItems) /\ count < Slots
  /\ Pass(TheItems[pos])
  /\ pos' = pos + 1
  /\ UNCHANGED <<source, status, answer, fetched>>

(* The end of the items or of the array, and the names of mc_fetch_rest.   *)
Return ==
  /\ fetched = "loop" /\ (pos > Len(TheItems) \/ count = Slots)
  /\ fetched' = "done"
  /\ out' = IF source.kind = "rest" /\ TheShape # "calendar"
              THEN [j \in 1..Slots |-> IF j <= count THEN Named(source, out[j]) ELSE out[j]]
              ELSE out
  /\ UNCHANGED <<source, status, answer, pos, count>>

FetchNext == RequestFails \/ NoDocument \/ Begin \/ Loop \/ Return
FetchSpec == FetchInit /\ [][FetchNext]_fetchVars

-----------------------------------------------------------------------------
(* Properties.                                                             *)

Done == fetched = "done" /\ status = "document"
Returned == SubSeq(out, 1, count)
FirstOf(s) == SubSeq(s, 1, IF Len(s) < Slots THEN Len(s) ELSE Slots)

(* What a feed should give: of each item with a title, the last child of   *)
(* each sort that has a text.                                              *)
LastOf(children, names) ==
  LET told == {i \in DOMAIN children : children[i].name \in names /\ children[i].text # NoText}
  IN  IF told = {} THEN Child("", "", NoHref) ELSE children[Max(told)]
Story(children) ==
  LET link == LastOf(children, {"link"})
  IN  [title |-> LastOf(children, {"title"}).text,
       url |-> IF link.href = NoHref THEN link.text ELSE link.href,
       summary |-> LastOf(children, Summaries).text,
       at |-> parse_rfc822(LastOf(children, Dates).text),
       region |-> source.region, score |-> TierScore(source.tier)]
Stories(doc) == Passing(Mapped(FeedItems(doc), Story), LAMBDA s : s.title # "")

(* A feed gives the stories of its titled items, the first Slots of them, in *)
(* their order, each with its own fields: none comes from another item or  *)
(* from an earlier fetch.                                                  *)
FeedRight == Done /\ TheShape = "feed" => Returned = FirstOf(Stories(answer))

(* What an answer of prices should give, by its shape.                     *)
Priceable(v, keys, price) ==
  (\E k \in keys : StringOr(v, k, "") # "") /\ json_get_double(v, price) # NaN
Change(v, given, value) ==
  LET prev == json_get_double(v, source.field_prev_close)
  IN  IF given # NaN \/ value = NaN \/ ~(prev > 0) THEN given ELSE ((value - prev) * 100) \div prev
Lookup(symbol) ==
  IF source.category \in DOMAIN DisplayNames /\ symbol \in DOMAIN DisplayNames[source.category]
    THEN DisplayNames[source.category][symbol] ELSE ""
Quote(symbol, name, v, price, change) ==
  LET value == json_get_double(v, price)
  IN  Entry(symbol, IF name = "" THEN Lookup(symbol) ELSE name, value,
            Change(v, json_get_double(v, change), value))
Listed(v) ==
  Quote(StringOr(v, SymbolKey(source), ""), StringOr(v, NameKey(source), ""), v,
        PriceKey(source), Or(source.field_change, "change_percent"))
Direct(v) ==
  LET itself == IF source.symbols # <<>> THEN source.symbols[1] ELSE source.name
  IN  Quote(StringOr(v, SymbolKey(source), itself), StringOr(v, NameKey(source), ""), v,
            PriceKey(source), Or(source.field_change, "change_percent"))
Keyed(p) ==
  IF p.v.type = "number" THEN Entry(p.k, Lookup(p.k), p.v.n, 0)
  ELSE Quote(StringOr(p.v, source.field_symbol, p.k), StringOr(p.v, source.field_name, ""), p.v,
             Or(source.field_price, "usd"), Or(source.field_change, "usd_24h_change"))

(* The generic parser gives one entry for each item that has an identity   *)
(* and a price, the first Slots of them in their order, with the fields of   *)
(* that item only; a change is never computed from a close that is missing *)
(* or zero, and a name that the source gives is kept.                      *)
EntriesRight ==
  Done =>
    /\ TheShape = "array" =>
         Returned = FirstOf(Mapped(Passing(TheItems, LAMBDA v :
           Priceable(v, {SymbolKey(source), NameKey(source)}, PriceKey(source))), Listed))
    /\ TheShape = "keyed" =>
         Returned = FirstOf(Mapped(Passing(TheItems, LAMBDA p :
           /\ p.v.type \in {"number", "object"}
           /\ Keyed(p).symbol # "" /\ Keyed(p).value \notin {0, NaN}), Keyed))
    /\ TheShape = "flat" =>
         Returned = Mapped(Passing(TheItems, LAMBDA v :
           Direct(v).symbol # "" /\ Direct(v).value # NaN), Direct)
    /\ TheShape = "ticker" => \A e \in ToSet(Returned) : e.symbol # "" /\ e.value > 0
    /\ TheShape = "binance" /\ source.symbols # <<>> =>
         \A e \in ToSet(Returned) : e.symbol \in ToSet(source.symbols)

(* The calendar gives its titled events, the first Slots of them, in their *)
(* order, each with what it says itself.  The url, by which the store      *)
(* knows an event again, is of its date and title; an event without a date *)
(* has the place it has in the answer, those without a title counted, so   *)
(* that a shorter array or an event left out does not give its url to      *)
(* another.                                                                *)
Placed(i) ==
  LET v == TheItems[i]
      Said(key, default) == StringOr(v, <<key>>, default)
  IN  [title |-> <<Said("title", ""), Said("country", "")>>,
       url |-> [date |-> Said("date", NoDate), title |-> Said("title", ""),
                n |-> IF Said("date", NoDate) = NoDate THEN i - 1 ELSE 0],
       actual |-> Said("actual", "-"), region |-> RegionOf(Said("country", "")),
       score |-> ScoreOf(Said("impact", ""))]
CalendarRight ==
  Done /\ TheShape = "calendar" =>
    Returned = FirstOf(Picked([i \in DOMAIN TheItems |-> Placed(i)],
                              {i \in DOMAIN TheItems : Titled(TheItems[i])}))

(* The type invariant.                                                     *)
FetchTypeOK ==
  /\ fetched \in {"request", "loop", "done"}
  /\ count \in -1..Slots
  /\ pos \in Nat
  /\ Len(out) \in {0, Slots}

(* "Try Atom: //entry" (fetch_rss.c:83), "Atom uses href attribute"        *)
(* (fetch_rss.c:119): an entry with a title and a link gives, if there is  *)
(* room, a story that has the link's href as its url.                      *)
Hrefs(children) == {ch.href : ch \in {x \in ToSet(children) : x.name = "link"}} \ {NoHref}
AtomLinked ==
  Done /\ TheShape = "feed" /\ answer.items = <<>> /\ count < Slots =>
    \A x \in ToSet(answer.entries) :
      Story(x).title # "" /\ Hrefs(x) # {} =>
        \E i \in 1..count : out[i].title = Story(x).title /\ out[i].url \in Hrefs(x)
=============================================================================
