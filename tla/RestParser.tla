----------------------------- MODULE RestParser -----------------------------
(***************************************************************************)
(* What the parsers of backend/src/fetch_rest.c make of one item of an     *)
(* answer: the slot of the array of entries as the item leaves it, and     *)
(* whether it is counted, so that the next item gets the next slot.  The   *)
(* loop over the items is in Fetchers.                                     *)
(*                                                                         *)
(* c is the source's configuration.  Volume, currency and times are left   *)
(* out: they are filled in like the fields that are here.                  *)
(***************************************************************************)
EXTENDS JsonValue

CONSTANT DisplayNames    \* g_index_names and g_commodity_names, by category

Entry(symbol, name, value, change) ==
  [symbol |-> symbol, name |-> name, value |-> value, change |-> change]
BlankEntry == Entry("", "", 0, 0)

Or(key, default) == IF key = <<>> THEN <<default>> ELSE key
SymbolKey(c) == Or(c.field_symbol, "symbol")
NameKey(c) == Or(c.field_name, "name")
PriceKey(c) == Or(c.field_price, "price")

(* Value and change; the change comes from the previous close if the item  *)
(* has none, and the close is one that can be divided by.                  *)
Priced(e, c, v, price, change) ==
  LET value == json_get_double(v, price)
      given == json_get_double(v, change)
      prev  == json_get_double(v, c.field_prev_close)
  IN  [e EXCEPT !.value = value,
                !.change = IF given = NaN /\ value # NaN /\ prev > 0
                             THEN ((value - prev) * 100) \div prev ELSE given]

(* parse_generic_response, an item of an array.                            *)
ArrayItem(e, c, v) ==
  Priced([e EXCEPT !.symbol = StringOr(v, SymbolKey(c), @), !.name = StringOr(v, NameKey(c), @)],
         c, v, PriceKey(c), Or(c.field_change, "change_percent"))

(* A slip: an item without a price is counted for its name.                *)
SlipCountedUnpriced(e) == e.symbol # "" \/ e.name # ""

ArrayItemCounts(e) == (e.symbol # "" \/ e.name # "") /\ e.value # NaN

(* An object that has the price itself.  The price's key is looked up as   *)
(* one name here, dots and all.                                            *)
DirectPrice(c, data) ==
  LET found == IF Len(PriceKey(c)) = 1 THEN Member(data, PriceKey(c)[1]) ELSE Absent
  IN  found.type \notin {"absent", "object"}
FlatObject(e, c, v) ==
  LET itself == IF c.symbols # <<>> THEN c.symbols[1] ELSE c.name
  IN  Priced([e EXCEPT !.symbol = StringOr(v, SymbolKey(c), itself),
                       !.name = StringOr(v, NameKey(c), @)],
             c, v, PriceKey(c), Or(c.field_change, "change_percent"))
FlatObjectCounts(e) == e.symbol # "" /\ e.value # NaN

(* An object of objects or numbers, whose keys are the symbols.            *)
KeyedItem(e, c, p) ==
  LET keyed == [e EXCEPT !.symbol = p.k]
  IN  CASE p.v.type = "object" ->
             Priced([keyed EXCEPT !.symbol = StringOr(p.v, c.field_symbol, @),
                                  !.name = StringOr(p.v, c.field_name, @)],
                    c, p.v, Or(c.field_price, "usd"), Or(c.field_change, "usd_24h_change"))
        [] p.v.type = "number" -> [keyed EXCEPT !.value = p.v.n]
        [] OTHER -> keyed
KeyedItemCounts(e) == e.symbol # "" /\ e.value \notin {NaN, 0}

(* parse_binance_response: the symbols asked for, whatever their price.    *)
(* It and the next take a member whatever the case of its name.            *)
TextAnyCase(v, k) ==
  LET found == MemberAnyCase(v, k) IN IF found.type = "string" THEN found.s ELSE ""
Wanted(c, v) ==
  \/ c.symbols = <<>>
  \/ /\ MemberAnyCase(v, "symbol").type = "string"
     /\ TextAnyCase(v, "symbol") \in ToSet(c.symbols)
BinanceItem(e, v) ==
  LET symbol == TextAnyCase(v, "symbol")
  IN  Entry(symbol, symbol, AtoF(TextAnyCase(v, "lastPrice")),
            AtoF(TextAnyCase(v, "priceChangePercent")))

(* parse_coingecko_response: every member, whatever it is.                 *)
CoinGeckoItem(e, p) ==
  Entry(p.k, p.k, ValueDouble(MemberAnyCase(p.v, "usd")),
        ValueDouble(MemberAnyCase(p.v, "usd_24h_change")))

(* ws_callback, a message of a stream: prices are strings there.           *)
Ticker(e, v) ==
  [e EXCEPT !.symbol = StringOr(v, <<"s">>, @),
            !.value = AtoF(StringOr(v, <<"c">>, "")), !.change = AtoF(StringOr(v, <<"P">>, ""))]
TickerCounts(e) == e.symbol # "" /\ e.value > 0

(* parse_calendar_events, event i: the url is made of date and title, or   *)
(* of the title and the position if there is no date.                      *)
RegionOf(currency) ==
  CASE currency = ""    -> ""
    [] currency = "USD" -> "North America"
    [] currency = "EUR" -> "Europe"
    [] OTHER            -> "Global"
ScoreOf(impact) ==
  CASE impact = "High" -> 100 [] impact = "Medium" -> 75 [] impact = "Holiday" -> 25 [] OTHER -> 50

NoDate == "(no date)"
Url(date, title, n) == [date |-> date, title |-> title, n |-> n]
BlankEvent ==
  [title |-> <<"", "">>, url |-> Url("", "", 0), actual |-> "", region |-> "", score |-> 0]

Titled(v) == StringOr(v, <<"title">>, "") # ""
EventAt(v, n) ==
  LET title == StringOr(v, <<"title">>, "")
      ccy   == StringOr(v, <<"country">>, "")
  IN  [title |-> <<title, ccy>>, url |-> Url(StringOr(v, <<"date">>, NoDate), title, n),
       actual |-> StringOr(v, <<"actual">>, "-"), region |-> RegionOf(ccy),
       score |-> ScoreOf(StringOr(v, <<"impact">>, ""))]

(* A slip: the position is left out of the url.                            *)
SlipNoPosition(e, v, i) == EventAt(v, 0)

Event(e, v, i) == EventAt(v, IF StringOr(v, <<"date">>, NoDate) = NoDate THEN i ELSE 0)

(* mc_fetch_rest: which parser an answer goes to.                          *)
RestParserOf(c) ==
  IF c.category = "financial_news" THEN "calendar"
  ELSE IF c.field_price # <<>> THEN "generic"
  ELSE CASE c.brand = "Binance" -> "binance"
         [] c.brand = "CoinGecko" /\ c.response_format = "json_object" -> "coingecko"
         [] OTHER -> "generic"

(* Its last loop: names of symbols that came without one.                  *)
Named(c, e) ==
  IF /\ c.category \in DOMAIN DisplayNames /\ e.name = ""
     /\ e.symbol \in DOMAIN DisplayNames[c.category]
    THEN [e EXCEPT !.name = DisplayNames[c.category][e.symbol]] ELSE e
=============================================================================
