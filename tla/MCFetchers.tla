------------------------------ MODULE MCFetchers -----------------------------
(* Inputs for the fetchers: every item of a small grammar, alone and after *)
(* or before items that are counted, that are not, and that are skipped.   *)
EXTENDS Fetchers, TLC

Numerals == "0" :> 0 @@ "1" :> 1 @@ "7" :> 7
LowerCase == "Symbol" :> "symbol" @@ "USD" :> "usd"
Times == "noon" :> 12
Names == "stock_index" :> ("A" :> "Index A")

Given(sources, docs) == sources \X {"document"} \X docs
Nothing(c) == {c} \X {"failed", "garbage"} \X {Absent}

-----------------------------------------------------------------------------
(* Feeds.                                                                  *)

Feed == [kind |-> "rss", tier |-> 1, region |-> "eu"]
Children ==
  {Child("title", "T1", NoHref), Child("title", NoText, NoHref), Child("link", "u1", NoHref),
   Child("link", "u2", "h2"), Child("link", NoText, "h3"), Child("updated", "noon", NoHref),
   Child("pubDate", "soon", NoHref), Child("content", "c1", NoHref)}
Item2 == <<Child("title", "T2", NoHref), Child("link", NoText, "h4")>>
Untitled == <<Child("link", "u5", NoHref), Child("summary", "c5", NoHref)>>
ItemsAround == {<<x>> : x \in [1..3 -> Children]}
               \cup {<<Untitled, x, Item2>> : x \in [1..2 -> Children]}
Docs == {[items |-> x, entries |-> <<Item2>>, xmlns |-> FALSE] : x \in ItemsAround}
        \cup {[items |-> <<>>, entries |-> x, xmlns |-> FALSE] : x \in ItemsAround}
        \cup {[items |-> <<>>, entries |-> <<Item2>>, xmlns |-> TRUE]}
FeedFetches == Given({Feed}, Docs) \cup Nothing(Feed)

-----------------------------------------------------------------------------
(* REST sources.                                                           *)

Rest == [kind |-> "rest", category |-> "stock_index", brand |-> "other", name |-> "src",
         response_format |-> "json_object", symbols |-> <<>>, data_path |-> <<>>,
         field_symbol |-> <<>>, field_name |-> <<>>, field_price |-> <<>>,
         field_change |-> <<>>, field_prev_close |-> <<"prev">>]
Configured == [Rest EXCEPT !.field_price = <<"p", "0", "last">>, !.data_path = <<"data">>]

May(k, values) == {<<>>} \cup {<<Pair(k, v)>> : v \in values}
Prices == {Number(6), Text("7"), Text("n/a"), Arr(<<Number(1)>>), Arr(<<>>), Obj(<<>>)}
Objects ==
  {Obj(s \o n \o p \o ch \o pr) :
     s \in May("symbol", {Text("A"), Number(1)}), n \in May("name", {Text("B")}),
     p \in May("price", Prices), ch \in May("change_percent", {Number(2)}),
     pr \in May("prev", {Number(0), Number(5)})}
Good == Obj(<<Pair("symbol", Text("Z")), Pair("price", Number(3))>>)
Nameless == Obj(<<Pair("price", Number(4)), Pair("change_percent", Number(1))>>)
Deep(v) == Obj(<<Pair("symbol", Text("D")), Pair("p", Arr(<<Obj(<<Pair("last", v)>>)>>))>>)
Lists ==
  {Arr(<<x>>) : x \in Objects} \cup {Arr(<<x, Good>>) : x \in Objects}
  \cup {Arr(<<Good, Nameless, Good, x>>) : x \in {Good, Nameless, Text("A")}}
Members ==
  {Obj(<<Pair("A", x), Pair("B", y)>>) :
     x \in {Number(0), Number(5), Text("7"), Obj(<<Pair("usd", Number(2))>>), Obj(<<>>),
           Obj(<<Pair("USD", Number(2))>>)},
     y \in {Number(5), Obj(<<Pair("usd", Text("7")), Pair("prev", Number(5))>>), Arr(<<>>)}}
(* The body of an HTTP error.                                              *)
ErrorBody == Obj(<<Pair("code", Number(1)), Pair("msg", Text("n/a"))>>)
Binance(symbols) == [Rest EXCEPT !.brand = "Binance", !.symbols = symbols]
Tickers24 == {Arr(<<Obj(<<Pair(k, s), Pair("lastPrice", p)>>), Good>>) :
                k \in {"symbol", "Symbol"}, s \in {Text("A"), Text("C"), Number(1)},
                p \in {Text("7"), Number(7)}}
RestFetches ==
  Given({Rest}, Lists \cup Members \cup Objects \cup {ErrorBody}) \cup Nothing(Rest)
  \cup Given({Configured}, {ErrorBody} \cup
         {Obj(<<Pair("data", Arr(<<Deep(v), Good, Deep(Number(2))>>))>>) : v \in Prices})
  \cup Given({Binance(<<>>), Binance(<<"A">>), Binance(<<"A", "Z">>)}, Tickers24 \cup {ErrorBody})
  \cup Given({[Rest EXCEPT !.brand = "CoinGecko"]}, Members \cup {ErrorBody})

-----------------------------------------------------------------------------
(* Calendars and streams.                                                  *)

Calendar == [Rest EXCEPT !.category = "financial_news"]
Events == {Obj(<<Pair("title", t)>> \o d \o c) :
             t \in {Text("CPI"), Text("GDP"), Text("")},
             d \in May("date", {Text("d1"), Text("d2")}),
             c \in May("country", {Text("USD"), Text("CAD")})}
Impact ==
  Obj(<<Pair("title", Text("Rate")), Pair("impact", Text("High")), Pair("actual", Text("7"))>>)
CalendarFetches ==
  Given({Calendar}, {Arr(<<x, y>>) : x, y \in Events} \cup {Arr(<<Impact>>), ErrorBody})

Stream == [kind |-> "ws", category |-> "crypto"]
StreamFetches ==
  Given({Stream}, {Obj(s \o p) : s \in May("s", {Text("A"), Text("")}),
                                 p \in May("c", {Text("7"), Text("n/a"), Number(7)})})

AllFetches == FeedFetches \cup RestFetches \cup CalendarFetches \cup StreamFetches

(* Atom feeds, in Atom's namespace or not, whose links are empty elements, *)
(* as Atom's are.                                                          *)
AtomFetches == Given({Feed}, {[items |-> <<>>, entries |-> <<Item2>>, xmlns |-> x] : x \in BOOLEAN})
=============================================================================
