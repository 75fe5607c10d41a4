--------------------------------- MODULE Api ---------------------------------
(* The requests the two clients make of the HTTP API                       *)
(* (backend/src/api_http.c), as functions of what the daemon holds: its    *)
(* entries and news in memory, its status rows and row counts on disk.     *)
EXTENDS Integers, Sequences, FiniteSets

CONSTANTS MaxServed,    \* 2048, the buffer of a request for entries or news
          MaxStatuses,  \* 64, the buffer of a request for the sources
          NotGiven           \* a query argument that is not given

FirstOf(s, n) == SubSeq(s, 1, IF Len(s) < n THEN Len(s) ELSE n)

(* The names the API gives the categories, and those the terminal client   *)
(* reads: a name neither knows is a custom category.                       *)
CategoryNames == {"crypto", "stock_index", "commodity", "forex", "news", "crypto_exchange",
                  "financial_news", "official_pub", "custom"}
mc_category_str(c) == IF c \in CategoryNames THEN c ELSE "custom"
cat_from_str(s) == IF s \in CategoryNames THEN s ELSE "custom"

(* Of the first MaxServed, those of the category, if one is asked for.     *)
OfCategory(s, category) ==
  IF category = NotGiven THEN s
  ELSE SelectSeq(s, LAMBDA x : mc_category_str(x.category) = category)
handle_entries(d, category) == OfCategory(FirstOf(d.entries, MaxServed), category)
handle_news(d, category) == OfCategory(FirstOf(d.news, MaxServed), category)

Health(errors) == CASE errors = 0 -> "healthy" [] errors \in 1..2 -> "degraded" [] OTHER -> "failing"
handle_sources(d) ==
  LET shown == FirstOf(d.statuses, MaxStatuses) IN [i \in DOMAIN shown |-> Health(shown[i])]
handle_status(d) == [entries |-> d.entryRows, news |-> d.newsRows]
=============================================================================
