----------------------------- MODULE MCConfigLoad -----------------------------
(* Configuration files: keys that are missing, ordinary, out of range or   *)
(* too large for an int of eight bits; lists that are missing, empty, as   *)
(* long as their caps and longer.                                          *)
EXTENDS ConfigLoad

File(readable, valid, refresh, path, port, tabs, rss, rest) ==
  [readable |-> readable, valid |-> valid, refresh |-> refresh, db_path |-> path,
   http_port |-> port, tabs |-> tabs, rss |-> rss, rest |-> rest,
   ws |-> <<[interval |-> <<>>], [interval |-> <<300>>]>>]
Key(values) == {<<>>} \cup {<<v>> : v \in values}
RssTables == [interval : Key({9, -1, 300}), tier : Key({0, 2, 4, 257})]
RestTables == [interval : Key({9, -1}), method : Key({"", "POST"}),
               symbols : {<<>>, <<1, NoString, 2>>, <<1, 2, 3>>}]
TabLists == Key({<<>>, <<1, 2>>, <<1, NoString, 2, 3, 4, 5>>, <<1, 2, 3, 4, 5, 6>>})
SmallFiles ==
  {File(TRUE, TRUE, n, p, h, t, <<>>, <<>>) :
     n \in Key({60, -1, 400}), p \in Key({"", "/db", "~/db"}), h \in Key({80, 300}), t \in TabLists}
  \cup {File(TRUE, TRUE, n, <<>>, <<80>>, <<>>, <<x, y>>, <<>>) :
          n \in Key({60, -1, 400}), x \in RssTables, y \in {[interval |-> <<>>, tier |-> <<>>]}}
  \cup {File(TRUE, TRUE, n, <<>>, <<>>, <<>>, <<>>, <<x, x, x>>) :
          n \in Key({60}), x \in RestTables}
  \cup {File(r, v, <<60>>, <<>>, <<80>>, <<<<>>>>, <<>>, <<>>) : r \in {FALSE}, v \in BOOLEAN}
  \cup {File(TRUE, FALSE, <<60>>, <<>>, <<80>>, <<<<>>>>, <<>>, <<>>)}
=============================================================================
