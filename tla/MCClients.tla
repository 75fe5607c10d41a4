------------------------------ MODULE MCClients ------------------------------
(* What a daemon may hold, for lists that need scrolling.                   *)
EXTENDS Clients, TLC

Entry(s, c) == [symbol |-> s, display_name |-> <<>>, source |-> <<"s">>, category |-> c]
Story(t, c) == [title |-> t, source |-> <<"s">>, category |-> c]
Crypto(n) == [i \in 1..n |-> Entry(IF i % 2 = 0 THEN <<"b", "a">> ELSE <<"b">>, "crypto")]
Pair == <<Entry(<<"a">>, "forex"), [Entry(<<"b">>, "forex") EXCEPT !.source = <<"a">>]>>
Stories == <<Story(<<"a", "a">>, "news"), Story(<<"b">>, "official_pub")>>
Daemon(es, ns) ==
  [entries |-> es, news |-> ns, entryRows |-> Len(es), newsRows |-> Len(ns),
   statuses |-> <<0, 2, 3>>]

MCTabs == <<"crypto", "forex", "news">>
MCSnapshots == {Daemon(Crypto(3) \o Pair, Stories), Daemon(Crypto(1) \o Pair, <<>>)}
MCHeld == Daemon(Crypto(2), Stories)
MCWebTabs == {"crypto", "forex", "news", "official_pub"}
=============================================================================
