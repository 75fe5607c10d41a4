------------------------------- MODULE MCStore -------------------------------
(* Small instances of Store for TLC. *)
EXTENDS Store, TLC

CONSTANTS ticker, quotes, feed, local, calendar, btc, story, second, event

(* A stream and a REST source of one name and symbol, whose rows may come  *)
(* in any order; two feeds that share a story, the second of which has a   *)
(* region and a story of its own.                                          *)
DeliversAll == ticker :> <<btc>> @@ quotes :> <<btc>> @@ feed :> <<story>> @@ local :> <<story, second>>
DeliversCalendar == calendar :> <<event>>
RegionAll == ticker :> "" @@ quotes :> "" @@ feed :> "" @@ local :> "eu"
RegionCalendar == calendar :> "eu"
SymbolAll == btc :> "BTC"
NoSymbol == [k \in {} |-> ""]

(* A new file, and those of the versions before each added column.         *)
OldFiles == {{}, Tables, Tables \cup {"base_score"}, Whole}
=============================================================================
