---------------------------- MODULE ClientProofs ----------------------------
(***************************************************************************)
(* Proofs about the clients, for lists, tabs, texts and terminals of any   *)
(* size, and any tabs and requests of the page.                            *)
(*                                                                         *)
(* In the terminal the highlighted line is on the screen, and the page     *)
(* that is opened is the one of the pop-up.  Both need what holds between  *)
(* a drawing and the next key: the lists are those that were drawn, so     *)
(* that the number of lines the keys go by is the length of the list, and  *)
(* the pop-up's item is the cursor's.  In the page the lists are kept      *)
(* where they belong; that no more requests are awaited than are allowed   *)
(* needs a count of all of them, which each of its steps is followed in.   *)
(***************************************************************************)
EXTENDS Clients, SequenceTheorems, FiniteSetTheorems, TLAPS

(* Unless it is askew, the cursor is in the visible_rows lines from the    *)
(* scroll offset on; unless it is past the end, it is on a line of the     *)
(* list.                                                                   *)
Askew == "askew" \in disturbed
PastEnd == "past" \in disturbed
InWindow ==
  Fits /\ scroll_pos <= cursor_pos /\ cursor_pos < scroll_pos + visible_rows
OnLine == cursor_pos = 0 \/ cursor_pos < Len(Shown)
CursorInv == pc # "ended" => (Askew \/ InWindow) /\ (PastEnd \/ OnLine)

(* What a key finds is what has been drawn.                                *)
DrawnInv ==
  pc = "getch" =>
    /\ mode # "detail" => filtered_total = Len(Shown)
    /\ popup = IF mode = "detail" THEN Selected(Shown) ELSE NoItem

TuiInv == TuiTypeOK /\ CursorInv /\ DrawnInv

(* The cache has a list for each tab, the requests a number for each kind, *)
(* and there are not too many of them in all.                              *)
WebInv ==
  /\ WebTypeOK
  /\ DOMAIN cachedData = WebTabs
  /\ pending \in [Requests -> 0..MaxPending]
  /\ InFlight <= MaxPending

IndInv == TuiInv /\ WebInv

-----------------------------------------------------------------------------
(* Lists.                                                                  *)

(* Where in its list the items are that pass.                              *)
Hits(es, ns, filter) ==
  IF OnNews THEN {i \in DOMAIN ns : news_matches(ns[i], filter)}
  ELSE {i \in DOMAIN es : es[i].category = Tabs[active_tab] /\ entry_matches(es[i], filter)}

LEMMA FirstOfFacts ==
  ASSUME NEW S, NEW s \in Seq(S), NEW n \in Nat
  PROVE  FirstOf(s, n) \in Seq(S) /\ Len(FirstOf(s, n)) <= n
<1> DEFINE m == IF Len(s) < n THEN Len(s) ELSE n
<1>1. Len(s) \in Nat /\ \A i \in 1..Len(s) : s[i] \in S
  BY LenProperties, ElementOfSeq
<1>2. m \in Nat /\ m <= n /\ \A i \in 1..m : s[i] \in S
  BY <1>1
<1>3. FirstOf(s, n) = SubSeq(s, 1, m)
  BY DEF FirstOf
<1> HIDE DEF m
<1>4. SubSeq(s, 1, m) \in Seq(S) /\ Len(SubSeq(s, 1, m)) = IF 1 <= m THEN m - 1 + 1 ELSE 0
  BY <1>2, SubSeqProperties
<1> QED
  BY <1>2, <1>3, <1>4

(* A list is as long as there are items in it that pass.                   *)
LEMMA FilteredLen ==
  ASSUME NEW es \in Seq(AnEntry), NEW ns \in Seq(AStory), NEW filter
  PROVE  /\ IsFiniteSet(Hits(es, ns, filter))
         /\ Len(Filtered(es, ns, filter)) = Cardinality(Hits(es, ns, filter))
         /\ Len(Filtered(es, ns, filter)) \in Nat
         /\ Len(Filtered(es, ns, filter)) <= IF OnNews THEN Len(ns) ELSE Len(es)
         /\ \E S : Filtered(es, ns, filter) \in Seq(S)
<1>1. /\ Len(ns) \in Nat /\ DOMAIN ns = 1..Len(ns)
      /\ Len(es) \in Nat /\ DOMAIN es = 1..Len(es)
  BY LenProperties
<1>2. /\ IsFiniteSet(DOMAIN ns) /\ Cardinality(DOMAIN ns) = Len(ns)
      /\ IsFiniteSet(DOMAIN es) /\ Cardinality(DOMAIN es) = Len(es)
  <2>1. \A n \in Nat : IsFiniteSet(1..n) /\ Cardinality(1..n) = n
    BY FS_Interval
  <2> QED
    BY <1>1, <2>1
<1>3. /\ IsFiniteSet(Hits(es, ns, filter))
      /\ Cardinality(Hits(es, ns, filter)) <= IF OnNews THEN Len(ns) ELSE Len(es)
  <2>1. Hits(es, ns, filter) \subseteq IF OnNews THEN DOMAIN ns ELSE DOMAIN es
    BY DEF Hits
  <2> QED
    BY <1>2, <2>1, FS_Subset
<1>4. Cardinality(Hits(es, ns, filter)) \in Nat
  BY <1>3, FS_CardinalityType
<1>5. DOMAIN Filtered(es, ns, filter) = 1..Cardinality(Hits(es, ns, filter))
  BY DEF Filtered, Passing, Picked, Hits
<1>6. \E S : Filtered(es, ns, filter) \in [1..Cardinality(Hits(es, ns, filter)) -> S]
  <2> DEFINE f == Filtered(es, ns, filter)
  <2>1. f = [k \in DOMAIN f |-> f[k]]
    BY DEF Filtered, Passing, Picked
  <2> HIDE DEF f
  <2>2. f \in [DOMAIN f -> {f[k] : k \in DOMAIN f}]
    BY <2>1
  <2> QED
    BY <1>5, <2>2 DEF f
<1>7. /\ Len(Filtered(es, ns, filter)) = Cardinality(Hits(es, ns, filter))
      /\ \E S : Filtered(es, ns, filter) \in Seq(S)
  <2>1. PICK S : Filtered(es, ns, filter) \in [1..Cardinality(Hits(es, ns, filter)) -> S]
    BY <1>6
  <2>2. Filtered(es, ns, filter) \in Seq(S)
    BY <1>4, <2>1, SeqDef
  <2> QED
    BY <1>4, <2>1, <2>2
<1> QED
  BY <1>3, <1>4, <1>7

(* The beginning of a part of a sequence is a part of it.                  *)
LEMMA PartOfPart ==
  ASSUME NEW S, NEW s, NEW m \in Int, NEW k \in Nat,
         \A i \in m..(m + k) : s[i] \in S
  PROVE  SubSeq(SubSeq(s, m, m + k), 1, k) = SubSeq(s, m, m + k - 1)
<1>1. /\ SubSeq(s, m, m + k) \in Seq(S) /\ Len(SubSeq(s, m, m + k)) = k + 1
      /\ \A i \in 1..(k + 1) : SubSeq(s, m, m + k)[i] = s[m + i - 1]
  <2>1. /\ SubSeq(s, m, m + k) \in Seq(S)
        /\ Len(SubSeq(s, m, m + k)) = IF m <= m + k THEN (m + k) - m + 1 ELSE 0
        /\ \A i \in 1..((m + k) - m + 1) : SubSeq(s, m, m + k)[i] = s[m + i - 1]
    BY SubSeqProperties
  <2> QED
    BY <2>1
<1>2. /\ SubSeq(s, m, m + k - 1) \in Seq(S) /\ Len(SubSeq(s, m, m + k - 1)) = k
      /\ \A i \in 1..k : SubSeq(s, m, m + k - 1)[i] = s[m + i - 1]
  <2>1. \A i \in m..(m + k - 1) : s[i] \in S
    OBVIOUS
  <2>2. /\ SubSeq(s, m, m + k - 1) \in Seq(S)
        /\ Len(SubSeq(s, m, m + k - 1)) =
             IF m <= m + k - 1 THEN (m + k - 1) - m + 1 ELSE 0
        /\ \A i \in 1..((m + k - 1) - m + 1) : SubSeq(s, m, m + k - 1)[i] = s[m + i - 1]
    BY <2>1, SubSeqProperties
  <2> QED
    BY <2>2
<1> DEFINE t == SubSeq(s, m, m + k)
<1> HIDE DEF t
<1>3. /\ SubSeq(t, 1, k) \in Seq(S) /\ Len(SubSeq(t, 1, k)) = k
      /\ \A i \in 1..k : SubSeq(t, 1, k)[i] = t[i]
  <2>1. \A i \in 1..k : t[i] \in S
    BY <1>1, ElementOfSeq DEF t
  <2>2. /\ SubSeq(t, 1, k) \in Seq(S)
        /\ Len(SubSeq(t, 1, k)) = IF 1 <= k THEN k - 1 + 1 ELSE 0
        /\ \A i \in 1..(k - 1 + 1) : SubSeq(t, 1, k)[i] = t[1 + i - 1]
    BY <2>1, SubSeqProperties
  <2> QED
    BY <2>2
<1>4. \A i \in 1..k : SubSeq(t, 1, k)[i] = SubSeq(s, m, m + k - 1)[i]
  BY <1>1, <1>2, <1>3 DEF t
<1>5. SubSeq(t, 1, k) = SubSeq(s, m, m + k - 1)
  BY <1>2, <1>3, <1>4, SeqEqual
<1> QED
  BY <1>5 DEF t

(* A query that is shortened passes what it has passed.                    *)
LEMMA ShorterMatches ==
  ASSUME NEW h \in Text, NEW q \in Seq(Letters), q # <<>>, str_match(h, q)
  PROVE  str_match(h, SubSeq(q, 1, Len(q) - 1))
<1> DEFINE k == Len(q) - 1
<1>1. k \in Nat /\ Len(q) = k + 1 /\ Len(h) \in Nat
  BY EmptySeq, LenProperties DEF Text
<1>2. PICK i \in 0..(Len(h) - Len(q)) : SubSeq(h, i + 1, i + Len(q)) = q
  BY DEF str_match
<1> HIDE DEF k
<1>3. \A j \in (i + 1)..(i + 1 + k) : h[j] \in Characters
  BY <1>1, ElementOfSeq DEF Text
<1>4. SubSeq(SubSeq(h, i + 1, i + 1 + k), 1, k) = SubSeq(h, i + 1, i + 1 + k - 1)
  BY <1>1, <1>3, PartOfPart
<1>5. i + 1 + k = i + Len(q) /\ i + 1 + k - 1 = i + k
  BY <1>1
<1>6. SubSeq(q, 1, k) = SubSeq(h, i + 1, i + k)
  BY <1>2, <1>4, <1>5
<1>7. Len(SubSeq(q, 1, k)) = k
  <2>1. \A j \in 1..k : q[j] \in Letters
    BY <1>1, ElementOfSeq
  <2>2. Len(SubSeq(q, 1, k)) = IF 1 <= k THEN k - 1 + 1 ELSE 0
    BY <1>1, <2>1, SubSeqProperties
  <2> QED
    BY <1>1, <2>2
<1>8. i \in 0..(Len(h) - k)
  BY <1>1
<1>9. str_match(h, SubSeq(q, 1, k))
  BY <1>6, <1>7, <1>8 DEF str_match
<1> QED
  BY <1>9 DEF k

LEMMA ShorterPasses ==
  ASSUME NEW es \in Seq(AnEntry), NEW ns \in Seq(AStory),
         NEW q \in Seq(Letters), q # <<>>
  PROVE  Len(Filtered(es, ns, q)) <= Len(Filtered(es, ns, SubSeq(q, 1, Len(q) - 1)))
<1> DEFINE p == SubSeq(q, 1, Len(q) - 1)
<1>1. ASSUME NEW e \in AnEntry, entry_matches(e, q)
      PROVE  entry_matches(e, p)
  BY <1>1, ShorterMatches DEF AnEntry, entry_matches
<1>2. ASSUME NEW e \in AStory, news_matches(e, q)
      PROVE  news_matches(e, p)
  BY <1>2, ShorterMatches DEF AStory, news_matches
<1>3. /\ \A i \in DOMAIN es : es[i] \in AnEntry
      /\ \A i \in DOMAIN ns : ns[i] \in AStory
  BY LenProperties, ElementOfSeq
<1> HIDE DEF p
<1>4. Hits(es, ns, q) \subseteq Hits(es, ns, p)
  BY <1>1, <1>2, <1>3 DEF Hits
<1>5. Cardinality(Hits(es, ns, q)) <= Cardinality(Hits(es, ns, p))
  BY <1>4, FilteredLen, FS_Subset
<1> QED
  BY <1>5, FilteredLen DEF p

-----------------------------------------------------------------------------
(* What a step leaves alone.                                               *)

LEMMA ShownFacts ==
  ASSUME TuiTypeOK
  PROVE  Len(Shown) \in Nat /\ Len(Shown) <= MaxListed
<1>1. entries \in Seq(AnEntry) /\ news \in Seq(AStory)
  BY DEF TuiTypeOK
<1>2. /\ Len(Shown) \in Nat
      /\ Len(Shown) <= IF OnNews THEN Len(news) ELSE Len(entries)
  BY <1>1, FilteredLen DEF Shown
<1>3. Len(entries) \in Nat /\ Len(news) \in Nat
  BY <1>1, LenProperties
<1> QED
  BY <1>2, <1>3, TuiAssumption DEF TuiTypeOK, MaxListed

LEMMA SameShown ==
  ASSUME UNCHANGED <<active_tab, search_query, lists>>
  PROVE  Shown' = Shown
BY DEF lists, Shown, Filtered, OnNews, Passing, Picked, news_matches, entry_matches, str_match

(* The cursor stays where it is, in the same list.                         *)
LEMMA Still ==
  ASSUME TuiInv, pc # "ended", UNCHANGED <<active_tab, search_query, lists, position, window>>
  PROVE  CursorInv'
<1>1. Shown' = Shown
  BY SameShown
<1> QED
  BY <1>1 DEF TuiInv, CursorInv, Askew, PastEnd, InWindow, OnLine, position, window, Fits,
              visible_rows

(* The cursor goes to the top.                                             *)
LEMMA ToTheTop ==
  ASSUME TuiTypeOK, AtTop, UNCHANGED window
  PROVE  CursorInv'
<1>1. max_y \in Int
  BY TuiAssumption DEF TuiTypeOK
<1>2. cursor_pos' = 0 /\ scroll_pos' = 0 /\ UNCHANGED <<max_y, content_h>>
  BY DEF AtTop, window
<1>3. Askew' \/ Fits
  BY DEF AtTop, Undisturbed, Askew
<1>4. Fits => Fits' /\ 0 < visible_rows'
  BY <1>1, <1>2 DEF Fits, visible_rows
<1> QED
  BY <1>1, <1>2, <1>3, <1>4 DEF CursorInv, InWindow, OnLine, visible_rows

LEMMA Iteration ==
  ASSUME NEW t \in 0..3, EndIteration(t)
  PROVE  /\ pc = "getch" /\ pc' \in {"fetch", "draw"} /\ tick' \in 0..3
         /\ DrawnInv'
BY DEF EndIteration, DrawnInv

LEMMA TickedFacts ==
  ASSUME TuiTypeOK
  PROVE  Ticked \in 0..3
BY DEF TuiTypeOK, Ticked

-----------------------------------------------------------------------------
(* One lemma per action.                                                   *)

LEMMA ServeStep ==
  ASSUME TuiInv, Serve
  PROVE  TuiInv'
<1>1. TuiTypeOK'
  BY DEF TuiInv, Serve, TuiTypeOK, lists, position, window
<1>2. CursorInv'
  BY Still DEF Serve
<1>3. DrawnInv'
  <2>1. Shown' = Shown
    BY SameShown DEF Serve
  <2> QED
    BY <2>1 DEF TuiInv, Serve, DrawnInv, Selected, position
<1> QED
  BY <1>1, <1>2, <1>3 DEF TuiInv

(* What the daemon answers, cut and read back, is a list of entries.       *)
LEMMA EntriesReceived ==
  ASSUME TuiTypeOK, FetchEntries
  PROVE  entries' \in Seq(AnEntry) /\ Len(entries') <= MAX_ENTRIES
<1>1. CASE entries' = entries
  BY <1>1 DEF TuiTypeOK
<1>2. CASE entries' # entries
  <2>1. served \in Snapshots
    BY <1>2 DEF FetchEntries, TuiTypeOK
  <2>2. served.entries \in Seq(AnEntry)
    BY <2>1, TuiAssumption
  <2> DEFINE a == FirstOf(served.entries, MaxServed)
  <2>3. a \in Seq(AnEntry)
    BY <2>2, TuiAssumption, FirstOfFacts
  <2> DEFINE h == handle_entries(served, NotGiven)
  <2>4. h \in Seq(AnEntry)
    BY <2>3 DEF handle_entries, OfCategory
  <2> HIDE DEF h
  <2>5. ReadBack(h) \in Seq(AnEntry)
    <3>1. Len(h) \in Nat /\ DOMAIN h = 1..Len(h) /\ \A i \in 1..Len(h) : h[i] \in AnEntry
      BY <2>4, LenProperties, ElementOfSeq
    <3>2. \A c : cat_from_str(c) \in CategoryNames
      BY DEF cat_from_str, CategoryNames
    <3>3. \A i \in 1..Len(h) :
            [h[i] EXCEPT !.category = cat_from_str(mc_category_str(@))] \in AnEntry
      BY <3>1, <3>2 DEF AnEntry
    <3>4. ReadBack(h) \in [1..Len(h) -> AnEntry]
      BY <3>1, <3>3 DEF ReadBack
    <3> QED
      BY <3>1, <3>4, SeqDef
  <2>6. entries' = Received(entries, ReadBack(h), MAX_ENTRIES)
    BY <1>2 DEF FetchEntries, h
  <2>7. entries' = FirstOf(ReadBack(h), MAX_ENTRIES)
    BY <1>2, <2>6 DEF Received
  <2> QED
    BY <2>5, <2>7, TuiAssumption, FirstOfFacts
<1> QED
  BY <1>1, <1>2

LEMMA NewsReceived ==
  ASSUME TuiTypeOK, FetchNews
  PROVE  news' \in Seq(AStory) /\ Len(news') <= MAX_NEWS
<1>1. CASE news' = news
  BY <1>1 DEF TuiTypeOK
<1>2. CASE news' # news
  <2>1. served \in Snapshots
    BY <1>2 DEF FetchNews, TuiTypeOK
  <2>2. served.news \in Seq(AStory)
    BY <2>1, TuiAssumption
  <2> DEFINE a == FirstOf(served.news, MaxServed)
  <2>3. a \in Seq(AStory)
    BY <2>2, TuiAssumption, FirstOfFacts
  <2> DEFINE h == handle_news(served, NotGiven)
  <2>4. h \in Seq(AStory)
    BY <2>3 DEF handle_news, OfCategory
  <2> HIDE DEF h
  <2>5. ReadBack(h) \in Seq(AStory)
    <3>1. Len(h) \in Nat /\ DOMAIN h = 1..Len(h) /\ \A i \in 1..Len(h) : h[i] \in AStory
      BY <2>4, LenProperties, ElementOfSeq
    <3>2. \A c : cat_from_str(c) \in CategoryNames
      BY DEF cat_from_str, CategoryNames
    <3>3. \A i \in 1..Len(h) :
            [h[i] EXCEPT !.category = cat_from_str(mc_category_str(@))] \in AStory
      BY <3>1, <3>2 DEF AStory
    <3>4. ReadBack(h) \in [1..Len(h) -> AStory]
      BY <3>1, <3>3 DEF ReadBack
    <3> QED
      BY <3>1, <3>4, SeqDef
  <2>6. news' = Received(news, ReadBack(h), MAX_NEWS)
    BY <1>2 DEF FetchNews, h
  <2>7. news' = FirstOf(ReadBack(h), MAX_NEWS)
    BY <1>2, <2>6 DEF Received
  <2> QED
    BY <2>5, <2>7, TuiAssumption, FirstOfFacts
<1> QED
  BY <1>1, <1>2

(* A fetch or a letter that makes the list shorter may leave the cursor    *)
(* past its end; any other leaves it in the list, and none moves it from   *)
(* the lines that are drawn.                                               *)
LEMMA Replaced ==
  ASSUME TuiInv, pc # "ended",
         UNCHANGED <<active_tab, cursor_pos, scroll_pos, window>>,
         disturbed' = disturbed \cup Past(entries', news', search_query'),
         entries' \in Seq(AnEntry), news' \in Seq(AStory)
  PROVE  CursorInv' /\ disturbed' \subseteq {"past", "askew"}
<1>1. Shown' = Filtered(entries', news', search_query')
  BY DEF Shown, Filtered, OnNews, Passing, Picked, news_matches, entry_matches, str_match
<1>2. Len(Shown') \in Nat /\ Len(Shown) \in Nat
  BY <1>1, FilteredLen, ShownFacts DEF TuiInv
<1>3. disturbed' \subseteq {"past", "askew"}
  BY DEF TuiInv, TuiTypeOK, Past
<1>4. /\ Askew' = Askew
      /\ ~PastEnd' => ~PastEnd /\ Len(Shown') >= Len(Shown)
  <2>1. Past(entries', news', search_query') = IF Len(Shown') < Len(Shown) THEN {"past"} ELSE {}
    BY <1>1 DEF Past
  <2>2. CASE Len(Shown') < Len(Shown)
    BY <2>1, <2>2 DEF Askew, PastEnd
  <2>3. CASE ~(Len(Shown') < Len(Shown))
    BY <1>2, <2>1, <2>3 DEF Askew, PastEnd
  <2> QED
    BY <2>2, <2>3
<1>5. cursor_pos \in Nat
  BY DEF TuiInv, TuiTypeOK
<1>6. Askew' \/ InWindow'
  BY <1>4 DEF TuiInv, CursorInv, InWindow, window, Fits, visible_rows
<1>7. PastEnd' \/ OnLine'
  BY <1>2, <1>4, <1>5 DEF TuiInv, CursorInv, OnLine
<1> QED
  BY <1>3, <1>6, <1>7 DEF CursorInv

LEMMA FetchEntriesStep ==
  ASSUME TuiInv, FetchEntries
  PROVE  TuiInv'
<1>1. TuiTypeOK
  BY DEF TuiInv
<1>2. entries' \in Seq(AnEntry) /\ Len(entries') <= MAX_ENTRIES /\ news' \in Seq(AStory)
  BY <1>1, EntriesReceived DEF FetchEntries, TuiTypeOK
<1>3. CursorInv' /\ disturbed' \subseteq {"past", "askew"}
  <2>1. disturbed' = disturbed \cup Past(entries', news', search_query') /\ pc # "ended"
    BY DEF FetchEntries, Past, Shown, Filtered, OnNews
  <2> QED
    BY <1>2, <2>1, Replaced DEF FetchEntries
<1>4. TuiTypeOK'
  BY <1>1, <1>2, <1>3 DEF FetchEntries, TuiTypeOK, window
<1>5. DrawnInv'
  BY DEF FetchEntries, DrawnInv
<1> QED
  BY <1>3, <1>4, <1>5 DEF TuiInv

LEMMA FetchNewsStep ==
  ASSUME TuiInv, FetchNews
  PROVE  TuiInv'
<1>1. TuiTypeOK
  BY DEF TuiInv
<1>2. news' \in Seq(AStory) /\ Len(news') <= MAX_NEWS /\ entries' \in Seq(AnEntry)
  BY <1>1, NewsReceived DEF FetchNews, TuiTypeOK
<1>3. CursorInv' /\ disturbed' \subseteq {"past", "askew"}
  <2>1. disturbed' = disturbed \cup Past(entries', news', search_query') /\ pc # "ended"
    BY DEF FetchNews, Past, Shown, Filtered, OnNews
  <2> QED
    BY <1>2, <2>1, Replaced DEF FetchNews
<1>4. TuiTypeOK'
  BY <1>1, <1>2, <1>3 DEF FetchNews, TuiTypeOK, window
<1>5. DrawnInv'
  BY DEF FetchNews, DrawnInv
<1> QED
  BY <1>3, <1>4, <1>5 DEF TuiInv

LEMMA DrawStep ==
  ASSUME TuiInv, Draw
  PROVE  TuiInv'
<1>1. TuiTypeOK /\ pc = "draw"
  BY DEF TuiInv, Draw
<1>2. filtered_total' \in 0..MaxListed
  <2>1. Len(Shown) \in 0..MaxListed
    BY <1>1, ShownFacts, TuiAssumption DEF MaxListed
  <2> QED
    BY <1>1, <2>1 DEF Draw, TuiTypeOK
<1>3. TuiTypeOK'
  BY <1>1, <1>2 DEF Draw, TuiTypeOK, lists, position, window
<1>4. CursorInv'
  BY <1>1, Still DEF Draw
<1>5. DrawnInv'
  <2>1. Shown' = Shown
    BY SameShown DEF Draw
  <2> QED
    BY <2>1 DEF Draw, DrawnInv, Selected, position
<1> QED
  BY <1>3, <1>4, <1>5 DEF TuiInv

(* The keys that move nothing.                                             *)
LEMMA KeyStill ==
  ASSUME TuiInv, NoKey \/ Open \/ CloseDetail \/ StartSearch \/ OpenDetail \/ Refresh
  PROVE  TuiInv'
<1>1. TuiTypeOK
  BY DEF TuiInv
<1>2. PICK t \in 0..3 : EndIteration(t)
  BY <1>1, TickedFacts DEF NoKey, Open, CloseDetail, StartSearch, OpenDetail, Refresh
<1>3. pc = "getch" /\ pc' \in {"fetch", "draw"} /\ tick' \in 0..3 /\ DrawnInv'
  BY <1>2, Iteration
<1>4. /\ UNCHANGED <<served, active_tab, filtered_total, search_query, lists, position, window>>
      /\ mode' \in {"normal", "search", "detail"}
  BY <1>1 DEF NoKey, Open, CloseDetail, StartSearch, OpenDetail, Refresh, TuiTypeOK
<1>5. TuiTypeOK'
  BY <1>1, <1>3, <1>4 DEF TuiTypeOK, lists, position, window
<1>6. CursorInv'
  BY <1>3, <1>4, Still
<1> QED
  BY <1>3, <1>5, <1>6 DEF TuiInv

(* The keys after which another list, or all of it, is shown from its top. *)
LEMMA KeyToTheTop ==
  ASSUME TuiInv, EndSearch \/ ChangeTab \/ ClearSearch
  PROVE  TuiInv'
<1>1. TuiTypeOK
  BY DEF TuiInv
<1>2. EndIteration(Ticked) /\ Ticked \in 0..3
  BY <1>1, TickedFacts DEF EndSearch, ChangeTab, ClearSearch
<1>3. pc = "getch" /\ pc' \in {"fetch", "draw"} /\ tick' \in 0..3 /\ DrawnInv'
  BY <1>2, Iteration
<1>4. /\ UNCHANGED <<served, filtered_total, lists, window>> /\ AtTop
      /\ active_tab' \in DOMAIN Tabs
      /\ search_query' \in {search_query, <<>>}
      /\ mode' \in {"normal", "search", "detail"}
  BY <1>1 DEF EndSearch, ChangeTab, ClearSearch, TuiTypeOK
<1>5. search_query' \in Seq(Letters) /\ Len(search_query') < MAX_SEARCH
  <2>1. <<>> \in Seq(Letters) /\ Len(<<>>) < MAX_SEARCH
    BY EmptySeq, TuiAssumption
  <2> QED
    BY <1>1, <1>4, <2>1 DEF TuiTypeOK
<1>6. cursor_pos' \in 0..MaxListed /\ scroll_pos' \in Nat /\ disturbed' \subseteq {"past", "askew"}
  BY <1>4, TuiAssumption DEF AtTop, Undisturbed, MaxListed
<1>7. TuiTypeOK'
  BY <1>1, <1>3, <1>4, <1>5, <1>6 DEF TuiTypeOK, lists, window
<1>8. CursorInv'
  BY <1>1, <1>4, ToTheTop
<1> QED
  BY <1>3, <1>7, <1>8 DEF TuiInv

LEMMA TypeStep ==
  ASSUME TuiInv, NEW ch \in Letters, Type(ch)
  PROVE  TuiInv'
<1>1. TuiTypeOK
  BY DEF TuiInv
<1>2. EndIteration(Ticked) /\ Ticked \in 0..3
  BY <1>1, TickedFacts DEF Type
<1>3. pc = "getch" /\ pc' \in {"fetch", "draw"} /\ tick' \in 0..3 /\ DrawnInv'
  BY <1>2, Iteration
<1>4. search_query' \in Seq(Letters) /\ Len(search_query') < MAX_SEARCH
  BY <1>1, TuiAssumption DEF Type, TuiTypeOK
<1>5. CursorInv' /\ disturbed' \subseteq {"past", "askew"}
  <2>1. UNCHANGED <<active_tab, entries, news, cursor_pos, scroll_pos, window>>
    BY DEF Type, lists
  <2>2. entries' \in Seq(AnEntry) /\ news' \in Seq(AStory)
    BY <1>1, <2>1 DEF TuiTypeOK
  <2>3. disturbed' = disturbed \cup Past(entries', news', search_query')
    BY <2>1 DEF Type, Past, Filtered, OnNews, Shown
  <2> QED
    BY <1>3, <2>1, <2>2, <2>3, Replaced
<1>6. TuiTypeOK'
  BY <1>1, <1>3, <1>4, <1>5 DEF Type, TuiTypeOK, lists, window
<1> QED
  BY <1>3, <1>5, <1>6 DEF TuiInv

(* What passed the query passes its beginning: the cursor stays inside.    *)
LEMMA BackspaceStep ==
  ASSUME TuiInv, Backspace
  PROVE  TuiInv'
<1>1. TuiTypeOK
  BY DEF TuiInv
<1>2. EndIteration(Ticked) /\ Ticked \in 0..3
  BY <1>1, TickedFacts DEF Backspace
<1>3. pc = "getch" /\ pc' \in {"fetch", "draw"} /\ tick' \in 0..3 /\ DrawnInv'
  BY <1>2, Iteration
<1>4. search_query' \in Seq(Letters) /\ Len(search_query') < MAX_SEARCH
  <2> DEFINE n == Len(search_query)
  <2>1. search_query \in Seq(Letters) /\ n \in Nat \ {0} /\ n < MAX_SEARCH
    BY <1>1, EmptySeq, LenProperties DEF Backspace, TuiTypeOK
  <2>2. \A i \in 1..(n - 1) : search_query[i] \in Letters
    BY <2>1, ElementOfSeq
  <2>3. search_query' = SubSeq(search_query, 1, n - 1)
    BY DEF Backspace
  <2> HIDE DEF n
  <2>4. /\ SubSeq(search_query, 1, n - 1) \in Seq(Letters)
        /\ Len(SubSeq(search_query, 1, n - 1)) = IF 1 <= n - 1 THEN (n - 1) - 1 + 1 ELSE 0
    BY <2>1, <2>2, SubSeqProperties
  <2> QED
    BY <2>1, <2>3, <2>4, TuiAssumption
<1>5. TuiTypeOK'
  BY <1>1, <1>3, <1>4 DEF Backspace, TuiTypeOK, lists, position, window
<1>6. Len(Shown) <= Len(Shown') /\ Len(Shown) \in Nat /\ Len(Shown') \in Nat
  <2>1. Shown' = Filtered(entries, news, SubSeq(search_query, 1, Len(search_query) - 1))
    BY DEF Backspace, lists, Shown, Filtered, OnNews, Passing, Picked, news_matches, entry_matches,
           str_match
  <2>2. /\ entries \in Seq(AnEntry) /\ news \in Seq(AStory)
        /\ search_query \in Seq(Letters) /\ search_query # <<>>
    BY <1>1 DEF TuiTypeOK, Backspace
  <2> QED
    BY <2>1, <2>2, ShorterPasses, FilteredLen DEF Shown
<1>7. cursor_pos \in Nat /\ UNCHANGED <<position, window>>
  BY <1>1 DEF TuiTypeOK, Backspace
<1>8. CursorInv'
  BY <1>3, <1>6, <1>7 DEF TuiInv, CursorInv, Askew, PastEnd, InWindow, OnLine, position, window,
                          Fits, visible_rows
<1> QED
  BY <1>3, <1>5, <1>8 DEF TuiInv

LEMMA QuitStep ==
  ASSUME TuiInv, Quit
  PROVE  TuiInv'
<1>1. TuiTypeOK'
  BY DEF TuiInv, Quit, TuiTypeOK, lists, position, window
<1> QED
  BY <1>1 DEF TuiInv, Quit, CursorInv, DrawnInv

LEMMA ResizeStep ==
  ASSUME TuiInv, Resize
  PROVE  TuiInv'
<1>1. TuiTypeOK
  BY DEF TuiInv
<1>2. EndIteration(Ticked) /\ Ticked \in 0..3
  BY <1>1, TickedFacts DEF Resize
<1>3. pc = "getch" /\ pc' \in {"fetch", "draw"} /\ tick' \in 0..3 /\ DrawnInv'
  BY <1>2, Iteration
<1>4. max_y \in Int /\ max_y' \in Heights /\ max_y' \in Int /\ content_h' \in Int
  BY <1>1, TuiAssumption DEF Resize, TuiTypeOK
<1>5. /\ UNCHANGED <<served, mode, active_tab, filtered_total, search_query, lists, cursor_pos,
                     scroll_pos>>
      /\ disturbed' = IF max_y' >= max_y /\ max_y' >= 8 /\ content_h' = max_y' - 4
                      THEN disturbed ELSE disturbed \cup {"askew"}
  BY DEF Resize
<1>6. disturbed' \subseteq {"past", "askew"} /\ PastEnd' = PastEnd
  BY <1>1, <1>5 DEF TuiTypeOK, PastEnd
<1>7. TuiTypeOK'
  BY <1>1, <1>3, <1>4, <1>5, <1>6 DEF TuiTypeOK, lists
<1>8. PastEnd' \/ OnLine'
  <2>1. Shown' = Shown
    BY <1>5, SameShown
  <2> QED
    BY <1>3, <1>5, <1>6, <2>1 DEF TuiInv, CursorInv, OnLine
<1>9. Askew' \/ InWindow'
  <2>1. CASE max_y' >= max_y /\ max_y' >= 8 /\ content_h' = max_y' - 4
    <3>1. Askew' = Askew
      BY <1>5, <2>1 DEF Askew
    <3>2. cursor_pos \in Nat /\ scroll_pos \in Nat
      BY <1>1 DEF TuiTypeOK
    <3>3. CASE Askew
      BY <3>1, <3>3
    <3>4. CASE ~Askew
      <4>1. scroll_pos <= cursor_pos /\ cursor_pos < scroll_pos + (max_y - 4 - 3)
        BY <1>3, <3>4 DEF TuiInv, CursorInv, InWindow, visible_rows
      <4>2. cursor_pos < scroll_pos + (max_y' - 4 - 3)
        <5>1. ASSUME NEW n \in Int, n >= max_y
              PROVE  cursor_pos < scroll_pos + (n - 4 - 3)
          BY <1>4, <3>2, <4>1, <5>1
        <5> QED
          BY <1>4, <2>1, <5>1, Zenon
      <4> QED
        BY <1>5, <2>1, <4>1, <4>2 DEF InWindow, Fits, visible_rows
    <3> QED
      BY <3>3, <3>4
  <2>2. CASE ~(max_y' >= max_y /\ max_y' >= 8 /\ content_h' = max_y' - 4)
    BY <1>5, <2>2 DEF Askew
  <2> QED
    BY <2>1, <2>2
<1> QED
  BY <1>3, <1>7, <1>8, <1>9 DEF TuiInv, CursorInv

(* The keys that move the cursor: by the length of the list that has been  *)
(* drawn, and with as many lines as the window has.                        *)
LEMMA MoveStep ==
  ASSUME TuiInv, Move
  PROVE  TuiInv'
<1>1. TuiTypeOK
  BY DEF TuiInv
<1>2. EndIteration(Ticked) /\ Ticked \in 0..3 /\ mode = "normal"
  BY <1>1, TickedFacts DEF Move
<1>3. pc = "getch" /\ pc' \in {"fetch", "draw"} /\ tick' \in 0..3 /\ DrawnInv'
  BY <1>2, Iteration
<1>4. UNCHANGED <<served, mode, active_tab, filtered_total, search_query, lists, window>>
  BY DEF Move
<1>5. filtered_total = Len(Shown) /\ Shown' = Shown
  BY <1>2, <1>3, <1>4, SameShown DEF TuiInv, DrawnInv
<1> DEFINE v == visible_rows
<1>6. /\ cursor_pos \in 0..MaxListed /\ scroll_pos \in Nat /\ filtered_total \in 0..MaxListed
      /\ v \in Int /\ MaxListed \in Nat /\ PAGE_SIZE \in Nat \ {0}
      /\ visible_rows' = v /\ (Fits => 1 <= v) /\ Fits' = Fits
  <2>1. max_y \in Int /\ MaxListed \in Nat
    BY <1>1, TuiAssumption DEF TuiTypeOK, MaxListed
  <2> QED
    BY <1>1, <1>4, <2>1, TuiAssumption DEF TuiTypeOK, visible_rows, Fits, window
<1>7. /\ ~Askew => Fits /\ scroll_pos <= cursor_pos /\ cursor_pos < scroll_pos + v
      /\ ~PastEnd => cursor_pos = 0 \/ cursor_pos < filtered_total
  BY <1>3, <1>5 DEF TuiInv, CursorInv, InWindow, OnLine
<1> HIDE DEF v
<1> DEFINE Right(c, s) ==
      /\ c \in 0..MaxListed /\ s \in Nat
      /\ ~Askew => s <= c /\ c < s + v
      /\ ~PastEnd => c = 0 \/ c < filtered_total
<1>8. ASSUME NEW c \in 0..MaxListed,
             ~Askew => c >= scroll_pos, ~PastEnd => c = 0 \/ c < filtered_total
      PROVE  Right(c, ScrolledTo(c))
  <2>1. ScrolledTo(c) = IF c >= scroll_pos + v THEN c - v + 1 ELSE scroll_pos
    BY DEF ScrolledTo, v
  <2>2. CASE c >= scroll_pos + v
    <3>1. ScrolledTo(c) = c - v + 1
      BY <2>1, <2>2
    <3> QED
      BY <1>6, <1>7, <1>8, <2>2, <3>1
  <2>3. CASE ~(c >= scroll_pos + v)
    <3>1. ScrolledTo(c) = scroll_pos
      BY <2>1, <2>3
    <3> QED
      BY <1>6, <1>7, <1>8, <2>3, <3>1
  <2> QED
    BY <2>2, <2>3
<1>9. ASSUME NEW c \in 0..MaxListed,
             ~Askew => c < scroll_pos + v, ~PastEnd => c = 0 \/ c < filtered_total
      PROVE  Right(c, NotBelow(c))
  <2>1. CASE c < scroll_pos
    <3>1. NotBelow(c) = c
      BY <2>1 DEF NotBelow
    <3> QED
      BY <1>6, <1>7, <1>9, <3>1
  <2>2. CASE ~(c < scroll_pos)
    <3>1. NotBelow(c) = scroll_pos
      BY <2>2 DEF NotBelow
    <3> QED
      BY <1>6, <1>7, <1>9, <2>2, <3>1
  <2> QED
    BY <2>1, <2>2
<1>10. ASSUME NEW c \in 0..MaxListed, NEW s \in Nat, cursor_pos' = c, scroll_pos' = s,
              disturbed' \subseteq {"past", "askew"},
              Askew' \/ (Fits /\ s <= c /\ c < s + v),
              PastEnd' \/ c = 0 \/ c < filtered_total
       PROVE  CursorInv' /\ TuiTypeOK'
  <2>1. TuiTypeOK'
    BY <1>1, <1>3, <1>4, <1>10 DEF TuiTypeOK, lists, window
  <2>2. Askew' \/ InWindow'
    BY <1>6, <1>10 DEF InWindow
  <2>3. PastEnd' \/ OnLine'
    BY <1>5, <1>10 DEF OnLine
  <2> QED
    BY <2>1, <2>2, <2>3 DEF CursorInv
<1>11. ASSUME NEW c, NEW s, MoveTo(c, s), Right(c, s)
       PROVE  CursorInv' /\ TuiTypeOK'
  <2>1. cursor_pos' = c /\ scroll_pos' = s /\ disturbed' = disturbed
    BY <1>11 DEF MoveTo
  <2>2. disturbed' \subseteq {"past", "askew"} /\ Askew' = Askew /\ PastEnd' = PastEnd
    BY <1>1, <2>1 DEF TuiTypeOK, Askew, PastEnd
  <2> QED
    BY <1>7, <1>10, <1>11, <2>1, <2>2
<1> HIDE DEF Right
<1>12. CASE LineDown
  <2>1. cursor_pos + 1 \in 0..MaxListed /\ cursor_pos + 1 < filtered_total
    BY <1>6, <1>12 DEF LineDown
  <2>2. Right(cursor_pos + 1, ScrolledTo(cursor_pos + 1))
    BY <1>6, <1>7, <1>8, <2>1
  <2>3. CursorInv' /\ TuiTypeOK'
    BY <1>11, <1>12, <2>2 DEF LineDown
  <2> QED
    BY <1>3, <2>3 DEF TuiInv
<1>13. CASE LineUp
  <2>1. cursor_pos - 1 \in 0..MaxListed
    BY <1>6, <1>13 DEF LineUp
  <2>2. Right(cursor_pos - 1, NotBelow(cursor_pos - 1))
    BY <1>6, <1>7, <1>9, <2>1
  <2>3. CursorInv' /\ TuiTypeOK'
    BY <1>11, <1>13, <2>2 DEF LineUp
  <2> QED
    BY <1>3, <2>3 DEF TuiInv
<1>14. CASE PageDown
  <2> DEFINE c == IF cursor_pos + PAGE_SIZE >= filtered_total THEN filtered_total - 1
                  ELSE cursor_pos + PAGE_SIZE
  <2>1. /\ filtered_total > 0 /\ cursor_pos' = c /\ scroll_pos' = ScrolledTo(c)
        /\ disturbed' = (IF c < cursor_pos THEN {"askew"} ELSE disturbed) \ {"past"}
    BY <1>14 DEF PageDown
  <2>2. c \in 0..MaxListed /\ c < filtered_total
    BY <1>6, <2>1
  <2> HIDE DEF c
  <2>3. ScrolledTo(c) \in Nat /\ (~Askew /\ c >= cursor_pos =>
                                   ScrolledTo(c) <= c /\ c < ScrolledTo(c) + v)
    <3>1. CASE Askew \/ c < cursor_pos
      <4>1. ScrolledTo(c) = IF c >= scroll_pos + v THEN c - v + 1 ELSE scroll_pos
        BY DEF ScrolledTo, v
      <4>2. ScrolledTo(c) \in Nat
        BY <1>6, <2>2, <4>1
      <4> QED
        BY <1>6, <2>2, <3>1, <4>2
    <3>2. CASE ~Askew /\ ~(c < cursor_pos)
      <4>1. Right(c, ScrolledTo(c))
        BY <1>6, <1>7, <1>8, <2>2, <3>2
      <4> QED
        BY <3>2, <4>1 DEF Right
    <3> QED
      BY <3>1, <3>2
  <2>4. disturbed' \subseteq {"past", "askew"} /\ (~Askew' => ~Askew /\ c >= cursor_pos)
    <3>1. CASE c < cursor_pos
      BY <2>1, <3>1 DEF Askew
    <3>2. CASE ~(c < cursor_pos)
      BY <1>1, <1>6, <2>1, <2>2, <3>2 DEF TuiTypeOK, Askew
    <3> QED
      BY <3>1, <3>2
  <2>5. CursorInv' /\ TuiTypeOK'
    BY <1>7, <1>10, <2>1, <2>2, <2>3, <2>4
  <2> QED
    BY <1>3, <2>5 DEF TuiInv
<1>15. CASE PageUp
  <2> DEFINE c == IF cursor_pos < PAGE_SIZE THEN 0 ELSE cursor_pos - PAGE_SIZE
  <2>1. MoveTo(c, NotBelow(c))
    BY <1>15 DEF PageUp
  <2>2. c \in 0..MaxListed /\ c <= cursor_pos
    BY <1>6
  <2>3. /\ ~Askew => c < scroll_pos + v
        /\ ~PastEnd => c = 0 \/ c < filtered_total
    BY <1>6, <1>7, <2>2
  <2> HIDE DEF c
  <2>4. Right(c, NotBelow(c))
    BY <1>9, <2>2, <2>3
  <2>5. CursorInv' /\ TuiTypeOK'
    BY <1>11, <2>1, <2>4
  <2> QED
    BY <1>3, <2>5 DEF TuiInv
<1>16. CASE Home
  <2>1. CursorInv'
    BY <1>1, <1>4, <1>16, ToTheTop DEF Home
  <2>2. cursor_pos' = 0 /\ scroll_pos' = 0 /\ disturbed' \subseteq {"past", "askew"}
    BY <1>16 DEF Home, AtTop, Undisturbed
  <2>3. TuiTypeOK'
    BY <1>1, <1>3, <1>4, <1>6, <2>2 DEF TuiTypeOK, lists, window
  <2> QED
    BY <1>3, <2>1, <2>3 DEF TuiInv
<1>17. CASE End
  <2>1. /\ filtered_total > 0 /\ cursor_pos' = filtered_total - 1
        /\ scroll_pos' = IF filtered_total - 1 >= v THEN filtered_total - v ELSE 0
    BY <1>17 DEF End, v
  <2>2. disturbed' \subseteq {"past", "askew"} /\ (Askew' \/ Fits)
    BY <1>17 DEF End, Undisturbed, Askew
  <2>3. cursor_pos' \in 0..MaxListed /\ scroll_pos' \in Nat
    BY <1>6, <2>1
  <2>4. Fits => scroll_pos' <= cursor_pos' /\ cursor_pos' < scroll_pos' + v
    BY <1>6, <2>1
  <2>5. cursor_pos' < filtered_total
    BY <1>6, <2>1
  <2>6. CursorInv' /\ TuiTypeOK'
    BY <1>10, <2>2, <2>3, <2>4, <2>5
  <2> QED
    BY <1>3, <2>6 DEF TuiInv
<1> QED
  BY <1>12, <1>13, <1>14, <1>15, <1>16, <1>17 DEF Move

LEMMA TuiStart == TuiInit => TuiInv
<1> SUFFICES ASSUME TuiInit
             PROVE  TuiInv
  OBVIOUS
<1>1. max_y \in Int
  BY TuiAssumption DEF TuiInit
<1>2. Len(<<>>) = 0 /\ <<>> \in Seq(AnEntry) /\ <<>> \in Seq(AStory) /\ <<>> \in Seq(Letters)
  BY EmptySeq
<1>3. TuiTypeOK
  <2>1. MaxListed \in Nat /\ 0 <= MAX_ENTRIES /\ 0 <= MAX_NEWS /\ 0 < MAX_SEARCH
    BY TuiAssumption DEF MaxListed
  <2>2. /\ entries \in Seq(AnEntry) /\ Len(entries) <= MAX_ENTRIES
        /\ news \in Seq(AStory) /\ Len(news) <= MAX_NEWS
        /\ search_query \in Seq(Letters) /\ Len(search_query) < MAX_SEARCH
    BY <1>2, <2>1 DEF TuiInit
  <2>3. filtered_total \in 0..MaxListed /\ cursor_pos \in 0..MaxListed /\ scroll_pos \in Nat
    BY <2>1 DEF TuiInit
  <2>4. content_h \in Int /\ tick \in 0..3
    BY <1>1 DEF TuiInit
  <2>5. /\ pc \in {"fetch", "news", "draw", "getch", "ended"}
        /\ mode \in {"normal", "search", "detail"}
    BY DEF TuiInit
  <2>6. /\ served \in Snapshots \cup {Down} /\ active_tab \in DOMAIN Tabs
        /\ max_y \in Heights /\ disturbed \subseteq {"past", "askew"}
    BY TuiAssumption, Zenon DEF TuiInit
  <2> QED
    BY <2>2, <2>3, <2>4, <2>5, <2>6 DEF TuiTypeOK
<1>4. CursorInv
  BY <1>1 DEF TuiInit, CursorInv, InWindow, OnLine, Fits, visible_rows
<1>5. DrawnInv
  BY DEF TuiInit, DrawnInv
<1> QED
  BY <1>3, <1>4, <1>5 DEF TuiInv

LEMMA TuiStutter ==
  ASSUME TuiInv, UNCHANGED tuiVars
  PROVE  TuiInv'
<1>1. TuiTypeOK'
  BY DEF TuiInv, TuiTypeOK, tuiVars, lists, position, window
<1>2. Shown' = Shown
  BY SameShown DEF tuiVars
<1> QED
  BY <1>1, <1>2 DEF TuiInv, tuiVars, position, window, CursorInv, Askew, PastEnd, InWindow, OnLine,
                    DrawnInv, Selected, Fits, visible_rows

LEMMA TuiStep ==
  ASSUME TuiInv, TuiNext
  PROVE  TuiInv'
<1>1. CASE Serve \/ FetchEntries \/ FetchNews \/ Draw
  BY <1>1, ServeStep, FetchEntriesStep, FetchNewsStep, DrawStep
<1>2. CASE NoKey \/ Open \/ CloseDetail \/ StartSearch \/ OpenDetail \/ Refresh
  BY <1>2, KeyStill
<1>3. CASE EndSearch \/ ChangeTab \/ ClearSearch
  BY <1>3, KeyToTheTop
<1>4. CASE Backspace \/ Quit \/ Move \/ Resize \/ \E ch \in Letters : Type(ch)
  BY <1>4, BackspaceStep, QuitStep, MoveStep, ResizeStep, TypeStep
<1> QED
  BY <1>1, <1>2, <1>3, <1>4 DEF TuiNext, Loop, Key

-----------------------------------------------------------------------------
(* The requests of the page.                                               *)

LEMMA RequestsFinite == IsFiniteSet(Requests) /\ {"status", "sources", "crypto"} \subseteq Requests
<1>1. IsFiniteSet({"status"} \cup {"sources"})
  <2>1. IsFiniteSet({"status"})
    BY FS_Singleton
  <2> QED
    BY <2>1, FS_AddElement
<1> QED
  BY <1>1, FS_Union, WebAssumption DEF Requests

LEMMA AwaitedFinite ==
  ASSUME NEW p
  PROVE  IsFiniteSet(Awaited(p)) /\ Cardinality(Awaited(p)) \in Nat
<1>1. IsFiniteSet(1..MaxPending)
  BY FS_Interval, WebAssumption
<1>2. IsFiniteSet(Requests \X (1..MaxPending))
  BY <1>1, RequestsFinite, FS_Product
<1>3. Awaited(p) \in SUBSET (Requests \X (1..MaxPending))
  BY DEF Awaited
<1> QED
  BY <1>2, <1>3, FS_Subset, FS_CardinalityType

(* Of each kind there are no more than in all.                             *)
LEMMA OneKind ==
  ASSUME NEW p \in [Requests -> 0..MaxPending], NEW r \in Requests
  PROVE  p[r] <= Cardinality(Awaited(p))
<1> DEFINE f == [k \in 1..p[r] |-> <<r, k>>]
<1>1. p[r] \in 0..MaxPending /\ MaxPending \in Nat
  BY WebAssumption
<1>2. \A k \in 1..p[r] : <<r, k>> \in Awaited(p)
  BY <1>1 DEF Awaited
<1>3. f \in Injection(1..p[r], Awaited(p))
  BY <1>2, Zenon DEF Injection, IsInjective
<1>4. Cardinality(1..p[r]) = p[r]
  BY <1>1, FS_Interval
<1> QED
  BY <1>3, <1>4, FS_Injection, AwaitedFinite

(* One request more, and one less.                                         *)
LEMMA OneMore ==
  ASSUME NEW p \in [Requests -> 0..MaxPending], NEW r \in Requests,
         Cardinality(Awaited(p)) < MaxPending
  PROVE  /\ [p EXCEPT ![r] = @ + 1] \in [Requests -> 0..MaxPending]
         /\ Cardinality(Awaited([p EXCEPT ![r] = @ + 1])) = Cardinality(Awaited(p)) + 1
<1> DEFINE q == [p EXCEPT ![r] = @ + 1]
<1>1. p[r] \in 0..MaxPending /\ p[r] < MaxPending /\ MaxPending \in Nat
  BY OneKind, AwaitedFinite, WebAssumption
<1>2. /\ q \in [Requests -> 0..MaxPending]
      /\ q[r] = p[r] + 1 /\ \A s \in Requests \ {r} : q[s] = p[s]
  BY <1>1
<1> HIDE DEF q
<1>3. Awaited(q) = Awaited(p) \cup {<<r, p[r] + 1>>}
  <2>1. ASSUME NEW s \in Requests, NEW k \in 1..MaxPending
        PROVE  k <= q[s] <=> (k <= p[s] \/ (s = r /\ k = p[r] + 1))
    BY <1>1, <1>2
  <2>2. p[r] + 1 \in 1..MaxPending
    BY <1>1
  <2> QED
    BY <2>1, <2>2 DEF Awaited
<1>4. <<r, p[r] + 1>> \notin Awaited(p)
  BY <1>1 DEF Awaited
<1>5. Cardinality(Awaited(q)) = Cardinality(Awaited(p)) + 1
  BY <1>3, <1>4, AwaitedFinite, FS_AddElement
<1> QED
  BY <1>2, <1>5 DEF q

LEMMA OneLess ==
  ASSUME NEW p \in [Requests -> 0..MaxPending], NEW r \in Requests, p[r] > 0
  PROVE  /\ [p EXCEPT ![r] = @ - 1] \in [Requests -> 0..MaxPending]
         /\ Cardinality(Awaited([p EXCEPT ![r] = @ - 1])) = Cardinality(Awaited(p)) - 1
<1> DEFINE q == [p EXCEPT ![r] = @ - 1]
<1>1. p[r] \in 1..MaxPending /\ MaxPending \in Nat
  BY WebAssumption
<1>2. /\ q \in [Requests -> 0..MaxPending]
      /\ q[r] = p[r] - 1 /\ \A s \in Requests \ {r} : q[s] = p[s]
  BY <1>1
<1> HIDE DEF q
<1>3. Awaited(q) = Awaited(p) \ {<<r, p[r]>>}
  <2>1. ASSUME NEW s \in Requests, NEW k \in 1..MaxPending
        PROVE  k <= q[s] <=> (k <= p[s] /\ ~(s = r /\ k = p[r]))
    BY <1>1, <1>2
  <2> QED
    BY <2>1 DEF Awaited
<1>4. <<r, p[r]>> \in Awaited(p)
  BY <1>1 DEF Awaited
<1>5. Cardinality(Awaited(q)) = Cardinality(Awaited(p)) - 1
  BY <1>3, <1>4, AwaitedFinite, FS_RemoveElement
<1> QED
  BY <1>2, <1>5 DEF q

(* The type invariant says nothing of the requests that WebInv does not.   *)
Kept(cache) ==
  /\ DOMAIN cache = WebTabs
  /\ \A t \in WebTabs :
       cache[t] \in {Nothing} \cup {Answer(u) : u \in {t} \cup (WebTabs \ NewsTabs)}
Counted(p) == p \in [Requests -> 0..MaxPending] /\ Cardinality(Awaited(p)) <= MaxPending

LEMMA WebInvIs == WebInv <=> activeTab \in WebTabs /\ Kept(cachedData) /\ Counted(pending)
BY Zenon DEF WebInv, WebTypeOK, Kept, Counted, InFlight

LEMMA WebStart == WebInit => WebInv
<1> SUFFICES ASSUME WebInit
             PROVE  WebInv
  OBVIOUS
<1> DEFINE none == [r \in Requests |-> 0]
           one == [none EXCEPT !["crypto"] = @ + 1]
<1>1. MaxPending \in Nat /\ MaxPending >= 2
  BY WebAssumption
<1>2. none \in [Requests -> 0..MaxPending] /\ Awaited(none) = {}
  BY <1>1 DEF Awaited
<1>3. Cardinality(Awaited(none)) = 0
  BY <1>2, FS_EmptySet
<1>4. one \in [Requests -> 0..MaxPending] /\ Cardinality(Awaited(one)) = 1
  BY <1>1, <1>2, <1>3, RequestsFinite, OneMore
<1>5. pending = [one EXCEPT !["status"] = @ + 1]
  BY RequestsFinite, WebAssumption DEF WebInit, Requests
<1> HIDE DEF one
<1>6. Counted(pending)
  <2>1. Cardinality(Awaited(one)) < MaxPending /\ "status" \in Requests
    BY <1>1, <1>4, RequestsFinite
  <2>2. /\ [one EXCEPT !["status"] = @ + 1] \in [Requests -> 0..MaxPending]
        /\ Cardinality(Awaited([one EXCEPT !["status"] = @ + 1])) = 1 + 1
    BY <1>4, <2>1, OneMore
  <2>3. 1 + 1 <= MaxPending
    BY <1>1
  <2> QED
    BY <1>5, <2>2, <2>3 DEF Counted
<1>7. activeTab \in WebTabs /\ Kept(cachedData)
  BY WebAssumption DEF WebInit, Kept
<1> QED
  BY <1>6, <1>7, WebInvIs

(* Every step of the page: the new tab's request, the two of a refresh, an *)
(* answer that lands where it may, and the header's two requests.          *)
LEMMA WebStep ==
  ASSUME WebInv, WebNext
  PROVE  WebInv'
<1>1. MaxPending \in Nat /\ MaxPending >= 2
  BY WebAssumption
<1>2. activeTab \in WebTabs /\ Kept(cachedData) /\ Counted(pending)
  BY WebInvIs
<1>3. InFlight = Cardinality(Awaited(pending)) /\ InFlight \in Nat
  BY AwaitedFinite DEF InFlight
<1>4. WebTabs \subseteq Requests /\ "status" \in Requests /\ "sources" \in Requests
  BY DEF Requests
<1>5. ASSUME activeTab' \in WebTabs, Kept(cachedData'), Counted(pending')
      PROVE  WebInv'
  BY <1>5, Zenon DEF WebInv, WebTypeOK, Kept, Counted, InFlight, Answer, Awaited, Requests
<1>6. ASSUME NEW r \in Requests, pending[r] > 0
      PROVE  Counted(Taken(r)) /\ Cardinality(Awaited(Taken(r))) < MaxPending
  <2>1. Taken(r) \in [Requests -> 0..MaxPending]
        /\ Cardinality(Awaited(Taken(r))) = Cardinality(Awaited(pending)) - 1
    BY <1>2, <1>6, OneLess DEF Counted, Taken
  <2> QED
    BY <1>1, <1>2, <1>3, <2>1 DEF Counted
<1>7. ASSUME NEW p, Counted(p), Cardinality(Awaited(p)) < MaxPending, NEW r \in Requests
      PROVE  /\ Counted([p EXCEPT ![r] = @ + 1])
             /\ Cardinality(Awaited([p EXCEPT ![r] = @ + 1])) = Cardinality(Awaited(p)) + 1
  <2>1. /\ [p EXCEPT ![r] = @ + 1] \in [Requests -> 0..MaxPending]
        /\ Cardinality(Awaited([p EXCEPT ![r] = @ + 1])) = Cardinality(Awaited(p)) + 1
    BY <1>7, OneMore DEF Counted
  <2>2. Cardinality(Awaited(p)) \in Nat
    BY AwaitedFinite
  <2> QED
    BY <1>1, <1>7, <2>1, <2>2 DEF Counted
<1>8. CASE refreshAll
  <2> DEFINE p == [pending EXCEPT !["status"] = @ + 1]
  <2>1. InFlight + 2 <= MaxPending /\ pending' = [p EXCEPT ![activeTab] = @ + 1]
    BY <1>8 DEF refreshAll, loadTab
  <2>2. Counted(p) /\ Cardinality(Awaited(p)) = InFlight + 1
    <3>1. Cardinality(Awaited(pending)) < MaxPending
      BY <1>1, <1>3, <2>1
    <3> QED
      BY <1>2, <1>3, <1>4, <1>7, <3>1
  <2> HIDE DEF p
  <2>3. Counted(pending')
    <3>1. Cardinality(Awaited(p)) < MaxPending /\ activeTab \in Requests
      BY <1>1, <1>2, <1>3, <1>4, <2>1, <2>2
    <3> QED
      BY <1>7, <2>1, <2>2, <3>1
  <2> QED
    BY <1>2, <1>5, <1>8, <2>3 DEF refreshAll
<1>9. CASE ClickTab
  <2>1. InFlight < MaxPending /\ activeTab' \in WebTabs /\ cachedData' = cachedData
        /\ pending' = [pending EXCEPT ![activeTab'] = @ + 1]
    BY <1>9 DEF ClickTab, loadTab
  <2>2. Counted(pending')
    BY <1>2, <1>3, <1>4, <1>7, <2>1
  <2> QED
    BY <1>2, <1>5, <2>1, <2>2
<1>10. CASE rerenderFromCache
  BY <1>2, <1>5, <1>10 DEF rerenderFromCache
<1>11. ASSUME NEW t \in WebTabs, TabAnswered(t)
       PROVE  WebInv'
  <2>1. /\ pending[t] > 0 /\ pending' = Taken(t) /\ activeTab' = activeTab
        /\ cachedData' = [cachedData EXCEPT ![LandsOn(t)] = Answer(t)]
    BY <1>11 DEF TabAnswered
  <2>2. Counted(pending')
    BY <1>4, <1>6, <2>1
  <2>3. Answer(t) \in {Answer(u) : u \in {LandsOn(t)} \cup (WebTabs \ NewsTabs)}
    BY DEF LandsOn
  <2>4. Kept(cachedData')
    BY <1>2, <2>1, <2>3 DEF Kept
  <2> QED
    BY <1>2, <1>5, <2>1, <2>2, <2>4
<1>12. ASSUME NEW t \in WebTabs, TabFailed(t)
       PROVE  WebInv'
  BY <1>2, <1>4, <1>5, <1>6, <1>12 DEF TabFailed
<1>13. CASE StatusEnds
  <2>1. pending["status"] > 0 /\ pending' = [Taken("status") EXCEPT !["sources"] = @ + 1]
    BY <1>13 DEF StatusEnds
  <2>2. Counted(Taken("status")) /\ Cardinality(Awaited(Taken("status"))) < MaxPending
    BY <1>4, <1>6, <2>1
  <2>3. Counted(pending')
    BY <1>4, <1>7, <2>1, <2>2
  <2> QED
    BY <1>2, <1>5, <1>13, <2>3 DEF StatusEnds
<1>14. CASE SourcesEnd
  BY <1>2, <1>4, <1>5, <1>6, <1>14 DEF SourcesEnd
<1> QED
  BY <1>8, <1>9, <1>10, <1>11, <1>12, <1>13, <1>14 DEF WebNext

LEMMA WebStutter ==
  ASSUME WebInv, UNCHANGED webVars
  PROVE  WebInv'
BY Zenon DEF WebInv, WebTypeOK, webVars, InFlight, Answer, Awaited, Requests

-----------------------------------------------------------------------------
(* The theorems.                                                           *)

(* The invariant of the proofs holds in every reachable state.             *)
THEOREM Invariance == Spec => []IndInv
<1>1. Init => IndInv
  BY TuiStart, WebStart DEF Init, IndInv
<1>2. IndInv /\ [Next]_vars => IndInv'
  <2> SUFFICES ASSUME IndInv, [Next]_vars
               PROVE  IndInv'
    OBVIOUS
  <2> USE DEF IndInv
  <2>1. CASE Terminal(TuiNext)
    BY <2>1, TuiStep, WebStutter DEF Terminal
  <2>2. CASE Browser(WebNext)
    BY <2>2, TuiStutter, WebStep DEF Browser
  <2>3. CASE UNCHANGED vars
    BY <2>3, TuiStutter, WebStutter DEF vars
  <2> QED
    BY <2>1, <2>2, <2>3 DEF Next
<1> QED
  BY <1>1, <1>2, PTL DEF Spec

(* Every variable of the clients keeps its type.  In the terminal the      *)
(* lists fit in their arrays, and the cursor in the longer of them; in the *)
(* page a list of news is only under the tab that asked for it.            *)
THEOREM Typing == Spec => []ClientsTypeOK
<1>1. IndInv => ClientsTypeOK
  BY DEF IndInv, TuiInv, WebInv, ClientsTypeOK
<1> QED
  BY <1>1, Invariance, PTL

(* When the client waits for a key, the cursor is on an item unless a list *)
(* has become shorter under it, and within the lines that are drawn unless *)
(* page down has brought it back from past the end or the terminal has     *)
(* become smaller; a line that it is on is drawn then, in a tab without    *)
(* headed groups.  A jump to an end of the list undoes any of these.       *)
THEOREM Highlighted == Spec => []CursorInView
<1>1. IndInv => CursorInView
  <2> SUFFICES ASSUME IndInv, pc = "getch"
               PROVE  /\ ~Askew =>
                           /\ scroll_pos <= cursor_pos /\ cursor_pos < scroll_pos + visible_rows
                           /\ ~Grouped /\ cursor_pos < Len(Shown) => Drawn(cursor_pos)
                      /\ ~PastEnd => cursor_pos = 0 \/ cursor_pos < Len(Shown)
    BY DEF CursorInView, Askew, PastEnd
  <2>1. max_y \in Int /\ scroll_pos \in Nat /\ cursor_pos \in Nat
    BY TuiAssumption DEF IndInv, TuiInv, TuiTypeOK
  <2>2. (Askew \/ InWindow) /\ (PastEnd \/ OnLine)
    BY DEF IndInv, TuiInv, CursorInv
  <2>3. ASSUME ~Askew, ~Grouped, cursor_pos < Len(Shown)
        PROVE  Drawn(cursor_pos)
    <3>1. /\ max_y >= 8 /\ content_h = max_y - 4
          /\ scroll_pos <= cursor_pos /\ cursor_pos < scroll_pos + (max_y - 4 - 3)
      BY <2>2, <2>3 DEF InWindow, Fits, visible_rows
    <3>2. {k \in scroll_pos..(cursor_pos - 1) : HeadsGroup(k)} = {}
      BY <2>3 DEF HeadsGroup
    <3>3. Cardinality({k \in scroll_pos..(cursor_pos - 1) : HeadsGroup(k)}) = 0
      BY <3>2, FS_EmptySet
    <3>4. RowBefore(cursor_pos) = 2 + (cursor_pos - scroll_pos)
      BY <2>1, <3>3 DEF RowBefore
    <3> QED
      BY <2>1, <2>3, <3>1, <3>4 DEF Drawn
  <2> QED
    BY <2>2, <2>3 DEF InWindow, OnLine
<1> QED
  BY <1>1, Invariance, PTL

(* The page that is opened is that of the item in the pop-up, whatever has *)
(* been fetched since the pop-up was opened: what the key finds under the  *)
(* cursor is what has just been drawn.                                     *)
THEOREM OpenedIsShown == Spec => OpensWhatIsShown
<1>1. IndInv /\ [Next]_vars => [opened' # opened => opened' \in {NoItem, popup}]_tuiVars
  <2> SUFFICES ASSUME IndInv, TuiNext, opened' # opened
               PROVE  opened' \in {NoItem, popup}
    BY DEF tuiVars, vars, Next, Terminal, Browser
  <2>1. CASE Draw
    BY <2>1 DEF Draw
  <2>2. CASE Open
    BY <2>2 DEF Open, EndIteration, IndInv, TuiInv, DrawnInv
  <2>3. ~Draw /\ ~Open => UNCHANGED opened
    BY DEF TuiNext, Loop, Key, Serve, FetchEntries, FetchNews, NoKey, Type, Backspace,
           EndSearch, CloseDetail, Quit, ChangeTab, Move, StartSearch, ClearSearch,
           OpenDetail, Refresh, Resize
  <2> QED
    BY <2>1, <2>2, <2>3
<1> QED
  BY <1>1, Invariance, PTL DEF Spec, OpensWhatIsShown
=============================================================================
