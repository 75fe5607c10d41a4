---------------------------- MODULE ParserProofs ----------------------------
(***************************************************************************)
(* Proofs about what the daemon reads: the answers of the network          *)
(* (Fetchers) and its configuration (ConfigLoad), for any documents, any   *)
(* files and arrays of any size.                                           *)
(*                                                                         *)
(* The loop over the items is followed by one invariant for all parsers:   *)
(* the slots counted so far hold, in order, what a blank slot becomes of   *)
(* the items that are kept among those seen.  What each parser gives is    *)
(* read off that invariant at the end.  The configuration's invariant says *)
(* what each section of the file leaves to the next.                       *)
(***************************************************************************)
EXTENDS Fetchers, ConfigLoad, DataLemmas

-----------------------------------------------------------------------------
(* The loop.                                                               *)

Made(i) == Filled(TheShape, Blank(TheShape), source, TheItems[i], i - 1)
Keeps(i) == ~Skipped(TheShape, source, TheItems[i]) /\ Counts(TheShape, Made(i))
Kept(n) == {i \in 1..n : Keeps(i)}
Final(e) == IF source.kind = "rest" /\ TheShape # "calendar" THEN Named(source, e) ELSE e

FromFetches == \E f \in Fetches : source = f[1] /\ status = f[2] /\ answer = f[3]

SlotsInv ==
  /\ pos \in 1..(Len(TheItems) + 1)
  /\ out = [j \in 1..Slots |-> out[j]]
  /\ count = Cardinality(Kept(pos - 1)) /\ count \in 0..Slots
  /\ fetched = "loop" =>
       \A j \in 1..count : out[j] = Made(Nth(Kept(pos - 1), j))
  /\ fetched = "done" =>
       /\ \A j \in 1..count : out[j] = Final(Made(Nth(Kept(pos - 1), j)))
       /\ pos = Len(TheItems) + 1 \/ count = Slots

FetchInv ==
  /\ FromFetches
  /\ fetched \in {"request", "loop", "done"} /\ count \in -1..Slots /\ pos \in Nat
  /\ fetched = "loop" => status = "document"
  /\ fetched = "request" => pos = 0 /\ count = 0 /\ out = <<>>
  /\ fetched = "done" /\ status # "document" => out = <<>>
  /\ fetched # "request" /\ status = "document" => SlotsInv

LEMMA ItemsAreLists ==
  ASSUME FromFetches, status = "document"
  PROVE  /\ IsList(TheItems) /\ Len(TheItems) \in Nat /\ DOMAIN TheItems = 1..Len(TheItems)
         /\ Parser(source) = "feed" => \A i \in DOMAIN TheItems : IsList(TheItems[i])
<1>1. PICK f \in Fetches : source = f[1] /\ status = f[2] /\ answer = f[3]
  BY DEF FromFetches
<1>2. /\ IsList(TheItems)
      /\ Parser(source) = "feed" => \A i \in DOMAIN TheItems : IsList(TheItems[i])
  BY <1>1, FetchesAssumption DEF TheItems, TheData
<1> QED
  BY <1>2, ListFacts

LEMMA KeptIs ==
  ASSUME NEW n \in Nat
  PROVE  /\ Kept(n) \in SUBSET (1..n)
         /\ Kept(n + 1) = IF Keeps(n + 1) THEN Kept(n) \cup {n + 1} ELSE Kept(n)
BY DEF Kept

LEMMA FetchStart == FetchInit => FetchInv
BY SlotsAssumption DEF FetchInit, FetchInv, FromFetches

LEMMA BeginStep ==
  ASSUME FetchInv, Begin
  PROVE  FetchInv'
<1>1. FromFetches' /\ TheItems' = TheItems /\ TheShape' = TheShape
  BY DEF FetchInv, Begin, FromFetches, TheItems, TheData, TheShape
<1>2. Len(TheItems) \in Nat
  BY ItemsAreLists DEF FetchInv, Begin
<1>3. count' = 0 /\ pos' = 1 /\ out' = [j \in 1..Slots |-> Stale(TheShape)] /\ fetched' = "loop"
  BY DEF FetchInv, Begin
<1>4. Cardinality(Kept(0)') = 0
  BY FS_EmptySet DEF Kept
<1>5. SlotsInv'
  <2>1. pos' - 1 = 0 /\ 0 \in 0..Slots /\ 1..0 = {}
    BY <1>3, SlotsAssumption
  <2>2. out' = [j \in 1..Slots |-> out'[j]]
    BY <1>3
  <2> QED
    BY <1>1, <1>2, <1>3, <1>4, <2>1, <2>2 DEF SlotsInv
<1> QED
  BY <1>1, <1>3, <1>5, SlotsAssumption DEF FetchInv, Begin

LEMMA LoopStep ==
  ASSUME FetchInv, Loop
  PROVE  FetchInv'
<1>1. /\ fetched = "loop" /\ fetched' = "loop" /\ status' = status /\ status = "document"
      /\ source' = source /\ answer' = answer /\ pos' = pos + 1 /\ count < Slots
      /\ pos <= Len(TheItems) /\ SlotsInv /\ Slots \in Nat
  BY SlotsAssumption DEF FetchInv, Loop
<1>2. /\ FromFetches' /\ TheItems' = TheItems /\ TheShape' = TheShape
      /\ \A n : Kept(n)' = Kept(n) /\ \A i : Made(i)' = Made(i)
  BY <1>1 DEF FetchInv, FromFetches, TheItems, TheData, TheShape, Kept, Keeps, Made
<1>3. Len(TheItems) \in Nat /\ pos \in 1..Len(TheItems)
  BY <1>1, ItemsAreLists DEF FetchInv, SlotsInv
<1> DEFINE K == Kept(pos - 1)
           x == TheItems[pos]
<1>4. /\ K \in SUBSET (1..(pos - 1)) /\ pos - 1 \in Nat /\ (pos - 1) + 1 = pos /\ pos' - 1 = pos
      /\ Kept(pos) = IF Keeps(pos) THEN K \cup {pos} ELSE K
  <2>1. pos - 1 \in Nat /\ (pos - 1) + 1 = pos /\ pos' - 1 = pos
    BY <1>1, <1>3
  <2>2. /\ K \in SUBSET (1..(pos - 1))
        /\ Kept((pos - 1) + 1) = IF Keeps((pos - 1) + 1) THEN K \cup {(pos - 1) + 1} ELSE K
    BY <2>1, KeptIs
  <2> QED
    BY <2>1, <2>2
<1>5. /\ count = Cardinality(K) /\ count \in 0..Slots
      /\ \A j \in 1..count : out[j] = Made(Nth(K, j))
      /\ out = [j \in 1..Slots |-> out[j]]
  BY <1>1 DEF SlotsInv
<1>6. IF Skipped(TheShape, source, x) THEN UNCHANGED <<count, out>>
      ELSE /\ out' = [out EXCEPT ![count + 1] = Made(pos)]
           /\ count' = IF Counts(TheShape, Made(pos)) THEN count + 1 ELSE count
  BY DEF Loop, Pass, Made, Cleared
<1>7. /\ Cardinality(K \cup {pos}) = count + 1 /\ Nth(K \cup {pos}, count + 1) = pos
      /\ \A n \in 1..count : Nth(K \cup {pos}, n) = Nth(K, n)
  <2> DEFINE m == pos - 1
  <2>1. /\ Cardinality(K \cup {m + 1}) = Cardinality(K) + 1
        /\ Nth(K \cup {m + 1}, Cardinality(K) + 1) = m + 1
        /\ \A n \in 1..Cardinality(K) : Nth(K \cup {m + 1}, n) = Nth(K, n)
    <3>1. m \in Nat /\ K \in SUBSET (1..m)
      BY <1>4
    <3> HIDE DEF K, m
    <3> QED
      BY <3>1, NthAdded
  <2>2. m + 1 = pos /\ Cardinality(K) = count
    BY <1>4, <1>5
  <2> HIDE DEF K, m
  <2> QED
    BY <2>1, <2>2
<1> HIDE DEF K, x
<1>8. /\ out' = [j \in 1..Slots |-> out'[j]]
      /\ \A j \in 1..count : out'[j] = out[j]
      /\ Keeps(pos) => out'[count + 1] = Made(pos)
      /\ count' = IF Keeps(pos) THEN count + 1 ELSE count
  BY <1>1, <1>5, <1>6 DEF Keeps, x
<1>9. /\ count' = Cardinality(Kept(pos))
      /\ \A j \in 1..count' : out'[j] = Made(Nth(Kept(pos), j))
  <2>1. CASE Keeps(pos)
    <3>1. Kept(pos) = K \cup {pos} /\ count' = count + 1
      BY <1>4, <1>8, <2>1
    <3>2. ASSUME NEW j \in 1..count' PROVE out'[j] = Made(Nth(K \cup {pos}, j))
      <4>1. CASE j = count + 1
        BY <1>7, <1>8, <2>1, <4>1
      <4>2. CASE j # count + 1
        <5>1. j \in 1..count
          BY <1>5, <3>1, <4>2
        <5> QED
          BY <1>5, <1>7, <1>8, <5>1
      <4> QED
        BY <4>1, <4>2
    <3> QED
      BY <1>7, <3>1, <3>2
  <2>2. CASE ~Keeps(pos)
    BY <1>4, <1>5, <1>8, <2>2
  <2> QED
    BY <2>1, <2>2
<1>10. count' \in 0..Slots
  BY <1>1, <1>5, <1>8
<1>11. SlotsInv'
  <2>1. pos' \in 1..(Len(TheItems) + 1)
    BY <1>1, <1>3
  <2>2. Kept(pos - 1)' = Kept(pos)
    <3>1. \A i : Keeps(i)' = Keeps(i)
      BY <1>1, <1>2 DEF Keeps, TheItems, TheData, TheShape, Made
    <3>2. Kept(pos - 1)' = {i \in 1..pos : Keeps(i)'}
      BY <1>4 DEF Kept
    <3> QED
      BY <3>1, <3>2 DEF Kept
  <2>3. (\A j \in 1..count : out[j] = Made(Nth(Kept(pos - 1), j)))'
    <3>1. \A j : Nth(Kept(pos - 1), j)' = Nth(Kept(pos), j)
      BY <2>2 DEF Nth
    <3>2. \A j : Made(Nth(Kept(pos - 1), j))' = Made(Nth(Kept(pos), j))
      BY <1>1, <2>2, <3>1 DEF Made, TheItems, TheData, TheShape
    <3> QED
      BY <1>9, <3>2
  <2> QED
    BY <1>1, <1>2, <1>8, <1>9, <1>10, <2>1, <2>2, <2>3 DEF SlotsInv
<1> QED
  BY <1>1, <1>2, <1>3, <1>10, <1>11 DEF FetchInv

LEMMA ReturnStep ==
  ASSUME FetchInv, Return
  PROVE  FetchInv'
<1>1. /\ fetched = "loop" /\ fetched' = "done" /\ status = "document"
      /\ UNCHANGED <<source, status, answer, pos, count>>
      /\ pos > Len(TheItems) \/ count = Slots
      /\ SlotsInv /\ Slots \in Nat
  BY SlotsAssumption DEF FetchInv, Return
<1>2. /\ FromFetches' /\ TheItems' = TheItems /\ TheShape' = TheShape
      /\ \A n : Kept(n)' = Kept(n) /\ \A i : Made(i)' = Made(i)
      /\ \A e : Final(e)' = Final(e)
  BY <1>1 DEF FetchInv, FromFetches, TheItems, TheData, TheShape, Kept, Keeps, Made, Final
<1>3. Len(TheItems) \in Nat
  BY <1>1, ItemsAreLists DEF FetchInv
<1>4. /\ pos \in 1..(Len(TheItems) + 1) /\ count = Cardinality(Kept(pos - 1)) /\ count \in 0..Slots
      /\ \A j \in 1..count : out[j] = Made(Nth(Kept(pos - 1), j))
      /\ out = [j \in 1..Slots |-> out[j]]
  BY <1>1 DEF SlotsInv
<1>5. /\ out' = [j \in 1..Slots |-> out'[j]]
      /\ \A j \in 1..count : out'[j] = Final(out[j])
  <2>1. CASE source.kind = "rest" /\ TheShape # "calendar"
    <3>1. out' = [j \in 1..Slots |-> IF j <= count THEN Named(source, out[j]) ELSE out[j]]
      BY <2>1 DEF Return
    <3>2. \A j \in 1..count : j \in 1..Slots /\ j <= count
      BY <1>1, <1>4
    <3> QED
      BY <2>1, <3>1, <3>2 DEF Final
  <2>2. CASE ~(source.kind = "rest" /\ TheShape # "calendar")
    BY <1>4, <2>2 DEF Return, Final
  <2> QED
    BY <2>1, <2>2
<1>6. pos = Len(TheItems) + 1 \/ count = Slots
  BY <1>1, <1>3, <1>4
<1>7. SlotsInv'
  BY <1>1, <1>2, <1>4, <1>5, <1>6 DEF SlotsInv
<1> QED
  BY <1>1, <1>2, <1>7 DEF FetchInv

LEMMA FetchStep ==
  ASSUME FetchInv, FetchNext
  PROVE  FetchInv'
<1>1. CASE RequestFails \/ NoDocument
  BY <1>1, SlotsAssumption DEF FetchInv, RequestFails, NoDocument, FromFetches
<1> QED
  BY <1>1, BeginStep, LoopStep, ReturnStep DEF FetchNext

LEMMA FetchStutter ==
  ASSUME FetchInv, UNCHANGED fetchVars
  PROVE  FetchInv'
BY DEF FetchInv, fetchVars, FromFetches, SlotsInv, TheItems, TheData, TheShape, Kept, Keeps, Made,
       Final

(* The invariant of the fetches.                                           *)
THEOREM FetchInvariance == FetchSpec => []FetchInv
<1>1. FetchInv /\ [FetchNext]_fetchVars => FetchInv'
  BY FetchStep, FetchStutter
<1> QED
  BY <1>1, FetchStart, PTL DEF FetchSpec

(* Every variable of a fetch keeps its type: no slot is filled beyond the  *)
(* end of the caller's array.                                              *)
THEOREM FetchTyping == FetchSpec => []FetchTypeOK
<1>1. FetchInv => FetchTypeOK
  <2> SUFFICES ASSUME FetchInv
               PROVE  Len(out) \in {0, Slots}
    BY DEF FetchInv, FetchTypeOK
  <2>1. CASE out = <<>>
    BY <2>1, EmptySeq
  <2>2. CASE SlotsInv
    BY <2>2, SlotsAssumption, ListIs DEF SlotsInv
  <2> QED
    BY <2>1, <2>2 DEF FetchInv
<1> QED
  BY <1>1, FetchInvariance, PTL

-----------------------------------------------------------------------------
(* What a fetch returns.                                                   *)

All == Kept(Len(TheItems))

LEMMA Computed ==
  ASSUME FetchInv, Done
  PROVE  /\ count = IF Cardinality(All) < Slots THEN Cardinality(All) ELSE Slots
         /\ \A j \in 1..count : /\ j \in 1..Cardinality(All) /\ Nth(All, j) \in All
                                /\ out[j] = Final(Made(Nth(All, j)))
<1>1. /\ Len(TheItems) \in Nat /\ SlotsInv /\ fetched = "done" /\ Slots \in Nat
      /\ All \in SUBSET (1..Len(TheItems)) /\ pos \in 1..(Len(TheItems) + 1)
  BY ItemsAreLists, SlotsAssumption DEF FetchInv, Done, SlotsInv, All, Kept
<1>2. Kept(pos - 1) = {i \in All : i <= pos - 1}
  <2>1. \A i \in 1..Len(TheItems) : i <= pos - 1 <=> i \in 1..(pos - 1)
    BY <1>1
  <2>2. 1..(pos - 1) \subseteq 1..Len(TheItems)
    BY <1>1
  <2>3. \A i : i \in All <=> i \in 1..Len(TheItems) /\ Keeps(i)
    BY DEF All, Kept
  <2>4. \A i : i \in Kept(pos - 1) <=> i \in 1..(pos - 1) /\ Keeps(i)
    BY DEF Kept
  <2>5. \A i : i \in Kept(pos - 1) <=> i \in All /\ i <= pos - 1
    BY <2>1, <2>2, <2>3, <2>4
  <2> DEFINE part == {k \in All : k <= pos - 1}
  <2>6. \A i : i \in Kept(pos - 1) <=> i \in part
    BY <2>5
  <2> HIDE DEF part
  <2>7. Kept(pos - 1) \subseteq part /\ part \subseteq Kept(pos - 1)
    BY <2>6
  <2>8. Kept(pos - 1) = part
    BY <2>7, Zenon
  <2> QED
    BY <2>8 DEF part
<1>3. ASSUME NEW j \in 1..Cardinality(Kept(pos - 1))
      PROVE  Nth(Kept(pos - 1), j) = Nth(All, j) /\ Nth(All, j) \in All
             /\ j \in 1..Cardinality(All)
  <2> DEFINE D == Kept(pos - 1)
             k == pos - 1
  <2>1. k \in Int /\ D = {i \in All : i <= k}
    BY <1>1, <1>2
  <2>2. j \in 1..Cardinality(D)
    OBVIOUS
  <2> HIDE DEF D, k
  <2>3. Nth(D, j) = Nth(All, j) /\ Nth(D, j) \in D /\ j \in 1..Cardinality(All)
    <3> DEFINE m == Len(TheItems)
    <3>1. m \in Nat /\ All \in SUBSET (1..m)
      BY <1>1
    <3> HIDE DEF m
    <3> QED
      BY <2>1, <2>2, <3>1, NthOfPart
  <2>4. Nth(All, j) \in All
    BY <2>1, <2>3
  <2> QED
    BY <2>3, <2>4 DEF D
<1>4. Kept(pos - 1) \in SUBSET All /\ Cardinality(All) \in Nat
      /\ Cardinality(Kept(pos - 1)) <= Cardinality(All)
  BY <1>1, <1>2, SubsetsFinite, FS_Subset
<1>5. pos = Len(TheItems) + 1 => Kept(pos - 1) = All
  BY <1>1 DEF All
<1>6. count = Cardinality(Kept(pos - 1)) /\ count \in 0..Slots
  BY <1>1 DEF SlotsInv
<1>7. count = IF Cardinality(All) < Slots THEN Cardinality(All) ELSE Slots
  <2>1. pos = Len(TheItems) + 1 \/ count = Slots
    BY <1>1 DEF SlotsInv
  <2>2. pos = Len(TheItems) + 1 => count = Cardinality(All)
    BY <1>5, <1>6
  <2> HIDE DEF All
  <2> QED
    BY <1>1, <1>4, <1>6, <2>1, <2>2
<1>8. \A j \in 1..count : out[j] = Final(Made(Nth(Kept(pos - 1), j)))
  BY <1>1 DEF SlotsInv
<1> QED
  BY <1>3, <1>6, <1>7, <1>8

(* A list that has, for each item that is kept, what its slot becomes, is  *)
(* what is returned, up to the size of the array.                          *)
LEMMA ReturnedIs ==
  ASSUME FetchInv, Done, NEW list, IsList(list), Len(list) = Cardinality(All),
         \A n \in 1..Cardinality(All) : list[n] = Final(Made(Nth(All, n)))
  PROVE  Returned = FirstOf(list)
<1>1. Len(list) \in Nat /\ Slots \in Nat
  BY ListFacts, SlotsAssumption
<1>2. /\ count = IF Len(list) < Slots THEN Len(list) ELSE Slots
      /\ count \in 0..Len(list) /\ count \in 0..Slots
      /\ \A j \in 1..count : out[j] = list[j]
  BY <1>1, Computed
<1>3. IsList(out) /\ Len(out) = Slots
  BY <1>1, ListIs DEF FetchInv, Done, SlotsInv
<1>4. /\ IsList(Returned) /\ Len(Returned) = count
      /\ \A i \in 1..count : Returned[i] = out[i]
  BY <1>2, <1>3, BeginningIs DEF Returned
<1>5. /\ IsList(FirstOf(list)) /\ Len(FirstOf(list)) = count
      /\ \A i \in 1..count : FirstOf(list)[i] = list[i]
  BY <1>2, BeginningIs DEF FirstOf
<1> QED
  BY <1>2, <1>4, <1>5, SameList

-----------------------------------------------------------------------------
(* Feeds.                                                                  *)

Told(x, names, n) == {i \in 1..n : x[i].name \in names /\ x[i].text # NoText}
LastTo(x, names, n) ==
  IF Told(x, names, n) = {} THEN Child("", "", NoHref) ELSE x[Max(Told(x, names, n))]
StoryTo(x, n) ==
  [title |-> LastTo(x, {"title"}, n).text,
   url |-> IF LastTo(x, {"link"}, n).href = NoHref THEN LastTo(x, {"link"}, n).text
           ELSE LastTo(x, {"link"}, n).href,
   summary |-> LastTo(x, Summaries, n).text,
   at |-> parse_rfc822(LastTo(x, Dates, n).text),
   region |-> source.region, score |-> TierScore(source.tier)]

LEMMA LastIs ==
  ASSUME NEW x, NEW names, NEW n \in Nat
  PROVE  LastTo(x, names, n + 1) =
           IF x[n + 1].name \in names /\ x[n + 1].text # NoText THEN x[n + 1]
           ELSE LastTo(x, names, n)
<1>1. CASE x[n + 1].name \in names /\ x[n + 1].text # NoText
  <2> DEFINE T == Told(x, names, n + 1)
  <2>1. n + 1 \in T /\ \A i \in T : i \in Int /\ i <= n + 1
    BY <1>1 DEF Told
  <2> HIDE DEF T
  <2>2. Max(T) = n + 1
    BY <2>1 DEF Max
  <2> QED
    BY <1>1, <2>1, <2>2 DEF LastTo, T
<1>2. CASE ~(x[n + 1].name \in names /\ x[n + 1].text # NoText)
  <2>1. Told(x, names, n + 1) = Told(x, names, n)
    BY <1>2 DEF Told
  <2> QED
    BY <1>2, <2>1 DEF LastTo
<1> QED
  BY <1>1, <1>2

LEMMA StoryStarts ==
  ASSUME NEW x
  PROVE  StoryTo(x, 0) = [BlankStory EXCEPT !.region = source.region,
                                            !.score = TierScore(source.tier)]
<1>1. ASSUME NEW names PROVE LastTo(x, names, 0).text = "" /\ LastTo(x, names, 0).href = NoHref
  BY DEF LastTo, Told, Child
<1>2. parse_rfc822("") = 0
  BY DatesAssumption DEF parse_rfc822
<1>3. /\ parse_rfc822(LastTo(x, Dates, 0).text) = 0 /\ LastTo(x, Summaries, 0).text = ""
      /\ LastTo(x, {"title"}, 0).text = "" /\ LastTo(x, {"link"}, 0).text = ""
      /\ LastTo(x, {"link"}, 0).href = NoHref
  BY <1>1, <1>2
<1>4. StoryTo(x, 0) = [title |-> "", url |-> "", summary |-> "", at |-> 0,
                       region |-> source.region, score |-> TierScore(source.tier)]
  BY <1>3 DEF StoryTo
<1>5. ASSUME NEW t, NEW z, NEW r, NEW s, NEW blank, NEW e,
             blank = [title |-> t, url |-> t, summary |-> t, at |-> z, region |-> t, score |-> z],
             e = [blank EXCEPT !.region = r, !.score = s]
      PROVE  e = [title |-> t, url |-> t, summary |-> t, at |-> z, region |-> r, score |-> s]
  BY <1>5
<1>6. BlankStory = [title |-> "", url |-> "", summary |-> "", at |-> 0, region |-> "", score |-> 0]
  BY DEF BlankStory
<1> DEFINE r == source.region
           s == TierScore(source.tier)
           e == [BlankStory EXCEPT !.region = r, !.score = s]
<1>7. e = [BlankStory EXCEPT !.region = r, !.score = s]
  OBVIOUS
<1> HIDE DEF e, r, s
<1>8. e = [title |-> "", url |-> "", summary |-> "", at |-> 0, region |-> r, score |-> s]
  BY <1>5, <1>6, <1>7
<1> QED
  BY <1>4, <1>8 DEF e, r, s

LEMMA StoryGoesOn ==
  ASSUME NEW x, NEW n \in Nat
  PROVE  StoryTo(x, n + 1) = ReadChild(StoryTo(x, n), x[n + 1])
<1> DEFINE child == x[n + 1]
<1>1. CASE child.text = NoText
  <2>1. \A names : LastTo(x, names, n + 1) = LastTo(x, names, n)
    BY <1>1, LastIs
  <2>2. StoryTo(x, n + 1) = StoryTo(x, n)
    BY <2>1 DEF StoryTo
  <2> QED
    BY <1>1, <2>2 DEF ReadChild
<1>2. CASE child.text # NoText /\ child.name = "title"
  BY <1>2, LastIs DEF StoryTo, ReadChild, Summaries, Dates
<1>3. CASE child.text # NoText /\ child.name = "link"
  BY <1>3, LastIs DEF StoryTo, ReadChild, Summaries, Dates
<1>4. CASE child.text # NoText /\ child.name \in Summaries
  BY <1>4, LastIs DEF StoryTo, ReadChild, Summaries, Dates
<1>5. CASE child.text # NoText /\ child.name \in Dates
  BY <1>5, LastIs DEF StoryTo, ReadChild, Summaries, Dates
<1>6. CASE child.text # NoText /\ child.name \notin {"title", "link"} \cup Summaries \cup Dates
  BY <1>6, LastIs DEF StoryTo, ReadChild
<1> QED
  BY <1>1, <1>2, <1>3, <1>4, <1>5, <1>6

(* The children read one after the other leave the last of each sort.      *)
LEMMA ItemIsStory ==
  ASSUME NEW x, IsList(x)
  PROVE  FeedItem(BlankStory, source, x) = Story(x)
<1> DEFINE e == [BlankStory EXCEPT !.region = source.region, !.score = TierScore(source.tier)]
           Reads(f) == f = [n \in 0..Len(x) |-> IF n = 0 THEN e ELSE ReadChild(f[n - 1], x[n])]
           w == [n \in 0..Len(x) |-> StoryTo(x, n)]
           f == After(e, x)
<1>1. Len(x) \in Nat /\ DOMAIN x = 1..Len(x)
  BY ListFacts
<1>2. Reads(w)
  <2> SUFFICES ASSUME NEW n \in 0..Len(x)
               PROVE  StoryTo(x, n) = IF n = 0 THEN e ELSE ReadChild(w[n - 1], x[n])
    OBVIOUS
  <2>1. CASE n = 0
    BY <2>1, StoryStarts
  <2>2. CASE n # 0
    <3>1. n - 1 \in Nat /\ n - 1 \in 0..Len(x) /\ (n - 1) + 1 = n
      BY <1>1, <2>2
    <3>2. StoryTo(x, (n - 1) + 1) = ReadChild(StoryTo(x, n - 1), x[(n - 1) + 1])
      BY <3>1, StoryGoesOn
    <3>3. w[n - 1] = StoryTo(x, n - 1)
      BY <3>1
    <3> HIDE DEF w, e
    <3> QED
      BY <2>2, <3>1, <3>2, <3>3
  <2> QED
    BY <2>1, <2>2
<1>3. f = CHOOSE g : Reads(g)
  BY DEF After
<1> HIDE DEF f, w
<1>4. Reads(f)
  <2> HIDE DEF Reads
  <2> QED
    BY <1>2, <1>3
<1> DEFINE S == {n \in Nat : n <= Len(x) => f[n] = StoryTo(x, n)}
<1>5. 0 \in S
  BY <1>1, <1>4, StoryStarts
<1>6. ASSUME NEW n \in Nat, n \in S PROVE n + 1 \in S
  <2> SUFFICES ASSUME n + 1 <= Len(x) PROVE f[n + 1] = StoryTo(x, n + 1)
    OBVIOUS
  <2>1. n + 1 \in 0..Len(x) /\ n + 1 # 0 /\ (n + 1) - 1 = n /\ f[n] = StoryTo(x, n)
    BY <1>1, <1>6
  <2>2. f[n + 1] = ReadChild(f[n], x[n + 1])
    BY <1>4, <2>1
  <2> QED
    BY <2>1, <2>2, StoryGoesOn
<1>7. f[Len(x)] = StoryTo(x, Len(x))
  <2>1. Nat \subseteq S
    <3> HIDE DEF S
    <3> QED
      BY <1>5, <1>6, SetInduction
  <2> QED
    BY <1>1, <2>1
<1>8. StoryTo(x, Len(x)) = Story(x)
  <2>1. \A names : LastTo(x, names, Len(x)) = LastOf(x, names)
    BY <1>1 DEF LastTo, LastOf, Told
  <2> QED
    BY <2>1 DEF StoryTo, Story
<1> QED
  BY <1>7, <1>8 DEF FeedItem, f

-----------------------------------------------------------------------------
(* What each shape gives.                                                  *)

LEMMA ShapeIs ==
  ASSUME FromFetches, status = "document"
  PROVE  /\ TheShape = "feed" => /\ Parser(source) = "feed" /\ source.kind = "rss"
                                 /\ TheItems = FeedItems(answer)
         /\ TheShape \in {"array", "flat", "keyed"} => source.kind = "rest"
         /\ TheShape = "flat" => TheItems = <<TheData>>
         /\ TheShape = "ticker" => source.kind = "ws"
<1>1. source.kind \in {"rss", "rest", "ws"}
  BY FetchesAssumption DEF FromFetches
<1>2. RestParserOf(source) \in {"calendar", "generic", "binance", "coingecko"}
  BY DEF RestParserOf
<1>3. Parser(source) = IF source.kind = "rss" THEN "feed" ELSE
                       IF source.kind = "ws" THEN "ticker" ELSE RestParserOf(source)
  BY <1>1 DEF Parser
<1>4. TheShape = IF Parser(source) # "generic" THEN Parser(source)
                 ELSE Shape(source, TheData)
  BY DEF TheShape, Shape
<1>5. Parser(source) = "generic" => TheShape \in {"array", "nothing", "flat", "keyed"}
  BY DEF TheShape, Shape
<1>6. TheShape \in {"array", "flat", "keyed"} => source.kind = "rest"
  BY <1>1, <1>2, <1>3, <1>4
<1>7. TheShape = "ticker" => source.kind = "ws"
  BY <1>1, <1>2, <1>3, <1>4, <1>5
<1>8. TheShape = "feed" => Parser(source) = "feed" /\ source.kind = "rss"
  BY <1>1, <1>2, <1>3, <1>4, <1>5
<1>9. TheShape = "feed" => TheItems = FeedItems(answer)
  <2> SUFFICES ASSUME TheShape = "feed" PROVE TheItems = FeedItems(answer)
    OBVIOUS
  <2>1. TheData = answer
    BY <1>8 DEF TheData, Data
  <2> QED
    BY <2>1 DEF TheItems, ItemsOf, TheShape
<1>10. TheShape = "flat" => TheItems = <<TheData>>
  BY DEF TheItems, ItemsOf, TheShape
<1> QED
  BY <1>6, <1>7, <1>8, <1>9, <1>10

(* When what is kept of the items is chosen by a test of them, and what    *)
(* their slots become is a function of them, the list of the chosen is     *)
(* returned, up to the size of the array.                                  *)
LEMMA ChosenReturned ==
  ASSUME FetchInv, Done, NEW C \in SUBSET (1..Len(TheItems)), NEW told, NEW list,
         \A i \in 1..Len(TheItems) : Keeps(i) <=> i \in C,
         \A i \in C : Final(Made(i)) = told[i],
         list = [n \in 1..Cardinality(C) |-> told[Nth(C, n)]]
  PROVE  Returned = FirstOf(list) /\ IsList(list) /\ Len(list) = Cardinality(C)
<1>1. Len(TheItems) \in Nat
  BY ItemsAreLists DEF FetchInv, Done
<1>2. All = C
  BY DEF All, Kept
<1>3. Cardinality(C) \in Nat /\ \A n \in 1..Cardinality(C) : Nth(C, n) \in C
  BY <1>1, SubsetsFinite, NthIs
<1>4. IsList(list) /\ Len(list) = Cardinality(C)
  BY <1>3, ListIs
<1>5. \A n \in 1..Cardinality(C) : list[n] = Final(Made(Nth(C, n)))
  BY <1>3
<1> QED
  BY <1>2, <1>4, <1>5, ReturnedIs

(* A feed gives its titled items as stories, the first Slots of them.      *)
LEMMA FeedReturns ==
  ASSUME FetchInv, Done, TheShape = "feed"
  PROVE  Returned = FirstOf(Stories(answer))
<1> DEFINE told == Mapped(TheItems, Story)
           C == {i \in DOMAIN told : told[i].title # ""}
<1>1. /\ FromFetches /\ status = "document" /\ source.kind = "rss"
      /\ TheItems = FeedItems(answer) /\ Parser(source) = "feed"
  BY ShapeIs DEF FetchInv, Done
<1>2. Len(TheItems) \in Nat /\ \A i \in 1..Len(TheItems) : IsList(TheItems[i])
      /\ DOMAIN TheItems = 1..Len(TheItems)
  BY <1>1, ItemsAreLists
<1>3. ASSUME NEW i \in 1..Len(TheItems)
      PROVE  (Keeps(i) <=> told[i].title # "") /\ Final(Made(i)) = told[i]
  <2>1. Made(i) = FeedItem(BlankStory, source, TheItems[i])
    BY DEF Made, Filled, Blank
  <2>2. Made(i) = Story(TheItems[i])
    BY <1>2, <2>1, ItemIsStory
  <2>3. told[i] = Story(TheItems[i])
    BY <1>2 DEF Mapped
  <2>4. Keeps(i) <=> Made(i).title # ""
    BY DEF Keeps, Skipped, Counts, FeedItemCounts
  <2>5. Final(Made(i)) = Made(i)
    BY <1>1 DEF Final
  <2> QED
    BY <2>2, <2>3, <2>4, <2>5
<1>4. DOMAIN told = 1..Len(TheItems)
  BY <1>2 DEF Mapped
<1>5. Stories(answer) = [n \in 1..Cardinality(C) |-> told[Nth(C, n)]]
  BY <1>1 DEF Stories, Passing, Picked
<1> HIDE DEF told
<1>6. C \in SUBSET (1..Len(TheItems)) /\ \A i \in 1..Len(TheItems) : Keeps(i) <=> i \in C
  BY <1>3, <1>4
<1>7. \A i \in C : Final(Made(i)) = told[i]
  BY <1>3, <1>4
<1> HIDE DEF C
<1> QED
  BY <1>5, <1>6, <1>7, ChosenReturned

-----------------------------------------------------------------------------
(* Answers of prices.                                                      *)

NameOr(symbol, name) == IF name = "" THEN Lookup(symbol) ELSE name

LEMMA EntryIs ==
  ASSUME NEW symbol, NEW name, NEW value, NEW change
  PROVE  /\ Entry(symbol, name, value, change).symbol = symbol
         /\ Entry(symbol, name, value, change).name = name
         /\ Entry(symbol, name, value, change).value = value
         /\ Named(source, Entry(symbol, name, value, change))
              = Entry(symbol, NameOr(symbol, name), value, change)
BY DEF Named, Lookup, Entry, NameOr

LEMMA QuoteIs ==
  ASSUME source.kind = "rest", TheShape # "calendar",
         NEW symbol, NEW name, NEW v, NEW price, NEW change
  PROVE  Final(Priced(Entry(symbol, name, 0, 0), source, v, price, change))
           = Quote(symbol, name, v, price, change)
<1> DEFINE value == json_get_double(v, price)
           given == json_get_double(v, change)
           ch == Change(v, given, value)
<1>1. Priced(Entry(symbol, name, 0, 0), source, v, price, change) = Entry(symbol, name, value, ch)
  <2> DEFINE e == Entry(symbol, name, 0, 0)
             prev == json_get_double(v, source.field_prev_close)
             to == IF given = NaN /\ value # NaN /\ prev > 0
                     THEN ((value - prev) * 100) \div prev ELSE given
  <2>1. Priced(e, source, v, price, change) = [e EXCEPT !.value = value, !.change = to]
    BY DEF Priced
  <2>2. ch = to
    BY DEF Change
  <2>3. e = Entry(symbol, name, 0, 0)
    OBVIOUS
  <2> HIDE DEF e, to, value, ch
  <2> DEFINE q == [e EXCEPT !.value = value, !.change = to]
  <2>4. q = [e EXCEPT !.value = value, !.change = to]
    OBVIOUS
  <2> HIDE DEF q
  <2>5. q = Entry(symbol, name, value, to)
    BY <2>3, <2>4 DEF Entry
  <2> QED
    BY <2>1, <2>2, <2>4, <2>5 DEF e
<1>2. Quote(symbol, name, v, price, change)
        = Entry(symbol, NameOr(symbol, name), value, ch)
  BY DEF Quote, NameOr
<1> HIDE DEF value, ch
<1>3. Named(source, Entry(symbol, name, value, ch))
        = Entry(symbol, NameOr(symbol, name), value, ch)
  BY EntryIs
<1> QED
  BY <1>1, <1>2, <1>3 DEF Final

LEMMA QuoteFields ==
  ASSUME NEW symbol, NEW name, NEW v, NEW price, NEW change
  PROVE  LET e == Priced(Entry(symbol, name, 0, 0), source, v, price, change)
             quote == Quote(symbol, name, v, price, change)
         IN  e.symbol = quote.symbol /\ e.value = quote.value /\ e.name = name
             /\ e.symbol = symbol /\ e.value = json_get_double(v, price)
<1>1. \E ch : Quote(symbol, name, v, price, change)
                = Entry(symbol, NameOr(symbol, name), json_get_double(v, price), ch)
  BY DEF Quote, NameOr
<1>2. Quote(symbol, name, v, price, change).symbol = symbol
      /\ Quote(symbol, name, v, price, change).value = json_get_double(v, price)
  BY <1>1, EntryIs
<1> QED
  BY <1>2 DEF Priced, Entry

LEMMA ArrayReturns ==
  ASSUME FetchInv, Done, TheShape = "array"
  PROVE  Returned = FirstOf(Mapped(Passing(TheItems, LAMBDA v :
           Priceable(v, {SymbolKey(source), NameKey(source)}, PriceKey(source))), Listed))
<1> DEFINE C == {i \in DOMAIN TheItems :
                   Priceable(TheItems[i], {SymbolKey(source), NameKey(source)}, PriceKey(source))}
           told == [i \in 1..Len(TheItems) |-> Listed(TheItems[i])]
           list == [n \in 1..Cardinality(C) |-> told[Nth(C, n)]]
<1>1. /\ source.kind = "rest" /\ Len(TheItems) \in Nat /\ DOMAIN TheItems = 1..Len(TheItems)
  BY ShapeIs, ItemsAreLists DEF FetchInv, Done
<1>2. ASSUME NEW i \in 1..Len(TheItems)
      PROVE  /\ Keeps(i) <=> Priceable(TheItems[i], {SymbolKey(source), NameKey(source)},
                                       PriceKey(source))
             /\ Final(Made(i)) = Listed(TheItems[i])
  <2> DEFINE v == TheItems[i]
             symbol == StringOr(v, SymbolKey(source), "")
             name == StringOr(v, NameKey(source), "")
             value == json_get_double(v, PriceKey(source))
  <2>1. Made(i) = Priced(Entry(symbol, name, 0, 0), source, v, PriceKey(source),
                         Or(source.field_change, "change_percent"))
    <3>1. Made(i) = ArrayItem(BlankEntry, source, v)
      BY DEF Made, Filled, Blank
    <3>2. [BlankEntry EXCEPT !.symbol = StringOr(v, SymbolKey(source), @),
                             !.name = StringOr(v, NameKey(source), @)] = Entry(symbol, name, 0, 0)
      <4>1. BlankEntry = Entry("", "", 0, 0)
        BY DEF BlankEntry
      <4>2. StringOr(v, SymbolKey(source), BlankEntry.symbol) = symbol
            /\ StringOr(v, NameKey(source), BlankEntry.name) = name
        BY <4>1 DEF Entry
      <4> HIDE DEF symbol, name
      <4> DEFINE q == [BlankEntry EXCEPT !.symbol = symbol, !.name = name]
      <4>3. q = [BlankEntry EXCEPT !.symbol = symbol, !.name = name]
        OBVIOUS
      <4> HIDE DEF q
      <4>4. q = Entry(symbol, name, 0, 0)
        BY <4>1, <4>3 DEF Entry
      <4> QED
        BY <4>2, <4>3, <4>4
    <3> QED
      BY <3>1, <3>2 DEF ArrayItem
  <2>2. Made(i).symbol = symbol /\ Made(i).name = name /\ Made(i).value = value
    BY <2>1 DEF Priced, Entry
  <2>3. Keeps(i) <=> (symbol # "" \/ name # "") /\ value # NaN
    BY <2>2 DEF Keeps, Skipped, Counts, ArrayItemCounts
  <2>4. Priceable(v, {SymbolKey(source), NameKey(source)}, PriceKey(source))
          <=> (symbol # "" \/ name # "") /\ value # NaN
    BY DEF Priceable
  <2>5. Final(Made(i)) = Listed(v)
    BY <1>1, <2>1, QuoteIs DEF Listed
  <2> QED
    BY <2>3, <2>4, <2>5
<1>3. C \in SUBSET (1..Len(TheItems)) /\ \A i \in 1..Len(TheItems) : Keeps(i) <=> i \in C
  BY <1>1, <1>2
<1>4. \A i \in C : Final(Made(i)) = told[i]
  BY <1>1, <1>2
<1>5. Mapped(Picked(TheItems, C), Listed) = list
  <2>1. \A n \in 1..Cardinality(C) : Nth(C, n) \in 1..Len(TheItems)
    BY <1>1, <1>3, NthIs
  <2> HIDE DEF C
  <2> QED
    BY <2>1 DEF Mapped, Picked
<1>6. Returned = FirstOf(list)
  <2> HIDE DEF C, told
  <2> QED
    BY <1>3, <1>4, ChosenReturned
<1> QED
  BY <1>5, <1>6 DEF Passing

(* An object whose keys are the symbols.                                   *)
LEMMA KeyedItemIs ==
  ASSUME source.kind = "rest", TheShape = "keyed", NEW i, NEW p, p = TheItems[i]
  PROVE  /\ Keeps(i) <=> /\ p.v.type \in {"number", "object"}
                         /\ Keyed(p).symbol # "" /\ Keyed(p).value \notin {0, NaN}
         /\ p.v.type \in {"number", "object"} => Final(Made(i)) = Keyed(p)
<1> DEFINE keyed == [BlankEntry EXCEPT !.symbol = p.k]
           made == Made(i)
<1>1. made = KeyedItem(BlankEntry, source, p)
  BY DEF Made, Filled, Blank
<1>2. keyed = Entry(p.k, "", 0, 0)
  <2>1. ASSUME NEW t, NEW z, NEW e, e = Entry(t, t, z, z)
        PROVE  [e EXCEPT !.symbol = p.k] = Entry(p.k, t, z, z)
    BY <2>1 DEF Entry
  <2> QED
    BY <2>1 DEF BlankEntry
<1>3. Keeps(i) <=> made.symbol # "" /\ made.value \notin {NaN, 0}
  BY DEF Keeps, Skipped, Counts, KeyedItemCounts
<1> HIDE DEF keyed, made
<1>5. CASE p.v.type = "number"
  <2> DEFINE none == ""
             zero == 0
  <2>1. made = Entry(p.k, none, p.v.n, zero)
    <3>1. made = [keyed EXCEPT !.value = p.v.n]
      BY <1>1, <1>5 DEF KeyedItem, keyed
    <3> QED
      BY <1>2, <3>1 DEF Entry
  <2>2. Keyed(p) = Entry(p.k, Lookup(p.k), p.v.n, zero)
    BY <1>5 DEF Keyed
  <2>3. NameOr(p.k, none) = Lookup(p.k)
    BY DEF NameOr
  <2> HIDE DEF none, zero
  <2>4. Final(made) = Keyed(p)
    BY <2>1, <2>2, <2>3, EntryIs DEF Final
  <2>5. made.symbol = Keyed(p).symbol /\ made.value = Keyed(p).value
    BY <2>1, <2>2, EntryIs
  <2> QED
    BY <1>3, <1>5, <2>4, <2>5 DEF made
<1>6. CASE p.v.type = "object"
  <2> DEFINE symbol == StringOr(p.v, source.field_symbol, p.k)
             name == StringOr(p.v, source.field_name, "")
             price == Or(source.field_price, "usd")
             change == Or(source.field_change, "usd_24h_change")
  <2>1. made = Priced(Entry(symbol, name, 0, 0), source, p.v, price, change)
    <3> DEFINE e == [keyed EXCEPT !.symbol = StringOr(p.v, source.field_symbol, @),
                                  !.name = StringOr(p.v, source.field_name, @)]
    <3>1. made = Priced(e, source, p.v, price, change)
      BY <1>1, <1>6 DEF KeyedItem, keyed
    <3>2. StringOr(p.v, source.field_symbol, keyed.symbol) = symbol
          /\ StringOr(p.v, source.field_name, keyed.name) = name
      BY <1>2 DEF Entry
    <3>3. e = [keyed EXCEPT !.symbol = symbol, !.name = name]
      BY <3>2
    <3> HIDE DEF e, symbol, name
    <3>4. e = Entry(symbol, name, 0, 0)
      BY <1>2, <3>3 DEF Entry
    <3> QED
      BY <3>1, <3>4
  <2>2. Keyed(p) = Quote(symbol, name, p.v, price, change)
    BY <1>6 DEF Keyed
  <2> HIDE DEF symbol, name, price, change
  <2>3. Final(made) = Keyed(p)
    BY <2>1, <2>2, QuoteIs
  <2>4. made.symbol = Keyed(p).symbol /\ made.value = Keyed(p).value
    BY <2>1, <2>2, QuoteFields
  <2> QED
    BY <1>3, <1>6, <2>3, <2>4 DEF made
<1>7. CASE p.v.type \notin {"number", "object"}
  <2>1. made = keyed
    BY <1>1, <1>7 DEF KeyedItem, keyed
  <2> QED
    BY <1>2, <1>3, <1>7, <2>1 DEF Entry
<1> QED
  BY <1>5, <1>6, <1>7

LEMMA KeyedReturns ==
  ASSUME FetchInv, Done, TheShape = "keyed"
  PROVE  Returned = FirstOf(Mapped(Passing(TheItems, LAMBDA p :
           /\ p.v.type \in {"number", "object"}
           /\ Keyed(p).symbol # "" /\ Keyed(p).value \notin {0, NaN}), Keyed))
<1> DEFINE C == {i \in DOMAIN TheItems :
                   /\ TheItems[i].v.type \in {"number", "object"}
                   /\ Keyed(TheItems[i]).symbol # "" /\ Keyed(TheItems[i]).value \notin {0, NaN}}
           told == [i \in 1..Len(TheItems) |-> Keyed(TheItems[i])]
           list == [n \in 1..Cardinality(C) |-> told[Nth(C, n)]]
<1>1. /\ source.kind = "rest" /\ Len(TheItems) \in Nat /\ DOMAIN TheItems = 1..Len(TheItems)
  BY ShapeIs, ItemsAreLists DEF FetchInv, Done
<1>2. C \in SUBSET (1..Len(TheItems)) /\ \A i \in 1..Len(TheItems) : Keeps(i) <=> i \in C
  BY <1>1, KeyedItemIs
<1>3. \A i \in C : Final(Made(i)) = told[i]
  BY <1>1, KeyedItemIs
<1>4. Mapped(Picked(TheItems, C), Keyed) = list
  <2>1. \A n \in 1..Cardinality(C) : Nth(C, n) \in 1..Len(TheItems)
    BY <1>1, <1>2, NthIs
  <2> HIDE DEF C
  <2> QED
    BY <2>1 DEF Mapped, Picked
<1>5. Returned = FirstOf(list)
  <2> HIDE DEF C, told
  <2> QED
    BY <1>2, <1>3, ChosenReturned
<1> QED
  BY <1>4, <1>5 DEF Passing

(* An object that has the price itself.                                    *)
LEMMA FlatReturns ==
  ASSUME FetchInv, Done, TheShape = "flat"
  PROVE  Returned = Mapped(Passing(TheItems, LAMBDA v :
           Direct(v).symbol # "" /\ Direct(v).value # NaN), Direct)
<1> DEFINE C == {i \in DOMAIN TheItems :
                   Direct(TheItems[i]).symbol # "" /\ Direct(TheItems[i]).value # NaN}
           told == [i \in 1..Len(TheItems) |-> Direct(TheItems[i])]
           list == [n \in 1..Cardinality(C) |-> told[Nth(C, n)]]
<1>1. /\ source.kind = "rest" /\ Len(TheItems) = 1 /\ DOMAIN TheItems = 1..Len(TheItems)
  BY ShapeIs, ItemsAreLists DEF FetchInv, Done
<1>2. ASSUME NEW i \in 1..Len(TheItems)
      PROVE  /\ Keeps(i) <=> Direct(TheItems[i]).symbol # "" /\ Direct(TheItems[i]).value # NaN
             /\ Final(Made(i)) = Direct(TheItems[i])
  <2> DEFINE v == TheItems[i]
             itself == IF source.symbols # <<>> THEN source.symbols[1] ELSE source.name
             symbol == StringOr(v, SymbolKey(source), itself)
             name == StringOr(v, NameKey(source), "")
             change == Or(source.field_change, "change_percent")
             e == [BlankEntry EXCEPT !.symbol = symbol, !.name = StringOr(v, NameKey(source), @)]
  <2>1. Made(i) = Priced(e, source, v, PriceKey(source), change)
    BY DEF Made, Filled, Blank, FlatObject
  <2>2. e = Entry(symbol, name, 0, 0)
    <3>1. BlankEntry = Entry("", "", 0, 0)
      BY DEF BlankEntry
    <3>2. StringOr(v, NameKey(source), BlankEntry.name) = name
      BY <3>1 DEF Entry
    <3>3. e = [BlankEntry EXCEPT !.symbol = symbol, !.name = name]
      BY <3>2
    <3> HIDE DEF e, symbol, name
    <3> QED
      BY <3>1, <3>3 DEF Entry
  <2>3. Direct(v) = Quote(symbol, name, v, PriceKey(source), change)
    BY DEF Direct
  <2> HIDE DEF e, symbol, name, change
  <2>4. Final(Made(i)) = Direct(v)
    BY <1>1, <2>1, <2>2, <2>3, QuoteIs
  <2>5. Made(i).symbol = Direct(v).symbol /\ Made(i).value = Direct(v).value
    BY <2>1, <2>2, <2>3, QuoteFields
  <2>6. Keeps(i) <=> Made(i).symbol # "" /\ Made(i).value # NaN
    BY DEF Keeps, Skipped, Counts, FlatObjectCounts
  <2> QED
    BY <2>4, <2>5, <2>6
<1>3. C \in SUBSET (1..Len(TheItems)) /\ \A i \in 1..Len(TheItems) : Keeps(i) <=> i \in C
  BY <1>1, <1>2
<1>4. \A i \in C : Final(Made(i)) = told[i]
  BY <1>1, <1>2
<1>5. Mapped(Picked(TheItems, C), Direct) = list
  <2>1. \A n \in 1..Cardinality(C) : Nth(C, n) \in 1..Len(TheItems)
    BY <1>1, <1>3, NthIs
  <2> HIDE DEF C
  <2> QED
    BY <2>1 DEF Mapped, Picked
<1>6. Returned = FirstOf(list) /\ IsList(list) /\ Len(list) = Cardinality(C)
  <2> HIDE DEF C, told
  <2> QED
    BY <1>3, <1>4, ChosenReturned
<1>7. FirstOf(list) = list
  <2> HIDE DEF C
  <2>1. Len(list) \in Nat /\ Len(list) <= Slots /\ Slots \in Nat
    BY <1>1, <1>3, <1>6, SubsetsFinite, SlotsAssumption
  <2> HIDE DEF list
  <2>2. FirstOf(list) = SubSeq(list, 1, Len(list))
    BY <2>1 DEF FirstOf
  <2>3. Len(list) \in 0..Len(list)
    BY <2>1
  <2>4. /\ IsList(SubSeq(list, 1, Len(list))) /\ Len(SubSeq(list, 1, Len(list))) = Len(list)
        /\ \A i \in 1..Len(list) : SubSeq(list, 1, Len(list))[i] = list[i]
    BY <1>6, <2>3, BeginningIs
  <2> QED
    BY <1>6, <2>2, <2>4, SameList
<1> QED
  BY <1>5, <1>6, <1>7 DEF Passing

(* What is returned is what some item that is kept has become.             *)
LEMMA ReturnedAre ==
  ASSUME FetchInv, Done, NEW e \in ToSet(Returned)
  PROVE  \E i \in 1..Len(TheItems) : Keeps(i) /\ e = Final(Made(i))
<1>1. IsList(out) /\ Len(out) = Slots /\ Slots \in Nat /\ count \in 0..Slots
  <2>1. SlotsInv
    BY DEF FetchInv, Done
  <2> QED
    BY <2>1, SlotsAssumption, ListIs DEF SlotsInv
<1>2. DOMAIN Returned = 1..count /\ \A j \in 1..count : Returned[j] = out[j]
  BY <1>1, BeginningIs DEF Returned
<1>3. PICK j \in 1..count : e = out[j]
  BY <1>2 DEF ToSet
<1>4. Nth(All, j) \in All /\ out[j] = Final(Made(Nth(All, j)))
  BY <1>3, Computed
<1>5. \A i \in All : i \in 1..Len(TheItems) /\ Keeps(i)
  BY DEF All, Kept
<1> QED
  BY <1>3, <1>4, <1>5

LEMMA TickersReturn ==
  ASSUME FetchInv, Done, TheShape = "ticker", NEW e \in ToSet(Returned)
  PROVE  e.symbol # "" /\ e.value > 0
<1>1. source.kind = "ws"
  BY ShapeIs DEF FetchInv, Done
<1>2. PICK i \in 1..Len(TheItems) : Keeps(i) /\ e = Final(Made(i))
  BY ReturnedAre
<1>3. Final(Made(i)) = Made(i)
  BY <1>1 DEF Final
<1>4. TickerCounts(Made(i))
  BY <1>2 DEF Keeps, Counts
<1> QED
  BY <1>2, <1>3, <1>4 DEF TickerCounts

LEMMA TickersOfBinanceReturn ==
  ASSUME FetchInv, Done, TheShape = "binance", source.symbols # <<>>, NEW e \in ToSet(Returned)
  PROVE  e.symbol \in ToSet(source.symbols)
<1>1. PICK i \in 1..Len(TheItems) : Keeps(i) /\ e = Final(Made(i))
  BY ReturnedAre
<1> DEFINE x == TheItems[i]
           symbol == TextAnyCase(x, "symbol")
           value == AtoF(TextAnyCase(x, "lastPrice"))
           change == AtoF(TextAnyCase(x, "priceChangePercent"))
<1>2. Wanted(source, x)
  BY <1>1 DEF Keeps, Skipped
<1>3. symbol \in ToSet(source.symbols)
  BY <1>2 DEF Wanted
<1>4. Made(i) = Entry(symbol, symbol, value, change)
  BY DEF Made, Filled, BinanceItem
<1> HIDE DEF symbol, value, change
<1>5. Final(Made(i)).symbol = symbol
  BY <1>4, EntryIs DEF Final
<1> QED
  BY <1>1, <1>3, <1>5

(* The calendar gives its titled events, the first Slots of them.          *)
LEMMA EventsReturn ==
  ASSUME FetchInv, Done, TheShape = "calendar"
  PROVE  Returned = FirstOf(Picked([i \in DOMAIN TheItems |-> Placed(i)],
                                   {i \in DOMAIN TheItems : Titled(TheItems[i])}))
<1> DEFINE told == [i \in DOMAIN TheItems |-> Placed(i)]
           C == {i \in DOMAIN TheItems : Titled(TheItems[i])}
           list == [n \in 1..Cardinality(C) |-> told[Nth(C, n)]]
<1>1. DOMAIN TheItems = 1..Len(TheItems)
  BY ItemsAreLists DEF FetchInv, Done
<1>2. ASSUME NEW i \in DOMAIN TheItems
      PROVE  Final(Made(i)) = Placed(i)
  <2> DEFINE v == TheItems[i]
             date == StringOr(v, <<"date">>, NoDate)
             title == StringOr(v, <<"title">>, "")
             ccy == StringOr(v, <<"country">>, "")
             actual == StringOr(v, <<"actual">>, "-")
             score == ScoreOf(StringOr(v, <<"impact">>, ""))
             n == IF date = NoDate THEN i - 1 ELSE 0
  <2>1. Final(Made(i)) = Event(BlankEvent, v, i - 1)
    BY DEF Final, Made, Filled, Blank
  <2>2. Event(BlankEvent, v, i - 1)
          = [title |-> <<title, ccy>>, url |-> Url(date, title, n), actual |-> actual,
             region |-> RegionOf(ccy), score |-> score]
    BY DEF Event, EventAt
  <2>3. Placed(i)
          = [title |-> <<title, ccy>>, url |-> [date |-> date, title |-> title, n |-> n],
             actual |-> actual, region |-> RegionOf(ccy), score |-> score]
    BY DEF Placed
  <2> HIDE DEF date, title, ccy, actual, score, n
  <2> QED
    BY <2>1, <2>2, <2>3 DEF Url
<1>3. \A i \in 1..Len(TheItems) : Keeps(i) <=> Titled(TheItems[i])
  BY DEF Keeps, Skipped, Counts
<1>4. C \in SUBSET (1..Len(TheItems)) /\ \A i \in 1..Len(TheItems) : Keeps(i) <=> i \in C
  BY <1>1, <1>3
<1>5. \A i \in C : Final(Made(i)) = told[i]
  BY <1>2
<1>6. Picked(told, C) = list
  BY DEF Picked
<1> HIDE DEF told, C, list
<1>7. Returned = FirstOf(list)
  BY <1>4, <1>5, ChosenReturned DEF list
<1> QED
  BY <1>6, <1>7 DEF told, C

(* A feed of any items gives the stories of the titled ones, each of the   *)
(* last child of each sort (FeedRight).                                    *)
THEOREM FeedsReturned == FetchSpec => []FeedRight
<1>1. FetchInv => FeedRight
  BY FeedReturns DEF FeedRight
<1> QED
  BY <1>1, FetchInvariance, PTL

(* Answers of prices, of any shape and size, give the entries of the items *)
(* that have an identity and a price (EntriesRight).                       *)
THEOREM EntriesReturned == FetchSpec => []EntriesRight
<1>1. FetchInv => EntriesRight
  BY ArrayReturns, KeyedReturns, FlatReturns, TickersReturn, TickersOfBinanceReturn
     DEF EntriesRight
<1> QED
  BY <1>1, FetchInvariance, PTL

(* A calendar of any events gives the titled ones, each with its own       *)
(* fields and, without a date, its own place in the url (CalendarRight).   *)
THEOREM EventsReturned == FetchSpec => []CalendarRight
<1>1. FetchInv => CalendarRight
  BY EventsReturn DEF CalendarRight
<1> QED
  BY <1>1, FetchInvariance, PTL

-----------------------------------------------------------------------------
(* The configuration.                                                      *)

LEMMA UptoIs ==
  ASSUME NEW n \in Nat, NEW s, IsList(s)
  PROVE  /\ IsList(Upto(n, s)) /\ Len(Upto(n, s)) \in Nat /\ Len(Upto(n, s)) <= n
         /\ DOMAIN Upto(n, s) = 1..Len(Upto(n, s))
         /\ \A i \in DOMAIN Upto(n, s) : i \in DOMAIN s /\ Upto(n, s)[i] = s[i]
<1> DEFINE k == IF Len(s) < n THEN Len(s) ELSE n
<1>1. Len(s) \in Nat /\ DOMAIN s = 1..Len(s)
  BY ListFacts
<1>2. k \in 0..Len(s) /\ k <= n /\ k \in Nat
  BY <1>1
<1> HIDE DEF k
<1>3. /\ IsList(SubSeq(s, 1, k)) /\ Len(SubSeq(s, 1, k)) = k /\ DOMAIN SubSeq(s, 1, k) = 1..k
      /\ \A i \in 1..k : SubSeq(s, 1, k)[i] = s[i]
  BY <1>2, BeginningIs
<1>4. Upto(n, s) = SubSeq(s, 1, k)
  BY DEF Upto, k
<1>5. \A i \in 1..k : i \in DOMAIN s
  BY <1>1, <1>2
<1> QED
  BY <1>2, <1>3, <1>4, <1>5

LEMMA StringsAre ==
  ASSUME NEW s, IsList(s)
  PROVE  IsList(Strings(s)) /\ \A i \in DOMAIN Strings(s) : Strings(s)[i] # NoString
<1> DEFINE C == {i \in DOMAIN s : s[i] # NoString}
<1>1. Len(s) \in Nat /\ C \in SUBSET (1..Len(s))
  BY ListFacts
<1>2. Strings(s) = Picked(s, C)
  BY DEF Strings, Passing
<1>3. \A i \in C : s[i] # NoString
  OBVIOUS
<1> HIDE DEF C
<1>4. /\ DOMAIN Picked(s, C) = 1..Cardinality(C) /\ IsList(Picked(s, C))
      /\ \A n \in 1..Cardinality(C) : Picked(s, C)[n] = s[Nth(C, n)] /\ Nth(C, n) \in C
  BY <1>1, PickedIs, NthIs
<1> QED
  BY <1>2, <1>3, <1>4

(* The (int) keeps what an int holds, and gives an int.                    *)
LEMMA NarrowIs ==
  ASSUME NEW v \in Int
  PROVE  IsInt(Narrow(v)) /\ (IsInt(v) => Narrow(v) = v) /\ Narrow(v) \in Int
<1> DEFINE r == (v + IntMax + 1) % (2 * (IntMax + 1))
<1>1. IntMax \in Nat
  BY CapsAssumption
<1>2. r \in Int /\ 0 <= r /\ r < 2 * (IntMax + 1)
  <2> DEFINE a == v + IntMax + 1
             b == 2 * (IntMax + 1)
  <2>1. a \in Int /\ b \in Nat /\ b > 0
    BY <1>1
  <2> HIDE DEF a, b
  <2>2. a % b \in Int /\ 0 <= a % b /\ a % b < b
    BY <2>1
  <2> QED
    BY <2>2 DEF a, b
<1>3. Narrow(v) = IF IsInt(v) THEN v ELSE r - (IntMax + 1)
  BY DEF Narrow
<1> HIDE DEF r
<1>4. IsInt(r - (IntMax + 1)) /\ r - (IntMax + 1) \in Int
  BY <1>1, <1>2 DEF IsInt
<1> QED
  BY <1>3, <1>4

LEMMA SettledIs ==
  ASSUME NEW key, IsKey(key), NEW default
  PROVE  Settled(OptInt(key, default), key, default)
<1>1. CASE key = <<>>
  BY <1>1 DEF Settled, OptInt
<1>2. CASE key # <<>>
  <2>1. key[1] \in Int
    BY <1>2 DEF IsKey
  <2>2. IsInt(Narrow(key[1])) /\ (IsInt(key[1]) => Narrow(key[1]) = key[1])
    BY <2>1, NarrowIs
  <2>3. OptInt(key, default) = Narrow(key[1])
    BY <1>2 DEF OptInt
  <2> HIDE DEF IsInt
  <2> QED
    BY <1>2, <2>2, <2>3 DEF Settled
<1> QED
  BY <1>1, <1>2

(* Of a list of strings, none is left out.                                 *)
LEMMA StringsOnly ==
  ASSUME NEW s, IsList(s), \A i \in DOMAIN s : s[i] # NoString
  PROVE  Len(Strings(s)) = Len(s)
<1>1. Len(s) \in Nat /\ DOMAIN s = 1..Len(s)
  BY ListFacts
<1> DEFINE n == Len(s)
           C == {i \in DOMAIN s : s[i] # NoString}
<1>2. C = 1..n
  BY <1>1
<1>3. Strings(s) = Picked(s, C)
  BY DEF Strings, Passing
<1> HIDE DEF C, n
<1>4. n \in Nat
  BY <1>1 DEF n
<1>5. 1 \in Int /\ n \in Int
  BY <1>4
<1>6. Cardinality(1..n) = n
  <2>1. Cardinality(1..n) = IF 1 > n THEN 0 ELSE n - 1 + 1
    BY <1>5, FS_Interval
  <2> QED
    BY <1>4, <2>1
<1>7. C \in SUBSET (1..Len(s))
  BY <1>2 DEF n
<1>8. Len(Picked(s, C)) = Cardinality(C)
  BY <1>1, <1>7, PickedIs
<1> QED
  BY <1>2, <1>3, <1>6, <1>8 DEF n

Loaded == file.readable /\ file.valid
Config(c) ==
  [refresh |-> c.refresh, db_path |-> c.db_path, http_port |-> c.http_port,
   tab_count |-> c.tab_count, rss |-> c.rss, rest |-> c.rest, ws |-> c.ws]

RssRead ==
  /\ Len(cfg.rss) <= MaxSources
  /\ \A i \in DOMAIN cfg.rss :
       /\ Settled(cfg.rss[i].interval, file.rss[i].interval, cfg.refresh)
       /\ cfg.rss[i].tier \in 1..3
       /\ \A n \in 1..3 : file.rss[i].tier = <<n>> => cfg.rss[i].tier = n
RestRead ==
  /\ Len(cfg.rest) <= MaxSources
  /\ \A i \in DOMAIN cfg.rest :
       /\ Settled(cfg.rest[i].interval, file.rest[i].interval, cfg.refresh)
       /\ Len(cfg.rest[i].symbols) <= MaxSymbols
       /\ \A j \in DOMAIN cfg.rest[i].symbols : cfg.rest[i].symbols[j] # NoString
WsRead == Len(cfg.ws) <= MaxSources

OnlyPort == cfg = [mc_config_defaults EXCEPT !.http_port = cfg.http_port]

ConfigInv ==
  /\ file \in Files /\ cfg = Config(cfg)
  /\ section \in {"open", "general", "ui", "source", "paths", "options", "done"}
  /\ section \in {"general", "ui", "source", "paths"} => Loaded
  /\ section \in {"open", "general"} \/ ~Loaded => OnlyPort
  /\ section \in {"ui", "source", "paths", "options", "done"} /\ Loaded =>
       Settled(cfg.refresh, file.refresh, 30)
  /\ section \in {"source", "paths", "options", "done"} /\ Loaded => TabsRight
  /\ section \in {"open", "general", "ui"} => cfg.tab_count = 5
  /\ section \in {"open", "general", "ui", "source"} => cfg.rss = <<>> /\ cfg.rest = <<>>
  /\ cfg.tab_count <= MaxTabs
  /\ RssRead /\ RestRead /\ WsRead
  /\ section \in {"options", "done"} /\ Loaded /\ home => cfg.db_path # "~/db"
  /\ section = "done" /\ port_override > 0 => cfg.http_port = port_override

LEMMA ConfigStart == ConfigInit => ConfigInv
<1> SUFFICES ASSUME ConfigInit PROVE ConfigInv
  OBVIOUS
<1>1. /\ cfg.rss = <<>> /\ cfg.rest = <<>> /\ cfg.ws = <<>> /\ cfg.tab_count = 5
      /\ cfg = Config(cfg) /\ cfg = [mc_config_defaults EXCEPT !.http_port = cfg.http_port]
  BY DEF ConfigInit, mc_config_defaults, Config
<1>2. Len(<<>>) = 0 /\ DOMAIN <<>> = {}
  OBVIOUS
<1>3. MaxSources \in Nat /\ MaxTabs >= 5
  BY CapsAssumption
<1>4. RssRead /\ RestRead /\ WsRead
  BY <1>1, <1>2, <1>3 DEF RssRead, RestRead, WsRead
<1>5. cfg.tab_count <= MaxTabs
  BY <1>1, CapsAssumption
<1> QED
  BY <1>1, <1>4, <1>5 DEF ConfigInit, ConfigInv, OnlyPort

(* What the sections after the first say of the file and of cfg goes on to *)
(* hold while both stay.                                                   *)
LEMMA SameConfig ==
  ASSUME UNCHANGED <<file, cfg>>
  PROVE  /\ Loaded' = Loaded /\ OnlyPort' = OnlyPort /\ TabsRight' = TabsRight
         /\ RssRead' = RssRead /\ RestRead' = RestRead /\ WsRead' = WsRead
         /\ Settled(cfg.refresh, file.refresh, 30)' = Settled(cfg.refresh, file.refresh, 30)
BY DEF Loaded, OnlyPort, TabsRight, RssRead, RestRead, WsRead, Settled

LEMMA NothingRead ==
  ASSUME cfg'.rss = <<>>, cfg'.rest = <<>>
  PROVE  RssRead' /\ RestRead'
<1>1. Len(<<>>) = 0 /\ DOMAIN <<>> = {} /\ MaxSources \in Nat
  BY CapsAssumption
<1> QED
  BY <1>1 DEF RssRead, RestRead

LEMMA OpenStep == ASSUME ConfigInv, Open PROVE ConfigInv'
<1>1. UNCHANGED <<file, port_override, home, cfg>> /\ section = "open"
      /\ section' = IF Loaded THEN "general" ELSE "options"
  BY DEF Open, Loaded
<1>2. /\ Loaded' = Loaded /\ OnlyPort' = OnlyPort
      /\ RssRead' = RssRead /\ RestRead' = RestRead /\ WsRead' = WsRead
  BY <1>1, SameConfig
<1>3. /\ file \in Files /\ cfg = Config(cfg) /\ OnlyPort /\ RssRead /\ RestRead /\ WsRead
      /\ cfg.tab_count = 5 /\ cfg.rss = <<>> /\ cfg.rest = <<>> /\ cfg.tab_count <= MaxTabs
  BY <1>1 DEF ConfigInv
<1>4. Config(cfg)' = Config(cfg)
  BY <1>1 DEF Config
<1> QED
  BY <1>1, <1>2, <1>3, <1>4 DEF ConfigInv

LEMMA GeneralStep == ASSUME ConfigInv, General PROVE ConfigInv'
<1> DEFINE r == OptInt(file.refresh, cfg.refresh)
           d == Opt(file.db_path, cfg.db_path)
           h == OptInt(file.http_port, cfg.http_port)
<1>1. cfg' = [cfg EXCEPT !.refresh = r, !.db_path = d, !.http_port = h]
  BY DEF General
<1>2. Settled(r, file.refresh, 30)
  <2>1. cfg.refresh = 30
    BY DEF ConfigInv, General, OnlyPort, mc_config_defaults
  <2>2. IsKey(file.refresh)
    BY FilesAssumption DEF ConfigInv
  <2> QED
    BY <2>1, <2>2, SettledIs
<1> HIDE DEF r, d, h
<1>3. cfg = Config(cfg)
  BY DEF ConfigInv
<1>4. /\ cfg'.refresh = r /\ cfg'.tab_count = cfg.tab_count /\ cfg'.rss = cfg.rss
      /\ cfg'.rest = cfg.rest /\ cfg'.ws = cfg.ws /\ cfg' = Config(cfg')
  BY <1>1, <1>3 DEF Config
<1>5. /\ file' = file /\ section' = "ui" /\ Loaded /\ file \in Files
      /\ cfg.tab_count <= MaxTabs /\ cfg.tab_count = 5
      /\ cfg.rss = <<>> /\ cfg.rest = <<>> /\ WsRead
  BY DEF ConfigInv, General
<1>6. Loaded' = Loaded
  BY <1>5 DEF Loaded
<1>7. WsRead' /\ cfg'.rss = <<>> /\ cfg'.rest = <<>> /\ cfg'.tab_count = 5
  BY <1>4, <1>5 DEF WsRead
<1>8. RssRead' /\ RestRead'
  BY <1>7, NothingRead
<1>9. Settled(cfg.refresh, file.refresh, 30)'
  BY <1>2, <1>4, <1>5 DEF Settled
<1>10. ~(section' \in {"open", "general"} \/ ~Loaded')
  BY <1>5, <1>6
<1> QED
  BY <1>4, <1>5, <1>6, <1>7, <1>8, <1>9, <1>10 DEF ConfigInv

LEMMA UiStep == ASSUME ConfigInv, Ui PROVE ConfigInv'
<1> DEFINE tabs == file.tabs[1]
           listed == Upto(MaxTabs, tabs)
           t == IF file.tabs = <<>> THEN cfg.tab_count ELSE Len(Strings(listed))
<1>1. cfg' = [cfg EXCEPT !.tab_count = t]
  BY DEF Ui
<1>2. /\ file \in Files /\ cfg.tab_count = 5 /\ section = "ui" /\ Loaded
      /\ cfg.rss = <<>> /\ cfg.rest = <<>> /\ WsRead /\ cfg.tab_count <= MaxTabs
      /\ Settled(cfg.refresh, file.refresh, 30) /\ cfg = Config(cfg)
  BY DEF ConfigInv, Ui
<1>3. file.tabs # <<>> =>
        /\ t <= MaxTabs
        /\ (\A i \in DOMAIN tabs : tabs[i] # NoString) =>
             t = IF Len(tabs) < MaxTabs THEN Len(tabs) ELSE MaxTabs
  <2> SUFFICES ASSUME file.tabs # <<>>
               PROVE  /\ t <= MaxTabs
                      /\ (\A i \in DOMAIN tabs : tabs[i] # NoString) =>
                           t = IF Len(tabs) < MaxTabs THEN Len(tabs) ELSE MaxTabs
    OBVIOUS
  <2>1. IsList(tabs) /\ MaxTabs \in Nat
    BY <1>2, FilesAssumption, CapsAssumption
  <2>2. t = Len(Strings(listed))
    OBVIOUS
  <2> HIDE DEF tabs
  <2>3. Len(tabs) \in Nat
    BY <2>1, ListFacts
  <2>4. /\ IsList(listed) /\ Len(listed) \in Nat /\ Len(listed) <= MaxTabs
        /\ \A i \in DOMAIN listed : i \in DOMAIN tabs /\ listed[i] = tabs[i]
    BY <2>1, UptoIs
  <2>5. Len(listed) = IF Len(tabs) < MaxTabs THEN Len(tabs) ELSE MaxTabs
    <3> DEFINE k == IF Len(tabs) < MaxTabs THEN Len(tabs) ELSE MaxTabs
    <3>1. k \in 0..Len(tabs)
      BY <2>1, <2>3
    <3>2. listed = SubSeq(tabs, 1, k)
      BY DEF Upto
    <3> HIDE DEF k, listed
    <3>3. Len(listed) = k
      BY <2>1, <3>1, <3>2, BeginningIs
    <3> QED
      BY <3>3 DEF k
  <2> HIDE DEF listed, t
  <2>6. {i \in DOMAIN listed : listed[i] # NoString} \in SUBSET (1..Len(listed))
    BY <2>4, ListFacts
  <2>7. /\ Len(Strings(listed)) = Cardinality({i \in DOMAIN listed : listed[i] # NoString})
        /\ Len(Strings(listed)) \in Nat /\ Len(Strings(listed)) <= Len(listed)
    BY <2>4, <2>6, PickedIs, SubsetsFinite DEF Strings, Passing
  <2>8. t <= MaxTabs
    BY <2>1, <2>2, <2>4, <2>7
  <2>9. ASSUME \A i \in DOMAIN tabs : tabs[i] # NoString
        PROVE  t = Len(listed)
    BY <2>2, <2>4, <2>9, StringsOnly
  <2> QED
    BY <2>5, <2>8, <2>9
<1> HIDE DEF t, listed, tabs
<1>4. /\ cfg'.refresh = cfg.refresh /\ cfg'.tab_count = t /\ cfg'.rss = cfg.rss
      /\ cfg'.rest = cfg.rest /\ cfg'.ws = cfg.ws /\ cfg' = Config(cfg')
  BY <1>1, <1>2 DEF Config
<1>5. file.tabs = <<>> => t = 5
  BY <1>2 DEF t
<1>6. t <= MaxTabs
  BY <1>2, <1>3, <1>5
<1>7. file' = file /\ section' = "source" /\ Loaded'
  BY <1>2 DEF Ui, Loaded
<1>8. TabsRight'
  BY <1>3, <1>4, <1>5, <1>7 DEF TabsRight, tabs
<1>9. WsRead' /\ Settled(cfg.refresh, file.refresh, 30)'
  BY <1>2, <1>4, <1>7 DEF WsRead, Settled
<1>10. RssRead' /\ RestRead'
  BY <1>2, <1>4, NothingRead
<1> QED
  BY <1>2, <1>4, <1>6, <1>7, <1>8, <1>9, <1>10 DEF ConfigInv

LEMMA SourceStep == ASSUME ConfigInv, Source PROVE ConfigInv'
<1> DEFINE rss == Mapped(Upto(MaxSources, file.rss), parse_rss)
           rest == Mapped(Upto(MaxSources, file.rest), parse_rest)
           ws == Mapped(Upto(MaxSources, file.ws), parse_ws)
<1>1. cfg' = [cfg EXCEPT !.rss = rss, !.rest = rest, !.ws = ws]
  BY DEF Source
<1>2. /\ IsList(file.rss) /\ IsList(file.rest) /\ IsList(file.ws)
      /\ \A i \in DOMAIN file.rss : IsKey(file.rss[i].interval) /\ IsKey(file.rss[i].tier)
      /\ \A i \in DOMAIN file.rest : IsKey(file.rest[i].interval) /\ IsList(file.rest[i].symbols)
      /\ MaxSources \in Nat /\ MaxSymbols \in Nat
  BY FilesAssumption, CapsAssumption DEF ConfigInv, Source
<1>3. /\ Len(rss) <= MaxSources
      /\ \A i \in DOMAIN rss : i \in DOMAIN file.rss /\ rss[i] = parse_rss(file.rss[i])
  <2> DEFINE u == Upto(MaxSources, file.rss)
  <2>1. /\ Len(u) \in Nat /\ Len(u) <= MaxSources /\ DOMAIN u = 1..Len(u)
        /\ \A i \in DOMAIN u : i \in DOMAIN file.rss /\ u[i] = file.rss[i]
    BY <1>2, UptoIs
  <2> HIDE DEF u
  <2>2. Mapped(u, parse_rss) = [i \in 1..Len(u) |-> parse_rss(u[i])]
    BY <2>1 DEF Mapped
  <2>3. Len(Mapped(u, parse_rss)) = Len(u) /\ DOMAIN Mapped(u, parse_rss) = 1..Len(u)
    BY <2>1, <2>2, ListIs
  <2>4. \A i \in DOMAIN Mapped(u, parse_rss) :
          i \in DOMAIN file.rss /\ Mapped(u, parse_rss)[i] = parse_rss(file.rss[i])
    BY <2>1, <2>2
  <2> QED
    BY <2>1, <2>3, <2>4 DEF u
<1>4. /\ Len(rest) <= MaxSources
      /\ \A i \in DOMAIN rest : i \in DOMAIN file.rest /\ rest[i] = parse_rest(file.rest[i])
  <2> DEFINE u == Upto(MaxSources, file.rest)
  <2>1. /\ Len(u) \in Nat /\ Len(u) <= MaxSources /\ DOMAIN u = 1..Len(u)
        /\ \A i \in DOMAIN u : i \in DOMAIN file.rest /\ u[i] = file.rest[i]
    BY <1>2, UptoIs
  <2> HIDE DEF u
  <2>2. Mapped(u, parse_rest) = [i \in 1..Len(u) |-> parse_rest(u[i])]
    BY <2>1 DEF Mapped
  <2>3. Len(Mapped(u, parse_rest)) = Len(u) /\ DOMAIN Mapped(u, parse_rest) = 1..Len(u)
    BY <2>1, <2>2, ListIs
  <2>4. \A i \in DOMAIN Mapped(u, parse_rest) :
          i \in DOMAIN file.rest /\ Mapped(u, parse_rest)[i] = parse_rest(file.rest[i])
    BY <2>1, <2>2
  <2> QED
    BY <2>1, <2>3, <2>4 DEF u
<1>5. Len(ws) <= MaxSources
  <2> DEFINE u == Upto(MaxSources, file.ws)
  <2>1. Len(u) \in Nat /\ Len(u) <= MaxSources /\ DOMAIN u = 1..Len(u)
    BY <1>2, UptoIs
  <2> HIDE DEF u
  <2>2. Mapped(u, parse_ws) = [i \in 1..Len(u) |-> parse_ws(u[i])]
    BY <2>1 DEF Mapped
  <2>3. Len(Mapped(u, parse_ws)) = Len(u)
    BY <2>1, <2>2, ListIs
  <2> QED
    BY <2>1, <2>3 DEF u
<1>6. ASSUME NEW i \in DOMAIN rss
      PROVE  /\ Settled(rss[i].interval, file.rss[i].interval, cfg.refresh)
             /\ rss[i].tier \in 1..3
             /\ \A n \in 1..3 : file.rss[i].tier = <<n>> => rss[i].tier = n
  <2>1. /\ rss[i] = parse_rss(file.rss[i])
        /\ IsKey(file.rss[i].interval) /\ IsKey(file.rss[i].tier)
    BY <1>2, <1>3
  <2> HIDE DEF rss
  <2> DEFINE key == file.rss[i].tier
             tier == OptInt(key, 3)
  <2>2. /\ rss[i].interval = OptInt(file.rss[i].interval, cfg.refresh)
        /\ rss[i].tier = Bound(tier, 1, 3)
    BY <2>1 DEF parse_rss
  <2>3. tier \in Int /\ \A n \in 1..3 : key = <<n>> => tier = n
    <3>1. CASE key = <<>>
      BY <3>1 DEF OptInt
    <3>2. CASE key # <<>>
      <4>1. key[1] \in Int /\ tier = Narrow(key[1])
        BY <2>1, <3>2 DEF IsKey, OptInt
      <4>2. tier \in Int /\ (IsInt(key[1]) => tier = key[1])
        BY <4>1, NarrowIs
      <4>3. \A n \in 1..3 : IsInt(n)
        BY CapsAssumption DEF IsInt
      <4>4. \A n \in 1..3 : key = <<n>> => key[1] = n
        OBVIOUS
      <4> HIDE DEF key, tier
      <4> QED
        BY <4>2, <4>3, <4>4
    <3> QED
      BY <3>1, <3>2
  <2> HIDE DEF tier
  <2>4. Bound(tier, 1, 3) \in 1..3 /\ \A n \in 1..3 : tier = n => Bound(tier, 1, 3) = n
    BY <2>3 DEF Bound
  <2>5. Settled(rss[i].interval, file.rss[i].interval, cfg.refresh)
    BY <2>1, <2>2, SettledIs
  <2> QED
    BY <2>2, <2>3, <2>4, <2>5
<1>7. ASSUME NEW i \in DOMAIN rest
      PROVE  /\ Settled(rest[i].interval, file.rest[i].interval, cfg.refresh)
             /\ Len(rest[i].symbols) <= MaxSymbols
             /\ \A k \in DOMAIN rest[i].symbols : rest[i].symbols[k] # NoString
  <2>1. /\ rest[i] = parse_rest(file.rest[i])
        /\ IsKey(file.rest[i].interval) /\ IsList(file.rest[i].symbols)
    BY <1>2, <1>4
  <2> HIDE DEF rest
  <2> DEFINE all == Strings(file.rest[i].symbols)
  <2>2. /\ rest[i].interval = OptInt(file.rest[i].interval, cfg.refresh)
        /\ rest[i].symbols = Upto(MaxSymbols, all)
    <3> DEFINE t == file.rest[i]
               method == Opt(t.method, "GET")
    <3>1. parse_rest(t) = [interval |-> OptInt(t.interval, cfg.refresh), method |-> method,
                           symbols |-> Upto(MaxSymbols, Strings(t.symbols))]
      BY DEF parse_rest
    <3> HIDE DEF method
    <3> QED
      BY <2>1, <3>1
  <2>3. IsList(all) /\ \A k \in DOMAIN all : all[k] # NoString
    BY <2>1, StringsAre
  <2> HIDE DEF all
  <2>4. /\ Len(Upto(MaxSymbols, all)) <= MaxSymbols
        /\ \A k \in DOMAIN Upto(MaxSymbols, all) :
             k \in DOMAIN all /\ Upto(MaxSymbols, all)[k] = all[k]
    BY <1>2, <2>3, UptoIs
  <2>5. Settled(rest[i].interval, file.rest[i].interval, cfg.refresh)
    BY <2>1, <2>2, SettledIs
  <2> QED
    BY <1>2, <2>2, <2>3, <2>4, <2>5
<1> HIDE DEF rss, rest, ws
<1>8. cfg = Config(cfg)
  BY DEF ConfigInv
<1>9. /\ cfg'.tab_count = cfg.tab_count /\ cfg'.rss = rss /\ cfg'.rest = rest /\ cfg'.ws = ws
      /\ cfg'.refresh = cfg.refresh /\ cfg' = Config(cfg')
  BY <1>1, <1>8 DEF Config
<1>10. /\ file' = file /\ home' = home /\ port_override' = port_override /\ section' = "paths"
       /\ section = "source"
  BY DEF Source
<1>11. Loaded' = Loaded
  BY <1>10 DEF Loaded
<1>12. RssRead' /\ RestRead' /\ WsRead'
  BY <1>3, <1>4, <1>5, <1>6, <1>7, <1>9, <1>10 DEF RssRead, RestRead, WsRead, Settled
<1>13. /\ file \in Files /\ Loaded /\ cfg.tab_count <= MaxTabs /\ TabsRight
       /\ Settled(cfg.refresh, file.refresh, 30)
  BY <1>10 DEF ConfigInv
<1>14. TabsRight' /\ Settled(cfg.refresh, file.refresh, 30)'
  BY <1>9, <1>10, <1>13 DEF TabsRight, Settled
<1> QED
  BY <1>9, <1>10, <1>11, <1>12, <1>13, <1>14 DEF ConfigInv

LEMMA PathsStep == ASSUME ConfigInv, Paths PROVE ConfigInv'
<1> DEFINE d == expand_tilde(cfg.db_path)
<1>1. cfg' = [cfg EXCEPT !.db_path = d]
  BY DEF Paths
<1>2. home => d # "~/db"
  BY DEF expand_tilde
<1> HIDE DEF d
<1>3. cfg = Config(cfg)
  BY DEF ConfigInv
<1>4. /\ cfg'.db_path = d /\ cfg'.tab_count = cfg.tab_count /\ cfg'.rss = cfg.rss
      /\ cfg'.rest = cfg.rest /\ cfg'.ws = cfg.ws /\ cfg'.refresh = cfg.refresh
      /\ cfg' = Config(cfg')
  BY <1>1, <1>3 DEF Config
<1>5. /\ file' = file /\ home' = home /\ section = "paths" /\ section' = "options"
      /\ file \in Files /\ Loaded /\ cfg.tab_count <= MaxTabs
      /\ RssRead /\ RestRead /\ WsRead /\ TabsRight /\ Settled(cfg.refresh, file.refresh, 30)
  BY DEF ConfigInv, Paths
<1>6. RssRead' /\ RestRead' /\ WsRead' /\ TabsRight' /\ Settled(cfg.refresh, file.refresh, 30)'
  BY <1>4, <1>5 DEF RssRead, RestRead, WsRead, TabsRight, Settled
<1> QED
  BY <1>2, <1>4, <1>5, <1>6 DEF ConfigInv, Loaded

LEMMA OptionsStep == ASSUME ConfigInv, Options PROVE ConfigInv'
<1> DEFINE h == IF port_override > 0 THEN port_override ELSE cfg.http_port
<1>1. cfg' = [cfg EXCEPT !.http_port = h]
  BY DEF Options
<1>2. port_override > 0 => h = port_override
  OBVIOUS
<1> HIDE DEF h
<1>3. cfg = Config(cfg)
  BY DEF ConfigInv
<1>4. /\ cfg'.db_path = cfg.db_path /\ cfg'.tab_count = cfg.tab_count /\ cfg'.rss = cfg.rss
      /\ cfg'.rest = cfg.rest /\ cfg'.ws = cfg.ws /\ cfg' = Config(cfg') /\ cfg'.http_port = h
      /\ cfg'.refresh = cfg.refresh
  BY <1>1, <1>3 DEF Config
<1>5. OnlyPort => OnlyPort'
  BY <1>1 DEF OnlyPort, mc_config_defaults
<1>6. /\ file' = file /\ home' = home /\ port_override' = port_override
      /\ section = "options" /\ section' = "done"
      /\ file \in Files /\ cfg.tab_count <= MaxTabs /\ RssRead /\ RestRead /\ WsRead
      /\ Loaded => TabsRight /\ Settled(cfg.refresh, file.refresh, 30)
      /\ ~Loaded => OnlyPort
      /\ Loaded /\ home => cfg.db_path # "~/db"
  BY DEF ConfigInv, Options
<1>7. /\ RssRead' /\ RestRead' /\ WsRead' /\ Loaded' = Loaded
      /\ Loaded => TabsRight' /\ Settled(cfg.refresh, file.refresh, 30)'
  BY <1>4, <1>6 DEF RssRead, RestRead, WsRead, TabsRight, Settled, Loaded
<1> QED
  BY <1>2, <1>4, <1>5, <1>6, <1>7 DEF ConfigInv

(* The configuration that main goes on with is right (ConfigRight), for    *)
(* any file, lists of any length and an int of any width.                  *)
THEOREM ConfigRead == ConfigSpec => []ConfigRight
<1>1. ConfigInv /\ [ConfigNext]_configVars => ConfigInv'
  <2> SUFFICES ASSUME ConfigInv, [ConfigNext]_configVars PROVE ConfigInv'
    OBVIOUS
  <2>1. CASE UNCHANGED configVars
    <3>1. UNCHANGED <<file, cfg, section, home, port_override>>
      BY <2>1 DEF configVars
    <3>2. Config(cfg)' = Config(cfg)
      BY <3>1 DEF Config
    <3> QED
      BY <3>1, <3>2, SameConfig DEF ConfigInv
  <2> QED
    BY <2>1, OpenStep, GeneralStep, UiStep, SourceStep, PathsStep, OptionsStep DEF ConfigNext
<1>2. ConfigInv => ConfigRight
  <2> SUFFICES ASSUME ConfigInv, section = "done" PROVE ConfigRight
    BY DEF ConfigRight
  <2>1. OnlyPort => [cfg EXCEPT !.http_port = 8420] = mc_config_defaults
    BY DEF OnlyPort, mc_config_defaults
  <2> QED
    BY <2>1 DEF ConfigInv, ConfigRight, RssRead, RestRead, WsRead, Loaded
<1> QED
  BY <1>1, <1>2, ConfigStart, PTL DEF ConfigSpec

=============================================================================
