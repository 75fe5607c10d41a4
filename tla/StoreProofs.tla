----------------------------- MODULE StoreProofs -----------------------------
(***************************************************************************)
(* Proofs about Store, for any prices, stories, sources, batches, old      *)
(* files and bounds: the safety properties, that no client sees a price go *)
(* back in time, and that the tables implement the board.  The inductive   *)
(* invariant is IndInv; each action has a lemma that it preserves it.      *)
(***************************************************************************)
EXTENDS Store, TLAPS

Job == [item : Items, ed : Editions, region : Range(Region) \cup {NoRegion}, at : 0..MaxTime]
Delivery == [job : Job, refused : BOOLEAN]

(* What TypeOK leaves open of the data under way.                          *)
DataInv ==
  /\ todo \in [Sources -> Seq(Job)]
  /\ carried \in [Sources -> SUBSET Delivery] /\ told \in [Sources -> SUBSET Delivery]

(* The statements the migration has come past have left their mark, but    *)
(* for an ALTER TABLE that failed.                                         *)
SchemaInv ==
  \A j \in 1..Len(Migration) :
    j < step /\ (j <= 3 \/ ~faulty) => Migration[j] \in schema

(* What a fetch carries is stored, still to be stored, or was refused.     *)
CarriedInv ==
  \A s \in Sources : \A c \in carried[s] :
    c.refused \/ Stored(c.job) \/ \E j \in DOMAIN todo[s] : todo[s][j] = c.job

(* A prune has computed its cutoff from a clock that has not gone back.    *)
CutoffInv ==
  /\ cutoff # None => cutoff \in 0..(now - MaxAge)
  /\ pruning => cutoff # None

(* A price that has rows has a newest one.                                 *)
LatestInv == \A k \in Keys : (\E r \in rows : r.key = k) => Latest(k) # {}

(* The row that was served last is there, or a newer one; or it has been   *)
(* pruned, and is older than anything still to be stored.                  *)
ShownInv ==
  \A k \in Keys :
    \/ shown[k] = None
    \/ \E r \in rows : r.key = k /\ r.at >= shown[k]
    \/ shown[k] < now - MaxAge /\ \A r \in rows : r.key # k

IndInv ==
  /\ TypeOK /\ DataInv /\ SchemaInv /\ CarriedInv /\ OnlyRefusedMissing
  /\ CutoffInv /\ LatestInv /\ ShownInv

-----------------------------------------------------------------------------
(* Facts about the data.                                                   *)

LEMMA MigrationFacts ==
  /\ Len(Migration) = 6
  /\ Migration[1] = "data_entries" /\ Migration[2] = "news_items"
  /\ Migration[3] = "source_status" /\ Migration[4] = "base_score"
  /\ Migration[5] = "region" /\ Migration[6] = "country"
  /\ Whole = {Migration[j] : j \in 1..6}
  BY DEF Migration, Whole, Tables, Columns

(* What a fetch carries is of the moment's editions.                       *)
LEMMA BatchesTyped ==
  ASSUME TypeOK, NEW s \in Sources
  PROVE  /\ \A i \in Items : Item(s, i) \in Job /\ Item(s, i).item = i
         /\ Range(Delivers[s]) \subseteq Items
  <1>1. Range(Delivers[s]) \subseteq Items
    BY SourcesAssumption DEF Range
  <1>2. edition \in [Items -> Editions] /\ now \in 0..MaxTime
    BY DEF TypeOK
  <1>3. Region[s] \in Range(Region)
    BY SourcesAssumption DEF Range
  <1>4. \A i \in Items : Item(s, i) \in Job /\ Item(s, i).item = i
    BY <1>2, <1>3 DEF Item, Job
  <1>5. QED
    BY <1>1, <1>4

(* The first job of a batch, and those that are left when it is taken.     *)
LEMMA NextJob ==
  ASSUME TypeOK, DataInv, NEW s \in Sources, todo[s] # <<>>
  PROVE  /\ Head(todo[s]) \in Job
         /\ Head(todo[s]).at <= now /\ now - Head(todo[s]).at <= MaxDelay
         /\ Tail(todo[s]) \in Seq(Job) /\ Range(Tail(todo[s])) \subseteq Range(todo[s])
         /\ \A j \in DOMAIN todo[s] :
              todo[s][j] = Head(todo[s]) \/ \E i \in DOMAIN Tail(todo[s]) : Tail(todo[s])[i] = todo[s][j]
  <1>1. todo[s] \in Seq(Job) /\ Len(todo[s]) > 0
    BY DEF DataInv
  <1>2. Head(todo[s]) = todo[s][1] /\ Head(todo[s]) \in Job /\ Head(todo[s]) \in Range(todo[s])
    BY <1>1 DEF Range
  <1>3. Tail(todo[s]) \in Seq(Job) /\ Range(Tail(todo[s])) \subseteq Range(todo[s])
    BY <1>1 DEF Range
  <1>4. ASSUME NEW j \in DOMAIN todo[s], j # 1
        PROVE  j - 1 \in DOMAIN Tail(todo[s]) /\ Tail(todo[s])[j - 1] = todo[s][j]
    BY <1>1, <1>4
  <1>5. QED
    BY <1>2, <1>3, <1>4 DEF TypeOK

(* An upsert leaves the story stored, and with fields of their types.      *)
LEMMA UpsertedTyped ==
  ASSUME TypeOK, NEW x \in Job, x.item \in Urls
  PROVE  Upserted(x) \in [Urls -> [text : Editions \cup {0}, region : Range(Region) \cup {NoRegion},
                                   at : (0..MaxTime) \cup {None}]]
  BY DEF TypeOK, Job, Upserted

LEMMA UpsertedStored ==
  ASSUME TypeOK, NEW x \in Job, x.item \in Urls
  PROVE  /\ Upserted(x)[x.item] # Unknown
         /\ x.region # NoRegion => Upserted(x)[x.item].region # NoRegion
         /\ \A u \in Urls : /\ stories[u] # Unknown => Upserted(x)[u] # Unknown
                            /\ stories[u].region # NoRegion => Upserted(x)[u].region # NoRegion
  <1>1. x.at \in 0..MaxTime
    BY DEF Job
  <1>2. stories[x.item] # Unknown => Upserted(x)[x.item] # Unknown
    BY DEF TypeOK, Upserted, Unknown
  <1>3. stories[x.item] = Unknown => Upserted(x)[x.item].at = x.at
    BY DEF TypeOK, Upserted
  <1>4. \A u \in Urls \ {x.item} : Upserted(x)[u] = stories[u]
    BY DEF TypeOK, Upserted
  <1>5. Upserted(x)[x.item] # Unknown
    BY <1>1, <1>2, <1>3, TimesAssumption DEF Unknown, None
  <1>6. /\ x.region # NoRegion => Upserted(x)[x.item].region # NoRegion
        /\ stories[x.item].region # NoRegion => Upserted(x)[x.item].region # NoRegion
    BY DEF TypeOK, Upserted, Unknown
  <1>7. QED
    BY <1>4, <1>5, <1>6

(* No step of the fetching threads loses what is stored.                   *)
LEMMA StoredStays ==
  ASSUME IndInv, NEW s \in Sources, Store(s), NEW x \in Job, Stored(x)
  PROVE  Stored(x)'
  <1> DEFINE h == Head(todo[s])
  <1>1. \A r \in rows : r \in rows'
    BY DEF Store, InsertEntry, InsertNews, InsertFails
  <1>2. CASE stories' = stories
    BY <1>1, <1>2 DEF Stored
  <1>3. CASE h.item \in Urls /\ stories' = Upserted(h)
    <2>1. h \in Job
      BY NextJob DEF IndInv, Store
    <2>2. \A u \in Urls : stories[u] # Unknown => Upserted(h)[u] # Unknown
      BY <2>1, <1>3, UpsertedStored DEF IndInv
    <2>3. \A u \in Urls : stories[u].region # NoRegion => Upserted(h)[u].region # NoRegion
      BY <2>1, <1>3, UpsertedStored DEF IndInv
    <2> HIDE DEF h
    <2>4. QED
      BY <2>2, <2>3, <1>1, <1>3 DEF Stored
  <1>4. QED
    BY <1>2, <1>3 DEF Store, InsertEntry, InsertNews, InsertFails

(* The item that is stored is in the tables after it, or marked as refused;*)
(* nothing else changes of what the fetches carry.                         *)
LEMMA StoreMarks ==
  ASSUME IndInv, NEW s \in Sources, Store(s), NEW v \in Sources, NEW d \in carried'[v]
  PROVE  \E c \in carried[v] :
           /\ d.job = c.job /\ (c.refused => d.refused) /\ d \in Delivery
           /\ v = s /\ c.job = Head(todo[s]) => d.refused \/ Stored(c.job)'
  <1>1. PICK x \in Job : x = Head(todo[s])
    BY NextJob DEF IndInv, Store
  <1>2. carried \in [Sources -> SUBSET Delivery]
    BY DEF IndInv, DataInv
  <1>3. CASE carried' = carried /\ (InsertEntry(s, x) \/ (InsertNews(s, x) /\ stories' = Upserted(x)))
    <2>1. Stored(x)'
      <3>1. CASE InsertEntry(s, x)
        BY <3>1, SourcesAssumption DEF InsertEntry, Stored
      <3>2. CASE InsertNews(s, x) /\ stories' = Upserted(x)
        <4>1. Upserted(x)[x.item] # Unknown
          BY <1>1, <3>2, UpsertedStored DEF IndInv, InsertNews
        <4>2. x.region # NoRegion => Upserted(x)[x.item].region # NoRegion
          BY <1>1, <3>2, UpsertedStored DEF IndInv, InsertNews
        <4>3. x.item \in Urls /\ x.item \notin Keys
          BY <3>2, SourcesAssumption DEF InsertNews
        <4>4. QED
          BY <4>1, <4>2, <4>3, <3>2 DEF Stored
      <3>3. QED
        BY <1>3, <3>1, <3>2
    <2>2. QED
      BY <1>1, <1>2, <1>3, <2>1
  <1>4. CASE carried' = Refused(s, x)
    <2>1. CASE v = s
      <3>1. PICK c \in carried[s] : d = [c EXCEPT !.refused = @ \/ c.job = x]
        BY <1>2, <1>4, <2>1 DEF Refused
      <3>2. c \in Delivery
        BY <1>2
      <3>3. d.job = c.job /\ d.refused = (c.refused \/ c.job = x) /\ d \in Delivery
        BY <3>1, <3>2 DEF Delivery
      <3>4. QED
        BY <1>1, <3>3, <2>1
    <2>2. CASE v # s
      BY <1>2, <1>4, <2>2 DEF Refused
    <2>3. QED
      BY <2>1, <2>2
  <1>5. QED
    BY <1>1, <1>3, <1>4 DEF Store, InsertEntry, InsertNews, InsertFails

(* What holds of the tables and the batches as long as nobody writes them. *)
LEMMA TablesFrame ==
  ASSUME IndInv, UNCHANGED <<rows, stories, todo, carried, told>>
  PROVE  DataInv' /\ CarriedInv' /\ OnlyRefusedMissing' /\ LatestInv'
  <1>1. DataInv' /\ LatestInv'
    BY DEF IndInv, DataInv, LatestInv, Latest, Newest
  <1>2. \A x : Stored(x)' <=> Stored(x)
    BY DEF Stored
  <1>3. QED
    BY <1>1, <1>2 DEF IndInv, CarriedInv, OnlyRefusedMissing

(* The new row is the newest of its price, or there is one already.        *)
LEMMA EntryRanked ==
  ASSUME IndInv, NEW s \in Sources, NEW x \in Job, InsertEntry(s, x)
  PROVE  LatestInv'
  <1> DEFINE n == [key |-> x.item, value |-> x.ed, at |-> x.at]
  <1>1. SUFFICES ASSUME NEW k \in Keys, \E r \in rows' : r.key = k
                 PROVE  Latest(k)' # {}
    BY DEF LatestInv
  <1>2. rows' = rows \cup {n} /\ n.at \in Int /\ \A r \in rows : r.at \in Int
    BY DEF InsertEntry, Job, IndInv, TypeOK, Row
  <1>3. CASE \E r \in rows : r.key = k
    <2>1. PICK m \in rows : m.key = k /\ \A q \in rows : q.key = k => q.at <= m.at
      BY <1>3 DEF IndInv, LatestInv, Latest, Newest
    <2>2. m.at \in Int /\ m.at <= m.at /\ n.at <= n.at
      BY <2>1, <1>2
    <2>3. CASE x.item = k /\ n.at > m.at
      <3>1. \A q \in rows' : q.key = k => q.at <= n.at
        BY <1>2, <2>1, <2>2, <2>3
      <3>2. QED
        BY <3>1, <1>2, <2>3 DEF Latest, Newest
    <2>4. CASE ~(x.item = k /\ n.at > m.at)
      <3>1. \A q \in rows' : q.key = k => q.at <= m.at
        BY <1>2, <2>1, <2>2, <2>4
      <3>2. QED
        BY <3>1, <1>2, <2>1 DEF Latest, Newest
    <2>5. QED
      BY <2>3, <2>4
  <1>4. CASE \A r \in rows : r.key # k
    <2>1. n.key = k /\ n.at <= n.at
      BY <1>1, <1>2, <1>4
    <2>2. \A q \in rows' : q.key = k => q = n
      BY <1>2, <1>4
    <2>3. QED
      BY <2>1, <2>2, <1>2 DEF Latest, Newest
  <1>5. QED
    BY <1>3, <1>4

-----------------------------------------------------------------------------
(* Start and end of a daemon.                                             *)

LEMMA OpenFileStep ==
  ASSUME IndInv, OpenFile
  PROVE  IndInv'
  <1>1. TypeOK'
    <2>1. step' \in 0..(Len(Migration) + 1)
      BY MigrationFacts DEF OpenFile
    <2>2. faulty' \in BOOLEAN
      BY Zenon DEF OpenFile
    <2>3. QED
      BY <2>1, <2>2 DEF IndInv, TypeOK, OpenFile, worldVars, fetchVars, pruneVars
  <1>2. SchemaInv'
    BY MigrationFacts DEF IndInv, TypeOK, SchemaInv, OpenFile, worldVars, fetchVars, pruneVars
  <1>3. DataInv' /\ CarriedInv' /\ OnlyRefusedMissing' /\ CutoffInv' /\ LatestInv' /\ ShownInv'
    <2>1. DataInv' /\ CarriedInv' /\ OnlyRefusedMissing' /\ LatestInv'
      BY TablesFrame DEF OpenFile, fetchVars
    <2>2. CutoffInv' /\ ShownInv'
      BY DEF IndInv, CutoffInv, ShownInv, OpenFile, worldVars, fetchVars, pruneVars
    <2>3. QED
      BY <2>1, <2>2
  <1>4. QED
    BY <1>1, <1>2, <1>3 DEF IndInv

LEMMA CreateStep ==
  ASSUME IndInv, Create
  PROVE  IndInv'
  <1>1. TypeOK'
    <2>1. schema' \subseteq Whole
      BY MigrationFacts DEF IndInv, TypeOK, Created, Create, Whole
    <2>2. step' \in 0..(Len(Migration) + 1)
      BY MigrationFacts DEF IndInv, TypeOK, Create
    <2>3. QED
      BY <2>1, <2>2 DEF IndInv, TypeOK, Create, worldVars, fetchVars, pruneVars
  <1>2. SchemaInv'
    BY MigrationFacts DEF IndInv, TypeOK, SchemaInv, Created, Create, worldVars, fetchVars, pruneVars
  <1>3. DataInv' /\ CarriedInv' /\ OnlyRefusedMissing' /\ CutoffInv' /\ LatestInv' /\ ShownInv'
    <2>1. DataInv' /\ CarriedInv' /\ OnlyRefusedMissing' /\ LatestInv'
      BY TablesFrame DEF Create, fetchVars
    <2>2. CutoffInv' /\ ShownInv'
      BY DEF IndInv, CutoffInv, ShownInv, Create, worldVars, fetchVars, pruneVars
    <2>3. QED
      BY <2>1, <2>2
  <1>4. QED
    BY <1>1, <1>2, <1>3 DEF IndInv

LEMMA CreateFailsStep ==
  ASSUME IndInv, CreateFails
  PROVE  IndInv'
  <1>1. TypeOK'
    BY MigrationFacts DEF IndInv, TypeOK, CreateFails, Spend, worldVars, fetchVars, pruneVars
  <1>2. SchemaInv'
    BY MigrationFacts DEF IndInv, TypeOK, SchemaInv, CreateFails, Spend, worldVars, fetchVars, pruneVars
  <1>3. DataInv' /\ CarriedInv' /\ OnlyRefusedMissing' /\ CutoffInv' /\ LatestInv' /\ ShownInv'
    <2>1. DataInv' /\ CarriedInv' /\ OnlyRefusedMissing' /\ LatestInv'
      BY TablesFrame DEF CreateFails, Spend, fetchVars
    <2>2. CutoffInv' /\ ShownInv'
      BY DEF IndInv, CutoffInv, ShownInv, CreateFails, Spend, worldVars, fetchVars, pruneVars
    <2>3. QED
      BY <2>1, <2>2
  <1>4. QED
    BY <1>1, <1>2, <1>3 DEF IndInv

LEMMA AlterStep ==
  ASSUME IndInv, Alter
  PROVE  IndInv'
  <1>1. TypeOK'
    <2>1. schema' \subseteq Whole
      BY MigrationFacts DEF IndInv, TypeOK, Created, Alter, Whole
    <2>2. step' \in 0..(Len(Migration) + 1)
      BY MigrationFacts DEF IndInv, TypeOK, Alter
    <2>3. QED
      BY <2>1, <2>2 DEF IndInv, TypeOK, Alter, worldVars, fetchVars, pruneVars
  <1>2. SchemaInv'
    BY MigrationFacts DEF IndInv, TypeOK, SchemaInv, Alter, worldVars, fetchVars, pruneVars
  <1>3. DataInv' /\ CarriedInv' /\ OnlyRefusedMissing' /\ CutoffInv' /\ LatestInv' /\ ShownInv'
    <2>1. DataInv' /\ CarriedInv' /\ OnlyRefusedMissing' /\ LatestInv'
      BY TablesFrame DEF Alter, fetchVars
    <2>2. CutoffInv' /\ ShownInv'
      BY DEF IndInv, CutoffInv, ShownInv, Alter, worldVars, fetchVars, pruneVars
    <2>3. QED
      BY <2>1, <2>2
  <1>4. QED
    BY <1>1, <1>2, <1>3 DEF IndInv

LEMMA AlterFailsStep ==
  ASSUME IndInv, AlterFails
  PROVE  IndInv'
  <1>1. TypeOK'
    BY MigrationFacts DEF IndInv, TypeOK, AlterFails, Spend, worldVars, fetchVars, pruneVars
  <1>2. SchemaInv'
    BY MigrationFacts DEF IndInv, TypeOK, SchemaInv, AlterFails, Spend, worldVars, fetchVars, pruneVars
  <1>3. DataInv' /\ CarriedInv' /\ OnlyRefusedMissing' /\ CutoffInv' /\ LatestInv' /\ ShownInv'
    <2>1. UNCHANGED <<worldVars, rows, stories, pruneVars, fetchVars, shown>>
      BY DEF AlterFails
    <2>2. DataInv' /\ CarriedInv' /\ OnlyRefusedMissing' /\ LatestInv'
      BY <2>1, TablesFrame DEF fetchVars
    <2>3. CutoffInv' /\ ShownInv'
      BY <2>1 DEF IndInv, CutoffInv, ShownInv, worldVars, pruneVars
    <2>4. QED
      BY <2>2, <2>3
  <1>4. QED
    BY <1>1, <1>2, <1>3 DEF IndInv

LEMMA CrashStep ==
  ASSUME IndInv, Crash
  PROVE  IndInv'
  <1>1. TypeOK'
    <2>1. step' \in 0..(Len(Migration) + 1) /\ cutoff' = None /\ pruning' = FALSE
      BY MigrationFacts DEF Crash
    <2>2. busy' \in [Sources -> BOOLEAN] /\ \A s \in Sources : todo'[s] = <<>> /\ carried'[s] = {}
      BY DEF Crash
    <2>3. \A s \in Sources : Range(todo'[s]) = {}
      BY <2>2 DEF Range
    <2>4. QED
      BY <2>1, <2>2, <2>3 DEF IndInv, TypeOK, Crash, Spend, worldVars
  <1>2. DataInv'
    BY DEF IndInv, DataInv, Crash, Spend, worldVars
  <1>3. SchemaInv'
    BY MigrationFacts DEF IndInv, TypeOK, SchemaInv, Crash, Spend, worldVars
  <1>4. CarriedInv'
    BY DEF IndInv, CarriedInv, Crash, Spend, worldVars
  <1>5. CutoffInv'
    BY DEF IndInv, TypeOK, CutoffInv, Crash, Spend, worldVars
  <1>6. OnlyRefusedMissing' /\ LatestInv' /\ ShownInv'
    BY DEF IndInv, OnlyRefusedMissing, Stored, LatestInv, Latest, Newest, ShownInv, Crash,
           Spend, worldVars
  <1>7. QED
    BY <1>1, <1>2, <1>3, <1>4, <1>5, <1>6 DEF IndInv

-----------------------------------------------------------------------------
(* A fetch and its inserts.                                                *)

LEMMA FetchStep ==
  ASSUME IndInv, NEW s \in Sources, Fetch(s)
  PROVE  IndInv'
  <1> DEFINE batch == [j \in DOMAIN Delivers[s] |-> Item(s, Delivers[s][j])]
             load == {[job |-> Item(s, i), refused |-> FALSE] : i \in Range(Delivers[s])}
  <1>1. todo' = [todo EXCEPT ![s] = batch] /\ carried' = [carried EXCEPT ![s] = load]
    BY DEF Fetch
  <1>2. /\ Delivers[s] \in Seq(Items)
        /\ \A i \in Range(Delivers[s]) : Item(s, i) \in Job /\ Item(s, i).item = i /\ Item(s, i).at = now
    BY BatchesTyped, SourcesAssumption DEF IndInv, Item
  <1>3. batch \in Seq(Job) /\ \A x \in Range(batch) : x.at = now
    BY <1>2 DEF Range
  <1>4. \A c \in load : /\ c \in Delivery /\ c.job.item \in Range(Delivers[s])
                         /\ \E j \in DOMAIN batch : batch[j] = c.job
    <2>1. ASSUME NEW i \in Range(Delivers[s])
          PROVE  \E j \in DOMAIN batch : batch[j] = Item(s, i)
      BY DEF Range
    <2>2. ASSUME NEW i \in Range(Delivers[s]), NEW c, c = [job |-> Item(s, i), refused |-> FALSE]
          PROVE  c \in Delivery /\ c.job = Item(s, i) /\ c.job.item = i
      <3>1. Item(s, i) \in Job /\ Item(s, i).item = i
        BY <1>2, BatchesTyped DEF IndInv
      <3>2. QED
        BY <2>2, <3>1 DEF Delivery
    <2> HIDE DEF batch
    <2>3. QED
      BY <2>1, <2>2
  <1> HIDE DEF batch, load
  <1>5. /\ todo'[s] = batch /\ carried'[s] = load
        /\ \A v \in Sources \ {s} : todo'[v] = todo[v] /\ carried'[v] = carried[v]
    BY <1>1 DEF IndInv, DataInv
  <1>6. TypeOK'
    <2>1. now \in Int /\ now - now <= MaxDelay
      BY TimesAssumption DEF IndInv, TypeOK
    <2>2. \A v \in Sources : \A x \in Range(todo'[v]) : x.at <= now /\ now - x.at <= MaxDelay
      BY <1>3, <1>5, <2>1 DEF IndInv, TypeOK
    <2>3. \A v \in Sources : \A c \in carried'[v] \cup told[v] : c.job.item \in Range(Delivers[v])
      BY <1>4, <1>5 DEF IndInv, TypeOK
    <2>4. busy' \in [Sources -> BOOLEAN]
      BY DEF IndInv, TypeOK, Fetch
    <2>5. QED
      BY <2>2, <2>3, <2>4 DEF IndInv, TypeOK, Fetch, Spend, fileVars, worldVars, pruneVars
  <1>7. DataInv'
    <2>1. todo' \in [Sources -> Seq(Job)]
      BY <1>1, <1>3 DEF IndInv, DataInv
    <2>2. carried' \in [Sources -> SUBSET Delivery]
      <3>1. load \in SUBSET Delivery
        BY <1>4
      <3>2. QED
        BY <1>1, <3>1 DEF IndInv, DataInv
    <2>3. QED
      BY <2>1, <2>2 DEF IndInv, DataInv, Fetch
  <1>8. CarriedInv'
    <2>1. \A x : Stored(x)' <=> Stored(x)
      BY DEF Fetch, Stored
    <2>2. QED
      <3>1. ASSUME NEW v \in Sources, NEW c \in carried'[v]
            PROVE  c.refused \/ Stored(c.job)' \/ \E j \in DOMAIN todo'[v] : todo'[v][j] = c.job
        <4>1. CASE v = s
          BY <1>4, <1>5, <4>1
        <4>2. CASE v # s
          BY <1>5, <2>1, <4>2 DEF IndInv, CarriedInv
        <4>3. QED
          BY <4>1, <4>2
      <3>2. QED
        BY <3>1 DEF CarriedInv
  <1>9. OnlyRefusedMissing'
    BY DEF IndInv, OnlyRefusedMissing, Stored, Fetch
  <1>10. SchemaInv' /\ CutoffInv' /\ LatestInv' /\ ShownInv'
    BY DEF IndInv, SchemaInv, CutoffInv, LatestInv, Latest, Newest, ShownInv, Fetch, Spend,
           fileVars, worldVars, pruneVars
  <1>11. QED
    BY <1>6, <1>7, <1>8, <1>9, <1>10 DEF IndInv

LEMMA StoreStep ==
  ASSUME IndInv, NEW s \in Sources, Store(s)
  PROVE  IndInv'
  <1>1. TypeOK'
    <2> DEFINE x == Head(todo[s])
    <2>1. x \in Job /\ todo' = [todo EXCEPT ![s] = Tail(todo[s])]
      BY NextJob DEF IndInv, Store
    <2>2. rows' \subseteq Row
      BY <2>1
        DEF IndInv, TypeOK, Row, Job, Store, InsertEntry, InsertNews, InsertFails, fileVars,
            worldVars
    <2>3. stories' \in [Urls -> [text : Editions \cup {0}, region : Range(Region) \cup {NoRegion},
                                at : (0..MaxTime) \cup {None}]]
      <3>1. CASE stories' = stories
        BY <3>1 DEF IndInv, TypeOK
      <3>2. CASE x.item \in Urls /\ stories' = Upserted(x)
        BY <3>2, UpsertedTyped, <2>1 DEF IndInv
      <3>3. QED
        BY <3>1, <3>2 DEF Store, InsertEntry, InsertNews, InsertFails, fileVars, worldVars
    <2>4. \A v \in Sources : \A d \in carried'[v] : d.job.item \in Range(Delivers[v])
      BY StoreMarks DEF IndInv, TypeOK
    <2>5. \A v \in Sources : Range(todo'[v]) \subseteq Range(todo[v])
      BY <2>1, NextJob DEF IndInv, DataInv, Store
    <2>6. UNCHANGED <<fileVars, worldVars, pruneVars, busy, told, shown>>
      BY DEF Store
    <2>7. QED
      BY <2>2, <2>3, <2>4, <2>5, <2>6 DEF IndInv, TypeOK, fileVars, worldVars, pruneVars
  <1>2. DataInv'
    <2>1. todo' \in [Sources -> Seq(Job)]
      BY NextJob DEF IndInv, DataInv, Store
    <2>2. carried' \in [Sources -> SUBSET Delivery]
      <3>1. \A v \in Sources : carried'[v] \subseteq Delivery
        BY StoreMarks
      <3>2. carried' = carried \/ carried' = Refused(s, Head(todo[s]))
        BY DEF Store, InsertEntry, InsertNews, InsertFails
      <3>3. DOMAIN carried' = Sources /\ carried' = [v \in Sources |-> carried'[v]]
        BY <3>2 DEF Refused, IndInv, DataInv
      <3>4. QED
        BY <3>1, <3>3
    <2>3. QED
      BY <2>1, <2>2 DEF IndInv, DataInv, Store
  <1>3. CarriedInv'
    <2> DEFINE x == Head(todo[s])
    <2> SUFFICES ASSUME NEW v \in Sources, NEW d \in carried'[v]
                 PROVE  \/ d.refused \/ Stored(d.job)'
                        \/ \E j \in DOMAIN todo'[v] : todo'[v][j] = d.job
      BY DEF CarriedInv
    <2>1. PICK c \in carried[v] : /\ d.job = c.job /\ (c.refused => d.refused)
                                  /\ v = s /\ c.job = x => d.refused \/ Stored(c.job)'
      BY StoreMarks
    <2>2. c.job \in Job
      BY DEF IndInv, DataInv, Delivery
    <2>3. c.refused \/ Stored(c.job) \/ \E j \in DOMAIN todo[v] : todo[v][j] = c.job
      BY DEF IndInv, CarriedInv
    <2>4. CASE v = s /\ c.job = x
      BY <2>1, <2>4
    <2>5. ASSUME ~(v = s /\ c.job = x), NEW j \in DOMAIN todo[v], todo[v][j] = c.job
          PROVE  \E i \in DOMAIN todo'[v] : todo'[v][i] = d.job
      <3>1. todo' = [todo EXCEPT ![s] = Tail(todo[s])]
        BY DEF Store
      <3>2. CASE v = s
        <4>1. todo'[v] = Tail(todo[s]) /\ todo[s] # <<>> /\ todo[s][j] # x
          BY <3>1, <3>2, <2>5 DEF IndInv, DataInv, Store
        <4>2. QED
          BY <4>1, <2>1, <2>5, <3>2, NextJob DEF IndInv
      <3>3. CASE v # s
        BY <3>1, <3>3, <2>1, <2>5 DEF IndInv, DataInv
      <3>4. QED
        BY <3>2, <3>3
    <2>6. Stored(c.job) => Stored(c.job)'
      BY <2>2, StoredStays
    <2>7. Stored(d.job)' <=> Stored(c.job)'
      BY <2>1
    <2>8. QED
      BY <2>1, <2>3, <2>4, <2>5, <2>6, <2>7
  <1>4. OnlyRefusedMissing'
    <2>1. \A v \in Sources : \A c \in told[v] : c.job \in Job /\ (c.refused \/ Stored(c.job))
      BY DEF IndInv, DataInv, Delivery, OnlyRefusedMissing
    <2>2. \A v \in Sources : \A c \in told[v] : c.refused \/ Stored(c.job)'
      BY <2>1, StoredStays
    <2>3. told' = told
      BY DEF Store
    <2>4. QED
      BY <2>2, <2>3 DEF OnlyRefusedMissing
  <1>5. LatestInv'
    <2>1. CASE rows' = rows
      BY <2>1 DEF IndInv, LatestInv, Latest, Newest
    <2>2. CASE InsertEntry(s, Head(todo[s]))
      BY <2>2, EntryRanked, NextJob DEF IndInv, Store
    <2>3. QED
      BY <2>1, <2>2 DEF Store, InsertEntry, InsertNews, InsertFails, fileVars, worldVars
  <1>6. ShownInv'
    <2>1. CASE rows' = rows
      BY <2>1 DEF IndInv, ShownInv, Store, worldVars
    <2>2. CASE InsertEntry(s, Head(todo[s]))
      <3> DEFINE x == Head(todo[s])
      <3>1. x \in Job /\ now - x.at <= MaxDelay
        BY NextJob DEF IndInv, Store
      <3>2. shown' = shown /\ now' = now /\ now \in Int /\ x.at \in Int
        BY <3>1 DEF Store, worldVars, IndInv, TypeOK, Job
      <3>3. now - MaxAge <= x.at
        BY <3>1, <3>2, TimesAssumption
      <3>4. rows' = rows \cup {[key |-> x.item, value |-> x.ed, at |-> x.at]}
        BY <2>2 DEF InsertEntry
      <3>5. \A k \in Keys : shown[k] \in Int
        BY DEF IndInv, TypeOK, None
      <3>6. QED
        BY <3>2, <3>3, <3>4, <3>5, TimesAssumption DEF IndInv, ShownInv
    <2>3. QED
      BY <2>1, <2>2 DEF Store, InsertEntry, InsertNews, InsertFails, fileVars, worldVars
  <1>7. SchemaInv' /\ CutoffInv'
    BY DEF IndInv, SchemaInv, CutoffInv, Store, fileVars, worldVars, pruneVars
  <1>8. QED
    BY <1>1, <1>2, <1>3, <1>4, <1>5, <1>6, <1>7 DEF IndInv

LEMMA ReportStep ==
  ASSUME IndInv, NEW s \in Sources, Report(s)
  PROVE  IndInv'
  <1>1. TypeOK'
    <2>1. busy' \in [Sources -> BOOLEAN]
      BY DEF IndInv, TypeOK, Report
    <2>2. \A v \in Sources : carried'[v] \cup told'[v] \subseteq carried[v] \cup told[v]
      BY DEF IndInv, DataInv, Report
    <2>3. QED
      BY <2>1, <2>2 DEF IndInv, TypeOK, Report, fileVars, worldVars, pruneVars
  <1>2. DataInv'
    BY DEF IndInv, DataInv, Report, fileVars, worldVars
  <1>3. CarriedInv'
    <2>1. /\ \A v \in Sources : carried'[v] \subseteq carried[v]
          /\ todo' = todo /\ stories' = stories /\ rows' = rows
      BY DEF IndInv, DataInv, Report
    <2>2. \A x : Stored(x)' <=> Stored(x)
      BY <2>1 DEF Stored
    <2>3. QED
      BY <2>1, <2>2 DEF IndInv, CarriedInv
  <1>4. OnlyRefusedMissing'
    <2>1. \A c \in carried[s] : c.refused \/ Stored(c.job)
      <3>1. DOMAIN todo[s] = {}
        BY DEF Report
      <3>2. QED
        BY <3>1 DEF IndInv, CarriedInv
    <2>2. \A v \in Sources : told'[v] = told[v] \/ (v = s /\ told'[v] = carried[s])
      BY DEF IndInv, DataInv, Report
    <2>3. \A x : Stored(x)' <=> Stored(x)
      BY DEF Report, Stored
    <2>4. QED
      BY <2>1, <2>2, <2>3 DEF IndInv, OnlyRefusedMissing
  <1>5. SchemaInv' /\ CutoffInv' /\ LatestInv' /\ ShownInv'
    BY DEF IndInv, SchemaInv, CutoffInv, LatestInv, Latest, Newest, ShownInv, Report,
           fileVars, worldVars, pruneVars
  <1>6. QED
    BY <1>1, <1>2, <1>3, <1>4, <1>5 DEF IndInv

-----------------------------------------------------------------------------
(* The prune, the queries and the world.                                   *)

LEMMA PruneStartStep ==
  ASSUME IndInv, PruneStart
  PROVE  IndInv'
  <1>1. TypeOK'
    <2>1. cutoff' \in 0..MaxTime
      BY TimesAssumption DEF IndInv, TypeOK, PruneStart
    <2>2. QED
      BY <2>1 DEF IndInv, TypeOK, PruneStart, fileVars, worldVars, fetchVars
  <1>2. CutoffInv'
    BY TimesAssumption DEF IndInv, TypeOK, CutoffInv, PruneStart, worldVars, None
  <1>3. DataInv' /\ SchemaInv' /\ CarriedInv' /\ OnlyRefusedMissing' /\ LatestInv' /\ ShownInv'
    <2>1. DataInv' /\ CarriedInv' /\ OnlyRefusedMissing' /\ LatestInv'
      BY TablesFrame DEF PruneStart, fetchVars
    <2>2. SchemaInv' /\ ShownInv'
      BY DEF IndInv, SchemaInv, ShownInv, PruneStart, fileVars, worldVars, fetchVars
    <2>3. QED
      BY <2>1, <2>2
  <1>4. QED
    BY <1>1, <1>2, <1>3 DEF IndInv

LEMMA PruneFailsStep ==
  ASSUME IndInv, PruneFails
  PROVE  IndInv'
  <1>1. TypeOK' /\ CutoffInv'
    BY DEF IndInv, TypeOK, CutoffInv, PruneFails, fileVars, worldVars, fetchVars
  <1>2. DataInv' /\ SchemaInv' /\ CarriedInv' /\ OnlyRefusedMissing' /\ LatestInv' /\ ShownInv'
    <2>1. DataInv' /\ CarriedInv' /\ OnlyRefusedMissing' /\ LatestInv'
      BY TablesFrame DEF PruneFails, fetchVars
    <2>2. SchemaInv' /\ ShownInv'
      BY DEF IndInv, SchemaInv, ShownInv, PruneFails, fileVars, worldVars, fetchVars
    <2>3. QED
      BY <2>1, <2>2
  <1>3. QED
    BY <1>1, <1>2 DEF IndInv

LEMMA PruneEntriesStep ==
  ASSUME IndInv, PruneEntries
  PROVE  IndInv'
  <1>a. cutoff \in 0..(now - MaxAge) /\ now \in 0..MaxTime
    BY DEF PruneEntries, IndInv, CutoffInv, TypeOK
  <1>b. \A v \in Sources :
          /\ carried'[v] \subseteq carried[v] /\ told'[v] \subseteq told[v]
          /\ \A c \in carried'[v] \cup told'[v] : c.job.item \in Keys => c.job.at >= cutoff
    BY DEF PruneEntries
  <1>1. TypeOK'
    <2>1. rows' \subseteq rows /\ pruning' = TRUE
      BY DEF PruneEntries
    <2>2. QED
      BY <2>1, <1>b DEF IndInv, TypeOK, PruneEntries, fileVars, worldVars
  <1>2. CutoffInv'
    BY DEF IndInv, CutoffInv, PruneEntries, worldVars
  <1>3. LatestInv'
    <2>1. SUFFICES ASSUME NEW k \in Keys, NEW r \in rows', r.key = k
                   PROVE  Latest(k)' # {}
      BY DEF LatestInv
    <2>2. r \in rows /\ r.at >= cutoff
      BY <2>1 DEF PruneEntries
    <2>3. PICK m \in Latest(k) : TRUE
      BY <2>1, <2>2 DEF IndInv, LatestInv
    <2>4. m \in rows /\ m.key = k /\ m.at >= r.at
      BY <2>1, <2>2, <2>3 DEF Latest, Newest
    <2>5. m.at \in Int /\ r.at \in Int /\ cutoff \in Int
      BY <2>2, <2>4, <1>a DEF IndInv, TypeOK, Row
    <2>6. m \in rows'
      BY <2>2, <2>4, <2>5 DEF PruneEntries
    <2>7. m \in Latest(k)'
      BY <2>3, <2>4, <2>6 DEF Latest, Newest, PruneEntries
    <2>8. QED
      BY <2>7
  <1>4. ShownInv'
    <2>1. SUFFICES ASSUME NEW k \in Keys, shown[k] # None
                   PROVE  \/ \E r \in rows' : r.key = k /\ r.at >= shown[k]
                          \/ shown[k] < now - MaxAge /\ \A r \in rows' : r.key # k
      BY DEF ShownInv, PruneEntries, worldVars
    <2>2. /\ shown[k] \in Int /\ now - MaxAge \in Int /\ \A r \in rows : r.at \in Int
          /\ cutoff \in Int /\ cutoff <= now - MaxAge
      BY <1>a, TimesAssumption DEF IndInv, TypeOK, None, Row
    <2>3. CASE shown[k] < now - MaxAge /\ \A r \in rows : r.key # k
      BY <2>3 DEF PruneEntries
    <2>4. CASE \E r \in rows : r.key = k /\ r.at >= shown[k]
      <3>1. PICK r \in rows : r.key = k /\ r.at >= shown[k]
        BY <2>4
      <3>2. CASE r.at >= cutoff
        BY <3>1, <3>2 DEF PruneEntries
      <3>3. CASE r.at < cutoff
        <4>1. \A q \in rows' : q \in rows /\ q.at >= cutoff
          BY DEF PruneEntries
        <4>2. shown[k] < now - MaxAge
          BY <3>1, <3>3, <2>2
        <4>3. QED
          BY <4>1, <4>2, <2>2, <3>1, <3>3
      <3>4. QED
        BY <3>2, <3>3, <2>2
    <2>5. QED
      BY <2>1, <2>3, <2>4 DEF IndInv, ShownInv
  <1>5. \A x : Stored(x) /\ (x.item \in Keys => x.at >= cutoff) => Stored(x)'
    BY DEF PruneEntries, Stored
  <1>6. CarriedInv'
    BY <1>5, <1>b DEF IndInv, CarriedInv, PruneEntries
  <1>7. OnlyRefusedMissing'
    BY <1>5, <1>b DEF IndInv, OnlyRefusedMissing
  <1>8. DataInv' /\ SchemaInv'
    BY DEF IndInv, DataInv, SchemaInv, PruneEntries, fileVars
  <1>9. QED
    BY <1>1, <1>2, <1>3, <1>4, <1>6, <1>7, <1>8 DEF IndInv

LEMMA PruneNewsStep ==
  ASSUME IndInv, PruneNews
  PROVE  IndInv'
  <1>a. \A v \in Sources :
          /\ carried'[v] \subseteq carried[v] /\ told'[v] \subseteq told[v]
          /\ \A c \in carried'[v] \cup told'[v] : c.job.item \notin Pruned
    BY DEF PruneNews
  <1>1. TypeOK'
    <2>1. stories' \in [Urls -> [text : Editions \cup {0}, region : Range(Region) \cup {NoRegion},
                                at : (0..MaxTime) \cup {None}]]
      BY DEF IndInv, TypeOK, PruneNews, Unknown
    <2>2. cutoff' = None /\ pruning' = FALSE
      BY DEF PruneNews
    <2>3. QED
      BY <2>1, <2>2, <1>a DEF IndInv, TypeOK, PruneNews, fileVars, worldVars
  <1>2. DataInv'
    BY DEF IndInv, DataInv, PruneNews, fileVars, worldVars
  <1>3. \A x : Stored(x) /\ x.item \notin Pruned => Stored(x)'
    BY DEF PruneNews, Stored
  <1>4. CarriedInv'
    BY <1>a, <1>3 DEF IndInv, CarriedInv, PruneNews
  <1>5. OnlyRefusedMissing'
    BY <1>a, <1>3 DEF IndInv, OnlyRefusedMissing
  <1>6. CutoffInv'
    BY DEF CutoffInv, PruneNews
  <1>7. SchemaInv' /\ LatestInv' /\ ShownInv'
    BY DEF IndInv, SchemaInv, LatestInv, Latest, Newest, ShownInv, PruneNews, fileVars,
           worldVars
  <1>8. QED
    BY <1>1, <1>2, <1>4, <1>5, <1>6, <1>7 DEF IndInv

LEMMA QueryLatestStep ==
  ASSUME IndInv, NEW k \in Keys, QueryLatest(k)
  PROVE  IndInv'
  <1>1. TypeOK'
    <2>1. shown' \in [Keys -> (0..MaxTime) \cup {None}]
      BY DEF IndInv, TypeOK, Row, Latest, Newest, QueryLatest
    <2>2. QED
      BY <2>1 DEF IndInv, TypeOK, QueryLatest, fileVars, worldVars, fetchVars, pruneVars
  <1>2. ShownInv'
    <2>1. PICK r \in rows : r.key \in Keys /\ shown' = [shown EXCEPT ![r.key] = r.at]
      BY DEF IndInv, TypeOK, Row, Latest, Newest, QueryLatest
    <2>2. \A j \in Keys : shown'[j] = shown[j] \/ (j = r.key /\ shown'[j] = r.at)
      BY <2>1 DEF IndInv, TypeOK
    <2>3. r.at >= r.at
      BY DEF IndInv, TypeOK, Row
    <2>4. QED
      BY <2>1, <2>2, <2>3 DEF IndInv, ShownInv, QueryLatest, worldVars
  <1>3. DataInv' /\ SchemaInv' /\ CarriedInv' /\ OnlyRefusedMissing' /\ CutoffInv' /\ LatestInv'
    <2>1. DataInv' /\ CarriedInv' /\ OnlyRefusedMissing' /\ LatestInv'
      BY TablesFrame DEF QueryLatest, fetchVars
    <2>2. SchemaInv' /\ CutoffInv'
      BY DEF IndInv, SchemaInv, CutoffInv, QueryLatest, fileVars, worldVars, fetchVars, pruneVars
    <2>3. QED
      BY <2>1, <2>2
  <1>4. QED
    BY <1>1, <1>2, <1>3 DEF IndInv

LEMMA QueryHistoryStep ==
  ASSUME IndInv, NEW sym \in Range(Symbol), QueryHistory(sym)
  PROVE  IndInv'
  <1>1. TypeOK'
    <2>1. shown' \in [Keys -> (0..MaxTime) \cup {None}]
      BY DEF IndInv, TypeOK, Row, Latest, Newest, QueryHistory
    <2>2. QED
      BY <2>1 DEF IndInv, TypeOK, QueryHistory, fileVars, worldVars, fetchVars, pruneVars
  <1>2. ShownInv'
    <2>1. PICK r \in rows : r.key \in Keys /\ shown' = [shown EXCEPT ![r.key] = r.at]
      BY DEF IndInv, TypeOK, Row, Latest, Newest, QueryHistory
    <2>2. \A j \in Keys : shown'[j] = shown[j] \/ (j = r.key /\ shown'[j] = r.at)
      BY <2>1 DEF IndInv, TypeOK
    <2>3. r.at >= r.at
      BY DEF IndInv, TypeOK, Row
    <2>4. QED
      BY <2>1, <2>2, <2>3 DEF IndInv, ShownInv, QueryHistory, worldVars
  <1>3. DataInv' /\ SchemaInv' /\ CarriedInv' /\ OnlyRefusedMissing' /\ CutoffInv' /\ LatestInv'
    <2>1. DataInv' /\ CarriedInv' /\ OnlyRefusedMissing' /\ LatestInv'
      BY TablesFrame DEF QueryHistory, fetchVars
    <2>2. SchemaInv' /\ CutoffInv'
      BY DEF IndInv, SchemaInv, CutoffInv, QueryHistory, fileVars, worldVars, fetchVars, pruneVars
    <2>3. QED
      BY <2>1, <2>2
  <1>4. QED
    BY <1>1, <1>2, <1>3 DEF IndInv

LEMMA TickStep ==
  ASSUME IndInv, Tick
  PROVE  IndInv'
  <1>1. TypeOK'
    <2>1. now' \in 0..MaxTime /\ now' = now + 1 /\ now \in Int
      BY TimesAssumption DEF IndInv, TypeOK, Tick
    <2>2. \A s \in Sources : \A x \in Range(todo[s]) : x.at \in Int
      <3>1. \A s \in Sources : \A x \in Range(todo[s]) : x \in Job
        BY DEF IndInv, DataInv, Range
      <3>2. QED
        BY <3>1 DEF Job
    <2>3. \A s \in Sources : \A x \in Range(todo[s]) : x.at <= now' /\ now' - x.at <= MaxDelay
      BY <2>1, <2>2, TimesAssumption DEF IndInv, TypeOK, Tick
    <2>4. QED
      BY <2>1, <2>3 DEF IndInv, TypeOK, Tick, fileVars, fetchVars, pruneVars
  <1>2. CutoffInv'
    BY TimesAssumption DEF IndInv, TypeOK, CutoffInv, Tick, fileVars, fetchVars, pruneVars
  <1>3. ShownInv'
    <2>1. now' = now + 1 /\ now \in Int /\ shown' = shown /\ rows' = rows
      BY DEF IndInv, TypeOK, Tick
    <2>2. \A k \in Keys : shown[k] \in Int
      BY DEF IndInv, TypeOK, None
    <2>3. QED
      BY <2>1, <2>2, TimesAssumption DEF IndInv, ShownInv
  <1>4. DataInv' /\ SchemaInv' /\ CarriedInv' /\ OnlyRefusedMissing' /\ LatestInv'
    <2>1. DataInv' /\ CarriedInv' /\ OnlyRefusedMissing' /\ LatestInv'
      BY TablesFrame DEF Tick, fetchVars
    <2>2. SchemaInv'
      BY DEF IndInv, SchemaInv, Tick, fileVars, fetchVars, pruneVars
    <2>3. QED
      BY <2>1, <2>2
  <1>5. QED
    BY <1>1, <1>2, <1>3, <1>4 DEF IndInv

LEMMA ChangeStep ==
  ASSUME IndInv, NEW i \in Moving, Change(i)
  PROVE  IndInv'
  <1>1. TypeOK'
    <2>1. edition' \in [Items -> Editions]
      BY DEF IndInv, TypeOK, Change
    <2>2. QED
      BY <2>1 DEF IndInv, TypeOK, Change, Spend, fileVars, fetchVars, pruneVars
  <1>2. /\ DataInv' /\ SchemaInv' /\ CarriedInv' /\ OnlyRefusedMissing' /\ CutoffInv' /\ LatestInv'
        /\ ShownInv'
    <2>1. DataInv' /\ CarriedInv' /\ OnlyRefusedMissing' /\ LatestInv'
      BY TablesFrame DEF Change, Spend, fetchVars
    <2>2. SchemaInv' /\ CutoffInv' /\ ShownInv'
      BY DEF IndInv, SchemaInv, CutoffInv, ShownInv, Change, Spend, fileVars, fetchVars, pruneVars
    <2>3. QED
      BY <2>1, <2>2
  <1>3. QED
    BY <1>1, <1>2 DEF IndInv

-----------------------------------------------------------------------------
(* The theorems.                                                           *)

LEMMA InvInit == Init => IndInv
  <1> SUFFICES ASSUME Init PROVE IndInv
    OBVIOUS
  <1>1. TypeOK
    <2>1. \A s \in Sources : Range(todo[s]) = {}
      BY DEF Init, Range
    <2>2. schema \subseteq Whole /\ 0 \in 0..MaxTime /\ step \in 0..(Len(Migration) + 1)
      BY SchemasAssumption, TimesAssumption, MigrationFacts DEF Init
    <2>3. edition \in [Items -> Editions]
      BY SourcesAssumption DEF Init
    <2>4. QED
      BY <2>1, <2>2, <2>3 DEF Init, TypeOK, Unknown
  <1>2. DataInv /\ SchemaInv /\ CarriedInv /\ OnlyRefusedMissing
    BY MigrationFacts DEF Init, DataInv, SchemaInv, CarriedInv, OnlyRefusedMissing, Stored
  <1>3. CutoffInv /\ LatestInv /\ ShownInv
    BY DEF Init, CutoffInv, LatestInv, ShownInv
  <1>4. QED
    BY <1>1, <1>2, <1>3 DEF IndInv

LEMMA Stuttering ==
  ASSUME IndInv, UNCHANGED vars
  PROVE  IndInv'
  <1> USE DEF vars, fileVars, worldVars, fetchVars, pruneVars, Stored
  <1>1. TypeOK' /\ DataInv' /\ SchemaInv'
    BY DEF IndInv, TypeOK, DataInv, SchemaInv
  <1>2. CarriedInv' /\ OnlyRefusedMissing' /\ CutoffInv'
    BY DEF IndInv, CarriedInv, OnlyRefusedMissing, Stored, CutoffInv
  <1>3. LatestInv' /\ ShownInv'
    BY DEF IndInv, LatestInv, Latest, Newest, ShownInv
  <1>4. QED
    BY <1>1, <1>2, <1>3 DEF IndInv

LEMMA InvStep == IndInv /\ [Next]_vars => IndInv'
  <1> SUFFICES ASSUME IndInv, [Next]_vars PROVE IndInv'
    OBVIOUS
  <1>1. CASE OpenFile \/ Create \/ CreateFails \/ Alter \/ AlterFails \/ Crash
    BY <1>1, OpenFileStep, CreateStep, CreateFailsStep, AlterStep, AlterFailsStep, CrashStep
  <1>2. ASSUME NEW s \in Sources, Fetch(s) \/ Store(s) \/ Report(s) PROVE IndInv'
    BY <1>2, FetchStep, StoreStep, ReportStep
  <1>3. CASE PruneStart \/ PruneEntries \/ PruneNews \/ PruneFails
    BY <1>3, PruneStartStep, PruneEntriesStep, PruneNewsStep, PruneFailsStep
  <1>4. ASSUME NEW k \in Keys, QueryLatest(k) \/ QueryHistory(Symbol[k]) PROVE IndInv'
    <2>1. Symbol[k] \in Range(Symbol)
      BY SourcesAssumption DEF Range
    <2>2. QED
      BY <1>4, <2>1, QueryLatestStep, QueryHistoryStep
  <1>5. CASE Tick
    BY <1>5, TickStep
  <1>6. ASSUME NEW i \in Moving, Change(i) PROVE IndInv'
    BY <1>6, ChangeStep
  <1>7. CASE UNCHANGED vars
    BY <1>7, Stuttering
  <1>8. QED
    BY <1>1, <1>2, <1>3, <1>4, <1>5, <1>6, <1>7 DEF Next

(* IndInv holds in every reachable state.                                  *)
THEOREM Invariance == Spec => []IndInv
  BY InvInit, InvStep, PTL DEF Spec

(* Every variable of the database keeps its type.                          *)
THEOREM Typing == Spec => []TypeOK
  <1>1. IndInv => TypeOK
    BY DEF IndInv
  <1>2. QED
    BY <1>1, Invariance, PTL

(* Whatever the old file had, and wherever earlier starts died, an open    *)
(* database has every table and column, unless a statement has failed.     *)
THEOREM MigrationCompletes == Spec => []SchemaWhole
  <1>1. IndInv => SchemaWhole
    <2> SUFFICES ASSUME IndInv, Open, ~faulty PROVE schema = Whole
      BY DEF SchemaWhole
    <2>1. \A j \in 1..6 : Migration[j] \in schema
      BY MigrationFacts DEF IndInv, SchemaInv, TypeOK, Open
    <2>2. Whole \subseteq schema
      BY <2>1, MigrationFacts
    <2>3. QED
      BY <2>2 DEF IndInv, TypeOK
  <1>2. QED
    BY <1>1, Invariance, PTL

(* All that a fetch reported as a success has delivered is in the tables   *)
(* until it is pruned, prices and stories, but for what was refused.       *)
THEOREM OnlyRefusedLost == Spec => []OnlyRefusedMissing
  <1>1. IndInv => OnlyRefusedMissing
    BY DEF IndInv
  <1>2. QED
    BY <1>1, Invariance, PTL

(* A row that is the newest of its price is not older than what was shown. *)
LEMMA NewestNotOlder ==
  ASSUME IndInv, NEW r \in rows, \A q \in rows : q.key = r.key => q.at <= r.at
  PROVE  r.at >= shown[r.key]
  <1>1. r.key \in Keys /\ r.at \in 0..MaxTime /\ \A q \in rows : q.at \in Int
    BY DEF IndInv, TypeOK, Row
  <1>2. shown[r.key] \in Int
    BY <1>1 DEF IndInv, TypeOK, None
  <1>3. CASE shown[r.key] = None
    BY <1>1, <1>3 DEF None
  <1>4. CASE shown[r.key] # None
    <2>1. PICK q \in rows : q.key = r.key /\ q.at >= shown[r.key]
      BY <1>1, <1>4 DEF IndInv, ShownInv
    <2>2. QED
      BY <2>1, <1>1, <1>2
  <1>5. QED
    BY <1>3, <1>4

(* However late, and by whichever thread, a price is stored, and whichever *)
(* rows are pruned: no client sees it go back to an older second.          *)
THEOREM NoOlderPrice == Spec => NeverShownOlder
  <1> DEFINE NotOlder == \A k \in Keys : shown'[k] >= shown[k]
  <1>1. IndInv /\ [Next]_vars => NotOlder
    <2> SUFFICES ASSUME IndInv, [Next]_vars PROVE NotOlder
      OBVIOUS
    <2>1. \A k \in Keys : shown[k] \in Int
      BY DEF IndInv, TypeOK, None
    <2>2. CASE shown' = shown
      BY <2>1, <2>2
    <2>3. ASSUME NEW r \in rows, \A q \in rows : q.key = r.key => q.at <= r.at,
                 shown' = [shown EXCEPT ![r.key] = r.at]
          PROVE  NotOlder
      <3>1. r.at >= shown[r.key]
        BY <2>3, NewestNotOlder
      <3>2. QED
        BY <2>1, <2>3, <3>1 DEF IndInv, TypeOK
    <2>4. ASSUME NEW k \in Keys, QueryLatest(k) PROVE NotOlder
      <3>1. PICK r \in Latest(k) : shown' = [shown EXCEPT ![k] = r.at]
        BY <2>4 DEF QueryLatest
      <3>2. r \in rows /\ r.key = k /\ \A q \in rows : q.key = k => q.at <= r.at
        BY DEF Latest, Newest
      <3>3. QED
        BY <3>1, <3>2, <2>3
    <2>5. ASSUME NEW k \in Keys, QueryHistory(Symbol[k]) PROVE NotOlder
      <3>1. PICK r \in Newest({q \in rows : Symbol[q.key] = Symbol[k]}) :
              shown' = [shown EXCEPT ![r.key] = r.at]
        BY <2>5 DEF QueryHistory
      <3>2. r \in rows /\ \A q \in rows : q.key = r.key => q.at <= r.at
        BY DEF Newest
      <3>3. QED
        BY <3>1, <3>2, <2>3
    <2>6. shown' = shown \/ \E k \in Keys : QueryLatest(k) \/ QueryHistory(Symbol[k])
      BY DEF Next, vars, OpenFile, Create, CreateFails, Alter, AlterFails, Crash, Fetch, Store,
             Report, PruneStart, PruneEntries, PruneNews, PruneFails, Tick, Change
    <2>7. QED
      BY <2>2, <2>4, <2>5, <2>6
  <1>2. QED
    BY <1>1, Invariance, PTL DEF Spec, NeverShownOlder

-----------------------------------------------------------------------------
(* The refinement: the latest rows, the stories and the clock are a board. *)

(* What the board has of a price is what any of its newest rows says.      *)
LEMMA MappedIs ==
  ASSUME IndInv, NEW k \in Keys
  PROVE  /\ \A r \in Latest(k) : Mapped(k) = [at |-> r.at, values |-> {q.value : q \in Latest(k)}]
         /\ Latest(k) = {} => Mapped(k) = [at |-> -1, values |-> {}] /\ \A r \in rows : r.key # k
  <1>1. \A r, q \in Latest(k) : r.at = q.at
    BY DEF Latest, Newest, IndInv, TypeOK, Row
  <1>2. ASSUME NEW r \in Latest(k)
        PROVE  Mapped(k) = [at |-> r.at, values |-> {q.value : q \in Latest(k)}]
    <2>1. (CHOOSE q \in Latest(k) : TRUE) \in Latest(k)
      OBVIOUS
    <2>2. QED
      BY <1>1, <2>1 DEF Mapped
  <1>3. Latest(k) = {} => Mapped(k) = [at |-> -1, values |-> {}]
    BY DEF Mapped, None
  <1>4. QED
    BY <1>2, <1>3 DEF IndInv, LatestInv

(* The same of the step's next state.                                      *)
LEMMA MappedIsNext ==
  ASSUME IndInv', NEW k \in Keys
  PROVE  /\ \A r \in Latest(k)' : Mapped(k)' = [at |-> r.at, values |-> {q.value : q \in Latest(k)'}]
         /\ Latest(k)' = {} => Mapped(k)' = [at |-> -1, values |-> {}] /\ \A r \in rows' : r.key # k
  <1>1. \A r, q \in Latest(k)' : r.at = q.at
    BY DEF Latest, Newest, IndInv, TypeOK, Row
  <1>2. ASSUME NEW r \in Latest(k)'
        PROVE  Mapped(k)' = [at |-> r.at, values |-> {q.value : q \in Latest(k)'}]
    <2>1. (CHOOSE q \in Latest(k)' : TRUE) \in Latest(k)'
      OBVIOUS
    <2>2. QED
      BY <1>1, <2>1 DEF Mapped
  <1>3. Latest(k)' = {} => Mapped(k)' = [at |-> -1, values |-> {}]
    BY DEF Mapped, None
  <1>4. QED
    BY <1>2, <1>3 DEF IndInv, LatestInv

(* An insert puts a value on the board, or comes too late.                 *)
LEMMA InsertPuts ==
  ASSUME IndInv, NEW s \in Sources, Store(s), InsertEntry(s, Head(todo[s]))
  PROVE  LET x == Head(todo[s]) IN x.at \in B!Recent /\ B!Put(x.item, x.ed, x.at)
  <1> DEFINE x == Head(todo[s])
             n == [key |-> x.item, value |-> x.ed, at |-> x.at]
             old == Mapped(x.item)
  <1>1. x \in Job /\ x.at <= now /\ now - x.at <= MaxDelay /\ x.item \in Keys
    BY NextJob DEF IndInv, Store, InsertEntry
  <1>2. x.at \in 0..MaxTime /\ now \in 0..MaxTime
    BY <1>1 DEF Job, IndInv, TypeOK
  <1>3. x.at \in B!Recent
    BY <1>1, <1>2 DEF B!Recent
  <1>4. rows' = rows \cup {n} /\ stories' = stories /\ now' = now
    BY DEF Store, InsertEntry, worldVars
  <1>5. IndInv'
    BY StoreStep
  <1>6. \A r \in rows : r.at \in Int
    BY DEF IndInv, TypeOK, Row
  <1>7. ASSUME NEW k \in Keys, k # x.item PROVE Mapped(k)' = Mapped(k)
    <2>1. Latest(k)' = Latest(k)
      BY <1>4, <1>7 DEF Latest, Newest
    <2>2. QED
      BY <2>1 DEF Mapped
  <1>8. ASSUME NEW k \in Keys, k = x.item
        PROVE  Mapped(k)' = [at |-> IF x.at > old.at THEN x.at ELSE old.at,
                             values |-> (IF x.at > old.at THEN {} ELSE old.values)
                                          \cup (IF x.at < old.at THEN {} ELSE {x.ed})]
    <2> DEFINE L == Latest(k)
    <2>1. CASE \E m \in L : x.at <= m.at
      <3>1. PICK m \in L : x.at <= m.at
        BY <2>1
      <3>2. m \in rows /\ m.key = x.item /\ m.at \in Int /\ \A q \in rows : q.key = x.item => q.at <= m.at
        BY <1>6, <1>8 DEF Latest, Newest
      <3>3. old.at = m.at /\ old.values = {q.value : q \in L}
        BY <1>1, <1>8, MappedIs
      <3>4. L' = L \cup IF x.at < m.at THEN {} ELSE {n}
        <4>1. \A r \in L : r \in L'
          BY <1>2, <1>4, <3>1, <3>2, <1>6, <1>8 DEF Latest, Newest
        <4>2. \A r \in L' : r \in L \/ (r = n /\ x.at >= m.at)
          BY <1>2, <1>4, <3>1, <3>2, <1>6, <1>8 DEF Latest, Newest
        <4>3. x.at >= m.at => n \in L'
          BY <1>2, <1>4, <3>1, <3>2, <1>6, <1>8 DEF Latest, Newest
        <4>4. QED
          BY <4>1, <4>2, <4>3, <1>2, <3>2
      <3>5. m \in L'
        BY <3>1, <3>4
      <3>6. Mapped(k)' = [at |-> m.at, values |-> {q.value : q \in L'}]
        BY <3>5, <1>1, <1>5, MappedIsNext
      <3>7. CASE x.at < m.at
        <4>1. L' = L
          BY <3>4, <3>7
        <4>2. Mapped(k)' = [at |-> old.at, values |-> old.values]
          BY <4>1, <3>3, <3>6
        <4>3. ~(x.at > old.at) /\ x.at < old.at
          BY <3>3, <3>7, <3>2, <1>2
        <4>4. QED
          BY <4>2, <4>3
      <3>8. CASE ~(x.at < m.at)
        <4>1. L' = L \cup {n} /\ n.value = x.ed
          BY <3>4, <3>8
        <4>2. {q.value : q \in L'} = {q.value : q \in L} \cup {n.value}
          <5> HIDE DEF L, n
          <5>1. QED
            BY <4>1
        <4>3. Mapped(k)' = [at |-> old.at, values |-> old.values \cup {x.ed}]
          BY <4>1, <4>2, <3>3, <3>6
        <4>4. ~(x.at > old.at) /\ ~(x.at < old.at)
          BY <3>1, <3>3, <3>8, <3>2, <1>2
        <4>5. QED
          BY <4>3, <4>4
      <3>9. QED
        BY <3>7, <3>8
    <2>2. CASE ~ \E m \in L : x.at <= m.at
      <3>1. \A r \in rows : r.key = x.item => r.at < x.at
        <4>1. CASE L = {}
          BY <4>1, <1>1, <1>8, MappedIs
        <4>2. CASE L # {}
          BY <4>2, <2>2, <1>2, <1>6, <1>8 DEF Latest, Newest
        <4>3. QED
          BY <4>1, <4>2
      <3>2. L' = {n}
        <4>1. n \in rows' /\ n.key = k /\ n.at = x.at /\ x.at \in Int
          BY <1>2, <1>4, <1>8
        <4>2. \A q \in rows' : q.key = k => q = n \/ q.at < x.at
          BY <1>4, <1>8, <3>1
        <4>3. \A q \in rows' : q.key = k => q.at \in Int /\ q.at <= n.at
          BY <1>4, <1>6, <4>1, <4>2
        <4>4. n \in L'
          BY <4>1, <4>3 DEF Latest, Newest
        <4>5. \A r \in L' : r = n
          BY <4>1, <4>2, <4>3 DEF Latest, Newest
        <4>6. QED
          BY <4>4, <4>5
      <3>3. Mapped(k)' = [at |-> x.at, values |-> {q.value : q \in L'}]
        BY <3>2, <1>1, <1>5, MappedIsNext
      <3>4. {q.value : q \in L'} = {x.ed}
        BY <3>2
      <3>5. x.at > old.at
        <4>1. CASE L = {}
          BY <4>1, <1>1, <1>2, <1>8, MappedIs
        <4>2. CASE L # {}
          <5>1. PICK m \in L : TRUE
            BY <4>2
          <5>2. old.at = m.at /\ m.at < x.at
            BY <5>1, <1>1, <1>8, <3>1, MappedIs DEF Latest, Newest
          <5>3. QED
            BY <5>2, <1>2, <1>6, <1>8 DEF Latest, Newest
        <4>3. QED
          BY <4>1, <4>2
      <3>6. ~(x.at < old.at)
        BY <3>5, <2>2, <1>2, <1>6, <1>1, <1>8, MappedIs DEF Latest, Newest
      <3>7. QED
        BY <3>3, <3>4, <3>5, <3>6
    <2>3. QED
      BY <2>1, <2>2
  <1>9. QED
    BY <1>1, <1>3, <1>4, <1>7, <1>8 DEF B!Put

(* A story that is new is published; one that has no region is given one.  *)
LEMMA NewsMaps ==
  ASSUME IndInv, NEW s \in Sources, Store(s), InsertNews(s, Head(todo[s])), stories' # stories
  PROVE  LET x == Head(todo[s]) IN
           \/ x.at \in B!Recent /\ stories[x.item] = B!Unknown
                /\ stories' = [stories EXCEPT ![x.item] = [text |-> x.ed, region |-> x.region, at |-> x.at]]
           \/ x.region # B!NoRegion /\ stories[x.item] # B!Unknown
                /\ stories[x.item].region = B!NoRegion
                /\ stories' = [stories EXCEPT ![x.item].region = x.region]
  <1> DEFINE x == Head(todo[s])
  <1>1. x \in Job /\ x.at <= now /\ now - x.at <= MaxDelay /\ x.item \in Urls
    BY NextJob DEF IndInv, Store, InsertNews
  <1>2. x.at \in 0..MaxTime /\ now \in 0..MaxTime
    BY <1>1 DEF Job, IndInv, TypeOK
  <1>3. x.at \in B!Recent
    BY <1>1, <1>2 DEF B!Recent
  <1>4. stories' = Upserted(x)
    BY DEF InsertNews
  <1>5. stories \in [Urls -> [text : Editions \cup {0}, region : Range(Region) \cup {NoRegion},
                             at : (0..MaxTime) \cup {None}]]
    BY DEF IndInv, TypeOK
  <1>6. B!Unknown = Unknown /\ B!NoRegion = NoRegion
    BY DEF B!Unknown, Unknown, B!NoRegion, NoRegion, None
  <1>7. CASE stories[x.item] = Unknown
    BY <1>1, <1>3, <1>4, <1>5, <1>6, <1>7 DEF Upserted
  <1>8. CASE stories[x.item] # Unknown /\ x.region # NoRegion /\ stories[x.item].region = NoRegion
    BY <1>1, <1>4, <1>5, <1>6, <1>8 DEF Upserted
  <1>9. CASE stories[x.item] # Unknown /\ ~(x.region # NoRegion /\ stories[x.item].region = NoRegion)
    <2>1. Upserted(x) = stories
      BY <1>1, <1>5, <1>9 DEF Upserted
    <2>2. QED
      BY <2>1, <1>4
  <1>10. QED
    BY <1>7, <1>8, <1>9

(* A prune of the rows forgets the prices whose newest row is too old, and *)
(* leaves the others what they were.                                       *)
LEMMA PruneForgets ==
  ASSUME IndInv, PruneEntries
  PROVE  B!ForgetPrices
  <1> DEFINE c == cutoff
  <1>1. now \in 0..MaxTime /\ c \in 0..(now - MaxAge) /\ c \in Int /\ c >= 0
    BY TimesAssumption DEF PruneEntries, IndInv, TypeOK, CutoffInv
  <1>2. rows' = {r \in rows : r.at >= c} /\ now' = now /\ stories' = stories
    BY DEF PruneEntries, worldVars
  <1>3. IndInv'
    BY PruneEntriesStep
  <1>4. \A r \in rows : r.at \in Int
    BY DEF IndInv, TypeOK, Row
  <1>5. ASSUME NEW k \in Keys
        PROVE  Mapped(k)' = IF Mapped(k).at < c THEN B!NoPrice ELSE Mapped(k)
    <2>1. CASE Latest(k) = {}
      <3>1. Mapped(k) = B!NoPrice /\ Mapped(k).at < c /\ \A r \in rows : r.key # k
        BY <2>1, <1>1, MappedIs DEF B!NoPrice
      <3>2. Latest(k)' = {}
        BY <3>1, <1>2 DEF Latest, Newest
      <3>3. QED
        BY <3>1, <3>2, <1>3, MappedIsNext DEF B!NoPrice
    <2>2. ASSUME NEW m \in Latest(k), m.at < c
          PROVE  Mapped(k)' = B!NoPrice /\ Mapped(k).at < c
      <3>1. Mapped(k).at < c
        BY <2>2, MappedIs
      <3>2. \A r \in rows : r.key = k => r.at < c
        BY <2>2, <1>1, <1>4 DEF Latest, Newest
      <3>3. Latest(k)' = {}
        BY <3>2, <1>1, <1>2, <1>4 DEF Latest, Newest
      <3>4. QED
        BY <3>1, <3>3, <1>3, MappedIsNext DEF B!NoPrice
    <2>3. ASSUME NEW m \in Latest(k), ~(m.at < c)
          PROVE  Mapped(k)' = Mapped(k) /\ ~(Mapped(k).at < c)
      <3>1. ~(Mapped(k).at < c)
        BY <2>3, MappedIs
      <3>2. m \in rows /\ m.key = k /\ m \in rows' /\ \A q \in rows : q.key = k => q.at <= m.at
        BY <2>3, <1>1, <1>2, <1>4 DEF Latest, Newest
      <3>3. \A r \in Latest(k) : r \in Latest(k)'
        BY <2>3, <3>2, <1>1, <1>2, <1>4 DEF Latest, Newest
      <3>4. \A r \in Latest(k)' : r \in Latest(k)
        BY <3>2, <1>1, <1>2, <1>4 DEF Latest, Newest
      <3>5. Latest(k)' = Latest(k)
        BY <3>3, <3>4
      <3>6. QED
        BY <3>1, <3>5 DEF Mapped
    <2>4. QED
      BY <2>1, <2>2, <2>3
  <1>6. [k \in Keys |-> Mapped(k)]'
          = [k \in Keys |-> IF Mapped(k).at < c THEN B!NoPrice ELSE Mapped(k)]
    BY <1>5
  <1>7. QED
    BY <1>1, <1>2, <1>6 DEF B!ForgetPrices

(* What leaves the rows alone leaves the prices of the board alone.        *)
LEMMA SamePrices ==
  ASSUME rows' = rows
  PROVE  [k \in Keys |-> Mapped(k)]' = [k \in Keys |-> Mapped(k)]
  BY DEF Mapped, Latest, Newest

LEMMA BoardInit == Init => B!Init
  <1> SUFFICES ASSUME Init PROVE B!Init
    OBVIOUS
  <1>1. \A k \in Keys : Mapped(k) = B!NoPrice
    BY DEF Init, Mapped, Latest, Newest, B!NoPrice, None
  <1>2. QED
    BY <1>1 DEF Init, B!Init, Unknown, B!Unknown, NoRegion, B!NoRegion, None

LEMMA BoardStep ==
  IndInv /\ [Next]_vars => [B!Next]_<<now, [k \in Keys |-> Mapped(k)], stories>>
  <1> DEFINE latest == [k \in Keys |-> Mapped(k)]
  <1> SUFFICES ASSUME IndInv, [Next]_vars
               PROVE  B!Next \/ UNCHANGED <<now, latest, stories>>
    OBVIOUS
  <1>1. CASE rows' = rows /\ now' = now /\ stories' = stories
    BY <1>1, SamePrices
  <1>2. ASSUME NEW s \in Sources, Store(s), InsertEntry(s, Head(todo[s])) PROVE B!Next
    <2>1. Head(todo[s]) \in Job /\ Head(todo[s]).item \in Keys
      BY <1>2, NextJob DEF IndInv, Store, InsertEntry
    <2>2. Head(todo[s]).ed \in Editions
      BY <2>1 DEF Job
    <2>3. QED
      BY <1>2, <2>1, <2>2, InsertPuts DEF B!Next
  <1>3. ASSUME NEW s \in Sources, Store(s), InsertNews(s, Head(todo[s])), stories' # stories
        PROVE  B!Next
    <2> DEFINE x == Head(todo[s])
    <2>1. x \in Job /\ x.item \in Urls
      BY <1>3, NextJob DEF IndInv, Store, InsertNews
    <2>2. x.ed \in Editions /\ x.region \in Range(Region) \cup {NoRegion}
      BY <2>1 DEF Job
    <2>3. latest' = latest /\ now' = now
      BY <1>3, SamePrices DEF Store, InsertNews, worldVars
    <2>4. CASE x.at \in B!Recent /\ stories[x.item] = B!Unknown
               /\ stories' = [stories EXCEPT ![x.item] = [text |-> x.ed, region |-> x.region, at |-> x.at]]
      <3>1. B!Publish(x.item, x.ed, x.region, x.at)
        BY <2>3, <2>4 DEF B!Publish
      <3>2. QED
        BY <2>1, <2>2, <2>4, <3>1 DEF B!Next
    <2>5. CASE x.region # B!NoRegion /\ stories[x.item] # B!Unknown
               /\ stories[x.item].region = B!NoRegion
               /\ stories' = [stories EXCEPT ![x.item].region = x.region]
      <3>1. B!Locate(x.item, x.region)
        BY <2>3, <2>5 DEF B!Locate
      <3>2. QED
        BY <2>1, <2>2, <2>5, <3>1 DEF B!Next
    <2>6. QED
      BY <1>3, <2>4, <2>5, NewsMaps
  <1>4. CASE PruneEntries
    BY <1>4, PruneForgets DEF B!Next
  <1>5. CASE PruneNews
    <2>1. latest' = latest /\ now' = now
      BY <1>5, SamePrices DEF PruneNews, worldVars
    <2>2. cutoff \in 0..(now - MaxAge)
      BY <1>5 DEF PruneNews, IndInv, CutoffInv
    <2>3. stories' = [u \in Urls |-> IF stories[u].at < cutoff THEN B!Unknown ELSE stories[u]]
      BY <1>5 DEF PruneNews, Pruned, Unknown, B!Unknown, NoRegion, B!NoRegion, None
    <2>4. QED
      BY <2>1, <2>2, <2>3 DEF B!Next, B!ForgetStories
  <1>6. CASE Tick
    <2>1. latest' = latest /\ stories' = stories /\ now' = now + 1
      BY <1>6, SamePrices DEF Tick
    <2>2. QED
      BY <2>1 DEF B!Next, B!Tick
  <1>7. \/ rows' = rows /\ now' = now /\ stories' = stories
        \/ \E s \in Sources : Store(s) /\ (InsertEntry(s, Head(todo[s])) \/ InsertNews(s, Head(todo[s])))
        \/ PruneEntries \/ PruneNews \/ Tick
    BY DEF Next, vars, worldVars, OpenFile, Create, CreateFails, Alter, AlterFails, Crash, Fetch,
           Store, InsertFails, Report, PruneStart, PruneFails, QueryLatest, QueryHistory, Change
  <1>8. \A s \in Sources : Store(s) /\ InsertNews(s, Head(todo[s])) => rows' = rows /\ now' = now
    BY DEF Store, InsertNews, worldVars
  <1>9. QED
    BY <1>1, <1>2, <1>3, <1>4, <1>5, <1>6, <1>7, <1>8

(* The tables keep every promise of the board, for any prices, stories,    *)
(* sources, batches, deaths and failures.                                  *)
THEOREM StoreImplementsBoard == Spec => BoardSpec
  <1>1. BoardSpec <=> B!Init /\ [][B!Next]_<<now, [k \in Keys |-> Mapped(k)], stories>>
    BY DEF BoardSpec, B!Spec
  <1>2. QED
    BY BoardInit, BoardStep, Invariance, <1>1, PTL DEF Spec
=============================================================================
