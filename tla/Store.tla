-------------------------------- MODULE Store --------------------------------
(***************************************************************************)
(* The database (backend/src/db.c) under its threads: the migration,       *)
(* statement by statement, on a new file or one of an older version; the   *)
(* threads that fetch a batch of items, store them one by one and then     *)
(* write the status row of their source; the prune; the queries.  The      *)
(* daemon may die between any two statements, and what is in the tables    *)
(* survives.                                                               *)
(*                                                                         *)
(* An item is a price or a story, a value or a text is its edition.  What  *)
(* a source delivers is the edition of the moment.  A row is kept for      *)
(* PRUNE_MAX_AGE_SEC, half an hour (src/README.md:16 says 24h).            *)
(***************************************************************************)
EXTENDS Integers, Sequences, FiniteSets, Functions

CONSTANTS
  Keys,         \* prices: a symbol and the name of a source, which sources may share
  Urls,         \* stories
  Symbol,       \* Symbol[k], which prices of several names may share
  Sources,      \* threads that fetch, one source each
  Streams,      \* those that store what they are sent and have no status row
  Delivers,     \* Delivers[s]: the prices or stories of a fetch, in order
  Region,       \* Region[s] of the configuration, "" if there is none
  Editions,     \* values of a price, texts of a story
  Moving,       \* the items whose edition changes
  OldSchemas,   \* what the file of an earlier version may have
  MaxAge,       \* PRUNE_MAX_AGE_SEC
  MaxDelay,     \* bound: seconds from a fetch to its last insert
  MaxTime, MaxFetches, MaxEditions, MaxMishaps    \* bounds

NoRegion == ""
Items == Keys \cup Urls
Tables == {"data_entries", "news_items", "source_status"}
Columns == {"base_score", "region", "country"}
Whole == Tables \cup Columns

ASSUME SourcesAssumption ==
  /\ Streams \subseteq Sources /\ Keys \cap Urls = {}
  /\ Moving \subseteq Items /\ 1 \in Editions
  /\ DOMAIN Symbol = Keys /\ DOMAIN Region = Sources
  /\ \A s \in Sources : Delivers[s] \in Seq(Items)
ASSUME TimesAssumption ==
  /\ MaxAge \in Nat /\ MaxDelay \in 0..MaxAge
  /\ MaxTime \in Nat /\ MaxFetches \in Nat /\ MaxEditions \in Nat
  /\ MaxMishaps \in Nat
ASSUME SchemasAssumption == \A o \in OldSchemas : o \subseteq Whole

VARIABLES
  schema,      \* the tables and the later columns the file has
  step,        \* the migration's next statement, 0 when the file is closed
  now,         \* time(NULL)
  rows,        \* data_entries
  stories,     \* news_items, by the unique url
  cutoff,      \* of the prune under way
  pruning,     \* the prune is between its statements and holds the mutex
  busy,        \* which sources have a fetch under way
  todo,        \* what is still to be stored of it
  edition,     \* the world: the value of a price, the text of a story
  shown,       \* history: the second of each price's row that was served last
  carried,     \* history: what the fetch has delivered, less what has been pruned
  told,        \* history: that of the last fetch with a status row of success
  faulty,      \* history: a statement of this migration has failed
  budget       \* the bounded things still left to happen

worldVars == <<now, edition>>
fetchVars == <<busy, todo, carried, told>>
fileVars == <<schema, step, faulty>>
pruneVars == <<cutoff, pruning>>
vars == <<fileVars, worldVars, rows, stories, pruneVars, fetchVars, shown, budget>>

None == -1
Unknown == [text |-> 0, region |-> NoRegion, at |-> None]

(* SCHEMA_SQL and the three later additions, each a statement of its own.  *)
Migration == <<"data_entries", "news_items", "source_status",
               "base_score", "region", "country">>
Open == step > Len(Migration)

(* The mutex of mc_db_t, which every function holds from its statement on. *)
MutexFree == ~pruning

Spend(what) == budget[what] > 0 /\ budget' = [budget EXCEPT ![what] = @ - 1]

Init ==
  /\ schema \in OldSchemas
  /\ step = 0 /\ faulty = FALSE
  /\ now = 0 /\ edition = [i \in Items |-> 1]
  /\ rows = {} /\ stories = [u \in Urls |-> Unknown]
  /\ cutoff = None /\ pruning = FALSE
  /\ busy = [s \in Sources |-> FALSE] /\ todo = [s \in Sources |-> <<>>]
  /\ carried = [s \in Sources |-> {}] /\ told = [s \in Sources |-> {}]
  /\ shown = [k \in Keys |-> None]
  /\ budget = [fetches |-> MaxFetches, editions |-> MaxEditions,
               mishaps |-> MaxMishaps]

-----------------------------------------------------------------------------
(* Start and end of a daemon.                                              *)

(* CREATE TABLE IF NOT EXISTS makes a new table with the columns of today. *)
Created(t) == {t} \cup IF t = "news_items" /\ t \notin schema THEN Columns ELSE {}

OpenFile ==
  /\ step = 0
  /\ step' = 1 /\ faulty' = FALSE
  /\ UNCHANGED <<schema, worldVars, rows, stories, pruneVars, fetchVars, shown, budget>>

Create ==
  /\ step \in 1..3
  /\ schema' = schema \cup Created(Migration[step])
  /\ step' = step + 1
  /\ UNCHANGED <<faulty, worldVars, rows, stories, pruneVars, fetchVars, shown, budget>>

(* The first error ends the migration, and main with it.                   *)
CreateFails ==
  /\ step \in 1..3
  /\ Spend("mishaps")
  /\ step' = 0
  /\ UNCHANGED <<schema, faulty, worldVars, rows, stories, pruneVars, fetchVars, shown>>

(* A slip: the first ALTER TABLE that fails ends the migration well.       *)
SlipStopAtFirstError ==
  /\ step \in 4..Len(Migration)
  /\ schema' = schema \cup {Migration[step]}
  /\ step' = IF Migration[step] \in schema THEN Len(Migration) + 1 ELSE step + 1
  /\ UNCHANGED <<faulty, worldVars, rows, stories, pruneVars, fetchVars, shown, budget>>

(* ALTER TABLE fails if the column is there; the next one is tried.        *)
Alter ==
  /\ step \in 4..Len(Migration)
  /\ schema' = schema \cup {Migration[step]}
  /\ step' = step + 1
  /\ UNCHANGED <<faulty, worldVars, rows, stories, pruneVars, fetchVars, shown, budget>>

(* Any other error of an ALTER TABLE is taken for that one.                *)
AlterFails ==
  /\ step \in 4..Len(Migration)
  /\ Spend("mishaps")
  /\ step' = step + 1 /\ faulty' = TRUE
  /\ UNCHANGED <<schema, worldVars, rows, stories, pruneVars, fetchVars, shown>>

(* The end of the process, at any point: only the file is left.            *)
Crash ==
  /\ step > 0
  /\ Spend("mishaps")
  /\ step' = 0 /\ cutoff' = None /\ pruning' = FALSE
  /\ busy' = [s \in Sources |-> FALSE] /\ todo' = [s \in Sources |-> <<>>]
  /\ carried' = [s \in Sources |-> {}]
  /\ UNCHANGED <<schema, faulty, worldVars, rows, stories, told, shown>>

-----------------------------------------------------------------------------
(* A fetch and the inserts that follow it.                                 *)

Item(s, i) == [item |-> i, ed |-> edition[i], region |-> Region[s], at |-> now]

Fetch(s) ==
  /\ Open /\ ~busy[s]
  /\ Spend("fetches")
  /\ busy' = [busy EXCEPT ![s] = TRUE]
  /\ todo' = [todo EXCEPT ![s] = [j \in DOMAIN Delivers[s] |-> Item(s, Delivers[s][j])]]
  /\ carried' = [carried EXCEPT ![s] =
       {[job |-> Item(s, i), refused |-> FALSE] : i \in Range(Delivers[s])}]
  /\ UNCHANGED <<fileVars, worldVars, rows, stories, pruneVars, told, shown>>

(* A slip: a conflict replaces the region, whatever it was.                *)
SlipRegionReplaced(x) ==
  [stories EXCEPT ![x.item] =
     IF @ = Unknown THEN [text |-> x.ed, region |-> x.region, at |-> x.at]
     ELSE [@ EXCEPT !.region = x.region]]

(* INSERT ... ON CONFLICT(url) DO UPDATE: a story that is known gets the   *)
(* region and the country of a feed that has them, if it has none.         *)
Upserted(x) ==
  [stories EXCEPT ![x.item] =
     IF @ = Unknown THEN [text |-> x.ed, region |-> x.region, at |-> x.at]
     ELSE IF x.region # NoRegion /\ @.region = NoRegion THEN [@ EXCEPT !.region = x.region]
     ELSE @]

Refused(s, x) ==
  [carried EXCEPT ![s] = {[c EXCEPT !.refused = @ \/ c.job = x] : c \in @}]

(* A slip: INSERT OR REPLACE, one row per price.                           *)
SlipReplaced(s, x) ==
  /\ x.item \in Keys
  /\ rows' = {r \in rows : r.key # x.item}
               \cup {[key |-> x.item, value |-> x.ed, at |-> x.at]}
  /\ UNCHANGED <<stories, carried, budget>>

InsertEntry(s, x) ==
  /\ x.item \in Keys
  /\ rows' = rows \cup {[key |-> x.item, value |-> x.ed, at |-> x.at]}
  /\ UNCHANGED <<stories, carried, budget>>

(* The statement names the later columns: without them it is not prepared. *)
InsertNews(s, x) ==
  /\ x.item \in Urls
  /\ IF Columns \subseteq schema
       THEN stories' = Upserted(x) /\ carried' = carried
       ELSE stories' = stories /\ carried' = Refused(s, x)
  /\ UNCHANGED <<rows, budget>>

InsertFails(s, x) ==
  /\ Spend("mishaps")
  /\ carried' = Refused(s, x)
  /\ UNCHANGED <<rows, stories>>

(* A slip: a known story ends the loop over the items.                     *)
SlipStopAtKnown(s) ==
  /\ todo[s] # <<>> /\ MutexFree
  /\ LET x == Head(todo[s]) IN
       /\ InsertEntry(s, x) \/ InsertNews(s, x)
       /\ todo' = [todo EXCEPT ![s] =
            IF x.item \in Urls /\ stories[x.item] # Unknown THEN <<>> ELSE Tail(@)]
  /\ UNCHANGED <<fileVars, worldVars, pruneVars, busy, told, shown>>

(* Errors are logged or ignored, and the next item is stored.              *)
Store(s) ==
  /\ todo[s] # <<>> /\ MutexFree
  /\ LET x == Head(todo[s]) IN InsertEntry(s, x) \/ InsertNews(s, x) \/ InsertFails(s, x)
  /\ todo' = [todo EXCEPT ![s] = Tail(@)]
  /\ UNCHANGED <<fileVars, worldVars, pruneVars, busy, told, shown>>

(* The status row: a success, whatever became of the inserts.              *)
Report(s) ==
  /\ busy[s] /\ todo[s] = <<>> /\ MutexFree
  /\ busy' = [busy EXCEPT ![s] = FALSE]
  /\ told' = IF s \in Streams THEN told ELSE [told EXCEPT ![s] = carried[s]]
  /\ carried' = [carried EXCEPT ![s] = {}]
  /\ UNCHANGED <<fileVars, worldVars, rows, stories, pruneVars, todo, shown, budget>>

-----------------------------------------------------------------------------
(* mc_db_prune_old: the clock is read, and two statements are executed     *)
(* under the mutex; the first that fails is the last.                      *)

(* A slip: the operands of the subtraction are swapped.                    *)
SlipCutoffSwapped ==
  /\ Open /\ cutoff = None
  /\ now > MaxAge
  /\ cutoff' = MaxAge - now
  /\ UNCHANGED <<fileVars, worldVars, rows, stories, pruning, fetchVars, shown, budget>>

PruneStart ==
  /\ Open /\ cutoff = None
  /\ now > MaxAge
  /\ cutoff' = now - MaxAge
  /\ UNCHANGED <<fileVars, worldVars, rows, stories, pruning, fetchVars, shown, budget>>

PruneEntries ==
  /\ cutoff # None /\ ~pruning
  /\ rows' = {r \in rows : r.at >= cutoff}
  /\ LET Left(H) == [s \in Sources |-> {c \in H[s] : c.job.item \in Keys => c.job.at >= cutoff}]
     IN  carried' = Left(carried) /\ told' = Left(told)
  /\ pruning' = TRUE
  /\ UNCHANGED <<fileVars, worldVars, stories, cutoff, busy, todo, shown, budget>>

Pruned == {u \in Urls : stories[u].at < cutoff}

PruneNews ==
  /\ pruning
  /\ stories' = [u \in Urls |-> IF u \in Pruned THEN Unknown ELSE stories[u]]
  /\ LET Left(H) == [s \in Sources |-> {c \in H[s] : c.job.item \notin Pruned}]
     IN  carried' = Left(carried) /\ told' = Left(told)
  /\ cutoff' = None /\ pruning' = FALSE
  /\ UNCHANGED <<fileVars, worldVars, rows, busy, todo, shown, budget>>

PruneFails ==
  /\ cutoff # None
  /\ Spend("mishaps")
  /\ cutoff' = None /\ pruning' = FALSE
  /\ UNCHANGED <<fileVars, worldVars, rows, stories, fetchVars, shown>>

-----------------------------------------------------------------------------
(* Queries.                                                                *)

Newest(R) == {r \in R : \A q \in R : q.at <= r.at}
Latest(k) == Newest({r \in rows : r.key = k})

(* mc_db_get_latest_entries: the row of rank 1 by fetched_at.  Of several  *)
(* rows of one second any may be it.                                       *)
QueryLatest(k) ==
  /\ Open /\ MutexFree
  /\ \E r \in Latest(k) : shown' = [shown EXCEPT ![k] = r.at]
  /\ UNCHANGED <<fileVars, worldVars, rows, stories, pruneVars, fetchVars, budget>>

(* mc_db_get_entry_history: the rows of a symbol by timestamp, whatever    *)
(* the source; its first row is the price.                                 *)
QueryHistory(sym) ==
  /\ Open /\ MutexFree
  /\ \E r \in Newest({q \in rows : Symbol[q.key] = sym}) : shown' = [shown EXCEPT ![r.key] = r.at]
  /\ UNCHANGED <<fileVars, worldVars, rows, stories, pruneVars, fetchVars, budget>>

-----------------------------------------------------------------------------
(* The world.                                                              *)

(* No item waits longer than MaxDelay for its insert.                      *)
Tick ==
  /\ now < MaxTime
  /\ \A s \in Sources : \A x \in Range(todo[s]) : now - x.at < MaxDelay
  /\ now' = now + 1
  /\ UNCHANGED <<fileVars, edition, rows, stories, pruneVars, fetchVars, shown, budget>>

(* A price moves; an event happens and its actual value is known.          *)
Change(i) ==
  /\ Spend("editions")
  /\ \E e \in Editions \ {edition[i]} : edition' = [edition EXCEPT ![i] = e]
  /\ UNCHANGED <<fileVars, now, rows, stories, pruneVars, fetchVars, shown>>

Next ==
  \/ OpenFile \/ Create \/ CreateFails \/ Alter \/ AlterFails \/ Crash
  \/ \E s \in Sources : Fetch(s) \/ Store(s) \/ Report(s)
  \/ PruneStart \/ PruneEntries \/ PruneNews \/ PruneFails
  \/ \E k \in Keys : QueryLatest(k) \/ QueryHistory(Symbol[k])
  \/ Tick
  \/ \E i \in Moving : Change(i)

Spec == Init /\ [][Next]_vars

-----------------------------------------------------------------------------
(* Properties.                                                             *)

Row == [key : Keys, value : Editions, at : 0..MaxTime]

(* The type invariant.                                                     *)
TypeOK ==
  /\ schema \subseteq Whole /\ step \in 0..(Len(Migration) + 1) /\ faulty \in BOOLEAN
  /\ now \in 0..MaxTime /\ edition \in [Items -> Editions]
  /\ rows \subseteq Row
  /\ stories \in [Urls -> [text : Editions \cup {0}, region : Range(Region) \cup {NoRegion},
                           at : (0..MaxTime) \cup {None}]]
  /\ cutoff \in (0..MaxTime) \cup {None} /\ pruning \in BOOLEAN
  /\ busy \in [Sources -> BOOLEAN]
  /\ \A s \in Sources : \A x \in Range(todo[s]) : x.at <= now /\ now - x.at <= MaxDelay
  /\ \A s \in Sources : \A c \in carried[s] \cup told[s] : c.job.item \in Range(Delivers[s])
  /\ shown \in [Keys -> (0..MaxTime) \cup {None}]

(* Whatever version the file is of, and wherever earlier starts died, a    *)
(* daemon that has migrated it finds every table and column, unless a      *)
(* statement has failed for a reason of its own.                           *)
SchemaWhole == Open /\ ~faulty => schema = Whole

(* The row of a delivery: that of the price, value and second; that of the *)
(* story, with a region if the source has one.                             *)
Stored(x) ==
  /\ x.item \in Keys => [key |-> x.item, value |-> x.ed, at |-> x.at] \in rows
  /\ x.item \in Urls => /\ stories[x.item] # Unknown
                        /\ x.region # NoRegion => stories[x.item].region # NoRegion

(* A status row of success does not say that anything was stored: it is    *)
(* written whatever the inserts have returned (scheduler.c:226-231).  But  *)
(* what the last such fetch delivered is in the tables, until it is pruned,*)
(* but for what SQLite itself refused: a known story, a refused item or    *)
(* another thread's batch does not keep an item out, and the row is        *)
(* written when all have been tried.                                       *)
OnlyRefusedMissing ==
  \A s \in Sources : \A c \in told[s] : c.refused \/ Stored(c.job)

(* Clients never see a price go back to an older second, though items are  *)
(* stored late, out of order, and by several threads, and old rows go.     *)
NeverShownOlder == [][\A k \in Keys : shown'[k] >= shown[k]]_vars

(* The tables implement the board, crashes, faults and all.                *)
Mapped(k) == [at |-> IF Latest(k) = {} THEN None ELSE (CHOOSE r \in Latest(k) : TRUE).at,
              values |-> {r.value : r \in Latest(k)}]

B == INSTANCE Board WITH latest <- [k \in Keys |-> Mapped(k)],
                         Regions <- Range(Region) \cup {NoRegion}
BoardSpec == B!Spec

(* What a calendar has delivered last is what is served: "Unique URL for   *)
(* upsert" (fetch_rest.c:634).                                             *)
CalendarCurrent ==
  \A s \in Sources : \A c \in told[s] :
    ~busy[s] /\ c.job.item \in Urls => stories[c.job.item].text = c.job.ed
=============================================================================
