------------------------------- MODULE Snapshot -------------------------------
(***************************************************************************)
(* The snapshot of the scheduler (backend/src/scheduler.c, update_snapshot *)
(* and the two getters): every thread that has stored data calls           *)
(* update_snapshot, which copies the latest rows from the database into a  *)
(* buffer, category by category, and publishes the buffer under a          *)
(* read-write lock; the API threads copy the published arrays out.         *)
(*                                                                         *)
(* What a category holds is a version, with the number of rows it has: an  *)
(* insert that adds a row, or a prune, makes a new version.  Times are     *)
(* relative: `since' is the age of last_snapshot_time and age[u] the age   *)
(* of the clock value thread u has read, so that no counter runs away.     *)
(***************************************************************************)
EXTENDS Integers

CONSTANTS
  Updaters,    \* threads that call update_snapshot
  Pruner,      \* the prune thread, the one that calls it regularly
  Readers,     \* threads that call mc_scheduler_get_entries and _get_news
  NCat,        \* the entry categories 1..NCat, in the order of the loop
  MaxEntries,  \* MAX_SNAPSHOT_ENTRIES
  MaxNews,     \* MAX_SNAPSHOT_NEWS
  MaxCount,    \* max_count of the readers
  Throttle,    \* SNAPSHOT_THROTTLE_SEC
  RowsAt,      \* RowsAt[c][v]: the rows of category c at version v
  MaxVersion,  \* bound: versions of a category
  MaxStall,    \* bound: seconds from reading the clock to publishing
  MaxFaults    \* bound: failures of malloc and of queries, in all

News == 0                     \* the news are queried last
Categories == 1..NCat
All == Categories \cup {News}

ASSUME SizesAssumption ==
  /\ NCat \in Nat /\ MaxEntries \in Nat /\ MaxNews \in Nat /\ MaxCount \in Nat
  /\ MaxVersion \in Nat /\ MaxStall \in Nat /\ MaxFaults \in Nat
  /\ Throttle \in Nat \ {0}
  /\ DOMAIN RowsAt = All
  /\ \A c \in All : \E n \in 0..MaxVersion : RowsAt[c] \in [0..n -> Nat]
NoThread == "none"
ASSUME ThreadsAssumption == Pruner \in Updaters /\ NoThread \notin Updaters

VARIABLES
  db,          \* the version of each category in the database
  since,       \* now - last_snapshot_time, no more than SinceCap
  upc,         \* where each updater is
  age,         \* seconds since the updater read the clock
  at,          \* the loop variable cat
  tmpEntries,  \* the updater's buffer: what it took of each category, and how much
  tmpNews,
  writer,      \* who holds snapshot_lock for writing
  readLocks,   \* who holds it for reading
  entries, entry_count, news, news_count,    \* the published snapshot
  rpc, kind, out, outCount,                  \* a reader's call and its result
  faults,      \* failures so far
  overrun      \* history: an update has taken as long as the throttle's period

lockVars == <<writer, readLocks>>
snapVars == <<entries, entry_count, news, news_count>>
fillVars == <<at, tmpEntries, tmpNews>>
readVars == <<rpc, kind, out, outCount>>
vars == <<db, since, upc, age, at, tmpEntries, tmpNews, writer, readLocks,
          entries, entry_count, news, news_count, rpc, kind, out, outCount,
          faults, overrun>>

SinceCap == Throttle + MaxStall

MinOf(a, b) == IF a <= b THEN a ELSE b

Piece == [ver : 0..MaxVersion, n : Nat]
Blank == [ver |-> 0, n |-> 0]
(* A buffer of entries: its pieces in category order, and its row count.   *)
Buffer == [pieces : [Categories -> Piece], total : Nat]
EmptyBuffer == [pieces |-> [c \in Categories |-> Blank], total |-> 0]

UpdaterPc == {"idle", "throttle", "alloc", "fill", "lock", "entries", "news"}
ReaderPc == {"idle", "count", "copy", "unlock"}

Init ==
  /\ db = [c \in All |-> 0]
  /\ since = SinceCap        \* last_snapshot_time = 0, long ago
  /\ upc = [u \in Updaters |-> "idle"]
  /\ age = [u \in Updaters |-> 0]
  /\ at = [u \in Updaters |-> 1]
  /\ tmpEntries = [u \in Updaters |-> EmptyBuffer]
  /\ tmpNews = [u \in Updaters |-> Blank]
  /\ writer = NoThread /\ readLocks = {}
  /\ entries = EmptyBuffer /\ entry_count = 0
  /\ news = Blank /\ news_count = 0
  /\ rpc = [r \in Readers |-> "idle"]
  /\ kind = [r \in Readers |-> "entries"]
  /\ out = [r \in Readers |-> 0]
  /\ outCount = [r \in Readers |-> 0]
  /\ faults = 0
  /\ overrun = FALSE

UGoto(u, l) == upc' = [upc EXCEPT ![u] = l]
RGoto(r, l) == rpc' = [rpc EXCEPT ![r] = l]

Rows(c) == RowsAt[c][db[c]]
HasNext(c) == db[c] + 1 \in DOMAIN RowsAt[c]
RowsNext(c) == RowsAt[c][db[c] + 1]
Remaining(u) == MaxEntries - tmpEntries[u].total

-----------------------------------------------------------------------------
(* Slips: steps with one plausible mistake, which the properties notice;   *)
(* no step uses them.                                                      *)

(* A failed query returns -1, as other calls do, and the sum takes it.     *)
SlipFailedIsMinusOne(u) ==
  /\ upc[u] = "fill"
  /\ at[u] \in Categories
  /\ Remaining(u) > 0
  /\ faults < MaxFaults
  /\ faults' = faults + 1
  /\ at' = [at EXCEPT ![u] = @ + 1]
  /\ tmpEntries' = [tmpEntries EXCEPT ![u].total = @ - 1]
  /\ UNCHANGED <<db, since, upc, age, tmpNews, lockVars, snapVars, readVars, overrun>>

(* Every query may fill the whole buffer.                                  *)
SlipWholeBuffer(u) ==
  /\ upc[u] = "fill"
  /\ at[u] \in Categories
  /\ Remaining(u) > 0
  /\ LET c == at[u]
         n == MinOf(Rows(c), MaxEntries)
     IN  /\ tmpEntries' = [tmpEntries EXCEPT
                             ![u].pieces[c] = [ver |-> db[c], n |-> n],
                             ![u].total = @ + n]
         /\ at' = [at EXCEPT ![u] = c + 1]
  /\ UNCHANGED <<db, since, upc, age, tmpNews, lockVars, snapVars, readVars,
                 faults, overrun>>

(* The snapshot is written under a read lock.                              *)
SlipReadLockToWrite(u) ==
  /\ upc[u] = "lock"
  /\ writer = NoThread
  /\ writer' = u
  /\ UGoto(u, "entries")
  /\ UNCHANGED <<db, since, age, fillVars, readLocks, snapVars, readVars,
                 faults, overrun>>

(* The throttle is tested but last_snapshot_time is not set with it.       *)
SlipTestWithoutSet(u) ==
  /\ upc[u] = "throttle"
  /\ since - age[u] >= Throttle
  /\ UGoto(u, "alloc")
  /\ UNCHANGED <<db, since, age, fillVars, lockVars, snapVars, readVars, faults, overrun>>

(* The entries are stored only if their number has changed.                *)
SlipStoreIfCountChanged(u) ==
  /\ upc[u] = "entries"
  /\ IF tmpEntries[u].total # entry_count
       THEN entries' = tmpEntries[u] /\ entry_count' = tmpEntries[u].total
       ELSE UNCHANGED <<entries, entry_count>>
  /\ UGoto(u, "news")
  /\ UNCHANGED <<db, since, age, fillVars, lockVars, news, news_count, readVars,
                 faults, overrun>>

-----------------------------------------------------------------------------
(* The database changes, and time passes.                                  *)

(* Some thread inserts a row of category c: a new latest row, or one more. *)
Insert(c) ==
  /\ HasNext(c)
  /\ RowsNext(c) >= Rows(c) /\ RowsNext(c) > 0
  /\ db' = [db EXCEPT ![c] = @ + 1]
  /\ UNCHANGED <<since, upc, age, fillVars, lockVars, snapVars, readVars, faults, overrun>>

(* mc_db_prune_old: the old rows of both tables go, at once.               *)
Prune ==
  /\ upc[Pruner] = "idle"
  /\ \E S \in SUBSET All \ {{}} :
       /\ \A c \in S : HasNext(c) /\ RowsNext(c) < Rows(c)
       /\ db' = [c \in All |-> IF c \in S THEN db[c] + 1 ELSE db[c]]
  /\ UNCHANGED <<since, upc, age, fillVars, lockVars, snapVars, readVars, faults, overrun>>

Active(u) == upc[u] \notin {"idle", "throttle"}

Tick ==
  /\ \A u \in Updaters : upc[u] # "idle" => age[u] < MaxStall
  /\ since' = MinOf(since + 1, SinceCap)
  /\ age' = [u \in Updaters |-> IF upc[u] = "idle" THEN 0 ELSE age[u] + 1]
  /\ overrun' = (overrun \/ \E u \in Updaters : Active(u) /\ age[u] + 1 >= Throttle)
  /\ UNCHANGED <<db, upc, fillVars, lockVars, snapVars, readVars, faults>>

-----------------------------------------------------------------------------
(* update_snapshot.                                                        *)

(* time_t now = time(NULL), before the throttle's mutex is taken.          *)
ReadClock(u) ==
  /\ upc[u] = "idle"
  /\ UGoto(u, "throttle")
  /\ UNCHANGED <<db, since, age, fillVars, lockVars, snapVars, readVars, faults, overrun>>

(* Less than Throttle seconds after the last update there is none.         *)
Skip(u) ==
  /\ upc[u] = "throttle"
  /\ since - age[u] < Throttle
  /\ age' = [age EXCEPT ![u] = 0]
  /\ UGoto(u, "idle")
  /\ UNCHANGED <<db, since, fillVars, lockVars, snapVars, readVars, faults, overrun>>

(* Otherwise last_snapshot_time becomes the `now' that was read.           *)
Admit(u) ==
  /\ upc[u] = "throttle"
  /\ since - age[u] >= Throttle
  /\ since' = age[u]
  /\ UGoto(u, "alloc")
  /\ overrun' = (overrun \/ age[u] >= Throttle)
  /\ UNCHANGED <<db, age, fillVars, lockVars, snapVars, readVars, faults>>

(* The buffers are allocated, or the update is given up: the slot of the   *)
(* throttle is used up all the same.                                       *)
Allocate(u) ==
  /\ upc[u] = "alloc"
  /\ \/ /\ UGoto(u, "fill")
        /\ UNCHANGED <<age, faults>>
     \/ /\ faults < MaxFaults
        /\ faults' = faults + 1
        /\ age' = [age EXCEPT ![u] = 0]
        /\ UGoto(u, "idle")
  /\ at' = [at EXCEPT ![u] = 1]
  /\ tmpEntries' = [tmpEntries EXCEPT ![u] = EmptyBuffer]
  /\ tmpNews' = [tmpNews EXCEPT ![u] = Blank]
  /\ UNCHANGED <<db, since, lockVars, snapVars, readVars, overrun>>

(* One query of the loop: at most as many rows as the buffer has room for. *)
QueryCategory(u) ==
  /\ upc[u] = "fill"
  /\ at[u] \in Categories
  /\ Remaining(u) > 0
  /\ LET c == at[u]
         n == MinOf(Rows(c), Remaining(u))
     IN  /\ tmpEntries' = [tmpEntries EXCEPT
                             ![u].pieces[c] = [ver |-> db[c], n |-> n],
                             ![u].total = @ + n]
         /\ at' = [at EXCEPT ![u] = c + 1]
  /\ UNCHANGED <<db, since, upc, age, tmpNews, lockVars, snapVars, readVars, faults, overrun>>

(* A query that fails yields no rows, and the loop goes on.                *)
QueryFails(u) ==
  /\ upc[u] = "fill"
  /\ at[u] \in Categories
  /\ Remaining(u) > 0
  /\ faults < MaxFaults
  /\ faults' = faults + 1
  /\ at' = [at EXCEPT ![u] = @ + 1]
  /\ UNCHANGED <<db, since, upc, age, tmpEntries, tmpNews, lockVars, snapVars, readVars, overrun>>

(* After the loop, or out of it when the buffer is full, the news.  Their  *)
(* decay and sort change the order of the rows only.                       *)
QueryNews(u) ==
  /\ upc[u] = "fill"
  /\ at[u] \notin Categories \/ Remaining(u) <= 0
  /\ tmpNews' = [tmpNews EXCEPT ![u] =
                   [ver |-> db[News], n |-> MinOf(Rows(News), MaxNews)]]
  /\ UGoto(u, "lock")
  /\ UNCHANGED <<db, since, age, at, tmpEntries, lockVars, snapVars, readVars, faults, overrun>>

QueryNewsFails(u) ==
  /\ upc[u] = "fill"
  /\ at[u] \notin Categories \/ Remaining(u) <= 0
  /\ faults < MaxFaults
  /\ faults' = faults + 1
  /\ UGoto(u, "lock")
  /\ UNCHANGED <<db, since, age, fillVars, lockVars, snapVars, readVars, overrun>>

WriteLock(u) ==
  /\ upc[u] = "lock"
  /\ writer = NoThread /\ readLocks = {}
  /\ writer' = u
  /\ UGoto(u, "entries")
  /\ UNCHANGED <<db, since, age, fillVars, readLocks, snapVars, readVars, faults, overrun>>

PublishEntries(u) ==
  /\ upc[u] = "entries"
  /\ entries' = tmpEntries[u]
  /\ entry_count' = tmpEntries[u].total
  /\ UGoto(u, "news")
  /\ UNCHANGED <<db, since, age, fillVars, lockVars, news, news_count, readVars,
                 faults, overrun>>

(* The last stores, the unlock and the two free calls.                     *)
PublishNews(u) ==
  /\ upc[u] = "news"
  /\ news' = tmpNews[u]
  /\ news_count' = tmpNews[u].n
  /\ writer' = NoThread
  /\ at' = [at EXCEPT ![u] = 1]
  /\ tmpEntries' = [tmpEntries EXCEPT ![u] = EmptyBuffer]
  /\ tmpNews' = [tmpNews EXCEPT ![u] = Blank]
  /\ age' = [age EXCEPT ![u] = 0]
  /\ UGoto(u, "idle")
  /\ UNCHANGED <<db, since, readLocks, entries, entry_count, readVars, faults,
                 overrun>>

Update(u) ==
  \/ Skip(u) \/ Admit(u) \/ Allocate(u)
  \/ QueryCategory(u) \/ QueryFails(u) \/ QueryNews(u) \/ QueryNewsFails(u)
  \/ PublishEntries(u) \/ PublishNews(u)

-----------------------------------------------------------------------------
(* mc_scheduler_get_entries and mc_scheduler_get_news.                     *)

ReadLock(r) ==
  /\ rpc[r] = "idle"
  /\ writer = NoThread
  /\ readLocks' = readLocks \cup {r}
  /\ kind' \in {[kind EXCEPT ![r] = k] : k \in {"entries", "news"}}
  /\ RGoto(r, "count")
  /\ UNCHANGED <<db, since, upc, age, fillVars, writer, snapVars, out, outCount, faults, overrun>>

(* n is the count, or max_count if that is less.                           *)
ReadCount(r) ==
  /\ rpc[r] = "count"
  /\ outCount' = [outCount EXCEPT ![r] =
       MinOf(IF kind[r] = "entries" THEN entry_count ELSE news_count, MaxCount)]
  /\ RGoto(r, "copy")
  /\ UNCHANGED <<db, since, upc, age, fillVars, lockVars, snapVars, kind, out, faults, overrun>>

(* The memcpy; what the model keeps of it is how many rows the array has   *)
(* that the copy is taken from.                                            *)
ReadCopy(r) ==
  /\ rpc[r] = "copy"
  /\ out' = [out EXCEPT ![r] = IF kind[r] = "entries" THEN entries.total ELSE news.n]
  /\ RGoto(r, "unlock")
  /\ UNCHANGED <<db, since, upc, age, fillVars, lockVars, snapVars, kind, outCount, faults, overrun>>

(* The call returns; what it returned is gone.                             *)
ReadUnlock(r) ==
  /\ rpc[r] = "unlock"
  /\ readLocks' = readLocks \ {r}
  /\ out' = [out EXCEPT ![r] = 0]
  /\ outCount' = [outCount EXCEPT ![r] = 0]
  /\ kind' = [kind EXCEPT ![r] = "entries"]
  /\ RGoto(r, "idle")
  /\ UNCHANGED <<db, since, upc, age, fillVars, writer, snapVars, faults, overrun>>

Read(r) == ReadCount(r) \/ ReadCopy(r) \/ ReadUnlock(r)

-----------------------------------------------------------------------------
Next ==
  \/ \E c \in All : Insert(c)
  \/ Prune
  \/ Tick
  \/ \E u \in Updaters : ReadClock(u) \/ Update(u) \/ WriteLock(u)
  \/ \E r \in Readers : ReadLock(r) \/ Read(r)

(***************************************************************************)
(* Fairness: time passes, threads run, a reader leaves the lock, a writer  *)
(* gets it (readers come and go one by one: the lock is free again and     *)
(* again), and the prune thread calls update_snapshot every two minutes,   *)
(* which need not be when the throttle lets it through.                    *)
(***************************************************************************)
Fairness ==
  /\ WF_vars(Tick)
  /\ WF_vars(ReadClock(Pruner))
  /\ \A u \in Updaters : WF_vars(Update(u)) /\ SF_vars(WriteLock(u))
  /\ \A r \in Readers : WF_vars(Read(r))

Spec == Init /\ [][Next]_vars

FairSpec == Spec /\ Fairness

-----------------------------------------------------------------------------
(* Properties.                                                             *)

(* The type invariant.                                                     *)
TypeOK ==
  /\ db \in [All -> 0..MaxVersion]
  /\ since \in 0..SinceCap
  /\ upc \in [Updaters -> UpdaterPc]
  /\ age \in [Updaters -> 0..MaxStall]
  /\ at \in [Updaters -> 1..(NCat + 1)]
  /\ tmpEntries \in [Updaters -> Buffer]
  /\ tmpNews \in [Updaters -> Piece]
  /\ writer \in Updaters \cup {NoThread}
  /\ readLocks \subseteq Readers
  /\ entries \in Buffer /\ entry_count \in Nat
  /\ news \in Piece /\ news_count \in Nat
  /\ rpc \in [Readers -> ReaderPc]
  /\ kind \in [Readers -> {"entries", "news"}]
  /\ out \in [Readers -> Nat] /\ outCount \in [Readers -> Nat]
  /\ faults \in 0..MaxFaults
  /\ overrun \in BOOLEAN

(* An API thread never takes a count and an array of different snapshots:  *)
(* it copies as many rows as the array it copies from has, up to its own   *)
(* limit.                                                                  *)
ReaderConsistent ==
  \A r \in Readers :
    rpc[r] = "unlock" => outCount[r] = MinOf(out[r], MaxCount)

(* The queries never write past the buffers, and the memcpy never past the *)
(* snapshot's arrays.                                                      *)
WithinBuffers ==
  /\ \A u \in Updaters : tmpEntries[u].total <= MaxEntries /\ tmpNews[u].n <= MaxNews
  /\ entry_count <= MaxEntries /\ news_count <= MaxNews

(* The throttle keeps updates apart: two of them fill or publish at the    *)
(* same time only if one has taken as long as the throttle's period.       *)
OneUpdateAtATime ==
  \A u, v \in Updaters :
    u # v /\ Active(u) /\ Active(v) => age[u] >= Throttle \/ age[v] >= Throttle

(* What clients see of a category never goes back to an older version, as  *)
(* long as every update takes less than the throttle's period.  (A failed  *)
(* query blanks the category.)                                             *)
NoRegress ==
  [][~overrun =>
       \A c \in Categories :
         entries'.pieces[c].ver # 0 =>
           entries'.pieces[c].ver >= entries.pieces[c].ver]_vars

(* The rows before category c take the whole buffer.                       *)
Starved(c) == entries.pieces[c] = Blank /\ entry_count >= MaxEntries

(* Stored data reaches the clients, although the update that follows an    *)
(* insert may be throttled, run before the insert is seen, or fail: the    *)
(* prune thread comes by again.  A category may be crowded out.            *)
StoredBecomesVisible ==
  \A c \in Categories, v \in 1..MaxVersion :
    db[c] = v ~> entries.pieces[c].ver >= v \/ Starved(c)
=============================================================================
