---------------------------- MODULE SnapshotProofs ----------------------------
(***************************************************************************)
(* Proofs about Snapshot, for any updaters, readers, categories, sizes and *)
(* periods: the safety properties, and that clients see no category go     *)
(* back in time.  The inductive invariant is IndInv; each action has a     *)
(* lemma that it preserves it.                                             *)
(***************************************************************************)
EXTENDS Snapshot, TLAPS

(* The database is at a version that there is.                             *)
DbInv == \A c \in All : db[c] \in DOMAIN RowsAt[c]

(* Who holds the read-write lock is known by where the threads are.        *)
LockInv ==
  /\ \A u \in Updaters : upc[u] \in {"entries", "news"} <=> writer = u
  /\ writer # NoThread => readLocks = {}
  /\ \A r \in Readers : r \in readLocks <=> rpc[r] # "idle"

(* What a reader has taken is of the snapshot that is there until it has   *)
(* released the lock.                                                      *)
PublishedInv == entry_count = entries.total /\ news_count = news.n
CountOf(r) == IF kind[r] = "entries" THEN entry_count ELSE news_count
ReadInv ==
  \A r \in Readers : rpc[r] = "copy" => outCount[r] = MinOf(CountOf(r), MaxCount)

(* last_snapshot_time is no older than the clock an update was admitted    *)
(* with, and an update as long as the period has been noticed.             *)
ThrottleInv ==
  \A u \in Updaters :
    Active(u) => since <= age[u] /\ (age[u] >= Throttle => overrun)

(* A snapshot being made holds no version that the database has not had,   *)
(* and none that is older than what is published, unless updates overlap.  *)
VersionInv ==
  \A c \in Categories :
    /\ entries.pieces[c].ver <= db[c]
    /\ \A u \in Updaters : upc[u] \in {"fill", "lock", "entries"} =>
         /\ tmpEntries[u].pieces[c].ver <= db[c]
         /\ ~overrun /\ tmpEntries[u].pieces[c].ver # 0 =>
              tmpEntries[u].pieces[c].ver >= entries.pieces[c].ver

IndInv ==
  /\ TypeOK /\ DbInv /\ LockInv /\ PublishedInv /\ ReadInv /\ ReaderConsistent
  /\ WithinBuffers /\ ThrottleInv /\ OneUpdateAtATime /\ VersionInv


-----------------------------------------------------------------------------
(* Facts about the data.                                                   *)

LEMMA VersionsBounded ==
  ASSUME NEW c \in All
  PROVE  /\ DOMAIN RowsAt[c] \subseteq 0..MaxVersion
         /\ \A v \in DOMAIN RowsAt[c] : RowsAt[c][v] \in Nat
  <1>1. PICK n \in 0..MaxVersion : RowsAt[c] \in [0..n -> Nat]
    BY SizesAssumption
  <1>2. QED
    BY <1>1, SizesAssumption

LEMMA BlanksTyped == Blank \in Piece /\ EmptyBuffer \in Buffer
  BY SizesAssumption DEF Blank, Piece, EmptyBuffer, Buffer

LEMMA VersionsAreNumbers ==
  ASSUME TypeOK, NEW c \in Categories
  PROVE  /\ db[c] \in Int /\ entries.pieces[c].ver \in Int
         /\ \A u \in Updaters : tmpEntries[u].pieces[c].ver \in Int
  <1>1. db[c] \in Int
    BY SizesAssumption DEF TypeOK, All
  <1>2. \A b \in Buffer : b.pieces[c] \in Piece
    BY DEF Buffer
  <1>3. \A p \in Piece : p.ver \in Int
    BY SizesAssumption DEF Piece
  <1>4. QED
    BY <1>1, <1>2, <1>3 DEF TypeOK

(* New versions in the database leave the rest as new as it was.           *)
LEMMA NewVersions ==
  ASSUME TypeOK, VersionInv, UNCHANGED <<entries, tmpEntries, upc, overrun>>,
         \A c \in Categories : db'[c] \in Int /\ db'[c] >= db[c]
  PROVE  VersionInv'
  BY VersionsAreNumbers DEF VersionInv

(* A query adds what it takes to the buffer, and there is room for it.     *)
LEMMA QueryTakes ==
  ASSUME TypeOK, DbInv, NEW u \in Updaters, QueryCategory(u)
  PROVE  /\ tmpEntries'[u] \in Buffer
         /\ tmpEntries'[u].total <= MaxEntries
         /\ tmpEntries' = [tmpEntries EXCEPT ![u] = tmpEntries'[u]]
         /\ \A v \in Updaters \ {u} : tmpEntries'[v] = tmpEntries[v]
         /\ \A d \in Categories : \/ tmpEntries'[u].pieces[d] = tmpEntries[u].pieces[d]
                                  \/ tmpEntries'[u].pieces[d].ver = db[d]
  <1> DEFINE c == at[u]
             n == MinOf(Rows(c), Remaining(u))
             b == tmpEntries[u]
  <1>1. c \in Categories /\ c \in All /\ b \in Buffer /\ Remaining(u) > 0
    BY DEF QueryCategory, All, TypeOK
  <1>2. Rows(c) \in Nat /\ db[c] \in 0..MaxVersion
    BY <1>1, VersionsBounded DEF Rows, DbInv, TypeOK
  <1>3. b.total \in Nat /\ n \in Nat /\ b.total + n <= MaxEntries
    BY <1>1, <1>2, SizesAssumption DEF Buffer, MinOf, Remaining
  <1>4. tmpEntries'[u] = [pieces |-> [b.pieces EXCEPT ![c] = [ver |-> db[c], n |-> n]],
                          total |-> b.total + n]
    BY <1>1 DEF QueryCategory, TypeOK, Buffer
  <1>5. tmpEntries' = [tmpEntries EXCEPT ![u] = tmpEntries'[u]]
    BY DEF QueryCategory, TypeOK
  <1>6. [ver |-> db[c], n |-> n] \in Piece
    BY <1>2, <1>3 DEF Piece
  <1>7. b.pieces \in [Categories -> Piece]
    BY <1>1 DEF Buffer
  <1>8. QED
    BY <1>1, <1>3, <1>4, <1>5, <1>6, <1>7 DEF Buffer, TypeOK

-----------------------------------------------------------------------------
(* The database and the clock.                                             *)

LEMMA InsertStep ==
  ASSUME IndInv, NEW c \in All, Insert(c)
  PROVE  IndInv'
  <1>1. TypeOK'
    <2>1. db[c] + 1 \in 0..MaxVersion
      BY VersionsBounded DEF Insert, HasNext
    <2>2. db' \in [All -> 0..MaxVersion]
      BY <2>1 DEF IndInv, TypeOK, Insert
    <2>3. QED
      BY <2>2 DEF IndInv, TypeOK, Insert, fillVars, lockVars, snapVars, readVars
  <1>2. DbInv'
    BY DEF IndInv, DbInv, TypeOK, Insert, HasNext, RowsNext, Rows
  <1>3. VersionInv'
    <2>1. \A d \in Categories : db[d] \in Int
      BY VersionsAreNumbers DEF IndInv
    <2>2. \A d \in Categories : db'[d] \in Int /\ db'[d] >= db[d]
      BY <2>1 DEF IndInv, TypeOK, All, Insert
    <2>3. QED
      BY <2>2, NewVersions DEF IndInv, Insert, fillVars, lockVars, snapVars, readVars
  <1>4. LockInv' /\ PublishedInv' /\ ReadInv' /\ ReaderConsistent'
      /\ WithinBuffers' /\ ThrottleInv' /\ OneUpdateAtATime'
    BY DEF IndInv, LockInv, PublishedInv, ReadInv, CountOf, ReaderConsistent, WithinBuffers,
           ThrottleInv, Active, OneUpdateAtATime, Insert, fillVars, lockVars, snapVars, readVars
  <1>5. QED
    BY <1>1, <1>2, <1>3, <1>4 DEF IndInv

LEMMA PruneStep ==
  ASSUME IndInv, Prune
  PROVE  IndInv'
  <1>1. TypeOK'
    <2>1. db' \in [All -> 0..MaxVersion]
      BY VersionsBounded DEF IndInv, TypeOK, Prune, HasNext
    <2>2. QED
      BY <2>1 DEF IndInv, TypeOK, Prune, fillVars, lockVars, snapVars, readVars
  <1>2. DbInv'
    BY DEF IndInv, DbInv, TypeOK, Prune, HasNext, RowsNext, Rows
  <1>3. VersionInv'
    <2>1. \A d \in Categories : db[d] \in Int
      BY VersionsAreNumbers DEF IndInv
    <2>2. \A d \in Categories : db'[d] \in Int /\ db'[d] >= db[d]
      BY <2>1 DEF IndInv, TypeOK, All, Prune
    <2>3. QED
      BY <2>2, NewVersions DEF IndInv, Prune, fillVars, lockVars, snapVars, readVars
  <1>4. LockInv' /\ PublishedInv' /\ ReadInv' /\ ReaderConsistent'
      /\ WithinBuffers' /\ ThrottleInv' /\ OneUpdateAtATime'
    BY DEF IndInv, LockInv, PublishedInv, ReadInv, CountOf, ReaderConsistent, WithinBuffers,
           ThrottleInv, Active, OneUpdateAtATime, Prune, fillVars, lockVars, snapVars, readVars
  <1>5. QED
    BY <1>1, <1>2, <1>3, <1>4 DEF IndInv

LEMMA TickStep ==
  ASSUME IndInv, Tick
  PROVE  IndInv'
  <1>1. TypeOK'
    <2>1. since' = MinOf(since + 1, SinceCap) /\ since \in 0..SinceCap /\ SinceCap \in Nat
      BY SizesAssumption DEF IndInv, TypeOK, Tick, SinceCap
    <2>2. since' \in 0..SinceCap
      BY <2>1 DEF MinOf
    <2>3. age' \in [Updaters -> 0..MaxStall]
      BY SizesAssumption DEF IndInv, TypeOK, Tick
    <2>5. QED
      BY <2>2, <2>3 DEF IndInv, TypeOK, Tick, fillVars, lockVars, snapVars, readVars
  <1>2. ThrottleInv'
    <2>1. SUFFICES ASSUME NEW u \in Updaters, Active(u)'
                   PROVE  since' <= age'[u] /\ (age'[u] >= Throttle => overrun')
      BY DEF ThrottleInv
    <2>2. Active(u) /\ age'[u] = age[u] + 1
      BY <2>1 DEF IndInv, Active, Tick
    <2>3. age'[u] >= Throttle => overrun'
      BY <2>2 DEF Tick
    <2>5. since <= age[u]
      BY <2>2 DEF IndInv, ThrottleInv
    <2>6. since' <= since + 1 /\ since \in Int /\ age[u] \in Int
      BY SizesAssumption DEF IndInv, TypeOK, MinOf, SinceCap, Tick
    <2>4. since' \in Int
      BY SizesAssumption DEF IndInv, TypeOK, MinOf, SinceCap, Tick
    <2>7. QED
      BY <2>2, <2>3, <2>5, <2>6, <2>4
  <1>3. OneUpdateAtATime'
    <2>1. \A u \in Updaters : Active(u)' => Active(u) /\ age'[u] = age[u] + 1 /\ age[u] \in Int
      BY SizesAssumption DEF IndInv, TypeOK, Active, Tick
    <2>2. QED
      BY <2>1, SizesAssumption DEF IndInv, OneUpdateAtATime
  <1>4. VersionInv'
    BY DEF IndInv, TypeOK, VersionInv, Tick, fillVars, lockVars, snapVars, readVars
  <1>5. DbInv' /\ LockInv' /\ PublishedInv' /\ ReadInv' /\ ReaderConsistent' /\ WithinBuffers'
    BY DEF IndInv, DbInv, LockInv, PublishedInv, ReadInv, CountOf, ReaderConsistent,
           WithinBuffers, Tick, fillVars, lockVars, snapVars, readVars
  <1>6. QED
    BY <1>1, <1>2, <1>3, <1>4, <1>5 DEF IndInv

-----------------------------------------------------------------------------
(* The steps of an update.                                                 *)

LEMMA ReadClockStep ==
  ASSUME IndInv, NEW u \in Updaters, ReadClock(u)
  PROVE  IndInv'
  <1>1. TypeOK'
    BY DEF IndInv, TypeOK, UpdaterPc, ReadClock, UGoto, fillVars, lockVars, snapVars, readVars
  <1>2. LockInv'
    BY ThreadsAssumption
      DEF IndInv, TypeOK, LockInv, ReadClock, UGoto, fillVars, lockVars, snapVars, readVars
  <1>3. ThrottleInv'
    BY DEF IndInv, TypeOK, ThrottleInv, Active, ReadClock, UGoto, fillVars, lockVars,
           snapVars, readVars
  <1>4. OneUpdateAtATime'
    BY DEF IndInv, TypeOK, OneUpdateAtATime, Active, ReadClock, UGoto, fillVars, lockVars,
           snapVars, readVars
  <1>5. VersionInv'
    BY DEF IndInv, TypeOK, VersionInv, ReadClock, UGoto, fillVars, lockVars, snapVars, readVars
  <1>6. DbInv' /\ PublishedInv' /\ ReadInv' /\ ReaderConsistent' /\ WithinBuffers'
    BY DEF IndInv, DbInv, PublishedInv, ReadInv, CountOf, ReaderConsistent, WithinBuffers,
           ReadClock, UGoto, fillVars, lockVars, snapVars, readVars
  <1>7. QED
    BY <1>1, <1>2, <1>3, <1>4, <1>5, <1>6 DEF IndInv

LEMMA SkipStep ==
  ASSUME IndInv, NEW u \in Updaters, Skip(u)
  PROVE  IndInv'
  <1>1. TypeOK'
    <2>1. age' \in [Updaters -> 0..MaxStall]
      BY SizesAssumption DEF IndInv, TypeOK, Skip
    <2>2. upc' \in [Updaters -> UpdaterPc]
      BY DEF IndInv, TypeOK, UpdaterPc, Skip, UGoto
    <2>3. QED
      BY <2>1, <2>2 DEF IndInv, TypeOK, Skip, UGoto, fillVars, lockVars, snapVars, readVars
  <1>2. LockInv'
    BY ThreadsAssumption
      DEF IndInv, TypeOK, LockInv, Skip, UGoto, fillVars, lockVars, snapVars, readVars
  <1>3. ThrottleInv'
    BY DEF IndInv, TypeOK, ThrottleInv, Active, Skip, UGoto, fillVars, lockVars, snapVars,
           readVars
  <1>4. OneUpdateAtATime'
    BY DEF IndInv, TypeOK, OneUpdateAtATime, Active, Skip, UGoto, fillVars, lockVars,
           snapVars, readVars
  <1>5. VersionInv'
    BY DEF IndInv, TypeOK, VersionInv, Skip, UGoto, fillVars, lockVars, snapVars, readVars
  <1>6. DbInv' /\ PublishedInv' /\ ReadInv' /\ ReaderConsistent' /\ WithinBuffers'
    BY DEF IndInv, DbInv, PublishedInv, ReadInv, CountOf, ReaderConsistent, WithinBuffers,
           Skip, UGoto, fillVars, lockVars, snapVars, readVars
  <1>7. QED
    BY <1>1, <1>2, <1>3, <1>4, <1>5, <1>6 DEF IndInv

LEMMA AdmitStep ==
  ASSUME IndInv, NEW u \in Updaters, Admit(u)
  PROVE  IndInv'
  <1>1. TypeOK'
    <2>1. since' \in 0..SinceCap /\ overrun' \in BOOLEAN
      BY SizesAssumption DEF IndInv, TypeOK, SinceCap, Admit
    <2>2. upc' \in [Updaters -> UpdaterPc]
      BY DEF IndInv, TypeOK, UpdaterPc, Admit, UGoto
    <2>3. QED
      BY <2>1, <2>2 DEF IndInv, TypeOK, Admit, UGoto, fillVars, lockVars, snapVars, readVars
  <1>2. LockInv'
    BY ThreadsAssumption
      DEF IndInv, TypeOK, LockInv, Admit, UGoto, fillVars, lockVars, snapVars, readVars
  <1>3. ThrottleInv'
    <2>1. SUFFICES ASSUME NEW v \in Updaters, Active(v)'
                   PROVE  since' <= age'[v] /\ (age'[v] >= Throttle => overrun')
      BY DEF ThrottleInv
    <2>2. age[u] \in Int /\ age[v] \in Int /\ since \in Int /\ since' = age[u] /\ age' = age
      BY SizesAssumption DEF IndInv, TypeOK, Admit
    <2>3. age[u] < since
      BY <2>2, SizesAssumption DEF Admit
    <2>4. overrun \/ age[u] >= Throttle => overrun'
      BY Zenon DEF Admit
    <2>5. CASE v = u
      BY <2>2, <2>4, <2>5
    <2>6. CASE v # u
      <3>1. Active(v)
        BY <2>1, <2>6 DEF IndInv, TypeOK, Active, Admit, UGoto
      <3>2. since <= age[v] /\ (age[v] >= Throttle => overrun)
        BY <3>1 DEF IndInv, ThrottleInv
      <3>3. QED
        BY <3>2, <2>2, <2>3, <2>4
    <2>7. QED
      BY <2>5, <2>6
  <1>4. OneUpdateAtATime'
    <2>1. \A v \in Updaters \ {u} : Active(v)' => Active(v) /\ age[v] \in Int /\ since <= age[v]
      BY SizesAssumption DEF IndInv, TypeOK, ThrottleInv, Active, Admit, UGoto
    <2>2. since >= Throttle /\ since \in Int /\ age' = age
      BY SizesAssumption DEF IndInv, TypeOK, Admit
    <2>3. QED
      BY <2>1, <2>2, SizesAssumption DEF IndInv, OneUpdateAtATime
  <1>5. VersionInv'
    BY DEF IndInv, TypeOK, VersionInv, Admit, UGoto, fillVars, lockVars, snapVars, readVars
  <1>6. DbInv' /\ PublishedInv' /\ ReadInv' /\ ReaderConsistent' /\ WithinBuffers'
    BY DEF IndInv, DbInv, PublishedInv, ReadInv, CountOf, ReaderConsistent, WithinBuffers,
           Admit, UGoto, fillVars, lockVars, snapVars, readVars
  <1>7. QED
    BY <1>1, <1>2, <1>3, <1>4, <1>5, <1>6 DEF IndInv

LEMMA AllocateStep ==
  ASSUME IndInv, NEW u \in Updaters, Allocate(u)
  PROVE  IndInv'
  <1>1. TypeOK'
    <2>1. age' \in [Updaters -> 0..MaxStall]
      <3>1. age \in [Updaters -> 0..MaxStall] /\ 0 \in 0..MaxStall
        BY SizesAssumption DEF IndInv, TypeOK
      <3>2. age' = age \/ age' = [age EXCEPT ![u] = 0]
        BY DEF Allocate
      <3>3. QED
        BY <3>1, <3>2
    <2>2. faults' \in 0..MaxFaults
      BY SizesAssumption DEF IndInv, TypeOK, Allocate
    <2>3. upc' \in [Updaters -> UpdaterPc]
      BY DEF IndInv, TypeOK, UpdaterPc, Allocate, UGoto
    <2>4. at' \in [Updaters -> 1..(NCat + 1)]
      BY SizesAssumption DEF IndInv, TypeOK, Allocate
    <2>5. tmpEntries' \in [Updaters -> Buffer] /\ tmpNews' \in [Updaters -> Piece]
      BY BlanksTyped DEF IndInv, TypeOK, Allocate
    <2>6. QED
      BY <2>1, <2>2, <2>3, <2>4, <2>5 DEF IndInv, TypeOK, Allocate, UGoto, lockVars, snapVars, readVars
  <1>2. LockInv'
    BY ThreadsAssumption
      DEF IndInv, TypeOK, LockInv, Allocate, UGoto, lockVars, snapVars, readVars
  <1>3. WithinBuffers'
    BY SizesAssumption
      DEF IndInv, TypeOK, WithinBuffers, EmptyBuffer, Blank, Allocate, UGoto, lockVars,
          snapVars, readVars
  <1>4. ThrottleInv'
    BY DEF IndInv, TypeOK, ThrottleInv, Active, Allocate, UGoto, lockVars, snapVars, readVars
  <1>5. OneUpdateAtATime'
    <2>1. \A v \in Updaters : Active(v)' => Active(v) /\ age'[v] = age[v]
      BY DEF IndInv, TypeOK, Active, Allocate, UGoto
    <2>2. QED
      BY <2>1 DEF IndInv, OneUpdateAtATime
  <1>6. VersionInv'
    <2>1. \A d \in Categories : tmpEntries'[u].pieces[d].ver = 0
      BY DEF IndInv, TypeOK, EmptyBuffer, Blank, Allocate
    <2>2. \A v \in Updaters \ {u} : upc'[v] = upc[v] /\ tmpEntries'[v] = tmpEntries[v]
      BY DEF IndInv, TypeOK, Allocate, UGoto
    <2>3. \A d \in Categories : db'[d] = db[d] /\ db[d] >= 0
      BY SizesAssumption DEF IndInv, TypeOK, All, Allocate
    <2>4. entries' = entries /\ overrun' = overrun
      BY DEF Allocate, snapVars
    <2>5. QED
      BY <2>1, <2>2, <2>3, <2>4 DEF IndInv, VersionInv
  <1>7. DbInv' /\ PublishedInv' /\ ReadInv' /\ ReaderConsistent'
    BY DEF IndInv, DbInv, PublishedInv, ReadInv, CountOf, ReaderConsistent, Allocate, UGoto,
           lockVars, snapVars, readVars
  <1>8. QED
    BY <1>1, <1>2, <1>3, <1>4, <1>5, <1>6, <1>7 DEF IndInv

LEMMA QueryCategoryStep ==
  ASSUME IndInv, NEW u \in Updaters, QueryCategory(u)
  PROVE  IndInv'
  <1>1. TypeOK'
    <2>1. at' = [at EXCEPT ![u] = at[u] + 1] /\ at[u] \in 1..NCat
      BY DEF QueryCategory, Categories
    <2>2. at' \in [Updaters -> 1..(NCat + 1)]
      BY <2>1, SizesAssumption DEF IndInv, TypeOK
    <2>3. tmpEntries' \in [Updaters -> Buffer]
      BY QueryTakes DEF IndInv, TypeOK
    <2>4. QED
      BY <2>2, <2>3 DEF IndInv, TypeOK, QueryCategory, lockVars, snapVars, readVars
  <1>2. WithinBuffers'
    BY QueryTakes DEF IndInv, WithinBuffers, QueryCategory, lockVars, snapVars, readVars
  <1>3. VersionInv'
    <2>1. \A v \in Updaters, d \in Categories :
            \/ tmpEntries'[v].pieces[d] = tmpEntries[v].pieces[d]
            \/ tmpEntries'[v].pieces[d].ver = db[d]
      BY QueryTakes DEF IndInv
    <2>2. \A d \in Categories : db[d] \in Int
      BY VersionsAreNumbers DEF IndInv
    <2>3. UNCHANGED <<db, entries, upc, overrun>>
      BY DEF QueryCategory, snapVars
    <2>4. QED
      BY <2>1, <2>2, <2>3 DEF IndInv, VersionInv
  <1>4. DbInv' /\ LockInv' /\ PublishedInv' /\ ReadInv'
      /\ ReaderConsistent' /\ ThrottleInv' /\ OneUpdateAtATime'
    BY DEF IndInv, DbInv, LockInv, PublishedInv, ReadInv, CountOf, ReaderConsistent,
           ThrottleInv, Active, OneUpdateAtATime, QueryCategory, lockVars, snapVars, readVars
  <1>5. QED
    BY <1>1, <1>2, <1>3, <1>4 DEF IndInv

LEMMA QueryFailsStep ==
  ASSUME IndInv, NEW u \in Updaters, QueryFails(u)
  PROVE  IndInv'
  <1>1. TypeOK'
    <2>1. at' = [at EXCEPT ![u] = at[u] + 1] /\ at[u] \in 1..NCat
      BY DEF QueryFails, Categories
    <2>2. at' \in [Updaters -> 1..(NCat + 1)]
      BY <2>1, SizesAssumption DEF IndInv, TypeOK
    <2>3. faults' \in 0..MaxFaults
      BY SizesAssumption DEF IndInv, TypeOK, QueryFails
    <2>4. QED
      BY <2>2, <2>3 DEF IndInv, TypeOK, QueryFails, lockVars, snapVars, readVars
  <1>2. DbInv' /\ LockInv' /\ PublishedInv' /\ ReadInv' /\ ReaderConsistent'
      /\ WithinBuffers' /\ ThrottleInv' /\ OneUpdateAtATime' /\ VersionInv'
    BY DEF IndInv, DbInv, LockInv, PublishedInv, ReadInv, CountOf, ReaderConsistent,
           WithinBuffers, ThrottleInv, Active, OneUpdateAtATime, VersionInv, QueryFails,
           lockVars, snapVars, readVars
  <1>3. QED
    BY <1>1, <1>2 DEF IndInv

LEMMA QueryNewsStep ==
  ASSUME IndInv, NEW u \in Updaters, QueryNews(u)
  PROVE  IndInv'
  <1>1. TypeOK'
    <2>1. Rows(News) \in Nat /\ db[News] \in 0..MaxVersion
      BY VersionsBounded DEF IndInv, DbInv, Rows, TypeOK, All
    <2>2. tmpNews' \in [Updaters -> Piece]
      BY <2>1, SizesAssumption DEF IndInv, TypeOK, Piece, MinOf, QueryNews
    <2>3. upc' \in [Updaters -> UpdaterPc]
      BY DEF IndInv, TypeOK, UpdaterPc, QueryNews, UGoto
    <2>4. QED
      BY <2>2, <2>3 DEF IndInv, TypeOK, QueryNews, UGoto, lockVars, snapVars, readVars
  <1>2. LockInv'
    BY ThreadsAssumption
      DEF IndInv, TypeOK, LockInv, QueryNews, UGoto, lockVars, snapVars, readVars
  <1>3. WithinBuffers'
    <2>1. Rows(News) \in Nat
      BY VersionsBounded DEF IndInv, DbInv, Rows, All
    <2>2. QED
      BY <2>1, SizesAssumption DEF IndInv, TypeOK, WithinBuffers, MinOf, QueryNews, UGoto, lockVars, snapVars, readVars
  <1>4. ThrottleInv'
    BY DEF IndInv, TypeOK, ThrottleInv, Active, QueryNews, UGoto, lockVars, snapVars, readVars
  <1>5. OneUpdateAtATime'
    BY DEF IndInv, TypeOK, OneUpdateAtATime, Active, QueryNews, UGoto, lockVars, snapVars,
           readVars
  <1>6. VersionInv'
    BY DEF IndInv, TypeOK, VersionInv, QueryNews, UGoto, lockVars, snapVars, readVars
  <1>7. DbInv' /\ PublishedInv' /\ ReadInv' /\ ReaderConsistent'
    BY DEF IndInv, DbInv, PublishedInv, ReadInv, CountOf, ReaderConsistent, QueryNews, UGoto,
           lockVars, snapVars, readVars
  <1>8. QED
    BY <1>1, <1>2, <1>3, <1>4, <1>5, <1>6, <1>7 DEF IndInv

LEMMA QueryNewsFailsStep ==
  ASSUME IndInv, NEW u \in Updaters, QueryNewsFails(u)
  PROVE  IndInv'
  <1>1. TypeOK'
    <2>1. faults' \in 0..MaxFaults
      <3>1. faults < MaxFaults /\ faults' = faults + 1
        BY DEF QueryNewsFails
      <3>2. QED
        BY <3>1, SizesAssumption DEF IndInv, TypeOK
    <2>2. upc' \in [Updaters -> UpdaterPc]
      BY DEF IndInv, TypeOK, UpdaterPc, QueryNewsFails, UGoto
    <2>3. QED
      BY <2>1, <2>2 DEF IndInv, TypeOK, QueryNewsFails, UGoto, fillVars, lockVars, snapVars, readVars
  <1>2. LockInv'
    BY ThreadsAssumption
      DEF IndInv, TypeOK, LockInv, QueryNewsFails, UGoto, fillVars, lockVars, snapVars,
          readVars
  <1>3. ThrottleInv'
    BY DEF IndInv, TypeOK, ThrottleInv, Active, QueryNewsFails, UGoto, fillVars, lockVars,
           snapVars, readVars
  <1>4. OneUpdateAtATime'
    BY DEF IndInv, TypeOK, OneUpdateAtATime, Active, QueryNewsFails, UGoto, fillVars,
           lockVars, snapVars, readVars
  <1>5. VersionInv'
    BY DEF IndInv, TypeOK, VersionInv, QueryNewsFails, UGoto, fillVars, lockVars, snapVars,
           readVars
  <1>6. DbInv' /\ PublishedInv' /\ ReadInv' /\ ReaderConsistent' /\ WithinBuffers'
    BY DEF IndInv, DbInv, PublishedInv, ReadInv, CountOf, ReaderConsistent, WithinBuffers,
           QueryNewsFails, UGoto, fillVars, lockVars, snapVars, readVars
  <1>7. QED
    BY <1>1, <1>2, <1>3, <1>4, <1>5, <1>6 DEF IndInv

LEMMA WriteLockStep ==
  ASSUME IndInv, NEW u \in Updaters, WriteLock(u)
  PROVE  IndInv'
  <1>1. TypeOK'
    BY DEF IndInv, TypeOK, UpdaterPc, WriteLock, UGoto, fillVars, snapVars, readVars
  <1>2. LockInv'
    BY ThreadsAssumption
      DEF IndInv, TypeOK, LockInv, WriteLock, UGoto, fillVars, snapVars, readVars
  <1>3. ThrottleInv'
    BY DEF IndInv, TypeOK, ThrottleInv, Active, WriteLock, UGoto, fillVars, snapVars, readVars
  <1>4. OneUpdateAtATime'
    BY DEF IndInv, TypeOK, OneUpdateAtATime, Active, WriteLock, UGoto, fillVars, snapVars,
           readVars
  <1>5. VersionInv'
    BY DEF IndInv, TypeOK, VersionInv, WriteLock, UGoto, fillVars, snapVars, readVars
  <1>6. DbInv' /\ PublishedInv' /\ ReadInv' /\ ReaderConsistent' /\ WithinBuffers'
    BY DEF IndInv, DbInv, PublishedInv, ReadInv, CountOf, ReaderConsistent, WithinBuffers,
           WriteLock, UGoto, fillVars, snapVars, readVars
  <1>7. QED
    BY <1>1, <1>2, <1>3, <1>4, <1>5, <1>6 DEF IndInv

LEMMA PublishEntriesStep ==
  ASSUME IndInv, NEW u \in Updaters, PublishEntries(u)
  PROVE  IndInv'
  <1>1. TypeOK'
    <2>1. entries' \in Buffer /\ entry_count' \in Nat
      BY DEF IndInv, TypeOK, Buffer, PublishEntries
    <2>2. upc' \in [Updaters -> UpdaterPc]
      BY DEF IndInv, TypeOK, UpdaterPc, PublishEntries, UGoto
    <2>3. QED
      BY <2>1, <2>2 DEF IndInv, TypeOK, PublishEntries, UGoto, fillVars, lockVars, readVars
  <1>2. LockInv'
    BY ThreadsAssumption
      DEF IndInv, TypeOK, LockInv, PublishEntries, UGoto, fillVars, lockVars, readVars
  <1>3. PublishedInv'
    BY DEF IndInv, PublishedInv, PublishEntries, UGoto, fillVars, lockVars, readVars
  <1>4. ReadInv'
    BY ThreadsAssumption
      DEF IndInv, TypeOK, ReadInv, LockInv, CountOf, PublishEntries, UGoto, fillVars,
          lockVars, readVars
  <1>5. WithinBuffers'
    BY DEF IndInv, TypeOK, WithinBuffers, PublishEntries, UGoto, fillVars, lockVars, readVars
  <1>6. ThrottleInv'
    BY DEF IndInv, TypeOK, ThrottleInv, Active, PublishEntries, UGoto, fillVars, lockVars,
           readVars
  <1>7. OneUpdateAtATime'
    BY DEF IndInv, TypeOK, OneUpdateAtATime, Active, PublishEntries, UGoto, fillVars,
           lockVars, readVars
  <1>8. VersionInv'
    BY SizesAssumption
      DEF IndInv, TypeOK, VersionInv, Categories, All, News, Buffer, Piece, UpdaterPc,
          OneUpdateAtATime, ThrottleInv, Active, PublishEntries, UGoto, fillVars, lockVars,
          readVars
  <1>9. DbInv' /\ ReaderConsistent'
    BY DEF IndInv, DbInv, ReaderConsistent, PublishEntries, UGoto, fillVars, lockVars, readVars
  <1>10. QED
    BY <1>1, <1>2, <1>3, <1>4, <1>5, <1>6, <1>7, <1>8, <1>9 DEF IndInv

LEMMA PublishNewsStep ==
  ASSUME IndInv, NEW u \in Updaters, PublishNews(u)
  PROVE  IndInv'
  <1>1. TypeOK'
    <2>1. age' \in [Updaters -> 0..MaxStall]
      BY SizesAssumption DEF IndInv, TypeOK, PublishNews
    <2>2. at' \in [Updaters -> 1..(NCat + 1)]
      BY SizesAssumption DEF IndInv, TypeOK, PublishNews
    <2>3. upc' \in [Updaters -> UpdaterPc]
      BY DEF IndInv, TypeOK, UpdaterPc, PublishNews, UGoto
    <2>4. tmpEntries' \in [Updaters -> Buffer] /\ tmpNews' \in [Updaters -> Piece]
      BY BlanksTyped DEF IndInv, TypeOK, PublishNews
    <2>5. news' \in Piece /\ news_count' \in Nat
      BY DEF IndInv, TypeOK, Piece, PublishNews
    <2>6. QED
      BY <2>1, <2>2, <2>3, <2>4, <2>5 DEF IndInv, TypeOK, PublishNews, UGoto, readVars
  <1>2. LockInv'
    BY ThreadsAssumption DEF IndInv, TypeOK, LockInv, PublishNews, UGoto, readVars
  <1>3. PublishedInv'
    BY DEF IndInv, PublishedInv, PublishNews, UGoto, readVars
  <1>4. ReadInv'
    BY ThreadsAssumption
      DEF IndInv, TypeOK, ReadInv, LockInv, CountOf, PublishNews, UGoto, readVars
  <1>5. WithinBuffers'
    BY SizesAssumption
      DEF IndInv, TypeOK, WithinBuffers, EmptyBuffer, Blank, Buffer, Piece, PublishNews,
          UGoto, readVars
  <1>6. ThrottleInv'
    BY DEF IndInv, TypeOK, ThrottleInv, Active, PublishNews, UGoto, readVars
  <1>7. OneUpdateAtATime'
    BY DEF IndInv, TypeOK, OneUpdateAtATime, Active, PublishNews, UGoto, readVars
  <1>8. VersionInv'
    BY DEF IndInv, TypeOK, VersionInv, PublishNews, UGoto, readVars
  <1>9. DbInv' /\ ReaderConsistent'
    BY DEF IndInv, DbInv, ReaderConsistent, PublishNews, UGoto, readVars
  <1>10. QED
    BY <1>1, <1>2, <1>3, <1>4, <1>5, <1>6, <1>7, <1>8, <1>9 DEF IndInv

-----------------------------------------------------------------------------
(* The steps of a reader.                                                  *)

LEMMA ReadLockStep ==
  ASSUME IndInv, NEW r \in Readers, ReadLock(r)
  PROVE  IndInv'
  <1>1. TypeOK'
    BY DEF IndInv, TypeOK, ReaderPc, ReadLock, RGoto, fillVars, snapVars
  <1>2. LockInv'
    BY ThreadsAssumption DEF IndInv, TypeOK, LockInv, ReadLock, RGoto, fillVars, snapVars
  <1>3. ReadInv'
    BY DEF IndInv, TypeOK, ReadInv, LockInv, CountOf, ReadLock, RGoto, fillVars, snapVars
  <1>4. ReaderConsistent'
    BY DEF IndInv, TypeOK, ReaderConsistent, ReadInv, PublishedInv, CountOf, ReadLock, RGoto,
           fillVars, snapVars
  <1>5. DbInv' /\ PublishedInv' /\ WithinBuffers' /\ ThrottleInv'
      /\ OneUpdateAtATime' /\ VersionInv'
    BY DEF IndInv, DbInv, PublishedInv, WithinBuffers, ThrottleInv, Active, OneUpdateAtATime,
           VersionInv, ReadLock, RGoto, fillVars, snapVars
  <1>6. QED
    BY <1>1, <1>2, <1>3, <1>4, <1>5 DEF IndInv

LEMMA ReadCountStep ==
  ASSUME IndInv, NEW r \in Readers, ReadCount(r)
  PROVE  IndInv'
  <1>1. TypeOK'
    <2>1. outCount' \in [Readers -> Nat]
      BY SizesAssumption DEF IndInv, TypeOK, MinOf, ReadCount
    <2>2. rpc' \in [Readers -> ReaderPc]
      BY DEF IndInv, TypeOK, ReaderPc, ReadCount, RGoto
    <2>3. QED
      BY <2>1, <2>2 DEF IndInv, TypeOK, ReadCount, RGoto, fillVars, lockVars, snapVars
  <1>2. LockInv'
    BY ThreadsAssumption
      DEF IndInv, TypeOK, LockInv, ReadCount, RGoto, fillVars, lockVars, snapVars
  <1>3. ReadInv'
    BY DEF IndInv, TypeOK, ReadInv, LockInv, CountOf, ReadCount, RGoto, fillVars, lockVars,
           snapVars
  <1>4. ReaderConsistent'
    BY DEF IndInv, TypeOK, ReaderConsistent, ReadInv, PublishedInv, CountOf, ReadCount,
           RGoto, fillVars, lockVars, snapVars
  <1>5. DbInv' /\ PublishedInv' /\ WithinBuffers' /\ ThrottleInv'
      /\ OneUpdateAtATime' /\ VersionInv'
    BY DEF IndInv, DbInv, PublishedInv, WithinBuffers, ThrottleInv, Active, OneUpdateAtATime,
           VersionInv, ReadCount, RGoto, fillVars, lockVars, snapVars
  <1>6. QED
    BY <1>1, <1>2, <1>3, <1>4, <1>5 DEF IndInv

LEMMA ReadCopyStep ==
  ASSUME IndInv, NEW r \in Readers, ReadCopy(r)
  PROVE  IndInv'
  <1>1. TypeOK'
    <2>1. out' \in [Readers -> Nat]
      BY DEF IndInv, TypeOK, Buffer, Piece, ReadCopy
    <2>2. rpc' \in [Readers -> ReaderPc]
      BY DEF IndInv, TypeOK, ReaderPc, ReadCopy, RGoto
    <2>3. QED
      BY <2>1, <2>2 DEF IndInv, TypeOK, ReadCopy, RGoto, fillVars, lockVars, snapVars
  <1>2. LockInv'
    BY ThreadsAssumption
      DEF IndInv, TypeOK, LockInv, ReadCopy, RGoto, fillVars, lockVars, snapVars
  <1>3. ReadInv'
    BY DEF IndInv, TypeOK, ReadInv, LockInv, CountOf, ReadCopy, RGoto, fillVars, lockVars,
           snapVars
  <1>4. ReaderConsistent'
    BY DEF IndInv, TypeOK, ReaderConsistent, ReadInv, PublishedInv, CountOf, ReadCopy, RGoto,
           fillVars, lockVars, snapVars
  <1>5. DbInv' /\ PublishedInv' /\ WithinBuffers' /\ ThrottleInv'
      /\ OneUpdateAtATime' /\ VersionInv'
    BY DEF IndInv, DbInv, PublishedInv, WithinBuffers, ThrottleInv, Active, OneUpdateAtATime,
           VersionInv, ReadCopy, RGoto, fillVars, lockVars, snapVars
  <1>6. QED
    BY <1>1, <1>2, <1>3, <1>4, <1>5 DEF IndInv

LEMMA ReadUnlockStep ==
  ASSUME IndInv, NEW r \in Readers, ReadUnlock(r)
  PROVE  IndInv'
  <1>1. TypeOK'
    BY DEF IndInv, TypeOK, ReaderPc, ReadUnlock, RGoto, fillVars, snapVars
  <1>2. LockInv'
    BY ThreadsAssumption DEF IndInv, TypeOK, LockInv, ReadUnlock, RGoto, fillVars, snapVars
  <1>3. ReadInv'
    BY DEF IndInv, TypeOK, ReadInv, LockInv, CountOf, ReadUnlock, RGoto, fillVars, snapVars
  <1>4. ReaderConsistent'
    BY DEF IndInv, TypeOK, ReaderConsistent, ReadInv, PublishedInv, CountOf, ReadUnlock,
           RGoto, fillVars, snapVars
  <1>5. DbInv' /\ PublishedInv' /\ WithinBuffers' /\ ThrottleInv'
      /\ OneUpdateAtATime' /\ VersionInv'
    BY DEF IndInv, DbInv, PublishedInv, WithinBuffers, ThrottleInv, Active, OneUpdateAtATime,
           VersionInv, ReadUnlock, RGoto, fillVars, snapVars
  <1>6. QED
    BY <1>1, <1>2, <1>3, <1>4, <1>5 DEF IndInv

-----------------------------------------------------------------------------
(* The theorems.                                                           *)

LEMMA InvInit == Init => IndInv
  <1> SUFFICES ASSUME Init PROVE IndInv
    OBVIOUS
  <1> USE DEF Init
  <1>1. \A c \in All : 0 \in DOMAIN RowsAt[c]
    <2>1. TAKE c \in All
    <2>2. PICK n \in 0..MaxVersion : RowsAt[c] \in [0..n -> Nat]
      BY SizesAssumption
    <2>3. QED
      BY <2>2, SizesAssumption
  <1>2. TypeOK
    <2>1. /\ 0 \in 0..MaxVersion /\ 0 \in 0..MaxStall /\ 0 \in 0..MaxFaults
          /\ 1 \in 1..(NCat + 1) /\ SinceCap \in 0..SinceCap
      BY SizesAssumption DEF SinceCap
    <2>2. QED
      BY <2>1, BlanksTyped DEF TypeOK, UpdaterPc, ReaderPc
  <1>3. DbInv
    BY <1>1 DEF DbInv
  <1>4. LockInv /\ PublishedInv /\ ReadInv /\ ReaderConsistent /\ ThrottleInv /\ OneUpdateAtATime
    BY ThreadsAssumption
      DEF LockInv, PublishedInv, ReadInv, ReaderConsistent, ThrottleInv, OneUpdateAtATime,
          Active, EmptyBuffer, Blank
  <1>5. WithinBuffers
    BY SizesAssumption DEF WithinBuffers, EmptyBuffer, Blank
  <1>6. VersionInv
    BY DEF VersionInv, EmptyBuffer, Blank, All
  <1>7. QED
    BY <1>2, <1>3, <1>4, <1>5, <1>6 DEF IndInv

LEMMA Stuttering ==
  ASSUME IndInv, UNCHANGED vars
  PROVE  IndInv'
  <1> USE DEF vars
  <1>1. TypeOK' /\ DbInv' /\ LockInv' /\ PublishedInv' /\ ReadInv'
    BY DEF IndInv, TypeOK, DbInv, LockInv, PublishedInv, ReadInv, CountOf
  <1>2. ReaderConsistent' /\ WithinBuffers' /\ ThrottleInv' /\ OneUpdateAtATime' /\ VersionInv'
    BY DEF IndInv, ReaderConsistent, WithinBuffers, ThrottleInv, OneUpdateAtATime, VersionInv,
           Active
  <1>3. QED
    BY <1>1, <1>2 DEF IndInv

LEMMA InvStep == IndInv /\ [Next]_vars => IndInv'
  <1> SUFFICES ASSUME IndInv, [Next]_vars PROVE IndInv'
    OBVIOUS
  <1>1. ASSUME NEW c \in All, Insert(c) PROVE IndInv'
    BY <1>1, InsertStep
  <1>2. CASE Prune
    BY <1>2, PruneStep
  <1>3. CASE Tick
    BY <1>3, TickStep
  <1>4. ASSUME NEW u \in Updaters, ReadClock(u) \/ Update(u) \/ WriteLock(u) PROVE IndInv'
    BY <1>4, ReadClockStep, SkipStep, AdmitStep, AllocateStep, QueryCategoryStep, QueryFailsStep,
       QueryNewsStep, QueryNewsFailsStep, WriteLockStep, PublishEntriesStep, PublishNewsStep
      DEF Update
  <1>5. ASSUME NEW r \in Readers, ReadLock(r) \/ Read(r) PROVE IndInv'
    BY <1>5, ReadLockStep, ReadCountStep, ReadCopyStep, ReadUnlockStep DEF Read
  <1>6. CASE UNCHANGED vars
    BY <1>6, Stuttering
  <1>7. QED
    BY <1>1, <1>2, <1>3, <1>4, <1>5, <1>6 DEF Next

(* IndInv holds in every reachable state.                                  *)
THEOREM Invariance == Spec => []IndInv
  BY InvInit, InvStep, PTL DEF Spec

(* Every variable of the snapshot keeps its type.                          *)
THEOREM Typing == Spec => []TypeOK
  <1>1. IndInv => TypeOK
    BY DEF IndInv
  <1>2. QED
    BY <1>1, Invariance, PTL

(* A reader's count and array are of one snapshot, whatever the updates    *)
(* that run or wait meanwhile.                                             *)
THEOREM ReadersConsistent == Spec => []ReaderConsistent
  <1>1. IndInv => ReaderConsistent
    BY DEF IndInv
  <1>2. QED
    BY <1>1, Invariance, PTL

(* Whatever the categories hold, and whichever queries fail, no buffer is  *)
(* filled beyond its size.                                                 *)
THEOREM BuffersBounded == Spec => []WithinBuffers
  <1>1. IndInv => WithinBuffers
    BY DEF IndInv
  <1>2. QED
    BY <1>1, Invariance, PTL

(* Two updates are in progress at once only if one of them is slow.        *)
THEOREM UpdatesApart == Spec => []OneUpdateAtATime
  <1>1. IndInv => OneUpdateAtATime
    BY DEF IndInv
  <1>2. QED
    BY <1>1, Invariance, PTL

(* As long as every update is quicker than the throttle's period, clients  *)
(* see no category go back to an older version.                            *)
THEOREM NoWayBack == Spec => NoRegress
  <1> DEFINE Newer == \A c \in Categories :
                        entries'.pieces[c].ver # 0 =>
                          entries'.pieces[c].ver >= entries.pieces[c].ver
  <1>1. IndInv /\ [Next]_vars => (~overrun => Newer)
    <2> SUFFICES ASSUME IndInv, [Next]_vars, ~overrun PROVE Newer
      OBVIOUS
    <2>1. ASSUME NEW u \in Updaters, PublishEntries(u) PROVE Newer
      BY <2>1, VersionsAreNumbers DEF IndInv, VersionInv, PublishEntries
    <2>2. ASSUME entries' = entries PROVE Newer
      BY <2>2, VersionsAreNumbers DEF IndInv
    <2>3. entries' = entries \/ \E u \in Updaters : PublishEntries(u)
      BY DEF Next, vars, snapVars, Insert, Prune, Tick, ReadClock, Update, Skip, Admit, Allocate,
             QueryCategory, QueryFails, QueryNews, QueryNewsFails, WriteLock, PublishNews,
             ReadLock, Read, ReadCount, ReadCopy, ReadUnlock
    <2>4. QED
      BY <2>1, <2>2, <2>3
  <1>2. QED
    BY <1>1, Invariance, PTL DEF Spec, NoRegress
=============================================================================
