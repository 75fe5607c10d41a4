--------------------------- MODULE LifecycleProofs ---------------------------
(***************************************************************************)
(* Proofs about the life of the daemons (Lifecycle, with WsConn): the      *)
(* types, and that no thread outlives what it uses, for any number of      *)
(* daemons and of workers and whatever may fail to be created.             *)
(*                                                                         *)
(* The invariant follows main (backend/src/main.c) through its calls: what *)
(* is open at each of them, and which threads may still run.  The joins of *)
(* mc_scheduler_stop are a row of threads that does not change while they  *)
(* are done; without a hole the row holds every thread there is, because   *)
(* as many slots as there are workers are in it, and the slots differ.     *)
(***************************************************************************)
EXTENDS Lifecycle, SequenceTheorems, FiniteSetTheorems, TLAPS

-----------------------------------------------------------------------------
(* The inductive invariant.                                                *)

Idle == {"off", "open", "migrate", "start", "dead"}
AfterJoin == {"disconnect", "freeWs", "destroy", "close"}
AfterHttp == {"stopSched", "join"} \cup AfterJoin
AfterUnix == {"stopHttp"} \cup AfterHttp

(* What has been created of the row of workers.                            *)
Created(d) == {t \in Workers : thread[d][t] # "none"}

(* No thread before mc_scheduler_start, and none after the process.        *)
Quiet(d) ==
  mpc[d] \in Idle =>
    wpc[d] = "none" /\ \A t \in Threads : thread[d][t] = "none"

(* main closes the database, and destroys the scheduler, at its end only.  *)
Opened(d) ==
  /\ mpc[d] \notin {"off", "open", "dead"} => db[d] = "live"
  /\ mpc[d] \notin {"off", "open", "migrate", "close", "dead"} => sched[d] = "live"

(* rest_worker_count is the number of the workers there are, not the slot  *)
(* of the last of them.                                                    *)
Counted(d) == mpc[d] \notin Idle => count[d] = Cardinality(Created(d))

(* The joins: none before it is their turn, none beyond the row, and what  *)
(* has been joined is over.                                                *)
Joins(d) ==
  /\ mpc[d] \notin {"join", "dead"} \cup AfterJoin => joined[d] = 0
  /\ mpc[d] # "dead" => joined[d] \in 0..Len(JoinOrder(d))
  /\ mpc[d] = "join" /\ NoHole(d) =>
       \A i \in 1..joined[d] : thread[d][JoinOrder(d)[i]] = "done"

(* After the joins no thread of the scheduler runs, unless one was missed. *)
PoolOver(d) ==
  mpc[d] \in AfterJoin /\ NoHole(d) =>
    \A t \in Pool : thread[d][t] \in {"none", "done"}

ServersOver(d) ==
  /\ mpc[d] \in AfterUnix => thread[d]["unix"] \in {"none", "done"}
  /\ mpc[d] \in AfterHttp => thread[d]["http"] = "none"

(* A connection's thread is there only with the connection, and the        *)
(* scheduler is destroyed after the connection.                            *)
ConnOver(d) ==
  /\ ~allocated[d] => wpc[d] = "none"
  /\ mpc[d] \in {"destroy", "close"} => ~allocated[d]

DaemonInv(d) ==
  /\ Quiet(d) /\ Opened(d) /\ Counted(d) /\ Joins(d) /\ PoolOver(d)
  /\ ServersOver(d) /\ ConnOver(d)

(* start.sh checks on the daemon it has launched.                          *)
ScriptInv == script = "check" => pid \in Daemons

(* TypeOK, without the joins: their bound is a sequence of the state.      *)
Typed ==
  /\ mpc \in [Daemons -> MainPc]
  /\ g_running \in [Daemons -> BOOLEAN]
  /\ db \in [Daemons -> {"none", "live", "freed"}]
  /\ sched \in [Daemons -> {"none", "live", "freed"}]
  /\ running \in [Daemons -> BOOLEAN]
  /\ count \in [Daemons -> 0..Len(WorkerSlots)]
  /\ thread \in [Daemons -> [Threads -> {"none", "run", "select", "client", "done"}]]
  /\ joined \in [Daemons -> Nat]
  /\ unix_running \in [Daemons -> BOOLEAN]
  /\ port \in Daemons \cup {Nobody} /\ path \in Daemons \cup {Nobody}
  /\ script \in {"idle", "killed", "check"}
  /\ pid \in Daemons \cup {Nobody} /\ told \subseteq Daemons
  /\ wpc \in [Conns -> WsPc]
  /\ link \in [Conns -> {"none", "connecting", "open", "lost"}]
  /\ allocated \in [Conns -> BOOLEAN]
  /\ wrunning \in [Conns -> BOOLEAN]
  /\ connected \in [Conns -> BOOLEAN]
  /\ lws_ctx \in [Conns -> BOOLEAN]
  /\ was_connected \in [Conns -> BOOLEAN]

IndInv == Typed /\ ScriptInv /\ \A d \in Daemons : DaemonInv(d)

-----------------------------------------------------------------------------
(* The row of joins.                                                       *)

Elems(s) == {s[i] : i \in 1..Len(s)}

Unless(b, t) == IF b THEN <<>> ELSE <<t>>

(* The elements of a concatenation.                                        *)
LEMMA ElemsConcat ==
  ASSUME NEW S, NEW s \in Seq(S), NEW t \in Seq(S)
  PROVE  s \o t \in Seq(S) /\ Elems(s \o t) = Elems(s) \cup Elems(t)
<1>1. /\ s \o t \in Seq(S)
      /\ Len(s \o t) = Len(s) + Len(t)
      /\ \A i \in 1..Len(s) + Len(t) :
           (s \o t)[i] = IF i <= Len(s) THEN s[i] ELSE t[i - Len(s)]
  BY ConcatProperties
<1>2. Len(s) \in Nat /\ Len(t) \in Nat
  BY LenProperties
<1>3. ASSUME NEW x \in Elems(s \o t)
      PROVE  x \in Elems(s) \cup Elems(t)
  <2>1. PICK i \in 1..Len(s) + Len(t) : x = (s \o t)[i]
    BY <1>1, <1>3 DEF Elems
  <2>2. CASE i <= Len(s)
    <3>1. i \in 1..Len(s) /\ x = s[i]
      BY <1>1, <1>2, <2>1, <2>2
    <3> QED
      BY <3>1 DEF Elems
  <2>3. CASE ~(i <= Len(s))
    <3>1. i - Len(s) \in 1..Len(t) /\ x = t[i - Len(s)]
      BY <1>1, <1>2, <2>1, <2>3
    <3> QED
      BY <3>1 DEF Elems
  <2> QED
    BY <2>2, <2>3
<1>4. ASSUME NEW x \in Elems(s)
      PROVE  x \in Elems(s \o t)
  <2>1. PICK i \in 1..Len(s) : x = s[i]
    BY <1>4 DEF Elems
  <2>2. i \in 1..Len(s \o t) /\ x = (s \o t)[i]
    BY <1>1, <1>2, <2>1
  <2> QED
    BY <2>2 DEF Elems
<1>5. ASSUME NEW x \in Elems(t)
      PROVE  x \in Elems(s \o t)
  <2>1. PICK i \in 1..Len(t) : x = t[i]
    BY <1>5 DEF Elems
  <2> DEFINE j == i + Len(s)
  <2>2. /\ j \in 1..Len(s) + Len(t)
        /\ ~(j <= Len(s)) /\ j - Len(s) = i
    BY <1>2, <2>1
  <2>3. j \in 1..Len(s \o t) /\ x = (s \o t)[j]
    BY <1>1, <2>1, <2>2
  <2> QED
    BY <2>3 DEF Elems
<1> QED
  BY <1>1, <1>3, <1>4, <1>5

(* The elements of a row of at most one.                                   *)
LEMMA ElemsUnless ==
  ASSUME NEW S, NEW b \in BOOLEAN, NEW t \in S
  PROVE  Unless(b, t) \in Seq(S) /\ Elems(Unless(b, t)) = IF b THEN {} ELSE {t}
<1>1. CASE b
  <2>1. Unless(b, t) = <<>>
    BY <1>1 DEF Unless
  <2>2. <<>> \in Seq(S) /\ Len(<<>>) = 0
    BY EmptySeq
  <2>3. 1..Len(<<>>) = {}
    BY <2>2
  <2> QED
    BY <1>1, <2>1, <2>2, <2>3 DEF Elems
<1>2. CASE ~b
  <2>1. Unless(b, t) = <<t>>
    BY <1>2 DEF Unless
  <2>2. <<t>> \in Seq(S) /\ Len(<<t>>) = 1 /\ <<t>>[1] = t
    OBVIOUS
  <2>3. 1..Len(<<t>>) = {1}
    BY <2>2
  <2> QED
    BY <1>2, <2>1, <2>2, <2>3 DEF Elems
<1> QED
  BY <1>1, <1>2

(* The slots are a sequence of workers.                                    *)
LEMMA Slots ==
  /\ Len(WorkerSlots) \in Nat
  /\ \A k \in 1..Len(WorkerSlots) : WorkerSlots[k] \in Workers
  /\ Workers \cap {"rss", "dispatch", "prune", "http", "unix"} = {}
  /\ Workers \subseteq Pool /\ Pool \subseteq Threads
<1>1. Len(WorkerSlots) \in Nat
  BY SlotsAssumption, LenProperties
<1> QED
  BY <1>1, SlotsAssumption DEF Workers, Pool, Threads

(* The row when the RSS thread, the dispatcher or the pruner is missing    *)
(* (r, s, p), and n workers are counted; and the first three.              *)
Row(r, s, p, n) ==
  Unless(r, "rss") \o Unless(s, "dispatch") \o SubSeq(WorkerSlots, 1, n)
    \o Unless(p, "prune")

Own(r, s, p) == (IF r THEN {} ELSE {"rss"}) \cup (IF s THEN {} ELSE {"dispatch"})
                  \cup (IF p THEN {} ELSE {"prune"})

(* Who is in the row: those of the three that there are, and the workers   *)
(* of the first slots.                                                     *)
LEMMA RowFacts ==
  ASSUME NEW r \in BOOLEAN, NEW s \in BOOLEAN, NEW p \in BOOLEAN,
         NEW n \in 0..Len(WorkerSlots)
  PROVE  /\ Row(r, s, p, n) \in Seq(Pool) /\ Len(Row(r, s, p, n)) \in Nat
         /\ Elems(Row(r, s, p, n)) = Own(r, s, p) \cup {WorkerSlots[k] : k \in 1..n}
<1> DEFINE a == Unless(r, "rss")
<1> DEFINE b == Unless(s, "dispatch")
<1> DEFINE w == SubSeq(WorkerSlots, 1, n)
<1> DEFINE c == Unless(p, "prune")
<1>1. Row(r, s, p, n) = ((a \o b) \o w) \o c
  BY DEF Row
<1>2. n \in Nat /\ n <= Len(WorkerSlots) /\ Len(WorkerSlots) \in Nat
  BY Slots
<1>3. /\ a \in Seq(Pool) /\ b \in Seq(Pool) /\ c \in Seq(Pool)
      /\ Elems(a) = IF r THEN {} ELSE {"rss"}
      /\ Elems(b) = IF s THEN {} ELSE {"dispatch"}
      /\ Elems(c) = IF p THEN {} ELSE {"prune"}
  <2>1. "rss" \in Pool /\ "dispatch" \in Pool /\ "prune" \in Pool
    BY DEF Pool
  <2> QED
    BY <2>1, ElemsUnless
<1>4. w \in Seq(Pool) /\ Elems(w) = {WorkerSlots[k] : k \in 1..n}
  <2>1. \A i \in 1..n : WorkerSlots[i] \in Pool
    BY <1>2, Slots
  <2>2. /\ w \in Seq(Pool)
        /\ Len(w) = IF 1 <= n THEN n - 1 + 1 ELSE 0
        /\ \A i \in 1..n - 1 + 1 : w[i] = WorkerSlots[1 + i - 1]
    BY <1>2, <2>1, SubSeqProperties
  <2>3. Len(w) = n /\ \A i \in 1..n : w[i] = WorkerSlots[i]
    BY <1>2, <2>2
  <2> QED
    BY <2>2, <2>3 DEF Elems
<1> HIDE DEF a, b, w, c
<1> DEFINE x == a \o b
<1>5. x \in Seq(Pool) /\ Elems(x) = Elems(a) \cup Elems(b)
  BY <1>3, ElemsConcat
<1> HIDE DEF x
<1> DEFINE y == x \o w
<1>6. y \in Seq(Pool) /\ Elems(y) = Elems(x) \cup Elems(w)
  BY <1>4, <1>5, ElemsConcat
<1> HIDE DEF y
<1>7. y \o c \in Seq(Pool) /\ Elems(y \o c) = Elems(y) \cup Elems(c)
  BY <1>3, <1>6, ElemsConcat
<1>8. Row(r, s, p, n) = y \o c
  BY <1>1 DEF x, y
<1>9. Len(Row(r, s, p, n)) \in Nat
  BY <1>8, <1>7, LenProperties
<1>10. Elems(Row(r, s, p, n)) = (Elems(a) \cup Elems(b)) \cup Elems(w) \cup Elems(c)
  BY <1>8, <1>5, <1>6, <1>7
<1>11. Elems(Row(r, s, p, n)) =
         Own(r, s, p) \cup {WorkerSlots[k] : k \in 1..n}
  BY <1>3, <1>4, <1>10 DEF Own
<1> QED
  BY <1>8, <1>7, <1>9, <1>11

LEMMA RowIs ==
  ASSUME NEW d
  PROVE  JoinOrder(d) = Row(thread[d]["rss"] = "none", thread[d]["dispatch"] = "none",
                            thread[d]["prune"] = "none", count[d])
BY DEF JoinOrder, Row, Unless

LEMMA RowElems ==
  ASSUME Typed, NEW d \in Daemons
  PROVE  /\ JoinOrder(d) \in Seq(Pool) /\ Len(JoinOrder(d)) \in Nat
         /\ Elems(JoinOrder(d)) =
              {t \in {"rss", "dispatch", "prune"} : thread[d][t] # "none"}
                \cup {WorkerSlots[k] : k \in 1..count[d]}
<1>1. count[d] \in 0..Len(WorkerSlots)
  BY DEF Typed
<1> DEFINE r == thread[d]["rss"] = "none"
<1> DEFINE s == thread[d]["dispatch"] = "none"
<1> DEFINE p == thread[d]["prune"] = "none"
<1>2. r \in BOOLEAN /\ s \in BOOLEAN /\ p \in BOOLEAN
  OBVIOUS
<1>3. JoinOrder(d) = Row(r, s, p, count[d])
  BY RowIs
<1>4. Own(r, s, p) = {t \in {"rss", "dispatch", "prune"} : thread[d][t] # "none"}
  BY DEF Own
<1> HIDE DEF r, s, p
<1>5. /\ Row(r, s, p, count[d]) \in Seq(Pool) /\ Len(Row(r, s, p, count[d])) \in Nat
      /\ Elems(Row(r, s, p, count[d])) =
           Own(r, s, p) \cup {WorkerSlots[k] : k \in 1..count[d]}
  BY <1>1, <1>2, RowFacts
<1> QED
  BY <1>3, <1>4, <1>5

(* The workers are finitely many, at most one to a slot.                   *)
LEMMA WorkersFinite ==
  IsFiniteSet(Workers) /\ Cardinality(Workers) <= Len(WorkerSlots)
<1> DEFINE n == Len(WorkerSlots)
<1>1. n \in Nat
  BY Slots
<1> DEFINE f == [k \in 1..n |-> WorkerSlots[k]]
<1>2. f \in Surjection(1..n, Workers)
  BY DEF Workers, Surjection
<1> HIDE DEF n
<1>3. IsFiniteSet(1..n) /\ Cardinality(1..n) = n
  BY <1>1, FS_Interval
<1> HIDE DEF f
<1>4. IsFiniteSet(Workers) /\ Cardinality(Workers) <= n
  BY <1>2, <1>3, FS_Surjection
<1> QED
  BY <1>4 DEF n

LEMMA CreatedBound ==
  ASSUME NEW S, S \subseteq Workers
  PROVE  IsFiniteSet(S) /\ Cardinality(S) \in 0..Len(WorkerSlots)
<1>1. IsFiniteSet(S) /\ Cardinality(S) <= Cardinality(Workers)
  BY WorkersFinite, FS_Subset
<1>2. Cardinality(S) \in Nat /\ Cardinality(Workers) \in Nat
  BY <1>1, WorkersFinite, FS_CardinalityType
<1> QED
  BY <1>1, <1>2, WorkersFinite, Slots

(* Without a hole the first slots are the workers there are: they are as   *)
(* many, and they are among them.                                          *)
LEMMA NoneMissed ==
  ASSUME Typed, NEW d \in Daemons, NoHole(d), count[d] = Cardinality(Created(d))
  PROVE  {WorkerSlots[k] : k \in 1..count[d]} = Created(d)
<1> DEFINE A == {WorkerSlots[k] : k \in 1..count[d]}
<1> DEFINE f == [k \in 1..count[d] |-> WorkerSlots[k]]
<1>1. count[d] \in Nat /\ count[d] <= Len(WorkerSlots) /\ Len(WorkerSlots) \in Nat
  BY Slots DEF Typed
<1>2. f \in Injection(1..count[d], A) /\ f \in Surjection(1..count[d], A)
  <2>1. \A j, k \in 1..count[d] : f[j] = f[k] => j = k
    BY <1>1, SlotsAssumption
  <2>2. f \in [1..count[d] -> A] /\ \A x \in A : \E k \in 1..count[d] : f[k] = x
    OBVIOUS
  <2> QED
    BY <2>1, <2>2 DEF Injection, IsInjective, Surjection
<1>3. IsFiniteSet(1..count[d]) /\ Cardinality(1..count[d]) = count[d]
  BY <1>1, FS_Interval
<1>4. A \subseteq Created(d)
  BY <1>1, Slots DEF NoHole, Created
<1>5. IsFiniteSet(Created(d))
  BY CreatedBound DEF Created
<1> HIDE DEF f, A
<1>6. Cardinality(A) = count[d]
  BY <1>2, <1>3, FS_Surjection
<1>7. A = Created(d)
  BY <1>4, <1>5, <1>6, FS_Subset
<1> QED
  BY <1>7 DEF A

(* Without a hole the row holds exactly the threads of the scheduler that  *)
(* there are.                                                              *)
LEMMA RowComplete ==
  ASSUME Typed, NEW d \in Daemons, NoHole(d), count[d] = Cardinality(Created(d))
  PROVE  /\ Elems(JoinOrder(d)) = {t \in Pool : thread[d][t] # "none"}
         /\ \A i \in 1..Len(JoinOrder(d)) : thread[d][JoinOrder(d)[i]] # "none"
         /\ \A t \in Pool : thread[d][t] # "none" =>
              \E i \in 1..Len(JoinOrder(d)) : JoinOrder(d)[i] = t
<1>1. Elems(JoinOrder(d)) =
        {t \in {"rss", "dispatch", "prune"} : thread[d][t] # "none"} \cup Created(d)
  BY RowElems, NoneMissed
<1>2. Elems(JoinOrder(d)) = {t \in Pool : thread[d][t] # "none"}
  BY <1>1 DEF Created, Pool
<1> QED
  BY <1>2 DEF Elems

-----------------------------------------------------------------------------
(* What a step leaves alone.                                               *)

Same(d) ==
  /\ mpc'[d] = mpc[d] /\ db'[d] = db[d] /\ sched'[d] = sched[d]
  /\ count'[d] = count[d] /\ joined'[d] = joined[d] /\ thread'[d] = thread[d]
  /\ allocated'[d] = allocated[d] /\ wpc'[d] = wpc[d]

(* The row depends on who is there, not on what they do.                   *)
LEMMA RowKept ==
  ASSUME Typed, NEW d \in Daemons, count'[d] = count[d],
         \A t \in Pool : (thread'[d][t] = "none") <=> (thread[d][t] = "none")
  PROVE  /\ JoinOrder(d)' = JoinOrder(d) /\ NoHole(d)' = NoHole(d)
         /\ Created(d)' = Created(d)
<1>1. "rss" \in Pool /\ "dispatch" \in Pool /\ "prune" \in Pool
  BY DEF Pool
<1>2. count[d] \in 0..Len(WorkerSlots)
  BY DEF Typed
<1>3. \A k \in 1..count[d] : WorkerSlots[k] \in Pool
  BY <1>2, Slots
<1>4. JoinOrder(d)' = JoinOrder(d)
  BY <1>1 DEF JoinOrder
<1>5. NoHole(d)' = NoHole(d)
  BY <1>3 DEF NoHole
<1>6. Created(d)' = Created(d)
  BY Slots DEF Created
<1> QED
  BY <1>4, <1>5, <1>6

(* While the row stays as it is and main does not move, so do the joins.   *)
LEMMA JoinsKept ==
  ASSUME Typed, NEW d \in Daemons, Joins(d),
         mpc'[d] = mpc[d], joined'[d] = joined[d], count'[d] = count[d],
         \A t \in Pool :
           /\ (thread'[d][t] = "none") <=> (thread[d][t] = "none")
           /\ thread[d][t] = "done" => thread'[d][t] = "done"
  PROVE  Joins(d)'
<1>1. JoinOrder(d)' = JoinOrder(d) /\ NoHole(d)' = NoHole(d)
  BY RowKept
<1>2. \A i \in 1..Len(JoinOrder(d)) : JoinOrder(d)[i] \in Pool
  BY RowElems, ElementOfSeq
<1>3. joined[d] \in Nat /\ Len(JoinOrder(d)) \in Nat
  BY RowElems DEF Typed
<1>4. ASSUME mpc[d] = "join", NoHole(d), NEW i \in 1..joined[d]
      PROVE  thread'[d][JoinOrder(d)[i]] = "done"
  <2>1. thread[d][JoinOrder(d)[i]] = "done"
    BY <1>4 DEF Joins
  <2>2. i \in 1..Len(JoinOrder(d))
    BY <1>3, <1>4 DEF Joins
  <2> QED
    BY <1>2, <2>1, <2>2
<1> QED
  BY <1>1, <1>4 DEF Joins

LEMMA ThreadTyped ==
  ASSUME Typed, NEW d \in Daemons, NEW t \in Threads,
         NEW x \in {"none", "run", "select", "client", "done"}
  PROVE  [thread EXCEPT ![d][t] = x]
           \in [Daemons -> [Threads -> {"none", "run", "select", "client", "done"}]]
BY DEF Typed

(* A daemon that does not move keeps its invariant.                        *)
LEMMA Frame ==
  ASSUME Typed, NEW d \in Daemons, DaemonInv(d), Same(d)
  PROVE  DaemonInv(d)'
<1>1. /\ JoinOrder(d)' = JoinOrder(d) /\ NoHole(d)' = NoHole(d)
      /\ Created(d)' = Created(d)
  BY RowKept DEF Same
<1>2. Quiet(d)' /\ Opened(d)' /\ ServersOver(d)' /\ ConnOver(d)' /\ PoolOver(d)'
  BY <1>1 DEF Same, DaemonInv, Quiet, Opened, ServersOver, ConnOver, PoolOver
<1>3. Counted(d)'
  BY <1>1 DEF Same, DaemonInv, Counted
<1>4. Joins(d)'
  BY <1>1 DEF Same, DaemonInv, Joins
<1> QED
  BY <1>2, <1>3, <1>4 DEF DaemonInv

(* Nothing is asked of a process that has ended.                           *)
LEMMA Ended ==
  ASSUME NEW d \in Daemons, DaemonInv(d), mpc'[d] = "dead",
         \A t \in Threads : thread'[d][t] = "none",
         wpc'[d] = "none"
  PROVE  DaemonInv(d)'
<1>1. Quiet(d)' /\ Opened(d)' /\ Counted(d)'
  BY DEF Quiet, Opened, Counted, Idle
<1>2. Joins(d)' /\ PoolOver(d)' /\ ServersOver(d)' /\ ConnOver(d)'
  BY DEF Joins, PoolOver, ServersOver, ConnOver, AfterJoin, AfterHttp, AfterUnix
<1> QED
  BY <1>1, <1>2 DEF DaemonInv

-----------------------------------------------------------------------------
(* One lemma per action.                                                   *)

LEMMA MainReadyStep ==
  ASSUME IndInv, NEW d \in Daemons, MainReady(d)
  PROVE  IndInv'
<1>1. Typed /\ DaemonInv(d)
  BY DEF IndInv
<1>2. /\ mpc[d] = "sigaction" /\ mpc'[d] = "loop"
      /\ db'[d] = db[d] /\ sched'[d] = sched[d] /\ count'[d] = count[d]
      /\ joined'[d] = joined[d] /\ thread'[d] = thread[d] /\ allocated'[d] = allocated[d]
      /\ wpc'[d] = wpc[d]
  BY <1>1 DEF MainReady, Set, Goto, mainVars, scriptVars, wsVars, Typed
<1>3. Typed'
  BY <1>1 DEF MainReady, Set, Goto, mainVars, scriptVars, wsVars, Typed, MainPc, WsPc
<1>4. ScriptInv'
  BY DEF MainReady, Set, Goto, mainVars, scriptVars, wsVars, IndInv, ScriptInv
<1>5. \A e \in Daemons \ {d} : DaemonInv(e)'
  <2>1. \A e \in Daemons \ {d} : Same(e)
    BY <1>1 DEF MainReady, Set, Goto, mainVars, scriptVars, wsVars, Typed, Same
  <2> QED
    BY <2>1, Frame DEF IndInv
<1>6. /\ JoinOrder(d)' = JoinOrder(d) /\ NoHole(d)' = NoHole(d)
      /\ Created(d)' = Created(d)
  BY <1>1, <1>2, RowKept
<1>7. DaemonInv(d)'
  <2>1. Quiet(d)'
    BY <1>1, <1>2, <1>6 DEF DaemonInv, Quiet, Idle
  <2>2. Opened(d)'
    BY <1>1, <1>2, <1>6 DEF DaemonInv, Opened
  <2>3. Counted(d)'
    BY <1>1, <1>2, <1>6 DEF DaemonInv, Counted, Idle
  <2>4. Joins(d)'
    BY <1>1, <1>2, <1>6 DEF DaemonInv, Joins, AfterJoin
  <2>5. PoolOver(d)'
    BY <1>1, <1>2, <1>6 DEF DaemonInv, PoolOver, AfterJoin
  <2>6. ServersOver(d)'
    BY <1>1, <1>2, <1>6 DEF DaemonInv, ServersOver, AfterUnix, AfterHttp, AfterJoin
  <2>7. ConnOver(d)'
    BY <1>1, <1>2, <1>6 DEF DaemonInv, ConnOver
  <2> QED
    BY <2>1, <2>2, <2>3, <2>4, <2>5, <2>6, <2>7 DEF DaemonInv
<1> QED
  BY <1>3, <1>4, <1>5, <1>7 DEF IndInv

LEMMA MainLoopStep ==
  ASSUME IndInv, NEW d \in Daemons, MainLoop(d)
  PROVE  IndInv'
<1>1. Typed /\ DaemonInv(d)
  BY DEF IndInv
<1>2. /\ mpc[d] = "loop" /\ mpc'[d] = "stopUnix"
      /\ db'[d] = db[d] /\ sched'[d] = sched[d] /\ count'[d] = count[d]
      /\ joined'[d] = joined[d] /\ thread'[d] = thread[d] /\ allocated'[d] = allocated[d]
      /\ wpc'[d] = wpc[d]
  BY <1>1 DEF MainLoop, Set, Goto, mainVars, scriptVars, wsVars, Typed
<1>3. Typed'
  BY <1>1 DEF MainLoop, Set, Goto, mainVars, scriptVars, wsVars, Typed, MainPc, WsPc
<1>4. ScriptInv'
  BY DEF MainLoop, Set, Goto, mainVars, scriptVars, wsVars, IndInv, ScriptInv
<1>5. \A e \in Daemons \ {d} : DaemonInv(e)'
  <2>1. \A e \in Daemons \ {d} : Same(e)
    BY <1>1 DEF MainLoop, Set, Goto, mainVars, scriptVars, wsVars, Typed, Same
  <2> QED
    BY <2>1, Frame DEF IndInv
<1>6. /\ JoinOrder(d)' = JoinOrder(d) /\ NoHole(d)' = NoHole(d)
      /\ Created(d)' = Created(d)
  BY <1>1, <1>2, RowKept
<1>7. DaemonInv(d)'
  <2>1. Quiet(d)'
    BY <1>1, <1>2, <1>6 DEF DaemonInv, Quiet, Idle
  <2>2. Opened(d)'
    BY <1>1, <1>2, <1>6 DEF DaemonInv, Opened
  <2>3. Counted(d)'
    BY <1>1, <1>2, <1>6 DEF DaemonInv, Counted, Idle
  <2>4. Joins(d)'
    BY <1>1, <1>2, <1>6 DEF DaemonInv, Joins, AfterJoin
  <2>5. PoolOver(d)'
    BY <1>1, <1>2, <1>6 DEF DaemonInv, PoolOver, AfterJoin
  <2>6. ServersOver(d)'
    BY <1>1, <1>2, <1>6 DEF DaemonInv, ServersOver, AfterUnix, AfterHttp, AfterJoin
  <2>7. ConnOver(d)'
    BY <1>1, <1>2, <1>6 DEF DaemonInv, ConnOver
  <2> QED
    BY <2>1, <2>2, <2>3, <2>4, <2>5, <2>6, <2>7 DEF DaemonInv
<1> QED
  BY <1>3, <1>4, <1>5, <1>7 DEF IndInv

LEMMA MainStopUnixStep ==
  ASSUME IndInv, NEW d \in Daemons, MainStopUnix(d)
  PROVE  IndInv'
<1>1. Typed /\ DaemonInv(d)
  BY DEF IndInv
<1>2. /\ mpc[d] = "stopUnix" /\ mpc'[d] = IF thread[d]["unix"] = "none" THEN "stopHttp" ELSE "joinUnix"
      /\ db'[d] = db[d] /\ sched'[d] = sched[d] /\ count'[d] = count[d]
      /\ joined'[d] = joined[d] /\ thread'[d] = thread[d] /\ allocated'[d] = allocated[d]
      /\ wpc'[d] = wpc[d]
  BY <1>1 DEF MainStopUnix, Set, Goto, mainVars, scriptVars, wsVars, Typed
<1>3. Typed'
  BY <1>1 DEF MainStopUnix, Set, Goto, mainVars, scriptVars, wsVars, Typed, MainPc, WsPc
<1>4. ScriptInv'
  BY DEF MainStopUnix, Set, Goto, mainVars, scriptVars, wsVars, IndInv, ScriptInv
<1>5. \A e \in Daemons \ {d} : DaemonInv(e)'
  <2>1. \A e \in Daemons \ {d} : Same(e)
    BY <1>1 DEF MainStopUnix, Set, Goto, mainVars, scriptVars, wsVars, Typed, Same
  <2> QED
    BY <2>1, Frame DEF IndInv
<1>6. /\ JoinOrder(d)' = JoinOrder(d) /\ NoHole(d)' = NoHole(d)
      /\ Created(d)' = Created(d)
  BY <1>1, <1>2, RowKept
<1>7. DaemonInv(d)'
  <2>1. Quiet(d)'
    BY <1>1, <1>2, <1>6 DEF DaemonInv, Quiet, Idle
  <2>2. Opened(d)'
    BY <1>1, <1>2, <1>6 DEF DaemonInv, Opened
  <2>3. Counted(d)'
    BY <1>1, <1>2, <1>6 DEF DaemonInv, Counted, Idle
  <2>4. Joins(d)'
    BY <1>1, <1>2, <1>6 DEF DaemonInv, Joins, AfterJoin
  <2>5. PoolOver(d)'
    BY <1>1, <1>2, <1>6 DEF DaemonInv, PoolOver, AfterJoin
  <2>6. ServersOver(d)'
    BY <1>1, <1>2, <1>6 DEF DaemonInv, ServersOver, AfterUnix, AfterHttp, AfterJoin
  <2>7. ConnOver(d)'
    BY <1>1, <1>2, <1>6 DEF DaemonInv, ConnOver
  <2> QED
    BY <2>1, <2>2, <2>3, <2>4, <2>5, <2>6, <2>7 DEF DaemonInv
<1> QED
  BY <1>3, <1>4, <1>5, <1>7 DEF IndInv

LEMMA MainJoinUnixStep ==
  ASSUME IndInv, NEW d \in Daemons, MainJoinUnix(d)
  PROVE  IndInv'
<1>1. Typed /\ DaemonInv(d)
  BY DEF IndInv
<1>2. /\ mpc[d] = "joinUnix" /\ mpc'[d] = "stopHttp"
      /\ thread[d]["unix"] = "done"
      /\ db'[d] = db[d] /\ sched'[d] = sched[d] /\ count'[d] = count[d]
      /\ joined'[d] = joined[d] /\ thread'[d] = thread[d] /\ allocated'[d] = allocated[d]
      /\ wpc'[d] = wpc[d]
  BY <1>1 DEF MainJoinUnix, Set, Goto, mainVars, scriptVars, wsVars, Typed
<1>3. Typed'
  BY <1>1 DEF MainJoinUnix, Set, Goto, mainVars, scriptVars, wsVars, Typed, MainPc, WsPc
<1>4. ScriptInv'
  BY DEF MainJoinUnix, Set, Goto, mainVars, scriptVars, wsVars, IndInv, ScriptInv
<1>5. \A e \in Daemons \ {d} : DaemonInv(e)'
  <2>1. \A e \in Daemons \ {d} : Same(e)
    BY <1>1 DEF MainJoinUnix, Set, Goto, mainVars, scriptVars, wsVars, Typed, Same
  <2> QED
    BY <2>1, Frame DEF IndInv
<1>6. /\ JoinOrder(d)' = JoinOrder(d) /\ NoHole(d)' = NoHole(d)
      /\ Created(d)' = Created(d)
  BY <1>1, <1>2, RowKept
<1>7. DaemonInv(d)'
  <2>1. Quiet(d)'
    BY <1>1, <1>2, <1>6 DEF DaemonInv, Quiet, Idle
  <2>2. Opened(d)'
    BY <1>1, <1>2, <1>6 DEF DaemonInv, Opened
  <2>3. Counted(d)'
    BY <1>1, <1>2, <1>6 DEF DaemonInv, Counted, Idle
  <2>4. Joins(d)'
    BY <1>1, <1>2, <1>6 DEF DaemonInv, Joins, AfterJoin
  <2>5. PoolOver(d)'
    BY <1>1, <1>2, <1>6 DEF DaemonInv, PoolOver, AfterJoin
  <2>6. ServersOver(d)'
    BY <1>1, <1>2, <1>6 DEF DaemonInv, ServersOver, AfterUnix, AfterHttp, AfterJoin
  <2>7. ConnOver(d)'
    BY <1>1, <1>2, <1>6 DEF DaemonInv, ConnOver
  <2> QED
    BY <2>1, <2>2, <2>3, <2>4, <2>5, <2>6, <2>7 DEF DaemonInv
<1> QED
  BY <1>3, <1>4, <1>5, <1>7 DEF IndInv

LEMMA MainStopSchedStep ==
  ASSUME IndInv, NEW d \in Daemons, MainStopSched(d)
  PROVE  IndInv'
<1>1. Typed /\ DaemonInv(d)
  BY DEF IndInv
<1>2. /\ mpc[d] = "stopSched" /\ mpc'[d] = "join"
      /\ db'[d] = db[d] /\ sched'[d] = sched[d] /\ count'[d] = count[d]
      /\ joined'[d] = joined[d] /\ thread'[d] = thread[d] /\ allocated'[d] = allocated[d]
      /\ wpc'[d] = wpc[d]
  BY <1>1 DEF MainStopSched, Set, Goto, mainVars, scriptVars, wsVars, Typed
<1>3. Typed'
  BY <1>1 DEF MainStopSched, Set, Goto, mainVars, scriptVars, wsVars, Typed, MainPc, WsPc
<1>4. ScriptInv'
  BY DEF MainStopSched, Set, Goto, mainVars, scriptVars, wsVars, IndInv, ScriptInv
<1>5. \A e \in Daemons \ {d} : DaemonInv(e)'
  <2>1. \A e \in Daemons \ {d} : Same(e)
    BY <1>1 DEF MainStopSched, Set, Goto, mainVars, scriptVars, wsVars, Typed, Same
  <2> QED
    BY <2>1, Frame DEF IndInv
<1>6. /\ JoinOrder(d)' = JoinOrder(d) /\ NoHole(d)' = NoHole(d)
      /\ Created(d)' = Created(d)
  BY <1>1, <1>2, RowKept
<1>7. DaemonInv(d)'
  <2>1. Quiet(d)'
    BY <1>1, <1>2, <1>6 DEF DaemonInv, Quiet, Idle
  <2>2. Opened(d)'
    BY <1>1, <1>2, <1>6 DEF DaemonInv, Opened
  <2>3. Counted(d)'
    BY <1>1, <1>2, <1>6 DEF DaemonInv, Counted, Idle
  <2>4. Joins(d)'
    BY <1>1, <1>2, <1>6 DEF DaemonInv, Joins, AfterJoin
  <2>5. PoolOver(d)'
    BY <1>1, <1>2, <1>6 DEF DaemonInv, PoolOver, AfterJoin
  <2>6. ServersOver(d)'
    BY <1>1, <1>2, <1>6 DEF DaemonInv, ServersOver, AfterUnix, AfterHttp, AfterJoin
  <2>7. ConnOver(d)'
    BY <1>1, <1>2, <1>6 DEF DaemonInv, ConnOver
  <2> QED
    BY <2>1, <2>2, <2>3, <2>4, <2>5, <2>6, <2>7 DEF DaemonInv
<1> QED
  BY <1>3, <1>4, <1>5, <1>7 DEF IndInv

LEMMA MainJoinedStep ==
  ASSUME IndInv, NEW d \in Daemons, MainJoined(d)
  PROVE  IndInv'
<1>1. Typed /\ DaemonInv(d)
  BY DEF IndInv
<1>2. /\ mpc[d] = "join" /\ mpc'[d] = IF allocated[d] THEN "disconnect" ELSE "destroy"
      /\ joined[d] = Len(JoinOrder(d))
      /\ db'[d] = db[d] /\ sched'[d] = sched[d] /\ count'[d] = count[d]
      /\ joined'[d] = joined[d] /\ thread'[d] = thread[d] /\ allocated'[d] = allocated[d]
      /\ wpc'[d] = wpc[d]
  BY <1>1 DEF MainJoined, Set, Goto, mainVars, scriptVars, wsVars, Typed
<1>3. Typed'
  BY <1>1 DEF MainJoined, Set, Goto, mainVars, scriptVars, wsVars, Typed, MainPc, WsPc
<1>4. ScriptInv'
  BY DEF MainJoined, Set, Goto, mainVars, scriptVars, wsVars, IndInv, ScriptInv
<1>5. \A e \in Daemons \ {d} : DaemonInv(e)'
  <2>1. \A e \in Daemons \ {d} : Same(e)
    BY <1>1 DEF MainJoined, Set, Goto, mainVars, scriptVars, wsVars, Typed, Same
  <2> QED
    BY <2>1, Frame DEF IndInv
<1>6. /\ JoinOrder(d)' = JoinOrder(d) /\ NoHole(d)' = NoHole(d)
      /\ Created(d)' = Created(d)
  BY <1>1, <1>2, RowKept
<1>7. DaemonInv(d)'
  <2>1. Quiet(d)'
    BY <1>1, <1>2, <1>6 DEF DaemonInv, Quiet, Idle
  <2>2. Opened(d)'
    BY <1>1, <1>2, <1>6 DEF DaemonInv, Opened
  <2>3. Counted(d)'
    BY <1>1, <1>2, <1>6 DEF DaemonInv, Counted, Idle
  <2>4. Joins(d)'
    BY <1>1, <1>2, <1>6 DEF DaemonInv, Joins, AfterJoin
  <2>5. PoolOver(d)'
    <3>1. SUFFICES ASSUME NoHole(d), NEW t \in Pool, thread[d][t] # "none"
                   PROVE  thread[d][t] = "done"
      BY <1>2, <1>6 DEF PoolOver
    <3>2. count[d] = Cardinality(Created(d))
      BY <1>1, <1>2 DEF DaemonInv, Counted, Idle
    <3>3. PICK i \in 1..Len(JoinOrder(d)) : JoinOrder(d)[i] = t
      BY <1>1, <3>1, <3>2, RowComplete
    <3> QED
      BY <1>1, <1>2, <3>1, <3>3 DEF DaemonInv, Joins
  <2>6. ServersOver(d)'
    BY <1>1, <1>2, <1>6 DEF DaemonInv, ServersOver, AfterUnix, AfterHttp, AfterJoin
  <2>7. ConnOver(d)'
    BY <1>1, <1>2, <1>6 DEF DaemonInv, ConnOver
  <2> QED
    BY <2>1, <2>2, <2>3, <2>4, <2>5, <2>6, <2>7 DEF DaemonInv
<1> QED
  BY <1>3, <1>4, <1>5, <1>7 DEF IndInv

LEMMA MainDestroyStep ==
  ASSUME IndInv, NEW d \in Daemons, MainDestroy(d)
  PROVE  IndInv'
<1>1. Typed /\ DaemonInv(d)
  BY DEF IndInv
<1>2. /\ mpc[d] = "destroy" /\ mpc'[d] = "close"
      /\ db'[d] = db[d] /\ count'[d] = count[d] /\ joined'[d] = joined[d]
      /\ thread'[d] = thread[d] /\ allocated'[d] = allocated[d] /\ wpc'[d] = wpc[d]
  BY <1>1 DEF MainDestroy, Set, Goto, mainVars, scriptVars, wsVars, Typed
<1>3. Typed'
  BY <1>1 DEF MainDestroy, Set, Goto, mainVars, scriptVars, wsVars, Typed, MainPc, WsPc
<1>4. ScriptInv'
  BY DEF MainDestroy, Set, Goto, mainVars, scriptVars, wsVars, IndInv, ScriptInv
<1>5. \A e \in Daemons \ {d} : DaemonInv(e)'
  <2>1. \A e \in Daemons \ {d} : Same(e)
    BY <1>1 DEF MainDestroy, Set, Goto, mainVars, scriptVars, wsVars, Typed, Same
  <2> QED
    BY <2>1, Frame DEF IndInv
<1>6. /\ JoinOrder(d)' = JoinOrder(d) /\ NoHole(d)' = NoHole(d)
      /\ Created(d)' = Created(d)
  BY <1>1, <1>2, RowKept
<1>7. DaemonInv(d)'
  <2>1. Quiet(d)'
    BY <1>1, <1>2, <1>6 DEF DaemonInv, Quiet, Idle
  <2>2. Opened(d)'
    BY <1>1, <1>2, <1>6 DEF DaemonInv, Opened
  <2>3. Counted(d)'
    BY <1>1, <1>2, <1>6 DEF DaemonInv, Counted, Idle
  <2>4. Joins(d)'
    BY <1>1, <1>2, <1>6 DEF DaemonInv, Joins, AfterJoin
  <2>5. PoolOver(d)'
    BY <1>1, <1>2, <1>6 DEF DaemonInv, PoolOver, AfterJoin
  <2>6. ServersOver(d)'
    BY <1>1, <1>2, <1>6 DEF DaemonInv, ServersOver, AfterUnix, AfterHttp, AfterJoin
  <2>7. ConnOver(d)'
    BY <1>1, <1>2, <1>6 DEF DaemonInv, ConnOver
  <2> QED
    BY <2>1, <2>2, <2>3, <2>4, <2>5, <2>6, <2>7 DEF DaemonInv
<1> QED
  BY <1>3, <1>4, <1>5, <1>7 DEF IndInv

LEMMA MainDisconnectStep ==
  ASSUME IndInv, NEW d \in Daemons, MainDisconnect(d)
  PROVE  IndInv'
<1>1. Typed /\ DaemonInv(d)
  BY DEF IndInv
<1>2. /\ mpc[d] = "disconnect" /\ mpc'[d] = "freeWs"
      /\ db'[d] = db[d] /\ sched'[d] = sched[d] /\ count'[d] = count[d]
      /\ joined'[d] = joined[d] /\ thread'[d] = thread[d] /\ allocated'[d] = allocated[d]
      /\ wpc'[d] = wpc[d]
  BY <1>1 DEF MainDisconnect, WsDisconnect, Set, Goto, mainVars, scriptVars, wsVars, Typed
<1>3. Typed'
  BY <1>1
    DEF MainDisconnect, WsDisconnect, Set, Goto, mainVars, scriptVars, wsVars, Typed,
        MainPc, WsPc
<1>4. ScriptInv'
  BY DEF MainDisconnect, WsDisconnect, Set, Goto, mainVars, scriptVars, wsVars, IndInv,
         ScriptInv
<1>5. \A e \in Daemons \ {d} : DaemonInv(e)'
  <2>1. \A e \in Daemons \ {d} : Same(e)
    BY <1>1, DaemonsAssumption
      DEF MainDisconnect, WsDisconnect, Set, Goto, mainVars, scriptVars, wsVars, Typed,
          Same
  <2> QED
    BY <2>1, Frame DEF IndInv
<1>6. /\ JoinOrder(d)' = JoinOrder(d) /\ NoHole(d)' = NoHole(d)
      /\ Created(d)' = Created(d)
  BY <1>1, <1>2, RowKept
<1>7. DaemonInv(d)'
  <2>1. Quiet(d)'
    BY <1>1, <1>2, <1>6 DEF DaemonInv, Quiet, Idle
  <2>2. Opened(d)'
    BY <1>1, <1>2, <1>6 DEF DaemonInv, Opened
  <2>3. Counted(d)'
    BY <1>1, <1>2, <1>6 DEF DaemonInv, Counted, Idle
  <2>4. Joins(d)'
    BY <1>1, <1>2, <1>6 DEF DaemonInv, Joins, AfterJoin
  <2>5. PoolOver(d)'
    BY <1>1, <1>2, <1>6 DEF DaemonInv, PoolOver, AfterJoin
  <2>6. ServersOver(d)'
    BY <1>1, <1>2, <1>6 DEF DaemonInv, ServersOver, AfterUnix, AfterHttp, AfterJoin
  <2>7. ConnOver(d)'
    BY <1>1, <1>2, <1>6 DEF DaemonInv, ConnOver
  <2> QED
    BY <2>1, <2>2, <2>3, <2>4, <2>5, <2>6, <2>7 DEF DaemonInv
<1> QED
  BY <1>3, <1>4, <1>5, <1>7 DEF IndInv

LEMMA MainHttpStep ==
  ASSUME IndInv, NEW d \in Daemons, MainHttp(d)
  PROVE  IndInv'
<1>1. Typed /\ DaemonInv(d)
  BY DEF IndInv
<1>0. \A t \in Pool : t \in Threads /\ t # "http" /\ t # "unix"
  BY Slots DEF Pool, Threads
<1>2. /\ mpc[d] = "http" /\ mpc'[d] = "unlink"
      /\ thread'[d]["unix"] = thread[d]["unix"]
      /\ \A t \in Pool : thread'[d][t] = thread[d][t]
      /\ db'[d] = db[d] /\ sched'[d] = sched[d] /\ count'[d] = count[d]
      /\ joined'[d] = joined[d] /\ allocated'[d] = allocated[d] /\ wpc'[d] = wpc[d]
  BY <1>1, <1>0 DEF MainHttp, Threads, Set, Goto, mainVars, scriptVars, wsVars, Typed
<1>3. Typed'
  <2>1. thread' \in [Daemons -> [Threads -> {"none", "run", "select", "client", "done"}]]
    <3>1. thread' = thread \/ thread' = [thread EXCEPT ![d]["http"] = "run"]
      BY DEF MainHttp
    <3>2. "http" \in Threads
      BY DEF Threads
    <3>3. [thread EXCEPT ![d]["http"] = "run"]
            \in [Daemons -> [Threads -> {"none", "run", "select", "client", "done"}]]
      BY <1>1, <3>2, ThreadTyped
    <3>4. thread \in [Daemons -> [Threads -> {"none", "run", "select", "client", "done"}]]
      BY <1>1 DEF Typed
    <3> QED
      BY <3>1, <3>3, <3>4
  <2> QED
    BY <1>1, <2>1 DEF MainHttp, Set, Goto, mainVars, scriptVars, wsVars, Typed, MainPc, WsPc
<1>4. ScriptInv'
  BY <1>0
    DEF MainHttp, Threads, Set, Goto, mainVars, scriptVars, wsVars, IndInv, ScriptInv
<1>5. \A e \in Daemons \ {d} : DaemonInv(e)'
  <2>1. \A e \in Daemons \ {d} : Same(e)
    BY <1>1, <1>0
      DEF MainHttp, Threads, Set, Goto, mainVars, scriptVars, wsVars, Typed, Same
  <2> QED
    BY <2>1, Frame DEF IndInv
<1>6. /\ JoinOrder(d)' = JoinOrder(d) /\ NoHole(d)' = NoHole(d)
      /\ Created(d)' = Created(d)
  BY <1>1, <1>2, RowKept
<1>7. DaemonInv(d)'
  <2>1. Quiet(d)'
    BY <1>1, <1>2, <1>6 DEF DaemonInv, Quiet, Idle
  <2>2. Opened(d)'
    BY <1>1, <1>2, <1>6 DEF DaemonInv, Opened
  <2>3. Counted(d)'
    BY <1>1, <1>2, <1>6 DEF DaemonInv, Counted, Idle
  <2>4. Joins(d)'
    BY <1>1, <1>2, <1>6 DEF DaemonInv, Joins, AfterJoin
  <2>5. PoolOver(d)'
    BY <1>1, <1>2, <1>6 DEF DaemonInv, PoolOver, AfterJoin
  <2>6. ServersOver(d)'
    BY <1>1, <1>2, <1>6 DEF DaemonInv, ServersOver, AfterUnix, AfterHttp, AfterJoin
  <2>7. ConnOver(d)'
    BY <1>1, <1>2, <1>6 DEF DaemonInv, ConnOver
  <2> QED
    BY <2>1, <2>2, <2>3, <2>4, <2>5, <2>6, <2>7 DEF DaemonInv
<1> QED
  BY <1>3, <1>4, <1>5, <1>7 DEF IndInv

LEMMA MainUnlinkStep ==
  ASSUME IndInv, NEW d \in Daemons, MainUnlink(d)
  PROVE  IndInv'
<1>1. Typed /\ DaemonInv(d)
  BY DEF IndInv
<1>2. /\ mpc[d] = "unlink" /\ mpc'[d] \in {"bind", "sigaction"}
      /\ db'[d] = db[d] /\ sched'[d] = sched[d] /\ count'[d] = count[d]
      /\ joined'[d] = joined[d] /\ thread'[d] = thread[d] /\ allocated'[d] = allocated[d]
      /\ wpc'[d] = wpc[d]
  BY <1>1 DEF MainUnlink, Set, Goto, mainVars, scriptVars, wsVars, Typed
<1>3. Typed'
  BY <1>1 DEF MainUnlink, Set, Goto, mainVars, scriptVars, wsVars, Typed, MainPc, WsPc
<1>4. ScriptInv'
  BY DEF MainUnlink, Set, Goto, mainVars, scriptVars, wsVars, IndInv, ScriptInv
<1>5. \A e \in Daemons \ {d} : DaemonInv(e)'
  <2>1. \A e \in Daemons \ {d} : Same(e)
    BY <1>1 DEF MainUnlink, Set, Goto, mainVars, scriptVars, wsVars, Typed, Same
  <2> QED
    BY <2>1, Frame DEF IndInv
<1>6. /\ JoinOrder(d)' = JoinOrder(d) /\ NoHole(d)' = NoHole(d)
      /\ Created(d)' = Created(d)
  BY <1>1, <1>2, RowKept
<1>7. DaemonInv(d)'
  <2>1. Quiet(d)'
    BY <1>1, <1>2, <1>6 DEF DaemonInv, Quiet, Idle
  <2>2. Opened(d)'
    BY <1>1, <1>2, <1>6 DEF DaemonInv, Opened
  <2>3. Counted(d)'
    BY <1>1, <1>2, <1>6 DEF DaemonInv, Counted, Idle
  <2>4. Joins(d)'
    BY <1>1, <1>2, <1>6 DEF DaemonInv, Joins, AfterJoin
  <2>5. PoolOver(d)'
    BY <1>1, <1>2, <1>6 DEF DaemonInv, PoolOver, AfterJoin
  <2>6. ServersOver(d)'
    BY <1>1, <1>2, <1>6 DEF DaemonInv, ServersOver, AfterUnix, AfterHttp, AfterJoin
  <2>7. ConnOver(d)'
    BY <1>1, <1>2, <1>6 DEF DaemonInv, ConnOver
  <2> QED
    BY <2>1, <2>2, <2>3, <2>4, <2>5, <2>6, <2>7 DEF DaemonInv
<1> QED
  BY <1>3, <1>4, <1>5, <1>7 DEF IndInv

LEMMA MainBindStep ==
  ASSUME IndInv, NEW d \in Daemons, MainBind(d)
  PROVE  IndInv'
<1>1. Typed /\ DaemonInv(d)
  BY DEF IndInv
<1>0. \A t \in Pool : t \in Threads /\ t # "http" /\ t # "unix"
  BY Slots DEF Pool, Threads
<1>2. /\ mpc[d] = "bind" /\ mpc'[d] = "sigaction"
      /\ \A t \in Pool : thread'[d][t] = thread[d][t]
      /\ db'[d] = db[d] /\ sched'[d] = sched[d] /\ count'[d] = count[d]
      /\ joined'[d] = joined[d] /\ allocated'[d] = allocated[d] /\ wpc'[d] = wpc[d]
  BY <1>1, <1>0 DEF MainBind, Threads, Set, Goto, mainVars, scriptVars, wsVars, Typed
<1>3. Typed'
  <2>1. thread' \in [Daemons -> [Threads -> {"none", "run", "select", "client", "done"}]]
    <3>1. thread' = thread \/ thread' = [thread EXCEPT ![d]["unix"] = "run"]
      BY DEF MainBind
    <3>2. "unix" \in Threads
      BY DEF Threads
    <3>3. [thread EXCEPT ![d]["unix"] = "run"]
            \in [Daemons -> [Threads -> {"none", "run", "select", "client", "done"}]]
      BY <1>1, <3>2, ThreadTyped
    <3>4. thread \in [Daemons -> [Threads -> {"none", "run", "select", "client", "done"}]]
      BY <1>1 DEF Typed
    <3> QED
      BY <3>1, <3>3, <3>4
  <2> QED
    BY <1>1, <2>1 DEF MainBind, Set, Goto, mainVars, scriptVars, wsVars, Typed, MainPc, WsPc
<1>4. ScriptInv'
  BY <1>0
    DEF MainBind, Threads, Set, Goto, mainVars, scriptVars, wsVars, IndInv, ScriptInv
<1>5. \A e \in Daemons \ {d} : DaemonInv(e)'
  <2>1. \A e \in Daemons \ {d} : Same(e)
    BY <1>1, <1>0
      DEF MainBind, Threads, Set, Goto, mainVars, scriptVars, wsVars, Typed, Same
  <2> QED
    BY <2>1, Frame DEF IndInv
<1>6. /\ JoinOrder(d)' = JoinOrder(d) /\ NoHole(d)' = NoHole(d)
      /\ Created(d)' = Created(d)
  BY <1>1, <1>2, RowKept
<1>7. DaemonInv(d)'
  <2>1. Quiet(d)'
    BY <1>1, <1>2, <1>6 DEF DaemonInv, Quiet, Idle
  <2>2. Opened(d)'
    BY <1>1, <1>2, <1>6 DEF DaemonInv, Opened
  <2>3. Counted(d)'
    BY <1>1, <1>2, <1>6 DEF DaemonInv, Counted, Idle
  <2>4. Joins(d)'
    BY <1>1, <1>2, <1>6 DEF DaemonInv, Joins, AfterJoin
  <2>5. PoolOver(d)'
    BY <1>1, <1>2, <1>6 DEF DaemonInv, PoolOver, AfterJoin
  <2>6. ServersOver(d)'
    BY <1>1, <1>2, <1>6 DEF DaemonInv, ServersOver, AfterUnix, AfterHttp, AfterJoin
  <2>7. ConnOver(d)'
    BY <1>1, <1>2, <1>6 DEF DaemonInv, ConnOver
  <2> QED
    BY <2>1, <2>2, <2>3, <2>4, <2>5, <2>6, <2>7 DEF DaemonInv
<1> QED
  BY <1>3, <1>4, <1>5, <1>7 DEF IndInv

LEMMA MainStopHttpStep ==
  ASSUME IndInv, NEW d \in Daemons, MainStopHttp(d)
  PROVE  IndInv'
<1>1. Typed /\ DaemonInv(d)
  BY DEF IndInv
<1>0. \A t \in Pool : t \in Threads /\ t # "http" /\ t # "unix"
  BY Slots DEF Pool, Threads
<1>2. /\ mpc[d] = "stopHttp" /\ mpc'[d] = "stopSched"
      /\ thread'[d]["unix"] = thread[d]["unix"]
      /\ thread'[d]["http"] = "none"
      /\ \A t \in Pool : thread'[d][t] = thread[d][t]
      /\ db'[d] = db[d] /\ sched'[d] = sched[d] /\ count'[d] = count[d]
      /\ joined'[d] = joined[d] /\ allocated'[d] = allocated[d] /\ wpc'[d] = wpc[d]
  BY <1>1, <1>0 DEF MainStopHttp, Threads, Set, Goto, mainVars, scriptVars, wsVars, Typed
<1>3. Typed'
  BY <1>1, <1>0
    DEF MainStopHttp, Threads, Set, Goto, mainVars, scriptVars, wsVars, Typed, MainPc,
        WsPc
<1>4. ScriptInv'
  BY <1>0
    DEF MainStopHttp, Threads, Set, Goto, mainVars, scriptVars, wsVars, IndInv,
        ScriptInv
<1>5. \A e \in Daemons \ {d} : DaemonInv(e)'
  <2>1. \A e \in Daemons \ {d} : Same(e)
    BY <1>1, <1>0
      DEF MainStopHttp, Threads, Set, Goto, mainVars, scriptVars, wsVars, Typed, Same
  <2> QED
    BY <2>1, Frame DEF IndInv
<1>6. /\ JoinOrder(d)' = JoinOrder(d) /\ NoHole(d)' = NoHole(d)
      /\ Created(d)' = Created(d)
  BY <1>1, <1>2, RowKept
<1>7. DaemonInv(d)'
  <2>1. Quiet(d)'
    BY <1>1, <1>2, <1>6 DEF DaemonInv, Quiet, Idle
  <2>2. Opened(d)'
    BY <1>1, <1>2, <1>6 DEF DaemonInv, Opened
  <2>3. Counted(d)'
    BY <1>1, <1>2, <1>6 DEF DaemonInv, Counted, Idle
  <2>4. Joins(d)'
    BY <1>1, <1>2, <1>6 DEF DaemonInv, Joins, AfterJoin
  <2>5. PoolOver(d)'
    BY <1>1, <1>2, <1>6 DEF DaemonInv, PoolOver, AfterJoin
  <2>6. ServersOver(d)'
    BY <1>1, <1>2, <1>6 DEF DaemonInv, ServersOver, AfterUnix, AfterHttp, AfterJoin
  <2>7. ConnOver(d)'
    BY <1>1, <1>2, <1>6 DEF DaemonInv, ConnOver
  <2> QED
    BY <2>1, <2>2, <2>3, <2>4, <2>5, <2>6, <2>7 DEF DaemonInv
<1> QED
  BY <1>3, <1>4, <1>5, <1>7 DEF IndInv

LEMMA UnixThreadStep ==
  ASSUME IndInv, NEW d \in Daemons, UnixThread(d)
  PROVE  IndInv'
<1>1. Typed /\ DaemonInv(d)
  BY DEF IndInv
<1>0. \A t \in Pool : t \in Threads /\ t # "http" /\ t # "unix"
  BY Slots DEF Pool, Threads
<1>2. /\ UNCHANGED <<mpc, mainVars, port, path, scriptVars, wsVars>>
      /\ \E x \in {"run", "select", "client", "done"} :
           thread' = [thread EXCEPT ![d]["unix"] = x]
      /\ thread[d]["unix"] \in {"run", "select", "client"}
  BY DEF UnixThread, UnixTest, UnixAccept, UnixAgain
<1>3. /\ mpc'[d] = mpc[d]
      /\ thread'[d]["http"] = thread[d]["http"]
      /\ \A t \in Pool : thread'[d][t] = thread[d][t]
      /\ db'[d] = db[d] /\ sched'[d] = sched[d] /\ count'[d] = count[d]
      /\ joined'[d] = joined[d] /\ allocated'[d] = allocated[d] /\ wpc'[d] = wpc[d]
  BY <1>0, <1>1, <1>2 DEF Threads, mainVars, wsVars, Typed
<1>4. Typed'
  <2>1. PICK x \in {"run", "select", "client", "done"} :
          thread' = [thread EXCEPT ![d]["unix"] = x]
    BY <1>2
  <2>2. thread' \in [Daemons -> [Threads -> {"none", "run", "select", "client", "done"}]]
    BY <1>1, <2>1, ThreadTyped DEF Threads
  <2> QED
    BY <1>1, <1>2, <2>2 DEF mainVars, scriptVars, wsVars, Typed
<1>5. ScriptInv'
  BY <1>2 DEF mainVars, scriptVars, wsVars, IndInv, ScriptInv
<1>6. \A e \in Daemons \ {d} : DaemonInv(e)'
  <2>1. \A e \in Daemons \ {d} : Same(e)
    BY <1>1, <1>2 DEF mainVars, scriptVars, wsVars, Typed, Same
  <2> QED
    BY <2>1, Frame DEF IndInv
<1>7. /\ JoinOrder(d)' = JoinOrder(d) /\ NoHole(d)' = NoHole(d)
      /\ Created(d)' = Created(d)
  BY <1>1, <1>3, RowKept
<1>8. DaemonInv(d)'
  <2>1. Quiet(d)'
    <3>1. "unix" \in Threads
      BY DEF Threads
    <3> QED
      BY <1>1, <1>2, <1>3, <3>1 DEF DaemonInv, Quiet
  <2>2. Opened(d)'
    BY <1>1, <1>3, <1>7 DEF DaemonInv, Opened
  <2>3. Counted(d)'
    BY <1>1, <1>3, <1>7 DEF DaemonInv, Counted, Idle
  <2>4. Joins(d)'
    BY <1>1, <1>3, JoinsKept DEF DaemonInv
  <2>5. PoolOver(d)'
    BY <1>1, <1>3, <1>7 DEF DaemonInv, PoolOver, AfterJoin
  <2>6. ServersOver(d)'
    BY <1>1, <1>2, <1>3, <1>7 DEF DaemonInv, ServersOver, AfterUnix, AfterHttp, AfterJoin
  <2>7. ConnOver(d)'
    BY <1>1, <1>3, <1>7 DEF DaemonInv, ConnOver
  <2> QED
    BY <2>1, <2>2, <2>3, <2>4, <2>5, <2>6, <2>7 DEF DaemonInv
<1> QED
  BY <1>4, <1>5, <1>6, <1>8 DEF IndInv

LEMMA PoolExitStep ==
  ASSUME IndInv, NEW d \in Daemons, NEW t \in Pool, PoolExit(d, t)
  PROVE  IndInv'
<1>1. Typed /\ DaemonInv(d)
  BY DEF IndInv
<1>0. \A u \in Pool : u \in Threads /\ u # "http" /\ u # "unix"
  BY Slots DEF Pool, Threads
<1>2. /\ mpc'[d] = mpc[d] /\ thread[d][t] = "run" /\ thread'[d][t] = "done"
      /\ \A u \in Threads \ {t} : thread'[d][u] = thread[d][u]
      /\ \A u \in Pool : (thread'[d][u] = "none") <=> (thread[d][u] = "none")
      /\ \A u \in Pool : thread[d][u] = "done" => thread'[d][u] = "done"
      /\ \A u \in {"http", "unix"} : thread'[d][u] = thread[d][u]
      /\ db'[d] = db[d] /\ sched'[d] = sched[d] /\ count'[d] = count[d]
      /\ joined'[d] = joined[d] /\ allocated'[d] = allocated[d] /\ wpc'[d] = wpc[d]
  BY <1>1, <1>0 DEF PoolExit, Threads, Set, Goto, mainVars, scriptVars, wsVars, Typed
<1>3. Typed'
  BY <1>1, <1>0
    DEF PoolExit, Threads, Set, Goto, mainVars, scriptVars, wsVars, Typed, MainPc, WsPc
<1>4. ScriptInv'
  BY <1>0
    DEF PoolExit, Threads, Set, Goto, mainVars, scriptVars, wsVars, IndInv, ScriptInv
<1>5. \A e \in Daemons \ {d} : DaemonInv(e)'
  <2>1. \A e \in Daemons \ {d} : Same(e)
    BY <1>1, <1>0
      DEF PoolExit, Threads, Set, Goto, mainVars, scriptVars, wsVars, Typed, Same
  <2> QED
    BY <2>1, Frame DEF IndInv
<1>6. /\ JoinOrder(d)' = JoinOrder(d) /\ NoHole(d)' = NoHole(d)
      /\ Created(d)' = Created(d)
  BY <1>1, <1>2, RowKept
<1>7. DaemonInv(d)'
  <2>1. Quiet(d)'
    <3>1. mpc[d] \notin Idle
      BY <1>1, <1>2, <1>0 DEF DaemonInv, Quiet
    <3> QED
      BY <1>2, <3>1 DEF Quiet
  <2>2. Opened(d)'
    BY <1>1, <1>2, <1>6 DEF DaemonInv, Opened
  <2>3. Counted(d)'
    BY <1>1, <1>2, <1>6 DEF DaemonInv, Counted, Idle
  <2>4. Joins(d)'
    BY <1>1, <1>2, JoinsKept DEF DaemonInv
  <2>5. PoolOver(d)'
    <3>1. \A u \in Pool : thread[d][u] \in {"none", "done"} => thread'[d][u] \in {"none", "done"}
      BY <1>2
    <3> QED
      BY <1>1, <1>2, <1>3, <3>1, <1>6 DEF DaemonInv, PoolOver
  <2>6. ServersOver(d)'
    BY <1>1, <1>2, <1>6 DEF DaemonInv, ServersOver, AfterUnix, AfterHttp, AfterJoin
  <2>7. ConnOver(d)'
    BY <1>1, <1>2, <1>6 DEF DaemonInv, ConnOver
  <2> QED
    BY <2>1, <2>2, <2>3, <2>4, <2>5, <2>6, <2>7 DEF DaemonInv
<1> QED
  BY <1>3, <1>4, <1>5, <1>7 DEF IndInv

(* The end of the process of d, from whatever main was doing.             *)
LEMMA ProcessEnds ==
  ASSUME IndInv, NEW d \in Daemons, ProcessesEnd({d}),
         db' = db \/ db' = Set(db, d, "freed"),
         UNCHANGED <<g_running, sched, running, count, joined, unix_running, path,
                     scriptVars>>
  PROVE  IndInv'
<1>1. Typed /\ DaemonInv(d)
  BY DEF IndInv
<1>2. /\ mpc'[d] = "dead" /\ wpc'[d] = "none"
      /\ \A t \in Threads : thread'[d][t] = "none"
  BY <1>1, DaemonsAssumption DEF ProcessesEnd, Typed
<1>3. Typed'
  BY <1>1, DaemonsAssumption DEF ProcessesEnd, Typed, MainPc, WsPc, Set, scriptVars
<1>4. ScriptInv'
  BY DEF IndInv, ScriptInv, scriptVars
<1>5. \A e \in Daemons \ {d} : DaemonInv(e)'
  <2>1. \A e \in Daemons \ {d} : Same(e)
    BY <1>1, DaemonsAssumption DEF ProcessesEnd, Typed, Same, Set
  <2> QED
    BY <2>1, Frame DEF IndInv
<1>6. DaemonInv(d)'
  BY <1>1, <1>2, Ended
<1> QED
  BY <1>3, <1>4, <1>5, <1>6 DEF IndInv

LEMMA MainOpenStep ==
  ASSUME IndInv, NEW d \in Daemons, MainOpen(d)
  PROVE  IndInv'
<1>1. Typed /\ DaemonInv(d)
  BY DEF IndInv
<1>0. SUFFICES ASSUME mpc[d] = "open", db' = Set(db, d, "live"), Goto(d, "migrate"),
                      UNCHANGED <<thread, port, wsVars, g_running, sched, running,
                                  count, joined, unix_running, path, scriptVars>>
               PROVE  IndInv'
  BY ProcessEnds DEF MainOpen
<1>2. /\ mpc[d] = "open" /\ mpc'[d] = "migrate" /\ db'[d] = "live"
      /\ sched'[d] = sched[d] /\ count'[d] = count[d] /\ joined'[d] = joined[d]
      /\ thread'[d] = thread[d] /\ allocated'[d] = allocated[d] /\ wpc'[d] = wpc[d]
  BY <1>1, <1>0 DEF Set, Goto, mainVars, scriptVars, wsVars, Typed
<1>3. Typed'
  BY <1>1, <1>0 DEF Set, Goto, mainVars, scriptVars, wsVars, Typed, MainPc, WsPc
<1>4. ScriptInv'
  BY <1>0 DEF Set, Goto, mainVars, scriptVars, wsVars, IndInv, ScriptInv
<1>5. \A e \in Daemons \ {d} : DaemonInv(e)'
  <2>1. \A e \in Daemons \ {d} : Same(e)
    BY <1>1, <1>0 DEF Set, Goto, mainVars, scriptVars, wsVars, Typed, Same
  <2> QED
    BY <2>1, Frame DEF IndInv
<1>6. /\ JoinOrder(d)' = JoinOrder(d) /\ NoHole(d)' = NoHole(d)
      /\ Created(d)' = Created(d)
  BY <1>1, <1>2, RowKept
<1>7. DaemonInv(d)'
  <2>1. Quiet(d)'
    BY <1>1, <1>2, <1>6 DEF DaemonInv, Quiet, Idle
  <2>2. Opened(d)'
    BY <1>1, <1>2, <1>6 DEF DaemonInv, Opened
  <2>3. Counted(d)'
    BY <1>1, <1>2, <1>6 DEF DaemonInv, Counted, Idle
  <2>4. Joins(d)'
    BY <1>1, <1>2, <1>6 DEF DaemonInv, Joins, AfterJoin
  <2>5. PoolOver(d)'
    BY <1>1, <1>2, <1>6 DEF DaemonInv, PoolOver, AfterJoin
  <2>6. ServersOver(d)'
    BY <1>1, <1>2, <1>6 DEF DaemonInv, ServersOver, AfterUnix, AfterHttp, AfterJoin
  <2>7. ConnOver(d)'
    BY <1>1, <1>2, <1>6 DEF DaemonInv, ConnOver
  <2> QED
    BY <2>1, <2>2, <2>3, <2>4, <2>5, <2>6, <2>7 DEF DaemonInv
<1> QED
  BY <1>3, <1>4, <1>5, <1>7 DEF IndInv

LEMMA MainMigrateStep ==
  ASSUME IndInv, NEW d \in Daemons, MainMigrate(d)
  PROVE  IndInv'
<1>1. Typed /\ DaemonInv(d)
  BY DEF IndInv
<1>0. SUFFICES ASSUME mpc[d] = "migrate", sched' = Set(sched, d, "live"), Goto(d, "start"),
                      UNCHANGED <<db, thread, port, wsVars, g_running, running,
                                  count, joined, unix_running, path, scriptVars>>
               PROVE  IndInv'
  BY ProcessEnds DEF MainMigrate
<1>2. /\ mpc[d] = "migrate" /\ mpc'[d] = "start" /\ sched'[d] = "live"
      /\ db'[d] = db[d] /\ count'[d] = count[d] /\ joined'[d] = joined[d]
      /\ thread'[d] = thread[d] /\ allocated'[d] = allocated[d] /\ wpc'[d] = wpc[d]
  BY <1>1, <1>0 DEF Set, Goto, mainVars, scriptVars, wsVars, Typed
<1>3. Typed'
  BY <1>1, <1>0 DEF Set, Goto, mainVars, scriptVars, wsVars, Typed, MainPc, WsPc
<1>4. ScriptInv'
  BY <1>0 DEF Set, Goto, mainVars, scriptVars, wsVars, IndInv, ScriptInv
<1>5. \A e \in Daemons \ {d} : DaemonInv(e)'
  <2>1. \A e \in Daemons \ {d} : Same(e)
    BY <1>1, <1>0 DEF Set, Goto, mainVars, scriptVars, wsVars, Typed, Same
  <2> QED
    BY <2>1, Frame DEF IndInv
<1>6. /\ JoinOrder(d)' = JoinOrder(d) /\ NoHole(d)' = NoHole(d)
      /\ Created(d)' = Created(d)
  BY <1>1, <1>2, RowKept
<1>7. DaemonInv(d)'
  <2>1. Quiet(d)'
    BY <1>1, <1>2, <1>6 DEF DaemonInv, Quiet, Idle
  <2>2. Opened(d)'
    BY <1>1, <1>2, <1>6 DEF DaemonInv, Opened
  <2>3. Counted(d)'
    BY <1>1, <1>2, <1>6 DEF DaemonInv, Counted, Idle
  <2>4. Joins(d)'
    BY <1>1, <1>2, <1>6 DEF DaemonInv, Joins, AfterJoin
  <2>5. PoolOver(d)'
    BY <1>1, <1>2, <1>6 DEF DaemonInv, PoolOver, AfterJoin
  <2>6. ServersOver(d)'
    BY <1>1, <1>2, <1>6 DEF DaemonInv, ServersOver, AfterUnix, AfterHttp, AfterJoin
  <2>7. ConnOver(d)'
    BY <1>1, <1>2, <1>6 DEF DaemonInv, ConnOver
  <2> QED
    BY <2>1, <2>2, <2>3, <2>4, <2>5, <2>6, <2>7 DEF DaemonInv
<1> QED
  BY <1>3, <1>4, <1>5, <1>7 DEF IndInv

LEMMA MainCloseStep ==
  ASSUME IndInv, NEW d \in Daemons, MainClose(d)
  PROVE  IndInv'
BY ProcessEnds DEF MainClose

LEMMA MainJoinStep ==
  ASSUME IndInv, NEW d \in Daemons, MainJoin(d)
  PROVE  IndInv'
<1>1. Typed /\ DaemonInv(d)
  BY DEF IndInv
<1>2. /\ mpc[d] = "join" /\ mpc'[d] = mpc[d] /\ joined'[d] = joined[d] + 1
      /\ joined[d] < Len(JoinOrder(d)) /\ thread[d][JoinOrder(d)[joined[d] + 1]] = "done"
      /\ db'[d] = db[d] /\ sched'[d] = sched[d] /\ count'[d] = count[d]
      /\ thread'[d] = thread[d] /\ allocated'[d] = allocated[d] /\ wpc'[d] = wpc[d]
  BY <1>1 DEF MainJoin, Set, Goto, mainVars, scriptVars, wsVars, Typed
<1>3. Typed'
  BY <1>1 DEF MainJoin, Set, Goto, mainVars, scriptVars, wsVars, Typed, MainPc, WsPc
<1>4. ScriptInv'
  BY DEF MainJoin, Set, Goto, mainVars, scriptVars, wsVars, IndInv, ScriptInv
<1>5. \A e \in Daemons \ {d} : DaemonInv(e)'
  <2>1. \A e \in Daemons \ {d} : Same(e)
    BY <1>1 DEF MainJoin, Set, Goto, mainVars, scriptVars, wsVars, Typed, Same
  <2> QED
    BY <2>1, Frame DEF IndInv
<1>6. /\ JoinOrder(d)' = JoinOrder(d) /\ NoHole(d)' = NoHole(d)
      /\ Created(d)' = Created(d)
  BY <1>1, <1>2, RowKept
<1>7. DaemonInv(d)'
  <2>1. Quiet(d)'
    BY <1>1, <1>2, <1>6 DEF DaemonInv, Quiet, Idle
  <2>2. Opened(d)'
    BY <1>1, <1>2, <1>6 DEF DaemonInv, Opened
  <2>3. Counted(d)'
    BY <1>1, <1>2, <1>6 DEF DaemonInv, Counted, Idle
  <2>4. Joins(d)'
    <3>1. joined[d] \in Nat /\ Len(JoinOrder(d)) \in Nat
      BY <1>1, RowElems DEF Typed
    <3>2. joined'[d] \in 0..Len(JoinOrder(d))
      BY <1>2, <3>1
    <3>3. ASSUME NoHole(d), NEW i \in 1..joined'[d]
          PROVE  thread[d][JoinOrder(d)[i]] = "done"
      <4>1. CASE i = joined[d] + 1
        BY <1>2, <4>1
      <4>2. CASE i # joined[d] + 1
        <5>1. i \in 1..joined[d]
          BY <1>2, <3>1, <3>3, <4>2
        <5> QED
          BY <1>1, <1>2, <3>3, <5>1 DEF DaemonInv, Joins
      <4> QED
        BY <4>1, <4>2
    <3> QED
      BY <1>2, <1>6, <3>2, <3>3 DEF Joins, AfterJoin
  <2>5. PoolOver(d)'
    BY <1>1, <1>2, <1>6 DEF DaemonInv, PoolOver, AfterJoin
  <2>6. ServersOver(d)'
    BY <1>1, <1>2, <1>6 DEF DaemonInv, ServersOver, AfterUnix, AfterHttp, AfterJoin
  <2>7. ConnOver(d)'
    BY <1>1, <1>2, <1>6 DEF DaemonInv, ConnOver
  <2> QED
    BY <2>1, <2>2, <2>3, <2>4, <2>5, <2>6, <2>7 DEF DaemonInv
<1> QED
  BY <1>3, <1>4, <1>5, <1>7 DEF IndInv

LEMMA MainJoinHoleStep ==
  ASSUME IndInv, NEW d \in Daemons, MainJoinHole(d)
  PROVE  IndInv'
<1>1. Typed /\ DaemonInv(d)
  BY DEF IndInv
<1>0. SUFFICES ASSUME mpc[d] = "join", joined[d] < Len(JoinOrder(d)),
                      thread[d][JoinOrder(d)[joined[d] + 1]] = "none",
                      joined' = Set(joined, d, joined[d] + 1),
                      UNCHANGED <<mpc, thread, port, wsVars, g_running, db, sched,
                                  running, count, unix_running, path, scriptVars>>
               PROVE  IndInv'
  BY ProcessEnds DEF MainJoinHole
<1>2. /\ mpc[d] = "join" /\ mpc'[d] = mpc[d] /\ joined'[d] = joined[d] + 1
      /\ joined[d] < Len(JoinOrder(d)) /\ thread[d][JoinOrder(d)[joined[d] + 1]] = "none"
      /\ db'[d] = db[d] /\ sched'[d] = sched[d] /\ count'[d] = count[d]
      /\ thread'[d] = thread[d] /\ allocated'[d] = allocated[d] /\ wpc'[d] = wpc[d]
  BY <1>1, <1>0 DEF Set, Goto, mainVars, scriptVars, wsVars, Typed
<1>3. Typed'
  BY <1>1, <1>0 DEF Set, Goto, mainVars, scriptVars, wsVars, Typed, MainPc, WsPc
<1>4. ScriptInv'
  BY <1>0 DEF Set, Goto, mainVars, scriptVars, wsVars, IndInv, ScriptInv
<1>5. \A e \in Daemons \ {d} : DaemonInv(e)'
  <2>1. \A e \in Daemons \ {d} : Same(e)
    BY <1>1, <1>0 DEF Set, Goto, mainVars, scriptVars, wsVars, Typed, Same
  <2> QED
    BY <2>1, Frame DEF IndInv
<1>6. /\ JoinOrder(d)' = JoinOrder(d) /\ NoHole(d)' = NoHole(d)
      /\ Created(d)' = Created(d)
  BY <1>1, <1>2, RowKept
<1>7. DaemonInv(d)'
  <2>1. Quiet(d)'
    BY <1>1, <1>2, <1>6 DEF DaemonInv, Quiet, Idle
  <2>2. Opened(d)'
    BY <1>1, <1>2, <1>6 DEF DaemonInv, Opened
  <2>3. Counted(d)'
    BY <1>1, <1>2, <1>6 DEF DaemonInv, Counted, Idle
  <2>4. Joins(d)'
    <3>1. joined[d] \in Nat /\ Len(JoinOrder(d)) \in Nat
      BY <1>1, RowElems DEF Typed
    <3>2. joined'[d] \in 0..Len(JoinOrder(d)) /\ joined[d] + 1 \in 1..Len(JoinOrder(d))
      BY <1>2, <3>1
    <3>3. count[d] = Cardinality(Created(d))
      BY <1>1, <1>2 DEF DaemonInv, Counted, Idle
    <3>4. ~NoHole(d)
      BY <1>1, <1>2, <3>2, <3>3, RowComplete
    <3> QED
      BY <1>2, <1>6, <3>2, <3>4 DEF Joins, AfterJoin
  <2>5. PoolOver(d)'
    BY <1>1, <1>2, <1>6 DEF DaemonInv, PoolOver, AfterJoin
  <2>6. ServersOver(d)'
    BY <1>1, <1>2, <1>6 DEF DaemonInv, ServersOver, AfterUnix, AfterHttp, AfterJoin
  <2>7. ConnOver(d)'
    BY <1>1, <1>2, <1>6 DEF DaemonInv, ConnOver
  <2> QED
    BY <2>1, <2>2, <2>3, <2>4, <2>5, <2>6, <2>7 DEF DaemonInv
<1> QED
  BY <1>3, <1>4, <1>5, <1>7 DEF IndInv

LEMMA MainFreeWsStep ==
  ASSUME IndInv, NEW d \in Daemons, MainFreeWs(d)
  PROVE  IndInv'
<1>1. Typed /\ DaemonInv(d)
  BY DEF IndInv
<1>2. /\ mpc[d] = "freeWs" /\ mpc'[d] = "destroy" /\ allocated'[d] = FALSE /\ wpc'[d] = "none"
      /\ db'[d] = db[d] /\ sched'[d] = sched[d] /\ count'[d] = count[d]
      /\ joined'[d] = joined[d] /\ thread'[d] = thread[d]
  BY <1>1, DaemonsAssumption
    DEF MainFreeWs, WsFree, WsGoto, Set, Goto, mainVars, scriptVars, wsVars, Typed
<1>3. Typed'
  BY <1>1, DaemonsAssumption
    DEF MainFreeWs, WsFree, WsGoto, Set, Goto, mainVars, scriptVars, wsVars, Typed,
        MainPc, WsPc
<1>4. ScriptInv'
  BY DaemonsAssumption
    DEF MainFreeWs, WsFree, WsGoto, Set, Goto, mainVars, scriptVars, wsVars, IndInv,
        ScriptInv
<1>5. \A e \in Daemons \ {d} : DaemonInv(e)'
  <2>1. \A e \in Daemons \ {d} : Same(e)
    BY <1>1, DaemonsAssumption
      DEF MainFreeWs, WsFree, WsGoto, Set, Goto, mainVars, scriptVars, wsVars, Typed,
          Same
  <2> QED
    BY <2>1, Frame DEF IndInv
<1>6. /\ JoinOrder(d)' = JoinOrder(d) /\ NoHole(d)' = NoHole(d)
      /\ Created(d)' = Created(d)
  BY <1>1, <1>2, RowKept
<1>7. DaemonInv(d)'
  <2>1. Quiet(d)'
    BY <1>1, <1>2, <1>6 DEF DaemonInv, Quiet, Idle
  <2>2. Opened(d)'
    BY <1>1, <1>2, <1>6 DEF DaemonInv, Opened
  <2>3. Counted(d)'
    BY <1>1, <1>2, <1>6 DEF DaemonInv, Counted, Idle
  <2>4. Joins(d)'
    BY <1>1, <1>2, <1>6 DEF DaemonInv, Joins, AfterJoin
  <2>5. PoolOver(d)'
    BY <1>1, <1>2, <1>6 DEF DaemonInv, PoolOver, AfterJoin
  <2>6. ServersOver(d)'
    BY <1>1, <1>2, <1>6 DEF DaemonInv, ServersOver, AfterUnix, AfterHttp, AfterJoin
  <2>7. ConnOver(d)'
    BY <1>1, <1>2, <1>6 DEF DaemonInv, ConnOver
  <2> QED
    BY <2>1, <2>2, <2>3, <2>4, <2>5, <2>6, <2>7 DEF DaemonInv
<1> QED
  BY <1>3, <1>4, <1>5, <1>7 DEF IndInv

LEMMA WsStep ==
  ASSUME IndInv, NEW d \in Daemons, Ws(d)
  PROVE  IndInv'
<1>1. Typed /\ DaemonInv(d)
  BY DEF IndInv
<1>2. /\ wpc[d] # "none"
      /\ mpc'[d] = mpc[d]
      /\ db'[d] = db[d] /\ sched'[d] = sched[d] /\ count'[d] = count[d]
      /\ joined'[d] = joined[d] /\ thread'[d] = thread[d] /\ allocated'[d] = allocated[d]
  BY <1>1, DaemonsAssumption
    DEF Ws, WsThread, WsNetwork, WsTimeout, WsTop, WsContext, WsDial, WsLoop,
        WsServiced, WsCheck, WsDestroy, WsAfter, WsNap, WsEstablished, WsLost, WsGoto, Set,
        Goto, mainVars, scriptVars, wsVars, Typed
<1>3. Typed'
  <2> USE <1>1, DaemonsAssumption DEF Typed, Set, WsGoto, WsPc
  <2>1. /\ allocated' = allocated /\ wrunning' = wrunning
        /\ UNCHANGED <<mpc, mainVars, thread, port, path, scriptVars>>
    BY DEF Ws, WsThread, WsNetwork, WsTimeout, WsTop, WsContext, WsDial, WsLoop,
           WsServiced, WsCheck, WsDestroy, WsAfter, WsNap, WsEstablished, WsLost, WsGoto
  <2> DEFINE T == /\ wpc' \in [Conns -> WsPc]
                  /\ link' \in [Conns -> {"none", "connecting", "open", "lost"}]
                  /\ connected' \in [Conns -> BOOLEAN]
                  /\ lws_ctx' \in [Conns -> BOOLEAN]
                  /\ was_connected' \in [Conns -> BOOLEAN]
  <2>2. CASE WsTop(d)
    <3> SUFFICES T
      BY <2>1 DEF mainVars, scriptVars
    <3> QED
      BY <2>2 DEF WsTop
  <2>3. CASE WsContext(d)
    <3> SUFFICES T
      BY <2>1 DEF mainVars, scriptVars
    <3> QED
      BY <2>3 DEF WsContext
  <2>4. CASE WsDial(d)
    <3> SUFFICES T
      BY <2>1 DEF mainVars, scriptVars
    <3> QED
      <4>1. "loop" \in WsPc /\ "nap" \in WsPc
        OBVIOUS
      <4>2. CASE /\ link' = Set(link, d, "connecting")
                 /\ was_connected' = Set(was_connected, d, FALSE)
                 /\ WsGoto(d, "loop") /\ UNCHANGED lws_ctx
        BY <2>4, <4>1, <4>2 DEF WsDial
      <4>3. CASE /\ lws_ctx' = Set(lws_ctx, d, FALSE)
                 /\ WsGoto(d, "nap") /\ UNCHANGED <<link, was_connected>>
        BY <2>4, <4>1, <4>3 DEF WsDial
      <4> QED
        BY <2>4, <4>2, <4>3 DEF WsDial
  <2>5. CASE WsLoop(d)
    <3> SUFFICES T
      BY <2>1 DEF mainVars, scriptVars
    <3> QED
      BY <2>5 DEF WsLoop
  <2>6. CASE WsServiced(d)
    <3> SUFFICES T
      BY <2>1 DEF mainVars, scriptVars
    <3> QED
      BY <2>6 DEF WsServiced
  <2>7. CASE WsCheck(d)
    <3> SUFFICES T
      BY <2>1 DEF mainVars, scriptVars
    <3> QED
      BY <2>7 DEF WsCheck
  <2>8. CASE WsDestroy(d)
    <3> SUFFICES T
      BY <2>1 DEF mainVars, scriptVars
    <3> QED
      BY <2>8 DEF WsDestroy
  <2>9. CASE WsAfter(d)
    <3> SUFFICES T
      BY <2>1 DEF mainVars, scriptVars
    <3> QED
      BY <2>9 DEF WsAfter
  <2>10. CASE WsNap(d)
    <3> SUFFICES T
      BY <2>1 DEF mainVars, scriptVars
    <3> QED
      BY <2>10 DEF WsNap
  <2>11. CASE WsEstablished(d)
    <3> SUFFICES T
      BY <2>1 DEF mainVars, scriptVars
    <3> QED
      BY <2>11 DEF WsEstablished
  <2>12. CASE WsLost(d)
    <3> SUFFICES T
      BY <2>1 DEF mainVars, scriptVars
    <3> QED
      BY <2>12 DEF WsLost
  <2>13. CASE WsTimeout(d)
    <3> SUFFICES T
      BY <2>1 DEF mainVars, scriptVars
    <3> QED
      BY <2>13 DEF WsTimeout
  <2> QED
    BY <2>2, <2>3, <2>4, <2>5, <2>6, <2>7, <2>8, <2>9, <2>10, <2>11, <2>12, <2>13
      DEF Ws, WsThread, WsNetwork
<1>4. ScriptInv'
  BY DaemonsAssumption
    DEF Ws, WsThread, WsNetwork, WsTimeout, WsTop, WsContext, WsDial, WsLoop,
        WsServiced, WsCheck, WsDestroy, WsAfter, WsNap, WsEstablished, WsLost, WsGoto, Set,
        Goto, mainVars, scriptVars, wsVars, IndInv, ScriptInv
<1>5. \A e \in Daemons \ {d} : DaemonInv(e)'
  <2>1. \A e \in Daemons \ {d} : Same(e)
    BY <1>1, DaemonsAssumption
      DEF Ws, WsThread, WsNetwork, WsTimeout, WsTop, WsContext, WsDial, WsLoop,
          WsServiced, WsCheck, WsDestroy, WsAfter, WsNap, WsEstablished, WsLost, WsGoto,
          Set, Goto, mainVars, scriptVars, wsVars, Typed, Same
  <2> QED
    BY <2>1, Frame DEF IndInv
<1>6. /\ JoinOrder(d)' = JoinOrder(d) /\ NoHole(d)' = NoHole(d)
      /\ Created(d)' = Created(d)
  BY <1>1, <1>2, RowKept
<1>7. DaemonInv(d)'
  <2>1. Quiet(d)'
    BY <1>1, <1>2, <1>6 DEF DaemonInv, Quiet, Idle
  <2>2. Opened(d)'
    BY <1>1, <1>2, <1>6 DEF DaemonInv, Opened
  <2>3. Counted(d)'
    BY <1>1, <1>2, <1>6 DEF DaemonInv, Counted, Idle
  <2>4. Joins(d)'
    BY <1>1, <1>2, <1>6 DEF DaemonInv, Joins, AfterJoin
  <2>5. PoolOver(d)'
    BY <1>1, <1>2, <1>6 DEF DaemonInv, PoolOver, AfterJoin
  <2>6. ServersOver(d)'
    BY <1>1, <1>2, <1>6 DEF DaemonInv, ServersOver, AfterUnix, AfterHttp, AfterJoin
  <2>7. ConnOver(d)'
    BY <1>1, <1>2, <1>6 DEF DaemonInv, ConnOver
  <2> QED
    BY <2>1, <2>2, <2>3, <2>4, <2>5, <2>6, <2>7 DEF DaemonInv
<1> QED
  BY <1>3, <1>4, <1>5, <1>7 DEF IndInv

LEMMA ScriptLaunchStep ==
  ASSUME IndInv, NEW d \in Daemons, ScriptLaunch(d)
  PROVE  IndInv'
<1>1. Typed /\ DaemonInv(d)
  BY DEF IndInv
<1>2. /\ mpc[d] = "off" /\ mpc'[d] = "open"
      /\ db'[d] = db[d] /\ sched'[d] = sched[d] /\ count'[d] = count[d]
      /\ joined'[d] = joined[d] /\ thread'[d] = thread[d] /\ allocated'[d] = allocated[d]
      /\ wpc'[d] = wpc[d]
  BY <1>1 DEF ScriptLaunch, Set, Goto, mainVars, scriptVars, wsVars, Typed
<1>3. Typed'
  BY <1>1 DEF ScriptLaunch, Set, Goto, mainVars, scriptVars, wsVars, Typed, MainPc, WsPc
<1>4. ScriptInv'
  BY DEF ScriptLaunch, Set, Goto, mainVars, scriptVars, wsVars, IndInv, ScriptInv
<1>5. \A e \in Daemons \ {d} : DaemonInv(e)'
  <2>1. \A e \in Daemons \ {d} : Same(e)
    BY <1>1 DEF ScriptLaunch, Set, Goto, mainVars, scriptVars, wsVars, Typed, Same
  <2> QED
    BY <2>1, Frame DEF IndInv
<1>6. /\ JoinOrder(d)' = JoinOrder(d) /\ NoHole(d)' = NoHole(d)
      /\ Created(d)' = Created(d)
  BY <1>1, <1>2, RowKept
<1>7. DaemonInv(d)'
  <2>1. Quiet(d)'
    BY <1>1, <1>2, <1>6 DEF DaemonInv, Quiet, Idle
  <2>2. Opened(d)'
    BY <1>1, <1>2, <1>6 DEF DaemonInv, Opened
  <2>3. Counted(d)'
    BY <1>1, <1>2, <1>6 DEF DaemonInv, Counted, Idle
  <2>4. Joins(d)'
    BY <1>1, <1>2, <1>6 DEF DaemonInv, Joins, AfterJoin
  <2>5. PoolOver(d)'
    BY <1>1, <1>2, <1>6 DEF DaemonInv, PoolOver, AfterJoin
  <2>6. ServersOver(d)'
    BY <1>1, <1>2, <1>6 DEF DaemonInv, ServersOver, AfterUnix, AfterHttp, AfterJoin
  <2>7. ConnOver(d)'
    BY <1>1, <1>2, <1>6 DEF DaemonInv, ConnOver
  <2> QED
    BY <2>1, <2>2, <2>3, <2>4, <2>5, <2>6, <2>7 DEF DaemonInv
<1> QED
  BY <1>3, <1>4, <1>5, <1>7 DEF IndInv

(* mc_scheduler_start creates what it can: the count is of the workers     *)
(* that there are.                                                         *)
LEMMA MainStartStep ==
  ASSUME IndInv, NEW d \in Daemons, MainStart(d)
  PROVE  IndInv'
<1>1. Typed /\ DaemonInv(d)
  BY DEF IndInv
<1>2. PICK F \in SUBSET (Pool \cap MayFail) :
        /\ thread' = [thread EXCEPT ![d] =
             [t \in Threads |-> IF t \in Pool \ F THEN "run" ELSE "none"]]
        /\ count' = Set(count, d, Cardinality(Workers \ F))
  BY DEF MainStart
<1>3. Cardinality(Workers \ F) \in 0..Len(WorkerSlots)
  BY CreatedBound
<1>4. /\ mpc[d] = "start" /\ mpc'[d] = "http"
      /\ db'[d] = db[d] /\ sched'[d] = sched[d] /\ joined'[d] = joined[d]
      /\ count'[d] = Cardinality(Workers \ F)
      /\ \A t \in Threads : thread'[d][t] = IF t \in Pool \ F THEN "run" ELSE "none"
  BY <1>1, <1>2 DEF MainStart, Typed, Set, Goto, scriptVars
<1>5. \/ /\ allocated' = Set(allocated, d, TRUE) /\ wrunning' = Set(wrunning, d, TRUE)
         /\ wpc' = Set(wpc, d, "top")
         /\ UNCHANGED <<connected, lws_ctx, link, was_connected>>
      \/ UNCHANGED wsVars
  BY DEF MainStart, WsConnect, WsGoto
<1>6. Typed'
  <2>1. thread' \in [Daemons -> [Threads -> {"none", "run", "select", "client", "done"}]]
    BY <1>1, <1>2 DEF Typed
  <2>2. count' \in [Daemons -> 0..Len(WorkerSlots)]
    BY <1>1, <1>2, <1>3 DEF Typed, Set
  <2>3. /\ wpc' \in [Conns -> WsPc] /\ link' \in [Conns -> {"none", "connecting", "open", "lost"}]
        /\ allocated' \in [Conns -> BOOLEAN] /\ wrunning' \in [Conns -> BOOLEAN]
        /\ connected' \in [Conns -> BOOLEAN] /\ lws_ctx' \in [Conns -> BOOLEAN]
        /\ was_connected' \in [Conns -> BOOLEAN]
    <3>1. CASE UNCHANGED wsVars
      BY <1>1, <3>1 DEF Typed, wsVars
    <3>2. CASE ~UNCHANGED wsVars
      <4>1. /\ allocated' = Set(allocated, d, TRUE) /\ wrunning' = Set(wrunning, d, TRUE)
            /\ wpc' = Set(wpc, d, "top")
            /\ UNCHANGED <<connected, lws_ctx, link, was_connected>>
        BY <1>5, <3>2
      <4>2. "top" \in WsPc
        BY DEF WsPc
      <4> QED
        BY <1>1, <4>1, <4>2, DaemonsAssumption DEF Typed, Set
    <3> QED
      BY <3>1, <3>2
  <2> QED
    BY <1>1, <2>1, <2>2, <2>3 DEF MainStart, Typed, Set, Goto, MainPc, scriptVars
<1>7. ScriptInv'
  BY DEF MainStart, IndInv, ScriptInv, scriptVars
<1>8. \A e \in Daemons \ {d} : DaemonInv(e)'
  <2>1. \A e \in Daemons \ {d} : Same(e)
    BY <1>1, <1>2, <1>5, DaemonsAssumption
       DEF MainStart, Typed, Same, Set, Goto, wsVars
  <2> QED
    BY <2>1, Frame DEF IndInv
<1>9. Created(d)' = Workers \ F
  <2>1. \A t \in Workers : t \in Threads /\ t \in Pool
    BY Slots
  <2>2. \A t \in Workers : (thread'[d][t] # "none") <=> (t \notin F)
    BY <1>4, <2>1
  <2> QED
    BY <2>2 DEF Created
<1>10. DaemonInv(d)'
  <2>1. Quiet(d)' /\ Opened(d)' /\ PoolOver(d)'
    BY <1>1, <1>4 DEF DaemonInv, Quiet, Opened, PoolOver, Idle, AfterJoin
  <2>2. Counted(d)'
    BY <1>4, <1>9 DEF Counted
  <2>3. Joins(d)'
    <3> DEFINE r == thread'[d]["rss"] = "none"
    <3> DEFINE s == thread'[d]["dispatch"] = "none"
    <3> DEFINE p == thread'[d]["prune"] = "none"
    <3>1. r \in BOOLEAN /\ s \in BOOLEAN /\ p \in BOOLEAN
      OBVIOUS
    <3>2. JoinOrder(d)' = Row(r, s, p, count'[d])
      BY DEF JoinOrder, Row, Unless
    <3>3. count'[d] \in 0..Len(WorkerSlots)
      BY <1>3, <1>4
    <3> HIDE DEF r, s, p
    <3>4. Len(JoinOrder(d)') \in Nat
      BY <3>1, <3>2, <3>3, RowFacts
    <3>5. joined'[d] = 0
      BY <1>1, <1>4 DEF DaemonInv, Joins, AfterJoin
    <3> QED
      BY <1>4, <3>4, <3>5 DEF Joins, AfterJoin
  <2>4. ServersOver(d)'
    BY <1>4 DEF ServersOver, AfterUnix, AfterHttp, AfterJoin
  <2>5. ConnOver(d)'
    <3>1. \/ allocated'[d] = TRUE
          \/ allocated'[d] = allocated[d] /\ wpc'[d] = wpc[d]
      BY <1>1, <1>5, DaemonsAssumption DEF Typed, Set, wsVars
    <3> QED
      BY <1>1, <1>4, <3>1 DEF DaemonInv, ConnOver
  <2> QED
    BY <2>1, <2>2, <2>3, <2>4, <2>5 DEF DaemonInv
<1> QED
  BY <1>6, <1>7, <1>8, <1>10 DEF IndInv

(* start.sh: the daemons that have no handler end, the others are told.    *)
LEMMA ScriptKillStep ==
  ASSUME IndInv, ScriptKill
  PROVE  IndInv'
<1> DEFINE S == {d \in Daemons : Up(d) /\ ~Handled(d)}
<1>1. Typed
  BY DEF IndInv
<1>2. /\ ProcessesEnd(S)
      /\ g_running' = [d \in Daemons |-> g_running[d] /\ ~Handled(d)]
      /\ pid' = Nobody /\ script' = "killed"
      /\ UNCHANGED <<db, sched, running, count, joined, unix_running, path, told>>
  BY DEF ScriptKill
<1> HIDE DEF S
<1>3. /\ mpc' = [d \in Daemons |-> IF d \in S THEN "dead" ELSE mpc[d]]
      /\ thread' = [d \in Daemons |->
                      IF d \in S THEN [t \in Threads |-> "none"] ELSE thread[d]]
      /\ port' = IF port \in S THEN Nobody ELSE port
      /\ wpc' = [d \in Daemons |-> IF d \in S THEN "none" ELSE wpc[d]]
      /\ UNCHANGED <<allocated, wrunning, connected, lws_ctx, link, was_connected>>
  BY <1>2 DEF ProcessesEnd
<1>4. Typed'
  <2>1. /\ mpc' \in [Daemons -> MainPc] /\ wpc' \in [Conns -> WsPc]
        /\ thread' \in [Daemons -> [Threads -> {"none", "run", "select", "client", "done"}]]
        /\ port' \in Daemons \cup {Nobody}
    BY <1>1, <1>3, DaemonsAssumption DEF Typed, MainPc, WsPc
  <2>2. g_running' \in [Daemons -> BOOLEAN]
    <3>1. \A d \in Daemons : g_running[d] \in BOOLEAN
      BY <1>1 DEF Typed
    <3>2. \A d \in Daemons : (g_running[d] /\ ~Handled(d)) \in BOOLEAN
      BY Zenon
    <3> QED
      BY <1>2, <3>2, Zenon
  <2> QED
    BY <1>1, <1>2, <1>3, <2>1, <2>2 DEF Typed
<1>5. ScriptInv'
  BY <1>2 DEF ScriptInv
<1>6. ASSUME NEW d \in Daemons
      PROVE  DaemonInv(d)'
  <2>1. CASE d \in S
    <3>1. mpc'[d] = "dead" /\ wpc'[d] = "none" /\ \A t \in Threads : thread'[d][t] = "none"
      BY <1>3, <2>1
    <3> QED
      BY <3>1, Ended DEF IndInv
  <2>2. CASE d \notin S
    <3>1. Same(d)
      BY <1>2, <1>3, <2>2 DEF Same
    <3> QED
      BY <1>1, <3>1, Frame DEF IndInv
  <2> QED
    BY <2>1, <2>2
<1> QED
  BY <1>4, <1>5, <1>6 DEF IndInv

LEMMA ScriptRestStep ==
  ASSUME IndInv, ScriptStopped \/ ScriptCheck
  PROVE  IndInv'
<1>1. Typed /\ ScriptInv
  BY DEF IndInv
<1>2. UNCHANGED <<mpc, mainVars, thread, port, path, pid, wsVars>>
  BY DEF ScriptStopped, ScriptCheck
<1>3. script' = "idle" /\ told' \subseteq Daemons
  BY <1>1 DEF ScriptStopped, ScriptCheck, ScriptInv, Typed
<1>4. Typed' /\ ScriptInv'
  BY <1>1, <1>2, <1>3 DEF Typed, ScriptInv, mainVars, wsVars
<1>5. ASSUME NEW d \in Daemons
      PROVE  DaemonInv(d)'
  <2>1. Same(d)
    BY <1>2 DEF Same, mainVars, wsVars
  <2> QED
    BY <1>1, <2>1, Frame DEF IndInv
<1> QED
  BY <1>4, <1>5 DEF IndInv

LEMMA Start == Init => IndInv
<1> SUFFICES ASSUME Init
             PROVE  IndInv
  OBVIOUS
<1>1. Typed
  BY Slots DEF Init, WsInit, Typed, MainPc, WsPc
<1>2. ScriptInv
  BY DEF Init, ScriptInv
<1>3. ASSUME NEW d \in Daemons
      PROVE  DaemonInv(d)
  <2>1. /\ mpc[d] = "off" /\ joined[d] = 0 /\ ~allocated[d] /\ wpc[d] = "none"
        /\ \A t \in Threads : thread[d][t] = "none"
    BY DaemonsAssumption DEF Init, WsInit
  <2>2. Quiet(d) /\ Opened(d) /\ Counted(d)
    BY <2>1 DEF Quiet, Opened, Counted, Idle
  <2>3. Joins(d)
    BY <1>1, <2>1, RowElems DEF Joins, AfterJoin
  <2>4. PoolOver(d) /\ ServersOver(d) /\ ConnOver(d)
    BY <2>1 DEF PoolOver, ServersOver, ConnOver, AfterJoin, AfterHttp, AfterUnix
  <2> QED
    BY <2>2, <2>3, <2>4 DEF DaemonInv
<1> QED
  BY <1>1, <1>2, <1>3 DEF IndInv

LEMMA MainStep ==
  ASSUME IndInv, NEW d \in Daemons, Main(d)
  PROVE  IndInv'
BY MainOpenStep, MainMigrateStep, MainStartStep, MainHttpStep, MainUnlinkStep,
   MainBindStep, MainReadyStep, MainLoopStep, MainStopUnixStep, MainJoinUnixStep,
   MainStopHttpStep, MainStopSchedStep, MainJoinStep, MainJoinHoleStep,
   MainJoinedStep, MainDisconnectStep, MainFreeWsStep, MainDestroyStep, MainCloseStep
   DEF Main

LEMMA Stutter ==
  ASSUME IndInv, UNCHANGED vars
  PROVE  IndInv'
<1>1. Typed /\ ScriptInv
  BY DEF IndInv
<1>2. Typed' /\ ScriptInv'
  BY <1>1 DEF Typed, ScriptInv, vars, wsVars
<1>3. \A d \in Daemons : Same(d)
  BY DEF Same, vars, wsVars
<1> QED
  BY <1>1, <1>2, <1>3, Frame DEF IndInv

-----------------------------------------------------------------------------
(* The theorems.                                                           *)

(* The invariant of the proofs holds in every reachable state.             *)
THEOREM Invariance == Spec => []IndInv
<1>1. Init => IndInv
  BY Start
<1>2. IndInv /\ [Next]_vars => IndInv'
  <2> SUFFICES ASSUME IndInv, [Next]_vars
               PROVE  IndInv'
    OBVIOUS
  <2>1. ASSUME NEW d \in Daemons,
               Main(d) \/ UnixThread(d) \/ Ws(d) \/ ScriptLaunch(d)
        PROVE  IndInv'
    BY <2>1, MainStep, UnixThreadStep, WsStep, ScriptLaunchStep
  <2>2. ASSUME NEW d \in Daemons, NEW t \in Pool, PoolExit(d, t)
        PROVE  IndInv'
    BY <2>2, PoolExitStep
  <2>3. CASE ScriptKill \/ ScriptStopped \/ ScriptCheck
    BY <2>3, ScriptKillStep, ScriptRestStep
  <2>4. CASE UNCHANGED vars
    BY <2>4, Stutter
  <2> QED
    BY <2>1, <2>2, <2>3, <2>4 DEF Next
<1> QED
  BY <1>1, <1>2, PTL DEF Spec

(* Every variable keeps its type; main never counts a join beyond the row  *)
(* that mc_scheduler_stop has to do.                                       *)
THEOREM Typing == Spec => []TypeOK
<1>1. IndInv => TypeOK
  <2> SUFFICES ASSUME IndInv
               PROVE  TypeOK
    OBVIOUS
  <2>1. Typed
    BY DEF IndInv
  <2>2. \A d \in Daemons : joined[d] \in 0..Len(JoinOrder(d)) \/ mpc[d] = "dead"
    BY DEF IndInv, DaemonInv, Joins
  <2> QED
    BY <2>1, <2>2 DEF Typed, TypeOK
<1> QED
  BY <1>1, Invariance, PTL

(* No thread outlives what it uses: the database is open and the scheduler *)
(* is there as long as a thread of the scheduler, of a server or of a      *)
(* connection runs, whichever could not be created and whenever the signal *)
(* comes; unless a worker is missing before one that is there, the case    *)
(* the joins of mc_scheduler_stop do not cover.                            *)
THEOREM NothingOutlived == Spec => []NoUseAfterFree
<1>1. IndInv => NoUseAfterFree
  <2> SUFFICES ASSUME IndInv, NEW d \in Daemons, NoHole(d),
                      RunsIn(d, Threads) \/ wpc[d] \notin {"none", "exited"}
               PROVE  db[d] = "live" /\ sched[d] = "live"
    BY DEF NoUseAfterFree
  <2>1. DaemonInv(d)
    BY DEF IndInv
  <2>2. mpc[d] \notin Idle
    BY <2>1 DEF DaemonInv, Quiet, RunsIn
  <2>3. mpc[d] # "close"
    <3> SUFFICES ASSUME mpc[d] = "close"
                 PROVE  FALSE
      OBVIOUS
    <3>1. wpc[d] = "none"
      BY <2>1 DEF DaemonInv, ConnOver
    <3>2. \A t \in Pool : thread[d][t] \in {"none", "done"}
      BY <2>1 DEF DaemonInv, PoolOver, AfterJoin
    <3>3. thread[d]["unix"] \in {"none", "done"} /\ thread[d]["http"] = "none"
      BY <2>1 DEF DaemonInv, ServersOver, AfterUnix, AfterHttp, AfterJoin
    <3>4. \A t \in Threads : thread[d][t] \in {"none", "done"}
      BY <3>2, <3>3 DEF Threads
    <3> QED
      BY <3>1, <3>4 DEF RunsIn
  <2> QED
    BY <2>1, <2>2, <2>3 DEF DaemonInv, Opened, Idle
<1> QED
  BY <1>1, Invariance, PTL
=============================================================================
