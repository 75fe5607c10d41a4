------------------------- MODULE FetchScheduleProofs -------------------------
(***************************************************************************)
(* Proofs about FetchSchedule, for any number of sources, any intervals,   *)
(* names and bounds: its safety properties, how long a source is left      *)
(* waiting among them, and what a fetch may never do.  The inductive       *)
(* invariant is IndInv; each action has a lemma that it preserves it.      *)
(***************************************************************************)
EXTENDS FetchSchedule, DataLemmas, TLAPS

Scanners == {"rss", "rest"}
Own(t) == FirstOf(t)..LastOf(t)

(* A sleeper inside sleep(1) has not slept enough; who is awake starts its *)
(* next sleep at 0.                                                        *)
SleepInv ==
  /\ DOMAIN slept = Threads
  /\ \A t \in Threads : /\ napping[t] => pc[t] = "sleep" /\ slept[t] < SleepSec(t)
                        /\ pc[t] # "sleep" => slept[t] = 0

(* Each thread is at a place of its own program, and in its own list.      *)
ScanInv ==
  /\ pc["rss"] \notin {"count", "batch", "clear"} /\ pc["rest"] # "fetch" /\ pc["prune"] \in {"sleep", "exited"}
  /\ \A t \in Scanners :
       /\ scan[t] \in FirstOf(t)..(LastOf(t) + 1)
       /\ pc[t] \in {"due", "fetch"} => scan[t] <= LastOf(t)
  /\ running => \A t \in Threads : pc[t] # "exited"

(* The RSS thread fetches the source it has come to and no other; a source *)
(* that is not being fetched has no time on it.                            *)
BusyInv ==
  /\ \A i \in Rss : i \in busy <=> pc["rss"] = "fetch" /\ scan["rss"] = i
  /\ \A i \in Sources \ busy : spent[i] = 0

(* The backoff is that of the failures in a row, and below its cap.        *)
HealthInv ==
  \A i \in Sources :
    /\ ~health[i].tried => health[i].failures = 0
    /\ health[i].failures > 0 => health[i].backoff = MinOf(Doubled[health[i].failures], MaxBackoff)
    /\ health[i].backoff <= MaxBackoff

(* What a thread that next looks at the flag in its scan is to look at.    *)
Ahead(t, i) ==
  \/ pc[t] \in {"skip", "due"} /\ i >= scan[t]
  \/ pc[t] = "fetch" /\ i > scan[t]
  \/ pc[t] = "sleep" /\ (napping[t] \/ slept[t] >= SleepSec(t))

(* While the flag is set, no source ahead of its thread has been fetched   *)
(* since the request: a thread that has fetched some clears the flag, in   *)
(* its sleep or after its batch, before it comes to them again.            *)
FlagInv ==
  force_refresh => \A t \in Scanners : \A i \in Own(t) : Ahead(t, i) => i \in wanted

(* What is let past should_skip_source is past its backoff, or asked for.  *)
DueInv ==
  \A t \in Scanners :
    pc[t] = "due" => scan[t] \in wanted \/ ~should_skip_source(health[scan[t]], FALSE)

(* How long a feed can have been left waiting where the RSS thread is: the *)
(* fetches since the thread came past it, or also the sleep and those of   *)
(* the scan it has not reached it in.                                      *)
InFetch == IF pc["rss"] = "fetch" THEN spent[scan["rss"]] ELSE 0

WaitAt(i, s) ==
  IF i < s THEN (s - i - 1) * FetchMax
  ELSE (RssCount - i) * FetchMax + CheckSec + (s - 1) * FetchMax

WaitRss(i) ==
  IF pc["rss"] = "sleep" THEN (RssCount - i) * FetchMax + slept["rss"]
  ELSE WaitAt(i, scan["rss"]) + InFetch

RssInv == running => \A i \in Rss : overdue[i] <= WaitRss(i)

(* The jobs of the batch that are not done: in the queue, or claimed.      *)
Out == queued \cup (busy \cap Rest)

(* The jobs are counted when the queue is unlocked; from then on the count *)
(* less what the workers have counted off is what is left, and no less     *)
(* than that once it is stored.  The dispatcher sleeps, and scans, when    *)
(* nothing is left; jobs are claimed in order.                             *)
BatchInv ==
  /\ pc["rest"] \in {"skip", "due"} => rest_pending = 0 /\ busy \cap Rest = {}
  /\ pc["rest"] = "count" =>
       rest_pending <= 0 /\ batch_size + rest_pending = Cardinality(Out)
  /\ pc["rest"] \in {"batch", "clear", "sleep", "exited"} => rest_pending >= Cardinality(Out)
  /\ pc["rest"] = "batch" => (overtaken <=> rest_pending > Cardinality(Out))
  /\ pc["rest"] = "clear" \/ (pc["rest"] = "sleep" /\ running) => rest_pending = 0
  /\ \A k \in busy \cap Rest, j \in queued : k < j

(* How long a batch may take, and how long before the fetch of source j    *)
(* begins if every source before it in the list is a job of the batch.     *)
Lead == Rounds * FetchMax
Start(j) == ((j - RssCount - 1) \div WorkerCount) * FetchMax

(* What a source had waited when the batch began: the batch before it and  *)
(* the sleep, if it is a job of this one.                                  *)
Waited(i) == IF i \in queued THEN Lead + CheckSec ELSE 0

(* A REST source waits for a batch it is not in, for a sleep, and for its  *)
(* turn in the next batch.  Every job that is left says how long the batch *)
(* can have been going on.                                                 *)
RestInv ==
  running => \A i \in Rest :
    /\ pc["rest"] = "sleep" => overdue[i] <= Lead + slept["rest"]
    /\ pc["rest"] \in {"skip", "due"} =>
         overdue[i] <= IF i < scan["rest"] /\ i \notin queued THEN 0 ELSE Lead + CheckSec
    /\ pc["rest"] = "clear" => overdue[i] <= Lead
    /\ pc["rest"] = "count" \/ (pc["rest"] = "batch" /\ ~overtaken) =>
         /\ i \notin queued => overdue[i] <= Lead
         /\ \A j \in queued : overdue[i] <= Waited(i) + Start(j)
         /\ \A j \in busy \cap Rest : overdue[i] <= Waited(i) + Start(j) + spent[j]

(* A source that is left waiting would be fetched by the next scan.        *)
OverdueInv == \A i \in Sources : overdue[i] > 0 => Due(i) /\ i \notin busy

IndInv ==
  /\ TypeOK /\ SleepInv /\ ScanInv /\ BusyInv /\ HealthInv /\ FlagInv /\ DueInv
  /\ RssInv /\ BatchInv /\ RestInv /\ OverdueInv /\ StatusNotBehind

-----------------------------------------------------------------------------
(* The backoff.                                                            *)

LEMMA DoubledFacts ==
  /\ Doubled \in [Nat -> Nat]
  /\ \A n \in Nat : Doubled[n] = IF n <= 1 THEN 2
                                 ELSE IF Doubled[n - 1] < MaxBackoff THEN 2 * Doubled[n - 1]
                                 ELSE Doubled[n - 1]
  <1> DEFINE Doubling(n, v) == IF n <= 1 THEN 2 ELSE IF v < MaxBackoff THEN 2 * v ELSE v
             G == [n \in Nat |-> [v \in Nat |-> Doubling(n + 1, v)]]
             Equation(f) == f = [n \in Nat |-> Doubling(n, f[n - 1])]
  <1>1. \A n, v \in Nat : Doubling(n, v) \in Nat
    BY ScheduleAssumption
  <1>2. PICK f \in [Nat -> Nat] : f[0] = 2 /\ \A n \in Nat : f[n + 1] = G[n][f[n]]
    <2> DEFINE N == Nat
               first == 2
    <2>1. G \in [Nat -> [N -> N]]
      BY <1>1
    <2>2. first \in N
      OBVIOUS
    <2>3. G \in StepFunctions(N)
      BY <2>1 DEF StepFunctions
    <2> HIDE DEF G, N, first
    <2>4. \E h : Recursive(h, N, first, G)
      BY <2>2, <2>3, RecursionExists
    <2>5. QED
      BY <2>4 DEF N, first, Recursive
  <1>3. \A n \in Nat : f[n] = Doubling(n, f[n - 1])
    <2>1. f[0] = Doubling(0, f[0 - 1])
      BY <1>2
    <2>2. ASSUME NEW n \in Nat, n # 0 PROVE f[n] = Doubling(n, f[n - 1])
      <3>1. n - 1 \in Nat /\ (n - 1) + 1 = n /\ f[n - 1] \in Nat
        BY <2>2
      <3>2. f[n] = G[n - 1][f[n - 1]]
        BY <1>2, <3>1
      <3> HIDE DEF Doubling
      <3>3. QED
        BY <3>1, <3>2
    <2>3. QED
      BY <2>1, <2>2
  <1>4. \E d : Equation(d)
    <2> HIDE DEF Doubling
    <2>1. QED
      BY <1>3
  <1>5. Equation(Doubled)
    <2>1. Doubled = CHOOSE d : Equation(d)
      BY DEF Doubled
    <2> HIDE DEF Equation
    <2>2. QED
      BY <1>4, <2>1
  <1>6. \A n \in Nat : Doubled[n] = Doubling(n, Doubled[n - 1])
    BY <1>5
  <1> DEFINE S == {n \in Nat : Doubled[n] \in Nat}
  <1>7. 0 \in S
    BY <1>6
  <1>8. ASSUME NEW n \in Nat, n \in S PROVE n + 1 \in S
    BY <1>6, <1>8, ScheduleAssumption
  <1>9. Nat \subseteq S
    <2> HIDE DEF S
    <2>1. QED
      BY <1>7, <1>8, SetInduction
  <1>10. QED
    BY <1>5, <1>6, <1>9

LEMMA PowerFacts ==
  /\ Power[0] = 1
  /\ \A n \in Nat : Power[n] \in Nat /\ Power[n + 1] = 2 * Power[n]
  <1> DEFINE G == [n \in Nat |-> [v \in Nat |-> 2 * v]]
             Equation(f) == f = [n \in Nat |-> IF n = 0 THEN 1 ELSE 2 * f[n - 1]]
  <1>1. PICK f \in [Nat -> Nat] : f[0] = 1 /\ \A n \in Nat : f[n + 1] = G[n][f[n]]
    <2> DEFINE N == Nat
               first == 1
    <2>1. G \in [Nat -> [N -> N]]
      OBVIOUS
    <2>2. first \in N
      OBVIOUS
    <2>3. G \in StepFunctions(N)
      BY <2>1 DEF StepFunctions
    <2> HIDE DEF G, N, first
    <2>4. \E h : Recursive(h, N, first, G)
      BY <2>2, <2>3, RecursionExists
    <2>5. QED
      BY <2>4 DEF N, first, Recursive
  <1>2. ASSUME NEW n \in Nat, n # 0 PROVE f[n] = 2 * f[n - 1]
    <2>1. n - 1 \in Nat /\ (n - 1) + 1 = n /\ f[n - 1] \in Nat
      BY <1>2
    <2>2. QED
      BY <1>1, <2>1
  <1>3. Equation(f)
    BY <1>1, <1>2
  <1>4. Equation(Power)
    <2>1. Power = CHOOSE d : Equation(d)
      BY DEF Power
    <2> HIDE DEF Equation
    <2>2. QED
      BY <1>3, <2>1
  <1> DEFINE S == {n \in Nat : Power[n] \in Nat}
  <1>5. 0 \in S
    BY <1>4
  <1>6. \A n \in Nat : Power[n + 1] = 2 * Power[n]
    BY <1>4
  <1>7. ASSUME NEW n \in Nat, n \in S PROVE n + 1 \in S
    BY <1>6, <1>7
  <1>8. Nat \subseteq S
    <2> HIDE DEF S
    <2>1. QED
      BY <1>5, <1>7, SetInduction
  <1>9. QED
    BY <1>4, <1>6, <1>8

(* The loop that doubles while below the cap computes the power of two     *)
(* below the cap, however many the failures.                               *)
LEMMA BackoffIsPower ==
  \A n \in Nat \ {0} : MinOf(Doubled[n], MaxBackoff) = MinOf(Power[n], MaxBackoff)
  <1> DEFINE Agree(n) == \/ Doubled[n] = Power[n]
                         \/ Doubled[n] >= MaxBackoff /\ Power[n] >= MaxBackoff
             S == {n \in Nat : Agree(n + 1)}
  <1>1. 0 \in S
    BY DoubledFacts, PowerFacts
  <1>2. ASSUME NEW n \in Nat, n \in S PROVE n + 1 \in S
    <2> DEFINE m == n + 1
    <2>1. Agree(m) /\ m \in Nat /\ m + 1 > 1 /\ (m + 1) - 1 = m
      BY <1>2
    <2>2. Doubled[m + 1] = IF Doubled[m] < MaxBackoff THEN 2 * Doubled[m] ELSE Doubled[m]
      BY <2>1, DoubledFacts
    <2>3. Power[m + 1] = 2 * Power[m] /\ Power[m] \in Nat /\ Doubled[m] \in Nat
      BY <2>1, DoubledFacts, PowerFacts
    <2>4. Agree(m + 1)
      <3> HIDE DEF m
      <3>1. QED
        BY <2>1, <2>2, <2>3, ScheduleAssumption
    <2>5. QED
      BY <2>4
  <1>3. Nat \subseteq S
    <2> HIDE DEF S
    <2>1. QED
      BY <1>1, <1>2, SetInduction
  <1>4. ASSUME NEW n \in Nat \ {0} PROVE MinOf(Doubled[n], MaxBackoff) = MinOf(Power[n], MaxBackoff)
    <2>1. n - 1 \in S /\ (n - 1) + 1 = n
      BY <1>3
    <2>2. Agree(n) /\ Doubled[n] \in Nat /\ Power[n] \in Nat
      BY <2>1, DoubledFacts, PowerFacts
    <2>3. QED
      BY <2>2, ScheduleAssumption DEF MinOf
  <1>5. QED
    BY <1>4

-----------------------------------------------------------------------------
(* The lists of the threads, and the sizes.                                *)

LEMMA Sizes ==
  /\ RssCount \in Nat /\ RestCount \in Nat /\ FetchMax \in Nat /\ AgeCap \in Nat
  /\ WorkerCount \in Nat \ {0}
  /\ MaxBackoff \in Nat /\ MaxBackoff >= 2 /\ AgeCap >= MaxBackoff
  /\ AskCap \in Nat /\ MaxRestarts \in Nat
  /\ CheckSec \in Nat /\ CheckSec >= 2 /\ PruneSec \in Nat /\ PruneSec >= 2
  /\ \A i \in Sources : Interval[i] \in Nat /\ Interval[i] <= AgeCap /\ NameOf[i] \in Names
  BY ScheduleAssumption DEF Names

LEMMA Lists ==
  /\ FirstOf("rss") = 1 /\ LastOf("rss") = RssCount
  /\ FirstOf("rest") = RssCount + 1 /\ LastOf("rest") = RssCount + RestCount
  /\ FirstOf("prune") = 1
  /\ SleepSec("rss") = CheckSec /\ SleepSec("rest") = CheckSec /\ SleepSec("prune") = PruneSec
  /\ Own("rss") = Rss /\ Own("rest") = Rest /\ Rss \cap Rest = {} /\ Sources = Rss \cup Rest
  /\ \A t \in Scanners : Own(t) \subseteq Sources
  /\ \A i \in Sources : i \in Int
  BY Sizes DEF FirstOf, LastOf, SleepSec, Own, Rss, Rest, Sources, Scanners

(* A product of naturals is one.                                           *)
LEMMA Products == \A a, b \in Nat : a * b \in Nat
  OBVIOUS

LEMMA Typed ==
  ASSUME TypeOK
  PROVE  /\ \A u \in Threads : scan[u] \in Nat /\ slept[u] \in Nat
         /\ \A i \in Sources :
              /\ i \in Nat /\ spent[i] \in Nat /\ spent[i] <= FetchMax /\ overdue[i] \in Nat
              /\ health[i].failures \in Nat /\ health[i].backoff \in Nat /\ health[i].age \in Nat
              /\ error_count[NameOf[i]] \in Nat
  <1>1. \A u \in Threads : SleepSec(u) \in Nat
    BY Lists, Sizes DEF Threads
  <1>2. \A u \in Threads : scan[u] \in Nat /\ slept[u] \in Nat
    BY <1>1, Sizes DEF TypeOK
  <1>3. \A i \in Sources : i \in Nat
    BY Sizes DEF Sources, Rss, Rest
  <1>4. QED
    BY <1>2, <1>3, Sizes DEF TypeOK

(* The bound of a feed grows by a fetch with every feed that is passed,    *)
(* and starts again from its own.                                          *)
LEMMA Waits ==
  ASSUME NEW i \in Rss
  PROVE  /\ \A s \in Nat : WaitAt(i, s) \in Int
         /\ \A s \in Nat : i # s => WaitAt(i, s + 1) = WaitAt(i, s) + FetchMax
         /\ WaitAt(i, i + 1) = 0
         /\ WaitAt(i, RssCount + 1) = (RssCount - i) * FetchMax
         /\ WaitAt(i, 1) = (RssCount - i) * FetchMax + CheckSec
         /\ (RssCount - i) * FetchMax + CheckSec <= CheckSec + RssCount * FetchMax
         /\ \A s \in Rss : s # i => WaitAt(i, s) + FetchMax <= CheckSec + RssCount * FetchMax
         /\ \A s \in 1..(RssCount + 1) : WaitAt(i, s) <= CheckSec + RssCount * FetchMax
  <1>1. i \in Nat /\ i >= 1 /\ i <= RssCount /\ RssCount \in Nat /\ FetchMax \in Nat /\ CheckSec \in Nat
    BY Sizes DEF Rss
  <1>2. \A a \in Nat : a * FetchMax \in Nat
    BY <1>1
  <1>3. \A a, b \in Int : /\ a * FetchMax \in Int
                          /\ (a + b) * FetchMax = a * FetchMax + b * FetchMax
                          /\ (a - b) * FetchMax = a * FetchMax - b * FetchMax
    BY <1>1
  <1>4. 0 * FetchMax = 0 /\ 1 * FetchMax = FetchMax
    BY <1>1
  <1>5. QED
    BY <1>1, <1>2, <1>3, <1>4 DEF WaitAt, Rss

(* A job that comes a round of the workers after another can wait for its  *)
(* fetch; there are Rounds rounds.                                         *)
LEMMA Division ==
  ASSUME NEW a \in Nat, NEW b \in Nat
  PROVE  /\ a \div WorkerCount \in Nat
         /\ a + WorkerCount <= b => (a \div WorkerCount) + 1 <= b \div WorkerCount
  <1>0. WorkerCount \in Nat \ {0}
    BY Sizes
  <1>1. a \div WorkerCount \in Int /\ b \div WorkerCount \in Int
    BY <1>0
  <1>2. WorkerCount * (a \div WorkerCount) <= a /\ a < WorkerCount * (a \div WorkerCount) + WorkerCount
    BY <1>0
  <1>3. WorkerCount * (b \div WorkerCount) <= b /\ b < WorkerCount * (b \div WorkerCount) + WorkerCount
    BY <1>0
  <1>4. \A x, y \in Int : x < y => WorkerCount * x + WorkerCount <= WorkerCount * y
    BY <1>0
  <1>5. QED
    BY <1>0, <1>1, <1>2, <1>3, <1>4

LEMMA Turns ==
  /\ Lead \in Nat
  /\ \A j \in Rest : Start(j) \in Nat /\ Start(j) + FetchMax <= Lead
  /\ \A k, j \in Rest : k + WorkerCount <= j => Start(k) + FetchMax <= Start(j)
  <1> DEFINE nth(j) == (j - RssCount - 1) \div WorkerCount
  <1>1. \A j \in Rest : j - RssCount - 1 \in Nat /\ j - RssCount - 1 + WorkerCount <= RestCount + WorkerCount - 1
    BY Sizes DEF Rest
  <1>2. RestCount + WorkerCount - 1 \in Nat /\ Rounds \in Nat
    BY Sizes, Division DEF Rounds
  <1>3. \A j \in Rest : nth(j) \in Nat /\ nth(j) + 1 <= Rounds
    BY <1>1, <1>2, Division DEF Rounds
  <1>4. \A k, j \in Rest : k + WorkerCount <= j => nth(k) + 1 <= nth(j)
    <2> SUFFICES ASSUME NEW k \in Rest, NEW j \in Rest, k + WorkerCount <= j
                 PROVE  nth(k) + 1 <= nth(j)
      OBVIOUS
    <2>1. (k - RssCount - 1) + WorkerCount <= j - RssCount - 1
      BY Sizes DEF Rest
    <2>2. QED
      BY <1>1, <2>1, Division
  <1>5. \A a, b \in Nat : a + 1 <= b => a * FetchMax + FetchMax <= b * FetchMax
    BY Sizes
  <1>6. \A a \in Nat : a * FetchMax \in Nat
    BY Sizes
  <1>7. \A j \in Rest : Start(j) = nth(j) * FetchMax
    BY DEF Start
  <1> HIDE DEF nth
  <1>8. QED
    BY <1>2, <1>3, <1>4, <1>5, <1>6, <1>7 DEF Lead

(* The jobs are a finite set of REST sources.                              *)
LEMMA Jobs ==
  ASSUME TypeOK
  PROVE  /\ IsFiniteSet(Out) /\ Cardinality(Out) \in 0..RestCount
         /\ IsFiniteSet(queued) /\ Cardinality(queued) \in 0..RestCount
         /\ IsFiniteSet(busy \cap Rest) /\ Cardinality({}) = 0
         /\ Cardinality(Out) = 0 => Out = {}
         /\ rest_pending \in Int /\ batch_size \in Int
  <1>1. IsFiniteSet(Rest) /\ Cardinality(Rest) = RestCount
    <2> DEFINE a == RssCount + 1
               b == RssCount + RestCount
    <2>1. a \in Int /\ b \in Int /\ Rest = a..b /\ (IF a > b THEN 0 ELSE b - a + 1) = RestCount
      BY Sizes DEF Rest
    <2> HIDE DEF a, b
    <2>2. QED
      BY <2>1, FS_Interval
  <1>2. Out \subseteq Rest /\ queued \subseteq Rest /\ busy \cap Rest \subseteq Rest
    BY DEF TypeOK, Out
  <1>3. \A S \in SUBSET Rest : IsFiniteSet(S) /\ Cardinality(S) \in 0..RestCount
    <2>1. ASSUME NEW S \in SUBSET Rest PROVE IsFiniteSet(S) /\ Cardinality(S) <= RestCount
      BY <1>1, FS_Subset
    <2>2. ASSUME NEW S \in SUBSET Rest PROVE Cardinality(S) \in Nat
      BY <2>1, FS_CardinalityType
    <2>3. QED
      BY <2>1, <2>2, Sizes
  <1>4. Cardinality(Out) = 0 => Out = {}
    BY <1>2, <1>3, FS_EmptySet
  <1>5. QED
    BY <1>2, <1>3, <1>4, FS_EmptySet DEF TypeOK

-----------------------------------------------------------------------------
(* Facts about states and steps.                                           *)

(* A source that is not fetched when a scan comes to it has not waited.    *)
LEMMA NotWaiting ==
  ASSUME IndInv, NEW i \in Sources,
         \/ should_skip_source(health[i], force_refresh)
         \/ ~source_due(health[i], Interval[i], force_refresh)
  PROVE  overdue[i] = 0
  <1>1. ~Due(i)
    BY Zenon DEF Due, should_skip_source, source_due
  <1>2. QED
    BY <1>1, Typed DEF IndInv, OverdueInv

(* What leaves the RSS thread alone leaves the waits of the feeds alone.   *)
LEMMA RssFrame ==
  ASSUME IndInv, running' = running, pc'["rss"] = pc["rss"], scan'["rss"] = scan["rss"],
         slept'["rss"] = slept["rss"],
         \A i \in Rss : overdue'[i] = overdue[i] /\ spent'[i] = spent[i]
  PROVE  RssInv'
  <1>1. InFetch' = InFetch
    BY Lists DEF InFetch, IndInv, ScanInv, Scanners, Rss
  <1>2. \A i \in Rss : WaitRss(i)' = WaitRss(i)
    BY <1>1 DEF WaitRss
  <1>3. QED
    BY <1>2 DEF IndInv, RssInv

LEMMA RestFrame ==
  ASSUME IndInv, running' = running, pc'["rest"] = pc["rest"], scan'["rest"] = scan["rest"],
         slept'["rest"] = slept["rest"], busy' \cap Rest \subseteq busy \cap Rest,
         queued' = queued, overtaken' = overtaken,
         \A i \in Rest : overdue'[i] = overdue[i] /\ (i \in busy' => spent'[i] = spent[i])
  PROVE  RestInv'
  <1>1. \A i \in Rest : Waited(i)' = Waited(i)
    BY DEF Waited
  <1>2. QED
    BY <1>1 DEF IndInv, RestInv

(* What leaves the dispatcher and the jobs alone keeps the count.          *)
LEMMA BatchFrame ==
  ASSUME IndInv, running' => running, pc'["rest"] = pc["rest"], busy' \cap Rest = busy \cap Rest,
         queued' = queued, batch_size' = batch_size, rest_pending' = rest_pending,
         overtaken' = overtaken
  PROVE  BatchInv'
  <1>1. Out' = Out
    BY DEF Out
  <1>2. QED
    BY <1>1 DEF IndInv, BatchInv

(* A step after which no thread looks ahead at more, nor at what was       *)
(* fetched in it, keeps the flag's promise.                                *)
LEMMA FlagFrame ==
  ASSUME IndInv, force_refresh' => force_refresh,
         \A u \in Scanners : \A j \in Own(u) : Ahead(u, j)' /\ force_refresh => Ahead(u, j) /\ (j \in wanted => j \in wanted')
  PROVE  FlagInv'
  BY DEF IndInv, FlagInv

(* What leaves a scanning thread where it is keeps its promises.           *)
LEMMA AheadFrame ==
  ASSUME IndInv, NEW u \in Scanners, pc'[u] = pc[u], scan'[u] = scan[u], slept'[u] = slept[u],
         napping'[u] => napping[u], NEW j \in Own(u), Ahead(u, j)'
  PROVE  Ahead(u, j)
  BY DEF Ahead

LEMMA BusyFrame ==
  ASSUME IndInv, busy' = busy, spent' = spent, pc'["rss"] = "fetch" <=> pc["rss"] = "fetch",
         pc["rss"] = "fetch" => scan'["rss"] = scan["rss"]
  PROVE  BusyInv'
  BY DEF IndInv, BusyInv

LEMMA SlackTyped ==
  ASSUME NEW i \in Sources
  PROVE  /\ Slack(i) \in Nat
         /\ i \in Rss => Slack(i) = CheckSec + RssCount * FetchMax + 1
         /\ i \notin Rss => Slack(i) = CheckSec + 1 + Lead + Lead - FetchMax /\ FetchMax <= Lead
  <1>1. CASE i \in Rss
    <2>1. RssCount * FetchMax \in Nat /\ RssCount * FetchMax = FetchMax * RssCount
      BY Sizes
    <2>2. Slack(i) = CheckSec + 1 + FetchMax * RssCount
      BY <1>1 DEF Slack
    <2>3. QED
      BY <1>1, <2>1, <2>2, Sizes
  <1>2. CASE i \notin Rss
    <2>1. i \in Rest
      BY <1>2, Lists
    <2>2. FetchMax <= Lead /\ Lead \in Nat
      BY <2>1, Turns, Sizes
    <2>3. Rounds \in Nat
      <3>1. RestCount + WorkerCount - 1 \in Nat
        BY Sizes
      <3>2. QED
        BY <3>1, Division DEF Rounds
    <2>4. \A r \in Nat : FetchMax * (2 * r - 1) = r * FetchMax + r * FetchMax - FetchMax
      BY Sizes
    <2>5. Slack(i) = CheckSec + 1 + FetchMax * (2 * Rounds - 1)
      BY <1>2 DEF Slack
    <2>6. FetchMax * (2 * Rounds - 1) = Lead + Lead - FetchMax
      BY <2>3, <2>4 DEF Lead
    <2>7. QED
      BY <1>2, <2>2, <2>5, <2>6, Sizes
  <1>3. QED
    BY <1>1, <1>2

(* The bounds of the invariant are within that of TriedInTime.             *)
LEMMA WaitBounded ==
  ASSUME IndInv
  PROVE  TriedInTime
  <1> SUFFICES ASSUME running, NEW i \in Sources, ~(i \in Rest /\ overtaken)
               PROVE  overdue[i] <= Slack(i)
    BY DEF TriedInTime
  <1>1. overdue[i] \in Nat /\ overdue[i] >= 0 /\ Slack(i) \in Nat
    BY SlackTyped, Typed DEF IndInv
  <1>2. CASE i \in Rss
    <2> DEFINE s == scan["rss"]
    <2>1. overdue[i] <= WaitRss(i) /\ Slack(i) = CheckSec + RssCount * FetchMax + 1
      BY <1>2, SlackTyped DEF IndInv, RssInv
    <2>2. RssCount * FetchMax \in Nat
      BY Sizes
    <2>3. s \in 1..(RssCount + 1) /\ s \in Nat
      BY Lists, Sizes DEF IndInv, ScanInv, Scanners
    <2>4. WaitAt(i, s) \in Int /\ WaitAt(i, s) <= CheckSec + RssCount * FetchMax
      BY <1>2, <2>3, Waits
    <2>5. CASE pc["rss"] = "sleep"
      <3>1. slept["rss"] \in Nat /\ slept["rss"] <= CheckSec
        BY Lists, Typed DEF IndInv, TypeOK, Threads
      <3>2. (RssCount - i) * FetchMax \in Int
        BY <1>2, Sizes DEF Rss
      <3>3. WaitRss(i) = (RssCount - i) * FetchMax + slept["rss"]
        BY <2>5 DEF WaitRss
      <3>4. (RssCount - i) * FetchMax + CheckSec <= CheckSec + RssCount * FetchMax
        BY <1>2, Waits
      <3>5. QED
        BY <1>1, <2>1, <2>2, <3>1, <3>2, <3>3, <3>4, Sizes
    <2>6. CASE pc["rss"] = "fetch" /\ s = i
      <3>1. i \in busy
        BY <1>2, <2>6 DEF IndInv, BusyInv
      <3>2. overdue[i] = 0
        BY <1>1, <3>1 DEF IndInv, OverdueInv
      <3>3. QED
        BY <1>1, <3>2
    <2>7. CASE pc["rss"] = "fetch" /\ s # i
      <3>1. s \in Rss
        BY <2>7, Lists, Sizes DEF IndInv, ScanInv, Scanners, Rss
      <3>2. WaitAt(i, s) + FetchMax <= CheckSec + RssCount * FetchMax
        BY <1>2, <2>7, <3>1, Waits
      <3>3. spent[s] \in Nat /\ spent[s] <= FetchMax
        BY <3>1, Lists, Typed DEF IndInv
      <3>4. WaitRss(i) = WaitAt(i, s) + spent[s]
        BY <2>7 DEF WaitRss, InFetch
      <3>5. QED
        BY <1>1, <2>1, <2>2, <2>4, <3>2, <3>3, <3>4, Sizes
    <2>8. CASE pc["rss"] \notin {"sleep", "fetch"}
      <3>1. WaitRss(i) = WaitAt(i, s) + 0
        BY <2>8 DEF WaitRss, InFetch
      <3>2. QED
        BY <1>1, <2>1, <2>2, <2>4, <3>1, Sizes
    <2>9. QED
      BY <2>5, <2>6, <2>7, <2>8
  <1>3. CASE i \notin Rss
    <2>1. /\ i \in Rest /\ Slack(i) = CheckSec + 1 + Lead + Lead - FetchMax
          /\ FetchMax <= Lead /\ Lead \in Nat /\ ~overtaken
      BY <1>3, SlackTyped, Turns, Lists
    <2>2. slept["rest"] \in Nat /\ slept["rest"] <= CheckSec
      BY Lists, Typed DEF IndInv, TypeOK, Threads
    <2>3. CASE pc["rest"] \in {"sleep", "skip", "due", "clear"}
      <3>1. overdue[i] <= Lead + CheckSec
        BY <1>1, <2>1, <2>2, <2>3, Sizes DEF IndInv, RestInv
      <3>2. QED
        BY <1>1, <2>1, <3>1, Sizes
    <2>4. CASE pc["rest"] \in {"count", "batch"}
      <3>1. CASE i \in queued
        <4>1. Start(i) \in Nat /\ Start(i) + FetchMax <= Lead
          BY <2>1, Turns
        <4>2. overdue[i] <= (Lead + CheckSec) + Start(i)
          BY <2>1, <2>4, <3>1 DEF IndInv, RestInv, Waited
        <4>3. QED
          BY <1>1, <2>1, <4>1, <4>2, Sizes
      <3>2. CASE i \notin queued
        <4>1. overdue[i] <= Lead
          BY <2>1, <2>4, <3>2 DEF IndInv, RestInv
        <4>2. QED
          BY <1>1, <2>1, <4>1, Sizes
      <3>3. QED
        BY <3>1, <3>2
    <2>5. QED
      BY <2>3, <2>4 DEF IndInv, TypeOK, ScanInv, Threads
  <1>4. QED
    BY <1>2, <1>3

-----------------------------------------------------------------------------
(* The scans.                                                              *)

LEMMA ScanSkipStep ==
  ASSUME IndInv, NEW t \in Scanners, ScanSkip(t)
  PROVE  IndInv'
  <1>a. /\ t \in Threads /\ scan[t] \in Own(t) /\ scan[t] \in Sources /\ scan[t] \in Nat
        /\ scan[t] + 1 \in FirstOf(t)..(LastOf(t) + 1)
        /\ scan[t] + 1 \in 0..(RssCount + RestCount + 1) /\ pc[t] = "skip"
    BY Lists, Sizes DEF IndInv, ScanInv, Own, ScanSkip, Scanning, Scanners, Threads
  <1>b. \/ pc' = [pc EXCEPT ![t] = "due"] /\ scan' = scan
        \/ pc' = pc /\ scan' = [scan EXCEPT ![t] = scan[t] + 1]
    BY DEF ScanSkip, TGoto
  <1>c. /\ \/ pc'[t] = "due" /\ scan'[t] = scan[t]
           \/ pc'[t] = "skip" /\ scan'[t] = scan[t] + 1
        /\ \A u \in Threads : u # t => pc'[u] = pc[u] /\ scan'[u] = scan[u]
    BY <1>a, <1>b DEF IndInv, TypeOK
  <1>d. scan'[t] # scan[t] => overdue[scan[t]] = 0
    <2>1. scan' # scan => should_skip_source(health[scan[t]], force_refresh)
      BY DEF ScanSkip
    <2>2. QED
      BY <2>1, <1>a, NotWaiting
  <1>e. UNCHANGED <<running, force_refresh, slept, napping, health, error_count, queued, batch_size,
                    rest_pending, overtaken, busy, spent, overdue, wanted, asked, restarts>>
    BY DEF ScanSkip, fetchVars, batchVars
  <1>1. TypeOK'
    BY <1>a, <1>b, <1>c, <1>e, Sizes, Lists DEF IndInv, TypeOK, Scanners, Threads
  <1>2. SleepInv'
    BY <1>a, <1>b, <1>c, <1>e, Sizes, Lists DEF IndInv, TypeOK, SleepInv, Scanners, Threads
  <1>3. ScanInv'
    BY <1>a, <1>b, <1>c, <1>e, Sizes, Lists DEF IndInv, TypeOK, ScanInv, Scanners, Threads
  <1>4. BusyInv'
    BY <1>a, <1>c, <1>e, BusyFrame DEF Threads, Scanners
  <1>5. FlagInv'
    <2>1. ASSUME NEW u \in Scanners, NEW j \in Own(u), Ahead(u, j)' PROVE Ahead(u, j)
      <3>1. CASE u = t
        BY <2>1, <3>1, <1>a, <1>c, Lists DEF Ahead
      <3>2. CASE u # t
        BY <2>1, <3>2, <1>c, <1>e, AheadFrame DEF Scanners, Threads
      <3>3. QED
        BY <3>1, <3>2
    <2>2. QED
      BY <2>1, <1>e, FlagFrame
  <1>6. DueInv'
    <2>1. ASSUME pc'[t] = "due" PROVE scan[t] \in wanted \/ ~should_skip_source(health[scan[t]], FALSE)
      <3>1. CASE force_refresh
        <4>1. Ahead(t, scan[t])
          BY <1>a DEF Ahead
        <4>2. QED
          BY <3>1, <4>1, <1>a DEF IndInv, FlagInv
      <3>2. CASE ~force_refresh
        <4>1. pc' # pc
          BY <2>1, <1>a
        <4>2. ~should_skip_source(health[scan[t]], force_refresh)
          BY <4>1 DEF ScanSkip
        <4>3. QED
          BY <3>2, <4>2, Zenon DEF should_skip_source
      <3>3. QED
        BY <3>1, <3>2
    <2>2. pc'[t] = "due" => scan'[t] = scan[t]
      BY <1>a, <1>c
    <2>3. \A u \in Scanners \ {t} : pc'[u] = pc[u] /\ scan'[u] = scan[u]
      BY <1>c DEF Scanners, Threads
    <2>4. QED
      BY <2>1, <2>2, <2>3, <1>e DEF IndInv, DueInv
  <1>7. RssInv'
    <2>1. CASE t = "rss"
      <3> SUFFICES ASSUME running, NEW i \in Rss PROVE overdue[i] <= WaitRss(i)'
        BY <1>e DEF RssInv
      <3> DEFINE s == scan["rss"]
      <3>1. s \in Nat /\ overdue[i] \in Nat /\ i \in Nat
        BY <2>1, <1>a, Lists, Typed DEF IndInv
      <3>2. /\ WaitAt(i, s) \in Int /\ WaitAt(i, s + 1) \in Int /\ WaitAt(i, i + 1) = 0
            /\ i # s => WaitAt(i, s + 1) = WaitAt(i, s) + FetchMax
        BY <3>1, Waits
      <3>3. overdue[i] <= WaitAt(i, s) + 0
        BY <2>1, <1>a DEF IndInv, RssInv, WaitRss, InFetch
      <3>4. WaitRss(i)' = WaitAt(i, scan'["rss"]) + 0
        BY <2>1, <1>c DEF WaitRss, InFetch
      <3>5. scan'["rss"] = s \/ (scan'["rss"] = s + 1 /\ (i = s => overdue[i] = 0))
        BY <2>1, <1>c, <1>d, <1>a
      <3>6. QED
        BY <3>1, <3>2, <3>3, <3>4, <3>5, Sizes
    <2>2. CASE t # "rss"
      BY <2>2, <1>c, <1>e, RssFrame DEF Threads
    <2>3. QED
      BY <2>1, <2>2
  <1>8. RestInv'
    <2>1. CASE t = "rest"
      <3>1. ASSUME running, NEW i \in Rest PROVE overdue[i] <= IF i < scan'["rest"] /\ i \notin queued THEN 0 ELSE Lead + CheckSec
        BY <3>1, <2>1, <1>a, <1>c, <1>d, Lists, Typed, Sizes, Turns DEF IndInv, RestInv
      <3>2. pc'["rest"] \in {"skip", "due"}
        BY <2>1, <1>c
      <3>3. QED
        BY <3>1, <3>2, <1>e DEF RestInv
    <2>2. CASE t # "rest"
      BY <2>2, <1>c, <1>e, RestFrame DEF Threads
    <2>3. QED
      BY <2>1, <2>2
  <1>9. HealthInv' /\ OverdueInv' /\ StatusNotBehind'
    BY <1>e DEF IndInv, HealthInv, OverdueInv, Due, StatusNotBehind
  <1>10. BatchInv'
    <2>1. CASE t = "rest"
      BY <2>1, <1>a, <1>c, <1>e DEF IndInv, BatchInv
    <2>2. CASE t # "rest"
      BY <2>2, <1>c, <1>e, BatchFrame DEF Threads
    <2>3. QED
      BY <2>1, <2>2
  <1>11. QED
    BY <1>1, <1>2, <1>3, <1>4, <1>5, <1>6, <1>7, <1>8, <1>9, <1>10 DEF IndInv

LEMMA ScanDueStep ==
  ASSUME IndInv, NEW t \in Scanners, ScanDue(t)
  PROVE  IndInv'
  <1> DEFINE i == scan[t]
             due == source_due(health[i], Interval[i], force_refresh)
  <1>a. /\ t \in Threads /\ i \in Own(t) /\ i \in Sources /\ i \in Nat
        /\ i + 1 \in FirstOf(t)..(LastOf(t) + 1)
        /\ i + 1 \in 0..(RssCount + RestCount + 1) /\ pc[t] = "due"
    BY Lists, Sizes DEF IndInv, ScanInv, Own, ScanDue, Scanners, Threads
  <1>b. \/ due /\ t = "rss" /\ pc' = [pc EXCEPT ![t] = "fetch"] /\ scan' = scan
        \/ ~(due /\ t = "rss") /\ pc' = [pc EXCEPT ![t] = "skip"] /\ scan' = [scan EXCEPT ![t] = i + 1]
    BY DEF ScanDue, TGoto
  <1>c. /\ \/ due /\ t = "rss" /\ pc'[t] = "fetch" /\ scan'[t] = i
           \/ ~(due /\ t = "rss") /\ pc'[t] = "skip" /\ scan'[t] = i + 1
        /\ \A u \in Threads : u # t => pc'[u] = pc[u] /\ scan'[u] = scan[u]
    BY <1>a, <1>b DEF IndInv, TypeOK
  <1>d. \/ /\ due /\ t = "rss" /\ busy' = busy \cup {i} /\ wanted' = wanted \ {i}
           /\ overdue' = [overdue EXCEPT ![i] = 0] /\ queued' = queued
        \/ /\ ~(due /\ t = "rss") /\ busy' = busy /\ wanted' = wanted /\ overdue' = overdue
           /\ queued' = IF due THEN queued \cup {i} ELSE queued
    BY DEF ScanDue, Begin
  <1>e. /\ t = "rss" \/ ~due => overdue'[i] = 0
        /\ \A j \in Sources : j # i => overdue'[j] = overdue[j]
        /\ overdue' \in [Sources -> Nat]
    <2>1. CASE due /\ t = "rss"
      BY <2>1, <1>a, <1>d DEF IndInv, TypeOK
    <2>2. CASE due /\ t # "rss"
      BY <2>2, <1>a, <1>d DEF IndInv, TypeOK
    <2>3. CASE ~due
      <3>1. overdue[i] = 0
        BY <2>3, <1>a, NotWaiting
      <3>2. QED
        BY <2>3, <3>1, <1>d DEF IndInv, TypeOK
    <2>4. QED
      BY <2>1, <2>2, <2>3
  <1>f. UNCHANGED <<running, force_refresh, slept, napping, health, error_count, batch_size,
                    rest_pending, overtaken, spent, asked, restarts>>
    BY DEF ScanDue
  <1> HIDE DEF due, i
  <1>1. TypeOK'
    <2>1. busy' \subseteq Sources /\ wanted' \subseteq Sources
      BY <1>a, <1>d DEF IndInv, TypeOK
    <2>2. pc' \in [Threads -> {"skip", "due", "fetch", "count", "batch", "clear", "sleep", "exited"}]
      BY <1>b DEF IndInv, TypeOK
    <2>3. scan' \in [Threads -> 0..(RssCount + RestCount + 1)]
      BY <1>a, <1>b DEF IndInv, TypeOK
    <2>4. queued' \subseteq Rest
      <3>1. t # "rss" => i \in Rest
        BY <1>a, Lists DEF Scanners
      <3>2. QED
        BY <3>1, <1>d DEF IndInv, TypeOK
    <2>5. QED
      BY <2>1, <2>2, <2>3, <2>4, <1>e, <1>f DEF IndInv, TypeOK
  <1>2. SleepInv'
    BY <1>a, <1>b, <1>c, <1>f, Sizes, Lists DEF IndInv, TypeOK, SleepInv, Scanners, Threads
  <1>3. ScanInv'
    BY <1>a, <1>b, <1>c, <1>f, Sizes, Lists DEF IndInv, TypeOK, ScanInv, Scanners, Threads
  <1>4. BusyInv'
    <2>1. \A j \in Rss : j # i => (j \in busy' <=> j \in busy)
      BY <1>d
    <2>2. CASE t = "rss"
      <3>1. \A j \in Rss : j \notin busy
        BY <2>2, <1>a DEF IndInv, BusyInv
      <3>2. i \in busy' <=> pc'["rss"] = "fetch"
        BY <2>2, <3>1, <1>a, <1>c, <1>d, Lists
      <3>3. pc'["rss"] = "fetch" => scan'["rss"] = i
        BY <2>2, <1>c
      <3>4. \A j \in Sources \ busy' : spent'[j] = 0
        BY <1>d, <1>f DEF IndInv, BusyInv
      <3>5. QED
        BY <3>1, <3>2, <3>3, <3>4, <2>1 DEF BusyInv
    <2>3. CASE t # "rss"
      <3>1. i \notin Rss
        BY <2>3, <1>a, Lists DEF Scanners
      <3>2. pc'["rss"] = pc["rss"] /\ scan'["rss"] = scan["rss"]
        BY <2>3, <1>c DEF Threads
      <3>3. \A j \in Sources \ busy' : spent'[j] = 0
        BY <1>d, <1>f DEF IndInv, BusyInv
      <3>4. QED
        BY <3>1, <3>2, <3>3, <2>1 DEF IndInv, BusyInv
    <2>4. QED
      BY <2>2, <2>3
  <1>5. FlagInv'
    <2>1. ASSUME NEW u \in Scanners, NEW j \in Own(u), Ahead(u, j)', force_refresh
          PROVE Ahead(u, j) /\ j # i
      <3>1. CASE u = t
        <4>1. j \in Nat
          BY Lists, Typed DEF IndInv
        <4>2. due
          BY <2>1 DEF due, source_due
        <4>3. QED
          BY <2>1, <3>1, <4>1, <4>2, <1>a, <1>c, Lists DEF Ahead, i
      <3>2. CASE u # t
        <4>1. Ahead(u, j)
          BY <2>1, <3>2, <1>c, <1>f, AheadFrame DEF Scanners, Threads
        <4>2. i \notin Own(u)
          BY <3>2, <1>a, Lists DEF Scanners
        <4>3. QED
          BY <4>1, <4>2
      <3>3. QED
        BY <3>1, <3>2
    <2>2. \A j : j \in wanted /\ j # i => j \in wanted'
      BY <1>d
    <2>3. force_refresh' => force_refresh
      BY <1>f
    <2>4. QED
      BY <2>1, <2>2, <2>3, FlagFrame
  <1>6. DueInv'
    <2>1. pc'[t] # "due"
      BY <1>c
    <2>2. ASSUME NEW u \in Scanners, u # t, pc'[u] = "due"
          PROVE  scan'[u] \in wanted' \/ ~should_skip_source(health'[scan'[u]], FALSE)
      <3>1. pc[u] = "due" /\ scan'[u] = scan[u]
        BY <2>2, <1>c DEF Scanners, Threads
      <3>2. scan[u] \in Own(u) /\ scan[u] # i
        BY <2>2, <3>1, <1>a, Lists, Sizes DEF IndInv, ScanInv, Own, Scanners
      <3>3. scan[u] \in wanted => scan[u] \in wanted'
        BY <3>2, <1>d
      <3>4. QED
        BY <3>1, <3>3, <1>f DEF IndInv, DueInv
    <2>3. QED
      BY <2>1, <2>2 DEF DueInv
  <1>7. RssInv'
    <2>1. CASE t = "rss"
      <3> SUFFICES ASSUME running, NEW j \in Rss PROVE overdue'[j] <= WaitRss(j)'
        BY <1>f DEF RssInv
      <3>1. i \in Nat /\ overdue[j] \in Nat /\ j \in Nat /\ j \in Sources /\ i = scan["rss"]
        BY <2>1, <1>a, Lists, Typed DEF IndInv, i
      <3>2. /\ WaitAt(j, i) \in Int /\ WaitAt(j, i + 1) \in Int /\ WaitAt(j, j + 1) = 0
            /\ j # i => WaitAt(j, i + 1) = WaitAt(j, i) + FetchMax
        BY <3>1, Waits
      <3>3. overdue[j] <= WaitAt(j, i) + 0
        BY <2>1, <3>1, <1>a DEF IndInv, RssInv, WaitRss, InFetch
      <3>4. CASE pc'["rss"] = "fetch" /\ scan'["rss"] = i
        <4>1. spent'[i] = 0
          BY <2>1, <1>a, <1>f, Lists DEF IndInv, BusyInv
        <4>2. WaitRss(j)' = WaitAt(j, i) + 0
          BY <3>4, <4>1 DEF WaitRss, InFetch
        <4>3. overdue[j] <= WaitAt(j, i) /\ 0 <= WaitAt(j, i)
          BY <3>1, <3>2, <3>3
        <4>4. overdue'[j] <= WaitAt(j, i)
          BY <4>3, <1>e, <3>1, <2>1
        <4>5. QED
          BY <4>2, <4>4, <3>2
      <3>5. CASE pc'["rss"] = "skip" /\ scan'["rss"] = i + 1
        <4>1. WaitRss(j)' = WaitAt(j, i + 1) + 0
          BY <3>5 DEF WaitRss, InFetch
        <4>2. QED
          BY <4>1, <3>1, <3>2, <3>3, <1>e, <2>1, Sizes
      <3>6. QED
        BY <3>4, <3>5, <2>1, <1>c
    <2>2. CASE t # "rss"
      <3>1. i \notin Rss
        BY <2>2, <1>a, Lists DEF Scanners
      <3>2. \A j \in Rss : overdue'[j] = overdue[j] /\ spent'[j] = spent[j]
        BY <3>1, <1>e, <1>f, Lists
      <3>3. QED
        BY <2>2, <3>2, <1>c, <1>f, RssFrame DEF Threads
    <2>3. QED
      BY <2>1, <2>2
  <1>8. RestInv'
    <2>1. CASE t = "rest"
      <3>1. ASSUME running, NEW j \in Rest PROVE overdue'[j] <= IF j < scan'["rest"] /\ j \notin queued' THEN 0 ELSE Lead + CheckSec
        <4>1. j \in Nat /\ j \in Sources /\ overdue[j] \in Nat /\ i = scan["rest"]
          BY <2>1, Lists, Typed DEF IndInv, i
        <4>2. overdue[j] <= IF j < i /\ j \notin queued THEN 0 ELSE Lead + CheckSec
          BY <3>1, <2>1, <4>1, <1>a DEF IndInv, RestInv
        <4>3. scan'["rest"] = i + 1
          BY <2>1, <1>c
        <4>4. Lead + CheckSec \in Nat
          BY Turns, Sizes
        <4>5. CASE j # i
          BY <4>1, <4>2, <4>3, <4>4, <4>5, <1>a, <1>d, <1>e
        <4>6. CASE j = i /\ due
          <5>1. j \in queued' /\ overdue'[j] = overdue[j]
            BY <2>1, <4>6, <1>d
          <5>2. ~(j < i)
            BY <4>1, <4>6
          <5>3. QED
            BY <4>2, <5>1, <5>2
        <4>7. CASE j = i /\ ~due
          BY <4>4, <4>7, <1>e
        <4>8. QED
          BY <4>5, <4>6, <4>7
      <3>2. pc'["rest"] = "skip"
        BY <2>1, <1>c
      <3>3. QED
        BY <3>1, <3>2, <1>f DEF RestInv
    <2>2. CASE t # "rest"
      <3>1. i \notin Rest
        BY <2>2, <1>a, Lists DEF Scanners
      <3>2. busy' \cap Rest = busy \cap Rest
        BY <3>1, <1>d
      <3>3. \A j \in Rest : overdue'[j] = overdue[j] /\ spent'[j] = spent[j]
        BY <3>1, <1>e, <1>f, Lists
      <3>4. queued' = queued
        <4>1. t = "rss"
          BY <2>2 DEF Scanners
        <4>2. QED
          BY <4>1, <1>d
      <3>5. QED
        BY <2>2, <3>2, <3>3, <3>4, <1>c, <1>f, RestFrame DEF Threads
    <2>3. QED
      BY <2>1, <2>2
  <1>9. OverdueInv'
    <2> SUFFICES ASSUME NEW j \in Sources, overdue'[j] > 0 PROVE Due(j)' /\ j \notin busy'
      BY DEF OverdueInv
    <2>1. overdue[j] > 0 /\ (t = "rss" => j # i)
      BY <1>d, <1>e, Typed DEF IndInv
    <2>2. Due(j) /\ j \notin busy
      BY <2>1 DEF IndInv, OverdueInv
    <2>3. QED
      BY <2>1, <2>2, <1>d, <1>f DEF Due
  <1>10. BatchInv'
    <2>1. CASE t = "rest"
      <3>1. rest_pending = 0 /\ busy \cap Rest = {}
        BY <2>1, <1>a DEF IndInv, BatchInv
      <3>2. busy' = busy
        BY <2>1, <1>d
      <3>3. pc'["rest"] = "skip"
        BY <2>1, <1>c
      <3>4. QED
        BY <3>1, <3>2, <3>3, <1>f DEF BatchInv
    <2>2. CASE t # "rest"
      <3>1. t = "rss" /\ i \notin Rest
        BY <2>2, <1>a, Lists DEF Scanners
      <3>2. busy' \cap Rest = busy \cap Rest
        BY <3>1, <1>d
      <3>3. QED
        BY <2>2, <3>1, <3>2, <1>c, <1>d, <1>f, BatchFrame DEF Threads
    <2>3. QED
      BY <2>1, <2>2
  <1>11. HealthInv' /\ StatusNotBehind'
    BY <1>f DEF IndInv, HealthInv, StatusNotBehind
  <1>12. QED
    BY <1>1, <1>2, <1>3, <1>4, <1>5, <1>6, <1>7, <1>8, <1>9, <1>10, <1>11 DEF IndInv

LEMMA ScanEndStep ==
  ASSUME IndInv, NEW t \in Scanners, ScanEnd(t)
  PROVE  IndInv'
  <1>a. /\ t \in Threads /\ pc[t] = "skip"
        /\ running => scan[t] = LastOf(t) + 1
    BY Lists, Sizes DEF IndInv, ScanInv, ScanEnd, Scanning, Scanners, Threads
  <1>b. \/ t = "rss" /\ pc' = [pc EXCEPT ![t] = "sleep"] /\ batch_size' = batch_size
        \/ /\ t = "rest" /\ pc' = [pc EXCEPT ![t] = IF queued = {} THEN "clear" ELSE "count"]
           /\ batch_size' = Cardinality(queued)
    BY DEF ScanEnd, TGoto
  <1>c. /\ pc'[t] = IF t = "rss" THEN "sleep" ELSE IF queued = {} THEN "clear" ELSE "count"
        /\ \A u \in Threads : u # t => pc'[u] = pc[u]
    BY <1>a, <1>b DEF IndInv, TypeOK
  <1>d. UNCHANGED <<running, force_refresh, scan, slept, napping, health, error_count, queued,
                    rest_pending, overtaken, busy, spent, overdue, wanted, asked, restarts>>
    BY DEF ScanEnd, fetchVars
  <1>e. ~napping[t] /\ slept[t] = 0 /\ slept[t] < SleepSec(t)
    BY <1>a, Lists, Sizes DEF IndInv, SleepInv, Scanners
  <1>1. TypeOK'
    <2>1. pc' \in [Threads -> {"skip", "due", "fetch", "count", "batch", "clear", "sleep", "exited"}]
      BY <1>a, <1>b DEF IndInv, TypeOK
    <2>2. batch_size' \in 0..RestCount
      BY <1>b, Jobs DEF IndInv, TypeOK
    <2>3. QED
      BY <2>1, <2>2, <1>d DEF IndInv, TypeOK
  <1>2. SleepInv'
    BY <1>a, <1>c, <1>d, <1>e DEF IndInv, SleepInv
  <1>3. ScanInv'
    BY <1>a, <1>b, <1>c, <1>d, <1>e, Sizes, Lists DEF IndInv, TypeOK, ScanInv, Scanners, Threads
  <1>4. BusyInv'
    BY <1>a, <1>c, <1>d, BusyFrame DEF Threads, Scanners
  <1>5. FlagInv'
    <2>1. ASSUME NEW u \in Scanners, NEW j \in Own(u), Ahead(u, j)' PROVE Ahead(u, j)
      <3>1. CASE u = t
        <4>1. slept[t] \in Nat /\ SleepSec(t) \in Nat
          BY <1>a, Typed, Lists, Sizes DEF IndInv, Scanners
        <4>2. QED
          BY <2>1, <3>1, <4>1, <1>c, <1>d, <1>e DEF Ahead, Scanners
      <3>2. CASE u # t
        BY <2>1, <3>2, <1>c, <1>d, AheadFrame DEF Scanners, Threads
      <3>3. QED
        BY <3>1, <3>2
    <2>2. QED
      BY <2>1, <1>d, FlagFrame
  <1>6. DueInv'
    <2>1. \A u \in Scanners : pc'[u] = "due" => pc[u] = "due"
      BY <1>c DEF Scanners, Threads
    <2>2. QED
      BY <2>1, <1>d DEF IndInv, DueInv
  <1>7. RssInv'
    <2>1. CASE t = "rss"
      <3> SUFFICES ASSUME running, NEW j \in Rss PROVE overdue[j] <= WaitRss(j)'
        BY <1>d DEF RssInv
      <3>1. overdue[j] <= WaitAt(j, RssCount + 1) + 0
        BY <2>1, <1>a, Lists DEF IndInv, RssInv, WaitRss, InFetch
      <3>2. WaitRss(j)' = (RssCount - j) * FetchMax + 0
        BY <2>1, <1>c, <1>d, <1>e DEF WaitRss
      <3>3. QED
        BY <3>1, <3>2, Waits
    <2>2. CASE t # "rss"
      BY <2>2, <1>c, <1>d, RssFrame DEF Threads
    <2>3. QED
      BY <2>1, <2>2
  <1>8. RestInv'
    <2>1. CASE t = "rest"
      <3> SUFFICES ASSUME running, NEW j \in Rest
                   PROVE  /\ pc'["rest"] = "clear" => overdue[j] <= Lead
                          /\ pc'["rest"] = "count" =>
                               /\ j \notin queued => overdue[j] <= Lead
                               /\ \A v \in queued : overdue[j] <= Waited(j)' + Start(v)
                               /\ \A v \in busy \cap Rest : overdue[j] <= Waited(j)' + Start(v) + spent[v]
        BY <2>1, <1>c, <1>d DEF RestInv
      <3>1. j \in Nat /\ j < scan["rest"] /\ overdue[j] \in Nat
        BY <2>1, <1>a, Lists, Typed, Sizes DEF IndInv, Rest
      <3>2. overdue[j] <= IF j \notin queued THEN 0 ELSE Lead + CheckSec
        BY <2>1, <3>1, <1>a DEF IndInv, RestInv
      <3>3. busy \cap Rest = {}
        BY <2>1, <1>a DEF IndInv, BatchInv
      <3>4. Lead \in Nat /\ \A v \in queued : Start(v) \in Nat
        BY Turns DEF IndInv, TypeOK
      <3>5. Waited(j)' = IF j \in queued THEN Lead + CheckSec ELSE 0
        BY <1>d DEF Waited
      <3>6. j \notin queued => overdue[j] <= Lead
        BY <3>1, <3>2, <3>4
      <3>7. \A v \in queued : overdue[j] <= Waited(j)' + Start(v)
        BY <3>1, <3>2, <3>4, <3>5, Sizes
      <3>8. pc'["rest"] = "clear" => j \notin queued
        BY <2>1, <1>c
      <3>9. QED
        BY <3>3, <3>6, <3>7, <3>8
    <2>2. CASE t # "rest"
      BY <2>2, <1>c, <1>d, RestFrame DEF Threads
    <2>3. QED
      BY <2>1, <2>2
  <1>9. HealthInv' /\ OverdueInv' /\ StatusNotBehind'
    BY <1>d DEF IndInv, HealthInv, OverdueInv, Due, StatusNotBehind
  <1>10. BatchInv'
    <2>1. CASE t = "rest"
      <3>1. rest_pending = 0 /\ busy \cap Rest = {}
        BY <2>1, <1>a DEF IndInv, BatchInv
      <3>2. Out' = queued
        BY <3>1, <1>d DEF Out
      <3>3. batch_size' = Cardinality(queued) /\ Cardinality(queued) \in Nat /\ Cardinality({}) = 0
        BY <2>1, <1>b, Jobs DEF IndInv
      <3>4. CASE queued = {}
        <4>1. pc'["rest"] = "clear"
          BY <2>1, <3>4, <1>c
        <4>2. QED
          BY <3>1, <3>2, <3>3, <3>4, <4>1, <1>d DEF BatchInv
      <3>5. CASE queued # {}
        <4>1. pc'["rest"] = "count"
          BY <2>1, <3>5, <1>c
        <4>2. QED
          BY <3>1, <3>2, <3>3, <4>1, <1>d DEF BatchInv
      <3>6. QED
        BY <3>4, <3>5
    <2>2. CASE t # "rest"
      <3>1. batch_size' = batch_size
        BY <2>2, <1>b
      <3>2. QED
        BY <2>2, <3>1, <1>c, <1>d, BatchFrame DEF Threads
    <2>3. QED
      BY <2>1, <2>2
  <1>11. QED
    BY <1>1, <1>2, <1>3, <1>4, <1>5, <1>6, <1>7, <1>8, <1>9, <1>10 DEF IndInv

LEMMA StorePendingStep ==
  ASSUME IndInv, StorePending
  PROVE  IndInv'
  <1>a. /\ pc["rest"] = "count" /\ rest_pending' = batch_size /\ batch_size' = 0
        /\ overtaken' = (rest_pending < 0) /\ pc' = [pc EXCEPT !["rest"] = "batch"]
    BY DEF StorePending, TGoto
  <1>b. pc'["rest"] = "batch" /\ \A u \in Threads : u # "rest" => pc'[u] = pc[u]
    BY <1>a DEF IndInv, TypeOK, Threads
  <1>c. UNCHANGED <<running, force_refresh, scan, slept, napping, health, error_count, queued,
                    busy, spent, overdue, wanted, asked, restarts>>
    BY DEF StorePending, fetchVars
  <1>1. TypeOK'
    <2>1. pc' \in [Threads -> {"skip", "due", "fetch", "count", "batch", "clear", "sleep", "exited"}]
      BY <1>a DEF IndInv, TypeOK
    <2>2. batch_size' \in 0..RestCount /\ rest_pending' \in -RestCount..RestCount
      BY <1>a, Sizes DEF IndInv, TypeOK
    <2>3. overtaken' \in BOOLEAN
      BY <1>a
    <2>4. QED
      BY <2>1, <2>2, <2>3, <1>c DEF IndInv, TypeOK
  <1>2. SleepInv'
    BY <1>a, <1>b, <1>c DEF IndInv, SleepInv, Threads
  <1>3. ScanInv'
    BY <1>a, <1>b, <1>c, Lists DEF IndInv, ScanInv, Scanners, Threads
  <1>4. BusyInv'
    BY <1>b, <1>c, BusyFrame DEF Threads
  <1>5. FlagInv'
    <2>1. ASSUME NEW u \in Scanners, NEW j \in Own(u), Ahead(u, j)' PROVE Ahead(u, j)
      BY <2>1, <1>b, <1>c DEF Ahead, Scanners, Threads
    <2>2. QED
      BY <2>1, <1>c, FlagFrame
  <1>6. DueInv'
    BY <1>b, <1>c DEF IndInv, DueInv, Scanners, Threads
  <1>7. RssInv'
    BY <1>b, <1>c, RssFrame DEF Threads
  <1>8. BatchInv'
    <2>1. rest_pending <= 0 /\ batch_size + rest_pending = Cardinality(Out)
      BY <1>a DEF IndInv, BatchInv
    <2>2. Cardinality(Out) \in Int /\ rest_pending \in Int /\ batch_size \in Int
      BY Jobs DEF IndInv
    <2>3. Out' = Out
      BY <1>c DEF Out
    <2>4. rest_pending' >= Cardinality(Out) /\ (rest_pending < 0 <=> rest_pending' > Cardinality(Out))
      BY <2>1, <2>2, <1>a
    <2>5. QED
      BY <2>3, <2>4, <1>a, <1>b, <1>c DEF IndInv, BatchInv
  <1>9. RestInv'
    <2>1. \A i \in Rest : Waited(i)' = Waited(i)
      BY <1>c DEF Waited
    <2>2. QED
      BY <2>1, <1>a, <1>b, <1>c DEF IndInv, RestInv
  <1>10. HealthInv' /\ OverdueInv' /\ StatusNotBehind'
    BY <1>c DEF IndInv, HealthInv, OverdueInv, Due, StatusNotBehind
  <1>11. QED
    BY <1>1, <1>2, <1>3, <1>4, <1>5, <1>6, <1>7, <1>8, <1>9, <1>10 DEF IndInv

LEMMA ClaimStep ==
  ASSUME IndInv, NEW i \in Sources, Claim(i)
  PROVE  IndInv'
  <1>a. /\ running /\ pc["rest"] \notin {"skip", "due"} /\ i \in queued /\ i \in Rest
        /\ \A j \in queued : i <= j
    BY DEF Claim, IndInv, TypeOK
  <1>b. /\ queued' = queued \ {i} /\ busy' = busy \cup {i} /\ wanted' = wanted \ {i}
        /\ overdue' = [overdue EXCEPT ![i] = 0]
    BY DEF Claim, Begin
  <1>c. UNCHANGED <<running, force_refresh, pc, scan, slept, napping, health, error_count,
                    batch_size, rest_pending, overtaken, spent, asked, restarts>>
    BY DEF Claim, threadVars
  <1>d. i \in Nat /\ i \notin Rss /\ \A j \in queued : j \in Nat
    BY <1>a, Lists, Sizes DEF IndInv, TypeOK, Rest
  <1>e. i \notin busy /\ spent[i] = 0
    <2>1. i \notin busy
      BY <1>a, <1>d DEF IndInv, BatchInv
    <2>2. QED
      BY <2>1 DEF IndInv, BusyInv
  <1>f. /\ overdue'[i] = 0 /\ \A j \in Sources : j # i => overdue'[j] = overdue[j]
        /\ overdue' \in [Sources -> Nat]
    BY <1>b DEF IndInv, TypeOK
  <1>g. pc["rest"] \in {"count", "batch"}
    <2>1. Out # {} /\ Cardinality(Out) \in 0..RestCount
      BY <1>a, Jobs DEF IndInv, Out
    <2>2. Cardinality(Out) # 0
      BY <2>1, Jobs DEF IndInv
    <2>3. pc["rest"] # "clear" /\ pc["rest"] # "sleep"
      BY <2>1, <2>2, <1>a, Sizes DEF IndInv, BatchInv
    <2>4. QED
      BY <2>3, <1>a DEF IndInv, TypeOK, ScanInv, Threads
  <1>1. TypeOK'
    BY <1>b, <1>c, <1>f DEF IndInv, TypeOK
  <1>2. SleepInv' /\ ScanInv' /\ HealthInv' /\ StatusNotBehind'
    BY <1>c DEF IndInv, SleepInv, ScanInv, HealthInv, StatusNotBehind
  <1>3. BusyInv'
    BY <1>b, <1>c, <1>d DEF IndInv, BusyInv
  <1>4. FlagInv'
    <2>1. ASSUME NEW u \in Scanners, NEW j \in Own(u), Ahead(u, j)' PROVE Ahead(u, j) /\ j # i
      <3>1. Ahead(u, j)
        BY <2>1, <1>c DEF Ahead
      <3>2. CASE u = "rss"
        BY <3>1, <3>2, <1>d, Lists
      <3>3. CASE u = "rest"
        BY <3>1, <3>3, <1>g DEF Ahead
      <3>4. QED
        BY <3>1, <3>2, <3>3 DEF Scanners
    <2>2. \A j : j \in wanted /\ j # i => j \in wanted'
      BY <1>b
    <2>3. QED
      BY <2>1, <2>2, <1>c, FlagFrame
  <1>5. DueInv'
    <2> SUFFICES ASSUME NEW u \in Scanners, pc[u] = "due"
                 PROVE  scan[u] \in wanted' \/ ~should_skip_source(health[scan[u]], FALSE)
      BY <1>c DEF DueInv
    <2>1. u = "rss"
      BY <1>a DEF Scanners
    <2>2. scan[u] \in Rss
      BY <2>1, Lists, Sizes DEF IndInv, ScanInv, Scanners, Rss
    <2>3. scan[u] # i
      BY <2>2, <1>d
    <2>4. QED
      BY <2>3, <1>b DEF IndInv, DueInv
  <1>6. RssInv'
    <2>1. \A j \in Rss : overdue'[j] = overdue[j] /\ spent'[j] = spent[j]
      BY <1>c, <1>d, <1>f, Lists
    <2>2. QED
      BY <2>1, <1>c, RssFrame
  <1>7. BatchInv'
    <2>1. Out' = Out
      BY <1>a, <1>b DEF Out
    <2>2. ASSUME NEW k \in busy' \cap Rest, NEW j \in queued' PROVE k < j
      <3>1. CASE k = i
        BY <2>2, <3>1, <1>a, <1>b, <1>d
      <3>2. CASE k # i
        BY <2>2, <3>2, <1>b DEF IndInv, BatchInv
      <3>3. QED
        BY <3>1, <3>2
    <2>3. QED
      BY <2>1, <2>2, <1>a, <1>c DEF IndInv, BatchInv
  <1>8. RestInv'
    <2> SUFFICES ASSUME NEW v \in Rest, pc["rest"] = "count" \/ (pc["rest"] = "batch" /\ ~overtaken)
                 PROVE  /\ v \notin queued' => overdue'[v] <= Lead
                        /\ \A j \in queued' : overdue'[v] <= Waited(v)' + Start(j)
                        /\ \A j \in busy' \cap Rest : overdue'[v] <= Waited(v)' + Start(j) + spent[j]
      BY <1>c, <1>g DEF RestInv
    <2>1. /\ v \notin queued => overdue[v] <= Lead
          /\ \A j \in queued : overdue[v] <= Waited(v) + Start(j)
          /\ \A j \in busy \cap Rest : overdue[v] <= Waited(v) + Start(j) + spent[j]
      BY <1>a DEF IndInv, RestInv
    <2>2. Lead \in Nat /\ \A j \in Rest : Start(j) \in Nat /\ spent[j] \in Nat
      BY Turns, Lists, Typed DEF IndInv
    <2>3. CASE v = i
      <3>1. Waited(v)' = 0
        BY <2>3, <1>b DEF Waited
      <3>2. queued \subseteq Rest
        BY DEF IndInv, TypeOK
      <3>3. QED
        BY <2>2, <2>3, <3>1, <3>2, <1>b, <1>f
    <2>4. CASE v # i
      <3>1. Waited(v)' = Waited(v) /\ overdue'[v] = overdue[v]
        BY <2>4, <1>b, <1>f, Lists DEF Waited
      <3>2. Waited(v) \in Nat
        BY <2>2, Sizes DEF Waited
      <3>3. overdue[v] <= Waited(v) + Start(i) + spent[i]
        BY <2>1, <2>2, <3>2, <1>a, <1>e
      <3>4. QED
        BY <2>1, <2>4, <3>1, <3>3, <1>b
    <2>5. QED
      BY <2>3, <2>4
  <1>9. OverdueInv'
    <2> SUFFICES ASSUME NEW j \in Sources, overdue'[j] > 0 PROVE Due(j)' /\ j \notin busy'
      BY DEF OverdueInv
    <2>1. j # i /\ overdue[j] > 0
      BY <1>f
    <2>2. QED
      BY <2>1, <1>b, <1>c DEF IndInv, OverdueInv, Due
  <1>10. QED
    BY <1>1, <1>2, <1>3, <1>4, <1>5, <1>6, <1>7, <1>8, <1>9 DEF IndInv

-----------------------------------------------------------------------------
(* The fetches.                                                            *)

LEMMA FetchEndStep ==
  ASSUME IndInv, NEW i \in Sources, FetchEnd(i)
  PROVE  IndInv'
  <1>a. i \in Rss \/ i \in Rest
    BY Lists
  <1>b. i \in busy /\ busy' = busy \ {i} /\ spent' = [spent EXCEPT ![i] = 0]
    BY DEF FetchEnd
  <1>c. /\ spent'[i] = 0 /\ \A j \in Sources : j # i => spent'[j] = spent[j]
        /\ spent' \in [Sources -> 0..FetchMax]
    BY <1>b, Sizes DEF IndInv, TypeOK
  <1>d. i \in Rss => /\ pc["rss"] = "fetch" /\ scan["rss"] = i
                     /\ pc' = [pc EXCEPT !["rss"] = "skip"] /\ scan' = [scan EXCEPT !["rss"] = i + 1]
    BY <1>b, Lists DEF IndInv, BusyInv, FetchEnd, TGoto
  <1>e. i \notin Rss => pc' = pc /\ scan' = scan
    BY Lists DEF FetchEnd
  <1>f. i \in Rss => pc'["rss"] = "skip" /\ scan'["rss"] = i + 1
    BY <1>d DEF IndInv, TypeOK, Threads
  <1>g. pc'["rest"] = pc["rest"] /\ scan'["rest"] = scan["rest"] /\ pc'["prune"] = pc["prune"]
    BY <1>d, <1>e DEF IndInv, TypeOK, Threads
  <1>h. i \in Nat /\ i + 1 \in 0..(RssCount + RestCount + 1) /\ (i \in Rss => i + 1 \in 1..(RssCount + 1))
    BY <1>a, Sizes DEF Rss, Rest
  <1>i. \/ health' = health /\ error_count' = error_count
        \/ /\ health' = [health EXCEPT ![i] = record_success(health[i])]
           /\ error_count' = [error_count EXCEPT ![NameOf[i]] = 0]
        \/ health' = [health EXCEPT ![i] = record_empty(health[i])] /\ error_count' = error_count
        \/ /\ health' = [health EXCEPT ![i] = record_failure(health[i])]
           /\ error_count' = [error_count EXCEPT ![NameOf[i]] = error_count[NameOf[i]] + 1]
    BY DEF FetchEnd
  <1>j. \A j \in Sources : j # i => health'[j] = health[j]
    BY <1>i DEF IndInv, TypeOK
  <1>k. UNCHANGED <<running, force_refresh, slept, napping, queued, batch_size, overtaken, overdue,
                    wanted, asked, restarts>>
    BY DEF FetchEnd
  <1>l. /\ i \in Rss => rest_pending' = rest_pending
        /\ i \notin Rss => i \in Rest /\ rest_pending' = rest_pending - 1
    BY <1>a, Lists DEF FetchEnd
  <1>m. i \notin Rss => Out' = Out \ {i} /\ Cardinality(Out') = Cardinality(Out) - 1
    <2> SUFFICES ASSUME i \notin Rss PROVE Out' = Out \ {i} /\ Cardinality(Out') = Cardinality(Out) - 1
      OBVIOUS
    <2>1. i \in Rest /\ i \in Out /\ i \in Nat
      BY <1>a, <1>b, Lists, Typed DEF IndInv, Out
    <2>2. i \notin queued
      BY <2>1, <1>b DEF IndInv, BatchInv
    <2>3. Out' = Out \ {i}
      BY <2>2, <1>b, <1>k DEF Out
    <2>4. Cardinality(Out \ {i}) = Cardinality(Out) - 1
      BY <2>1, Jobs, FS_RemoveElement DEF IndInv
    <2>5. QED
      BY <2>3, <2>4
  <1>n. i \in Rss => busy' \cap Rest = busy \cap Rest
    BY <1>b, Lists
  <1>o. /\ rest_pending \in Int /\ batch_size \in Int /\ Cardinality(Out) \in Nat
        /\ i \notin Rss => Cardinality(Out) >= 1 /\ rest_pending - 1 >= -RestCount
    <2>1. /\ rest_pending \in Int /\ batch_size \in 0..RestCount /\ Cardinality(Out) \in Nat
          /\ Cardinality(Out) = 0 => Out = {}
      BY Jobs DEF IndInv, TypeOK
    <2>2. i \notin Rss => i \in Out
      BY <1>a, <1>b DEF Out
    <2>3. i \notin Rss => Cardinality(Out) >= 1
      BY <2>1, <2>2
    <2>4. i \notin Rss => pc["rest"] \in {"count", "batch", "clear", "sleep", "exited"}
      <3>1. i \notin Rss => pc["rest"] \notin {"skip", "due"}
        BY DEF FetchEnd, ThreadOf
      <3>2. QED
        BY <3>1 DEF IndInv, TypeOK, ScanInv, Threads
    <2>5. i \notin Rss => rest_pending - 1 >= -RestCount
      BY <2>1, <2>3, <2>4, Sizes DEF IndInv, BatchInv
    <2>6. QED
      BY <2>1, <2>3, <2>5
  <1>1. TypeOK'
    <2>1. pc' \in [Threads -> {"skip", "due", "fetch", "count", "batch", "clear", "sleep", "exited"}]
      BY <1>d, <1>e DEF IndInv, TypeOK
    <2>2. scan' \in [Threads -> 0..(RssCount + RestCount + 1)]
      BY <1>d, <1>e, <1>h DEF IndInv, TypeOK
    <2>3. busy' \subseteq Sources
      BY <1>b DEF IndInv, TypeOK
    <2>4. error_count' \in [Names -> Nat]
      BY <1>i, Sizes DEF IndInv, TypeOK
    <2>5. /\ record_success(health[i]) \in [failures : Nat, backoff : Nat, age : 0..AgeCap, tried : BOOLEAN]
          /\ record_empty(health[i]) \in [failures : Nat, backoff : Nat, age : 0..AgeCap, tried : BOOLEAN]
          /\ record_failure(health[i]) \in [failures : Nat, backoff : Nat, age : 0..AgeCap, tried : BOOLEAN]
      <3>1. health[i].failures + 1 \in Nat
        BY Typed DEF IndInv
      <3>2. MinOf(Doubled[health[i].failures + 1], MaxBackoff) \in Nat
        BY <3>1, Sizes, DoubledFacts DEF MinOf
      <3>3. record_failure(health[i]) \in [failures : Nat, backoff : Nat, age : 0..AgeCap, tried : BOOLEAN]
        BY <3>1, <3>2, Sizes DEF record_failure
      <3>4. record_success(health[i]) \in [failures : Nat, backoff : Nat, age : 0..AgeCap, tried : BOOLEAN]
        BY Sizes DEF record_success
      <3>5. record_empty(health[i]) \in [failures : Nat, backoff : Nat, age : 0..AgeCap, tried : BOOLEAN]
        BY Sizes DEF IndInv, TypeOK, record_empty
      <3>6. QED
        BY <3>3, <3>4, <3>5
    <2>6. health' \in [Sources -> [failures : Nat, backoff : Nat, age : 0..AgeCap, tried : BOOLEAN]]
      BY <1>i, <2>5 DEF IndInv, TypeOK
    <2>7. rest_pending' \in -RestCount..RestCount
      BY <1>l, <1>o, Sizes DEF IndInv, TypeOK
    <2>8. QED
      BY <2>1, <2>2, <2>3, <2>4, <2>6, <2>7, <1>c, <1>k DEF IndInv, TypeOK
  <1>2. SleepInv'
    <2>1. \A u \in Threads : pc'[u] = pc[u] \/ (pc[u] = "fetch" /\ pc'[u] = "skip")
      BY <1>d, <1>e, <1>f, <1>g DEF Threads
    <2>2. QED
      BY <2>1, <1>k DEF IndInv, SleepInv
  <1>3. ScanInv'
    <2>1. CASE i \in Rss
      BY <2>1, <1>f, <1>g, <1>h, <1>k, Lists DEF IndInv, ScanInv, Scanners, Threads
    <2>2. CASE i \notin Rss
      BY <2>2, <1>e, <1>k DEF IndInv, ScanInv
    <2>3. QED
      BY <2>1, <2>2
  <1>4. BusyInv'
    <2>1. \A j \in Sources \ busy' : spent'[j] = 0
      BY <1>b, <1>c DEF IndInv, BusyInv
    <2>2. CASE i \in Rss
      BY <2>1, <2>2, <1>b, <1>d, <1>f DEF IndInv, BusyInv
    <2>3. CASE i \notin Rss
      BY <2>1, <2>3, <1>b, <1>e DEF IndInv, BusyInv
    <2>4. QED
      BY <2>2, <2>3
  <1>5. HealthInv'
    <2>1. \/ health'[i] = health[i]
          \/ health'[i] = record_success(health[i])
          \/ health'[i] = record_empty(health[i])
          \/ health'[i] = record_failure(health[i])
      BY <1>i DEF IndInv, TypeOK
    <2>2. CASE health'[i] = health[i]
      BY <2>2, <1>j DEF IndInv, HealthInv
    <2>3. CASE health'[i] = record_success(health[i])
      BY <2>3, <1>j, Sizes DEF IndInv, HealthInv, record_success
    <2>4. CASE health'[i] = record_empty(health[i])
      <3>1. /\ health'[i].failures = health[i].failures /\ health'[i].backoff = health[i].backoff
            /\ health'[i].tried = TRUE
        BY <2>4 DEF IndInv, TypeOK, record_empty
      <3>2. QED
        BY <3>1, <1>j DEF IndInv, HealthInv
    <2>5. CASE health'[i] = record_failure(health[i])
      <3> DEFINE n == health[i].failures + 1
                 b == MinOf(Doubled[n], MaxBackoff)
      <3>1. health'[i].failures = n /\ health'[i].backoff = b /\ health'[i].tried = TRUE
        BY <2>5 DEF record_failure
      <3>2. b <= MaxBackoff
        <4>1. n \in Nat
          BY Typed DEF IndInv
        <4>2. Doubled[n] \in Nat
          BY <4>1, DoubledFacts
        <4>3. QED
          BY <4>2, Sizes DEF MinOf
      <3>3. QED
        BY <3>1, <3>2, <1>j DEF IndInv, HealthInv
    <2>6. QED
      BY <2>1, <2>2, <2>3, <2>4, <2>5
  <1>6. FlagInv'
    <2>1. ASSUME NEW u \in Scanners, NEW j \in Own(u), Ahead(u, j)' PROVE Ahead(u, j)
      <3>1. CASE u = "rss" /\ i \in Rss
        <4>1. j \in Nat
          BY Lists, Typed DEF IndInv
        <4>2. QED
          BY <2>1, <3>1, <4>1, <1>d, <1>f, <1>h DEF Ahead
      <3>2. CASE ~(u = "rss" /\ i \in Rss)
        BY <2>1, <3>2, <1>e, <1>g, <1>k, AheadFrame DEF Scanners
      <3>3. QED
        BY <3>1, <3>2
    <2>2. QED
      BY <2>1, <1>k, FlagFrame
  <1>7. DueInv'
    <2> SUFFICES ASSUME NEW u \in Scanners, pc'[u] = "due"
                 PROVE  scan'[u] \in wanted \/ ~should_skip_source(health'[scan'[u]], FALSE)
      BY <1>k DEF DueInv
    <2>1. pc[u] = "due" /\ scan'[u] = scan[u]
      BY <1>d, <1>e, <1>f, <1>g DEF Scanners
    <2>2. scan[u] \in Own(u)
      BY <2>1, Lists, Sizes DEF IndInv, ScanInv, Own, Scanners
    <2>3. scan[u] # i
      <3>1. pc[ThreadOf(i)] # "due"
        BY DEF FetchEnd
      <3>2. scan[u] = i => ThreadOf(i) = u
        BY <2>2, <1>a, Lists DEF ThreadOf, Scanners
      <3>3. QED
        BY <2>1, <3>1, <3>2
    <2>4. health'[scan[u]] = health[scan[u]]
      BY <2>2, <2>3, <1>j, Lists
    <2>5. QED
      BY <2>1, <2>4 DEF IndInv, DueInv
  <1>8. RssInv'
    <2>1. CASE i \in Rss
      <3> SUFFICES ASSUME running, NEW j \in Rss PROVE overdue[j] <= WaitRss(j)'
        BY <1>k DEF RssInv
      <3>1. overdue[j] \in Nat /\ j \in Nat /\ j \in Sources /\ spent[i] \in Nat /\ spent[i] <= FetchMax
        BY Lists, Typed DEF IndInv
      <3>2. /\ WaitAt(j, i) \in Int /\ WaitAt(j, i + 1) \in Int /\ WaitAt(j, j + 1) = 0
            /\ j # i => WaitAt(j, i + 1) = WaitAt(j, i) + FetchMax
        BY <1>h, <3>1, Waits
      <3>3. overdue[j] <= WaitAt(j, i) + spent[i]
        BY <2>1, <1>d DEF IndInv, RssInv, WaitRss, InFetch
      <3>4. j = i => overdue[j] = 0
        BY <1>b, <3>1 DEF IndInv, OverdueInv
      <3>5. WaitRss(j)' = WaitAt(j, i + 1) + 0
        BY <2>1, <1>f DEF WaitRss, InFetch
      <3>6. QED
        BY <3>1, <3>2, <3>3, <3>4, <3>5, Sizes
    <2>2. CASE i \notin Rss
      <3>1. \A j \in Rss : spent'[j] = spent[j]
        BY <2>2, <1>c, Lists
      <3>2. QED
        BY <2>2, <3>1, <1>e, <1>k, RssFrame
    <2>3. QED
      BY <2>1, <2>2
  <1>9. RestInv'
    <2>1. \A j \in Rest : j \in busy' => spent'[j] = spent[j]
      BY <1>b, <1>c, Lists
    <2>2. busy' \cap Rest \subseteq busy \cap Rest
      BY <1>b
    <2>3. QED
      BY <2>1, <2>2, <1>g, <1>k, RestFrame
  <1>12. BatchInv'
    <2>1. CASE i \in Rss
      BY <2>1, <1>g, <1>k, <1>l, <1>n, BatchFrame
    <2>2. CASE i \notin Rss
      <3>1. pc' = pc /\ rest_pending' = rest_pending - 1 /\ Cardinality(Out') = Cardinality(Out) - 1
        BY <2>2, <1>e, <1>l, <1>m
      <3>2. pc["rest"] \notin {"skip", "due"}
        BY <2>2 DEF FetchEnd, ThreadOf
      <3>3. rest_pending # 0 \/ pc["rest"] = "count" \/ Cardinality(Out) = 0
        BY <3>2, <1>o DEF IndInv, BatchInv, TypeOK, ScanInv, Threads
      <3>4. ~(pc["rest"] = "clear" \/ (pc["rest"] = "sleep" /\ running))
        BY <2>2, <1>o DEF IndInv, BatchInv
      <3>5. pc["rest"] = "count" =>
              rest_pending' <= 0 /\ batch_size' + rest_pending' = Cardinality(Out')
        BY <3>1, <1>k, <1>o DEF IndInv, BatchInv
      <3>6. pc["rest"] \in {"batch", "clear", "sleep", "exited"} => rest_pending' >= Cardinality(Out')
        BY <3>1, <1>o DEF IndInv, BatchInv
      <3>7. pc["rest"] = "batch" => (overtaken <=> rest_pending' > Cardinality(Out'))
        BY <3>1, <1>o DEF IndInv, BatchInv
      <3>8. \A k \in busy' \cap Rest, j \in queued' : k < j
        BY <1>b, <1>k DEF IndInv, BatchInv
      <3>9. QED
        BY <3>1, <3>2, <3>4, <3>5, <3>6, <3>7, <3>8, <1>k DEF BatchInv
    <2>3. QED
      BY <2>1, <2>2
  <1>10. OverdueInv'
    <2> SUFFICES ASSUME NEW j \in Sources, overdue[j] > 0 PROVE Due(j)' /\ j \notin busy'
      BY <1>k DEF OverdueInv
    <2>1. Due(j) /\ j \notin busy
      BY DEF IndInv, OverdueInv
    <2>2. j # i
      BY <2>1, <1>b
    <2>3. QED
      BY <2>1, <2>2, <1>b, <1>j DEF Due
  <1>11. StatusNotBehind'
    <2> SUFFICES ASSUME NEW j \in Sources, \A v \in Sources \ {j} : NameOf[v] # NameOf[j]
                 PROVE  /\ health'[j].failures <= error_count'[NameOf[j]]
                        /\ restarts = 0 => health'[j].failures = error_count'[NameOf[j]]
      BY <1>k DEF StatusNotBehind
    <2>1. /\ health[j].failures <= error_count[NameOf[j]]
          /\ restarts = 0 => health[j].failures = error_count[NameOf[j]]
      BY DEF IndInv, StatusNotBehind
    <2>2. CASE j # i
      <3>1. NameOf[j] # NameOf[i] /\ NameOf[j] \in Names
        BY <2>2, Sizes
      <3>2. error_count'[NameOf[j]] = error_count[NameOf[j]]
        BY <3>1, <1>i DEF IndInv, TypeOK
      <3>3. QED
        BY <2>1, <2>2, <3>2, <1>j
    <2>3. CASE j = i
      <3>1. NameOf[i] \in Names /\ error_count[NameOf[i]] \in Nat /\ health[i].failures \in Nat
        BY Sizes, Typed DEF IndInv
      <3>2. \/ health'[i] = health[i] /\ error_count'[NameOf[i]] = error_count[NameOf[i]]
            \/ health'[i] = record_success(health[i]) /\ error_count'[NameOf[i]] = 0
            \/ health'[i] = record_empty(health[i]) /\ error_count'[NameOf[i]] = error_count[NameOf[i]]
            \/ /\ health'[i] = record_failure(health[i])
               /\ error_count'[NameOf[i]] = error_count[NameOf[i]] + 1
        BY <1>i, <3>1 DEF IndInv, TypeOK
      <3>3. /\ record_success(health[i]).failures = 0
            /\ record_empty(health[i]).failures = health[i].failures
            /\ record_failure(health[i]).failures = health[i].failures + 1
        BY DEF IndInv, TypeOK, record_success, record_empty, record_failure
      <3>4. QED
        BY <2>1, <2>3, <3>1, <3>2, <3>3
    <2>4. QED
      BY <2>2, <2>3
  <1>13. QED
    BY <1>1, <1>2, <1>3, <1>4, <1>5, <1>6, <1>7, <1>8, <1>9, <1>10, <1>11, <1>12 DEF IndInv

LEMMA BatchDoneStep ==
  ASSUME IndInv, BatchDone
  PROVE  IndInv'
  <1>a. /\ pc["rest"] = "clear" \/ (pc["rest"] = "batch" /\ (rest_pending <= 0 \/ ~running))
        /\ force_refresh' = FALSE /\ pc' = [pc EXCEPT !["rest"] = "sleep"]
    BY DEF BatchDone, TGoto
  <1>b. pc'["rest"] = "sleep" /\ \A u \in Threads : u # "rest" => pc'[u] = pc[u]
    BY <1>a DEF IndInv, TypeOK, Threads
  <1>c. UNCHANGED <<running, scan, slept, napping, health, error_count, queued, batch_size,
                    rest_pending, overtaken, busy, spent, overdue, wanted, asked, restarts>>
    BY DEF BatchDone, batchVars, fetchVars
  <1>d. slept["rest"] = 0 /\ ~napping["rest"]
    BY <1>a DEF IndInv, SleepInv, Threads
  <1>e. /\ rest_pending \in Int /\ Cardinality(Out) \in Nat /\ rest_pending >= Cardinality(Out)
        /\ Cardinality(Out) = 0 => Out = {}
    BY <1>a, Jobs DEF IndInv, BatchInv
  <1>1. TypeOK'
    <2>1. pc' \in [Threads -> {"skip", "due", "fetch", "count", "batch", "clear", "sleep", "exited"}]
      BY <1>a DEF IndInv, TypeOK
    <2>2. QED
      BY <2>1, <1>a, <1>c DEF IndInv, TypeOK
  <1>2. SleepInv'
    BY <1>b, <1>c, <1>d DEF IndInv, SleepInv, Threads
  <1>3. ScanInv'
    BY <1>b, <1>c, Lists DEF IndInv, ScanInv, Scanners, Threads
  <1>4. BusyInv'
    BY <1>b, <1>c, BusyFrame DEF Threads
  <1>5. FlagInv'
    BY <1>a DEF FlagInv
  <1>6. DueInv'
    BY <1>b, <1>c DEF IndInv, DueInv, Scanners, Threads
  <1>7. RssInv'
    BY <1>b, <1>c, RssFrame DEF Threads
  <1>8. BatchInv'
    <2>1. Out' = Out
      BY <1>c DEF Out
    <2>2. running => rest_pending = 0
      BY <1>a, <1>e DEF IndInv, BatchInv
    <2>3. QED
      BY <2>1, <2>2, <1>b, <1>c, <1>e DEF IndInv, BatchInv
  <1>9. RestInv'
    <2> SUFFICES ASSUME running, NEW i \in Rest PROVE overdue[i] <= Lead + 0
      BY <1>b, <1>c, <1>d DEF RestInv
    <2>1. Lead \in Nat /\ overdue[i] \in Nat
      BY Turns, Lists, Typed DEF IndInv
    <2>2. CASE pc["rest"] = "clear"
      BY <2>1, <2>2 DEF IndInv, RestInv
    <2>3. CASE pc["rest"] = "batch"
      <3>1. rest_pending = 0 /\ Out = {}
        BY <2>3, <1>a, <1>e
      <3>2. i \notin queued /\ ~overtaken
        BY <2>3, <3>1, <1>e DEF IndInv, BatchInv, Out
      <3>3. QED
        BY <2>1, <2>3, <3>2 DEF IndInv, RestInv
    <2>4. QED
      BY <2>2, <2>3, <1>a
  <1>10. HealthInv' /\ OverdueInv' /\ StatusNotBehind'
    BY <1>c DEF IndInv, HealthInv, OverdueInv, Due, StatusNotBehind
  <1>11. QED
    BY <1>1, <1>2, <1>3, <1>4, <1>5, <1>6, <1>7, <1>8, <1>9, <1>10 DEF IndInv

-----------------------------------------------------------------------------
(* The sleeps.                                                             *)

LEMMA SleepOverStep ==
  ASSUME IndInv, NEW t \in Threads, SleepOver(t)
  PROVE  IndInv'
  <1>a. pc[t] = "sleep" /\ ~napping[t]
    BY DEF SleepOver, Awake
  <1>b. /\ pc' = [pc EXCEPT ![t] = IF ~running THEN "exited" ELSE IF t = "prune" THEN "sleep" ELSE "skip"]
        /\ slept' = [slept EXCEPT ![t] = 0] /\ scan' = [scan EXCEPT ![t] = FirstOf(t)]
    BY DEF SleepOver, WakeUp, TGoto
  <1>c. /\ ~running => pc'[t] = "exited"
        /\ running => pc'[t] = IF t = "prune" THEN "sleep" ELSE "skip"
        /\ slept'[t] = 0 /\ scan'[t] = FirstOf(t)
        /\ \A u \in Threads : u # t => pc'[u] = pc[u] /\ scan'[u] = scan[u] /\ slept'[u] = slept[u]
    <2>1. DOMAIN slept = Threads
      BY DEF IndInv, SleepInv
    <2>2. QED
      BY <1>b, <2>1 DEF IndInv, TypeOK
  <1>d. FirstOf(t) \in Nat /\ FirstOf(t) <= RssCount + RestCount + 1 /\ SleepSec(t) \in Nat /\ SleepSec(t) >= 2
    BY Lists, Sizes DEF Threads
  <1>e. force_refresh' => force_refresh
    BY Zenon DEF SleepOver
  <1>f. force_refresh' \in BOOLEAN
    BY Zenon DEF SleepOver, IndInv, TypeOK
  <1>g. UNCHANGED <<running, napping, health, error_count, batch_size, rest_pending, overtaken, busy,
                    spent, overdue, wanted, asked, restarts>>
    BY DEF SleepOver, WakeUp, fetchVars
  <1>h. queued' = IF t = "rest" /\ running THEN {} ELSE queued
    BY DEF SleepOver, WakeUp
  <1>1. TypeOK'
    <2>1. pc' \in [Threads -> {"skip", "due", "fetch", "count", "batch", "clear", "sleep", "exited"}]
      BY <1>b DEF IndInv, TypeOK
    <2>2. scan' \in [Threads -> 0..(RssCount + RestCount + 1)]
      BY <1>b, <1>d, Sizes DEF IndInv, TypeOK
    <2>3. \A u \in Threads : slept'[u] \in 0..SleepSec(u)
      BY <1>c, <1>d DEF IndInv, TypeOK
    <2>4. QED
      BY <2>1, <2>2, <2>3, <1>f, <1>g, <1>h DEF IndInv, TypeOK
  <1>2. SleepInv'
    BY <1>a, <1>b, <1>c, <1>d, <1>g DEF IndInv, SleepInv
  <1>3. ScanInv'
    <2>1. \A u \in Scanners \ {t} : pc'[u] = pc[u] /\ scan'[u] = scan[u]
      BY <1>c DEF Scanners, Threads
    <2>2. t \in Scanners => /\ scan'[t] \in FirstOf(t)..(LastOf(t) + 1)
                            /\ pc'[t] \in {"skip", "exited"}
      <3>1. t \in Scanners => FirstOf(t) <= LastOf(t) + 1 /\ FirstOf(t) \in Nat /\ LastOf(t) \in Nat
        BY Lists, Sizes DEF Scanners
      <3>2. QED
        BY <1>c, <3>1 DEF Scanners
    <2>3. pc'["prune"] \in {"sleep", "exited"}
      BY <1>c DEF IndInv, ScanInv, Threads
    <2>4. pc'["rss"] \notin {"count", "batch", "clear"} /\ pc'["rest"] # "fetch"
      BY <2>1, <2>2 DEF IndInv, ScanInv, Scanners
    <2>5. running' => \A u \in Threads : pc'[u] # "exited"
      BY <1>c, <1>g DEF IndInv, ScanInv
    <2>6. QED
      BY <2>1, <2>2, <2>3, <2>4, <2>5 DEF IndInv, ScanInv
  <1>4. BusyInv'
    BY <1>a, <1>c, <1>g, BusyFrame DEF Threads
  <1>5. FlagInv'
    <2>1. ASSUME NEW u \in Scanners, NEW j \in Own(u), Ahead(u, j)' PROVE Ahead(u, j) \/ ~running
      <3>1. CASE u = t
        <4>1. running => slept[t] >= SleepSec(t)
          BY DEF SleepOver
        <4>2. QED
          BY <3>1, <4>1, <1>a DEF Ahead
      <3>2. CASE u # t
        BY <2>1, <3>2, <1>c, <1>g, AheadFrame DEF Scanners, Threads
      <3>3. QED
        BY <3>1, <3>2
    <2>2. ASSUME NEW u \in Scanners, NEW j \in Own(u), Ahead(u, j)', ~running PROVE Ahead(u, j)
      <3>1. u # t
        BY <2>2, <1>c DEF Ahead
      <3>2. QED
        BY <2>2, <3>1, <1>c, <1>g, AheadFrame DEF Scanners, Threads
    <2>3. QED
      BY <2>1, <2>2, <1>e, <1>g, FlagFrame
  <1>6. DueInv'
    <2>1. \A u \in Scanners : pc'[u] = "due" => pc[u] = "due" /\ scan'[u] = scan[u]
      BY <1>c DEF Scanners, Threads
    <2>2. QED
      BY <2>1, <1>g DEF IndInv, DueInv
  <1>7. RssInv'
    <2>1. CASE t = "rss"
      <3> SUFFICES ASSUME running, NEW j \in Rss PROVE overdue[j] <= WaitRss(j)'
        BY <1>g DEF RssInv
      <3>1. overdue[j] \in Nat /\ slept["rss"] \in Nat /\ slept["rss"] <= CheckSec
        BY <2>1, Lists, Typed DEF IndInv, TypeOK, Threads
      <3>2. overdue[j] <= (RssCount - j) * FetchMax + slept["rss"]
        BY <2>1, <1>a DEF IndInv, RssInv, WaitRss
      <3>3. WaitRss(j)' = WaitAt(j, 1) + 0
        BY <2>1, <1>c, Lists DEF WaitRss, InFetch
      <3>4. (RssCount - j) * FetchMax \in Int
        BY Sizes DEF Rss
      <3>5. QED
        BY <3>1, <3>2, <3>3, <3>4, Waits, Sizes
    <2>2. CASE t # "rss"
      BY <2>2, <1>c, <1>g, RssFrame DEF Threads
    <2>3. QED
      BY <2>1, <2>2
  <1>8. RestInv'
    <2>1. CASE t = "rest"
      <3>1. ASSUME running, NEW j \in Rest PROVE overdue[j] <= Lead + CheckSec /\ ~(j < scan'["rest"])
        <4>1. overdue[j] \in Nat /\ slept["rest"] \in Nat /\ slept["rest"] <= CheckSec
          BY <2>1, Lists, Typed DEF IndInv, TypeOK, Threads
        <4>2. overdue[j] <= Lead + slept["rest"]
          BY <3>1, <2>1, <1>a DEF IndInv, RestInv
        <4>3. scan'["rest"] = RssCount + 1
          BY <2>1, <1>c, Lists
        <4>4. QED
          BY <4>1, <4>2, <4>3, Sizes, Turns DEF Rest
      <3>2. running => pc'["rest"] = "skip"
        BY <2>1, <1>c
      <3>3. QED
        BY <3>1, <3>2, <1>g DEF RestInv
    <2>2. CASE t # "rest"
      BY <2>2, <1>c, <1>g, <1>h, RestFrame DEF Threads
    <2>3. QED
      BY <2>1, <2>2
  <1>9. HealthInv' /\ OverdueInv' /\ StatusNotBehind'
    BY <1>g DEF IndInv, HealthInv, OverdueInv, Due, StatusNotBehind
  <1>10. BatchInv'
    <2>1. CASE t = "rest" /\ running
      <3>1. rest_pending = 0 /\ rest_pending >= Cardinality(Out) /\ Cardinality(Out) \in Nat
        BY <2>1, <1>a, Jobs DEF IndInv, BatchInv
      <3>2. Out = {}
        BY <3>1, Jobs DEF IndInv
      <3>3. busy' \cap Rest = {} /\ rest_pending' = 0 /\ pc'["rest"] = "skip"
        BY <2>1, <3>1, <3>2, <1>c, <1>g DEF Out
      <3>4. QED
        BY <3>3 DEF BatchInv
    <2>2. CASE t = "rest" /\ ~running
      <3>1. Out' = Out
        BY <2>2, <1>g, <1>h DEF Out
      <3>2. pc'["rest"] = "exited"
        BY <2>2, <1>c
      <3>3. QED
        BY <2>2, <3>1, <3>2, <1>a, <1>g, <1>h DEF IndInv, BatchInv
    <2>3. CASE t # "rest"
      BY <2>3, <1>c, <1>g, <1>h, BatchFrame DEF Threads
    <2>4. QED
      BY <2>1, <2>2, <2>3
  <1>11. QED
    BY <1>1, <1>2, <1>3, <1>4, <1>5, <1>6, <1>7, <1>8, <1>9, <1>10 DEF IndInv

LEMMA SleepForcedStep ==
  ASSUME IndInv, NEW t \in Threads, SleepForced(t)
  PROVE  IndInv'
  <1>a. pc[t] = "sleep" /\ ~napping[t]
    BY DEF SleepForced, Awake
  <1>b. /\ pc' = [pc EXCEPT ![t] = IF ~running THEN "exited" ELSE IF t = "prune" THEN "sleep" ELSE "skip"]
        /\ slept' = [slept EXCEPT ![t] = 0] /\ scan' = [scan EXCEPT ![t] = FirstOf(t)]
    BY DEF SleepForced, WakeUp, TGoto
  <1>c. /\ ~running => pc'[t] = "exited"
        /\ running => pc'[t] = IF t = "prune" THEN "sleep" ELSE "skip"
        /\ slept'[t] = 0 /\ scan'[t] = FirstOf(t)
        /\ \A u \in Threads : u # t => pc'[u] = pc[u] /\ scan'[u] = scan[u] /\ slept'[u] = slept[u]
    <2>1. DOMAIN slept = Threads
      BY DEF IndInv, SleepInv
    <2>2. QED
      BY <1>b, <2>1 DEF IndInv, TypeOK
  <1>d. FirstOf(t) \in Nat /\ FirstOf(t) <= RssCount + RestCount + 1 /\ SleepSec(t) \in Nat /\ SleepSec(t) >= 2
    BY Lists, Sizes DEF Threads
  <1>e. force_refresh' => force_refresh
    BY Zenon DEF SleepForced
  <1>f. force_refresh' \in BOOLEAN
    BY Zenon DEF SleepForced, IndInv, TypeOK
  <1>g. UNCHANGED <<running, napping, health, error_count, batch_size, rest_pending, overtaken, busy,
                    spent, overdue, wanted, asked, restarts>>
    BY DEF SleepForced, WakeUp, fetchVars
  <1>h. queued' = IF t = "rest" /\ running THEN {} ELSE queued
    BY DEF SleepForced, WakeUp
  <1>1. TypeOK'
    <2>1. pc' \in [Threads -> {"skip", "due", "fetch", "count", "batch", "clear", "sleep", "exited"}]
      BY <1>b DEF IndInv, TypeOK
    <2>2. scan' \in [Threads -> 0..(RssCount + RestCount + 1)]
      BY <1>b, <1>d, Sizes DEF IndInv, TypeOK
    <2>3. \A u \in Threads : slept'[u] \in 0..SleepSec(u)
      BY <1>c, <1>d DEF IndInv, TypeOK
    <2>4. QED
      BY <2>1, <2>2, <2>3, <1>f, <1>g, <1>h DEF IndInv, TypeOK
  <1>2. SleepInv'
    BY <1>a, <1>b, <1>c, <1>d, <1>g DEF IndInv, SleepInv
  <1>3. ScanInv'
    <2>1. \A u \in Scanners \ {t} : pc'[u] = pc[u] /\ scan'[u] = scan[u]
      BY <1>c DEF Scanners, Threads
    <2>2. t \in Scanners => /\ scan'[t] \in FirstOf(t)..(LastOf(t) + 1)
                            /\ pc'[t] \in {"skip", "exited"}
      <3>1. t \in Scanners => FirstOf(t) <= LastOf(t) + 1 /\ FirstOf(t) \in Nat /\ LastOf(t) \in Nat
        BY Lists, Sizes DEF Scanners
      <3>2. QED
        BY <1>c, <3>1 DEF Scanners
    <2>3. pc'["prune"] \in {"sleep", "exited"}
      BY <1>c DEF IndInv, ScanInv, Threads
    <2>4. pc'["rss"] \notin {"count", "batch", "clear"} /\ pc'["rest"] # "fetch"
      BY <2>1, <2>2 DEF IndInv, ScanInv, Scanners
    <2>5. running' => \A u \in Threads : pc'[u] # "exited"
      BY <1>c, <1>g DEF IndInv, ScanInv
    <2>6. QED
      BY <2>1, <2>2, <2>3, <2>4, <2>5 DEF IndInv, ScanInv
  <1>4. BusyInv'
    BY <1>a, <1>c, <1>g, BusyFrame DEF Threads
  <1>5. FlagInv'
    <2>1. force_refresh' = FALSE
      BY DEF SleepForced
    <2>2. QED
      BY <2>1 DEF FlagInv
  <1>6. DueInv'
    <2>1. \A u \in Scanners : pc'[u] = "due" => pc[u] = "due" /\ scan'[u] = scan[u]
      BY <1>c DEF Scanners, Threads
    <2>2. QED
      BY <2>1, <1>g DEF IndInv, DueInv
  <1>7. RssInv'
    <2>1. CASE t = "rss"
      <3> SUFFICES ASSUME running, NEW j \in Rss PROVE overdue[j] <= WaitRss(j)'
        BY <1>g DEF RssInv
      <3>1. overdue[j] \in Nat /\ slept["rss"] \in Nat /\ slept["rss"] <= CheckSec
        BY <2>1, Lists, Typed DEF IndInv, TypeOK, Threads
      <3>2. overdue[j] <= (RssCount - j) * FetchMax + slept["rss"]
        BY <2>1, <1>a DEF IndInv, RssInv, WaitRss
      <3>3. WaitRss(j)' = WaitAt(j, 1) + 0
        BY <2>1, <1>c, Lists DEF WaitRss, InFetch
      <3>4. (RssCount - j) * FetchMax \in Int
        BY Sizes DEF Rss
      <3>5. QED
        BY <3>1, <3>2, <3>3, <3>4, Waits, Sizes
    <2>2. CASE t # "rss"
      BY <2>2, <1>c, <1>g, RssFrame DEF Threads
    <2>3. QED
      BY <2>1, <2>2
  <1>8. RestInv'
    <2>1. CASE t = "rest"
      <3>1. ASSUME running, NEW j \in Rest PROVE overdue[j] <= Lead + CheckSec /\ ~(j < scan'["rest"])
        <4>1. overdue[j] \in Nat /\ slept["rest"] \in Nat /\ slept["rest"] <= CheckSec
          BY <2>1, Lists, Typed DEF IndInv, TypeOK, Threads
        <4>2. overdue[j] <= Lead + slept["rest"]
          BY <3>1, <2>1, <1>a DEF IndInv, RestInv
        <4>3. scan'["rest"] = RssCount + 1
          BY <2>1, <1>c, Lists
        <4>4. QED
          BY <4>1, <4>2, <4>3, Sizes, Turns DEF Rest
      <3>2. running => pc'["rest"] = "skip"
        BY <2>1, <1>c
      <3>3. QED
        BY <3>1, <3>2, <1>g DEF RestInv
    <2>2. CASE t # "rest"
      BY <2>2, <1>c, <1>g, <1>h, RestFrame DEF Threads
    <2>3. QED
      BY <2>1, <2>2
  <1>9. HealthInv' /\ OverdueInv' /\ StatusNotBehind'
    BY <1>g DEF IndInv, HealthInv, OverdueInv, Due, StatusNotBehind
  <1>10. BatchInv'
    <2>1. CASE t = "rest" /\ running
      <3>1. rest_pending = 0 /\ rest_pending >= Cardinality(Out) /\ Cardinality(Out) \in Nat
        BY <2>1, <1>a, Jobs DEF IndInv, BatchInv
      <3>2. Out = {}
        BY <3>1, Jobs DEF IndInv
      <3>3. busy' \cap Rest = {} /\ rest_pending' = 0 /\ pc'["rest"] = "skip"
        BY <2>1, <3>1, <3>2, <1>c, <1>g DEF Out
      <3>4. QED
        BY <3>3 DEF BatchInv
    <2>2. CASE t = "rest" /\ ~running
      <3>1. Out' = Out
        BY <2>2, <1>g, <1>h DEF Out
      <3>2. pc'["rest"] = "exited"
        BY <2>2, <1>c
      <3>3. QED
        BY <2>2, <3>1, <3>2, <1>a, <1>g, <1>h DEF IndInv, BatchInv
    <2>3. CASE t # "rest"
      BY <2>3, <1>c, <1>g, <1>h, BatchFrame DEF Threads
    <2>4. QED
      BY <2>1, <2>2, <2>3
  <1>11. QED
    BY <1>1, <1>2, <1>3, <1>4, <1>5, <1>6, <1>7, <1>8, <1>9, <1>10 DEF IndInv

LEMMA NapStep ==
  ASSUME IndInv, NEW t \in Threads, Nap(t)
  PROVE  IndInv'
  <1>1. TypeOK'
    BY Sizes, Lists DEF IndInv, TypeOK, Scanners, Threads, Nap, batchVars, fetchVars
  <1>2. SleepInv'
    <2>1. napping' = [napping EXCEPT ![t] = TRUE] /\ pc' = pc /\ slept' = slept
      BY DEF Nap
    <2>2. pc[t] = "sleep" /\ slept[t] < SleepSec(t)
      BY DEF Nap, Awake
    <2>3. \A u \in Threads : u # t => napping'[u] = napping[u]
      BY <2>1 DEF IndInv, TypeOK
    <2>4. QED
      BY <2>1, <2>2, <2>3 DEF IndInv, SleepInv
  <1>3. FlagInv'
    BY Sizes, Lists
      DEF IndInv, TypeOK, FlagInv, Ahead, ScanInv, Scanners, Threads, Nap, fetchVars
  <1>4. /\ ScanInv' /\ BusyInv' /\ HealthInv' /\ DueInv' /\ RssInv' /\ BatchInv' /\ RestInv' /\ OverdueInv'
        /\ StatusNotBehind'
    BY DEF IndInv, ScanInv, BusyInv, HealthInv, DueInv, RssInv, WaitRss, InFetch, BatchInv, Out,
           RestInv, Waited, OverdueInv, Due, StatusNotBehind, Nap, batchVars, fetchVars
  <1>5. QED
    BY <1>1, <1>2, <1>3, <1>4 DEF IndInv

-----------------------------------------------------------------------------
(* The clock, the clients and the end.                                     *)

LEMMA TickStep ==
  ASSUME IndInv, Tick
  PROVE  IndInv'
  <1>a. /\ \A t \in Scanners : pc[t] = "sleep" => napping[t]
        /\ pc["rss"] \in {"exited", "sleep", "fetch"}
        /\ pc["rest"] \in {"exited", "sleep", "batch"}
        /\ pc["rest"] = "batch" => running /\ rest_pending > 0
    BY DEF Tick, IndInv, ScanInv, Scanners, Threads
  <1>b. /\ \A t \in Threads : napping'[t] = FALSE
        /\ \A t \in Threads : slept'[t] = IF napping[t] THEN slept[t] + 1 ELSE slept[t]
        /\ napping' = [t \in Threads |-> FALSE] /\ DOMAIN slept' = Threads
    BY DEF Tick
  <1>c. \A i \in Sources : spent'[i] = IF i \in busy THEN spent[i] + 1 ELSE 0
    BY DEF Tick
  <1>d. \A i \in busy : spent[i] < FetchMax
    BY DEF Tick
  <1>e. /\ overdue' \in [Sources -> Nat]
        /\ \A i \in Sources : overdue'[i] <= overdue[i] + 1
        /\ \A i \in Sources : overdue'[i] > 0 => running /\ i \notin busy /\ Due(i)
    <2> DEFINE waited(i) == IF running /\ i \notin busy /\ Due(i)
                            THEN MinOf(overdue[i] + 1, Slack(i) + 1) ELSE 0
    <2>1. \A i \in Sources : overdue[i] + 1 \in Nat /\ Slack(i) + 1 \in Nat
      BY Typed, SlackTyped DEF IndInv
    <2>2. \A i \in Sources : waited(i) \in Nat /\ waited(i) <= overdue[i] + 1
      BY <2>1 DEF MinOf
    <2>3. \A i \in Sources : waited(i) > 0 => running /\ i \notin busy /\ Due(i)
      OBVIOUS
    <2>4. overdue' = [i \in Sources |-> waited(i)]
      BY DEF Tick
    <2> HIDE DEF waited
    <2>5. QED
      BY <2>2, <2>3, <2>4
  <1>f. \A i \in Sources : /\ health'[i].failures = health[i].failures
                           /\ health'[i].backoff = health[i].backoff
                           /\ health'[i].tried = health[i].tried
                           /\ health'[i].age = IF health[i].tried THEN MinOf(health[i].age + 1, AgeCap) ELSE 0
    <2>1. \A i \in Sources : health[i] \in [failures : Nat, backoff : Nat, age : 0..AgeCap, tried : BOOLEAN]
      BY DEF IndInv, TypeOK
    <2>2. QED
      BY <2>1 DEF Tick
  <1>g. health' \in [Sources -> [failures : Nat, backoff : Nat, age : 0..AgeCap, tried : BOOLEAN]]
    <2>1. ASSUME NEW i \in Sources, NEW a
          PROVE  [health[i] EXCEPT !.age = a]
                   = [failures |-> health[i].failures, backoff |-> health[i].backoff, age |-> a,
                      tried |-> health[i].tried]
      BY DEF IndInv, TypeOK
    <2> DEFINE age(i) == IF health[i].tried THEN MinOf(health[i].age + 1, AgeCap) ELSE 0
    <2>2. ASSUME NEW i \in Sources PROVE age(i) \in 0..AgeCap
      <3>1. MinOf(health[i].age + 1, AgeCap) \in 0..AgeCap /\ 0 \in 0..AgeCap
        BY Sizes, Typed DEF IndInv, MinOf
      <3>2. QED
        BY <3>1
    <2>3. ASSUME NEW i \in Sources
          PROVE  health[i].failures \in Nat /\ health[i].backoff \in Nat /\ health[i].tried \in BOOLEAN
      BY DEF IndInv, TypeOK
    <2>4. health' = [i \in Sources |-> [health[i] EXCEPT !.age = age(i)]]
      BY DEF Tick
    <2> HIDE DEF age
    <2>5. ASSUME NEW i \in Sources
          PROVE  [health[i] EXCEPT !.age = age(i)]
                   \in [failures : Nat, backoff : Nat, age : 0..AgeCap, tried : BOOLEAN]
      BY <2>1, <2>2, <2>3
    <2>6. QED
      BY <2>4, <2>5
  <1>h. UNCHANGED <<running, force_refresh, pc, scan, error_count, queued, batch_size, rest_pending,
                    overtaken, busy, wanted, restarts>>
    BY DEF Tick, batchVars
  <1>1. TypeOK'
    <2>1. spent' \in [Sources -> 0..FetchMax]
      <3>1. \A i \in Sources : spent[i] \in Nat /\ (i \in busy => spent[i] < FetchMax)
        BY <1>d, Typed DEF IndInv
      <3>2. \A i \in Sources : (IF i \in busy THEN spent[i] + 1 ELSE 0) \in 0..FetchMax
        BY <3>1, Sizes
      <3>3. QED
        BY <3>2 DEF Tick
    <2>2. \A t \in Threads : slept'[t] \in 0..SleepSec(t)
      <3>1. \A t \in Threads : SleepSec(t) \in Nat
        BY Lists, Sizes DEF Threads
      <3>2. QED
        BY <1>b, <3>1, Typed DEF IndInv, TypeOK, SleepInv
    <2>3. asked' \in 0..AskCap
      BY Sizes DEF IndInv, TypeOK, Tick, MinOf
    <2>4. napping' \in [Threads -> BOOLEAN]
      BY <1>b
    <2>5. QED
      BY <2>1, <2>2, <2>3, <2>4, <1>e, <1>g, <1>h DEF IndInv, TypeOK
  <1>2. SleepInv'
    BY <1>a, <1>b, <1>c, <1>d, <1>e, <1>h, Sizes, Lists
      DEF IndInv, TypeOK, SleepInv, Scanners, Threads
  <1>3. BusyInv'
    BY <1>c, <1>h DEF IndInv, BusyInv
  <1>4. HealthInv'
    BY <1>f DEF IndInv, HealthInv
  <1>5. FlagInv'
    <2>1. ASSUME NEW u \in Scanners, NEW j \in Own(u), Ahead(u, j)' PROVE Ahead(u, j)
      <3>1. CASE pc[u] = "sleep"
        BY <3>1, <1>a DEF Ahead
      <3>2. CASE pc[u] # "sleep"
        BY <2>1, <3>2, <1>h DEF Ahead
      <3>3. QED
        BY <3>1, <3>2
    <2>2. QED
      BY <2>1, <1>h, FlagFrame
  <1>6. DueInv'
    <2>1. \A u \in Scanners : pc[u] # "due"
      BY <1>a DEF Scanners
    <2>2. QED
      BY <2>1, <1>h DEF DueInv
  <1>7. RssInv'
    <2> SUFFICES ASSUME running, NEW i \in Rss PROVE overdue'[i] <= WaitRss(i)'
      BY <1>h DEF RssInv
    <2>1. /\ overdue[i] \in Nat /\ i \in Nat /\ i \in Sources /\ overdue'[i] <= overdue[i] + 1
          /\ slept["rss"] \in Nat /\ scan["rss"] \in Nat
      BY <1>e, Lists, Typed DEF IndInv, Threads
    <2>2. overdue[i] <= WaitRss(i)
      BY DEF IndInv, RssInv
    <2>3. overdue'[i] \in Nat
      BY <2>1, <1>e
    <2>4. CASE pc["rss"] = "sleep"
      <3>1. slept'["rss"] = slept["rss"] + 1
        BY <2>4, <1>a, <1>b DEF Scanners, Threads
      <3>2. WaitRss(i)' = (RssCount - i) * FetchMax + (slept["rss"] + 1)
        BY <2>4, <3>1, <1>h DEF WaitRss
      <3>3. WaitRss(i) = (RssCount - i) * FetchMax + slept["rss"]
        BY <2>4 DEF WaitRss
      <3>4. (RssCount - i) * FetchMax \in Int
        BY <2>1, Sizes
      <3>5. QED
        BY <2>1, <2>2, <2>3, <3>2, <3>3, <3>4
    <2>5. CASE pc["rss"] = "fetch"
      <3> DEFINE s == scan["rss"]
      <3>1. s \in Rss /\ s \in busy
        BY <2>5, Lists, Sizes DEF IndInv, ScanInv, BusyInv, Scanners, Rss
      <3>2. spent'[s] = spent[s] + 1 /\ spent[s] \in Nat
        BY <3>1, <1>c, Lists, Typed DEF IndInv
      <3>3. WaitRss(i) = WaitAt(i, s) + spent[s] /\ WaitRss(i)' = WaitAt(i, s) + (spent[s] + 1)
        BY <2>5, <3>2, <1>h DEF WaitRss, InFetch
      <3>4. WaitAt(i, s) \in Int
        BY <2>1, Waits
      <3>5. QED
        BY <2>1, <2>2, <2>3, <3>2, <3>3, <3>4
    <2>6. QED
      BY <2>4, <2>5, <1>a DEF IndInv, ScanInv, Threads
  <1>8. RestInv'
    <2> SUFFICES ASSUME running, NEW i \in Rest
                 PROVE  /\ pc["rest"] = "sleep" => overdue'[i] <= Lead + slept'["rest"]
                        /\ pc["rest"] = "batch" /\ ~overtaken =>
                             /\ i \notin queued => overdue'[i] <= Lead
                             /\ \A j \in queued : overdue'[i] <= Waited(i) + Start(j)
                             /\ \A j \in busy \cap Rest : overdue'[i] <= Waited(i) + Start(j) + spent'[j]
      <3>1. \A i \in Rest : Waited(i)' = Waited(i)
        BY <1>h DEF Waited
      <3>2. QED
        BY <3>1, <1>a, <1>h DEF RestInv
    <2>1. /\ overdue[i] \in Nat /\ i \in Sources /\ overdue'[i] <= overdue[i] + 1 /\ overdue'[i] \in Nat
          /\ slept["rest"] \in Nat /\ Lead \in Nat /\ Waited(i) \in Nat
      BY <1>e, Lists, Typed, Turns, Sizes DEF IndInv, Threads, Waited
    <2>2. CASE pc["rest"] = "sleep"
      <3>1. slept'["rest"] = slept["rest"] + 1
        BY <2>2, <1>a, <1>b DEF Scanners, Threads
      <3>2. overdue[i] <= Lead + slept["rest"]
        BY <2>2 DEF IndInv, RestInv
      <3>3. QED
        BY <2>1, <2>2, <3>1, <3>2, Sizes
    <2>3. CASE pc["rest"] = "batch" /\ ~overtaken
      <3> DEFINE working == busy \cap Rest
      <3>1. /\ \A j \in queued : overdue[i] <= Waited(i) + Start(j)
            /\ \A j \in working : overdue[i] <= Waited(i) + Start(j) + spent[j]
        BY <2>3 DEF IndInv, RestInv
      <3>2. \A j \in working : spent'[j] = spent[j] + 1 /\ spent[j] \in Nat /\ spent[j] < FetchMax
        BY <1>c, <1>d, Lists, Typed DEF IndInv
      <3>3. \A j \in Rest : Start(j) \in Nat /\ Start(j) + FetchMax <= Lead /\ j \in Nat
        BY Turns, Lists, Typed DEF IndInv
      <3>4. \A j \in working : overdue'[i] <= Waited(i) + Start(j) + spent'[j]
        BY <2>1, <3>1, <3>2, <3>3
      <3>5. queued = {} \/ Cardinality(working) = WorkerCount
        BY <2>3 DEF Tick
      <3>6. working # {}
        <4>1. Out # {}
          <5>1. rest_pending > 0 /\ ~(rest_pending > Cardinality(Out))
            BY <2>3, <1>a DEF IndInv, BatchInv
          <5>2. Cardinality({}) = 0
            BY Jobs DEF IndInv
          <5>3. QED
            BY <5>1, <5>2
        <4>2. Cardinality({}) # WorkerCount
          BY Jobs, Sizes DEF IndInv
        <4>3. QED
          BY <4>1, <4>2, <3>5 DEF Out
      <3>7. \A j \in queued : overdue'[i] <= Waited(i) + Start(j)
        <4> SUFFICES ASSUME NEW j \in queued PROVE overdue'[i] <= Waited(i) + Start(j)
          OBVIOUS
        <4>1. j \in Rest /\ j \in Nat /\ \A k \in working : k < j
          BY <3>3 DEF IndInv, TypeOK, BatchInv
        <4>2. PICK k \in working : k + WorkerCount <= j
          <5>1. SUFFICES ASSUME \A k \in working : k + WorkerCount > j PROVE FALSE
            <6>1. \A k \in working : k + WorkerCount \in Int
              BY <3>3, Sizes
            <6>2. QED
              BY <6>1, <4>1
          <5> DEFINE a == j - WorkerCount + 1
                     b == j - 1
          <5>2. /\ WorkerCount \in Nat \ {0} /\ a \in Int /\ b \in Int
                /\ (IF a > b THEN 0 ELSE b - a + 1) = WorkerCount - 1
            BY <4>1, Sizes
          <5>3. working \subseteq a..b
            <6>1. ASSUME NEW k \in working PROVE k \in a..b
              <7>1. k \in Nat /\ k < j /\ k + WorkerCount > j
                BY <5>1, <4>1, <3>3
              <7>2. QED
                BY <7>1, <5>2, <4>1
            <6> HIDE DEF a, b, working
            <6>2. QED
              BY <6>1
          <5> HIDE DEF a, b
          <5>4. IsFiniteSet(a..b) /\ Cardinality(a..b) = WorkerCount - 1
            BY <5>2, FS_Interval
          <5>5. Cardinality(working) <= WorkerCount - 1
            BY <5>3, <5>4, FS_Subset
          <5>6. QED
            BY <3>5, <5>2, <5>5
        <4>3. Start(k) + FetchMax <= Start(j) /\ Start(k) \in Nat /\ Start(j) \in Nat
          BY <4>1, <4>2, <3>3, Turns
        <4>4. overdue[i] <= Waited(i) + Start(k) + spent[k] /\ spent[k] \in Nat /\ spent[k] < FetchMax
          BY <3>1, <3>2
        <4>5. QED
          BY <2>1, <4>3, <4>4, Sizes
      <3>8. i \notin queued => overdue'[i] <= Lead
        <4>1. PICK k \in working : TRUE
          BY <3>6
        <4>2. overdue[i] <= Waited(i) + Start(k) + spent[k] /\ spent[k] \in Nat /\ spent[k] < FetchMax
          BY <3>1, <3>2
        <4>3. Start(k) \in Nat /\ Start(k) + FetchMax <= Lead
          BY <3>3
        <4>4. i \notin queued => Waited(i) = 0
          BY DEF Waited
        <4>5. QED
          BY <2>1, <4>2, <4>3, <4>4, Sizes
      <3>9. QED
        BY <2>3, <3>4, <3>7, <3>8
    <2>4. QED
      BY <2>2, <2>3
  <1>9. OverdueInv'
    <2> SUFFICES ASSUME NEW i \in Sources, overdue'[i] > 0 PROVE Due(i)' /\ i \notin busy'
      BY DEF OverdueInv
    <2>1. Due(i) /\ i \notin busy
      BY <1>e
    <2>2. /\ health[i].age \in Nat /\ health[i].backoff \in Nat /\ health[i].backoff <= AgeCap
          /\ Interval[i] \in Nat /\ Interval[i] <= AgeCap
      BY Sizes, Typed DEF IndInv, HealthInv
    <2>3. CASE health[i].tried
      <3>1. /\ health'[i].age = MinOf(health[i].age + 1, AgeCap) /\ health'[i].backoff = health[i].backoff
            /\ health'[i].failures = health[i].failures
        BY <2>3, <1>f
      <3>2. \A b \in Nat : b <= AgeCap /\ health[i].age >= b => health'[i].age >= b
        BY <2>2, <3>1, Sizes DEF MinOf
      <3>3. health[i].failures = 0 \/ health[i].age >= health[i].backoff
        BY <2>1, <2>2 DEF Due, should_skip_source
      <3>4. health[i].age >= Interval[i]
        BY <2>1, <2>3 DEF Due, source_due
      <3>5. health'[i].failures = 0 \/ ~(health'[i].age < health'[i].backoff)
        <4>1. health'[i].age \in Int
          BY <2>2, <3>1, Sizes DEF MinOf
        <4>2. QED
          BY <2>2, <3>1, <3>2, <3>3, <4>1
      <3>6. health'[i].age >= Interval[i]
        BY <2>2, <3>2, <3>4
      <3>7. Due(i)'
        BY <3>5, <3>6 DEF Due, should_skip_source, source_due
      <3>8. QED
        BY <2>1, <3>7, <1>h
    <2>4. CASE ~health[i].tried
      <3>1. ~health'[i].tried /\ health'[i].failures = 0
        BY <2>4, <1>f DEF IndInv, HealthInv
      <3>2. QED
        BY <2>1, <3>1, <1>h DEF Due, should_skip_source, source_due
    <2>5. QED
      BY <2>3, <2>4
  <1>10. BatchInv'
    BY <1>h, BatchFrame
  <1>11. StatusNotBehind'
    BY <1>f, <1>h DEF IndInv, StatusNotBehind
  <1>12. ScanInv'
    BY <1>h DEF IndInv, ScanInv
  <1>13. QED
    BY <1>1, <1>2, <1>3, <1>4, <1>5, <1>6, <1>7, <1>8, <1>9, <1>10, <1>11, <1>12 DEF IndInv

LEMMA RequestStep ==
  ASSUME IndInv, Request
  PROVE  IndInv'
  <1>1. TypeOK'
    BY Sizes, Lists DEF IndInv, TypeOK, Scanners, Threads, Request, threadVars, batchVars, fetchVars
  <1>2. FlagInv'
    BY Sizes, Lists
      DEF IndInv, TypeOK, FlagInv, Ahead, ScanInv, Scanners, Threads, Request, threadVars,
          batchVars, fetchVars
  <1>3. DueInv'
    BY Sizes, Lists
      DEF IndInv, TypeOK, DueInv, ScanInv, Scanners, Threads, Request, threadVars, batchVars, fetchVars
  <1>4. /\ SleepInv' /\ ScanInv' /\ BusyInv' /\ HealthInv' /\ RssInv' /\ BatchInv' /\ RestInv' /\ OverdueInv'
        /\ StatusNotBehind'
    BY DEF IndInv, SleepInv, ScanInv, BusyInv, HealthInv, RssInv, WaitRss, InFetch, BatchInv, Out, RestInv, Waited,
           OverdueInv, Due, StatusNotBehind, Request, threadVars,
           batchVars, fetchVars
  <1>5. QED
    BY <1>1, <1>2, <1>3, <1>4 DEF IndInv

LEMMA StopStep ==
  ASSUME IndInv, Stop
  PROVE  IndInv'
  <1>1. TypeOK'
    BY Sizes, Lists DEF IndInv, TypeOK, Scanners, Threads, Stop, threadVars, batchVars, fetchVars
  <1>2. ScanInv'
    BY Sizes, Lists DEF IndInv, TypeOK, ScanInv, Scanners, Threads, Stop, threadVars, batchVars, fetchVars
  <1>3. RssInv'
    BY Sizes, Lists
      DEF IndInv, TypeOK, RssInv, WaitRss, InFetch, ScanInv, BusyInv, Threads, Stop,
          threadVars, batchVars, fetchVars
  <1>4. RestInv'
    BY Sizes, Lists DEF IndInv, TypeOK, RestInv, ScanInv, Threads, Stop, threadVars, batchVars, fetchVars
  <1>5. BatchInv'
    BY BatchFrame DEF Stop, threadVars, batchVars, fetchVars
  <1>6. /\ SleepInv' /\ BusyInv' /\ HealthInv' /\ FlagInv' /\ DueInv' /\ OverdueInv'
        /\ StatusNotBehind'
    BY DEF IndInv, SleepInv, BusyInv, HealthInv, FlagInv, Ahead, DueInv, OverdueInv, Due,
           StatusNotBehind, Stop, threadVars, batchVars, fetchVars
  <1>7. QED
    BY <1>1, <1>2, <1>3, <1>4, <1>5, <1>6 DEF IndInv

LEMMA RestartStep ==
  ASSUME IndInv, Restart
  PROVE  IndInv'
  <1>a. /\ running' = TRUE /\ force_refresh' = FALSE /\ busy' = {} /\ wanted' = {} /\ asked' = 0
        /\ restarts' = restarts + 1 /\ restarts < MaxRestarts /\ error_count' = error_count
        /\ pc' = PcStart /\ scan' = [t \in Threads |-> FirstOf(t)] /\ slept' = Zero(Threads)
        /\ napping' = [t \in Threads |-> FALSE] /\ health' = [i \in Sources |-> Fresh]
        /\ spent' = Zero(Sources) /\ overdue' = Zero(Sources)
        /\ queued' = {} /\ batch_size' = 0 /\ rest_pending' = 0 /\ overtaken' = FALSE
    BY DEF Restart
  <1>1. TypeOK'
    <2>1. Fresh \in [failures : Nat, backoff : Nat, age : 0..AgeCap, tried : BOOLEAN]
      BY Sizes DEF Fresh
    <2>2. \A t \in Threads : FirstOf(t) \in 0..(RssCount + RestCount + 1) /\ SleepSec(t) \in Nat
      BY Sizes, Lists DEF Threads
    <2>3. scan' \in [Threads -> 0..(RssCount + RestCount + 1)] /\ \A t \in Threads : slept'[t] \in 0..SleepSec(t)
      BY <2>2, <1>a DEF Zero
    <2>4. pc' \in [Threads -> {"skip", "due", "fetch", "count", "batch", "clear", "sleep", "exited"}]
      BY <1>a DEF PcStart
    <2>5. spent' \in [Sources -> 0..FetchMax] /\ overdue' \in [Sources -> Nat]
      BY Sizes, <1>a DEF Zero
    <2>6. running' \in BOOLEAN /\ force_refresh' \in BOOLEAN
      BY Zenon, <1>a
    <2>7. napping' \in [Threads -> BOOLEAN]
      BY <1>a
    <2>8. health' \in [Sources -> [failures : Nat, backoff : Nat, age : 0..AgeCap, tried : BOOLEAN]]
      BY <2>1, <1>a
    <2>9. error_count' \in [Names -> Nat] /\ restarts' \in 0..MaxRestarts /\ asked' \in 0..AskCap
      BY Sizes, <1>a DEF Zero, IndInv, TypeOK
    <2>10. queued' \subseteq Rest /\ batch_size' \in 0..RestCount /\ rest_pending' \in -RestCount..RestCount
      BY Sizes, <1>a
    <2>11. overtaken' \in BOOLEAN
      BY <1>a
    <2>12. QED
      BY <2>10, <2>11, <2>3, <2>4, <2>5, <2>6, <2>7, <2>8, <2>9, <1>a DEF TypeOK, IndInv
  <1>2. SleepInv'
    BY <1>a, Sizes, Lists DEF IndInv, SleepInv, Zero
  <1>3. ScanInv'
    BY <1>a, Sizes, Lists DEF IndInv, ScanInv, PcStart, Scanners, Threads
  <1>4. BusyInv'
    BY <1>a, Sizes, Lists DEF IndInv, BusyInv, PcStart, Zero, Threads
  <1>5. HealthInv'
    BY <1>a, Sizes, Lists DEF IndInv, HealthInv, Fresh
  <1>6. FlagInv'
    BY <1>a, Sizes, Lists DEF IndInv, FlagInv
  <1>7. DueInv'
    BY <1>a, Sizes, Lists DEF IndInv, DueInv, PcStart, Scanners, Threads
  <1>8. RssInv'
    <2>1. \A i \in Rss : overdue'[i] = 0 /\ WaitRss(i)' = WaitAt(i, 1) + 0 /\ i >= 1
      BY <1>a, Lists DEF WaitRss, InFetch, PcStart, Zero, Threads, Rss
    <2>2. \A i \in Rss : WaitAt(i, 1) \in Nat
      <3>1. ASSUME NEW i \in Rss PROVE WaitAt(i, 1) \in Nat
        <4>1. RssCount - i \in Nat
          BY Sizes DEF Rss
        <4>2. (RssCount - i) * FetchMax \in Nat
          BY <4>1, Products, Sizes
        <4>3. WaitAt(i, 1) = (RssCount - i) * FetchMax + CheckSec
          BY Waits
        <4>4. QED
          BY <4>2, <4>3, Sizes
      <3>2. QED
        BY <3>1
    <2>3. QED
      BY <2>1, <2>2 DEF RssInv
  <1>9. RestInv'
    <2>1. \A i \in Rest : overdue'[i] = 0
      BY <1>a, Lists DEF Zero
    <2>2. pc'["rest"] = "skip"
      BY <1>a DEF PcStart, Threads
    <2>3. QED
      BY <2>1, <2>2, Sizes, Turns DEF RestInv
  <1>10. OverdueInv'
    BY <1>a, Sizes, Lists DEF IndInv, OverdueInv, Zero
  <1>11. BatchInv'
    BY <1>a DEF BatchInv, PcStart, Threads
  <1>12. StatusNotBehind'
    <2>1. restarts' # 0
      BY <1>a DEF IndInv, TypeOK
    <2>2. \A i \in Sources : health'[i].failures = 0 /\ error_count'[NameOf[i]] \in Nat
      BY <1>a, Typed DEF IndInv, Fresh
    <2>3. QED
      BY <2>1, <2>2 DEF StatusNotBehind
  <1>13. QED
    BY <1>1, <1>2, <1>3, <1>4, <1>5, <1>6, <1>7, <1>8, <1>9, <1>10, <1>11, <1>12 DEF IndInv

-----------------------------------------------------------------------------
(* The invariant, and the theorems.                                        *)

LEMMA InvInit == Init => IndInv
  <1> SUFFICES ASSUME Init PROVE IndInv
    OBVIOUS
  <1> USE Sizes, Lists DEF Init
  <1>1. TypeOK
    <2>1. Fresh \in [failures : Nat, backoff : Nat, age : 0..AgeCap, tried : BOOLEAN]
      BY Sizes DEF Fresh
    <2>2. \A t \in Threads : FirstOf(t) \in 0..(RssCount + RestCount + 1) /\ SleepSec(t) \in Nat
      BY Sizes, Lists DEF Threads
    <2>3. scan \in [Threads -> 0..(RssCount + RestCount + 1)] /\ \A t \in Threads : slept[t] \in 0..SleepSec(t)
      BY <2>2 DEF Zero
    <2>4. pc \in [Threads -> {"skip", "due", "fetch", "count", "batch", "clear", "sleep", "exited"}]
      BY DEF PcStart
    <2>5. spent \in [Sources -> 0..FetchMax] /\ overdue \in [Sources -> Nat]
      BY Sizes DEF Zero
    <2>6. running \in BOOLEAN /\ force_refresh \in BOOLEAN
      BY Zenon
    <2>7. napping \in [Threads -> BOOLEAN]
      OBVIOUS
    <2>8. health \in [Sources -> [failures : Nat, backoff : Nat, age : 0..AgeCap, tried : BOOLEAN]]
      BY <2>1
    <2>9. error_count \in [Names -> Nat] /\ restarts \in 0..MaxRestarts /\ asked \in 0..AskCap
      BY Sizes DEF Zero
    <2>10. queued \subseteq Rest /\ batch_size \in 0..RestCount /\ rest_pending \in -RestCount..RestCount
      OBVIOUS
    <2>11. overtaken \in BOOLEAN
      OBVIOUS
    <2>12. QED
      BY <2>10, <2>11, <2>3, <2>4, <2>5, <2>6, <2>7, <2>8, <2>9 DEF TypeOK, Zero
  <1>2. SleepInv
    BY DEF SleepInv, Zero
  <1>3. ScanInv
    BY DEF ScanInv, PcStart, Scanners, Threads
  <1>4. BusyInv
    BY DEF BusyInv, PcStart, Zero, Threads
  <1>5. HealthInv
    BY DEF HealthInv, Fresh
  <1>6. FlagInv
    BY DEF FlagInv
  <1>7. DueInv
    BY DEF DueInv, PcStart, Scanners, Threads
  <1>8. RssInv
    <2>1. \A i \in Rss : overdue[i] = 0 /\ WaitRss(i) = WaitAt(i, 1) + 0
      BY DEF WaitRss, InFetch, PcStart, Zero, Threads
    <2>2. \A i \in Rss : WaitAt(i, 1) \in Nat
      <3>1. ASSUME NEW i \in Rss PROVE WaitAt(i, 1) \in Nat
        <4>1. RssCount - i \in Nat
          BY DEF Rss
        <4>2. (RssCount - i) * FetchMax \in Nat
          BY <4>1, Products
        <4>3. WaitAt(i, 1) = (RssCount - i) * FetchMax + CheckSec
          BY Waits
        <4>4. QED
          BY <4>2, <4>3
      <3>2. QED
        BY <3>1
    <2>3. ASSUME NEW i \in Rss PROVE overdue[i] <= WaitRss(i)
      <3>1. overdue[i] = 0 /\ WaitRss(i) = WaitAt(i, 1) + 0 /\ WaitAt(i, 1) \in Nat
        BY <2>1, <2>2
      <3> HIDE DEF Init
      <3>2. QED
        BY <3>1
    <2>4. QED
      BY <2>3 DEF RssInv
  <1>9. RestInv
    <2>1. \A i \in Rest : overdue[i] = 0
      BY DEF Zero
    <2>2. pc["rest"] = "skip"
      BY DEF PcStart, Threads
    <2>3. \A i \in Rest : 0 <= Lead /\ 0 <= IF i < scan["rest"] /\ i \notin queued THEN 0 ELSE Lead + CheckSec
      BY Turns
    <2>4. QED
      BY <2>1, <2>2, <2>3 DEF RestInv
  <1>10. OverdueInv
    BY DEF OverdueInv, Zero
  <1>11. BatchInv
    BY DEF BatchInv, PcStart, Threads
  <1>12. StatusNotBehind
    BY DEF StatusNotBehind, Fresh, Zero
  <1>13. QED
    BY <1>1, <1>2, <1>3, <1>4, <1>5, <1>6, <1>7, <1>8, <1>9, <1>10, <1>11, <1>12 DEF IndInv

LEMMA Stuttering == IndInv /\ UNCHANGED vars => IndInv'
  <1> SUFFICES ASSUME IndInv, UNCHANGED vars PROVE IndInv'
    OBVIOUS
  <1>1. /\ running' = running /\ force_refresh' = force_refresh /\ pc' = pc /\ scan' = scan
        /\ slept' = slept /\ napping' = napping /\ health' = health /\ error_count' = error_count
        /\ busy' = busy /\ spent' = spent /\ overdue' = overdue /\ wanted' = wanted
        /\ asked' = asked /\ restarts' = restarts /\ queued' = queued /\ batch_size' = batch_size
        /\ rest_pending' = rest_pending /\ overtaken' = overtaken
    BY DEF vars
  <1>2. TypeOK' /\ SleepInv' /\ ScanInv' /\ BusyInv' /\ HealthInv'
    BY <1>1 DEF IndInv, TypeOK, SleepInv, ScanInv, BusyInv, HealthInv
  <1>3. FlagInv' /\ DueInv'
    BY <1>1 DEF IndInv, FlagInv, Ahead, DueInv
  <1>4. RssInv'
    BY <1>1, RssFrame
  <1>5. BatchInv' /\ RestInv' /\ OverdueInv' /\ StatusNotBehind'
    BY <1>1 DEF IndInv, BatchInv, Out, RestInv, Waited, OverdueInv, Due, StatusNotBehind
  <1>6. QED
    BY <1>2, <1>3, <1>4, <1>5 DEF IndInv

LEMMA InvStep == IndInv /\ [Next]_vars => IndInv'
  <1> SUFFICES ASSUME IndInv, [Next]_vars PROVE IndInv'
    OBVIOUS
  <1>1. ASSUME NEW t \in {"rss", "rest"}, ScanSkip(t) \/ ScanDue(t) \/ ScanEnd(t) PROVE IndInv'
    BY <1>1, ScanSkipStep, ScanDueStep, ScanEndStep DEF Scanners
  <1>2. ASSUME NEW i \in Sources, Claim(i) \/ FetchEnd(i) PROVE IndInv'
    BY <1>2, ClaimStep, FetchEndStep
  <1>3. CASE StorePending \/ BatchDone
    BY <1>3, StorePendingStep, BatchDoneStep
  <1>4. ASSUME NEW t \in Threads, SleepOver(t) \/ SleepForced(t) \/ Nap(t) PROVE IndInv'
    BY <1>4, SleepOverStep, SleepForcedStep, NapStep
  <1>5. CASE Tick
    BY <1>5, TickStep
  <1>6. CASE Request \/ Stop \/ Restart
    BY <1>6, RequestStep, StopStep, RestartStep
  <1>7. CASE UNCHANGED vars
    BY <1>7, Stuttering
  <1>8. QED
    BY <1>1, <1>2, <1>3, <1>4, <1>5, <1>6, <1>7 DEF Next, Step

(* IndInv holds in every reachable state.                                  *)
THEOREM Invariance == Spec => []IndInv
  BY InvInit, InvStep, PTL DEF Spec

(* Every variable of the scheduler keeps its type.                         *)
THEOREM Typing == Spec => []TypeOK
  <1>1. IndInv => TypeOK
    BY DEF IndInv
  <1>2. QED
    BY <1>1, Invariance, PTL

(* While the scheduler runs, a source that may be fetched waits no longer  *)
(* than one sleep and the fetches in its way: those of its list for a      *)
(* feed, those of two batches, job by job, for a REST source of any number *)
(* of sources and workers, unless its batch was overtaken by the workers.  *)
THEOREM NoSourceForgotten == Spec => []TriedInTime
  <1>1. IndInv => TriedInTime
    BY WaitBounded
  <1>2. QED
    BY <1>1, Invariance, PTL

(* The status table never shows fewer failures of a source with a name of  *)
(* its own than the scheduler counts.                                      *)
THEOREM StatusKeepsUp == Spec => []StatusNotBehind
  <1>1. IndInv => StatusNotBehind
    BY DEF IndInv
  <1>2. QED
    BY <1>1, Invariance, PTL

(* A source is taken for a fetch only when a scan finds it due.            *)
LEMMA FetchedWhenDue ==
  ASSUME IndInv, [Next]_vars, NEW i \in Sources, i \in Taken' \ Taken
  PROVE  \E t \in Scanners : ScanDue(t) /\ i = scan[t] /\ source_due(health[i], Interval[i], force_refresh)
  <1>1. PICK t \in Scanners : ScanDue(t)
    BY DEF Taken, Next, Step, vars, Scanners, ScanSkip, ScanEnd, StorePending, Claim, Begin, FetchEnd,
           BatchDone, SleepOver, SleepForced, WakeUp, Nap, Tick, Request, Stop, Restart, batchVars,
           fetchVars
  <1>2. i = scan[t] /\ source_due(health[scan[t]], Interval[scan[t]], force_refresh)
    BY <1>1 DEF ScanDue, Begin, Taken
  <1>3. QED
    BY <1>1, <1>2

(* A request makes each source be fetched at most once ahead of its        *)
(* interval.                                                               *)
THEOREM EarlyOnlyOnce == Spec => EarlyOnlyIfAsked
  <1> DEFINE Asked == \A i \in Sources :
                        i \in Taken' \ Taken =>
                          \/ ~health[i].tried
                          \/ health[i].age >= Interval[i]
                          \/ i \in wanted
  <1>1. IndInv /\ [Next]_vars => Asked
    <2> SUFFICES ASSUME IndInv, [Next]_vars, NEW i \in Sources, i \in Taken' \ Taken
                 PROVE  ~health[i].tried \/ health[i].age >= Interval[i] \/ i \in wanted
      OBVIOUS
    <2>1. PICK t \in Scanners : /\ pc[t] = "due" /\ i = scan[t]
                                /\ source_due(health[i], Interval[i], force_refresh)
      BY FetchedWhenDue DEF ScanDue
    <2>2. i \in Own(t) /\ i \in Nat
      BY <2>1, Lists, Sizes, Typed DEF IndInv, ScanInv, Own, Scanners
    <2>3. Ahead(t, i)
      BY <2>1, <2>2 DEF Ahead
    <2>4. CASE force_refresh
      BY <2>2, <2>3, <2>4 DEF IndInv, FlagInv
    <2>5. CASE ~force_refresh
      BY <2>1, <2>5, Zenon DEF source_due
    <2>6. QED
      BY <2>4, <2>5
  <1>2. QED
    BY <1>1, Invariance, PTL DEF Spec, EarlyOnlyIfAsked

(* A source that has failed n times in a row is left alone for 2^n seconds *)
(* or MaxBackoff, whichever is less, unless a refresh was asked for since. *)
THEOREM BackoffKept == Spec => BackoffRespected
  <1> DEFINE Kept == \A i \in Sources :
                       i \in Taken' \ Taken /\ health[i].failures > 0 =>
                         \/ health[i].age >= MinOf(Power[health[i].failures], MaxBackoff)
                         \/ i \in wanted
  <1>1. IndInv /\ [Next]_vars => Kept
    <2> SUFFICES ASSUME IndInv, [Next]_vars, NEW i \in Sources, i \in Taken' \ Taken,
                        health[i].failures > 0, i \notin wanted
                 PROVE  health[i].age >= MinOf(Power[health[i].failures], MaxBackoff)
      OBVIOUS
    <2>1. PICK t \in Scanners : pc[t] = "due" /\ i = scan[t]
      BY FetchedWhenDue DEF ScanDue
    <2>2. ~should_skip_source(health[i], FALSE)
      BY <2>1 DEF IndInv, DueInv
    <2>3. /\ health[i].failures \in Nat \ {0} /\ health[i].age \in Nat /\ health[i].backoff \in Nat
      BY Typed DEF IndInv
    <2>4. health[i].age >= health[i].backoff
      BY <2>2, <2>3 DEF should_skip_source
    <2>5. health[i].backoff = MinOf(Doubled[health[i].failures], MaxBackoff)
      BY DEF IndInv, HealthInv
    <2>6. QED
      BY <2>3, <2>4, <2>5, BackoffIsPower
  <1>2. QED
    BY <1>1, Invariance, PTL DEF Spec, BackoffRespected
=============================================================================
