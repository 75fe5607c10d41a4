---------------------------- MODULE FetchSchedule ----------------------------
(***************************************************************************)
(* When sources are fetched (backend/src/scheduler.c): the RSS thread, the *)
(* REST dispatcher and the prune thread with their interruptible sleeps,   *)
(* the shared flag force_refresh, the health of every source (failures,    *)
(* backoff, last attempt) and its row in source_status.                    *)
(*                                                                         *)
(* Time goes in seconds.  last_attempt is kept as an age that stops at     *)
(* AgeCap.  The jobs of a REST batch wait in the queue until one of the    *)
(* workers claims them, and the dispatcher waits until rest_pending has    *)
(* come down: which it never does after the race of MCRestPoolStuck.  How  *)
(* the workers sleep and are woken is RestPool's subject, the snapshot     *)
(* Snapshot's.  Writing a row of source_status succeeds.                   *)
(***************************************************************************)
EXTENDS Integers, FiniteSets

CONSTANTS
  RssCount, RestCount,   \* sources 1..RssCount are feeds, the next RestCount REST
  NameOf,                \* the name of each source, the key of its status row
  WorkerCount,           \* workers that run: REST_WORKER_COUNT, or what could be started
  Interval,              \* refresh_interval_sec of each source
  CheckSec,              \* the 5 seconds between two scans
  PruneSec,              \* PRUNE_INTERVAL_SEC
  MaxBackoff,            \* MAX_BACKOFF_SEC
  MaxFailures,           \* bound: failures in a row of each source
  FetchMax,              \* bound: seconds a fetch takes (curl's timeout)
  MaxRestarts,           \* bound: restarts and crashes of the daemon
  AgeCap,                \* bound: ages are not told apart from here on,
                         \* above every interval and MaxBackoff
  AskCap                 \* bound: nor the age of a refresh request

Rss == 1..RssCount
Rest == (RssCount + 1)..(RssCount + RestCount)
Sources == Rss \cup Rest
Names == {NameOf[i] : i \in Sources}
Threads == {"rss", "rest", "prune"}

ASSUME ScheduleAssumption ==
  /\ RssCount \in Nat /\ RestCount \in Nat /\ WorkerCount \in Nat \ {0}
  /\ Interval \in [Sources -> Nat] /\ MaxFailures \in [Sources -> Nat]
  /\ DOMAIN NameOf = Sources
  /\ {CheckSec, PruneSec, MaxBackoff} \subseteq Nat \ {0, 1}
  /\ {FetchMax, MaxRestarts, AgeCap, AskCap} \subseteq Nat
  /\ AgeCap >= MaxBackoff /\ \A i \in Sources : AgeCap >= Interval[i]

VARIABLES
  running,        \* sched->running
  force_refresh,  \* sched->force_refresh
  pc,             \* where each thread is
  scan,           \* the source a scanning thread has come to
  slept,          \* s, the seconds slept by sleep_interruptible
  napping,        \* the thread is inside sleep(1)
  health,         \* source_health_t of each source
  error_count,    \* of each row in source_status
  queued,         \* rest_queue from next to count, claimed from the first on
  batch_size,     \* the dispatcher's local, until it is stored
  rest_pending,   \* the jobs of the batch that are not done
  busy,           \* the sources being fetched
  spent,          \* seconds since the fetch began
  overdue,        \* history: seconds a source has been due and not fetched, as
                  \* far as they are told apart
  wanted,         \* history: sources not fetched since the last refresh request
  asked,          \* history: the age of that request, while sources are wanted
  overtaken,      \* history: rest_pending was stored after jobs of its batch were done
  restarts

threadVars == <<pc, scan, slept, napping>>
batchVars == <<queued, batch_size, rest_pending, overtaken>>
fetchVars == <<busy, spent, overdue>>
vars == <<running, force_refresh, pc, scan, slept, napping, health, error_count,
          queued, batch_size, rest_pending, busy, spent, overdue, wanted, asked,
          overtaken, restarts>>

MinOf(a, b) == IF a <= b THEN a ELSE b

FirstOf(t) == IF t = "rest" THEN RssCount + 1 ELSE 1
LastOf(t) == IF t = "rss" THEN RssCount ELSE RssCount + RestCount
ThreadOf(i) == IF i \in Rss THEN "rss" ELSE "rest"
SleepSec(t) == IF t = "prune" THEN PruneSec ELSE CheckSec

Fresh == [failures |-> 0, backoff |-> 0, age |-> 0, tried |-> FALSE]

PcStart == [t \in Threads |-> IF t = "prune" THEN "sleep" ELSE "skip"]
Zero(S) == [x \in S |-> 0]

Init ==
  /\ running = TRUE
  /\ force_refresh = FALSE
  /\ pc = PcStart
  /\ scan = [t \in Threads |-> FirstOf(t)]
  /\ slept = Zero(Threads)
  /\ napping = [t \in Threads |-> FALSE]
  /\ health = [i \in Sources |-> Fresh]
  /\ error_count = Zero(Names)
  /\ queued = {}
  /\ batch_size = 0
  /\ rest_pending = 0
  /\ overtaken = FALSE
  /\ busy = {}
  /\ spent = Zero(Sources)
  /\ overdue = Zero(Sources)
  /\ wanted = {}
  /\ asked = 0
  /\ restarts = 0

TGoto(t, l) == pc' = [pc EXCEPT ![t] = l]

(* How often the workers together go through a full batch, one job each.   *)
Rounds == (RestCount + WorkerCount - 1) \div WorkerCount

(* How long a source that may be fetched can be left waiting: the sleep of *)
(* its thread, the fetches in its way and one second of rounding.  A REST  *)
(* source may have missed one batch and come last in the next.             *)
Slack(i) ==
  CheckSec + 1 + FetchMax * (IF i \in Rss THEN RssCount ELSE 2 * Rounds - 1)

-----------------------------------------------------------------------------
(* The health of a source.                                                 *)

(* The loop of record_failure: doubled once per failure after the first,   *)
(* while below the cap.                                                    *)
Doubled[n \in Nat] ==
  IF n <= 1 THEN 2
  ELSE IF Doubled[n - 1] < MaxBackoff THEN 2 * Doubled[n - 1] ELSE Doubled[n - 1]

record_success(h) == [failures |-> 0, backoff |-> 0, age |-> 0, tried |-> TRUE]

(* Slip: the backoff is never doubled.                                     *)
SlipNoDoubling(h) ==
  [failures |-> h.failures + 1, backoff |-> 2, age |-> 0, tried |-> TRUE]

record_failure(h) ==
  [failures |-> h.failures + 1,
   backoff  |-> MinOf(Doubled[h.failures + 1], MaxBackoff),
   age |-> 0, tried |-> TRUE]

record_empty(h) ==
  [failures |-> h.failures, backoff |-> h.backoff, age |-> 0, tried |-> TRUE]

should_skip_source(h, force) ==
  ~force /\ h.failures # 0 /\ h.age < h.backoff

source_due(h, interval, force) == force \/ ~h.tried \/ h.age >= interval

(* A scan would fetch the source, refresh or not.                          *)
Due(i) == /\ ~should_skip_source(health[i], FALSE)
          /\ source_due(health[i], Interval[i], FALSE)

-----------------------------------------------------------------------------
(* The scan of a thread's sources: rss_thread_func, rest_dispatch_func.    *)

Scanning(t) ==
  /\ scan[t] <= LastOf(t)
  /\ t = "rss" => running

(* force_refresh is read twice for a source, here and for source_due.      *)
ScanSkip(t) ==
  /\ pc[t] = "skip" /\ Scanning(t)
  /\ IF should_skip_source(health[scan[t]], force_refresh)
     THEN scan' = [scan EXCEPT ![t] = @ + 1] /\ UNCHANGED pc
     ELSE TGoto(t, "due") /\ UNCHANGED scan
  /\ UNCHANGED <<running, force_refresh, slept, napping, health, error_count,
                 batchVars, fetchVars, wanted, asked, restarts>>

(* The fetch of a source begins.                                           *)
Begin(i) ==
  /\ busy' = busy \cup {i}
  /\ wanted' = wanted \ {i}
  /\ overdue' = [overdue EXCEPT ![i] = 0]

(* A source that is not due is passed by; one that is due is fetched at    *)
(* once by the RSS thread, and queued by the dispatcher.                   *)
ScanDue(t) ==
  /\ pc[t] = "due"
  /\ LET i == scan[t]
         due == source_due(health[i], Interval[i], force_refresh)
     IN  \/ /\ due /\ t = "rss"
            /\ Begin(i)
            /\ TGoto(t, "fetch")
            /\ UNCHANGED <<scan, queued>>
         \/ /\ ~(due /\ t = "rss")
            /\ queued' = IF due THEN queued \cup {i} ELSE queued
            /\ TGoto(t, "skip") /\ scan' = [scan EXCEPT ![t] = @ + 1]
            /\ UNCHANGED <<busy, wanted, overdue>>
  /\ UNCHANGED <<running, force_refresh, slept, napping, health, error_count,
                 batch_size, rest_pending, overtaken, spent, asked, restarts>>

(* The dispatcher counts its jobs and unlocks the queue; without a job it  *)
(* has nothing to wait for.                                                *)
ScanEnd(t) ==
  /\ pc[t] = "skip" /\ ~Scanning(t)
  /\ \/ /\ t = "rss"
        /\ TGoto(t, "sleep")
        /\ UNCHANGED batch_size
     \/ /\ t = "rest"
        /\ batch_size' = Cardinality(queued)
        /\ TGoto(t, IF queued = {} THEN "clear" ELSE "count")
  /\ UNCHANGED <<running, force_refresh, scan, slept, napping, health, error_count,
                 queued, rest_pending, overtaken, fetchVars, wanted, asked,
                 restarts>>

(* rest_pending is stored after the queue has been unlocked: what workers  *)
(* that were quicker have counted off it is lost.                          *)
StorePending ==
  /\ pc["rest"] = "count"
  /\ rest_pending' = batch_size
  /\ overtaken' = (rest_pending < 0)
  /\ batch_size' = 0
  /\ TGoto("rest", "batch")
  /\ UNCHANGED <<running, force_refresh, scan, slept, napping, health, error_count,
                 queued, fetchVars, wanted, asked, restarts>>

(* Slip: a claim takes the next job and the one after it off the queue.    *)
SlipSkipOne(i) ==
  /\ running
  /\ pc["rest"] \notin {"skip", "due"}
  /\ i \in queued /\ \A j \in queued : i <= j
  /\ Cardinality(busy \cap Rest) < WorkerCount
  /\ queued' = queued \ {i, i + 1}
  /\ Begin(i)
  /\ UNCHANGED <<running, force_refresh, threadVars, health, error_count,
                 batch_size, rest_pending, overtaken, spent, asked, restarts>>

(* A worker that has nothing to do claims the next job of an unlocked      *)
(* queue, unless the scheduler has been stopped.                           *)
Claim(i) ==
  /\ running
  /\ pc["rest"] \notin {"skip", "due"}
  /\ i \in queued /\ \A j \in queued : i <= j
  /\ Cardinality(busy \cap Rest) < WorkerCount
  /\ queued' = queued \ {i}
  /\ Begin(i)
  /\ UNCHANGED <<running, force_refresh, threadVars, health, error_count,
                 batch_size, rest_pending, overtaken, spent, asked, restarts>>

(* Slip: an empty answer is written to the status table as a success.      *)
SlipEmptyClearsStatus(i) ==
  /\ i \in busy
  /\ pc[ThreadOf(i)] \notin {"skip", "due"}
  /\ \/ /\ \E h \in {record_success(health[i]), record_empty(health[i])} :
             health' = [health EXCEPT ![i] = h]
        /\ error_count' = [error_count EXCEPT ![NameOf[i]] = 0]
     \/ /\ health[i].failures < MaxFailures[i]
        /\ health' = [health EXCEPT ![i] = record_failure(@)]
        /\ error_count' = [error_count EXCEPT ![NameOf[i]] = @ + 1]
  /\ busy' = busy \ {i}
  /\ spent' = [spent EXCEPT ![i] = 0]
  /\ \/ /\ i \in Rss
        /\ TGoto("rss", "skip") /\ scan' = [scan EXCEPT !["rss"] = @ + 1]
        /\ UNCHANGED rest_pending
     \/ /\ i \in Rest
        /\ rest_pending' = rest_pending - 1
        /\ UNCHANGED <<pc, scan>>
  /\ UNCHANGED <<running, force_refresh, slept, napping, queued, batch_size, overtaken,
                 overdue, wanted, asked, restarts>>

(* A fetch ends: rows, no rows, an error, or (for a calendar) no memory    *)
(* for the answer.  The status row is written, then the health; a worker   *)
(* counts its job off the batch.                                           *)
FetchEnd(i) ==
  /\ i \in busy
  /\ pc[ThreadOf(i)] \notin {"skip", "due"}
  /\ \/ /\ health' = [health EXCEPT ![i] = record_success(@)]
        /\ error_count' = [error_count EXCEPT ![NameOf[i]] = 0]
     \/ /\ health' = [health EXCEPT ![i] = record_empty(@)]
        /\ UNCHANGED error_count
     \/ /\ health[i].failures < MaxFailures[i]
        /\ health' = [health EXCEPT ![i] = record_failure(@)]
        /\ error_count' = [error_count EXCEPT ![NameOf[i]] = @ + 1]
     \/ /\ i \in Rest
        /\ UNCHANGED <<health, error_count>>
  /\ busy' = busy \ {i}
  /\ spent' = [spent EXCEPT ![i] = 0]
  /\ \/ /\ i \in Rss
        /\ TGoto("rss", "skip") /\ scan' = [scan EXCEPT !["rss"] = @ + 1]
        /\ UNCHANGED rest_pending
     \/ /\ i \in Rest
        /\ rest_pending' = rest_pending - 1
        /\ UNCHANGED <<pc, scan>>
  /\ UNCHANGED <<running, force_refresh, slept, napping, queued, batch_size, overtaken,
                 overdue, wanted, asked, restarts>>

(* The dispatcher's wait for the batch, if there is one, and the store     *)
(* force_refresh = 0 that follows.                                         *)
BatchDone ==
  /\ \/ pc["rest"] = "clear"
     \/ pc["rest"] = "batch" /\ (rest_pending <= 0 \/ ~running)
  /\ force_refresh' = FALSE
  /\ TGoto("rest", "sleep")
  /\ UNCHANGED <<running, scan, slept, napping, health, error_count, batchVars,
                 fetchVars, wanted, asked, restarts>>

-----------------------------------------------------------------------------
(* sleep_interruptible, and the loop each thread is back in after it: the  *)
(* prune thread prunes and sleeps again, the others scan, the dispatcher   *)
(* from an empty queue on.                                                 *)

Awake(t) == pc[t] = "sleep" /\ ~napping[t]

WakeUp(t) ==
  /\ TGoto(t, IF ~running THEN "exited" ELSE IF t = "prune" THEN "sleep" ELSE "skip")
  /\ slept' = [slept EXCEPT ![t] = 0]
  /\ scan' = [scan EXCEPT ![t] = FirstOf(t)]
  /\ queued' = IF t = "rest" /\ running THEN {} ELSE queued
  /\ UNCHANGED <<running, napping, health, error_count, batch_size, rest_pending,
                 overtaken, fetchVars, wanted, asked, restarts>>

SleepOver(t) ==
  /\ Awake(t)
  /\ slept[t] >= SleepSec(t) \/ ~running
  /\ WakeUp(t)
  /\ UNCHANGED force_refresh

(* Slip: the sleeper leaves the flag to the others.                        *)
SlipFlagKept(t) ==
  /\ Awake(t)
  /\ slept[t] < SleepSec(t) /\ running
  /\ force_refresh
  /\ WakeUp(t)
  /\ UNCHANGED force_refresh

(* Whichever sleeper sees the flag first clears it.                        *)
SleepForced(t) ==
  /\ Awake(t)
  /\ slept[t] < SleepSec(t) /\ running
  /\ force_refresh
  /\ force_refresh' = FALSE
  /\ WakeUp(t)

(* Slip: s <= seconds in the loop.                                         *)
SlipNapOnceMore(t) ==
  /\ Awake(t)
  /\ slept[t] <= SleepSec(t) /\ running
  /\ ~force_refresh
  /\ napping' = [napping EXCEPT ![t] = TRUE]
  /\ UNCHANGED <<running, force_refresh, pc, scan, slept, health, error_count,
                 batchVars, fetchVars, wanted, asked, restarts>>

Nap(t) ==
  /\ Awake(t)
  /\ slept[t] < SleepSec(t) /\ running
  /\ ~force_refresh
  /\ napping' = [napping EXCEPT ![t] = TRUE]
  /\ UNCHANGED <<running, force_refresh, pc, scan, slept, health, error_count,
                 batchVars, fetchVars, wanted, asked, restarts>>

-----------------------------------------------------------------------------
(* The clock, the clients and the end.                                     *)

(* A thread that is neither asleep nor waiting for a fetch runs before the *)
(* next second, and a worker without a job claims one; a fetch takes up to *)
(* FetchMax seconds.                                                       *)
Tick ==
  /\ \A t \in Threads :
       \/ pc[t] = "exited"
       \/ pc[t] = "sleep" /\ napping[t]
       \/ pc[t] = "fetch"
       \/ pc[t] = "batch" /\ running /\ rest_pending > 0
  /\ running => queued = {} \/ Cardinality(busy \cap Rest) = WorkerCount
  /\ \A i \in busy : spent[i] < FetchMax
  /\ napping' = [t \in Threads |-> FALSE]
  /\ slept' = [t \in Threads |-> IF napping[t] THEN slept[t] + 1 ELSE slept[t]]
  /\ health' = [i \in Sources |->
       [health[i] EXCEPT !.age = IF health[i].tried THEN MinOf(@ + 1, AgeCap) ELSE 0]]
  /\ spent' = [i \in Sources |-> IF i \in busy THEN spent[i] + 1 ELSE 0]
  /\ overdue' = [i \in Sources |->
       IF running /\ i \notin busy /\ Due(i)
       THEN MinOf(overdue[i] + 1, Slack(i) + 1) ELSE 0]
  /\ asked' = IF wanted = {} THEN 0 ELSE MinOf(asked + 1, AskCap)
  /\ UNCHANGED <<running, force_refresh, pc, scan, error_count, batchVars, busy,
                 wanted, restarts>>

(* mc_scheduler_force_refresh, from POST /api/v1/refresh or the socket.    *)
Request ==
  /\ running
  /\ force_refresh' = TRUE
  /\ wanted' = Sources
  /\ asked' = 0
  /\ UNCHANGED <<running, threadVars, health, error_count, batchVars, fetchVars,
                 restarts>>

Stop ==
  /\ running
  /\ restarts < MaxRestarts
  /\ running' = FALSE
  /\ UNCHANGED <<force_refresh, threadVars, health, error_count, batchVars,
                 fetchVars, wanted, asked, restarts>>

(* The daemon is killed at any moment, or its threads have ended, and it   *)
(* is started again: the scheduler is all zeros, the database is as it was.*)
Restart ==
  /\ restarts < MaxRestarts
  /\ restarts' = restarts + 1
  /\ running' = TRUE
  /\ force_refresh' = FALSE
  /\ pc' = PcStart
  /\ scan' = [t \in Threads |-> FirstOf(t)]
  /\ slept' = Zero(Threads)
  /\ napping' = [t \in Threads |-> FALSE]
  /\ health' = [i \in Sources |-> Fresh]
  /\ queued' = {}
  /\ batch_size' = 0
  /\ rest_pending' = 0
  /\ overtaken' = FALSE
  /\ busy' = {}
  /\ spent' = Zero(Sources)
  /\ overdue' = Zero(Sources)
  /\ wanted' = {}
  /\ asked' = 0
  /\ UNCHANGED error_count

Step ==
  \/ \E t \in {"rss", "rest"} :
       ScanSkip(t) \/ ScanDue(t) \/ ScanEnd(t)
  \/ StorePending \/ BatchDone
  \/ \E i \in Sources : Claim(i) \/ FetchEnd(i)
  \/ \E t \in Threads : SleepOver(t) \/ SleepForced(t) \/ Nap(t)
  \/ Tick

Next == Step \/ Request \/ Stop \/ Restart

Spec == Init /\ [][Next]_vars

-----------------------------------------------------------------------------
(* Properties.                                                             *)

(* The type invariant.                                                     *)
TypeOK ==
  /\ running \in BOOLEAN
  /\ force_refresh \in BOOLEAN
  /\ pc \in [Threads -> {"skip", "due", "fetch", "count", "batch", "clear",
                       "sleep", "exited"}]
  /\ scan \in [Threads -> 0..(RssCount + RestCount + 1)]
  /\ \A t \in Threads : slept[t] \in 0..SleepSec(t)
  /\ napping \in [Threads -> BOOLEAN]
  /\ health \in [Sources -> [failures : Nat, backoff : Nat, age : 0..AgeCap,
                             tried : BOOLEAN]]
  /\ error_count \in [Names -> Nat]
  /\ queued \subseteq Rest
  /\ batch_size \in 0..RestCount
  /\ rest_pending \in -RestCount..RestCount
  /\ busy \subseteq Sources
  /\ spent \in [Sources -> 0..FetchMax]
  /\ overdue \in [Sources -> Nat]
  /\ wanted \subseteq Sources
  /\ asked \in 0..AskCap
  /\ overtaken \in BOOLEAN
  /\ restarts \in 0..MaxRestarts

(* No source is forgotten: while the scheduler runs, a source that is past *)
(* its interval and its backoff is fetched within the slack of its thread, *)
(* whatever the other sources, the failures, the refresh requests and the  *)
(* restarts do, and whatever jobs are before it in the queue.  The one     *)
(* exception are the REST sources once a batch has been overtaken by its   *)
(* workers: it never ends, and they are not fetched again.                 *)
TriedInTime ==
  running => \A i \in Sources : overdue[i] <= Slack(i) \/ (i \in Rest /\ overtaken)

(* The sources that a scan has found due and whose fetch is not over.      *)
Taken == queued \cup busy

(* A source is taken ahead of its interval only if somebody asked for a    *)
(* refresh after it was last fetched: one request never makes the threads  *)
(* fetch a source twice, however the flag is read and cleared.             *)
EarlyOnlyIfAsked ==
  [][\A i \in Sources :
       i \in Taken' \ Taken =>
         \/ ~health[i].tried
         \/ health[i].age >= Interval[i]
         \/ i \in wanted]_vars

(* The powers of two.                                                      *)
Power[n \in Nat] == IF n = 0 THEN 1 ELSE 2 * Power[n - 1]

(* A failing source is left alone for 2, 4, 8, ... MaxBackoff seconds      *)
(* after the attempt, unless somebody asked for a refresh.                 *)
BackoffRespected ==
  [][\A i \in Sources :
       i \in Taken' \ Taken /\ health[i].failures > 0 =>
         \/ health[i].age >= MinOf(Power[health[i].failures], MaxBackoff)
         \/ i \in wanted]_vars

(* The failures a client sees in the status table are those the scheduler  *)
(* counts, and never less after a restart, which forgets the latter.  This *)
(* needs a name no other source has.                                       *)
StatusNotBehind ==
  \A i \in Sources :
    (\A j \in Sources \ {i} : NameOf[j] # NameOf[i]) =>
      /\ health[i].failures <= error_count[NameOf[i]]
      /\ restarts = 0 => health[i].failures = error_count[NameOf[i]]

(* "POST /api/v1/refresh: Force immediate re-fetch": every source that is  *)
(* not kept out by an overtaken batch is fetched again within the slack of *)
(* its thread.                                                             *)
RefreshRefetches ==
  running => \A i \in wanted : asked <= Slack(i) \/ (i \in Rest /\ overtaken)
=============================================================================
