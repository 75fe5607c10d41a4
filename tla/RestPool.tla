------------------------------- MODULE RestPool -------------------------------
(***************************************************************************)
(* The REST fetch pool of the scheduler (backend/src/scheduler.c): the     *)
(* dispatcher thread, the worker threads, the job queue with its mutex and *)
(* condition variable, the counter of pending jobs, and mc_scheduler_stop  *)
(* as far as it concerns them.                                             *)
(*                                                                         *)
(* A step is what a thread does between two operations other threads can   *)
(* see.  rest_queue.mutex is a variable, because the dispatcher holds it   *)
(* over a loop and a worker over a test and a wait; every critical section *)
(* of rest_done_mutex is one step.  `running' is written with no mutex     *)
(* held, so its read and the wait that follows are separate steps.  Which  *)
(* sources are due is a free choice here (FetchSchedule has the clock),    *)
(* and update_snapshot is a step with no effect on this state (module      *)
(* Snapshot has the effect).                                               *)
(***************************************************************************)
EXTENDS Integers, FiniteSets, Sequences

CONSTANTS
  Workers,       \* the worker threads that were created (rest_worker_count)
  RestCount,     \* cfg->rest_count: sources are numbered 1..RestCount
  MallocFails,   \* workers whose entries buffer may fail to be allocated
  MaxFailures    \* bound: a source fails at most this often in a row

ASSUME WorkersAssumption == IsFiniteSet(Workers)
ASSUME CountAssumption == RestCount \in Nat
ASSUME BoundAssumption == MaxFailures \in Nat
ASSUME MallocAssumption == MallocFails \subseteq Workers

NoJob == 0
Nobody == "nobody"
Dispatcher == "dispatcher"
ASSUME ThreadsAssumption == Nobody \notin Workers /\ Dispatcher \notin Workers

Sources == 1..RestCount

VARIABLES
  running,        \* sched->running
  indices,        \* rest_queue.indices[0..count-1]
  next,           \* rest_queue.next
  queueMutex,     \* owner of rest_queue.mutex
  ready,          \* workers asleep in pthread_cond_wait(&rest_queue.ready)
  rest_pending,   \* sched->rest_pending
  wpc,            \* where each worker is
  job,            \* the idx a worker has claimed
  outcome,        \* what the fetch of that job returned
  dpc,            \* where the dispatcher is
  scan,           \* the loop variable i of the batch building loop
  batch_size,     \* the dispatcher's local
  failures,       \* rest_health[i].consecutive_failures
  error_count,    \* error_count of the source's row in source_status; the
                  \* sources have names of their own (FetchSchedule: if not)
  spc             \* where mc_scheduler_stop is

workerVars == <<wpc, job, outcome>>
dispatchVars == <<dpc, scan, batch_size>>
queueVars == <<indices, next>>
healthVars == <<failures, error_count>>
vars == <<running, indices, next, queueMutex, ready, rest_pending,
          wpc, job, outcome, dpc, scan, batch_size, failures, error_count, spc>>

WorkerPc == {"start", "top", "lock", "check", "sleep", "waiting", "claim",
             "fetch", "status", "record", "finish", "exited"}
DispatchPc == {"top", "lock", "scan", "set", "broadcast", "check", "waiting",
               "publish", "sleep", "bye", "exited"}
StopPc == {"idle", "broadcast", "signal", "joinDispatcher", "joinWorkers",
           "stopped"}
Outcomes == {"rows", "none", "error", "nomem"}

(* A worker that has claimed a job and not yet counted it as finished.     *)
BusyPc == {"fetch", "status", "record", "finish"}
Busy == {w \in Workers : wpc[w] \in BusyPc}

(* The jobs of the batch that are not finished: unclaimed, or in the hands *)
(* of a worker.                                                            *)
Unfinished == (Len(indices) - next) + Cardinality(Busy)

Init ==
  /\ running = TRUE
  /\ indices = <<>>
  /\ next = 0
  /\ queueMutex = Nobody
  /\ ready = {}
  /\ rest_pending = 0
  /\ wpc = [w \in Workers |-> "start"]
  /\ job = [w \in Workers |-> NoJob]
  /\ outcome = [w \in Workers |-> "none"]
  /\ dpc = "top"
  /\ scan = 1
  /\ batch_size = 0
  /\ failures = [i \in Sources |-> 0]
  /\ error_count = [i \in Sources |-> 0]
  /\ spc = "idle"

-----------------------------------------------------------------------------
(* Slips.  Each of these is a step with one plausible mistake in it, kept  *)
(* to show that the properties below notice; no step uses them.            *)

(* The wait returns and the worker claims without testing again.           *)
SlipWakeNoRetest(w) ==
  /\ wpc[w] = "waiting"
  /\ w \notin ready
  /\ queueMutex = Nobody
  /\ queueMutex' = w
  /\ wpc' = [wpc EXCEPT ![w] = "claim"]
  /\ UNCHANGED <<running, queueVars, ready, rest_pending, job, outcome,
                 dispatchVars, healthVars, spc>>

(* The wait loop forgets `running'.                                        *)
SlipCheckNoRunning(w) ==
  /\ wpc[w] = "check"
  /\ wpc' = [wpc EXCEPT ![w] = IF next >= Len(indices) THEN "sleep" ELSE "claim"]
  /\ UNCHANGED <<running, queueVars, queueMutex, ready, rest_pending, job,
                 outcome, dispatchVars, healthVars, spc>>

(* The claim reads the job but does not advance `next' at once.            *)
SlipClaimNoAdvance(w) ==
  /\ wpc[w] = "claim"
  /\ running
  /\ job' = [job EXCEPT ![w] = indices[next + 1]]
  /\ next' \in {next, next + 1}
  /\ queueMutex' = Nobody
  /\ wpc' = [wpc EXCEPT ![w] = "fetch"]
  /\ UNCHANGED <<running, indices, ready, rest_pending, outcome,
                 dispatchVars, healthVars, spc>>

(* An empty answer is recorded as a success, with no status row.           *)
SlipFetchRecordsEmpty(w) ==
  /\ wpc[w] = "fetch"
  /\ \E n \in Outcomes :
       /\ n = "error" => failures[job[w]] < MaxFailures
       /\ outcome' = [outcome EXCEPT ![w] = n]
       /\ wpc' = [wpc EXCEPT ![w] = CASE n \in {"rows", "error"} -> "status"
                                    [] n = "none"  -> "record"
                                    [] n = "nomem" -> "finish"]
  /\ UNCHANGED <<running, queueVars, queueMutex, ready, rest_pending, job,
                 dispatchVars, healthVars, spc>>

(* The batch loop runs to i <= rest_count.                                 *)
SlipScanTooFar ==
  /\ dpc = "scan"
  /\ scan \in 1..(RestCount + 1)
  /\ indices' \in {indices, Append(indices, scan)}
  /\ scan' = scan + 1
  /\ UNCHANGED <<running, next, queueMutex, ready, rest_pending, workerVars,
                 dpc, batch_size, healthVars, spc>>

(* One worker is signalled instead of all, ...                             *)
SlipSignalOne ==
  /\ dpc = "broadcast"
  /\ queueMutex = Nobody
  /\ ready' \in {ready \ {w} : w \in ready} \cup (IF ready = {} THEN {{}} ELSE {})
  /\ dpc' = "check"
  /\ UNCHANGED <<running, queueVars, queueMutex, rest_pending, workerVars,
                 scan, batch_size, healthVars, spc>>

(* ... or none.                                                            *)
SlipNoBroadcast ==
  /\ dpc = "broadcast"
  /\ dpc' = "check"
  /\ UNCHANGED <<running, queueVars, queueMutex, ready, rest_pending,
                 workerVars, scan, batch_size, healthVars, spc>>

(* The dispatcher waits for the last claim instead of the last finish.     *)
SlipCheckClaimed ==
  /\ dpc = "check"
  /\ dpc' = IF next < Len(indices) /\ running THEN "waiting" ELSE "publish"
  /\ UNCHANGED <<running, queueVars, queueMutex, ready, rest_pending,
                 workerVars, scan, batch_size, healthVars, spc>>

(* The timeout of the wait is taken for the end of the batch.              *)
SlipTimeoutEndsBatch ==
  /\ dpc = "waiting"
  /\ dpc' = "publish"
  /\ UNCHANGED <<running, queueVars, queueMutex, ready, rest_pending,
                 workerVars, scan, batch_size, healthVars, spc>>

(* mc_scheduler_stop broadcasts without taking the mutex.                  *)
SlipStopNoMutex ==
  /\ spc = "broadcast"
  /\ ready' = {}
  /\ spc' = "signal"
  /\ UNCHANGED <<running, queueVars, queueMutex, rest_pending, workerVars,
                 dispatchVars, healthVars>>

-----------------------------------------------------------------------------
(* Worker threads: rest_worker_func.                                       *)

WGoto(w, l) == wpc' = [wpc EXCEPT ![w] = l]

(* The entries buffer is allocated, or the thread returns at once.         *)
WorkerStart(w) ==
  /\ wpc[w] = "start"
  /\ \/ WGoto(w, "top")
     \/ w \in MallocFails /\ WGoto(w, "exited")
  /\ UNCHANGED <<running, queueVars, queueMutex, ready, rest_pending, job,
                 outcome, dispatchVars, healthVars, spc>>

(* while (sched->running)                                                  *)
WorkerLoop(w) ==
  /\ wpc[w] = "top"
  /\ WGoto(w, IF running THEN "lock" ELSE "exited")
  /\ UNCHANGED <<running, queueVars, queueMutex, ready, rest_pending, job,
                 outcome, dispatchVars, healthVars, spc>>

WorkerLock(w) ==
  /\ wpc[w] = "lock"
  /\ queueMutex = Nobody
  /\ queueMutex' = w
  /\ WGoto(w, "check")
  /\ UNCHANGED <<running, queueVars, ready, rest_pending, job, outcome,
                 dispatchVars, healthVars, spc>>

(* The predicate of the wait loop: nothing to claim, and still running.    *)
WorkerCheck(w) ==
  /\ wpc[w] = "check"
  /\ WGoto(w, IF next >= Len(indices) /\ running THEN "sleep" ELSE "claim")
  /\ UNCHANGED <<running, queueVars, queueMutex, ready, rest_pending, job,
                 outcome, dispatchVars, healthVars, spc>>

(* pthread_cond_wait releases the mutex and joins the wait set at once.    *)
WorkerSleep(w) ==
  /\ wpc[w] = "sleep"
  /\ queueMutex' = Nobody
  /\ ready' = ready \cup {w}
  /\ WGoto(w, "waiting")
  /\ UNCHANGED <<running, queueVars, rest_pending, job, outcome,
                 dispatchVars, healthVars, spc>>

(* Woken, the worker takes the mutex again before the wait returns.        *)
WorkerWake(w) ==
  /\ wpc[w] = "waiting"
  /\ w \notin ready
  /\ queueMutex = Nobody
  /\ queueMutex' = w
  /\ WGoto(w, "check")
  /\ UNCHANGED <<running, queueVars, ready, rest_pending, job, outcome,
                 dispatchVars, healthVars, spc>>

(* POSIX lets a condition wait end with no signal.                         *)
SpuriousWake(w) ==
  /\ w \in ready
  /\ ready' = ready \ {w}
  /\ UNCHANGED <<running, queueVars, queueMutex, rest_pending, workerVars,
                 dispatchVars, healthVars, spc>>

WorkerQuit(w) ==
  /\ wpc[w] = "claim"
  /\ ~running
  /\ queueMutex' = Nobody
  /\ WGoto(w, "exited")
  /\ UNCHANGED <<running, queueVars, ready, rest_pending, job, outcome,
                 dispatchVars, healthVars, spc>>

(* int idx = indices[next++]: the array is read at next whatever count is. *)
WorkerClaim(w) ==
  /\ wpc[w] = "claim"
  /\ running
  /\ job' = [job EXCEPT ![w] = indices[next + 1]]
  /\ next' = next + 1
  /\ queueMutex' = Nobody
  /\ WGoto(w, "fetch")
  /\ UNCHANGED <<running, indices, ready, rest_pending, outcome,
                 dispatchVars, healthVars, spc>>

(* mc_fetch_rest or mc_fetch_rest_calendar returns a positive number, zero *)
(* or a negative one; a calendar source's buffer may fail to be allocated. *)
WorkerFetch(w) ==
  /\ wpc[w] = "fetch"
  /\ \E n \in Outcomes :
       /\ n = "error" => failures[job[w]] < MaxFailures
       /\ outcome' = [outcome EXCEPT ![w] = n]
       /\ WGoto(w, IF n \in {"rows", "error"} THEN "status" ELSE "finish")
  /\ UNCHANGED <<running, queueVars, queueMutex, ready, rest_pending, job,
                 dispatchVars, healthVars, spc>>

(* mc_db_update_source_status, its own critical section of the database.   *)
WorkerStatus(w) ==
  /\ wpc[w] = "status"
  /\ error_count' = [error_count EXCEPT ![job[w]] =
                       IF outcome[w] = "error" THEN @ + 1 ELSE 0]
  /\ WGoto(w, "record")
  /\ UNCHANGED <<running, queueVars, queueMutex, ready, rest_pending, job,
                 outcome, dispatchVars, failures, spc>>

(* record_success or record_failure; no mutex protects rest_health.        *)
WorkerRecord(w) ==
  /\ wpc[w] = "record"
  /\ failures' = [failures EXCEPT ![job[w]] =
                    IF outcome[w] = "error" THEN @ + 1 ELSE 0]
  /\ WGoto(w, "finish")
  /\ UNCHANGED <<running, queueVars, queueMutex, ready, rest_pending, job,
                 outcome, dispatchVars, error_count, spc>>

(* The critical section of rest_done_mutex: count the job, and signal the  *)
(* dispatcher when the count reaches zero.  The signal moves a dispatcher  *)
(* asleep in the timed wait back to the test of its loop.                  *)
WorkerFinish(w) ==
  /\ wpc[w] = "finish"
  /\ rest_pending' = rest_pending - 1
  /\ dpc' = IF rest_pending' = 0 /\ dpc = "waiting" THEN "check" ELSE dpc
  /\ job' = [job EXCEPT ![w] = NoJob]
  /\ outcome' = [outcome EXCEPT ![w] = "none"]
  /\ WGoto(w, "top")
  /\ UNCHANGED <<running, queueVars, queueMutex, ready, scan, batch_size,
                 healthVars, spc>>

Worker(w) ==
  \/ WorkerStart(w) \/ WorkerLoop(w) \/ WorkerLock(w) \/ WorkerCheck(w)
  \/ WorkerSleep(w) \/ WorkerWake(w) \/ WorkerQuit(w) \/ WorkerClaim(w)
  \/ WorkerFetch(w) \/ WorkerStatus(w) \/ WorkerRecord(w) \/ WorkerFinish(w)

-----------------------------------------------------------------------------
(* The dispatcher thread: rest_dispatch_func.                              *)

DispatchLoop ==
  /\ dpc = "top"
  /\ dpc' = IF running THEN "lock" ELSE "bye"
  /\ UNCHANGED <<running, queueVars, queueMutex, ready, rest_pending,
                 workerVars, scan, batch_size, healthVars, spc>>

(* Take the queue's mutex and empty the queue.                             *)
DispatchLock ==
  /\ dpc = "lock"
  /\ queueMutex = Nobody
  /\ queueMutex' = Dispatcher
  /\ indices' = <<>>
  /\ next' = 0
  /\ scan' = 1
  /\ dpc' = "scan"
  /\ UNCHANGED <<running, ready, rest_pending, workerVars, batch_size,
                 healthVars, spc>>

(* One turn of the loop: source `scan' is skipped, or put into the batch.  *)
DispatchScan ==
  /\ dpc = "scan"
  /\ scan \in Sources
  /\ indices' \in {indices, Append(indices, scan)}
  /\ scan' = scan + 1
  /\ UNCHANGED <<running, next, queueMutex, ready, rest_pending, workerVars,
                 dpc, batch_size, healthVars, spc>>

(* Read the batch size and release the queue: from here on workers claim.  *)
DispatchUnlock ==
  /\ dpc = "scan"
  /\ scan \notin Sources
  /\ batch_size' = Len(indices)
  /\ queueMutex' = Nobody
  /\ dpc' = IF indices = <<>> THEN "sleep" ELSE "set"
  /\ UNCHANGED <<running, queueVars, ready, rest_pending, workerVars, scan,
                 healthVars, spc>>

(* rest_pending is set only now, under the other mutex.                    *)
DispatchSet ==
  /\ dpc = "set"
  /\ rest_pending' = batch_size
  /\ dpc' = "broadcast"
  /\ UNCHANGED <<running, queueVars, queueMutex, ready, workerVars, scan,
                 batch_size, healthVars, spc>>

DispatchBroadcast ==
  /\ dpc = "broadcast"
  /\ queueMutex = Nobody
  /\ ready' = {}
  /\ dpc' = "check"
  /\ UNCHANGED <<running, queueVars, queueMutex, rest_pending, workerVars,
                 scan, batch_size, healthVars, spc>>

(* The test of the wait loop, in one critical section with the wait.       *)
DispatchCheck ==
  /\ dpc = "check"
  /\ dpc' = IF rest_pending > 0 /\ running THEN "waiting" ELSE "publish"
  /\ UNCHANGED <<running, queueVars, queueMutex, ready, rest_pending,
                 workerVars, scan, batch_size, healthVars, spc>>

(* The timed wait ends after three seconds (or spuriously) without signal. *)
DispatchTimeout ==
  /\ dpc = "waiting"
  /\ dpc' = "check"
  /\ UNCHANGED <<running, queueVars, queueMutex, ready, rest_pending,
                 workerVars, scan, batch_size, healthVars, spc>>

(* update_snapshot                                                         *)
DispatchPublish ==
  /\ dpc = "publish"
  /\ dpc' = "sleep"
  /\ UNCHANGED <<running, queueVars, queueMutex, ready, rest_pending,
                 workerVars, scan, batch_size, healthVars, spc>>

(* sleep_interruptible(sched, 5)                                           *)
DispatchSleep ==
  /\ dpc = "sleep"
  /\ dpc' = "top"
  /\ UNCHANGED <<running, queueVars, queueMutex, ready, rest_pending,
                 workerVars, scan, batch_size, healthVars, spc>>

(* Wake workers so they can exit.                                          *)
DispatchExit ==
  /\ dpc = "bye"
  /\ queueMutex = Nobody
  /\ ready' = {}
  /\ dpc' = "exited"
  /\ UNCHANGED <<running, queueVars, queueMutex, rest_pending, workerVars,
                 scan, batch_size, healthVars, spc>>

Dispatch ==
  \/ DispatchLoop \/ DispatchLock \/ DispatchScan \/ DispatchUnlock
  \/ DispatchSet \/ DispatchBroadcast \/ DispatchCheck \/ DispatchTimeout
  \/ DispatchPublish \/ DispatchSleep \/ DispatchExit

-----------------------------------------------------------------------------
(* mc_scheduler_stop, called by the main thread.                           *)

StopRunning ==
  /\ spc = "idle"
  /\ running' = FALSE
  /\ spc' = "broadcast"
  /\ UNCHANGED <<queueVars, queueMutex, ready, rest_pending, workerVars,
                 dispatchVars, healthVars>>

StopBroadcast ==
  /\ spc = "broadcast"
  /\ queueMutex = Nobody
  /\ ready' = {}
  /\ spc' = "signal"
  /\ UNCHANGED <<running, queueVars, queueMutex, rest_pending, workerVars,
                 dispatchVars, healthVars>>

StopSignal ==
  /\ spc = "signal"
  /\ dpc' = IF dpc = "waiting" THEN "check" ELSE dpc
  /\ spc' = "joinDispatcher"
  /\ UNCHANGED <<running, queueVars, queueMutex, ready, rest_pending,
                 workerVars, scan, batch_size, healthVars>>

StopJoinDispatcher ==
  /\ spc = "joinDispatcher"
  /\ dpc = "exited"
  /\ spc' = "joinWorkers"
  /\ UNCHANGED <<running, queueVars, queueMutex, ready, rest_pending,
                 workerVars, dispatchVars, healthVars>>

StopJoinWorkers ==
  /\ spc = "joinWorkers"
  /\ \A w \in Workers : wpc[w] = "exited"
  /\ spc' = "stopped"
  /\ UNCHANGED <<running, queueVars, queueMutex, ready, rest_pending,
                 workerVars, dispatchVars, healthVars>>

Stop == StopRunning \/ StopBroadcast \/ StopSignal \/ StopJoinDispatcher
        \/ StopJoinWorkers

(* After the joins mc_scheduler_stop returns and the pool is gone.         *)
Stopped == spc = "stopped" /\ UNCHANGED vars

-----------------------------------------------------------------------------
Next ==
  \/ \E w \in Workers : Worker(w) \/ SpuriousWake(w)
  \/ Dispatch
  \/ Stop
  \/ Stopped

(***************************************************************************)
(* Fairness.  Threads are scheduled, and every fetch ends (curl runs with  *)
(* a timeout).  Taking rest_queue.mutex is strongly fair: the mutex comes  *)
(* free again and again (the dispatcher holds it for one loop every five   *)
(* seconds, a worker for a test), and a thread blocked on it gets it in    *)
(* the end.  The stop request and spurious wakeups are never promised.     *)
(***************************************************************************)
Fairness ==
  /\ \A w \in Workers : WF_vars(Worker(w)) /\ SF_vars(WorkerLock(w) \/ WorkerWake(w))
  /\ WF_vars(Dispatch)
  /\ SF_vars(DispatchLock \/ DispatchBroadcast \/ DispatchExit)
  /\ WF_vars(StopSignal \/ StopJoinDispatcher \/ StopJoinWorkers)
  /\ SF_vars(StopBroadcast)

Spec == Init /\ [][Next]_vars

FairSpec == Spec /\ Fairness

-----------------------------------------------------------------------------
(* Properties.                                                             *)

(* The type invariant.                                                     *)
TypeOK ==
  /\ running \in BOOLEAN
  /\ indices \in Seq(Sources)
  /\ next \in Nat
  /\ queueMutex \in Workers \cup {Nobody, Dispatcher}
  /\ ready \subseteq Workers
  /\ rest_pending \in Int
  /\ wpc \in [Workers -> WorkerPc]
  /\ job \in [Workers -> Sources \cup {NoJob}]
  /\ outcome \in [Workers -> Outcomes]
  /\ dpc \in DispatchPc
  /\ scan \in 1..(RestCount + 1)
  /\ batch_size \in Nat
  /\ failures \in [Sources -> Nat]
  /\ error_count \in [Sources -> Nat]
  /\ spc \in StopPc

(* A worker never reads past the jobs of the batch: rest_queue.indices is  *)
(* read only where the dispatcher put a source, whatever the order of      *)
(* wakeups, new batches and the stop.                                      *)
ClaimInBounds ==
  \A w \in Workers : wpc[w] = "claim" /\ running => next < Len(indices)

(* rest_health has no mutex of its own.  It needs none: a source is in the *)
(* hands of one worker at most, and while the dispatcher reads the health  *)
(* of the sources to build a batch no worker is between its claim and its  *)
(* record.                                                                 *)
HealthExclusive ==
  /\ \A v, w \in Busy : v # w => job[v] # job[w]
  /\ dpc = "scan" => Busy = {}

(* The dispatcher goes past its wait, and publishes a snapshot, only when  *)
(* every job of its batch has been fetched and stored; only a stop cuts    *)
(* the wait short.  This holds in spite of rest_pending being set after    *)
(* the workers can already claim: the count then errs on the high side.    *)
PublishAfterBatch == dpc = "publish" /\ running => Unfinished = 0

(* No worker is left asleep in the condition wait once mc_scheduler_stop   *)
(* has broadcast, so that the joins can succeed.                           *)
NoSleeperAfterStop ==
  spc \notin {"idle", "broadcast"} =>
    /\ ready = {}
    /\ \A w \in Workers : wpc[w] # "sleep"

(* Once the dispatcher has broadcast, no worker sleeps while the queue has *)
(* jobs nobody has claimed.                                                *)
NoSleeperWithJobs ==
  dpc \in {"check", "waiting", "publish"} /\ next < Len(indices) => ready = {}

(* The status row a client reads and the health the scheduler decides by   *)
(* count the same failures, except between the two writes of one record.   *)
HealthMatchesStatus ==
  \A i \in Sources :
    failures[i] = error_count[i]
      \/ \E w \in Workers : wpc[w] = "record" /\ job[w] = i

(* Jobs in the queue are claimed in the end, unless the scheduler stops.   *)
JobsGetClaimed == next < Len(indices) ~> next >= Len(indices) \/ ~running

(* mc_scheduler_stop returns: every thread it joins ends.                  *)
StopReturns == ~running ~> spc = "stopped"

(* "Wait for all workers to finish": when the last worker of a batch has   *)
(* finished, the dispatcher goes on.                                       *)
BatchFinishes ==
  dpc \in {"check", "waiting"} /\ Unfinished = 0
    ~> dpc \notin {"check", "waiting"}

-----------------------------------------------------------------------------
(* The strengthening that makes the safety properties inductive.           *)

(* The mutex is held exactly over the code that runs with it held.         *)
MutexInv ==
  /\ \A w \in Workers : wpc[w] \in {"check", "sleep", "claim"} <=> queueMutex = w
  /\ dpc = "scan" <=> queueMutex = Dispatcher

(* Who sleeps, and what was true when it decided to.                       *)
SleepInv ==
  /\ spc = "idle" <=> running
  /\ \A w \in ready : wpc[w] = "waiting"
  /\ \A w \in Workers : wpc[w] = "sleep" =>
       next >= Len(indices) /\ spc \in {"idle", "broadcast"}
  /\ spc \notin {"idle", "broadcast"} => ready = {}

(* The queue holds each source once, in the order of the scan.             *)
QueueInv ==
  /\ next <= Len(indices)
  /\ \A j, k \in 1..Len(indices) : j # k => indices[j] # indices[k]
  /\ dpc = "scan" => next = 0 /\ \A k \in 1..Len(indices) : indices[k] < scan

(* A claimed source is in the hands of one worker and out of the queue.    *)
JobInv ==
  /\ \A w \in Workers : job[w] # NoJob <=> w \in Busy
  /\ \A w \in Busy : \A k \in (next + 1)..Len(indices) : indices[k] # job[w]

(* What rest_pending counts at each point of the dispatcher.  Between the  *)
(* unlock and the store it counts down from zero; after the store it is    *)
(* never below the number of unfinished jobs.                              *)
CountInv ==
  /\ running /\ dpc \in {"top", "publish", "sleep"} =>
       rest_pending = 0 /\ Unfinished = 0
  /\ dpc = "lock" => rest_pending = 0 /\ Unfinished = 0
  /\ dpc = "scan" => rest_pending = 0 /\ Busy = {}
  /\ dpc = "set" => rest_pending <= 0 /\ batch_size = Unfinished - rest_pending
  /\ dpc \in {"broadcast", "check", "waiting"} => rest_pending >= Unfinished

(* Between the status row and the health record of one failure the row is  *)
(* one ahead, and at no other time.                                        *)
HealthInv ==
  /\ HealthMatchesStatus
  /\ \A w \in Workers : wpc[w] = "record" =>
       error_count[job[w]] =
         (IF outcome[w] = "error" THEN failures[job[w]] + 1 ELSE 0)

IndInv ==
  /\ TypeOK
  /\ MutexInv
  /\ SleepInv
  /\ ClaimInBounds
  /\ QueueInv
  /\ JobInv
  /\ HealthExclusive
  /\ NoSleeperWithJobs
  /\ CountInv
  /\ HealthInv

-----------------------------------------------------------------------------
(* The pool implements RestBatch.                                          *)

(* A batch is handed over when the queue is unlocked: while the dispatcher *)
(* is still building it no worker can see it.                              *)
Unclaimed == IF dpc = "scan" THEN {}
             ELSE {indices[k] : k \in (next + 1)..Len(indices)}

Batch == INSTANCE RestBatch WITH
  NoJob    <- NoJob,
  todo     <- Unclaimed,
  doing    <- job,
  open     <- dpc \in {"set", "broadcast", "check", "waiting"},
  stopping <- ~running

BatchSpec == Batch!Spec
=============================================================================
