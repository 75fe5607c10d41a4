---------------------------- MODULE RestPoolProofs ----------------------------
(***************************************************************************)
(* Proofs about RestPool, for any finite set of workers and any number of  *)
(* sources: the inductive invariant IndInv, the safety properties that     *)
(* follow from it, and that the pool implements RestBatch.                 *)
(*                                                                         *)
(* Each action has a lemma: it preserves every conjunct of IndInv.  What   *)
(* the action does to the set Busy of working workers comes first, because *)
(* that is all the counting argument needs to know of it; the last leaf    *)
(* gathers the conjuncts the action does not touch.                        *)
(***************************************************************************)
EXTENDS RestPool, FiniteSetTheorems, TLAPS

(* The set of working workers is finite, so that Unfinished is a number.   *)
LEMMA BusyFinite ==
  ASSUME TypeOK
  PROVE  /\ IsFiniteSet(Busy)
         /\ Cardinality(Busy) \in Nat
         /\ Busy = {} <=> Cardinality(Busy) = 0
  <1>1. IsFiniteSet(Busy)
    BY WorkersAssumption, FS_Subset DEF Busy
  <1>2. QED
    BY <1>1, FS_CardinalityType, FS_EmptySet


-----------------------------------------------------------------------------
(* The steps of a worker.                                                  *)

LEMMA WorkerStartStep ==
  ASSUME IndInv, NEW w \in Workers, WorkerStart(w)
  PROVE  IndInv'
  <1> USE DEF IndInv, WorkerStart, WGoto, dispatchVars, queueVars, healthVars
  <1>1. Busy' = Busy
    BY DEF TypeOK, Busy, BusyPc, WorkerPc
  <1>2. TypeOK'
    BY DEF TypeOK, WorkerPc, DispatchPc, StopPc, Outcomes, Sources, NoJob
  <1>3. MutexInv'
    BY ThreadsAssumption
      DEF TypeOK, MutexInv, Nobody, Dispatcher
  <1>4. SleepInv'
    BY DEF TypeOK, MutexInv, SleepInv
  <1>5. ClaimInBounds'
    BY DEF TypeOK, MutexInv, ClaimInBounds
  <1>6. HealthInv'
    BY DEF TypeOK, HealthInv, HealthMatchesStatus, JobInv, HealthExclusive,
           Busy, BusyPc
  <1>7. QueueInv' /\ JobInv' /\ HealthExclusive' /\ NoSleeperWithJobs' /\ CountInv'
    BY <1>1
      DEF QueueInv, JobInv, HealthExclusive, NoSleeperWithJobs, CountInv,
          Unfinished
  <1>8. QED
    BY <1>2, <1>3, <1>4, <1>5, <1>6, <1>7

LEMMA WorkerLoopStep ==
  ASSUME IndInv, NEW w \in Workers, WorkerLoop(w)
  PROVE  IndInv'
  <1> USE DEF IndInv, WorkerLoop, WGoto, dispatchVars, queueVars, healthVars
  <1>1. Busy' = Busy
    BY DEF TypeOK, Busy, BusyPc, WorkerPc
  <1>2. TypeOK'
    BY DEF TypeOK, WorkerPc, DispatchPc, StopPc, Outcomes, Sources, NoJob
  <1>3. MutexInv'
    BY ThreadsAssumption
      DEF TypeOK, MutexInv, Nobody, Dispatcher
  <1>4. SleepInv'
    BY DEF TypeOK, MutexInv, SleepInv
  <1>5. ClaimInBounds'
    BY DEF TypeOK, MutexInv, ClaimInBounds
  <1>6. HealthInv'
    BY DEF TypeOK, HealthInv, HealthMatchesStatus, JobInv, HealthExclusive,
           Busy, BusyPc
  <1>7. QueueInv' /\ JobInv' /\ HealthExclusive' /\ NoSleeperWithJobs' /\ CountInv'
    BY <1>1
      DEF QueueInv, JobInv, HealthExclusive, NoSleeperWithJobs, CountInv,
          Unfinished
  <1>8. QED
    BY <1>2, <1>3, <1>4, <1>5, <1>6, <1>7

LEMMA WorkerLockStep ==
  ASSUME IndInv, NEW w \in Workers, WorkerLock(w)
  PROVE  IndInv'
  <1> USE DEF IndInv, WorkerLock, WGoto, dispatchVars, queueVars, healthVars
  <1>1. Busy' = Busy
    BY DEF TypeOK, Busy, BusyPc, WorkerPc
  <1>2. TypeOK'
    BY DEF TypeOK, WorkerPc, DispatchPc, StopPc, Outcomes, Sources, NoJob
  <1>3. MutexInv'
    BY ThreadsAssumption
      DEF TypeOK, MutexInv, Nobody, Dispatcher
  <1>4. SleepInv'
    BY DEF TypeOK, MutexInv, SleepInv
  <1>5. ClaimInBounds'
    BY DEF TypeOK, MutexInv, ClaimInBounds
  <1>6. HealthInv'
    BY DEF TypeOK, HealthInv, HealthMatchesStatus, JobInv, HealthExclusive,
           Busy, BusyPc
  <1>7. QueueInv' /\ JobInv' /\ HealthExclusive' /\ NoSleeperWithJobs' /\ CountInv'
    BY <1>1
      DEF QueueInv, JobInv, HealthExclusive, NoSleeperWithJobs, CountInv,
          Unfinished
  <1>8. QED
    BY <1>2, <1>3, <1>4, <1>5, <1>6, <1>7

LEMMA WorkerCheckStep ==
  ASSUME IndInv, NEW w \in Workers, WorkerCheck(w)
  PROVE  IndInv'
  <1> USE DEF IndInv, WorkerCheck, WGoto, dispatchVars, queueVars, healthVars
  <1>1. Busy' = Busy
    BY DEF TypeOK, Busy, BusyPc, WorkerPc
  <1>2. TypeOK'
    BY DEF TypeOK, WorkerPc, DispatchPc, StopPc, Outcomes, Sources, NoJob
  <1>3. MutexInv'
    BY ThreadsAssumption
      DEF TypeOK, MutexInv, Nobody, Dispatcher
  <1>4. SleepInv'
    BY DEF TypeOK, MutexInv, SleepInv
  <1>5. ClaimInBounds'
    BY DEF TypeOK, MutexInv, ClaimInBounds
  <1>6. HealthInv'
    BY DEF TypeOK, HealthInv, HealthMatchesStatus, JobInv, HealthExclusive,
           Busy, BusyPc
  <1>7. QueueInv' /\ JobInv' /\ HealthExclusive' /\ NoSleeperWithJobs' /\ CountInv'
    BY <1>1
      DEF QueueInv, JobInv, HealthExclusive, NoSleeperWithJobs, CountInv,
          Unfinished
  <1>8. QED
    BY <1>2, <1>3, <1>4, <1>5, <1>6, <1>7

LEMMA WorkerSleepStep ==
  ASSUME IndInv, NEW w \in Workers, WorkerSleep(w)
  PROVE  IndInv'
  <1> USE DEF IndInv, WorkerSleep, WGoto, dispatchVars, queueVars, healthVars
  <1>1. Busy' = Busy
    BY DEF TypeOK, Busy, BusyPc, WorkerPc
  <1>2. TypeOK'
    BY DEF TypeOK, WorkerPc, DispatchPc, StopPc, Outcomes, Sources, NoJob
  <1>3. MutexInv'
    BY ThreadsAssumption
      DEF TypeOK, MutexInv, Nobody, Dispatcher
  <1>4. SleepInv'
    BY DEF TypeOK, MutexInv, SleepInv
  <1>5. ClaimInBounds'
    BY DEF TypeOK, MutexInv, ClaimInBounds
  <1>6. NoSleeperWithJobs'
    BY DEF TypeOK, NoSleeperWithJobs, SleepInv, QueueInv
  <1>7. HealthInv'
    BY DEF TypeOK, HealthInv, HealthMatchesStatus, JobInv, HealthExclusive,
           Busy, BusyPc
  <1>8. QueueInv' /\ JobInv' /\ HealthExclusive' /\ CountInv'
    BY <1>1
      DEF QueueInv, JobInv, HealthExclusive, CountInv, Unfinished
  <1>9. QED
    BY <1>2, <1>3, <1>4, <1>5, <1>6, <1>7, <1>8

LEMMA WorkerWakeStep ==
  ASSUME IndInv, NEW w \in Workers, WorkerWake(w)
  PROVE  IndInv'
  <1> USE DEF IndInv, WorkerWake, WGoto, dispatchVars, queueVars, healthVars
  <1>1. Busy' = Busy
    BY DEF TypeOK, Busy, BusyPc, WorkerPc
  <1>2. TypeOK'
    BY DEF TypeOK, WorkerPc, DispatchPc, StopPc, Outcomes, Sources, NoJob
  <1>3. MutexInv'
    BY ThreadsAssumption
      DEF TypeOK, MutexInv, Nobody, Dispatcher
  <1>4. SleepInv'
    BY DEF TypeOK, MutexInv, SleepInv
  <1>5. ClaimInBounds'
    BY DEF TypeOK, MutexInv, ClaimInBounds
  <1>6. HealthInv'
    BY DEF TypeOK, HealthInv, HealthMatchesStatus, JobInv, HealthExclusive,
           Busy, BusyPc
  <1>7. QueueInv' /\ JobInv' /\ HealthExclusive' /\ NoSleeperWithJobs' /\ CountInv'
    BY <1>1
      DEF QueueInv, JobInv, HealthExclusive, NoSleeperWithJobs, CountInv,
          Unfinished
  <1>8. QED
    BY <1>2, <1>3, <1>4, <1>5, <1>6, <1>7

LEMMA WorkerQuitStep ==
  ASSUME IndInv, NEW w \in Workers, WorkerQuit(w)
  PROVE  IndInv'
  <1> USE DEF IndInv, WorkerQuit, WGoto, dispatchVars, queueVars, healthVars
  <1>1. Busy' = Busy
    BY DEF TypeOK, Busy, BusyPc, WorkerPc
  <1>2. TypeOK'
    BY DEF TypeOK, WorkerPc, DispatchPc, StopPc, Outcomes, Sources, NoJob
  <1>3. MutexInv'
    BY ThreadsAssumption
      DEF TypeOK, MutexInv, Nobody, Dispatcher
  <1>4. SleepInv'
    BY DEF TypeOK, MutexInv, SleepInv
  <1>5. ClaimInBounds'
    BY DEF TypeOK, MutexInv, ClaimInBounds
  <1>6. HealthInv'
    BY DEF TypeOK, HealthInv, HealthMatchesStatus, JobInv, HealthExclusive,
           Busy, BusyPc
  <1>7. QueueInv' /\ JobInv' /\ HealthExclusive' /\ NoSleeperWithJobs' /\ CountInv'
    BY <1>1
      DEF QueueInv, JobInv, HealthExclusive, NoSleeperWithJobs, CountInv,
          Unfinished
  <1>8. QED
    BY <1>2, <1>3, <1>4, <1>5, <1>6, <1>7

LEMMA WorkerClaimStep ==
  ASSUME IndInv, NEW w \in Workers, WorkerClaim(w)
  PROVE  IndInv'
  <1> USE DEF IndInv, WorkerClaim, WGoto, dispatchVars, healthVars
  <1>1. Busy' = Busy \cup {w} /\ w \notin Busy
    BY DEF TypeOK, Busy, BusyPc, WorkerPc
  <1>2. /\ next < Len(indices)
        /\ indices[next + 1] \in Sources
        /\ indices[next + 1] # NoJob
    <2>1. next + 1 \in 1..Len(indices)
      BY DEF TypeOK, ClaimInBounds
    <2>2. indices[next + 1] \in Sources
      BY <2>1 DEF TypeOK
    <2>3. next < Len(indices)
      BY DEF ClaimInBounds
    <2>4. indices[next + 1] # NoJob
      BY <2>2, CountAssumption DEF Sources, NoJob
    <2>5. QED
      BY <2>2, <2>3, <2>4
  <1>3. job' = [job EXCEPT ![w] = indices[next + 1]] /\ Unfinished' = Unfinished
    <2>1. Cardinality(Busy') = Cardinality(Busy) + 1
      BY <1>1, BusyFinite, FS_AddElement
    <2>2. QED
      BY <2>1, <1>2, BusyFinite DEF TypeOK, Unfinished
  <1>4. TypeOK'
    BY <1>2 DEF TypeOK, WorkerPc, BusyPc
  <1>5. MutexInv'
    BY ThreadsAssumption
      DEF TypeOK, MutexInv, Nobody, Dispatcher
  <1>6. SleepInv'
    BY DEF TypeOK, MutexInv, SleepInv
  <1>7. ClaimInBounds'
    BY DEF TypeOK, MutexInv, ClaimInBounds
  <1>8. QueueInv'
    <2>1. dpc # "scan"
      BY ThreadsAssumption DEF MutexInv
    <2>2. QED
      BY <1>2, <2>1 DEF TypeOK, QueueInv
  <1>9. JobInv'
    <2>1. \A k \in (next + 1)..Len(indices) : k \in 1..Len(indices)
      BY DEF TypeOK
    <2>2. /\ indices' = indices
          /\ \A k \in (next' + 1)..Len(indices') :
               k \in (next + 1)..Len(indices) /\ k # next + 1
      BY DEF TypeOK
    <2>3. \A k \in (next' + 1)..Len(indices') : indices'[k] # indices[next + 1]
      <3>1. next + 1 \in 1..Len(indices)
        BY <1>2 DEF TypeOK
      <3>2. QED
        BY <2>1, <2>2, <3>1 DEF QueueInv
    <2>4. \A v \in Busy : \A k \in (next' + 1)..Len(indices') : indices'[k] # job[v]
      BY <2>2 DEF JobInv
    <2>5. QED
      BY <1>1, <1>2, <2>3, <2>4 DEF TypeOK, JobInv, Busy
  <1>10. HealthExclusive'
    <2>1. \A v \in Busy : job[v] # indices[next + 1]
      <3>1. next + 1 \in (next + 1)..Len(indices)
        BY <1>2 DEF TypeOK
      <3>2. QED
        BY <3>1 DEF JobInv
    <2>2. dpc # "scan"
      BY ThreadsAssumption DEF MutexInv
    <2>3. QED
      BY <1>1, <2>1, <2>2 DEF TypeOK, HealthExclusive, Busy
  <1>11. NoSleeperWithJobs'
    BY DEF TypeOK, NoSleeperWithJobs, SleepInv, QueueInv
  <1>12. CountInv'
    <2>1. dpc # "scan"
      BY ThreadsAssumption DEF MutexInv
    <2>2. Unfinished > 0
      BY <1>2, BusyFinite DEF TypeOK, Unfinished
    <2>3. QED
      BY <1>3, <2>1, <2>2 DEF CountInv
  <1>13. HealthInv'
    BY DEF TypeOK, HealthInv, HealthMatchesStatus, JobInv, HealthExclusive,
           Busy, BusyPc
  <1>14. QED
    BY <1>2, <1>3, <1>4, <1>5, <1>6, <1>7, <1>8, <1>9, <1>10, <1>11, <1>12,
       <1>13

LEMMA WorkerFetchStep ==
  ASSUME IndInv, NEW w \in Workers, WorkerFetch(w)
  PROVE  IndInv'
  <1> USE DEF IndInv, WorkerFetch, WGoto, dispatchVars, queueVars, healthVars
  <1>1. Busy' = Busy
    BY DEF TypeOK, Busy, BusyPc, WorkerPc
  <1>2. TypeOK'
    BY DEF TypeOK, WorkerPc, DispatchPc, StopPc, Outcomes, Sources, NoJob
  <1>3. MutexInv'
    BY ThreadsAssumption
      DEF TypeOK, MutexInv, Nobody, Dispatcher
  <1>4. SleepInv'
    BY DEF TypeOK, MutexInv, SleepInv
  <1>5. ClaimInBounds'
    BY DEF TypeOK, MutexInv, ClaimInBounds
  <1>6. HealthInv'
    BY DEF TypeOK, HealthInv, HealthMatchesStatus, JobInv, HealthExclusive,
           Busy, BusyPc
  <1>7. QueueInv' /\ JobInv' /\ HealthExclusive' /\ NoSleeperWithJobs' /\ CountInv'
    BY <1>1
      DEF QueueInv, JobInv, HealthExclusive, NoSleeperWithJobs, CountInv,
          Unfinished
  <1>8. QED
    BY <1>2, <1>3, <1>4, <1>5, <1>6, <1>7

LEMMA WorkerStatusStep ==
  ASSUME IndInv, NEW w \in Workers, WorkerStatus(w)
  PROVE  IndInv'
  <1> USE DEF IndInv, WorkerStatus, WGoto, dispatchVars, queueVars
  <1>1. Busy' = Busy
    BY DEF TypeOK, Busy, BusyPc, WorkerPc
  <1>2. job[w] \in Sources
    BY DEF TypeOK, JobInv, Busy, BusyPc
  <1>3. TypeOK'
    BY <1>2 DEF TypeOK, WorkerPc, DispatchPc, StopPc, Outcomes, Sources, NoJob
  <1>4. MutexInv'
    BY ThreadsAssumption
      DEF TypeOK, MutexInv, Nobody, Dispatcher
  <1>5. SleepInv'
    BY DEF TypeOK, MutexInv, SleepInv
  <1>6. ClaimInBounds'
    BY DEF TypeOK, MutexInv, ClaimInBounds
  <1>7. HealthInv'
    <2>1. \A v \in Workers \ {w} : wpc[v] = "record" => job[v] # job[w]
      BY DEF TypeOK, HealthExclusive, Busy, BusyPc
    <2>2. failures[job[w]] = error_count[job[w]]
      BY <1>2, <2>1 DEF TypeOK, HealthInv, HealthMatchesStatus
    <2>3. HealthMatchesStatus'
      BY <1>2 DEF TypeOK, HealthInv, HealthMatchesStatus
    <2>4. ASSUME NEW v \in Workers, wpc'[v] = "record"
          PROVE  error_count'[job[v]] =
                   (IF outcome[v] = "error" THEN failures[job[v]] + 1 ELSE 0)
      <3>1. CASE v = w
        BY <3>1, <1>2, <2>2 DEF TypeOK
      <3>2. CASE v # w
        BY <3>2, <2>1, <2>4, <1>2 DEF TypeOK, HealthInv
      <3>3. QED
        BY <3>1, <3>2
    <2>5. QED
      BY <2>3, <2>4 DEF HealthInv
  <1>8. QueueInv' /\ JobInv' /\ HealthExclusive' /\ NoSleeperWithJobs' /\ CountInv'
    BY <1>1
      DEF QueueInv, JobInv, HealthExclusive, NoSleeperWithJobs, CountInv,
          Unfinished
  <1>9. QED
    BY <1>2, <1>3, <1>4, <1>5, <1>6, <1>7, <1>8

LEMMA WorkerRecordStep ==
  ASSUME IndInv, NEW w \in Workers, WorkerRecord(w)
  PROVE  IndInv'
  <1> USE DEF IndInv, WorkerRecord, WGoto, dispatchVars, queueVars
  <1>1. Busy' = Busy
    BY DEF TypeOK, Busy, BusyPc, WorkerPc
  <1>2. job[w] \in Sources
    BY DEF TypeOK, JobInv, Busy, BusyPc
  <1>3. TypeOK'
    BY <1>2 DEF TypeOK, WorkerPc, DispatchPc, StopPc, Outcomes, Sources, NoJob
  <1>4. MutexInv'
    BY ThreadsAssumption
      DEF TypeOK, MutexInv, Nobody, Dispatcher
  <1>5. SleepInv'
    BY DEF TypeOK, MutexInv, SleepInv
  <1>6. ClaimInBounds'
    BY DEF TypeOK, MutexInv, ClaimInBounds
  <1>7. HealthInv'
    BY DEF TypeOK, HealthInv, HealthMatchesStatus, JobInv, HealthExclusive,
           Busy, BusyPc
  <1>8. QueueInv' /\ JobInv' /\ HealthExclusive' /\ NoSleeperWithJobs' /\ CountInv'
    BY <1>1
      DEF QueueInv, JobInv, HealthExclusive, NoSleeperWithJobs, CountInv,
          Unfinished
  <1>9. QED
    BY <1>2, <1>3, <1>4, <1>5, <1>6, <1>7, <1>8

LEMMA WorkerFinishStep ==
  ASSUME IndInv, NEW w \in Workers, WorkerFinish(w)
  PROVE  IndInv'
  <1> USE DEF IndInv, WorkerFinish, WGoto, queueVars, healthVars
  <1>1. Busy' = Busy \ {w} /\ w \in Busy
    BY DEF TypeOK, Busy, BusyPc, WorkerPc
  <1>2. Unfinished' = Unfinished - 1 /\ Unfinished \in Int /\ Unfinished >= 1
    <2>1. Cardinality(Busy') = Cardinality(Busy) - 1
      BY <1>1, BusyFinite, FS_RemoveElement
    <2>2. Cardinality(Busy) >= 1
      BY <1>1, BusyFinite
    <2>3. QED
      BY <2>1, <2>2, BusyFinite DEF TypeOK, QueueInv, Unfinished
  <1>3. TypeOK'
    BY DEF TypeOK, WorkerPc, DispatchPc, StopPc, Outcomes, Sources, NoJob
  <1>4. MutexInv'
    BY ThreadsAssumption
      DEF TypeOK, MutexInv, Nobody, Dispatcher
  <1>5. SleepInv'
    BY DEF TypeOK, MutexInv, SleepInv
  <1>6. ClaimInBounds'
    BY DEF TypeOK, MutexInv, ClaimInBounds
  <1>7. QueueInv'
    BY DEF TypeOK, QueueInv, ClaimInBounds, MutexInv
  <1>8. JobInv'
    BY <1>1
      DEF TypeOK, JobInv, QueueInv, ClaimInBounds
  <1>9. HealthExclusive'
    BY <1>1
      DEF TypeOK, HealthExclusive, JobInv, ClaimInBounds, QueueInv
  <1>10. NoSleeperWithJobs'
    BY DEF TypeOK, NoSleeperWithJobs, SleepInv, QueueInv
  <1>11. CountInv'
    BY <1>1, <1>2, BusyFinite DEF TypeOK, CountInv, Busy
  <1>12. HealthInv'
    BY DEF TypeOK, HealthInv, HealthMatchesStatus, JobInv, HealthExclusive,
           Busy, BusyPc
  <1>13. QED
    BY <1>2, <1>3, <1>4, <1>5, <1>6, <1>7, <1>8, <1>9, <1>10, <1>11, <1>12

LEMMA SpuriousWakeStep ==
  ASSUME IndInv, NEW w \in Workers, SpuriousWake(w)
  PROVE  IndInv'
  <1> USE DEF IndInv, SpuriousWake, workerVars, dispatchVars, queueVars,
          healthVars
  <1>1. Busy' = Busy
    BY DEF TypeOK, Busy
  <1>2. TypeOK'
    BY DEF TypeOK, WorkerPc, DispatchPc, StopPc, Outcomes, Sources, NoJob
  <1>3. SleepInv'
    BY DEF TypeOK, MutexInv, SleepInv
  <1>4. NoSleeperWithJobs'
    BY DEF TypeOK, NoSleeperWithJobs, SleepInv, QueueInv
  <1>5. MutexInv' /\ ClaimInBounds' /\ QueueInv' /\ JobInv' /\ HealthExclusive' /\
        CountInv' /\ HealthInv'
    BY <1>1
      DEF MutexInv, ClaimInBounds, QueueInv, JobInv, HealthExclusive,
          CountInv, Unfinished, HealthInv, HealthMatchesStatus
  <1>6. QED
    BY <1>2, <1>3, <1>4, <1>5

-----------------------------------------------------------------------------
(* The steps of the dispatcher.                                            *)

LEMMA DispatchLoopStep ==
  ASSUME IndInv, DispatchLoop
  PROVE  IndInv'
  <1> USE DEF IndInv, DispatchLoop, workerVars, queueVars, healthVars
  <1>1. Busy' = Busy
    BY DEF TypeOK, Busy
  <1>2. TypeOK'
    BY DEF TypeOK, WorkerPc, DispatchPc, StopPc, Outcomes, Sources, NoJob
  <1>3. MutexInv'
    BY ThreadsAssumption
      DEF TypeOK, MutexInv, Nobody, Dispatcher
  <1>4. QueueInv'
    BY DEF TypeOK, QueueInv, ClaimInBounds, MutexInv
  <1>5. HealthExclusive'
    BY <1>1
      DEF TypeOK, HealthExclusive, JobInv, ClaimInBounds, QueueInv
  <1>6. NoSleeperWithJobs'
    BY DEF TypeOK, NoSleeperWithJobs, SleepInv, QueueInv
  <1>7. CountInv'
    BY <1>1, BusyFinite
      DEF TypeOK, CountInv, Unfinished, QueueInv, NoSleeperWithJobs
  <1>8. SleepInv' /\ ClaimInBounds' /\ JobInv' /\ HealthInv'
    BY <1>1
      DEF SleepInv, ClaimInBounds, JobInv, HealthInv, HealthMatchesStatus
  <1>9. QED
    BY <1>2, <1>3, <1>4, <1>5, <1>6, <1>7, <1>8

LEMMA DispatchLockStep ==
  ASSUME IndInv, DispatchLock
  PROVE  IndInv'
  <1> USE DEF IndInv, DispatchLock, workerVars, healthVars
  <1>1. Busy' = Busy
    BY DEF TypeOK, Busy
  <1>2. Busy = {}
    BY BusyFinite DEF TypeOK, CountInv, Unfinished, QueueInv
  <1>3. TypeOK'
    BY CountAssumption DEF TypeOK, DispatchPc, Dispatcher
  <1>4. MutexInv'
    BY ThreadsAssumption
      DEF TypeOK, MutexInv, Nobody, Dispatcher
  <1>5. SleepInv'
    BY DEF TypeOK, MutexInv, SleepInv
  <1>6. ClaimInBounds'
    BY ThreadsAssumption DEF TypeOK, MutexInv, ClaimInBounds, Nobody
  <1>7. QueueInv'
    BY DEF TypeOK, QueueInv, ClaimInBounds, MutexInv
  <1>8. JobInv'
    BY <1>1, <1>2 DEF JobInv
  <1>9. HealthExclusive'
    BY <1>1, <1>2 DEF HealthExclusive
  <1>10. NoSleeperWithJobs'
    BY DEF TypeOK, NoSleeperWithJobs, SleepInv, QueueInv
  <1>11. CountInv'
    BY <1>1, <1>2 DEF CountInv
  <1>12. HealthInv'
    BY <1>1
      DEF HealthInv, HealthMatchesStatus
  <1>13. QED
    BY <1>2, <1>3, <1>4, <1>5, <1>6, <1>7, <1>8, <1>9, <1>10, <1>11, <1>12

LEMMA DispatchScanStep ==
  ASSUME IndInv, DispatchScan
  PROVE  IndInv'
  <1> USE DEF IndInv, DispatchScan, workerVars, healthVars
  <1>1. Busy' = Busy
    BY DEF TypeOK, Busy
  <1>2. indices' = indices \/ indices' = Append(indices, scan)
    OBVIOUS
  <1>3. Len(indices) \in Nat /\ indices \in Seq(Sources)
    BY DEF TypeOK
  <1>4. ASSUME indices' = Append(indices, scan)
        PROVE  /\ indices' \in Seq(Sources)
               /\ Len(indices') = Len(indices) + 1
               /\ \A k \in 1..Len(indices) : indices'[k] = indices[k]
               /\ indices'[Len(indices) + 1] = scan
    BY <1>3, <1>4
  <1>5. \A k \in 1..Len(indices) : indices[k] \in Int
    BY <1>3, CountAssumption DEF Sources
  <1>6. TypeOK'
    <2>1. indices' \in Seq(Sources)
      BY <1>2, <1>3, <1>4
    <2>2. scan' \in 1..(RestCount + 1)
      BY CountAssumption DEF TypeOK, Sources
    <2>3. QED
      BY <2>1, <2>2 DEF TypeOK
  <1>7. SleepInv'
    BY ThreadsAssumption DEF TypeOK, MutexInv, SleepInv
  <1>8. ClaimInBounds'
    BY ThreadsAssumption DEF TypeOK, MutexInv, ClaimInBounds
  <1>9. QueueInv'
    <2>1. scan \in Int /\ scan' = scan + 1
      BY CountAssumption DEF TypeOK
    <2>2. CASE indices' = indices
      BY <2>1, <2>2, <1>3, <1>5 DEF QueueInv
    <2>3. CASE indices' = Append(indices, scan)
      BY <2>1, <2>3, <1>3, <1>4, <1>5 DEF QueueInv
    <2>4. QED
      BY <1>2, <2>2, <2>3
  <1>10. JobInv'
    <2>1. Busy = {}
      BY DEF CountInv
    <2>2. QED
      BY <1>1, <2>1 DEF JobInv
  <1>11. NoSleeperWithJobs'
    BY DEF TypeOK, NoSleeperWithJobs, SleepInv, QueueInv
  <1>12. CountInv'
    BY <1>1, BusyFinite
      DEF TypeOK, CountInv, Unfinished, QueueInv, NoSleeperWithJobs
  <1>13. MutexInv' /\ HealthExclusive' /\ HealthInv'
    BY <1>1
      DEF MutexInv, HealthExclusive, HealthInv, HealthMatchesStatus
  <1>14. QED
    BY <1>2, <1>3, <1>4, <1>5, <1>6, <1>7, <1>8, <1>9, <1>10, <1>11, <1>12,
       <1>13

LEMMA DispatchUnlockStep ==
  ASSUME IndInv, DispatchUnlock
  PROVE  IndInv'
  <1> USE DEF IndInv, DispatchUnlock, workerVars, queueVars, healthVars
  <1>1. Busy' = Busy
    BY DEF TypeOK, Busy
  <1>2. TypeOK'
    BY DEF TypeOK, WorkerPc, DispatchPc, StopPc, Outcomes, Sources, NoJob
  <1>3. MutexInv'
    BY ThreadsAssumption
      DEF TypeOK, MutexInv, Nobody, Dispatcher
  <1>4. QueueInv'
    BY DEF TypeOK, QueueInv, ClaimInBounds, MutexInv
  <1>5. HealthExclusive'
    BY <1>1
      DEF TypeOK, HealthExclusive, JobInv, ClaimInBounds, QueueInv
  <1>6. NoSleeperWithJobs'
    BY DEF TypeOK, NoSleeperWithJobs, SleepInv, QueueInv
  <1>7. CountInv'
    BY <1>1, BusyFinite
      DEF TypeOK, CountInv, Unfinished, QueueInv, NoSleeperWithJobs
  <1>8. SleepInv' /\ ClaimInBounds' /\ JobInv' /\ HealthInv'
    BY <1>1
      DEF SleepInv, ClaimInBounds, JobInv, HealthInv, HealthMatchesStatus
  <1>9. QED
    BY <1>2, <1>3, <1>4, <1>5, <1>6, <1>7, <1>8

LEMMA DispatchSetStep ==
  ASSUME IndInv, DispatchSet
  PROVE  IndInv'
  <1> USE DEF IndInv, DispatchSet, workerVars, queueVars, healthVars
  <1>1. Busy' = Busy
    BY DEF TypeOK, Busy
  <1>2. TypeOK'
    BY DEF TypeOK, WorkerPc, DispatchPc, StopPc, Outcomes, Sources, NoJob
  <1>3. MutexInv'
    BY ThreadsAssumption
      DEF TypeOK, MutexInv, Nobody, Dispatcher
  <1>4. QueueInv'
    BY DEF TypeOK, QueueInv, ClaimInBounds, MutexInv
  <1>5. HealthExclusive'
    BY <1>1
      DEF TypeOK, HealthExclusive, JobInv, ClaimInBounds, QueueInv
  <1>6. NoSleeperWithJobs'
    BY DEF TypeOK, NoSleeperWithJobs, SleepInv, QueueInv
  <1>7. CountInv'
    BY <1>1, BusyFinite
      DEF TypeOK, CountInv, Unfinished, QueueInv, NoSleeperWithJobs
  <1>8. SleepInv' /\ ClaimInBounds' /\ JobInv' /\ HealthInv'
    BY <1>1
      DEF SleepInv, ClaimInBounds, JobInv, HealthInv, HealthMatchesStatus
  <1>9. QED
    BY <1>2, <1>3, <1>4, <1>5, <1>6, <1>7, <1>8

LEMMA DispatchBroadcastStep ==
  ASSUME IndInv, DispatchBroadcast
  PROVE  IndInv'
  <1> USE DEF IndInv, DispatchBroadcast, workerVars, queueVars, healthVars
  <1>1. Busy' = Busy
    BY DEF TypeOK, Busy
  <1>2. TypeOK'
    BY DEF TypeOK, WorkerPc, DispatchPc, StopPc, Outcomes, Sources, NoJob
  <1>3. MutexInv'
    BY ThreadsAssumption
      DEF TypeOK, MutexInv, Nobody, Dispatcher
  <1>4. SleepInv'
    BY DEF TypeOK, MutexInv, SleepInv
  <1>5. QueueInv'
    BY DEF TypeOK, QueueInv, ClaimInBounds, MutexInv
  <1>6. HealthExclusive'
    BY <1>1
      DEF TypeOK, HealthExclusive, JobInv, ClaimInBounds, QueueInv
  <1>7. NoSleeperWithJobs'
    BY DEF TypeOK, NoSleeperWithJobs, SleepInv, QueueInv
  <1>8. CountInv'
    BY <1>1, BusyFinite
      DEF TypeOK, CountInv, Unfinished, QueueInv, NoSleeperWithJobs
  <1>9. ClaimInBounds' /\ JobInv' /\ HealthInv'
    BY <1>1
      DEF ClaimInBounds, JobInv, HealthInv, HealthMatchesStatus
  <1>10. QED
    BY <1>2, <1>3, <1>4, <1>5, <1>6, <1>7, <1>8, <1>9

LEMMA DispatchCheckStep ==
  ASSUME IndInv, DispatchCheck
  PROVE  IndInv'
  <1> USE DEF IndInv, DispatchCheck, workerVars, queueVars, healthVars
  <1>1. Busy' = Busy
    BY DEF TypeOK, Busy
  <1>2. TypeOK'
    BY DEF TypeOK, WorkerPc, DispatchPc, StopPc, Outcomes, Sources, NoJob
  <1>3. MutexInv'
    BY ThreadsAssumption
      DEF TypeOK, MutexInv, Nobody, Dispatcher
  <1>4. QueueInv'
    BY DEF TypeOK, QueueInv, ClaimInBounds, MutexInv
  <1>5. HealthExclusive'
    BY <1>1
      DEF TypeOK, HealthExclusive, JobInv, ClaimInBounds, QueueInv
  <1>6. NoSleeperWithJobs'
    BY DEF TypeOK, NoSleeperWithJobs, SleepInv, QueueInv
  <1>7. CountInv'
    BY <1>1, BusyFinite
      DEF TypeOK, CountInv, Unfinished, QueueInv, NoSleeperWithJobs
  <1>8. SleepInv' /\ ClaimInBounds' /\ JobInv' /\ HealthInv'
    BY <1>1
      DEF SleepInv, ClaimInBounds, JobInv, HealthInv, HealthMatchesStatus
  <1>9. QED
    BY <1>2, <1>3, <1>4, <1>5, <1>6, <1>7, <1>8

LEMMA DispatchTimeoutStep ==
  ASSUME IndInv, DispatchTimeout
  PROVE  IndInv'
  <1> USE DEF IndInv, DispatchTimeout, workerVars, queueVars, healthVars
  <1>1. Busy' = Busy
    BY DEF TypeOK, Busy
  <1>2. TypeOK'
    BY DEF TypeOK, WorkerPc, DispatchPc, StopPc, Outcomes, Sources, NoJob
  <1>3. MutexInv'
    BY ThreadsAssumption
      DEF TypeOK, MutexInv, Nobody, Dispatcher
  <1>4. QueueInv'
    BY DEF TypeOK, QueueInv, ClaimInBounds, MutexInv
  <1>5. HealthExclusive'
    BY <1>1
      DEF TypeOK, HealthExclusive, JobInv, ClaimInBounds, QueueInv
  <1>6. NoSleeperWithJobs'
    BY DEF TypeOK, NoSleeperWithJobs, SleepInv, QueueInv
  <1>7. CountInv'
    BY <1>1, BusyFinite
      DEF TypeOK, CountInv, Unfinished, QueueInv, NoSleeperWithJobs
  <1>8. SleepInv' /\ ClaimInBounds' /\ JobInv' /\ HealthInv'
    BY <1>1
      DEF SleepInv, ClaimInBounds, JobInv, HealthInv, HealthMatchesStatus
  <1>9. QED
    BY <1>2, <1>3, <1>4, <1>5, <1>6, <1>7, <1>8

LEMMA DispatchPublishStep ==
  ASSUME IndInv, DispatchPublish
  PROVE  IndInv'
  <1> USE DEF IndInv, DispatchPublish, workerVars, queueVars, healthVars
  <1>1. Busy' = Busy
    BY DEF TypeOK, Busy
  <1>2. TypeOK'
    BY DEF TypeOK, WorkerPc, DispatchPc, StopPc, Outcomes, Sources, NoJob
  <1>3. MutexInv'
    BY ThreadsAssumption
      DEF TypeOK, MutexInv, Nobody, Dispatcher
  <1>4. QueueInv'
    BY DEF TypeOK, QueueInv, ClaimInBounds, MutexInv
  <1>5. HealthExclusive'
    BY <1>1
      DEF TypeOK, HealthExclusive, JobInv, ClaimInBounds, QueueInv
  <1>6. NoSleeperWithJobs'
    BY DEF TypeOK, NoSleeperWithJobs, SleepInv, QueueInv
  <1>7. CountInv'
    BY <1>1, BusyFinite
      DEF TypeOK, CountInv, Unfinished, QueueInv, NoSleeperWithJobs
  <1>8. SleepInv' /\ ClaimInBounds' /\ JobInv' /\ HealthInv'
    BY <1>1
      DEF SleepInv, ClaimInBounds, JobInv, HealthInv, HealthMatchesStatus
  <1>9. QED
    BY <1>2, <1>3, <1>4, <1>5, <1>6, <1>7, <1>8

LEMMA DispatchSleepStep ==
  ASSUME IndInv, DispatchSleep
  PROVE  IndInv'
  <1> USE DEF IndInv, DispatchSleep, workerVars, queueVars, healthVars
  <1>1. Busy' = Busy
    BY DEF TypeOK, Busy
  <1>2. TypeOK'
    BY DEF TypeOK, WorkerPc, DispatchPc, StopPc, Outcomes, Sources, NoJob
  <1>3. MutexInv'
    BY ThreadsAssumption
      DEF TypeOK, MutexInv, Nobody, Dispatcher
  <1>4. QueueInv'
    BY DEF TypeOK, QueueInv, ClaimInBounds, MutexInv
  <1>5. HealthExclusive'
    BY <1>1
      DEF TypeOK, HealthExclusive, JobInv, ClaimInBounds, QueueInv
  <1>6. NoSleeperWithJobs'
    BY DEF TypeOK, NoSleeperWithJobs, SleepInv, QueueInv
  <1>7. CountInv'
    BY <1>1, BusyFinite
      DEF TypeOK, CountInv, Unfinished, QueueInv, NoSleeperWithJobs
  <1>8. SleepInv' /\ ClaimInBounds' /\ JobInv' /\ HealthInv'
    BY <1>1
      DEF SleepInv, ClaimInBounds, JobInv, HealthInv, HealthMatchesStatus
  <1>9. QED
    BY <1>2, <1>3, <1>4, <1>5, <1>6, <1>7, <1>8

LEMMA DispatchExitStep ==
  ASSUME IndInv, DispatchExit
  PROVE  IndInv'
  <1> USE DEF IndInv, DispatchExit, workerVars, queueVars, healthVars
  <1>1. Busy' = Busy
    BY DEF TypeOK, Busy
  <1>2. TypeOK'
    BY DEF TypeOK, WorkerPc, DispatchPc, StopPc, Outcomes, Sources, NoJob
  <1>3. MutexInv'
    BY ThreadsAssumption
      DEF TypeOK, MutexInv, Nobody, Dispatcher
  <1>4. SleepInv'
    BY DEF TypeOK, MutexInv, SleepInv
  <1>5. QueueInv'
    BY DEF TypeOK, QueueInv, ClaimInBounds, MutexInv
  <1>6. HealthExclusive'
    BY <1>1
      DEF TypeOK, HealthExclusive, JobInv, ClaimInBounds, QueueInv
  <1>7. NoSleeperWithJobs'
    BY DEF TypeOK, NoSleeperWithJobs, SleepInv, QueueInv
  <1>8. CountInv'
    BY <1>1, BusyFinite
      DEF TypeOK, CountInv, Unfinished, QueueInv, NoSleeperWithJobs
  <1>9. ClaimInBounds' /\ JobInv' /\ HealthInv'
    BY <1>1
      DEF ClaimInBounds, JobInv, HealthInv, HealthMatchesStatus
  <1>10. QED
    BY <1>2, <1>3, <1>4, <1>5, <1>6, <1>7, <1>8, <1>9

-----------------------------------------------------------------------------
(* The steps of mc_scheduler_stop.                                         *)

LEMMA StopRunningStep ==
  ASSUME IndInv, StopRunning
  PROVE  IndInv'
  <1> USE DEF IndInv, StopRunning, workerVars, dispatchVars, queueVars,
          healthVars
  <1>1. Busy' = Busy
    BY DEF TypeOK, Busy
  <1>2. TypeOK'
    BY DEF TypeOK, WorkerPc, DispatchPc, StopPc, Outcomes, Sources, NoJob
  <1>3. SleepInv'
    BY DEF TypeOK, MutexInv, SleepInv
  <1>4. ClaimInBounds'
    BY DEF TypeOK, MutexInv, ClaimInBounds
  <1>5. CountInv'
    BY <1>1, BusyFinite
      DEF TypeOK, CountInv, Unfinished, QueueInv, NoSleeperWithJobs
  <1>6. MutexInv' /\ QueueInv' /\ JobInv' /\ HealthExclusive' /\ NoSleeperWithJobs' /\
        HealthInv'
    BY <1>1
      DEF MutexInv, QueueInv, JobInv, HealthExclusive, NoSleeperWithJobs,
          HealthInv, HealthMatchesStatus
  <1>7. QED
    BY <1>2, <1>3, <1>4, <1>5, <1>6

LEMMA StopBroadcastStep ==
  ASSUME IndInv, StopBroadcast
  PROVE  IndInv'
  <1> USE DEF IndInv, StopBroadcast, workerVars, dispatchVars, queueVars,
          healthVars
  <1>1. Busy' = Busy
    BY DEF TypeOK, Busy
  <1>2. TypeOK'
    BY DEF TypeOK, WorkerPc, DispatchPc, StopPc, Outcomes, Sources, NoJob
  <1>3. SleepInv'
    BY ThreadsAssumption DEF TypeOK, MutexInv, SleepInv, Nobody
  <1>4. NoSleeperWithJobs'
    BY DEF TypeOK, NoSleeperWithJobs, SleepInv, QueueInv
  <1>5. MutexInv' /\ ClaimInBounds' /\ QueueInv' /\ JobInv' /\ HealthExclusive' /\
        CountInv' /\ HealthInv'
    BY <1>1
      DEF MutexInv, ClaimInBounds, QueueInv, JobInv, HealthExclusive,
          CountInv, Unfinished, HealthInv, HealthMatchesStatus
  <1>6. QED
    BY <1>2, <1>3, <1>4, <1>5

LEMMA StopSignalStep ==
  ASSUME IndInv, StopSignal
  PROVE  IndInv'
  <1> USE DEF IndInv, StopSignal, workerVars, queueVars, healthVars
  <1>1. Busy' = Busy
    BY DEF TypeOK, Busy
  <1>2. TypeOK'
    BY DEF TypeOK, WorkerPc, DispatchPc, StopPc, Outcomes, Sources, NoJob
  <1>3. MutexInv'
    BY ThreadsAssumption
      DEF TypeOK, MutexInv, Nobody, Dispatcher
  <1>4. SleepInv'
    BY DEF TypeOK, MutexInv, SleepInv
  <1>5. QueueInv'
    BY DEF TypeOK, QueueInv, ClaimInBounds, MutexInv
  <1>6. HealthExclusive'
    BY <1>1
      DEF TypeOK, HealthExclusive, JobInv, ClaimInBounds, QueueInv
  <1>7. NoSleeperWithJobs'
    BY DEF TypeOK, NoSleeperWithJobs, SleepInv, QueueInv
  <1>8. CountInv'
    BY <1>1, BusyFinite
      DEF TypeOK, CountInv, Unfinished, QueueInv, NoSleeperWithJobs
  <1>9. ClaimInBounds' /\ JobInv' /\ HealthInv'
    BY <1>1
      DEF ClaimInBounds, JobInv, HealthInv, HealthMatchesStatus
  <1>10. QED
    BY <1>2, <1>3, <1>4, <1>5, <1>6, <1>7, <1>8, <1>9

LEMMA StopJoinDispatcherStep ==
  ASSUME IndInv, StopJoinDispatcher
  PROVE  IndInv'
  <1> USE DEF IndInv, StopJoinDispatcher, workerVars, dispatchVars, queueVars,
          healthVars
  <1>1. Busy' = Busy
    BY DEF TypeOK, Busy
  <1>2. TypeOK'
    BY DEF TypeOK, WorkerPc, DispatchPc, StopPc, Outcomes, Sources, NoJob
  <1>3. SleepInv'
    BY DEF TypeOK, MutexInv, SleepInv
  <1>4. MutexInv' /\ ClaimInBounds' /\ QueueInv' /\ JobInv' /\ HealthExclusive' /\
        NoSleeperWithJobs' /\ CountInv' /\ HealthInv'
    BY <1>1
      DEF MutexInv, ClaimInBounds, QueueInv, JobInv, HealthExclusive,
          NoSleeperWithJobs, CountInv, Unfinished, HealthInv,
          HealthMatchesStatus
  <1>5. QED
    BY <1>2, <1>3, <1>4

LEMMA StopJoinWorkersStep ==
  ASSUME IndInv, StopJoinWorkers
  PROVE  IndInv'
  <1> USE DEF IndInv, StopJoinWorkers, workerVars, dispatchVars, queueVars,
          healthVars
  <1>1. Busy' = Busy
    BY DEF TypeOK, Busy
  <1>2. TypeOK'
    BY DEF TypeOK, WorkerPc, DispatchPc, StopPc, Outcomes, Sources, NoJob
  <1>3. SleepInv'
    BY DEF TypeOK, MutexInv, SleepInv
  <1>4. MutexInv' /\ ClaimInBounds' /\ QueueInv' /\ JobInv' /\ HealthExclusive' /\
        NoSleeperWithJobs' /\ CountInv' /\ HealthInv'
    BY <1>1
      DEF MutexInv, ClaimInBounds, QueueInv, JobInv, HealthExclusive,
          NoSleeperWithJobs, CountInv, Unfinished, HealthInv,
          HealthMatchesStatus
  <1>5. QED
    BY <1>2, <1>3, <1>4

(* Every step of the pool preserves the invariant: one lemma per action.    *)
LEMMA InvStep ==
  ASSUME IndInv, [Next]_vars
  PROVE  IndInv'
  <1>1. ASSUME NEW w \in Workers, Worker(w) PROVE IndInv'
    BY <1>1, WorkerStartStep, WorkerLoopStep, WorkerLockStep, WorkerCheckStep,
       WorkerSleepStep, WorkerWakeStep, WorkerQuitStep, WorkerClaimStep,
       WorkerFetchStep, WorkerStatusStep, WorkerRecordStep, WorkerFinishStep
       DEF Worker
  <1>2. ASSUME NEW w \in Workers, SpuriousWake(w) PROVE IndInv'
    BY <1>2, SpuriousWakeStep
  <1>3. ASSUME Dispatch PROVE IndInv'
    BY <1>3, DispatchLoopStep, DispatchLockStep, DispatchScanStep,
       DispatchUnlockStep, DispatchSetStep, DispatchBroadcastStep,
       DispatchCheckStep, DispatchTimeoutStep, DispatchPublishStep,
       DispatchSleepStep, DispatchExitStep
       DEF Dispatch
  <1>4. ASSUME Stop PROVE IndInv'
    BY <1>4, StopRunningStep, StopBroadcastStep, StopSignalStep,
       StopJoinDispatcherStep, StopJoinWorkersStep
       DEF Stop
  <1>5. ASSUME UNCHANGED vars PROVE IndInv'
    BY <1>5 DEF vars, IndInv, TypeOK, MutexInv, SleepInv, ClaimInBounds,
       QueueInv, JobInv, HealthExclusive, NoSleeperWithJobs, CountInv,
       Unfinished, HealthInv, HealthMatchesStatus, Busy
  <1>6. QED
    BY <1>1, <1>2, <1>3, <1>4, <1>5 DEF Next, Stopped

LEMMA InvInit ==
  ASSUME Init
  PROVE  IndInv
  <1> USE DEF Init
  <1>1. TypeOK
    BY CountAssumption, WorkersAssumption
      DEF TypeOK, WorkerPc, DispatchPc, StopPc, Outcomes, Nobody
  <1>2. Busy = {}
    BY DEF Busy, BusyPc
  <1>3. Unfinished = 0
    BY <1>1, <1>2, BusyFinite DEF Unfinished
  <1>4. MutexInv /\ SleepInv /\ ClaimInBounds
    BY ThreadsAssumption DEF MutexInv, SleepInv, ClaimInBounds, Nobody, Dispatcher
  <1>5. QueueInv /\ JobInv /\ HealthExclusive /\ NoSleeperWithJobs
    BY <1>2 DEF QueueInv, JobInv, HealthExclusive, NoSleeperWithJobs, NoJob
  <1>6. CountInv /\ HealthInv
    BY <1>3 DEF CountInv, HealthInv, HealthMatchesStatus
  <1>7. QED
    BY <1>1, <1>4, <1>5, <1>6 DEF IndInv

-----------------------------------------------------------------------------
(* The inductive invariant holds throughout every execution of the pool,   *)
(* whatever the number of workers and sources.                             *)
THEOREM Invariance == Spec => []IndInv
  BY InvInit, InvStep, PTL DEF Spec

(* Every variable of the pool keeps its type; in particular the indices    *)
(* the workers claim are sources of the configuration.                     *)
THEOREM Typing == Spec => []TypeOK
  <1>1. IndInv => TypeOK
    BY DEF IndInv
  <1>2. QED
    BY <1>1, Invariance, PTL

(* The dispatcher passes its wait, and publishes, only when every job of   *)
(* the batch is finished, unless the scheduler is stopping.                *)
THEOREM BatchBarrier == Spec => []PublishAfterBatch
  <1>1. IndInv => PublishAfterBatch
    BY DEF IndInv, CountInv, PublishAfterBatch
  <1>2. QED
    BY <1>1, Invariance, PTL

(* A source and its health record are in the hands of one thread at a      *)
(* time, although no mutex protects rest_health.                           *)
THEOREM HealthRaceFree == Spec => []HealthExclusive
  <1>1. IndInv => HealthExclusive
    BY DEF IndInv
  <1>2. QED
    BY <1>1, Invariance, PTL

(* A worker claims only jobs the dispatcher put into the queue.            *)
THEOREM ClaimsAreJobs == Spec => []ClaimInBounds
  <1>1. IndInv => ClaimInBounds
    BY DEF IndInv
  <1>2. QED
    BY <1>1, Invariance, PTL

(* After the broadcast of mc_scheduler_stop no worker sleeps, or is about  *)
(* to sleep, on the queue: no wakeup is lost at shutdown.                  *)
THEOREM NoLostWakeupAtStop == Spec => []NoSleeperAfterStop
  <1>1. IndInv => NoSleeperAfterStop
    BY DEF IndInv, SleepInv, NoSleeperAfterStop
  <1>2. QED
    BY <1>1, Invariance, PTL

(* After the dispatcher's broadcast no worker sleeps while the queue has   *)
(* unclaimed jobs: no wakeup is lost when a batch is handed over.          *)
THEOREM NoLostWakeupInBatch == Spec => []NoSleeperWithJobs
  <1>1. IndInv => NoSleeperWithJobs
    BY DEF IndInv
  <1>2. QED
    BY <1>1, Invariance, PTL

(* The failures the scheduler counts and those the status table shows      *)
(* agree, except while a worker is between its two writes.                 *)
THEOREM StatusAgrees == Spec => []HealthMatchesStatus
  <1>1. IndInv => HealthMatchesStatus
    BY DEF IndInv, HealthInv
  <1>2. QED
    BY <1>1, Invariance, PTL
-----------------------------------------------------------------------------
(* The pool implements RestBatch: every step is a step of it or a stutter. *)

LEMMA BatchInit ==
  ASSUME Init
  PROVE  Batch!Init
  BY DEF Init, Batch!Init, Unclaimed

(* When every job is finished nothing is unclaimed and nobody is at work.  *)
LEMMA AllFinished ==
  ASSUME IndInv, Unfinished = 0
  PROVE  Batch!Idle
  <1>1. next = Len(indices) /\ Busy = {}
    BY BusyFinite DEF IndInv, TypeOK, QueueInv, Unfinished
  <1>2. \A w \in Workers : job[w] = NoJob
    BY <1>1 DEF IndInv, JobInv
  <1>3. Unclaimed = {}
    BY <1>1 DEF IndInv, TypeOK, Unclaimed
  <1>4. QED
    BY <1>2, <1>3 DEF Batch!Idle

(* A step that leaves the queue, the jobs and `running' alone, and leaves  *)
(* the dispatcher inside or outside the batch, is a stutter.               *)
LEMMA Stutter ==
  ASSUME UNCHANGED <<indices, next, job, running>>,
         dpc \in {"set", "broadcast", "check", "waiting"}
           <=> dpc' \in {"set", "broadcast", "check", "waiting"},
         dpc = "scan" <=> dpc' = "scan"
  PROVE  UNCHANGED Batch!vars
  BY DEF Batch!vars, Unclaimed

LEMMA ClaimTakes ==
  ASSUME IndInv, NEW w \in Workers, WorkerClaim(w)
  PROVE  Batch!Take(w, indices[next + 1]) /\ indices[next + 1] \in Sources
  <1> USE DEF IndInv, WorkerClaim, WGoto, dispatchVars
  <1>1. dpc # "scan" /\ next \in Nat /\ next + 1 \in 1..Len(indices)
    BY ThreadsAssumption DEF MutexInv, TypeOK, ClaimInBounds
  <1>2. indices[next + 1] \in Sources
    BY <1>1 DEF TypeOK
  <1>3. job[w] = NoJob
    BY DEF TypeOK, JobInv, Busy, BusyPc
  <1>4. indices[next + 1] \in Unclaimed
    BY <1>1 DEF Unclaimed
  <1>5. Unclaimed' = Unclaimed \ {indices[next + 1]}
    <2>1. Unclaimed = {indices[k] : k \in (next + 1)..Len(indices)}
      BY <1>1 DEF Unclaimed
    <2>2. Unclaimed' = {indices[k] : k \in (next + 2)..Len(indices)}
      BY <1>1 DEF Unclaimed
    <2>3. \A k \in (next + 2)..Len(indices) : indices[k] # indices[next + 1]
      BY <1>1 DEF TypeOK, QueueInv
    <2>4. (next + 1)..Len(indices) = {next + 1} \cup ((next + 2)..Len(indices))
      BY <1>1 DEF TypeOK
    <2>5. QED
      BY <2>1, <2>2, <2>3, <2>4
  <1>6. QED
    BY <1>2, <1>3, <1>4, <1>5 DEF Batch!Take

LEMMA UnlockOpens ==
  ASSUME IndInv, DispatchUnlock
  PROVE  (\E S \in SUBSET Sources : Batch!Open(S)) \/ UNCHANGED Batch!vars
  <1> USE DEF IndInv, DispatchUnlock, queueVars, workerVars, healthVars
  <1>1. next = 0 /\ Unclaimed = {} /\ \A w \in Workers : job[w] = NoJob
    BY DEF QueueInv, JobInv, CountInv, Unclaimed
  <1>2. CASE indices = <<>>
    <2>1. Unclaimed' = {}
      BY <1>1, <1>2 DEF Unclaimed
    <2>2. QED
      BY <1>1, <1>2, <2>1 DEF Batch!vars
  <1>3. CASE indices # <<>>
    <2>1. Unclaimed' = {indices[k] : k \in 1..Len(indices)}
      BY <1>1, <1>3 DEF Unclaimed
    <2>2. Unclaimed' \subseteq Sources
      BY <2>1 DEF TypeOK
    <2>3. Unclaimed' # {}
      <3>1. 1 \in 1..Len(indices)
        BY <1>3 DEF TypeOK
      <3>2. QED
        BY <2>1, <3>1
    <2>4. Batch!Open(Unclaimed')
      BY <1>1, <1>3, <2>3 DEF Batch!Open, Batch!Idle
    <2>5. QED
      BY <2>2, <2>4
  <1>4. QED
    BY <1>2, <1>3

LEMMA LockStutters ==
  ASSUME IndInv, DispatchLock
  PROVE  UNCHANGED Batch!vars
  <1>1. Unclaimed = {}
    BY AllFinished DEF DispatchLock, IndInv, CountInv, Batch!Idle
  <1>2. Unclaimed' = {}
    BY DEF DispatchLock, Unclaimed
  <1>3. QED
    BY <1>1, <1>2 DEF DispatchLock, workerVars, Batch!vars

LEMMA CheckCloses ==
  ASSUME IndInv, DispatchCheck
  PROVE  Batch!Close \/ UNCHANGED Batch!vars
  <1> USE DEF DispatchCheck, queueVars, workerVars
  <1>1. CASE rest_pending > 0 /\ running
    BY <1>1, Stutter
  <1>2. CASE ~(rest_pending > 0 /\ running)
    <2>1. running => Unfinished = 0
      BY <1>2, BusyFinite DEF IndInv, TypeOK, QueueInv, CountInv, Unfinished
    <2>2. ~running \/ Batch!Idle
      BY <2>1, AllFinished
    <2>3. QED
      BY <1>2, <2>2 DEF Batch!Close, Unclaimed
  <1>3. QED
    BY <1>1, <1>2

LEMMA FinishFinishes ==
  ASSUME IndInv, NEW w \in Workers, WorkerFinish(w)
  PROVE  Batch!Finish(w)
  <1> USE DEF IndInv, WorkerFinish, WGoto, queueVars
  <1>1. job[w] # NoJob
    BY DEF JobInv, Busy, BusyPc
  <1>2. Unclaimed' = Unclaimed
    BY DEF Unclaimed
  <1>3. QED
    BY <1>1, <1>2 DEF Batch!Finish

LEMMA BatchStep ==
  ASSUME IndInv, [Next]_vars
  PROVE  [Batch!Next]_(Batch!vars)
  <1> USE DEF queueVars, workerVars, dispatchVars
  <1>1. ASSUME NEW w \in Workers, Worker(w) PROVE Batch!Next \/ UNCHANGED Batch!vars
    <2>1. CASE WorkerClaim(w)
      BY <2>1, ClaimTakes DEF Batch!Next
    <2>2. CASE WorkerFinish(w)
      BY <2>2, FinishFinishes DEF Batch!Next
    <2>3. CASE \/ WorkerStart(w) \/ WorkerLoop(w) \/ WorkerLock(w)
               \/ WorkerCheck(w) \/ WorkerSleep(w) \/ WorkerWake(w)
               \/ WorkerQuit(w) \/ WorkerFetch(w) \/ WorkerStatus(w)
               \/ WorkerRecord(w)
      BY <2>3, Stutter
        DEF WorkerStart, WorkerLoop, WorkerLock, WorkerCheck, WorkerSleep,
            WorkerWake, WorkerQuit, WorkerFetch, WorkerStatus, WorkerRecord
    <2>4. QED
      BY <1>1, <2>1, <2>2, <2>3 DEF Worker
  <1>2. ASSUME NEW w \in Workers, SpuriousWake(w) PROVE UNCHANGED Batch!vars
    BY <1>2, Stutter DEF SpuriousWake
  <1>3. ASSUME Dispatch PROVE Batch!Next \/ UNCHANGED Batch!vars
    <2>1. CASE DispatchLock
      BY <2>1, LockStutters
    <2>2. CASE DispatchScan
      BY <2>2 DEF DispatchScan, Batch!vars, Unclaimed
    <2>3. CASE DispatchUnlock
      BY <2>3, UnlockOpens DEF Batch!Next
    <2>4. CASE DispatchCheck
      BY <2>4, CheckCloses DEF Batch!Next
    <2>5. CASE \/ DispatchLoop \/ DispatchSet \/ DispatchBroadcast
               \/ DispatchTimeout \/ DispatchPublish \/ DispatchSleep
               \/ DispatchExit
      BY <2>5, Stutter
        DEF DispatchLoop, DispatchSet, DispatchBroadcast, DispatchTimeout,
            DispatchPublish, DispatchSleep, DispatchExit
    <2>6. QED
      BY <1>3, <2>1, <2>2, <2>3, <2>4, <2>5 DEF Dispatch
  <1>4. ASSUME Stop PROVE Batch!Next \/ UNCHANGED Batch!vars
    <2>1. CASE StopRunning
      <3>1. running
        BY <2>1 DEF IndInv, SleepInv, StopRunning
      <3>2. Batch!Stop
        BY <2>1, <3>1 DEF StopRunning, Batch!Stop, Unclaimed
      <3>3. QED
        BY <3>2 DEF Batch!Next
    <2>2. CASE \/ StopBroadcast \/ StopSignal \/ StopJoinDispatcher
               \/ StopJoinWorkers
      BY <2>2, Stutter
        DEF StopBroadcast, StopSignal, StopJoinDispatcher, StopJoinWorkers
    <2>3. QED
      BY <1>4, <2>1, <2>2 DEF Stop
  <1>5. ASSUME UNCHANGED vars PROVE UNCHANGED Batch!vars
    BY <1>5, Stutter DEF vars
  <1>6. QED
    BY <1>1, <1>2, <1>3, <1>4, <1>5 DEF Next, Stopped

(* The pool implements RestBatch: one worker per source, and a batch is    *)
(* closed only when it is finished or the scheduler stops.                 *)
THEOREM PoolImplementsBatch == Spec => BatchSpec
  BY BatchInit, BatchStep, Invariance, PTL DEF Spec, BatchSpec, Batch!Spec
=============================================================================
