------------------------- MODULE ReviewQueueProofs -------------------------
(***************************************************************************)
(* Proofs about ReviewQueue for any number of processes, lanes, pull       *)
(* requests, commits, attempts, runs and environment steps.                *)
(***************************************************************************)
EXTENDS ReviewQueue, TLAPS

---------------------------------------------------------------------------
(* How the helpers of the lanes and of the run rows keep their types      *)

\* What the provers need of the assumption on the constants.
LEMMA Bounds == MaxRuns \in Nat /\ MaxMoves \in Nat /\ MaxAttempts \in Nat \ {0}
  BY QueueAssumption

\* None is no job, no process and no commit.
LEMMA NoneApart == None \notin Proc /\ None \notin Job /\ None \notin Sha
  BY QueueAssumption

\* GoTo, Rest and Fail keep the lanes well-typed and their jobs in place.
LaneTyped == lane \in [Lane -> LaneRow]

LaneHasJob == \A l \in Lane : lane[l].pc # "idle" => lane[l].job \in Job

TypeInv == TypeOK /\ LaneHasJob

\* Moving a lane to another place of run_one_job.
LEMMA GoToTyped ==
  ASSUME LaneTyped, LaneHasJob, NEW l \in Lane, lane[l].pc # "idle",
         NEW pc \in LanePc, GoTo(l, pc)
  PROVE  LaneTyped' /\ LaneHasJob'
  BY DEF LaneTyped, LaneHasJob, GoTo, LaneRow

\* A lane that has ended its job.
LEMMA RestTyped ==
  ASSUME LaneTyped, LaneHasJob, NEW l \in Lane, Rest(l)
  PROVE  LaneTyped' /\ LaneHasJob'
<1>1. IdleLane \in LaneRow
  BY Bounds DEF IdleLane, LaneRow, LanePc, NoRun
<1>2. IdleLane.pc = "idle"
  BY DEF IdleLane
<1>3. QED
  BY <1>1, <1>2 DEF LaneTyped, LaneHasJob, Rest

\* An exception moves a lane to one of the two failing exits.
LEMMA FailTyped ==
  ASSUME LaneTyped, LaneHasJob, NEW l \in Lane, lane[l].pc # "idle",
         NEW r \in 0..MaxRuns, Fail(l, r)
  PROVE  LaneTyped' /\ LaneHasJob'
<1>1. PICK pc \in {"failRetry", "failFinal"} :
        lane' = [lane EXCEPT ![l].pc = pc, ![l].run = r]
  BY DEF Fail
<1>2. pc \in LanePc
  BY DEF LanePc
<1>3. lane' = [lane EXCEPT ![l] = [lane[l] EXCEPT !.pc = pc, !.run = r]]
  BY <1>1
<1>4. QED
  BY <1>2, <1>3 DEF LaneTyped, LaneHasJob, LaneRow

\* finish_run writes a status and a reason, nothing else.
LEMMA FinishRunTyped ==
  ASSUME run \in [Run -> RunRow], NEW r,
         NEW status \in {"canceled", "failed"},
         NEW why \in {"none", "skip", "stale", "novendor"},
         FinishRun(r, status, why)
  PROVE  run' \in [Run -> RunRow]
<1>1. run' = [run EXCEPT ![r] = [run[r] EXCEPT !.status = status, !.why = why]]
  BY DEF FinishRun
<1>2. ASSUME r \in Run
      PROVE  [run[r] EXCEPT !.status = status, !.why = why] \in RunRow
  <2>1. run[r] \in RunRow
    BY <1>2
  <2>2. QED
    BY <2>1 DEF RunRow
<1>3. QED
  BY <1>1, <1>2

\* recover_expired rewrites status and owner of running rows only.
LEMMA RecoverTyped ==
  ASSUME job \in [Job -> JobRow], run \in [Run -> RunRow], NEW alive,
         RecoverExpired(alive)
  PROVE  job' \in [Job -> JobRow] /\ run' \in [Run -> RunRow]
<1>1. ASSUME NEW j \in Job
      PROVE  job'[j] \in JobRow
  <2>1. job[j] \in JobRow
    OBVIOUS
  <2>2. [job[j] EXCEPT !.status = "queued", !.owner = None] \in JobRow
    BY <2>1 DEF JobRow, JobStatus
  <2>3. QED
    BY <2>1, <2>2 DEF RecoverExpired
<1>2. job' \in [Job -> JobRow]
  BY <1>1 DEF RecoverExpired
<1>3. run' \in [Run -> RunRow]
  <2>1. ASSUME NEW r \in Run
        PROVE  run'[r] \in RunRow
    <3>1. run[r] \in RunRow
      OBVIOUS
    <3>2. [run[r] EXCEPT !.status = "failed"] \in RunRow
      BY <3>1 DEF RunRow
    <3>3. QED
      BY <3>1, <3>2 DEF RecoverExpired
  <2>2. QED
    BY <2>1 DEF RecoverExpired
<1>4. QED
  BY <1>2, <1>3

\* A new row is queued.
LEMMA InsertedTyped ==
  ASSUME rows \in Nat, NEW trigger \in Trigger, NEW r \in 0..MaxRuns
  PROVE  Inserted(trigger, r) \in JobRow
<1>1. NoJobRow \in JobRow
  BY Bounds DEF NoJobRow, JobRow, JobStatus, Trigger, NoRun
<1>2. "queued" \in JobStatus /\ rows + 1 \in Nat
  BY DEF JobStatus
<1>3. QED
  BY <1>1, <1>2 DEF Inserted, JobRow

\* A revived row is queued and starts its attempts anew.
LEMMA RevivedTyped ==
  ASSUME job \in [Job -> JobRow], NEW j \in Job, NEW trigger \in Trigger,
         NEW r \in 0..MaxRuns
  PROVE  Revived(j, trigger, r) \in JobRow
<1>1. job[j] \in JobRow
  OBVIOUS
<1>2. "queued" \in JobStatus /\ 0 \in 0..MaxAttempts
  BY Bounds DEF JobStatus
<1>3. QED
  BY <1>1, <1>2 DEF Revived, JobRow

\* An automatic enqueue.
LEMMA AutoEnqueueTyped ==
  ASSUME TypeOK, NEW j \in Job, AutoEnqueue(j)
  PROVE  job' \in [Job -> JobRow] /\ rows' \in Nat
<1>1. Inserted("auto", NoRun) \in JobRow
  BY InsertedTyped, Bounds DEF TypeOK, Trigger, NoRun
<1>2. Revived(j, "auto", job[j].retryRun) \in JobRow
  BY RevivedTyped DEF TypeOK, Trigger, JobRow
<1>3. QED
  BY <1>1, <1>2 DEF AutoEnqueue, TypeOK

\* A person's enqueue; a row that does not exist is not written.
LEMMA UserEnqueueTyped ==
  ASSUME TypeOK, NEW j, NEW trigger \in Trigger, NEW r \in 0..MaxRuns,
         UserEnqueue(j, trigger, r)
  PROVE  job' \in [Job -> JobRow] /\ rows' \in Nat
<1>1. Inserted(trigger, r) \in JobRow
  BY InsertedTyped DEF TypeOK
<1>2. ASSUME j \in Job
      PROVE  Revived(j, trigger, r) \in JobRow
  BY <1>2, RevivedTyped DEF TypeOK
<1>3. [job EXCEPT ![j].trigger = "manual"] \in [Job -> JobRow]
  <2>1. ASSUME j \in Job
        PROVE  [job[j] EXCEPT !.trigger = "manual"] \in JobRow
    <3>1. job[j] \in JobRow
      BY <2>1 DEF TypeOK
    <3>2. QED
      BY <3>1 DEF JobRow, Trigger
  <2>2. [job EXCEPT ![j].trigger = "manual"]
          = [job EXCEPT ![j] = [job[j] EXCEPT !.trigger = "manual"]]
    OBVIOUS
  <2>3. QED
    BY <2>1, <2>2 DEF TypeOK
<1>4. [job EXCEPT ![j] = Revived(j, trigger, r)] \in [Job -> JobRow]
  BY <1>2 DEF TypeOK
<1>5. QED
  BY <1>1, <1>3, <1>4 DEF UserEnqueue, TypeOK

\* A working lane has a job, a pull request and a commit.
LEMMA WorkingLane ==
  ASSUME TypeInv, NEW l \in Lane, lane[l].pc # "idle"
  PROVE  /\ lane[l].job \in Job
         /\ lane[l].job[1] \in Pr /\ lane[l].job[2] \in Sha
         /\ job[lane[l].job] \in JobRow
         /\ head[lane[l].job[1]] \in Sha
         /\ <<lane[l].job[1], head[lane[l].job[1]]>> \in Job
         /\ lane[l] \in LaneRow
         /\ lane[l].run \in 0..MaxRuns
         /\ LaneTyped
<1>1. lane[l].job \in Job
  BY DEF TypeInv, LaneHasJob
<1>2. lane[l].job[1] \in Pr /\ lane[l].job[2] \in Sha
  BY <1>1 DEF Job
<1>3. QED
  BY <1>1, <1>2 DEF TypeInv, TypeOK, Job, LaneTyped, LaneRow

---------------------------------------------------------------------------
(* Type correctness                                                       *)

\* The empty database, before any process has booted, is well-typed.
LEMMA TypeInit == Init => TypeInv
<1> SUFFICES ASSUME Init PROVE TypeInv
  OBVIOUS
<1>1. NoJobRow \in JobRow
  BY Bounds DEF NoJobRow, JobRow, JobStatus, Trigger, NoRun
<1>2. NoRunRow \in RunRow
  BY DEF NoRunRow, RunRow
<1>3. IdleLane \in LaneRow /\ IdleLane.pc = "idle"
  BY Bounds DEF IdleLane, LaneRow, LanePc, NoRun
<1>4. job \in [Job -> JobRow] /\ run \in [Run -> RunRow]
  BY <1>1, <1>2 DEF Init
<1>5. lane \in [Lane -> LaneRow] /\ LaneHasJob
  BY <1>3 DEF Init, LaneHasJob
<1>6. QED
  BY <1>4, <1>5, Bounds DEF Init, TypeInv, TypeOK

\* Enqueueing, settings and reports leave every variable well-typed.
LEMMA TypeRequests ==
  ASSUME TypeInv,
         \/ UserStep
         \/ \E p \in Pr : Close(p) \/ \E s \in Sha : Sync(p, s)
         \/ \E j \in Job : BackoffElapses(j)
  PROVE  TypeInv'
<1> USE DEF TypeInv
<1>0. Move => moves' \in 0..MaxMoves
  BY Bounds DEF Move, TypeOK
<1>1. ASSUME NEW p \in Pr, EnqueueManual(p)
      PROVE  TypeInv'
  <2>1. <<p, head[p]>> \in Job
    BY DEF TypeOK, Job
  <2>2. "manual" \in Trigger /\ NoRun \in 0..MaxRuns
    BY Bounds DEF Trigger, NoRun
  <2>3. job' \in [Job -> JobRow] /\ rows' \in Nat
    BY <1>1, <2>1, <2>2, UserEnqueueTyped DEF EnqueueManual
  <2>4. QED
    BY <1>0, <1>1, <2>3
       DEF EnqueueManual, TypeOK, LaneHasJob, prVars, procVars
<1>2. ASSUME NEW p \in Pr, CancelReview(p)
      PROVE  TypeInv'
  <2>1. ASSUME NEW j \in Job
        PROVE  [job[j] EXCEPT !.status = "canceled", !.cause = "user"]
                 \in JobRow
    <3>1. job[j] \in JobRow
      BY DEF TypeOK
    <3>2. "canceled" \in JobStatus
      BY DEF JobStatus
    <3>3. QED
      BY <3>1, <3>2 DEF JobRow
  <2>2. job' \in [Job -> JobRow]
    BY <1>2, <2>1 DEF CancelReview, TypeOK
  <2>3. QED
    BY <1>0, <1>2, <2>2
       DEF CancelReview, TypeOK, LaneHasJob, prVars, procVars
<1>3. ASSUME NEW r \in Run, EnqueueRetry(r)
      PROVE  TypeInv'
  <2>1. "retry" \in Trigger /\ r \in 0..MaxRuns
    BY Bounds DEF Trigger, Run
  <2>2. job' \in [Job -> JobRow] /\ rows' \in Nat
    BY <1>3, <2>1, UserEnqueueTyped DEF EnqueueRetry
  <2>3. QED
    BY <1>0, <1>3, <2>2
       DEF EnqueueRetry, TypeOK, LaneHasJob, prVars, procVars
<1>4. ASSUME NEW c \in RepoConfigs, SetConfig(c)
      PROVE  TypeInv'
  BY <1>0, <1>4 DEF SetConfig, TypeOK, LaneHasJob, prVars, dbVars, procVars
<1>5. ASSUME NEW p \in Pr, Close(p)
      PROVE  TypeInv'
  BY <1>0, <1>5 DEF Close, TypeOK, LaneHasJob, dbVars, procVars
<1>6. ASSUME NEW p \in Pr, NEW s \in Sha, Sync(p, s)
      PROVE  TypeInv'
  <2>1. <<p, s>> \in Job
    BY DEF Job
  <2>2. job' \in [Job -> JobRow] /\ rows' \in Nat
    BY <1>6, <2>1, AutoEnqueueTyped DEF Sync, TypeOK
  <2>3. moves' \in 0..MaxMoves
    BY <1>0, <1>6 DEF Sync, TypeOK
  <2>4. QED
    BY <1>6, <2>2, <2>3 DEF Sync, TypeOK, LaneHasJob, procVars
<1>7. ASSUME NEW j \in Job, BackoffElapses(j)
      PROVE  TypeInv'
  <2>1. job[j] \in JobRow
    BY DEF TypeOK
  <2>2. [job[j] EXCEPT !.delayed = FALSE] \in JobRow
    BY <2>1 DEF JobRow
  <2>3. job' \in [Job -> JobRow]
    BY <1>7, <2>2 DEF BackoffElapses, TypeOK
  <2>4. QED
    BY <1>7, <2>3 DEF BackoffElapses, TypeOK, LaneHasJob, prVars, procVars
<1>8. QED
  BY <1>1, <1>2, <1>3, <1>4, <1>5, <1>6, <1>7 DEF UserStep

\* What the steps of a lane that write no row leave to be shown.
LEMMA LaneOnly ==
  ASSUME TypeInv, LaneTyped' /\ LaneHasJob',
         UNCHANGED <<prVars, config, dbVars, procVars, moves>>
  PROVE  TypeInv'
  BY DEF TypeInv, TypeOK, LaneTyped, prVars, dbVars, procVars

\* The same for the steps that write the run rows.
LEMMA LaneAndRuns ==
  ASSUME TypeInv, LaneTyped' /\ LaneHasJob', run' \in [Run -> RunRow],
         UNCHANGED <<prVars, config, job, runs, rows, procVars, moves>>
  PROVE  TypeInv'
  BY DEF TypeInv, TypeOK, LaneTyped, prVars, procVars

\* The same for the steps that write the job rows.
LEMMA LaneAndJobs ==
  ASSUME TypeInv, LaneTyped' /\ LaneHasJob', job' \in [Job -> JobRow],
         rows' \in Nat,
         UNCHANGED <<prVars, config, run, runs, procVars, moves>>
  PROVE  TypeInv'
  BY DEF TypeInv, TypeOK, LaneTyped, prVars, procVars

\* Claiming, the gate, and the four ways a lane settles its job row.
LEMMA TypeSettles ==
  ASSUME TypeInv, NEW l \in Lane,
         \/ Claim(l) \/ Gate(l) \/ MarkCanceled(l)
         \/ CancelStaleAndEnqueueLatest(l) \/ MarkDone(l) \/ MarkFailed(l)
  PROVE  TypeInv'
<1> DEFINE j == lane[l].job
<1>0. LaneTyped /\ LaneHasJob /\ TypeOK
  BY DEF TypeInv, TypeOK, LaneTyped
<1>1. CASE Claim(l)
  <2>1. PICK k \in Ready :
          /\ job' = [job EXCEPT
                       ![k].status = "running", ![k].owner = l[1],
                       ![k].attempts = Counted(@)]
          /\ lane' = [lane EXCEPT ![l] =
                        [IdleLane EXCEPT !.pc = "gate", !.job = k,
                                         !.run = IF job[k].trigger = "retry"
                                                 THEN job[k].retryRun
                                                 ELSE NoRun]]
    BY <1>1 DEF Claim, Claimant
  <2>2. k \in Job /\ job[k] \in JobRow
    BY <2>1, <1>0 DEF Ready, TypeOK
  <2>3. Counted(job[k].attempts) \in 0..MaxAttempts
    BY <2>2, Bounds DEF Counted, JobRow
  <2>4. l[1] \in Proc /\ "running" \in JobStatus
    BY DEF Lane, JobStatus
  <2>5. [job[k] EXCEPT !.status = "running", !.owner = l[1],
                       !.attempts = Counted(@)] \in JobRow
    BY <2>2, <2>3, <2>4 DEF JobRow
  <2>6. job' \in [Job -> JobRow]
    BY <2>1, <2>2, <2>5, <1>0 DEF TypeOK
  <2>7. IdleLane \in LaneRow /\ "gate" \in LanePc /\ NoRun \in 0..MaxRuns
    BY Bounds DEF IdleLane, LaneRow, LanePc, NoRun
  <2>8. job[k].retryRun \in 0..MaxRuns
    BY <2>2 DEF JobRow
  <2>9. LaneTyped' /\ LaneHasJob'
    BY <2>1, <2>2, <2>7, <2>8, <1>0 DEF LaneTyped, LaneHasJob, LaneRow
  <2>10. QED
    BY <1>0, <1>1, <2>6, <2>9, LaneAndJobs DEF Claim, TypeOK
<1>2. CASE Gate(l)
  <2>1. lane[l].pc # "idle"
    BY <1>2 DEF Gate
  <2>2. {"cancel", "stale", "start", "retry"} \subseteq LanePc
    BY DEF LanePc
  <2>3. NoRun \in 0..MaxRuns
    BY Bounds DEF NoRun
  <2>4. \/ \E pc \in {"cancel", "stale", "start", "retry"} : GoTo(l, pc)
        \/ Fail(l, NoRun)
    BY <1>2 DEF Gate
  <2>5. LaneTyped' /\ LaneHasJob'
    BY <1>0, <2>1, <2>2, <2>3, <2>4, GoToTyped, FailTyped
  <2>6. QED
    BY <1>2, <2>5, LaneOnly DEF Gate
<1>3. CASE MarkCanceled(l)
  <2>1. job[j] \in JobRow /\ j \in Job
    BY <1>3, WorkingLane DEF MarkCanceled
  <2>2. [job[j] EXCEPT !.status = "canceled", !.cause = "system",
                       !.owner = None] \in JobRow
    BY <2>1 DEF JobRow, JobStatus
  <2>3. job' \in [Job -> JobRow]
    BY <1>0, <1>3, <2>2 DEF MarkCanceled, TypeOK
  <2>4. LaneTyped' /\ LaneHasJob'
    BY <1>0, <1>3, RestTyped DEF MarkCanceled
  <2>5. QED
    BY <1>0, <1>3, <2>3, <2>4, LaneAndJobs DEF MarkCanceled, TypeOK
<1>4. CASE CancelStaleAndEnqueueLatest(l)
  <2> DEFINE h == <<j[1], head[j[1]]>>
             trigger == IF job[j].trigger = "auto" THEN "auto" ELSE "manual"
  <2>1. job[j] \in JobRow /\ j \in Job /\ h \in Job
    BY <1>4, WorkingLane DEF CancelStaleAndEnqueueLatest
  <2>2. [job[j] EXCEPT !.status = "canceled", !.cause = "system",
                       !.owner = None] \in JobRow
    BY <2>1 DEF JobRow, JobStatus
  <2>3. StaleCanceled(l) \in [Job -> JobRow]
    BY <1>0, <2>2 DEF StaleCanceled, CancelOwn, TypeOK
  <2>4. trigger \in Trigger /\ NoRun \in 0..MaxRuns
    BY Bounds DEF Trigger, NoRun
  <2>5. Inserted(trigger, NoRun) \in JobRow
    BY <1>0, <2>4, InsertedTyped DEF TypeOK
  <2>6. Revived(h, trigger, NoRun) \in JobRow
    BY <1>0, <2>1, <2>4, RevivedTyped DEF TypeOK
  <2>7. job' \in [Job -> JobRow] /\ rows' \in Nat
    <3>1. rows \in Nat
      BY <1>0 DEF TypeOK
    <3>2. \/ job' = StaleCanceled(l) /\ rows' = rows
          \/ /\ job' = [StaleCanceled(l) EXCEPT ![h] = Inserted(trigger, NoRun)]
             /\ rows' = rows + 1
          \/ /\ job' = [StaleCanceled(l) EXCEPT
                            ![h] = Revived(h, trigger, NoRun)]
             /\ rows' = rows
      BY <1>4 DEF CancelStaleAndEnqueueLatest
    <3> HIDE DEF h, trigger
    <3>3. QED
      BY <2>3, <2>5, <2>6, <3>1, <3>2
  <2>8. LaneTyped' /\ LaneHasJob'
    BY <1>0, <1>4, RestTyped DEF CancelStaleAndEnqueueLatest
  <2>9. QED
    BY <1>4, <2>7, <2>8, LaneAndJobs DEF CancelStaleAndEnqueueLatest
<1>5. CASE MarkDone(l)
  <2>1. job[j] \in JobRow /\ j \in Job /\ lane[l].run \in 0..MaxRuns
    BY <1>5, WorkingLane DEF MarkDone
  <2>2. [job[j] EXCEPT !.status = "done", !.runId = lane[l].run,
                       !.owner = None] \in JobRow
    BY <2>1 DEF JobRow, JobStatus
  <2>3. job' \in [Job -> JobRow]
    BY <1>0, <1>5, <2>2 DEF MarkDone, TypeOK
  <2>4. LaneTyped' /\ LaneHasJob'
    BY <1>0, <1>5, RestTyped DEF MarkDone
  <2>5. QED
    BY <1>0, <1>5, <2>3, <2>4, LaneAndJobs DEF MarkDone, TypeOK
<1>6. CASE MarkFailed(l)
  <2> DEFINE again == lane[l].pc = "failRetry" /\ job[j].attempts < MaxAttempts
             pointer == IF lane[l].run = NoRun THEN job[j].runId
                                               ELSE lane[l].run
  <2>1. job[j] \in JobRow /\ j \in Job /\ lane[l].run \in 0..MaxRuns
    BY <1>6, WorkingLane DEF MarkFailed
  <2>2. pointer \in 0..MaxRuns
    BY <2>1 DEF JobRow
  <2>3. {"queued", "failed"} \subseteq JobStatus
    BY DEF JobStatus
  <2>4. [job[j] EXCEPT !.status = IF again THEN "queued" ELSE "failed",
                       !.delayed = IF again THEN TRUE ELSE @,
                       !.runId = pointer, !.owner = None] \in JobRow
    <3> HIDE DEF again, pointer
    <3>1. QED
      BY <2>1, <2>2, <2>3 DEF JobRow
  <2>5. Owns(l) => job' = [job EXCEPT ![j] =
          [job[j] EXCEPT !.status = IF again THEN "queued" ELSE "failed",
                         !.delayed = IF again THEN TRUE ELSE @,
                         !.runId = pointer, !.owner = None]]
    BY <1>6 DEF MarkFailed
  <2>6. job' \in [Job -> JobRow]
    <3> HIDE DEF again, pointer
    <3>1. QED
      BY <1>0, <1>6, <2>4, <2>5 DEF MarkFailed, TypeOK
  <2>7. LaneTyped' /\ LaneHasJob'
    BY <1>0, <1>6, RestTyped DEF MarkFailed
  <2>8. QED
    BY <1>0, <1>6, <2>6, <2>7, LaneAndJobs DEF MarkFailed, TypeOK
<1>7. QED
  BY <1>1, <1>2, <1>3, <1>4, <1>5, <1>6

\* The pipeline: creating, finishing and retrying a run.
LEMMA TypePipeline ==
  ASSUME TypeInv, NEW l \in Lane,
         \/ CreateRun(l) \/ HeadMoved(l) \/ StaleFinish(l) \/ Skip(l)
         \/ SkipFinish(l) \/ SkipMark(l) \/ NoVendor(l) \/ Persist(l)
         \/ RunFails(l) \/ Timeout(l) \/ RetryStart(l) \/ RetryPersist(l)
         \/ RetryFails(l)
  PROVE  TypeInv'
<1> DEFINE j == lane[l].job
           r == lane[l].run
<1>0. LaneTyped /\ LaneHasJob /\ TypeOK /\ run \in [Run -> RunRow]
  BY DEF TypeInv, TypeOK, LaneTyped
<1>1. lane[l].pc # "idle"
  BY DEF CreateRun, HeadMoved, StaleFinish, Skip, SkipFinish, SkipMark,
         NoVendor, Persist, RunFails, Timeout, RetryStart, RetryPersist,
         RetryFails
<1>2. j \in Job /\ r \in 0..MaxRuns /\ j[1] \in Pr /\ j[2] \in Sha
  BY <1>1, WorkingLane
<1>3. ASSUME NEW pc \in LanePc, GoTo(l, pc)
      PROVE  LaneTyped' /\ LaneHasJob'
  BY <1>0, <1>1, <1>3, GoToTyped
<1>4. {"stale", "body", "staleFinish", "skipFinish", "skipMark", "done",
       "retryBody", "failRetry", "failFinal"} \subseteq LanePc
  BY DEF LanePc
<1>5. CASE CreateRun(l)
  <2>1. CASE GoTo(l, "stale") /\ UNCHANGED <<run, runs>>
    <3>1. LaneTyped' /\ LaneHasJob'
      BY <1>3, <1>4, <2>1
    <3>2. QED
      BY <1>5, <2>1, <3>1, LaneOnly DEF CreateRun, dbVars
  <2>2. CASE /\ runs < MaxRuns
             /\ runs' = runs + 1
             /\ run' = [run EXCEPT ![runs + 1] =
                          [NoRunRow EXCEPT !.status = "running", !.job = j,
                                           !.owner = l[1]]]
             /\ lane' = [lane EXCEPT ![l].pc = "body", ![l].run = runs + 1,
                                     ![l].vendor = config.vendor]
    <3>1. NoRunRow \in RunRow
      BY DEF NoRunRow, RunRow
    <3>2. [NoRunRow EXCEPT !.status = "running", !.job = j, !.owner = l[1]]
            \in RunRow
      BY <1>2, <3>1 DEF RunRow, Lane
    <3>3. run' \in [Run -> RunRow]
      BY <1>0, <2>2, <3>2
    <3>4. runs + 1 \in 0..MaxRuns
      BY <1>0, <2>2, Bounds DEF TypeOK
    <3>5. config.vendor \in BOOLEAN
      BY <1>0, QueueAssumption DEF TypeOK
    <3>6. lane[l] \in LaneRow
      BY <1>1, WorkingLane
    <3>7. [lane[l] EXCEPT !.pc = "body", !.run = runs + 1,
                          !.vendor = config.vendor] \in LaneRow
      BY <1>4, <3>4, <3>5, <3>6 DEF LaneRow
    <3>8. lane' = [lane EXCEPT ![l] =
            [lane[l] EXCEPT !.pc = "body", !.run = runs + 1,
                            !.vendor = config.vendor]]
      BY <2>2
    <3>9. LaneTyped'
      BY <1>0, <3>7, <3>8 DEF LaneTyped
    <3>10. LaneHasJob'
      BY <1>0, <1>2, <3>6, <3>8 DEF LaneTyped, LaneHasJob, LaneRow
    <3>11. QED
      BY <1>0, <1>5, <2>2, <3>3, <3>4, <3>9, <3>10
         DEF CreateRun, TypeInv, TypeOK, LaneTyped, prVars, procVars
  <2>3. QED
    BY <1>5, <2>1, <2>2 DEF CreateRun
<1>6. CASE HeadMoved(l)
  BY <1>3, <1>4, <1>6, LaneOnly DEF HeadMoved
<1>7. CASE StaleFinish(l)
  <2>1. run' \in [Run -> RunRow]
    BY <1>0, <1>7, FinishRunTyped DEF StaleFinish
  <2>2. QED
    BY <1>3, <1>4, <1>7, <2>1, LaneAndRuns DEF StaleFinish
<1>8. CASE Skip(l)
  BY <1>3, <1>4, <1>8, LaneOnly DEF Skip
<1>9. CASE SkipFinish(l)
  <2>1. run' \in [Run -> RunRow]
    BY <1>0, <1>9, FinishRunTyped DEF SkipFinish
  <2>2. QED
    BY <1>3, <1>4, <1>9, <2>1, LaneAndRuns DEF SkipFinish
<1>10. CASE SkipMark(l)
  <2>1. LaneTyped' /\ LaneHasJob'
    BY <1>3, <1>4, <1>10 DEF SkipMark
  <2>2. QED
    BY <1>0, <1>2, <1>10, <2>1
       DEF SkipMark, TypeInv, TypeOK, LaneTyped, dbVars, procVars
<1>11. CASE NoVendor(l)
  <2>1. run' \in [Run -> RunRow]
    BY <1>0, <1>11, FinishRunTyped DEF NoVendor
  <2>2. QED
    BY <1>3, <1>4, <1>11, <2>1, LaneAndRuns DEF NoVendor
<1>12. CASE Persist(l)
  <2>1. CASE Abandon(l) /\ UNCHANGED <<run, reviewed>>
    <3>1. LaneTyped' /\ LaneHasJob'
      BY <1>0, <2>1, RestTyped DEF Abandon
    <3>2. QED
      BY <1>12, <2>1, <3>1, LaneOnly DEF Persist, prVars, dbVars
  <2>2. ASSUME NEW partial \in BOOLEAN,
               run' = [run EXCEPT ![r].status = "done",
                                  ![r].partial = partial],
               reviewed' = [reviewed EXCEPT ![j[1]] = j[2]],
               GoTo(l, "done")
        PROVE  TypeInv'
    <3>1. run' \in [Run -> RunRow]
      <4>1. run' = [run EXCEPT ![r] = [run[r] EXCEPT !.status = "done",
                                                    !.partial = partial]]
        BY <2>2
      <4>2. ASSUME r \in Run
            PROVE  [run[r] EXCEPT !.status = "done", !.partial = partial]
                     \in RunRow
        <5>1. run[r] \in RunRow
          BY <1>0, <4>2
        <5>2. QED
          BY <5>1 DEF RunRow
      <4>3. QED
        BY <1>0, <4>1, <4>2
    <3>2. reviewed' \in [Pr -> Sha \cup {None}]
      BY <1>0, <1>2, <2>2 DEF TypeOK
    <3>3. LaneTyped' /\ LaneHasJob'
      BY <1>3, <1>4, <2>2
    <3>4. QED
      BY <1>0, <1>12, <3>1, <3>2, <3>3
         DEF Persist, TypeInv, TypeOK, LaneTyped, procVars
  <2>3. QED
    BY <1>12, <2>1, <2>2 DEF Persist
<1>13. CASE RunFails(l)
  <2>1. run' \in [Run -> RunRow]
    BY <1>0, <1>13, FinishRunTyped DEF RunFails
  <2>2. LaneTyped' /\ LaneHasJob'
    BY <1>0, <1>1, <1>2, <1>13, FailTyped DEF RunFails
  <2>3. QED
    BY <1>13, <2>1, <2>2, LaneAndRuns DEF RunFails
<1>14. CASE Timeout(l)
  <2>1. run' \in [Run -> RunRow]
    BY <1>0, <1>14 DEF Timeout, RunRow
  <2>2. lane[l] \in LaneRow
    BY <1>1, WorkingLane
  <2>3. [lane[l] EXCEPT !.pc = "failRetry", !.run = NoRun] \in LaneRow
    <3>1. "failRetry" \in LanePc /\ NoRun \in 0..MaxRuns
      BY Bounds DEF LanePc, NoRun
    <3>2. QED
      BY <2>2, <3>1 DEF LaneRow
  <2>4. lane' = [lane EXCEPT ![l] =
                   [lane[l] EXCEPT !.pc = "failRetry", !.run = NoRun]]
    BY <1>14 DEF Timeout
  <2>5. LaneTyped' /\ LaneHasJob'
    BY <1>0, <1>2, <2>2, <2>3, <2>4 DEF LaneTyped, LaneHasJob, LaneRow
  <2>6. QED
    BY <1>14, <2>1, <2>5, LaneAndRuns DEF Timeout
<1>15. CASE RetryStart(l)
  <2>1. \E pc \in {"stale", "failFinal", "retryBody", "done"} : GoTo(l, pc)
    BY <1>15 DEF RetryStart
  <2>2. QED
    BY <1>3, <1>4, <1>15, <2>1, LaneOnly DEF RetryStart
<1>16. CASE RetryPersist(l)
  <2>1. run' \in [Run -> RunRow]
    <3>1. ASSUME NEW partial \in BOOLEAN
          PROVE  [run EXCEPT ![r].partial = partial] \in [Run -> RunRow]
      <4>1. [run EXCEPT ![r].partial = partial]
              = [run EXCEPT ![r] = [run[r] EXCEPT !.partial = partial]]
        OBVIOUS
      <4>2. ASSUME r \in Run
            PROVE  [run[r] EXCEPT !.partial = partial] \in RunRow
        <5>1. run[r] \in RunRow
          BY <1>0, <4>2
        <5>2. QED
          BY <5>1 DEF RunRow
      <4>3. QED
        BY <1>0, <4>1, <4>2
    <3>2. QED
      BY <1>0, <1>16, <3>1 DEF RetryPersist
  <2>2. Abandon(l) \/ GoTo(l, "stale") \/ GoTo(l, "done")
    BY <1>16 DEF RetryPersist
  <2>3. LaneTyped' /\ LaneHasJob'
    BY <1>0, <1>3, <1>4, <2>2, RestTyped DEF Abandon
  <2>4. QED
    BY <1>16, <2>1, <2>3, LaneAndRuns DEF RetryPersist
<1>17. CASE RetryFails(l)
  <2>1. LaneTyped' /\ LaneHasJob'
    BY <1>0, <1>1, <1>2, <1>17, FailTyped DEF RetryFails
  <2>2. QED
    BY <1>17, <2>1, LaneOnly DEF RetryFails
<1>18. QED
  BY <1>5, <1>6, <1>7, <1>8, <1>9, <1>10, <1>11, <1>12, <1>13, <1>14, <1>15,
     <1>16, <1>17

\* Processes booting, beating, stopping and dying.
LEMMA TypeProcesses ==
  ASSUME TypeInv,
         \/ \E p \in Proc : ProcStep(p)
         \/ \E l \in Lane : CancelLane(l)
  PROVE  TypeInv'
<1>0. LaneTyped /\ LaneHasJob /\ TypeOK
  BY DEF TypeInv, TypeOK, LaneTyped
<1>1. ASSUME NEW p \in Proc, Boot(p)
      PROVE  TypeInv'
  <2>1. job' \in [Job -> JobRow] /\ run' \in [Run -> RunRow]
    BY <1>0, <1>1, RecoverTyped DEF Boot, TypeOK
  <2>2. QED
    BY <1>0, <1>1, <2>1 DEF Boot, TypeInv, TypeOK, LaneHasJob, prVars
<1>2. ASSUME NEW p \in Proc, Heartbeat(p)
      PROVE  TypeInv'
  <2>1. job' \in [Job -> JobRow] /\ run' \in [Run -> RunRow]
    BY <1>0, <1>2, RecoverTyped DEF Heartbeat, TypeOK
  <2>2. QED
    BY <1>0, <1>2, <2>1
       DEF Heartbeat, TypeInv, TypeOK, LaneHasJob, prVars, procVars
<1>3. ASSUME NEW p \in Proc,
             LeaseLost(p) \/ LeaseExpires(p) \/ Shutdown(p) \/ Release(p)
      PROVE  TypeInv'
  BY <1>0, <1>3
     DEF LeaseLost, LeaseExpires, Shutdown, Release, TypeInv, TypeOK,
         LaneHasJob, prVars, dbVars
<1>4. ASSUME NEW p \in Proc, Crash(p)
      PROVE  TypeInv'
  <2>1. IdleLane \in LaneRow /\ IdleLane.pc = "idle"
    BY Bounds DEF IdleLane, LaneRow, LanePc, NoRun
  <2>2. lane' \in [Lane -> LaneRow] /\ LaneHasJob'
    BY <1>0, <1>4, <2>1 DEF Crash, LaneTyped, LaneHasJob
  <2>3. QED
    BY <1>0, <1>4, <2>2 DEF Crash, TypeInv, TypeOK, prVars, dbVars
<1>5. ASSUME NEW l \in Lane, CancelLane(l)
      PROVE  TypeInv'
  BY <1>0, <1>5, RestTyped, LaneOnly DEF CancelLane
<1>6. QED
  BY <1>1, <1>2, <1>3, <1>4, <1>5 DEF ProcStep

\* Every step of the system keeps the state well-typed.
LEMMA TypeStep == TypeInv /\ [Next]_vars => TypeInv'
<1>1. TypeInv /\ Next => TypeInv'
  BY TypeRequests, TypeSettles, TypePipeline, TypeProcesses
     DEF Next, LaneStep
<1>2. TypeInv /\ UNCHANGED vars => TypeInv'
  BY DEF vars, TypeInv, TypeOK, LaneHasJob
<1>3. QED
  BY <1>1, <1>2

\* The columns of the four tables and the local variables of the lanes keep
\* their types, whatever the number of processes, lanes, commits and runs.
THEOREM TypeCorrect == Spec => []TypeOK
<1>1. TypeInv => TypeOK
  BY DEF TypeInv
<1>2. QED
  BY TypeInit, TypeStep, <1>1, PTL DEF Spec

---------------------------------------------------------------------------
(* The lease protocol excludes concurrent work: a job in hand in a process *)
(* with an unexpired lease is that process's, and a review is persisted by *)
(* the process that started it, or not at all.                             *)

---------------------------------------------------------------------------
(* The inductive invariant                                                *)

\* A process that has not booted has no lease and no lane at work.
OffIsDark ==
  /\ \A p \in Proc : proc[p] = "off" => p \notin live
  /\ \A l \in Lane : proc[l[1]] = "off" => lane[l].pc = "idle"

ExclusionInv == TypeInv /\ OffIsDark /\ LiveOwnerExclusive

\* What most steps do to the lanes: a lane keeps its job until it rests.
LanesKept ==
  \A l \in Lane : lane'[l].pc # "idle" =>
    lane[l].pc # "idle" /\ lane'[l].job = lane[l].job

\* What most steps do to the job table: a running row keeps its owner.
RunningKept ==
  \A j \in Job : job[j].status = "running" =>
    job'[j].status = "running" /\ job'[j].owner = job[j].owner

\* Nothing new is excluded when lanes at most rest, leases at most expire and
\* the rows in hand stay as they are.
LEMMA ExclusionKept ==
  ASSUME LaneHasJob, LiveOwnerExclusive, live' \subseteq live, LanesKept,
         \A l \in Lane : l[1] \in live' /\ lane'[l].pc # "idle" =>
           /\ job'[lane[l].job].status = "running"
           /\ job'[lane[l].job].owner = job[lane[l].job].owner
  PROVE  LiveOwnerExclusive'
  BY DEF LaneHasJob, LiveOwnerExclusive, LanesKept, Holds

\* In particular when no running row is touched.
LEMMA ExclusionKeptByRunning ==
  ASSUME LaneHasJob, LiveOwnerExclusive, live' \subseteq live, LanesKept,
         RunningKept
  PROVE  LiveOwnerExclusive'
<1>1. ASSUME NEW l \in Lane, l[1] \in live', lane'[l].pc # "idle"
      PROVE  /\ job'[lane[l].job].status = "running"
             /\ job'[lane[l].job].owner = job[lane[l].job].owner
  BY <1>1 DEF LaneHasJob, LiveOwnerExclusive, LanesKept, RunningKept
<1>2. QED
  BY <1>1, ExclusionKept

\* A step that boots no process and starts no lane wakes none in the dark.
LEMMA DarkKept ==
  ASSUME OffIsDark, LanesKept, live' \subseteq live,
         \A p \in Proc : proc'[p] = "off" => proc[p] = "off"
  PROVE  OffIsDark'
<1>1. \A l \in Lane : l[1] \in Proc
  BY DEF Lane
<1>2. QED
  BY <1>1 DEF OffIsDark, LanesKept

---------------------------------------------------------------------------
(* Every step keeps the invariant                                         *)

\* Before any process has booted nothing is in hand.
LEMMA ExclusionInit == Init => ExclusionInv
<1>1. Init => LiveOwnerExclusive
  BY DEF Init, LiveOwnerExclusive
<1>2. Init => OffIsDark
  BY DEF Init, OffIsDark, IdleLane
<1>3. QED
  BY <1>1, <1>2, TypeInit DEF ExclusionInv

\* No enqueue touches a running row: ON CONFLICT DO NOTHING, and every UPDATE
\* names the states it revives.
LEMMA AutoEnqueueKeepsRunning ==
  ASSUME TypeInv, NEW j \in Job, AutoEnqueue(j)
  PROVE  RunningKept
  BY DEF AutoEnqueue, SystemCanceled, RunningKept, TypeInv, TypeOK

\* A request of a person finds the same states.
LEMMA UserEnqueueKeepsRunning ==
  ASSUME TypeInv, NEW j, NEW trigger, NEW r, UserEnqueue(j, trigger, r)
  PROVE  RunningKept
  BY DEF UserEnqueue, RunningKept, TypeInv, TypeOK

\* Requests of the poller, of webhooks and of people.
LEMMA ExclusionRequests ==
  ASSUME ExclusionInv,
         \/ UserStep
         \/ \E p \in Pr : Close(p) \/ \E s \in Sha : Sync(p, s)
         \/ \E j \in Job : BackoffElapses(j)
  PROVE  OffIsDark' /\ LiveOwnerExclusive'
<1>1. TypeInv /\ job \in [Job -> JobRow]
  BY DEF ExclusionInv, TypeInv, TypeOK
<1>2. UNCHANGED <<lane, proc, live>>
  BY DEF UserStep, Close, Sync, BackoffElapses, EnqueueManual, CancelReview,
         EnqueueRetry, SetConfig, procVars
<1>3. RunningKept
  <2>1. CASE UNCHANGED job
    BY <2>1 DEF RunningKept
  <2>2. ASSUME NEW p \in Pr, NEW s \in Sha, Sync(p, s)
        PROVE  RunningKept
    <3>1. <<p, s>> \in Job
      BY DEF Job
    <3>2. AutoEnqueue(<<p, s>>) \/ UNCHANGED job
      BY <2>2 DEF Sync
    <3>3. QED
      BY <1>1, <2>1, <3>1, <3>2, AutoEnqueueKeepsRunning
  <2>3. ASSUME NEW p \in Pr, EnqueueManual(p)
        PROVE  RunningKept
    BY <1>1, <2>3, UserEnqueueKeepsRunning DEF EnqueueManual
  <2>4. ASSUME NEW r \in Run, EnqueueRetry(r)
        PROVE  RunningKept
    BY <1>1, <2>4, UserEnqueueKeepsRunning DEF EnqueueRetry
  <2>5. ASSUME NEW p \in Pr, CancelReview(p)
        PROVE  RunningKept
    BY <2>5 DEF CancelReview, RunningKept
  <2>6. ASSUME NEW j \in Job, BackoffElapses(j)
        PROVE  RunningKept
    BY <1>1, <2>6 DEF BackoffElapses, RunningKept
  <2>7. ASSUME NEW p \in Pr, Close(p)
        PROVE  RunningKept
    BY <2>1, <2>7 DEF Close, dbVars
  <2>8. ASSUME NEW c \in RepoConfigs, SetConfig(c)
        PROVE  RunningKept
    BY <2>1, <2>8 DEF SetConfig, dbVars
  <2>9. QED
    BY <2>2, <2>3, <2>4, <2>5, <2>6, <2>7, <2>8 DEF UserStep
<1>4. LanesKept /\ live' \subseteq live
  BY <1>2 DEF LanesKept
<1>5. QED
  BY <1>2, <1>3, <1>4, ExclusionKeptByRunning, DarkKept
     DEF ExclusionInv, TypeInv

\* claim_next takes a queued row, so no lane of a live process has it in hand,
\* and the lane that takes it was idle.
LEMMA ExclusionClaim ==
  ASSUME ExclusionInv, NEW l \in Lane, Claim(l)
  PROVE  OffIsDark' /\ LiveOwnerExclusive'
<1>1. PICK j \in Job :
        /\ job[j].status = "queued"
        /\ job' = [job EXCEPT ![j].status = "running", ![j].owner = l[1],
                              ![j].attempts = Counted(@)]
        /\ lane' = [lane EXCEPT ![l] =
                      [IdleLane EXCEPT !.pc = "gate", !.job = j,
                                       !.run = IF job[j].trigger = "retry"
                                               THEN job[j].retryRun
                                               ELSE NoRun]]
  BY DEF Claim, Claimant, Ready
<1>2. /\ job \in [Job -> JobRow]
      /\ lane \in [Lane -> LaneRow]
      /\ LaneHasJob
  BY DEF ExclusionInv, TypeInv, TypeOK
<1>3. job'[j].status = "running" /\ job'[j].owner = l[1]
  BY <1>1, <1>2 DEF JobRow
<1>4. \A k \in Job : k # j => job'[k] = job[k]
  BY <1>1, <1>2
<1>5. lane'[l].job = j /\ \A m \in Lane : m # l => lane'[m] = lane[m]
  BY <1>1, <1>2 DEF IdleLane
<1>6. UNCHANGED <<proc, live>> /\ proc[l[1]] = "up"
  BY DEF Claim, procVars
<1>7. \A m \in Lane : m[1] \in live /\ lane[m].pc # "idle" => lane[m].job # j
  BY <1>1 DEF ExclusionInv, LiveOwnerExclusive
<1>8. LiveOwnerExclusive'
  BY <1>2, <1>3, <1>4, <1>5, <1>6, <1>7
     DEF ExclusionInv, LiveOwnerExclusive, Holds, LaneHasJob
<1>9. OffIsDark'
  BY <1>5, <1>6 DEF ExclusionInv, OffIsDark
<1>10. QED
  BY <1>8, <1>9

\* The steps between the claim and the settling statement leave the job table
\* alone, and the lane keeps its job.
LEMMA ExclusionPipeline ==
  ASSUME ExclusionInv, NEW l \in Lane,
         \/ Gate(l) \/ CreateRun(l) \/ HeadMoved(l) \/ StaleFinish(l)
         \/ Skip(l) \/ SkipFinish(l) \/ SkipMark(l) \/ NoVendor(l)
         \/ Persist(l) \/ RunFails(l) \/ Timeout(l) \/ RetryStart(l)
         \/ RetryPersist(l) \/ RetryFails(l) \/ CancelLane(l)
  PROVE  OffIsDark' /\ LiveOwnerExclusive'
<1>1. lane \in [Lane -> LaneRow] /\ LaneHasJob
  BY DEF ExclusionInv, TypeInv, TypeOK
<1>2. UNCHANGED <<job, proc, live>> /\ lane[l].pc # "idle"
  BY DEF Gate, CreateRun, HeadMoved, StaleFinish, Skip, SkipFinish, SkipMark,
         NoVendor, Persist, RunFails, Timeout, RetryStart, RetryPersist,
         RetryFails, CancelLane, dbVars, procVars
<1>3. lane[l] \in LaneRow /\ IdleLane.pc = "idle"
  BY <1>1 DEF IdleLane
<1> DEFINE Moved ==
      /\ \A m \in Lane : m # l => lane'[m] = lane[m]
      /\ lane'[l].job = lane[l].job \/ lane'[l].pc = "idle"
<1>4. Moved
  <2>1. ASSUME NEW pc, GoTo(l, pc) PROVE Moved
    BY <1>1, <1>3, <2>1 DEF GoTo, LaneRow
  <2>2. ASSUME Rest(l) PROVE Moved
    BY <1>1, <1>3, <2>2 DEF Rest
  <2>3. ASSUME NEW r, Fail(l, r) PROVE Moved
    BY <1>1, <1>3, <2>3 DEF Fail, LaneRow
  <2>4. ASSUME Timeout(l) PROVE Moved
    BY <1>1, <1>3, <2>4 DEF Timeout, LaneRow
  <2>5. ASSUME CreateRun(l) PROVE Moved
    BY <1>1, <1>3, <2>1, <2>5 DEF CreateRun, LaneRow
  <2>6. QED
    BY <2>1, <2>2, <2>3, <2>4, <2>5
       DEF Gate, HeadMoved, StaleFinish, Skip, SkipFinish, SkipMark, NoVendor,
           Persist, RunFails, RetryStart, RetryPersist, RetryFails, CancelLane,
           Abandon
<1>5. LanesKept
  BY <1>2, <1>4 DEF LanesKept
<1>6. RunningKept /\ live' \subseteq live
  BY <1>2 DEF RunningKept
<1>7. QED
  BY <1>1, <1>2, <1>5, <1>6, ExclusionKeptByRunning, DarkKept DEF ExclusionInv

\* A settling statement writes the lane's own row, and only if the process
\* still owns it; the stale path also writes the row of the current head, if
\* that row is absent or canceled.  The lane rests in the same step.
LEMMA ExclusionSettles ==
  ASSUME ExclusionInv, NEW l \in Lane,
         \/ MarkCanceled(l) \/ CancelStaleAndEnqueueLatest(l)
         \/ MarkDone(l) \/ MarkFailed(l)
  PROVE  OffIsDark' /\ LiveOwnerExclusive'
<1> DEFINE own == lane[l].job
<1>1. /\ lane \in [Lane -> LaneRow] /\ LaneHasJob
      /\ job \in [Job -> JobRow]
  BY DEF ExclusionInv, TypeInv, TypeOK
<1>2. Rest(l) /\ UNCHANGED <<proc, live>> /\ lane[l].pc # "idle" /\ own \in Job
  BY <1>1 DEF MarkCanceled, CancelStaleAndEnqueueLatest, MarkDone, MarkFailed,
              procVars, LaneHasJob
<1>3. LanesKept
  BY <1>1, <1>2 DEF Rest, LanesKept, IdleLane
<1>4. \A k \in Job :
        k # own /\ job[k].status = "running" => job'[k] = job[k]
  <2>1. CASE MarkCanceled(l)
    BY <1>1, <2>1 DEF MarkCanceled
  <2>2. CASE MarkDone(l)
    BY <1>1, <2>2 DEF MarkDone
  <2>3. CASE MarkFailed(l)
    BY <1>1, <2>3 DEF MarkFailed
  <2>4. CASE CancelStaleAndEnqueueLatest(l)
    <3> DEFINE h == <<own[1], head[own[1]]>>
    <3>1. \A k \in Job : k # own => StaleCanceled(l)[k] = job[k]
      BY <1>1 DEF StaleCanceled, CancelOwn
    <3>2. DOMAIN StaleCanceled(l) = Job
      BY <1>1 DEF StaleCanceled, CancelOwn
    <3>3. \A k \in Job : k # own /\ k # h => job'[k] = job[k]
      BY <1>1, <2>4, <3>1, <3>2 DEF CancelStaleAndEnqueueLatest
    <3>4. job[h].status = "running" /\ h # own => job' = StaleCanceled(l)
      BY <2>4 DEF CancelStaleAndEnqueueLatest, SystemCanceled
    <3>5. QED
      BY <3>1, <3>3, <3>4
  <2>5. QED
    BY <2>1, <2>2, <2>3, <2>4
<1>5. job[own].owner # l[1] => job'[own] = job[own]
  <2>1. CASE MarkCanceled(l)
    BY <2>1 DEF MarkCanceled, Owns
  <2>2. CASE MarkDone(l)
    BY <2>2 DEF MarkDone, Owns
  <2>3. CASE MarkFailed(l)
    BY <2>3 DEF MarkFailed, Owns
  <2>4. CASE CancelStaleAndEnqueueLatest(l)
    <3> DEFINE h == <<own[1], head[own[1]]>>
    <3>1. job[own].owner # l[1] => StaleCanceled(l) = job
      BY DEF StaleCanceled, CancelOwn, Owns
    <3>2. h # own => \/ job' = StaleCanceled(l)
                     \/ \E x : job' = [StaleCanceled(l) EXCEPT ![h] = x]
      BY <2>4 DEF CancelStaleAndEnqueueLatest
    <3>3. h = own => job' = StaleCanceled(l)
      BY <2>4 DEF CancelStaleAndEnqueueLatest
    <3> HIDE DEF h
    <3>4. QED
      BY <1>1, <1>2, <3>1, <3>2, <3>3
  <2>5. QED
    BY <2>1, <2>2, <2>3, <2>4
<1>6. ASSUME NEW m \in Lane, m[1] \in live', lane'[m].pc # "idle"
      PROVE  /\ job'[lane[m].job].status = "running"
             /\ job'[lane[m].job].owner = job[lane[m].job].owner
  <2>1. m # l
    BY <1>1, <1>2, <1>6 DEF Rest, IdleLane
  <2>2. /\ lane[m].pc # "idle" /\ m[1] \in live /\ lane[m].job \in Job
        /\ job[lane[m].job].status = "running"
        /\ job[lane[m].job].owner = m[1]
    BY <1>1, <1>2, <1>3, <1>6
       DEF LanesKept, ExclusionInv, LiveOwnerExclusive, LaneHasJob
  <2>3. CASE lane[m].job # own
    BY <1>4, <2>2, <2>3
  <2>4. CASE lane[m].job = own
    <3>1. l[1] \notin live
      BY <1>2, <2>1, <2>2, <2>4
         DEF ExclusionInv, LiveOwnerExclusive, Holds
    <3>2. job[own].owner # l[1]
      BY <2>2, <2>4, <3>1
    <3>3. QED
      BY <1>5, <2>2, <2>4, <3>2
  <2>5. QED
    BY <2>3, <2>4
<1>7. QED
  BY <1>1, <1>2, <1>3, <1>6, ExclusionKept, DarkKept DEF ExclusionInv

\* Booting, recovery and the ends of a process: recover_expired touches rows
\* of expired owners only, and nothing renews a lease that has expired.
LEMMA ExclusionProcesses ==
  ASSUME ExclusionInv, NEW p \in Proc, ProcStep(p)
  PROVE  OffIsDark' /\ LiveOwnerExclusive'
<1>1. /\ lane \in [Lane -> LaneRow] /\ LaneHasJob
      /\ job \in [Job -> JobRow]
      /\ proc \in [Proc -> {"off", "up", "stopping", "gone"}]
  BY DEF ExclusionInv, TypeInv, TypeOK
<1>2. ASSUME NEW alive, RecoverExpired(alive), NEW j \in Job,
             job[j].owner \in alive
      PROVE  job'[j] = job[j]
  BY <1>2 DEF RecoverExpired, Expired
<1>3. \A l \in Lane : l[1] \in Proc
  BY DEF Lane
<1>4. CASE Boot(p)
  <2>1. live' = live \cup {p} /\ UNCHANGED lane /\ RecoverExpired(live')
    BY <1>4 DEF Boot
  <2>2. \A l \in Lane : l[1] = p => lane[l].pc = "idle"
    BY <1>4 DEF Boot, ExclusionInv, OffIsDark
  <2>3. \A l \in Lane : l[1] \in live' /\ lane[l].pc # "idle" =>
          l[1] \in live /\ job'[lane[l].job] = job[lane[l].job]
    BY <1>1, <1>2, <2>1, <2>2
       DEF ExclusionInv, LiveOwnerExclusive, LaneHasJob
  <2>4. LiveOwnerExclusive'
    BY <2>1, <2>3 DEF ExclusionInv, LiveOwnerExclusive, Holds
  <2>5. OffIsDark'
    BY <1>1, <1>4, <2>1 DEF Boot, ExclusionInv, OffIsDark
  <2>6. QED
    BY <2>4, <2>5
<1>5. CASE Heartbeat(p)
  <2>1. UNCHANGED <<lane, proc, live>> /\ RecoverExpired(live)
    BY <1>5 DEF Heartbeat, procVars
  <2>2. \A l \in Lane : l[1] \in live /\ lane[l].pc # "idle" =>
          job'[lane[l].job] = job[lane[l].job]
    BY <1>1, <1>2, <2>1
       DEF ExclusionInv, LiveOwnerExclusive, LaneHasJob
  <2>3. LiveOwnerExclusive'
    BY <2>1, <2>2 DEF ExclusionInv, LiveOwnerExclusive, Holds
  <2>4. QED
    BY <2>1, <2>3 DEF ExclusionInv, OffIsDark
<1>6. CASE LeaseLost(p) \/ LeaseExpires(p) \/ Shutdown(p) \/ Release(p)
           \/ Crash(p)
  <2>1. UNCHANGED job /\ live' \subseteq live
    BY <1>6 DEF LeaseLost, LeaseExpires, Shutdown, Release, Crash, dbVars
  <2>2. RunningKept
    BY <2>1 DEF RunningKept
  <2>3. LanesKept
    BY <1>1, <1>6 DEF LeaseLost, LeaseExpires, Shutdown, Release, Crash,
                      LanesKept, IdleLane
  <2>4. \A q \in Proc : proc'[q] = "off" => proc[q] = "off"
    BY <1>1, <1>6 DEF LeaseLost, LeaseExpires, Shutdown, Release, Crash
  <2>5. QED
    BY <1>1, <2>1, <2>2, <2>3, <2>4, ExclusionKeptByRunning, DarkKept
       DEF ExclusionInv
<1>7. QED
  BY <1>4, <1>5, <1>6 DEF ProcStep

\* Every step of the system keeps the exclusion invariant.
LEMMA ExclusionStep == ExclusionInv /\ [Next]_vars => ExclusionInv'
<1>1. ASSUME ExclusionInv, Next PROVE ExclusionInv'
  <2>1. TypeInv'
    BY <1>1, TypeStep DEF ExclusionInv
  <2>2. OffIsDark' /\ LiveOwnerExclusive'
    BY <1>1, ExclusionRequests, ExclusionClaim, ExclusionPipeline,
       ExclusionSettles, ExclusionProcesses DEF Next, LaneStep
  <2>3. QED
    BY <2>1, <2>2 DEF ExclusionInv
<1>2. ASSUME ExclusionInv, UNCHANGED vars PROVE ExclusionInv'
  <2>1. TypeInv'
    BY <1>2, TypeStep DEF ExclusionInv
  <2>2. QED
    BY <1>2, <2>1 DEF ExclusionInv, OffIsDark, LiveOwnerExclusive, Holds, vars
<1>3. QED
  BY <1>1, <1>2

\* Two lanes of live processes never have the same job in hand, and the job in
\* hand in a live process is running in its name: claim_next, the owner guards
\* of mark_done, mark_failed and mark_canceled, and recover_expired together.
THEOREM Exclusive == Spec => []LiveOwnerExclusive
<1>1. ExclusionInv => LiveOwnerExclusive
  BY DEF ExclusionInv
<1>2. QED
  BY ExclusionInit, ExclusionStep, <1>1, PTL DEF Spec

---------------------------------------------------------------------------
(* The persist barrier                                                    *)

\* A lane in the pipeline works for the run it created for its own job.
BodyOwnsRun ==
  \A l \in Lane : lane[l].pc = "body" =>
    /\ lane[l].run \in 1..runs
    /\ run[lane[l].run].job = lane[l].job
    /\ run[lane[l].run].owner = l[1]

FenceInv == ExclusionInv /\ BodyOwnsRun

\* What every step does to the runs: a row that exists keeps its job and its
\* owner.
RunsKept ==
  /\ runs' \in Nat /\ runs <= runs'
  /\ \A r \in 1..runs : run'[r].job = run[r].job /\ run'[r].owner = run[r].owner

\* What every step but the insertion of a run does to the lanes in the
\* pipeline.
BodiesKept ==
  \A l \in Lane : lane'[l].pc = "body" =>
    /\ lane[l].pc = "body"
    /\ lane'[l].job = lane[l].job
    /\ lane'[l].run = lane[l].run

\* The invariant survives every step that keeps runs and pipelines so.
LEMMA BodyOwnsRunKept ==
  ASSUME TypeInv, BodyOwnsRun, RunsKept, BodiesKept
  PROVE  BodyOwnsRun'
<1>1. runs \in Nat
  BY Bounds DEF TypeInv, TypeOK
<1>2. QED
  BY <1>1 DEF BodyOwnsRun, RunsKept, BodiesKept

\* Steps that touch neither the runs nor a lane in the pipeline.
LEMMA BodyElsewhere ==
  ASSUME TypeInv, BodyOwnsRun, UNCHANGED <<run, runs>>, BodiesKept
  PROVE  BodyOwnsRun'
<1>1. runs \in Nat
  BY Bounds DEF TypeInv, TypeOK
<1>2. RunsKept
  BY <1>1 DEF RunsKept
<1>3. QED
  BY <1>2, BodyOwnsRunKept

\* review_pr inserts the run of its own job and process; no other step enters
\* the pipeline, and no statement moves a run to another job or owner.
LEMMA FencePipeline ==
  ASSUME TypeInv, BodyOwnsRun, NEW l \in Lane, LaneStep(l)
  PROVE  BodyOwnsRun'
<1>1. /\ lane \in [Lane -> LaneRow] /\ LaneHasJob
      /\ run \in [Run -> RunRow]
      /\ runs \in 0..MaxRuns /\ runs \in Nat
  BY Bounds DEF TypeInv, TypeOK
<1>2. 1..runs \subseteq Run
  BY <1>1, Bounds DEF Run
<1>3. ASSUME NEW r, NEW status, NEW why, FinishRun(r, status, why),
             UNCHANGED runs
      PROVE  RunsKept
  BY <1>1, <1>2, <1>3 DEF FinishRun, RunsKept, RunRow
<1>4. ASSUME UNCHANGED <<run, runs>>
      PROVE  RunsKept
  BY <1>1, <1>4 DEF RunsKept
<1>5. ASSUME NEW pc, pc # "body", GoTo(l, pc)
      PROVE  BodiesKept
  BY <1>1, <1>5 DEF GoTo, BodiesKept, LaneRow
<1>6. ASSUME Rest(l)
      PROVE  BodiesKept
  BY <1>1, <1>6 DEF Rest, BodiesKept, IdleLane
<1>7. ASSUME NEW r, Fail(l, r)
      PROVE  BodiesKept
  BY <1>1, <1>7 DEF Fail, BodiesKept, LaneRow
<1>8. CASE CreateRun(l)
  <2>1. CASE GoTo(l, "stale") /\ UNCHANGED <<run, runs>>
    BY <1>5, <2>1, BodyElsewhere
  <2>2. CASE ~(GoTo(l, "stale") /\ UNCHANGED <<run, runs>>)
    <3> DEFINE j == lane[l].job
    <3>1. /\ runs < MaxRuns
          /\ runs' = runs + 1
          /\ run' = [run EXCEPT ![runs + 1] =
                       [NoRunRow EXCEPT !.status = "running", !.job = j,
                                        !.owner = l[1]]]
          /\ lane' = [lane EXCEPT ![l].pc = "body", ![l].run = runs + 1,
                                  ![l].vendor = config.vendor]
      BY <1>8, <2>2 DEF CreateRun
    <3>2. runs + 1 \in Run
      BY <1>1, <3>1, Bounds DEF Run
    <3>3. run'[runs + 1].job = j /\ run'[runs + 1].owner = l[1]
      BY <1>1, <3>1, <3>2 DEF NoRunRow
    <3>4. RunsKept
      BY <1>1, <1>2, <3>1 DEF RunsKept
    <3>5. lane'[l].job = j /\ lane'[l].run = runs + 1
      BY <1>1, <3>1 DEF LaneRow
    <3>6. \A m \in Lane : m # l => lane'[m] = lane[m]
      BY <1>1, <3>1
    <3>7. ASSUME NEW m \in Lane, lane'[m].pc = "body"
          PROVE  /\ lane'[m].run \in 1..runs'
                 /\ run'[lane'[m].run].job = lane'[m].job
                 /\ run'[lane'[m].run].owner = m[1]
      <4>1. CASE m = l
        BY <1>1, <3>1, <3>3, <3>5, <4>1
      <4>2. CASE m # l
        BY <1>1, <3>1, <3>4, <3>6, <3>7, <4>2 DEF BodyOwnsRun, RunsKept
      <4>3. QED
        BY <4>1, <4>2
    <3>8. QED
      BY <3>7 DEF BodyOwnsRun
  <2>3. QED
    BY <2>1, <2>2
<1>9. CASE Gate(l) \/ HeadMoved(l) \/ Skip(l) \/ SkipMark(l)
           \/ RetryStart(l) \/ RetryFails(l)
  <2>1. BodiesKept
    BY <1>5, <1>7, <1>9 DEF Gate, HeadMoved, Skip, SkipMark, RetryStart,
                            RetryFails
  <2>2. UNCHANGED <<run, runs>>
    BY <1>9 DEF Gate, HeadMoved, Skip, SkipMark, RetryStart, RetryFails, dbVars
  <2>3. QED
    BY <2>1, <2>2, BodyElsewhere
<1>10. CASE StaleFinish(l) \/ SkipFinish(l) \/ NoVendor(l) \/ RunFails(l)
  <2>1. BodiesKept
    BY <1>5, <1>7, <1>10 DEF StaleFinish, SkipFinish, NoVendor, RunFails
  <2>2. RunsKept
    BY <1>3, <1>10 DEF StaleFinish, SkipFinish, NoVendor, RunFails
  <2>3. QED
    BY <2>1, <2>2, BodyOwnsRunKept
<1>11. CASE MarkCanceled(l) \/ CancelStaleAndEnqueueLatest(l)
            \/ MarkDone(l) \/ MarkFailed(l)
  <2>1. BodiesKept /\ UNCHANGED <<run, runs>>
    BY <1>6, <1>11 DEF MarkCanceled, CancelStaleAndEnqueueLatest, MarkDone,
                       MarkFailed
  <2>2. QED
    BY <2>1, BodyElsewhere
<1>12. CASE Persist(l) \/ RetryPersist(l)
  <2>1. BodiesKept
    BY <1>5, <1>6, <1>12 DEF Persist, RetryPersist, Abandon
  <2>2. RunsKept
    <3>1. \/ UNCHANGED run
          \/ \E partial \in BOOLEAN :
               run' = [run EXCEPT ![lane[l].run].status = "done",
                                  ![lane[l].run].partial = partial]
          \/ \E partial \in BOOLEAN :
               run' = [run EXCEPT ![lane[l].run].partial = partial]
      BY <1>12 DEF Persist, RetryPersist
    <3>2. ASSUME NEW r \in Run
          PROVE  run'[r].job = run[r].job /\ run'[r].owner = run[r].owner
      <4>1. \/ run'[r] = run[r]
            \/ \E partial \in BOOLEAN :
                 run'[r] = [run[r] EXCEPT !.status = "done",
                                          !.partial = partial]
            \/ \E partial \in BOOLEAN :
                 run'[r] = [run[r] EXCEPT !.partial = partial]
        BY <1>1, <3>1
      <4>2. run[r] \in RunRow
        BY <1>1
      <4>3. ASSUME NEW partial \in BOOLEAN,
                   run'[r] = [run[r] EXCEPT !.status = "done",
                                            !.partial = partial]
            PROVE  run'[r].job = run[r].job /\ run'[r].owner = run[r].owner
        BY <4>2, <4>3 DEF RunRow
      <4>4. ASSUME NEW partial \in BOOLEAN,
                   run'[r] = [run[r] EXCEPT !.partial = partial]
            PROVE  run'[r].job = run[r].job /\ run'[r].owner = run[r].owner
        BY <4>2, <4>4 DEF RunRow
      <4>5. QED
        BY <4>1, <4>3, <4>4
    <3>3. UNCHANGED runs
      BY <1>12 DEF Persist, RetryPersist
    <3>4. QED
      BY <1>1, <1>2, <3>2, <3>3 DEF RunsKept
  <2>3. QED
    BY <2>1, <2>2, BodyOwnsRunKept
<1>13. CASE Timeout(l)
  <2>1. BodiesKept
    BY <1>1, <1>13 DEF Timeout, BodiesKept, LaneRow
  <2>2. RunsKept
    BY <1>1, <1>2, <1>13 DEF Timeout, RunsKept, RunRow
  <2>3. QED
    BY <2>1, <2>2, BodyOwnsRunKept
<1>14. QED
  BY <1>8, <1>9, <1>10, <1>11, <1>12, <1>13 DEF LaneStep

\* The steps of the other actors neither insert a run nor enter the pipeline.
LEMMA FenceElsewhere ==
  ASSUME TypeInv, BodyOwnsRun,
         \/ UserStep
         \/ \E p \in Pr : Close(p) \/ \E s \in Sha : Sync(p, s)
         \/ \E j \in Job : BackoffElapses(j)
         \/ \E l \in Lane : Claim(l) \/ CancelLane(l)
         \/ \E p \in Proc : ProcStep(p)
  PROVE  BodyOwnsRun'
<1>1. /\ lane \in [Lane -> LaneRow]
      /\ run \in [Run -> RunRow]
      /\ runs \in 0..MaxRuns /\ runs \in Nat
  BY Bounds DEF TypeInv, TypeOK
<1>2. 1..runs \subseteq Run
  BY <1>1, Bounds DEF Run
<1>3. CASE UserStep \/ (\E p \in Pr : Close(p) \/ \E s \in Sha : Sync(p, s))
           \/ \E j \in Job : BackoffElapses(j)
  <2>1. UNCHANGED <<lane, run, runs>>
    BY <1>3 DEF UserStep, Close, Sync, BackoffElapses, EnqueueManual,
                CancelReview, EnqueueRetry, SetConfig, dbVars
  <2>2. QED
    BY <2>1, BodyElsewhere DEF BodiesKept
<1>4. ASSUME NEW l \in Lane, Claim(l) \/ CancelLane(l)
      PROVE  BodyOwnsRun'
  <2>1. BodiesKept
    <3>1. \A m \in Lane : m # l => lane'[m] = lane[m]
      BY <1>1, <1>4 DEF Claim, CancelLane, Rest
    <3>2. lane'[l].pc # "body"
      <4>1. CASE CancelLane(l)
        BY <1>1, <4>1 DEF CancelLane, Rest, IdleLane
      <4>2. CASE Claim(l)
        <5>1. PICK j \in Job :
                lane' = [lane EXCEPT ![l] =
                           [IdleLane EXCEPT !.pc = "gate", !.job = j,
                                            !.run = IF job[j].trigger = "retry"
                                                    THEN job[j].retryRun
                                                    ELSE NoRun]]
          BY <4>2 DEF Claim, Ready
        <5>2. lane'[l].pc = "gate"
          BY <1>1, <5>1 DEF IdleLane
        <5>3. QED
          BY <5>2
      <4>3. QED
        BY <1>4, <4>1, <4>2
    <3>3. QED
      BY <3>1, <3>2 DEF BodiesKept
  <2>2. UNCHANGED <<run, runs>>
    BY <1>4 DEF Claim, CancelLane, dbVars
  <2>3. QED
    BY <2>1, <2>2, BodyElsewhere
<1>5. ASSUME NEW p \in Proc, ProcStep(p)
      PROVE  BodyOwnsRun'
  <2>1. BodiesKept
    BY <1>1, <1>5 DEF ProcStep, Boot, Heartbeat, LeaseLost, LeaseExpires,
                      Shutdown, Release, Crash, BodiesKept, IdleLane, procVars
  <2>2. UNCHANGED runs
    BY <1>5 DEF ProcStep, Boot, Heartbeat, LeaseLost, LeaseExpires, Shutdown,
                Release, Crash, dbVars
  <2>3. UNCHANGED run \/ \E alive : RecoverExpired(alive)
    BY <1>5 DEF ProcStep, Boot, Heartbeat, LeaseLost, LeaseExpires, Shutdown,
                Release, Crash, dbVars
  <2>4. ASSUME NEW r \in Run
        PROVE  run'[r].job = run[r].job /\ run'[r].owner = run[r].owner
    <3>1. run'[r] = run[r] \/ run'[r] = [run[r] EXCEPT !.status = "failed"]
      BY <2>3 DEF RecoverExpired
    <3>2. run[r] \in RunRow
      BY <1>1
    <3>3. CASE run'[r] = [run[r] EXCEPT !.status = "failed"]
      BY <3>2, <3>3 DEF RunRow
    <3>4. QED
      BY <3>1, <3>3
  <2>5. RunsKept
    BY <1>1, <1>2, <2>2, <2>4 DEF RunsKept
  <2>6. QED
    BY <2>1, <2>5, BodyOwnsRunKept
<1>6. QED
  BY <1>3, <1>4, <1>5

\* Only the persist barrier completes a run.
LEMMA OnlyPersistCompletes ==
  ASSUME FenceInv, Next, NEW r \in Run, Persists(r)
  PROVE  \E l \in Lane : Persist(l) /\ HoldsLease(l) /\ r = lane[l].run
<1>1. run \in [Run -> RunRow] /\ runs \in 0..MaxRuns
  BY DEF FenceInv, ExclusionInv, TypeInv, TypeOK
<1>2. ~UNCHANGED run
  BY DEF Persists
<1>3. ~UserStep /\ ~(\E p \in Pr : Close(p) \/ \E s \in Sha : Sync(p, s))
      /\ ~(\E j \in Job : BackoffElapses(j))
  BY <1>2 DEF UserStep, Close, Sync, BackoffElapses, EnqueueManual,
              CancelReview, EnqueueRetry, SetConfig, dbVars
<1>4. ASSUME NEW p \in Proc, ProcStep(p)
      PROVE  FALSE
  <2>1. \E alive : RecoverExpired(alive)
    BY <1>2, <1>4 DEF ProcStep, Boot, Heartbeat, LeaseLost, LeaseExpires,
                      Shutdown, Release, Crash, dbVars
  <2>2. run'[r] = run[r] \/ run'[r] = [run[r] EXCEPT !.status = "failed"]
    BY <2>1 DEF RecoverExpired
  <2>3. run[r] \in RunRow
    BY <1>1
  <2>4. [run[r] EXCEPT !.status = "failed"].status = "failed"
    BY <2>3 DEF RunRow
  <2>5. QED
    BY <2>2, <2>4 DEF Persists
<1>5. PICK l \in Lane : Claim(l) \/ LaneStep(l) \/ CancelLane(l)
  BY <1>3, <1>4 DEF Next
<1>6. ASSUME NEW k, NEW status \in {"canceled", "failed"}, NEW why,
             FinishRun(k, status, why)
      PROVE  FALSE
  BY <1>1, <1>6 DEF FinishRun, Persists, RunRow
<1>7. ~CreateRun(l)
  <2>1. ASSUME CreateRun(l), run' # run PROVE FALSE
    <3>1. run' = [run EXCEPT ![runs + 1] =
                   [NoRunRow EXCEPT !.status = "running",
                                    !.job = lane[l].job, !.owner = l[1]]]
      BY <2>1 DEF CreateRun
    <3>2. QED
      BY <1>1, <3>1 DEF Persists, NoRunRow
  <2>2. QED
    BY <1>2, <2>1
<1>8. ~Timeout(l)
  BY <1>1 DEF Timeout, Persists, RunRow
<1>9. ~RetryPersist(l)
  <2>1. ASSUME NEW partial \in BOOLEAN,
               run' = [run EXCEPT ![lane[l].run].partial = partial]
        PROVE  FALSE
    BY <1>1, <2>1 DEF Persists, RunRow
  <2>2. QED
    BY <1>2, <2>1 DEF RetryPersist
<1>10. Persist(l)
  <2>1. ~StaleFinish(l) /\ ~SkipFinish(l) /\ ~NoVendor(l) /\ ~RunFails(l)
    BY <1>6 DEF StaleFinish, SkipFinish, NoVendor, RunFails
  <2>2. ~(Claim(l) \/ CancelLane(l) \/ Gate(l) \/ HeadMoved(l) \/ Skip(l)
          \/ SkipMark(l) \/ RetryStart(l) \/ RetryFails(l)
          \/ MarkCanceled(l) \/ CancelStaleAndEnqueueLatest(l)
          \/ MarkDone(l) \/ MarkFailed(l))
    BY <1>2 DEF Claim, CancelLane, Gate, HeadMoved, Skip, SkipMark, RetryStart,
                RetryFails, MarkCanceled, CancelStaleAndEnqueueLatest,
                MarkDone, MarkFailed, dbVars
  <2>3. QED
    BY <1>5, <1>7, <1>8, <1>9, <2>1, <2>2 DEF LaneStep
<1>11. HoldsLease(l) /\ r = lane[l].run
  <2>1. HoldsLease(l)
    BY <1>2, <1>10 DEF Persist
  <2>2. \E partial \in BOOLEAN :
          run' = [run EXCEPT ![lane[l].run].status = "done",
                             ![lane[l].run].partial = partial]
    BY <1>2, <1>10, <2>1 DEF Persist
  <2>3. r # lane[l].run => run'[r] = run[r]
    BY <1>1, <2>2
  <2>4. QED
    BY <2>1, <2>3 DEF Persists
<1>12. QED
  BY <1>10, <1>11

\* A step that completes a run is taken by its creator, under its lease, while
\* the job row is running in its name and the head is the reviewed commit.
LEMMA FencedNext == FenceInv /\ [Next]_vars => FencedStep
<1>1. ASSUME FenceInv, Next, NEW r \in Run, Persists(r)
      PROVE  /\ run[r].owner \in live
             /\ job[run[r].job].status = "running"
             /\ job[run[r].job].owner = run[r].owner
             /\ head[run[r].job[1]] = run[r].job[2]
  <2>1. PICK l \in Lane : Persist(l) /\ HoldsLease(l) /\ r = lane[l].run
    BY <1>1, OnlyPersistCompletes
  <2>2. lane[l].pc = "body" /\ head[lane[l].job[1]] = lane[l].job[2]
    BY <2>1 DEF Persist
  <2>3. run[r].job = lane[l].job /\ run[r].owner = l[1]
    BY <1>1, <2>1, <2>2 DEF FenceInv, BodyOwnsRun
  <2>4. l[1] \in live
    BY <2>1 DEF HoldsLease
  <2>5. job[lane[l].job].status = "running" /\ job[lane[l].job].owner = l[1]
    BY <1>1, <2>2, <2>4 DEF FenceInv, ExclusionInv, LiveOwnerExclusive
  <2>6. QED
    BY <2>2, <2>3, <2>4, <2>5
<1>2. UNCHANGED vars => FencedStep
  BY DEF vars, FencedStep, Persists
<1>3. QED
  BY <1>1, <1>2 DEF FencedStep

\* Before any process has booted no lane is in the pipeline.
LEMMA FenceInit == Init => FenceInv
<1>1. Init => BodyOwnsRun
  BY DEF Init, BodyOwnsRun, IdleLane
<1>2. QED
  BY <1>1, ExclusionInit DEF FenceInv

\* Every step of the system keeps the strengthened invariant.
LEMMA FenceStep == FenceInv /\ [Next]_vars => FenceInv'
<1>1. FenceInv /\ [Next]_vars => ExclusionInv'
  BY ExclusionStep DEF FenceInv
<1>2. FenceInv /\ Next => BodyOwnsRun'
  BY FencePipeline, FenceElsewhere DEF FenceInv, ExclusionInv, Next
<1>3. FenceInv /\ UNCHANGED vars => BodyOwnsRun'
  BY DEF FenceInv, BodyOwnsRun, vars
<1>4. QED
  BY <1>1, <1>2, <1>3 DEF FenceInv

\* The persist barrier of review_pr: a process whose lease expired in the
\* middle of a review never completes it, whoever runs the job by then.
THEOREM Fenced == Spec => PersistFenced
<1>1. Init => FenceInv
  BY FenceInit
<1>2. FenceInv /\ [Next]_vars => FenceInv'
  BY FenceStep
<1>3. FenceInv /\ [Next]_vars => FencedStep
  BY FencedNext
<1>4. QED
  BY <1>1, <1>2, <1>3, PTL DEF Spec, PersistFenced
=============================================================================
