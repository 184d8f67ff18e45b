---------------------------- MODULE ReviewQueue ----------------------------
(***************************************************************************)
(* The review job queue: review_job rows claimed by the worker lanes of    *)
(* one or more server processes, executed by the review pipeline under a   *)
(* process lease, and recovered by any live process when a lease expires.  *)
(*                                                                         *)
(* The database is the only shared state.  Every action below is one       *)
(* committed statement or transaction of server/repos/*.py, together with  *)
(* the reads the code makes in the same uninterrupted stretch of code.     *)
(* A worker lane is a lane of one process: lane <<p, i>> runs in p.        *)
(***************************************************************************)
EXTENDS Integers, FiniteSets

CONSTANTS
  Proc,         \* process identities; every boot draws a fresh uuid4
  Slots,        \* worker lanes of a process (at most two in the code)
  Pr,           \* pull requests of one registered repository
  Sha,          \* commits a pull request head may point at
  None,         \* SQL NULL
  RepoConfigs,  \* repository settings an operator may switch between
  Punctual,     \* processes whose heartbeat is never late while they run
  Durable,      \* processes that neither crash nor shut down
  MaxAttempts,  \* review_job.max_attempts
  MaxRuns,      \* bound: review_run rows that may be created
  MaxMoves      \* bound: pushes, closes, setting changes and user commands

Job  == Pr \X Sha          \* review_job, UNIQUE(pr_id, head_sha)
Lane == Proc \X Slots
Run  == 1..MaxRuns         \* review_run ids, allocated in order
NoRun == 0

ASSUME QueueAssumption ==
  /\ None \notin Proc \cup Job \cup Sha
  /\ MaxAttempts \in Nat \ {0}
  /\ MaxRuns \in Nat
  /\ MaxMoves \in Nat
  /\ RepoConfigs # {}
  /\ RepoConfigs \subseteq [enabled : BOOLEAN, auto : BOOLEAN, vendor : BOOLEAN]

VARIABLES
  head,      \* pull_request.head_sha as the database knows it
  open,      \* pull_request.state = 'open'
  reviewed,  \* pull_request.last_reviewed_sha
  config,    \* the repo row: enabled, trigger_mode = 'auto', any vendor on
  job,       \* review_job rows
  run,       \* review_run rows
  runs,      \* number of review_run rows created so far
  rows,      \* number of review_job rows created so far
  lane,      \* local variables of every worker lane
  proc,      \* life cycle of every server process
  live,      \* processes whose process_lease row has not expired
  moves      \* how many bounded environment steps have been taken

dbVars   == <<job, run, runs, rows>>
prVars   == <<head, open, reviewed>>
procVars == <<proc, live>>
vars == <<head, open, reviewed, config, job, run, runs, rows, lane, proc,
          live, moves>>

---------------------------------------------------------------------------
(* Types and initial state                                                *)

JobStatus == {"none", "queued", "running", "done", "failed", "canceled"}
Trigger   == {"auto", "manual", "retry"}

\* cause: what the error column says of a canceled row; rank: the row id.
\* attempts stops counting at MaxAttempts, the only value it is compared with:
\* the column itself has no bound, a recovered row is claimed beyond max_attempts.
JobRow ==
  [status : JobStatus, trigger : Trigger, attempts : 0..MaxAttempts,
   owner : Proc \cup {None}, cause : {"none", "system", "user"},
   delayed : BOOLEAN, runId : 0..MaxRuns, retryRun : 0..MaxRuns, rank : Nat]

\* why: the reason a canceled run carries; partial: some vendor_result of the
\* run is failed, partial or timeout.
RunRow ==
  [status : {"none", "running", "done", "failed", "canceled"},
   job : Job \cup {None}, owner : Proc \cup {None},
   why : {"none", "skip", "stale", "novendor"}, partial : BOOLEAN]

LanePc ==
  {"idle", "gate", "cancel", "stale", "start", "retry", "body", "retryBody",
   "staleFinish", "skipFinish", "skipMark", "done", "failRetry", "failFinal"}

LaneRow ==
  [pc : LanePc, job : Job \cup {None}, run : 0..MaxRuns, vendor : BOOLEAN]

NoJobRow ==
  [status |-> "none", trigger |-> "auto", attempts |-> 0, owner |-> None,
   cause |-> "none", delayed |-> FALSE, runId |-> NoRun, retryRun |-> NoRun,
   rank |-> 0]

NoRunRow ==
  [status |-> "none", job |-> None, owner |-> None, why |-> "none",
   partial |-> FALSE]

IdleLane == [pc |-> "idle", job |-> None, run |-> NoRun, vendor |-> FALSE]

TypeOK ==
  /\ head \in [Pr -> Sha]
  /\ open \in [Pr -> BOOLEAN]
  /\ reviewed \in [Pr -> Sha \cup {None}]
  /\ config \in RepoConfigs
  /\ job \in [Job -> JobRow]
  /\ run \in [Run -> RunRow]
  /\ runs \in 0..MaxRuns
  /\ rows \in Nat
  /\ lane \in [Lane -> LaneRow]
  /\ proc \in [Proc -> {"off", "up", "stopping", "gone"}]
  /\ live \subseteq Proc
  /\ moves \in 0..MaxMoves

Init ==
  /\ head \in [Pr -> Sha]
  /\ open = [p \in Pr |-> TRUE]
  /\ reviewed = [p \in Pr |-> None]
  /\ config \in RepoConfigs
  /\ job = [j \in Job |-> NoJobRow]
  /\ run = [r \in Run |-> NoRunRow]
  /\ runs = 0
  /\ rows = 0
  /\ lane = [l \in Lane |-> IdleLane]
  /\ proc = [p \in Proc |-> "off"]
  /\ live = {}
  /\ moves = 0

---------------------------------------------------------------------------
(* Queries                                                                *)

Reviewable == config.enabled /\ config.vendor

\* Mutants of the queries: a bug each, which some run of PROJECT.json catches.
AnyCanceled(j)     == job[j].status = "canceled"
NeverRevived(j)    == FALSE
LeaseUnchecked(l)  == TRUE
AnyRunOfJob(l, r)  == run[r].job = lane[l].job
AnyRunning(p, alive) == TRUE
ClaimantLane(l)    == l   \* worker_id, which goes to locked_by

SystemCanceled(j) == job[j].status = "canceled" /\ job[j].cause = "system"
UserCanceled(j)   == job[j].status = "canceled" /\ job[j].cause = "user"

LatestRun(p, r) ==
  /\ run[r].status # "none"
  /\ run[r].job[1] = p
  /\ \A k \in Run : run[k].status # "none" /\ run[k].job[1] = p => k <= r

\* UPDATE ... WHERE id = job AND owner_process_id = this process
Owns(l) == job[lane[l].job].owner = l[1]

\* process_lease holds an unexpired row of the lane's process.
HoldsLease(l) == l[1] \in live

\* owner p has no row among the unexpired leases.
Expired(p, alive) == p \notin alive

\* The runs a timeout of lane l closes: running, and created for its job row.
RunningForJob(l, r) == run[r].job = lane[l].job /\ run[r].status = "running"

\* The owner_process_id of a claim; the worker_id beside it is never compared.
Claimant(l) == l[1]

\* attempts + 1, saturating
Counted(n) == IF n < MaxAttempts THEN n + 1 ELSE n

Move == moves < MaxMoves /\ moves' = moves + 1

---------------------------------------------------------------------------
(* Enqueueing                                                             *)

Inserted(trigger, retryRun) ==
  [NoJobRow EXCEPT !.status = "queued", !.trigger = trigger,
                   !.retryRun = retryRun, !.rank = rows + 1]

Revived(j, trigger, retryRun) ==
  [job[j] EXCEPT !.status = "queued", !.trigger = trigger,
                 !.retryRun = retryRun, !.attempts = 0, !.cause = "none",
                 !.delayed = FALSE]

\* ON CONFLICT DO NOTHING, then only a row the system canceled comes back.
AutoEnqueue(j) ==
  \/ /\ job[j].status = "none"
     /\ job' = [job EXCEPT ![j] = Inserted("auto", NoRun)]
     /\ rows' = rows + 1
  \/ /\ SystemCanceled(j)
     /\ job' = [job EXCEPT ![j] = Revived(j, "auto", job[j].retryRun)]
     /\ UNCHANGED rows
  \/ /\ job[j].status # "none"
     /\ ~SystemCanceled(j)
     /\ UNCHANGED <<job, rows>>

\* A poll or a webhook delivery reports head s for p.  The reported head may
\* be older than the one the database already has; only a report that changes
\* something counts against MaxMoves.
Sync(p, s) ==
  /\ config.enabled
  /\ IF head[p] = s /\ open[p] THEN UNCHANGED moves ELSE Move
  /\ head' = [head EXCEPT ![p] = s]
  /\ open' = [open EXCEPT ![p] = TRUE]
  /\ IF config.auto /\ config.vendor /\ reviewed[p] # s
     THEN AutoEnqueue(<<p, s>>)
     ELSE UNCHANGED <<job, rows>>
  /\ UNCHANGED <<reviewed, config, run, runs, lane, procVars>>

\* The poll no longer lists p, which was open before it asked.
Close(p) ==
  /\ config.enabled
  /\ open[p]
  /\ Move
  /\ open' = [open EXCEPT ![p] = FALSE]
  /\ UNCHANGED <<head, reviewed, config, dbVars, lane, procVars>>

SetConfig(c) ==
  /\ c # config
  /\ Move
  /\ config' = c
  /\ UNCHANGED <<prVars, dbVars, lane, procVars>>

\* A person asks for a review or for a retry of the failed vendors.
UserEnqueue(j, trigger, retryRun) ==
  \/ /\ job[j].status = "none"
     /\ job' = [job EXCEPT ![j] = Inserted(trigger, retryRun)]
     /\ rows' = rows + 1
  \/ /\ job[j].status \in {"done", "failed", "canceled"}
     /\ job' = [job EXCEPT ![j] = Revived(j, trigger, retryRun)]
     /\ UNCHANGED rows
  \/ /\ trigger = "manual"
     /\ job[j].status = "queued"
     /\ job[j].trigger = "auto"
     /\ job' = [job EXCEPT ![j].trigger = "manual"]
     /\ UNCHANGED rows

EnqueueManual(p) ==
  /\ open[p]
  /\ Reviewable
  /\ Move
  /\ UserEnqueue(<<p, head[p]>>, "manual", NoRun)
  /\ UNCHANGED <<prVars, config, run, runs, lane, procVars>>

EnqueueRetry(r) ==
  /\ run[r].status = "done"
  /\ run[r].partial
  /\ LatestRun(run[r].job[1], r)
  /\ open[run[r].job[1]]
  /\ head[run[r].job[1]] = run[r].job[2]
  /\ Reviewable
  /\ Move
  /\ UserEnqueue(run[r].job, "retry", r)
  /\ UNCHANGED <<prVars, config, run, runs, lane, procVars>>

\* Cancels every queued job of the pull request, backoff included.
CancelReview(p) ==
  /\ \E s \in Sha : job[<<p, s>>].status = "queued"
  /\ Move
  /\ job' = [j \in Job |->
               IF j[1] = p /\ job[j].status = "queued"
               THEN [job[j] EXCEPT !.status = "canceled", !.cause = "user"]
               ELSE job[j]]
  /\ UNCHANGED <<prVars, config, run, runs, rows, lane, procVars>>

BackoffElapses(j) ==
  /\ job[j].status = "queued"
  /\ job[j].delayed
  /\ job' = [job EXCEPT ![j].delayed = FALSE]
  /\ UNCHANGED <<prVars, config, run, runs, rows, lane, procVars, moves>>

---------------------------------------------------------------------------
(* A worker lane: claim, gate, pipeline, settle                           *)

GoTo(l, pc) == lane' = [lane EXCEPT ![l].pc = pc]
Rest(l)     == lane' = [lane EXCEPT ![l] = IdleLane]

\* PipelineLeaseLost and LeaseLostError: the lane lets go and writes nothing.
LeaseLossIgnored(l) == GoTo(l, "done")   \* mutant
Abandon(l) == Rest(l)

\* An exception reaches run_one_job; whether it is retryable is in its text.
Fail(l, r) ==
  \E pc \in {"failRetry", "failFinal"} :
    lane' = [lane EXCEPT ![l].pc = pc, ![l].run = r]

Ready == {j \in Job : job[j].status = "queued" /\ ~job[j].delayed}

\* Oldest ready row first; the claim does not look at the process lease.  The
\* lane keeps the claimed row: for a retry, the run it is to repair.
Claim(l) ==
  /\ proc[l[1]] = "up"
  /\ lane[l].pc = "idle"
  /\ \E j \in Ready :
       /\ \A k \in Ready : job[j].rank <= job[k].rank
       /\ job' = [job EXCEPT
                    ![j].status = "running", ![j].owner = Claimant(l),
                    ![j].attempts = Counted(@)]
       /\ lane' = [lane EXCEPT ![l] =
                      [IdleLane EXCEPT !.pc = "gate", !.job = j,
                                       !.run = IF job[j].trigger = "retry"
                                               THEN job[j].retryRun
                                               ELSE NoRun]]
  /\ UNCHANGED <<prVars, config, run, runs, rows, procVars, moves>>

\* The pull request and repository rows are read before any vendor is paid;
\* build_deps may also raise, before any run is attached to the job.
Gate(l) ==
  /\ lane[l].pc = "gate"
  /\ LET j == lane[l].job
         pipeline == IF lane[l].run = NoRun THEN "start" ELSE "retry"
     IN  \/ /\ ~open[j[1]]
            /\ GoTo(l, "cancel")
         \/ /\ open[j[1]]
            /\ head[j[1]] # j[2]
            /\ GoTo(l, "stale")
         \/ /\ open[j[1]]
            /\ head[j[1]] = j[2]
            /\ IF Reviewable
               THEN GoTo(l, pipeline) \/ Fail(l, NoRun)
               ELSE GoTo(l, "cancel")
  /\ UNCHANGED <<prVars, config, dbVars, procVars, moves>>

MarkCanceled(l) ==
  /\ lane[l].pc = "cancel"
  /\ IF Owns(l)
     THEN job' = [job EXCEPT ![lane[l].job].status = "canceled",
                             ![lane[l].job].cause = "system",
                             ![lane[l].job].owner = None]
     ELSE UNCHANGED job
  /\ Rest(l)
  /\ UNCHANGED <<prVars, config, run, runs, rows, procVars, moves>>

\* The stale row is canceled if this process still owns it.
CancelOwn(l) ==
  IF Owns(l) /\ job[lane[l].job].status \in {"queued", "running"}
  THEN [job EXCEPT ![lane[l].job].status = "canceled",
                   ![lane[l].job].cause = "system",
                   ![lane[l].job].owner = None]
  ELSE job

\* Mutant: nothing is done at all when the head has moved back meanwhile.
CancelOwnUnlessBack(l) ==
  IF head[lane[l].job[1]] # lane[l].job[2] THEN CancelOwn(l) ELSE job

StaleCanceled(l) == CancelOwn(l)

\* One transaction: the stale row is canceled, and the row of the current head
\* is inserted or revived in any case.
CancelStaleAndEnqueueLatest(l) ==
  /\ lane[l].pc = "stale"
  /\ LET j == lane[l].job
         h == <<j[1], head[j[1]]>>
         trigger == IF job[j].trigger = "auto" THEN "auto" ELSE "manual"
     IN  \/ /\ h = j \/ (job[h].status # "none" /\ ~SystemCanceled(h))
            /\ job' = StaleCanceled(l)
            /\ UNCHANGED rows
         \/ /\ h # j
            /\ job[h].status = "none"
            /\ job' = [StaleCanceled(l) EXCEPT ![h] = Inserted(trigger, NoRun)]
            /\ rows' = rows + 1
         \/ /\ h # j
            /\ SystemCanceled(h)
            /\ job' = [StaleCanceled(l) EXCEPT
                         ![h] = Revived(h, trigger, NoRun)]
            /\ UNCHANGED rows
  /\ Rest(l)
  /\ UNCHANGED <<prVars, config, run, runs, procVars, moves>>

\* review_pr reads the repository row again: vendor is what that read says.
CreateRun(l) ==
  /\ lane[l].pc = "start"
  /\ LET j == lane[l].job IN
       \/ /\ head[j[1]] # j[2]
          /\ GoTo(l, "stale")
          /\ UNCHANGED <<run, runs>>
       \/ /\ head[j[1]] = j[2]
          /\ runs < MaxRuns
          /\ runs' = runs + 1
          /\ run' = [run EXCEPT ![runs + 1] =
                       [NoRunRow EXCEPT !.status = "running", !.job = j,
                                        !.owner = l[1]]]
          /\ lane' = [lane EXCEPT ![l].pc = "body", ![l].run = runs + 1,
                                  ![l].vendor = config.vendor]
  /\ UNCHANGED <<prVars, config, job, rows, procVars, moves>>

\* UPDATE review_run SET status ... WHERE id = r: no owner, no status guard.
FinishRun(r, status, why) ==
  run' = [run EXCEPT ![r].status = status, ![r].why = why]

\* _ensure_current_head, or the persist barrier, reads another head; the run is
\* canceled by a statement of its own, without looking at the lease again.
HeadMoved(l) ==
  /\ lane[l].pc = "body"
  /\ head[lane[l].job[1]] # lane[l].job[2]
  /\ GoTo(l, "staleFinish")
  /\ UNCHANGED <<prVars, config, dbVars, procVars, moves>>

StaleFinish(l) ==
  /\ lane[l].pc = "staleFinish"
  /\ FinishRun(lane[l].run, "canceled", "stale")
  /\ GoTo(l, "stale")
  /\ UNCHANGED <<prVars, config, job, runs, rows, procVars, moves>>

\* Mutant: the pull request is marked before the run is finished.
SkipMarkedOnly(l) ==
  /\ lane[l].pc = "body"
  /\ head[lane[l].job[1]] = lane[l].job[2]
  /\ GoTo(l, "skipMark")
  /\ UNCHANGED <<prVars, config, dbVars, procVars, moves>>

\* Only noise changed, or the prescreen skips an automatic review: the head
\* is compared, then the run and the pull request are committed one by one.
Skip(l) ==
  /\ lane[l].pc = "body"
  /\ head[lane[l].job[1]] = lane[l].job[2]
  /\ GoTo(l, "skipFinish")
  /\ UNCHANGED <<prVars, config, dbVars, procVars, moves>>

SkipFinish(l) ==
  /\ lane[l].pc = "skipFinish"
  /\ FinishRun(lane[l].run, "canceled", "skip")
  /\ GoTo(l, "skipMark")
  /\ UNCHANGED <<prVars, config, job, runs, rows, procVars, moves>>

SkipMark(l) ==
  /\ lane[l].pc = "skipMark"
  /\ reviewed' = [reviewed EXCEPT ![lane[l].job[1]] = lane[l].job[2]]
  /\ GoTo(l, "done")
  /\ UNCHANGED <<head, open, config, dbVars, procVars, moves>>

\* Every vendor was off when review_pr read the repository row: the run is
\* canceled and the job goes on to be marked done.
NoVendor(l) ==
  /\ lane[l].pc = "body"
  /\ ~lane[l].vendor
  /\ FinishRun(lane[l].run, "canceled", "novendor")
  /\ GoTo(l, "done")
  /\ UNCHANGED <<prVars, config, job, runs, rows, procVars, moves>>

\* The persist barrier: lease, head, vendor results, findings, run and pull
\* request in one BEGIN IMMEDIATE transaction.  A lost lease changes nothing.
Persist(l) ==
  /\ lane[l].pc = "body"
  /\ lane[l].vendor
  /\ LET j == lane[l].job
         r == lane[l].run
     IN  \/ /\ ~HoldsLease(l)
            /\ Abandon(l)
            /\ UNCHANGED <<run, reviewed>>
         \/ /\ HoldsLease(l)
            /\ head[j[1]] = j[2]
            /\ \E partial \in BOOLEAN :
                 run' = [run EXCEPT ![r].status = "done",
                                    ![r].partial = partial]
            /\ reviewed' = [reviewed EXCEPT ![j[1]] = j[2]]
            /\ GoTo(l, "done")
  /\ UNCHANGED <<head, open, config, job, runs, rows, procVars, moves>>

\* Any other exception, all vendors failing included.
RunFails(l) ==
  /\ lane[l].pc = "body"
  /\ FinishRun(lane[l].run, "failed", "none")
  /\ Fail(l, lane[l].run)
  /\ UNCHANGED <<prVars, config, job, runs, rows, procVars, moves>>

\* wait_for(JOB_TIMEOUT_SEC) cancels the pipeline at an await.  Every running
\* run of the job row is failed, whichever process created it.
Timeout(l) ==
  /\ lane[l].pc \in {"body", "retryBody"}
  /\ run' = [r \in Run |->
               IF RunningForJob(l, r)
               THEN [run[r] EXCEPT !.status = "failed"]
               ELSE run[r]]
  /\ lane' = [lane EXCEPT ![l].pc = "failRetry", ![l].run = NoRun]
  /\ UNCHANGED <<prVars, config, job, runs, rows, procVars, moves>>

\* retry_pr validates the run again, then reruns its failed vendors; an
\* already repaired run is done, a changed basis asks for a full run.
RetryStart(l) ==
  /\ lane[l].pc = "retry"
  /\ LET j == lane[l].job
         r == lane[l].run
         fit == run[r].status = "done" /\ LatestRun(j[1], r)
     IN  \/ /\ head[j[1]] # j[2]
            /\ GoTo(l, "stale")
         \/ /\ head[j[1]] = j[2]
            /\ ~fit
            /\ GoTo(l, "failFinal")
         \/ /\ head[j[1]] = j[2]
            /\ fit
            /\ IF run[r].partial
               THEN GoTo(l, "retryBody") \/ GoTo(l, "failFinal")
               ELSE GoTo(l, "done")
  /\ UNCHANGED <<prVars, config, dbVars, procVars, moves>>

RetryPersist(l) ==
  /\ lane[l].pc = "retryBody"
  /\ LET j == lane[l].job
         r == lane[l].run
     IN  \/ /\ ~HoldsLease(l)
            /\ Abandon(l)
            /\ UNCHANGED run
         \/ /\ HoldsLease(l)
            /\ head[j[1]] # j[2]
            /\ GoTo(l, "stale")
            /\ UNCHANGED run
         \/ /\ HoldsLease(l)
            /\ head[j[1]] = j[2]
            /\ \E partial \in BOOLEAN :
                 run' = [run EXCEPT ![r].partial = partial]
            /\ GoTo(l, "done")
  /\ UNCHANGED <<prVars, config, job, runs, rows, procVars, moves>>

\* The retried run stays done; only the job fails.
RetryFails(l) ==
  /\ lane[l].pc = "retryBody"
  /\ Fail(l, lane[l].run)
  /\ UNCHANGED <<prVars, config, dbVars, procVars, moves>>

MarkDone(l) ==
  /\ lane[l].pc = "done"
  /\ IF Owns(l)
     THEN job' = [job EXCEPT ![lane[l].job].status = "done",
                             ![lane[l].job].runId = lane[l].run,
                             ![lane[l].job].owner = None]
     ELSE UNCHANGED job
  /\ Rest(l)
  /\ UNCHANGED <<prVars, config, run, runs, rows, procVars, moves>>

\* A retryable failure waits out a backoff while attempts are left.
MarkFailed(l) ==
  /\ lane[l].pc \in {"failRetry", "failFinal"}
  /\ LET j == lane[l].job
         again == lane[l].pc = "failRetry" /\ job[j].attempts < MaxAttempts
         pointer == IF lane[l].run = NoRun THEN job[j].runId ELSE lane[l].run
     IN  IF Owns(l)
         THEN job' = [job EXCEPT
                        ![j].status = IF again THEN "queued" ELSE "failed",
                        ![j].delayed = IF again THEN TRUE ELSE @,
                        ![j].runId = pointer,
                        ![j].owner = None]
         ELSE UNCHANGED job
  /\ Rest(l)
  /\ UNCHANGED <<prVars, config, run, runs, rows, procVars, moves>>

---------------------------------------------------------------------------
(* Server processes and their leases                                      *)

\* One transaction: work whose owner holds no unexpired lease is given back.
RecoverExpired(alive) ==
  /\ job' = [j \in Job |->
               IF job[j].status = "running" /\ Expired(job[j].owner, alive)
               THEN [job[j] EXCEPT !.status = "queued", !.owner = None]
               ELSE job[j]]
  /\ run' = [r \in Run |->
               IF run[r].status = "running" /\ Expired(run[r].owner, alive)
               THEN [run[r] EXCEPT !.status = "failed"]
               ELSE run[r]]

\* lifespan: register the lease, then recover before any loop starts.
Boot(p) ==
  /\ proc[p] = "off"
  /\ proc' = [proc EXCEPT ![p] = "up"]
  /\ live' = live \cup {p}
  /\ RecoverExpired(live')
  /\ UNCHANGED <<prVars, config, runs, rows, lane, moves>>

\* Mutant: recovery only at boot.
RenewOnly(p) ==
  /\ proc[p] = "up"
  /\ p \in live
  /\ UNCHANGED vars

\* A tick of lease_heartbeat_loop renews an unexpired lease and recovers.
Heartbeat(p) ==
  /\ proc[p] = "up"
  /\ p \in live
  /\ RecoverExpired(live)
  /\ UNCHANGED <<prVars, config, runs, rows, lane, procVars, moves>>

\* A tick that finds the lease expired stops the loops of the process.
LeaseLost(p) ==
  /\ proc[p] = "up"
  /\ p \notin live
  /\ proc' = [proc EXCEPT ![p] = "stopping"]
  /\ UNCHANGED <<prVars, config, dbVars, lane, live, moves>>

\* TTL seconds pass without a heartbeat; a stopping process sends none.
LeaseExpires(p) ==
  /\ p \in live
  /\ p \in Punctual => proc[p] # "up"
  /\ live' = live \ {p}
  /\ UNCHANGED <<prVars, config, dbVars, lane, proc, moves>>

Shutdown(p) ==
  /\ proc[p] = "up"
  /\ p \notin Durable
  /\ proc' = [proc EXCEPT ![p] = "stopping"]
  /\ UNCHANGED <<prVars, config, dbVars, lane, live, moves>>

\* After the grace period a lane is canceled at an await; nothing is written.
CancelLane(l) ==
  /\ proc[l[1]] = "stopping"
  /\ lane[l].pc \in {"body", "retryBody"}
  /\ Rest(l)
  /\ UNCHANGED <<prVars, config, dbVars, procVars, moves>>

\* Once every lane has ended the lease row is deleted.
Release(p) ==
  /\ proc[p] = "stopping"
  /\ \A i \in Slots : lane[<<p, i>>].pc = "idle"
  /\ proc' = [proc EXCEPT ![p] = "gone"]
  /\ live' = live \ {p}
  /\ UNCHANGED <<prVars, config, dbVars, lane, moves>>

Crash(p) ==
  /\ proc[p] \in {"up", "stopping"}
  /\ p \notin Durable
  /\ proc' = [proc EXCEPT ![p] = "gone"]
  /\ lane' = [l \in Lane |-> IF l[1] = p THEN IdleLane ELSE lane[l]]
  /\ UNCHANGED <<prVars, config, dbVars, live, moves>>

---------------------------------------------------------------------------
(* The specification                                                      *)

LaneStep(l) ==
  \/ Gate(l) \/ MarkCanceled(l) \/ CancelStaleAndEnqueueLatest(l)
  \/ CreateRun(l) \/ HeadMoved(l) \/ StaleFinish(l)
  \/ Skip(l) \/ SkipFinish(l) \/ SkipMark(l) \/ NoVendor(l)
  \/ Persist(l) \/ RunFails(l) \/ Timeout(l)
  \/ RetryStart(l) \/ RetryPersist(l) \/ RetryFails(l)
  \/ MarkDone(l) \/ MarkFailed(l)

ProcStep(p) ==
  \/ Boot(p) \/ Heartbeat(p) \/ LeaseLost(p) \/ LeaseExpires(p)
  \/ Shutdown(p) \/ Release(p) \/ Crash(p)

UserStep ==
  \/ \E p \in Pr : EnqueueManual(p) \/ CancelReview(p)
  \/ \E r \in Run : EnqueueRetry(r)
  \/ \E c \in RepoConfigs : SetConfig(c)

Next ==
  \/ UserStep
  \/ \E p \in Pr : Close(p) \/ \E s \in Sha : Sync(p, s)
  \/ \E j \in Job : BackoffElapses(j)
  \/ \E l \in Lane : Claim(l) \/ LaneStep(l) \/ CancelLane(l)
  \/ \E p \in Proc : ProcStep(p)

Spec == Init /\ [][Next]_vars

---------------------------------------------------------------------------
(* Safety                                                                 *)

Holds(l, j) == lane[l].pc # "idle" /\ lane[l].job = j

\* A job that a lane of a process with an unexpired lease works on is running
\* in that process's name, and no other lane of such a process works on it:
\* recover_expired gives back only what an expired owner holds, and claim_next
\* never takes a running row.
LiveOwnerExclusive ==
  \A l \in Lane : l[1] \in live /\ lane[l].pc # "idle" =>
    /\ job[lane[l].job].status = "running"
    /\ job[lane[l].job].owner = l[1]
    /\ \A m \in Lane :
         m # l /\ m[1] \in live => ~Holds(m, lane[l].job)

\* A running row names a process; while that process is up with an unexpired
\* lease one of its lanes is at work on the row, so no settling path of
\* run_one_job leaves behind a row that recover_expired would never collect.
NoOrphanedWork ==
  \A j \in Job : job[j].status = "running" =>
    /\ job[j].owner \in Proc
    /\ job[j].owner \in live /\ proc[job[j].owner] = "up" =>
         \E i \in Slots : Holds(<<job[j].owner, i>>, j)

Finished(r) ==
  \/ run[r].status = "done"
  \/ run[r].status = "canceled" /\ run[r].why \in {"skip", "novendor"}

\* mark_done follows the pipeline's own commit, possibly after the lease was
\* lost and the job ran elsewhere: the run a done job points at is a run of
\* that very pull request and head, finished, and never falls back.
DoneJobHasFinishedRun ==
  \A j \in Job : job[j].status = "done" =>
    /\ job[j].runId # NoRun
    /\ run[job[j].runId].job = j
    /\ Finished(job[j].runId)

\* last_reviewed_sha, which keeps the poller from asking again, names only a
\* head some run was finished for, or that was skipped on purpose.
ReviewedHeadHasRun ==
  \A p \in Pr : reviewed[p] # None =>
    \E r \in Run : run[r].job = <<p, reviewed[p]>> /\ Finished(r)

---------------------------------------------------------------------------
(* Action properties                                                      *)

Persists(r) == run[r].status # "done" /\ run'[r].status = "done"

\* The persist barrier: a run is completed only by the process that created
\* it, while that process holds its lease, while the job row is running in its
\* name, and while the pull request still points at the reviewed commit.
FencedStep ==
  \A r \in Run : Persists(r) =>
    LET j == run[r].job IN
      /\ run[r].owner \in live
      /\ job[j].status = "running"
      /\ job[j].owner = run[r].owner
      /\ head[j[1]] = j[2]
PersistFenced == [][FencedStep]_vars

\* A completed review is never undone: neither a timeout, nor the recovery of
\* an expired lease, nor a late writer changes the status of a done run.
DoneRunFinal ==
  [][\A r \in Run : run[r].status = "done" => run'[r].status = "done"]_vars

\* A job a person canceled stays canceled until a person asks again: no poll,
\* webhook, stale-head replacement or recovery brings it back.
UserCancelSticks ==
  [][\A j \in Job : UserCanceled(j) =>
       \/ UserCanceled(j)'
       \/ EnqueueManual(j[1])
       \/ \E r \in Run : EnqueueRetry(r)]_vars

---------------------------------------------------------------------------
(* What the queue promises                                                *)

\* A job is in the name of one process at a time, and leaves it when it is
\* settled, when it is replaced by the job of the current head, or when the
\* lease of its owner has expired, never for a request; a completed review is
\* put on display only while its process holds both the job and its lease, and
\* is never taken back.
TaskStatus == [j \in Job |-> IF job[j].status = "running" THEN "held"
                             ELSE IF job[j].status = "queued" THEN "waiting"
                             ELSE "idle"]
TaskHolder == [j \in Job |-> job[j].owner]

\* On display is the latest completed review of the job.
Reviews(j) ==
  {[made |-> r, by |-> run[r].owner] :
     r \in {k \in Run : run[k].status = "done" /\ run[k].job = j}}
Latest(reviews) == CHOOSE s \in reviews : \A t \in reviews : t.made <= s.made
TaskResult ==
  [j \in Job |-> IF Reviews(j) = {} THEN None ELSE Latest(Reviews(j))]

Leased == INSTANCE LeasedTask WITH
  Task <- Job, status <- TaskStatus, holder <- TaskHolder, result <- TaskResult,
  Good <- Run

ImplementsLeasedTask == Leased!Spec

---------------------------------------------------------------------------
(* Liveness                                                               *)

\* asyncio runs every ready lane and JOB_TIMEOUT_SEC bounds the pipeline; the
\* heartbeat ticks while its loop runs; a dead process stops renewing; a poll
\* keeps reporting the head of every open pull request; one server stays up.
Fairness ==
  /\ \A l \in Lane : WF_vars(Claim(l)) /\ WF_vars(LaneStep(l) \/ CancelLane(l))
  /\ \A p \in Proc :
       /\ WF_vars(Heartbeat(p)) /\ WF_vars(LeaseLost(p)) /\ WF_vars(Release(p))
       /\ WF_vars(proc[p] = "gone" /\ LeaseExpires(p))
  /\ \A p \in Durable : WF_vars(Boot(p))
  /\ \A j \in Job : WF_vars(BackoffElapses(j))
  /\ \A p \in Pr, s \in Sha : WF_vars(open[p] /\ head[p] = s /\ Sync(p, s))

FairSpec == Spec /\ Fairness

Eligible(p, s) ==
  open[p] /\ head[p] = s /\ config.auto /\ Reviewable /\ runs < MaxRuns

Reviewed(j) ==
  \/ reviewed[j[1]] = j[2]
  \/ job[j].status = "done" /\ run[job[j].runId].why # "novendor"

Settled(j) == Reviewed(j) \/ job[j].status = "failed" \/ UserCanceled(j)

\* What the system canceled comes back when the settings allow it again: the
\* head of an open pull request of an automatic repository is reviewed in the
\* end, unless its job failed for good or a person canceled it.
EligibleHeadSettles ==
  \A j \in Job : <>[]Eligible(j[1], j[2]) => <>[]Settled(j)

\* Work of a process that died or lost its lease is given back.
ExpiredWorkRecovered ==
  \A j \in Job :
    (job[j].status = "running" /\ job[j].owner \notin live)
      ~> ~(job[j].status = "running" /\ job[j].owner \notin live)
=============================================================================
