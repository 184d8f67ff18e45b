------------------------- MODULE ReviewQueueResults -------------------------
(***************************************************************************)
(* Proofs about what ReviewQueue leaves in the database: a completed run   *)
(* stays completed, done jobs and reviewed heads have a finished run, no   *)
(* running job is left behind by a process that is up, a person's cancel   *)
(* sticks, and the job table implements LeasedTask.                        *)
(***************************************************************************)
EXTENDS ReviewQueueProofs

---------------------------------------------------------------------------
(* Finished runs                                                          *)

\* A lane that may still write its run, and one that has a finished run.
Writing == {"body", "staleFinish", "skipFinish"}
Ended   == {"skipMark", "done", "retryBody"}

KnowsRun(l) ==
  \/ lane[l].pc \in Writing \cup Ended \cup {"retry"}
  \/ lane[l].pc = "gate" /\ lane[l].run # NoRun

RunFits(r, j) == r \in 1..runs /\ run[r].job = j

\* What a lane knows of its run.
LaneKnows(l) ==
  /\ KnowsRun(l) => RunFits(lane[l].run, lane[l].job)
  /\ lane[l].pc \in Writing => ~Finished(lane[l].run)
  /\ lane[l].pc \in Ended => Finished(lane[l].run)

\* No two lanes write the same run.
WritersApart ==
  \A l, m \in Lane : l # m /\ lane[l].pc \in Writing /\ lane[m].pc \in Writing =>
    lane[l].run # lane[m].run

\* Runs that were not created yet have no row.
RunsFresh == \A r \in Run : run[r].status # "none" => r <= runs

\* A retry names a run of its own job.
RetriesKnow ==
  \A j \in Job : job[j].retryRun # NoRun => RunFits(job[j].retryRun, j)

LanesKnow == (\A l \in Lane : LaneKnows(l)) /\ WritersApart
JobsKnow  == RetriesKnow /\ DoneJobHasFinishedRun

ResultInv == RunsFresh /\ LanesKnow /\ JobsKnow /\ ReviewedHeadHasRun

\* What every step does to the runs: a row that exists keeps its job, and a
\* finished run stays finished, a completed one completed.
RunsMove ==
  /\ runs' \in Nat /\ runs <= runs'
  /\ \A r \in 1..runs : /\ run'[r].job = run[r].job
                        /\ Finished(r) => Finished(r)'
                        /\ run[r].status = "done" => run'[r].status = "done"
  /\ \A r \in Run : run'[r].status # "none" => r <= runs'

\* What most steps do to a lane that knows a run: it rests, or knows as much as
\* before.
LaneStays(l) ==
  KnowsRun(l)' =>
    /\ KnowsRun(l) /\ lane'[l].job = lane[l].job /\ lane'[l].run = lane[l].run
    /\ lane'[l].pc \in Writing => lane[l].pc \in Writing /\ ~Finished(lane[l].run)'
    /\ lane'[l].pc \in Ended => lane[l].pc \in Ended \/ Finished(lane[l].run)'

\* What most steps do to a job: it keeps the run it is to repair, or has none or one
\* of its own, and becomes done by no other step than mark_done.
JobStays(j) ==
  /\ job'[j].retryRun \in {NoRun, job[j].retryRun} \/ RunFits(job[j].retryRun, j)'
  /\ job'[j].status = "done" => job[j].status = "done" /\ job'[j].runId = job[j].runId

\* What the types say, once more.
LEMMA QueueRows ==
  ASSUME TypeInv
  PROVE  /\ runs \in Nat /\ runs <= MaxRuns /\ 1..runs \subseteq Run
         /\ run \in [Run -> RunRow] /\ job \in [Job -> JobRow]
         /\ lane \in [Lane -> LaneRow]
         /\ \A j \in Job : job[j].retryRun \in 0..MaxRuns /\ job[j].runId \in 0..MaxRuns
         /\ \A l \in Lane : lane[l].run \in 0..MaxRuns
<1>1. runs \in Nat /\ runs <= MaxRuns /\ MaxRuns \in Nat
  BY Bounds DEF TypeInv, TypeOK
<1>2. 1..runs \subseteq Run
  BY <1>1 DEF Run
<1>3. /\ run \in [Run -> RunRow] /\ job \in [Job -> JobRow]
      /\ lane \in [Lane -> LaneRow]
  BY DEF TypeInv, TypeOK
<1>4. \A j \in Job : job[j].retryRun \in 0..MaxRuns /\ job[j].runId \in 0..MaxRuns
  BY <1>3 DEF JobRow
<1>5. \A l \in Lane : lane[l].run \in 0..MaxRuns
  BY <1>3 DEF LaneRow
<1>6. QED
  BY <1>1, <1>2, <1>3, <1>4, <1>5

\* A run that fits a job goes on to fit it.
LEMMA FitsOn ==
  ASSUME TypeInv, RunsMove, NEW r, NEW j, RunFits(r, j)
  PROVE  RunFits(r, j)'
  BY QueueRows DEF RunsMove, RunFits

\* Lanes that know as much as before.
LEMMA LanesStay ==
  ASSUME TypeInv, LanesKnow, RunsMove, \A l \in Lane : LaneStays(l)
  PROVE  LanesKnow'
<1>1. ASSUME NEW l \in Lane PROVE LaneKnows(l)'
  <2>1. CASE KnowsRun(l)'
    <3>1. PICK r, j : r = lane[l].run /\ j = lane[l].job
      OBVIOUS
    <3>2. lane'[l].run = r /\ lane'[l].job = j /\ RunFits(r, j)
      BY <2>1, <3>1 DEF LaneStays, LanesKnow, LaneKnows
    <3>3. RunFits(r, j)'
      BY <3>2, FitsOn
    <3>4. lane'[l].pc \in Writing => ~Finished(r)'
      BY <2>1, <3>1 DEF LaneStays
    <3>5. Finished(r) => Finished(r)'
      BY <3>2 DEF RunFits, RunsMove
    <3>6. lane'[l].pc \in Ended => Finished(r)'
      BY <2>1, <3>1, <3>5 DEF LaneStays, LanesKnow, LaneKnows
    <3>7. QED
      BY <3>2, <3>3, <3>4, <3>6 DEF LaneKnows
  <2>2. CASE ~KnowsRun(l)'
    BY <2>2 DEF LaneKnows, KnowsRun
  <2>3. QED
    BY <2>1, <2>2
<1>2. \A l \in Lane : lane'[l].pc \in Writing =>
        lane[l].pc \in Writing /\ lane'[l].run = lane[l].run
  BY DEF LaneStays, KnowsRun
<1>3. WritersApart'
  BY <1>2 DEF LanesKnow, WritersApart
<1>4. QED
  BY <1>1, <1>3 DEF LanesKnow

\* Jobs that say nothing new.
LEMMA JobsStay ==
  ASSUME TypeInv, RunsFresh, JobsKnow, RunsMove, \A j \in Job : JobStays(j)
  PROVE  JobsKnow'
<1>1. RetriesKnow'
  <2>1. ASSUME NEW j \in Job, job'[j].retryRun # NoRun
        PROVE  RunFits(job[j].retryRun, j)'
    <3>1. PICK r : r = job[j].retryRun
      OBVIOUS
    <3>2. CASE job'[j].retryRun = r
      <4>1. RunFits(r, j)
        BY <2>1, <3>1, <3>2 DEF JobsKnow, RetriesKnow
      <4>2. RunFits(r, j)'
        BY <4>1, FitsOn
      <4>3. QED
        BY <3>2, <4>2
    <3>3. QED
      BY <2>1, <3>1, <3>2 DEF JobStays
  <2>2. QED
    BY <2>1 DEF RetriesKnow
<1>2. ASSUME NEW j \in Job, job'[j].status = "done"
      PROVE  /\ job'[j].runId # NoRun /\ run'[job'[j].runId].job = j
             /\ Finished(job[j].runId)'
  <2>1. PICK r : r = job[j].runId
    OBVIOUS
  <2>2. job'[j].runId = r /\ r # NoRun /\ run[r].job = j /\ Finished(r)
    BY <1>2, <2>1 DEF JobStays, JobsKnow, DoneJobHasFinishedRun
  <2>3. r \in Run
    BY <2>1, <2>2, QueueRows DEF Run, NoRun
  <2>4. r \in 1..runs
    BY <2>2, <2>3, QueueRows DEF Finished, RunsFresh, Run
  <2>5. QED
    BY <2>2, <2>4 DEF RunsMove
<1>3. QED
  BY <1>1, <1>2 DEF JobsKnow, DoneJobHasFinishedRun

\* Reviewed heads keep their runs.
LEMMA HeadsStay ==
  ASSUME TypeInv, RunsFresh, ReviewedHeadHasRun, RunsMove,
         \A p \in Pr : \/ reviewed'[p] = reviewed[p]
                       \/ \E r \in Run : run'[r].job = <<p, reviewed'[p]>> /\ Finished(r)'
  PROVE  ReviewedHeadHasRun'
<1>1. ASSUME NEW p \in Pr, reviewed'[p] = reviewed[p], reviewed[p] # None
      PROVE  \E r \in Run : run'[r].job = <<p, reviewed'[p]>> /\ Finished(r)'
  <2>1. PICK r \in Run : run[r].job = <<p, reviewed[p]>> /\ Finished(r)
    BY <1>1 DEF ReviewedHeadHasRun
  <2>2. r \in 1..runs
    BY <2>1, QueueRows DEF Finished, RunsFresh, Run
  <2>3. QED
    BY <1>1, <2>1, <2>2 DEF RunsMove
<1>2. QED
  BY <1>1 DEF ReviewedHeadHasRun

---------------------------------------------------------------------------
(* Steps of a lane                                                        *)

\* A step that writes no run.
LEMMA RunsStay ==
  ASSUME TypeInv, RunsFresh, UNCHANGED <<run, runs>>
  PROVE  RunsMove
  BY QueueRows DEF RunsFresh, RunsMove, Finished

\* A step that writes one run that exists.
LEMMA OneRunWritten ==
  ASSUME TypeInv, RunsFresh, UNCHANGED runs, NEW r \in 1..runs, NEW row,
         run' = [run EXCEPT ![r] = row], row.job = run[r].job,
         row.status = "done" \/ (row.status # "none" /\ ~Finished(r))
  PROVE  RunsMove /\ run'[r] = row /\ \A k \in Run \ {r} : run'[k] = run[k]
<1>1. r \in Run /\ runs \in Nat /\ 1..runs \subseteq Run
  BY QueueRows
<1>2. run'[r] = row /\ \A k \in Run \ {r} : run'[k] = run[k]
  BY <1>1, QueueRows
<1>3. RunsMove
  BY <1>1, <1>2 DEF RunsFresh, RunsMove, Finished
<1>4. QED
  BY <1>2, <1>3

\* finish_run on a run that is not finished.
LEMMA FinishRunMoves ==
  ASSUME TypeInv, RunsFresh, UNCHANGED runs, NEW r \in 1..runs, ~Finished(r),
         NEW status \in {"canceled", "failed"}, NEW why, FinishRun(r, status, why)
  PROVE  /\ RunsMove /\ run'[r].status = status /\ run'[r].why = why
         /\ run'[r].job = run[r].job /\ \A k \in Run \ {r} : run'[k] = run[k]
<1> DEFINE row == [run[r] EXCEPT !.status = status, !.why = why]
<1>1. run' = [run EXCEPT ![r] = row]
  BY DEF FinishRun
<1>2. run[r] \in RunRow
  BY QueueRows
<1>3. row.status = status /\ row.why = why /\ row.job = run[r].job
  BY <1>2 DEF RunRow
<1> HIDE DEF row
<1>4. QED
  BY <1>1, <1>3, OneRunWritten

\* A lane that goes on, with the job and the run it has.
LEMMA GoToRows ==
  ASSUME TypeInv, NEW l \in Lane, NEW pc, GoTo(l, pc)
  PROVE  /\ lane'[l].pc = pc /\ lane'[l].job = lane[l].job /\ lane'[l].run = lane[l].run
         /\ \A m \in Lane \ {l} : lane'[m] = lane[m]
<1>1. lane[l] \in LaneRow /\ lane' = [lane EXCEPT ![l] = [lane[l] EXCEPT !.pc = pc]]
  BY QueueRows DEF GoTo
<1>2. [lane[l] EXCEPT !.pc = pc].pc = pc /\ [lane[l] EXCEPT !.pc = pc].job = lane[l].job
      /\ [lane[l] EXCEPT !.pc = pc].run = lane[l].run
  BY <1>1 DEF LaneRow
<1>3. QED
  BY <1>1, <1>2, QueueRows

\* A lane that rests or failed knows no run any more.
LEMMA LaneForgets ==
  ASSUME TypeInv, NEW l \in Lane, Rest(l) \/ \E r : Fail(l, r)
  PROVE  /\ lane'[l].pc \in {"idle", "failRetry", "failFinal"}
         /\ LaneStays(l) /\ \A m \in Lane \ {l} : lane'[m] = lane[m]
<1>1. lane[l] \in LaneRow /\ lane \in [Lane -> LaneRow]
  BY QueueRows
<1>2. lane'[l].pc \in {"idle", "failRetry", "failFinal"}
  BY <1>1 DEF Rest, Fail, IdleLane, LaneRow
<1>3. \A m \in Lane \ {l} : lane'[m] = lane[m]
  BY <1>1 DEF Rest, Fail
<1>4. LaneStays(l)
  BY <1>2 DEF LaneStays, KnowsRun, Writing, Ended
<1>5. QED
  BY <1>2, <1>3, <1>4

\* Only the lane that writes a run may finish it.
FinishesOwn(l) ==
  \A k \in Run : \/ run'[k] = run[k] \/ ~Finished(k)' \/ Finished(k)
                 \/ k = lane[l].run /\ lane[l].pc \in Writing

\* What another lane knows stays true.
LEMMA OtherLanes ==
  ASSUME TypeInv, LanesKnow, NEW l \in Lane, FinishesOwn(l),
         NEW m \in Lane \ {l}, lane'[m] = lane[m]
  PROVE  LaneStays(m)
<1>1. ASSUME lane[m].pc \in Writing
      PROVE  ~Finished(lane[m].run)'
  <2>1. PICK k : k = lane[m].run
    OBVIOUS
  <2>2. k \in 1..runs /\ ~Finished(k)
    BY <1>1, <2>1 DEF LanesKnow, LaneKnows, KnowsRun, RunFits
  <2>3. ~(k = lane[l].run /\ lane[l].pc \in Writing)
    BY <1>1, <2>1 DEF LanesKnow, WritersApart
  <2>4. k \in Run
    BY <2>2, QueueRows
  <2>5. run'[k] = run[k] => ~Finished(k)'
    BY <2>2 DEF Finished
  <2>6. ~Finished(k)'
    BY <2>2, <2>3, <2>4, <2>5 DEF FinishesOwn
  <2>7. QED
    BY <2>1, <2>6
<1>2. QED
  BY <1>1 DEF LaneStays, KnowsRun

\* A step of a lane that does not learn anything new.
LEMMA LaneMoves ==
  ASSUME TypeInv, ResultInv, NEW l \in Lane, RunsMove, FinishesOwn(l), LaneStays(l),
         \A m \in Lane \ {l} : lane'[m] = lane[m], \A j \in Job : JobStays(j),
         UNCHANGED reviewed
  PROVE  ResultInv'
<1>1. \A m \in Lane : LaneStays(m)
  BY OtherLanes DEF ResultInv
<1>2. RunsFresh'
  BY DEF RunsMove, RunsFresh
<1>3. LanesKnow' /\ JobsKnow' /\ ReviewedHeadHasRun'
  BY <1>1, LanesStay, JobsStay, HeadsStay DEF ResultInv
<1>4. QED
  BY <1>2, <1>3 DEF ResultInv

\* A job table that is not written.
LEMMA JobsAlone ==
  ASSUME UNCHANGED job
  PROVE  \A j \in Job : JobStays(j)
  BY DEF JobStays

\* A step of a lane that writes only its own variables.
LEMMA LaneAlone ==
  ASSUME TypeInv, ResultInv, NEW l \in Lane, UNCHANGED <<run, runs, job, reviewed>>,
         LaneStays(l), \A m \in Lane \ {l} : lane'[m] = lane[m]
  PROVE  ResultInv'
<1>1. RunsMove
  BY RunsStay DEF ResultInv
<1>2. FinishesOwn(l)
  BY DEF FinishesOwn
<1>3. QED
  BY <1>1, <1>2, JobsAlone, LaneMoves

\* A lane that goes on to settle its job.
LEMMA GoToSettle ==
  ASSUME TypeInv, NEW l \in Lane, NEW pc \in {"cancel", "stale", "start", "failFinal"},
         GoTo(l, pc)
  PROVE  LaneStays(l) /\ \A m \in Lane \ {l} : lane'[m] = lane[m]
  BY GoToRows DEF LaneStays, KnowsRun, Writing, Ended

\* The gate, before a run is created or repaired.
LEMMA GateResult ==
  ASSUME TypeInv, ResultInv, NEW l \in Lane, Gate(l)
  PROVE  ResultInv'
<1>1. lane[l].pc = "gate" /\ UNCHANGED <<run, runs, job, reviewed>>
  BY DEF Gate, dbVars, prVars
<1>2. CASE lane[l].run # NoRun /\ GoTo(l, "retry")
  <2>1. LaneStays(l) /\ \A m \in Lane \ {l} : lane'[m] = lane[m]
    BY <1>1, <1>2, GoToRows DEF LaneStays, KnowsRun, Writing, Ended
  <2>2. QED
    BY <1>1, <2>1, LaneAlone
<1>3. CASE \E pc \in {"cancel", "stale", "start"} : GoTo(l, pc)
  BY <1>1, <1>3, GoToSettle, LaneAlone
<1>4. CASE Fail(l, NoRun)
  BY <1>1, <1>4, LaneForgets, LaneAlone
<1>5. QED
  BY <1>2, <1>3, <1>4 DEF Gate

\* The head is read before the run is finished; a lane stays at work on its run.
LEMMA BodyResult ==
  ASSUME TypeInv, ResultInv, NEW l \in Lane, HeadMoved(l) \/ Skip(l)
  PROVE  ResultInv'
<1>1. lane[l].pc = "body" /\ UNCHANGED <<run, runs, job, reviewed>>
      /\ \E pc \in Writing : GoTo(l, pc)
  BY DEF HeadMoved, Skip, dbVars, prVars, Writing
<1>2. PICK pc \in Writing : GoTo(l, pc)
  BY <1>1
<1>3. ~Finished(lane[l].run)
  BY <1>1 DEF ResultInv, LanesKnow, LaneKnows, Writing
<1>4. lane'[l].pc = pc /\ lane'[l].job = lane[l].job /\ lane'[l].run = lane[l].run
      /\ \A m \in Lane \ {l} : lane'[m] = lane[m]
  BY <1>2, GoToRows
<1>5. ~Finished(lane[l].run)'
  BY <1>1, <1>3, <1>4 DEF Finished
<1>6. LaneStays(l)
  BY <1>1, <1>4, <1>5 DEF LaneStays, KnowsRun, Writing, Ended
<1>7. QED
  BY <1>1, <1>4, <1>6, LaneAlone

\* Lanes that end without writing anything, or before they know a run.
LEMMA RestResult ==
  ASSUME TypeInv, ResultInv, NEW l \in Lane, CancelLane(l) \/ RetryFails(l)
  PROVE  ResultInv'
<1>1. UNCHANGED <<run, runs, job, reviewed>>
  BY DEF CancelLane, RetryFails, dbVars, prVars
<1>2. Rest(l) \/ \E r : Fail(l, r)
  BY DEF CancelLane, RetryFails
<1>3. QED
  BY <1>1, <1>2, LaneForgets, LaneAlone

\* A retry starts from a completed run, or ends.
LEMMA RetryStartResult ==
  ASSUME TypeInv, ResultInv, NEW l \in Lane, RetryStart(l)
  PROVE  ResultInv'
<1>1. lane[l].pc = "retry" /\ UNCHANGED <<run, runs, job, reviewed>>
  BY DEF RetryStart, dbVars, prVars
<1>2. CASE \E pc \in {"stale", "failFinal"} : GoTo(l, pc)
  BY <1>1, <1>2, GoToSettle, LaneAlone
<1>3. CASE run[lane[l].run].status = "done" /\ \E pc \in {"retryBody", "done"} : GoTo(l, pc)
  <2>1. PICK pc \in {"retryBody", "done"} : GoTo(l, pc)
    BY <1>3
  <2>2. lane'[l].pc = pc /\ lane'[l].job = lane[l].job /\ lane'[l].run = lane[l].run
        /\ \A m \in Lane \ {l} : lane'[m] = lane[m]
    BY <2>1, GoToRows
  <2>3. Finished(lane[l].run)'
    BY <1>1, <1>3, <2>2 DEF Finished
  <2>4. LaneStays(l)
    BY <1>1, <2>2, <2>3 DEF LaneStays, KnowsRun, Writing, Ended
  <2>5. QED
    BY <1>1, <2>2, <2>4, LaneAlone
<1>4. QED
  BY <1>2, <1>3 DEF RetryStart

\* The lane of a run that may still be written.
LEMMA WriterKnows ==
  ASSUME TypeInv, ResultInv, NEW l \in Lane, lane[l].pc \in Writing
  PROVE  /\ lane[l].run \in 1..runs /\ run[lane[l].run].job = lane[l].job
         /\ ~Finished(lane[l].run) /\ KnowsRun(l)
  BY DEF ResultInv, LanesKnow, LaneKnows, KnowsRun, RunFits

\* finish_run, by the lane at work on the run.
LEMMA FinishRunResult ==
  ASSUME TypeInv, ResultInv, NEW l \in Lane,
         StaleFinish(l) \/ SkipFinish(l) \/ NoVendor(l) \/ RunFails(l)
  PROVE  ResultInv' /\ RunsMove
<1>1. lane[l].pc \in Writing /\ UNCHANGED <<runs, job, reviewed>>
  BY DEF StaleFinish, SkipFinish, NoVendor, RunFails, Writing, prVars
<1>2. PICK r : r = lane[l].run
  OBVIOUS
<1>3. r \in 1..runs /\ run[r].job = lane[l].job /\ ~Finished(r) /\ KnowsRun(l)
  BY <1>1, <1>2, WriterKnows
<1>4. \E status \in {"canceled", "failed"} : \E why : FinishRun(r, status, why)
  BY <1>2 DEF StaleFinish, SkipFinish, NoVendor, RunFails
<1>5. RunsMove /\ \A k \in Run \ {r} : run'[k] = run[k]
  BY <1>1, <1>3, <1>4, FinishRunMoves DEF ResultInv
<1>6. FinishesOwn(l)
  BY <1>1, <1>2, <1>5 DEF FinishesOwn
<1>7. LaneStays(l) /\ \A m \in Lane \ {l} : lane'[m] = lane[m]
  <2>1. CASE StaleFinish(l)
    BY <2>1, GoToSettle DEF StaleFinish
  <2>2. CASE RunFails(l)
    BY <2>2, LaneForgets DEF RunFails
  <2>3. CASE SkipFinish(l) \/ NoVendor(l)
    <3>1. \E why \in {"skip", "novendor"} : FinishRun(r, "canceled", why)
      BY <1>2, <2>3 DEF SkipFinish, NoVendor
    <3>2. Finished(r)'
      BY <1>1, <1>3, <3>1, FinishRunMoves DEF ResultInv, Finished
    <3>3. PICK pc \in {"skipMark", "done"} : GoTo(l, pc)
      BY <2>3 DEF SkipFinish, NoVendor
    <3>4. lane'[l].pc = pc /\ lane'[l].job = lane[l].job /\ lane'[l].run = r
          /\ \A m \in Lane \ {l} : lane'[m] = lane[m]
      BY <1>2, <3>3, GoToRows
    <3>5. Finished(lane[l].run)'
      BY <3>2, <3>4
    <3>6. QED
      BY <1>2, <1>3, <3>4, <3>5 DEF LaneStays, Writing, Ended
  <2>4. QED
    BY <2>1, <2>2, <2>3
<1>8. QED
  BY <1>1, <1>5, <1>6, <1>7, JobsAlone, LaneMoves

\* The persist barrier completes the run and marks the head, or does nothing.
LEMMA PersistResult ==
  ASSUME TypeInv, ResultInv, NEW l \in Lane, Persist(l)
  PROVE  ResultInv' /\ RunsMove
<1>1. lane[l].pc = "body" /\ lane[l].pc \in Writing /\ UNCHANGED <<runs, job>>
  BY DEF Persist, Writing
<1>2. PICK r, j : r = lane[l].run /\ j = lane[l].job
  OBVIOUS
<1>3. r \in 1..runs /\ run[r].job = j /\ ~Finished(r) /\ KnowsRun(l)
  BY <1>1, <1>2, WriterKnows
<1>4. CASE Abandon(l) /\ UNCHANGED <<run, reviewed>>
  <2>1. RunsMove
    BY <1>1, <1>4, RunsStay DEF ResultInv
  <2>2. QED
    BY <1>1, <1>4, <2>1, LaneForgets, LaneAlone DEF Abandon
<1>5. CASE ~(Abandon(l) /\ UNCHANGED <<run, reviewed>>)
  <2>1. /\ head[j[1]] = j[2] /\ GoTo(l, "done")
        /\ \E partial \in BOOLEAN :
             run' = [run EXCEPT ![r].status = "done", ![r].partial = partial]
        /\ reviewed' = [reviewed EXCEPT ![j[1]] = j[2]]
    BY <1>2, <1>5 DEF Persist
  <2>2. PICK row : /\ run' = [run EXCEPT ![r] = row] /\ row.status = "done"
                   /\ row.job = run[r].job
    <3>1. PICK partial \in BOOLEAN :
            run' = [run EXCEPT ![r] = [run[r] EXCEPT !.status = "done", !.partial = partial]]
      BY <2>1
    <3>2. run[r] \in RunRow
      BY <1>3, QueueRows
    <3>3. /\ [run[r] EXCEPT !.status = "done", !.partial = partial].status = "done"
          /\ [run[r] EXCEPT !.status = "done", !.partial = partial].job = run[r].job
      BY <3>2 DEF RunRow
    <3>4. QED
      BY <3>1, <3>3
  <2>3. RunsMove /\ run'[r] = row /\ \A k \in Run \ {r} : run'[k] = run[k]
    BY <1>1, <1>3, <2>2, OneRunWritten DEF ResultInv
  <2>4. Finished(r)' /\ run'[r].job = j
    BY <1>3, <2>2, <2>3 DEF Finished
  <2>5. lane'[l].pc = "done" /\ lane'[l].job = j /\ lane'[l].run = r
        /\ \A m \in Lane \ {l} : lane'[m] = lane[m]
    BY <1>2, <2>1, GoToRows
  <2>6. Finished(lane[l].run)'
    BY <2>4, <2>5
  <2>7. LaneStays(l)
    BY <1>2, <1>3, <2>5, <2>6 DEF LaneStays, Writing, Ended
  <2>8. FinishesOwn(l)
    BY <1>1, <1>2, <2>3 DEF FinishesOwn
  <2>9. \A m \in Lane : LaneStays(m)
    BY <2>5, <2>7, <2>8, OtherLanes DEF ResultInv
  <2>10. j = <<j[1], j[2]>> /\ j[1] \in Pr
    <3>1. j \in Pr \X Sha
      BY <1>1, <1>2 DEF TypeInv, LaneHasJob, Job
    <3>2. QED
      BY <3>1
  <2>11. \A p \in Pr : \/ reviewed'[p] = reviewed[p]
                       \/ \E k \in Run : run'[k].job = <<p, reviewed'[p]>> /\ Finished(k)'
    <3>1. reviewed \in [Pr -> Sha \cup {None}]
      BY DEF TypeInv, TypeOK
    <3>2. reviewed'[j[1]] = j[2] /\ \A p \in Pr : p # j[1] => reviewed'[p] = reviewed[p]
      BY <2>1, <2>10, <3>1
    <3>3. r \in Run
      BY <1>3, QueueRows
    <3>4. QED
      BY <2>4, <2>10, <3>2, <3>3
  <2>12. RunsFresh'
    BY <2>3 DEF RunsMove, RunsFresh
  <2>13. LanesKnow' /\ JobsKnow' /\ ReviewedHeadHasRun'
    BY <1>1, <2>3, <2>9, <2>11, JobsAlone, LanesStay, JobsStay, HeadsStay DEF ResultInv
  <2>14. QED
    BY <2>3, <2>12, <2>13 DEF ResultInv
<1>6. QED
  BY <1>4, <1>5

\* The retry's barrier leaves the run done.
LEMMA RetryPersistResult ==
  ASSUME TypeInv, ResultInv, NEW l \in Lane, RetryPersist(l)
  PROVE  ResultInv' /\ RunsMove
<1>1. lane[l].pc = "retryBody" /\ UNCHANGED <<runs, job, reviewed>>
  BY DEF RetryPersist, prVars
<1>2. PICK r : r = lane[l].run
  OBVIOUS
<1>3. r \in 1..runs /\ Finished(r) /\ KnowsRun(l)
  BY <1>1, <1>2 DEF ResultInv, LanesKnow, LaneKnows, KnowsRun, RunFits, Ended
<1>4. ASSUME UNCHANGED run PROVE RunsMove
  BY <1>1, <1>4, RunsStay DEF ResultInv
<1>5. CASE Abandon(l) /\ UNCHANGED run
  BY <1>1, <1>4, <1>5, LaneForgets, LaneAlone DEF Abandon
<1>6. CASE GoTo(l, "stale") /\ UNCHANGED run
  BY <1>1, <1>4, <1>6, GoToSettle, LaneAlone
<1>7. CASE GoTo(l, "done")
           /\ \E partial \in BOOLEAN : run' = [run EXCEPT ![r].partial = partial]
  <2>1. ASSUME NEW k \in Run
        PROVE  run'[k].job = run[k].job /\ run'[k].status = run[k].status
               /\ run'[k].why = run[k].why
    <3>1. PICK partial \in BOOLEAN : run' = [run EXCEPT ![r].partial = partial]
      BY <1>7
    <3>2. run[k] \in RunRow
      BY QueueRows
    <3>3. run'[k] = run[k] \/ run'[k] = [run[k] EXCEPT !.partial = partial]
      BY <3>1, QueueRows
    <3>4. CASE run'[k] = [run[k] EXCEPT !.partial = partial]
      BY <3>2, <3>4 DEF RunRow
    <3>5. QED
      BY <3>3, <3>4
  <2>2. \A k \in Run : Finished(k)' <=> Finished(k)
    BY <2>1 DEF Finished
  <2>3. RunsMove
    BY <1>1, <2>1, <2>2, QueueRows DEF RunsMove, ResultInv, RunsFresh
  <2>4. FinishesOwn(l)
    BY <2>2 DEF FinishesOwn
  <2>5. lane'[l].pc = "done" /\ lane'[l].job = lane[l].job /\ lane'[l].run = lane[l].run
        /\ \A m \in Lane \ {l} : lane'[m] = lane[m]
    BY <1>7, GoToRows
  <2>6. LaneStays(l)
    BY <1>1, <1>3, <2>5 DEF LaneStays, Writing, Ended
  <2>7. QED
    BY <1>1, <2>3, <2>4, <2>5, <2>6, JobsAlone, LaneMoves
<1>8. QED
  BY <1>2, <1>5, <1>6, <1>7 DEF RetryPersist

\* A sweep that fails some running runs: of a timeout, or of recovery.
LEMMA SweepMoves ==
  ASSUME TypeInv, RunsFresh, UNCHANGED runs,
         \A r \in Run : \/ run'[r] = run[r]
                        \/ /\ run[r].status = "running"
                           /\ run'[r] = [run[r] EXCEPT !.status = "failed"]
  PROVE  RunsMove /\ \A r \in Run : Finished(r)' <=> Finished(r)
<1>1. ASSUME NEW r \in Run
      PROVE  /\ run'[r].job = run[r].job /\ (Finished(r)' <=> Finished(r))
             /\ run[r].status = "done" => run'[r].status = "done"
             /\ run[r].status = "none" => run'[r].status = "none"
  <2>1. CASE run'[r] = run[r]
    BY <2>1 DEF Finished
  <2>2. CASE run[r].status = "running" /\ run'[r] = [run[r] EXCEPT !.status = "failed"]
    <3>1. run[r] \in RunRow
      BY QueueRows
    <3>2. run'[r].job = run[r].job /\ run'[r].status = "failed"
      BY <2>2, <3>1 DEF RunRow
    <3>3. QED
      BY <2>2, <3>2 DEF Finished
  <2>3. QED
    BY <2>1, <2>2
<1>2. QED
  BY <1>1, QueueRows DEF RunsMove, RunsFresh

\* A timeout touches running runs only, and the lane forgets its run.
LEMMA TimeoutResult ==
  ASSUME TypeInv, ResultInv, NEW l \in Lane, Timeout(l)
  PROVE  ResultInv' /\ RunsMove
<1>1. UNCHANGED <<runs, job, reviewed>>
  BY DEF Timeout, prVars
<1>2. RunsMove /\ \A r \in Run : Finished(r)' <=> Finished(r)
  BY <1>1, SweepMoves DEF Timeout, RunningForJob, ResultInv
<1>3. FinishesOwn(l)
  BY <1>2 DEF FinishesOwn
<1>4. lane'[l].pc = "failRetry" /\ \A m \in Lane \ {l} : lane'[m] = lane[m]
  BY QueueRows DEF Timeout, LaneRow
<1>5. LaneStays(l)
  BY <1>4 DEF LaneStays, KnowsRun, Writing, Ended
<1>6. QED
  BY <1>1, <1>2, <1>3, <1>4, <1>5, JobsAlone, LaneMoves

\* A new run belongs to nobody else.
LEMMA CreateRunResult ==
  ASSUME TypeInv, ResultInv, NEW l \in Lane, CreateRun(l)
  PROVE  ResultInv' /\ RunsMove
<1>1. lane[l].pc = "start" /\ UNCHANGED <<job, reviewed>>
  BY DEF CreateRun, prVars
<1>2. CASE GoTo(l, "stale") /\ UNCHANGED <<run, runs>>
  <2>1. RunsMove
    BY <1>2, RunsStay DEF ResultInv
  <2>2. QED
    BY <1>1, <1>2, <2>1, GoToSettle, LaneAlone
<1>3. CASE ~(GoTo(l, "stale") /\ UNCHANGED <<run, runs>>)
  <2>1. PICK r, j : r = runs + 1 /\ j = lane[l].job
    OBVIOUS
  <2>2. /\ runs < MaxRuns /\ runs' = r
        /\ run' = [run EXCEPT ![r] = [NoRunRow EXCEPT !.status = "running", !.job = j,
                                                      !.owner = l[1]]]
        /\ lane' = [lane EXCEPT ![l] = [lane[l] EXCEPT !.pc = "body", !.run = r,
                                                       !.vendor = config.vendor]]
    BY <1>3, <2>1 DEF CreateRun
  <2>3. r \in Run /\ r \notin 1..runs /\ r \in 1..runs'
    BY <2>1, <2>2, QueueRows, Bounds DEF Run
  <2>4. run'[r].status = "running" /\ run'[r].job = j
    BY <2>2, <2>3, QueueRows DEF NoRunRow
  <2>5. \A k \in Run \ {r} : run'[k] = run[k]
    BY <2>2, QueueRows
  <2>6. lane'[l].pc = "body" /\ lane'[l].job = j /\ lane'[l].run = r
    BY <2>1, <2>2, QueueRows DEF LaneRow
  <2>7. \A m \in Lane \ {l} : lane'[m] = lane[m]
    BY <2>2, QueueRows
  <2>8. ~Finished(r)'
    BY <2>4 DEF Finished
  <2>9. RunsMove
    <3>1. \A k \in 1..runs : k \in Run \ {r}
      BY <2>3, QueueRows
    <3>2. \A k \in 1..runs : run'[k] = run[k]
      BY <2>5, <3>1
    <3>3. \A k \in Run : run'[k].status # "none" => k <= runs'
      BY <2>1, <2>2, <2>5, QueueRows DEF ResultInv, RunsFresh, Run
    <3>4. QED
      BY <2>1, <2>2, <3>2, <3>3, QueueRows DEF RunsMove, Finished
  <2>10. ASSUME NEW m \in Lane \ {l}
         PROVE  LaneKnows(m)' /\ (lane'[m].pc \in Writing => lane'[m].run # r)
    <3>1. lane'[m] = lane[m] /\ LaneKnows(m)
      BY <2>7 DEF ResultInv, LanesKnow
    <3>2. PICK k : k = lane[m].run
      OBVIOUS
    <3>3. KnowsRun(m) => k \in 1..runs /\ run[k].job = lane[m].job /\ k # r /\ run'[k] = run[k]
                         /\ k \in 1..runs'
      BY <2>1, <2>2, <2>3, <2>5, <3>1, <3>2, QueueRows DEF LaneKnows, RunFits
    <3>4. KnowsRun(m)' <=> KnowsRun(m)
      BY <3>1 DEF KnowsRun
    <3>5. KnowsRun(m) => (Finished(k)' <=> Finished(k))
      BY <3>3 DEF Finished
    <3>6. LaneKnows(m)'
      BY <3>1, <3>2, <3>3, <3>4, <3>5 DEF LaneKnows, RunFits, KnowsRun
    <3>7. QED
      BY <3>1, <3>2, <3>3, <3>6 DEF KnowsRun
  <2>11. LaneKnows(l)'
    BY <2>3, <2>4, <2>6, <2>8 DEF LaneKnows, RunFits, Writing, Ended
  <2>12. WritersApart'
    BY <2>6, <2>7, <2>10 DEF ResultInv, LanesKnow, WritersApart
  <2>13. RunsFresh'
    BY <2>9 DEF RunsMove, RunsFresh
  <2>14. JobsKnow' /\ ReviewedHeadHasRun'
    BY <1>1, <2>9, JobsAlone, JobsStay, HeadsStay DEF ResultInv
  <2>15. QED
    BY <2>9, <2>10, <2>11, <2>12, <2>13, <2>14 DEF ResultInv, LanesKnow
<1>4. QED
  BY <1>2, <1>3

\* A head is marked after its run was finished.
LEMMA SkipMarkResult ==
  ASSUME TypeInv, ResultInv, NEW l \in Lane, SkipMark(l)
  PROVE  ResultInv'
<1>1. /\ lane[l].pc = "skipMark" /\ UNCHANGED <<run, runs, job>> /\ GoTo(l, "done")
      /\ reviewed' = [reviewed EXCEPT ![lane[l].job[1]] = lane[l].job[2]]
  BY DEF SkipMark, dbVars
<1>2. PICK r, j : r = lane[l].run /\ j = lane[l].job
  OBVIOUS
<1>3. r \in 1..runs /\ run[r].job = j /\ Finished(r) /\ KnowsRun(l)
  BY <1>1, <1>2 DEF ResultInv, LanesKnow, LaneKnows, KnowsRun, RunFits, Ended
<1>4. RunsMove
  BY <1>1, RunsStay DEF ResultInv
<1>5. lane'[l].pc = "done" /\ lane'[l].job = j /\ lane'[l].run = r
      /\ \A m \in Lane \ {l} : lane'[m] = lane[m]
  BY <1>1, <1>2, GoToRows
<1>6. LaneStays(l)
  BY <1>1, <1>2, <1>3, <1>5 DEF LaneStays, Writing, Ended
<1>7. FinishesOwn(l)
  BY <1>1 DEF FinishesOwn
<1>8. \A m \in Lane : LaneStays(m)
  BY <1>5, <1>6, <1>7, OtherLanes DEF ResultInv
<1>9. \A p \in Pr : \/ reviewed'[p] = reviewed[p]
                    \/ \E k \in Run : run'[k].job = <<p, reviewed'[p]>> /\ Finished(k)'
  <2>1. j \in Pr \X Sha /\ reviewed \in [Pr -> Sha \cup {None}]
    BY <1>1, <1>2 DEF TypeInv, TypeOK, LaneHasJob, Job
  <2>2. j = <<j[1], j[2]>> /\ j[1] \in Pr
    BY <2>1
  <2>3. reviewed'[j[1]] = j[2] /\ \A p \in Pr : p # j[1] => reviewed'[p] = reviewed[p]
    BY <1>1, <1>2, <2>1, <2>2
  <2>4. r \in Run
    BY <1>3, QueueRows
  <2>5. run'[r].job = j /\ Finished(r)'
    BY <1>1, <1>3 DEF Finished
  <2>6. QED
    BY <2>2, <2>3, <2>4, <2>5
<1>10. RunsFresh'
  BY <1>4 DEF RunsMove, RunsFresh
<1>11. LanesKnow' /\ JobsKnow' /\ ReviewedHeadHasRun'
  BY <1>1, <1>4, <1>8, <1>9, JobsAlone, LanesStay, JobsStay, HeadsStay DEF ResultInv
<1>12. QED
  BY <1>10, <1>11 DEF ResultInv

\* A lane that claims a job knows the run the job is to repair.
LEMMA ClaimResult ==
  ASSUME TypeInv, ResultInv, NEW l \in Lane, Claim(l)
  PROVE  ResultInv'
<1>1. PICK j \in Job :
        /\ job[j].status = "queued"
        /\ job' = [job EXCEPT ![j].status = "running", ![j].owner = l[1],
                              ![j].attempts = Counted(@)]
        /\ lane' = [lane EXCEPT ![l] =
                      [IdleLane EXCEPT !.pc = "gate", !.job = j,
                                       !.run = IF job[j].trigger = "retry"
                                               THEN job[j].retryRun
                                               ELSE NoRun]]
  BY DEF Claim, Claimant, Ready
<1>2. UNCHANGED <<run, runs, reviewed>>
  BY DEF Claim, prVars
<1>3. PICK r : r = IF job[j].trigger = "retry" THEN job[j].retryRun ELSE NoRun
  OBVIOUS
<1>4. lane'[l].pc = "gate" /\ lane'[l].job = j /\ lane'[l].run = r
      /\ \A m \in Lane \ {l} : lane'[m] = lane[m]
  BY <1>1, <1>3, QueueRows DEF IdleLane
<1>5. \A k \in Job : JobStays(k)
  <2>1. job'[j].retryRun = job[j].retryRun /\ job'[j].status = "running"
    BY <1>1, QueueRows DEF JobRow
  <2>2. \A k \in Job : k # j => job'[k] = job[k]
    BY <1>1, QueueRows
  <2>3. QED
    BY <2>1, <2>2 DEF JobStays
<1>6. RunsMove
  BY <1>2, RunsStay DEF ResultInv
<1>7. RunsFresh' /\ JobsKnow' /\ ReviewedHeadHasRun'
  BY <1>2, <1>5, <1>6, JobsStay, HeadsStay DEF ResultInv, RunsMove, RunsFresh
<1>8. LaneKnows(l)'
  <2>1. r # NoRun => RunFits(r, j)
    BY <1>3 DEF ResultInv, JobsKnow, RetriesKnow
  <2>2. r # NoRun => RunFits(r, j)'
    BY <1>6, <2>1, FitsOn
  <2>3. QED
    BY <1>4, <2>2 DEF LaneKnows, KnowsRun, Writing, Ended
<1>9. ASSUME NEW m \in Lane \ {l} PROVE LaneKnows(m)'
  BY <1>2, <1>4 DEF ResultInv, LanesKnow, LaneKnows, KnowsRun, RunFits, Finished
<1>10. WritersApart'
  BY <1>4 DEF ResultInv, LanesKnow, WritersApart, Writing
<1>11. QED
  BY <1>7, <1>8, <1>9, <1>10 DEF ResultInv, LanesKnow

\* A lane that settles its job rests.
LEMMA SettleResult ==
  ASSUME TypeInv, ResultInv, NEW l \in Lane, Rest(l), UNCHANGED <<run, runs, reviewed>>,
         JobsKnow'
  PROVE  ResultInv'
<1>1. RunsMove
  BY RunsStay DEF ResultInv
<1>2. FinishesOwn(l)
  BY DEF FinishesOwn
<1>3. \A m \in Lane : LaneStays(m)
  BY <1>2, LaneForgets, OtherLanes DEF ResultInv
<1>4. RunsFresh' /\ LanesKnow' /\ ReviewedHeadHasRun'
  BY <1>1, <1>3, LanesStay, HeadsStay DEF ResultInv, RunsMove, RunsFresh
<1>5. QED
  BY <1>4 DEF ResultInv

\* A lane that settles its job as anything but done.
LEMMA SettleStays ==
  ASSUME TypeInv, ResultInv, NEW l \in Lane, Rest(l), UNCHANGED <<run, runs, reviewed>>,
         \A j \in Job : JobStays(j)
  PROVE  ResultInv'
<1>1. RunsMove
  BY RunsStay DEF ResultInv
<1>2. JobsKnow'
  BY <1>1, JobsStay DEF ResultInv
<1>3. QED
  BY <1>2, SettleResult

\* A row that is canceled.
LEMMA CanceledStays ==
  ASSUME TypeInv, NEW j \in Job
  PROVE  LET row == [job[j] EXCEPT !.status = "canceled", !.cause = "system", !.owner = None]
         IN  row.status = "canceled" /\ row.retryRun = job[j].retryRun
<1>1. job[j] \in JobRow
  BY QueueRows
<1>2. QED
  BY <1>1 DEF JobRow

\* The lane's own row is canceled.
LEMMA MarkCanceledResult ==
  ASSUME TypeInv, ResultInv, NEW l \in Lane, MarkCanceled(l)
  PROVE  ResultInv'
<1>1. Rest(l) /\ UNCHANGED <<run, runs, reviewed>> /\ lane[l].pc = "cancel"
  BY DEF MarkCanceled, prVars
<1>2. PICK j \in Job : j = lane[l].job
  BY <1>1 DEF TypeInv, LaneHasJob
<1>3. job' = job
      \/ job' = [job EXCEPT ![j] = [job[j] EXCEPT !.status = "canceled", !.cause = "system",
                                                  !.owner = None]]
  BY <1>2 DEF MarkCanceled
<1>4. \A k \in Job : \/ job'[k] = job[k]
                     \/ job'[k].status = "canceled" /\ job'[k].retryRun = job[k].retryRun
  BY <1>3, QueueRows, CanceledStays
<1>5. \A k \in Job : JobStays(k)
  BY <1>4 DEF JobStays
<1>6. QED
  BY <1>1, <1>5, SettleStays

\* The stale row is canceled, the row of the head inserted or revived as queued.
LEMMA StaleResult ==
  ASSUME TypeInv, ResultInv, NEW l \in Lane, CancelStaleAndEnqueueLatest(l)
  PROVE  ResultInv'
<1>1. Rest(l) /\ UNCHANGED <<run, runs, reviewed>> /\ lane[l].pc = "stale"
  BY DEF CancelStaleAndEnqueueLatest, prVars
<1>2. PICK j \in Job : j = lane[l].job
  BY <1>1 DEF TypeInv, LaneHasJob
<1>3. /\ DOMAIN StaleCanceled(l) = Job
      /\ \A k \in Job : StaleCanceled(l)[k] = job[k]
                        \/ /\ StaleCanceled(l)[k].status = "canceled"
                           /\ StaleCanceled(l)[k].retryRun = job[k].retryRun
  <2>1. StaleCanceled(l) = job
        \/ StaleCanceled(l) = [job EXCEPT ![j] = [job[j] EXCEPT !.status = "canceled",
                                                       !.cause = "system", !.owner = None]]
    BY <1>2 DEF StaleCanceled, CancelOwn
  <2>2. QED
    BY <2>1, QueueRows, CanceledStays
<1>4. \/ job' = StaleCanceled(l)
      \/ \E h \in Job : \E trigger : \/ job' = [StaleCanceled(l) EXCEPT ![h] = Inserted(trigger, NoRun)]
                                     \/ job' = [StaleCanceled(l) EXCEPT ![h] = Revived(h, trigger, NoRun)]
  <2>1. <<lane[l].job[1], head[lane[l].job[1]]>> \in Job
    BY <1>1, WorkingLane
  <2>2. QED
    BY <2>1 DEF CancelStaleAndEnqueueLatest
<1>5. \A h \in Job : \A trigger :
        /\ Inserted(trigger, NoRun).status = "queued"
        /\ Inserted(trigger, NoRun).retryRun = NoRun
        /\ Revived(h, trigger, NoRun).status = "queued"
        /\ Revived(h, trigger, NoRun).retryRun = NoRun
  <2>1. \A h \in Job : job[h] \in JobRow
    BY QueueRows
  <2>2. QED
    BY <2>1 DEF Inserted, Revived, NoJobRow, JobRow
<1>6. \A k \in Job : \/ job'[k] = job[k]
                     \/ /\ job'[k].status \in {"canceled", "queued"}
                        /\ job'[k].retryRun \in {NoRun, job[k].retryRun}
  BY <1>3, <1>4, <1>5
<1>7. \A k \in Job : JobStays(k)
  BY <1>6 DEF JobStays
<1>8. QED
  BY <1>1, <1>7, SettleStays

\* A failed job points at a run, and is not done.
LEMMA MarkFailedResult ==
  ASSUME TypeInv, ResultInv, NEW l \in Lane, MarkFailed(l)
  PROVE  ResultInv'
<1>1. Rest(l) /\ UNCHANGED <<run, runs, reviewed>> /\ lane[l].pc # "idle"
  BY DEF MarkFailed, prVars
<1> DEFINE j == lane[l].job
           again == lane[l].pc = "failRetry" /\ job[j].attempts < MaxAttempts
           pointer == IF lane[l].run = NoRun THEN job[j].runId ELSE lane[l].run
           row == [job[j] EXCEPT !.status = IF again THEN "queued" ELSE "failed",
                                 !.delayed = IF again THEN TRUE ELSE @,
                                 !.runId = pointer, !.owner = None]
<1>2. job' = job \/ job' = [job EXCEPT ![j] = row]
  BY DEF MarkFailed
<1>3. j \in Job /\ job[j] \in JobRow
  BY <1>1, WorkingLane
<1>4. row.status \in {"queued", "failed"} /\ row.retryRun = job[j].retryRun
  <2> HIDE DEF again, pointer
  <2>1. QED
    BY <1>3 DEF JobRow
<1> HIDE DEF row
<1>5. \A k \in Job : \/ job'[k] = job[k]
                     \/ /\ job'[k].status \in {"queued", "failed"}
                        /\ job'[k].retryRun = job[k].retryRun
  BY <1>2, <1>3, <1>4, QueueRows
<1>6. \A k \in Job : JobStays(k)
  BY <1>5 DEF JobStays
<1>7. QED
  BY <1>1, <1>6, SettleStays

\* A job becomes done with the finished run of its lane.
LEMMA MarkDoneResult ==
  ASSUME TypeInv, ResultInv, NEW l \in Lane, MarkDone(l)
  PROVE  ResultInv'
<1>1. Rest(l) /\ UNCHANGED <<run, runs, reviewed>> /\ lane[l].pc = "done"
  BY DEF MarkDone, prVars
<1>2. PICK j \in Job : j = lane[l].job
  BY <1>1 DEF TypeInv, LaneHasJob
<1>3. PICK r : r = lane[l].run
  OBVIOUS
<1>4. r \in 1..runs /\ run[r].job = j /\ Finished(r)
  BY <1>1, <1>2, <1>3 DEF ResultInv, LanesKnow, LaneKnows, KnowsRun, RunFits, Ended
<1>5. CASE job' = job
  BY <1>1, <1>5, JobsAlone, SettleStays
<1>6. CASE job' = [job EXCEPT ![j] = [job[j] EXCEPT !.status = "done", !.runId = r,
                                                    !.owner = None]]
  <2>1. job'[j].runId = r /\ job'[j].retryRun = job[j].retryRun
    BY <1>6, QueueRows DEF JobRow
  <2>2. \A k \in Job : k # j => job'[k] = job[k]
    BY <1>6, QueueRows
  <2>3. \A k \in Job : job'[k].retryRun = job[k].retryRun
    BY <2>1, <2>2
  <2>4. RetriesKnow'
    BY <1>1, <2>3 DEF ResultInv, JobsKnow, RetriesKnow, RunFits
  <2>5. r # NoRun
    BY <1>4, QueueRows DEF NoRun
  <2>6. \A k : Finished(k) => Finished(k)'
    BY <1>1 DEF Finished
  <2>7. ASSUME NEW k \in Job, job'[k].status = "done"
        PROVE  job'[k].runId # NoRun /\ run'[job'[k].runId].job = k
               /\ Finished(job[k].runId)'
    <3>1. CASE k = j
      BY <1>1, <1>4, <2>1, <2>5, <2>6, <3>1
    <3>2. CASE k # j
      BY <1>1, <2>2, <2>6, <2>7, <3>2 DEF ResultInv, JobsKnow, DoneJobHasFinishedRun
    <3>3. QED
      BY <3>1, <3>2
  <2>8. DoneJobHasFinishedRun'
    BY <2>7 DEF DoneJobHasFinishedRun
  <2>9. QED
    BY <1>1, <2>4, <2>8, SettleResult DEF JobsKnow
<1>7. QED
  BY <1>2, <1>3, <1>5, <1>6 DEF MarkDone

---------------------------------------------------------------------------
(* Steps of others                                                        *)

\* A step that writes job rows only.
LEMMA JobsOnly ==
  ASSUME TypeInv, ResultInv, UNCHANGED <<run, runs, reviewed, lane>>,
         \A j \in Job : JobStays(j)
  PROVE  ResultInv'
<1>1. RunsMove
  BY RunsStay DEF ResultInv
<1>2. RunsFresh' /\ JobsKnow' /\ ReviewedHeadHasRun'
  BY <1>1, JobsStay, HeadsStay DEF ResultInv, RunsMove, RunsFresh
<1>3. LanesKnow'
  BY DEF ResultInv, LanesKnow, LaneKnows, KnowsRun, RunFits, Finished, WritersApart
<1>4. QED
  BY <1>2, <1>3 DEF ResultInv

\* The rows an enqueue writes.
LEMMA EnqueuedRows ==
  ASSUME TypeInv, NEW j \in Job, NEW trigger, NEW r
  PROVE  /\ Inserted(trigger, r).status = "queued" /\ Inserted(trigger, r).retryRun = r
         /\ Revived(j, trigger, r).status = "queued" /\ Revived(j, trigger, r).retryRun = r
<1>1. job[j] \in JobRow
  BY QueueRows
<1>2. QED
  BY <1>1 DEF Inserted, Revived, NoJobRow, JobRow

\* A report enqueues without a run to repair, or with the one the row had.
LEMMA AutoEnqueueStays ==
  ASSUME TypeInv, NEW j \in Job, AutoEnqueue(j)
  PROVE  \A k \in Job : JobStays(k)
<1>1. \/ job' = job
      \/ job' = [job EXCEPT ![j] = Inserted("auto", NoRun)]
      \/ job' = [job EXCEPT ![j] = Revived(j, "auto", job[j].retryRun)]
  BY DEF AutoEnqueue
<1>2. \A k \in Job : \/ job'[k] = job[k]
                     \/ /\ job'[k].status = "queued"
                        /\ job'[k].retryRun \in {NoRun, job[k].retryRun}
  BY <1>1, EnqueuedRows, QueueRows
<1>3. QED
  BY <1>2 DEF JobStays

\* A person's request names no run, or one of the job itself.
LEMMA UserEnqueueStays ==
  ASSUME TypeInv, NEW j \in Job, NEW trigger, NEW r, UserEnqueue(j, trigger, r),
         UNCHANGED <<run, runs>>, r = NoRun \/ RunFits(r, j)
  PROVE  \A k \in Job : JobStays(k)
<1>1. \/ job' = [job EXCEPT ![j] = Inserted(trigger, r)]
      \/ job' = [job EXCEPT ![j] = Revived(j, trigger, r)]
      \/ job' = [job EXCEPT ![j] = [job[j] EXCEPT !.trigger = "manual"]]
  BY DEF UserEnqueue
<1>2. \A k \in Job : k # j => job'[k] = job[k]
  BY <1>1, QueueRows
<1>3. \/ job'[j].status = "queued" /\ job'[j].retryRun = r
      \/ /\ job'[j].status = job[j].status /\ job'[j].retryRun = job[j].retryRun
         /\ job'[j].runId = job[j].runId
  <2>1. job[j] \in JobRow
    BY QueueRows
  <2>2. CASE job' = [job EXCEPT ![j] = [job[j] EXCEPT !.trigger = "manual"]]
    <3>1. job'[j] = [job[j] EXCEPT !.trigger = "manual"]
      BY <2>2, QueueRows
    <3>2. QED
      BY <2>1, <3>1 DEF JobRow
  <2>3. CASE \/ job' = [job EXCEPT ![j] = Inserted(trigger, r)]
             \/ job' = [job EXCEPT ![j] = Revived(j, trigger, r)]
    BY <2>3, EnqueuedRows, QueueRows
  <2>4. QED
    BY <1>1, <2>2, <2>3
<1>4. RunFits(r, j) => RunFits(r, j)'
  BY DEF RunFits
<1>5. JobStays(j)
  BY <1>3, <1>4 DEF JobStays
<1>6. QED
  BY <1>2, <1>5 DEF JobStays

\* Requests of the poller, of webhooks and of people.
LEMMA RequestsResult ==
  ASSUME TypeInv, ResultInv,
         \/ UserStep
         \/ \E p \in Pr : Close(p) \/ \E s \in Sha : Sync(p, s)
         \/ \E j \in Job : BackoffElapses(j)
  PROVE  ResultInv' /\ UNCHANGED <<run, runs>>
<1>1. UNCHANGED <<run, runs, reviewed, lane>>
  BY DEF UserStep, Close, Sync, BackoffElapses, EnqueueManual, CancelReview,
         EnqueueRetry, SetConfig, dbVars, prVars
<1>2. \A j \in Job : JobStays(j)
  <2>1. ASSUME NEW p \in Pr, NEW s \in Sha, Sync(p, s)
        PROVE  \A j \in Job : JobStays(j)
    <3>1. <<p, s>> \in Job
      BY DEF Job
    <3>2. AutoEnqueue(<<p, s>>) \/ UNCHANGED job
      BY <2>1 DEF Sync
    <3>3. QED
      BY <3>1, <3>2, AutoEnqueueStays, JobsAlone
  <2>2. ASSUME NEW p \in Pr, EnqueueManual(p)
        PROVE  \A j \in Job : JobStays(j)
    <3>1. <<p, head[p]>> \in Job
      BY DEF Job, TypeInv, TypeOK
    <3>2. UserEnqueue(<<p, head[p]>>, "manual", NoRun)
      BY <2>2 DEF EnqueueManual
    <3>3. QED
      BY <1>1, <3>1, <3>2, UserEnqueueStays
  <2>3. ASSUME NEW r \in Run, EnqueueRetry(r)
        PROVE  \A j \in Job : JobStays(j)
    <3>1. PICK j : j = run[r].job
      OBVIOUS
    <3>2. r \in 1..runs
      BY <2>3, QueueRows DEF EnqueueRetry, ResultInv, RunsFresh, Run
    <3>3. UserEnqueue(j, "retry", r) /\ RunFits(r, j)
      BY <2>3, <3>1, <3>2 DEF EnqueueRetry, RunFits
    <3>4. CASE j \in Job
      BY <1>1, <3>3, <3>4, UserEnqueueStays
    <3>5. CASE j \notin Job
      <4>1. \A k \in Job : job'[k] = job[k]
        BY <3>3, <3>5, QueueRows DEF UserEnqueue
      <4>2. QED
        BY <4>1 DEF JobStays
    <3>6. QED
      BY <3>4, <3>5
  <2>4. ASSUME NEW p \in Pr, CancelReview(p)
        PROVE  \A j \in Job : JobStays(j)
    <3>1. ASSUME NEW j \in Job PROVE JobStays(j)
      <4>1. job[j] \in JobRow
        BY QueueRows
      <4>2. job'[j] = job[j]
            \/ job'[j] = [job[j] EXCEPT !.status = "canceled", !.cause = "user"]
        BY <2>4 DEF CancelReview
      <4>3. \/ job'[j] = job[j]
            \/ job'[j].status = "canceled" /\ job'[j].retryRun = job[j].retryRun
        BY <4>1, <4>2 DEF JobRow
      <4>4. QED
        BY <4>3 DEF JobStays
    <3>2. QED
      BY <3>1
  <2>5. ASSUME NEW i \in Job, BackoffElapses(i)
        PROVE  \A j \in Job : JobStays(j)
    <3>1. job[i] \in JobRow
      BY QueueRows
    <3>2. \A j \in Job : \/ job'[j] = job[j]
                         \/ /\ job'[j].status = job[j].status
                            /\ job'[j].retryRun = job[j].retryRun
                            /\ job'[j].runId = job[j].runId
      BY <2>5, <3>1, QueueRows DEF BackoffElapses, JobRow
    <3>3. QED
      BY <3>2 DEF JobStays
  <2>6. ASSUME NEW p \in Pr, Close(p)
        PROVE  \A j \in Job : JobStays(j)
    BY <2>6, JobsAlone DEF Close, dbVars
  <2>7. CASE \E c \in RepoConfigs : SetConfig(c)
    BY <2>7, JobsAlone DEF SetConfig, dbVars
  <2>8. QED
    BY <2>1, <2>2, <2>3, <2>4, <2>5, <2>6, <2>7 DEF UserStep
<1>3. QED
  BY <1>1, <1>2, JobsOnly

\* Booting, recovery and the ends of a process: running runs are failed, running
\* jobs given back, and the lanes of a process that dies rest.
LEMMA ProcessesResult ==
  ASSUME TypeInv, ResultInv, NEW p \in Proc, ProcStep(p)
  PROVE  ResultInv' /\ RunsMove
<1>1. UNCHANGED <<runs, reviewed>>
      /\ (UNCHANGED <<job, run>> \/ \E alive : RecoverExpired(alive))
  BY DEF ProcStep, Boot, Heartbeat, LeaseLost, LeaseExpires, Shutdown, Release,
         Crash, dbVars, prVars
<1>2. \A l \in Lane : lane'[l] = lane[l] \/ lane'[l] = IdleLane
  BY QueueRows DEF ProcStep, Boot, Heartbeat, LeaseLost, LeaseExpires, Shutdown,
                   Release, Crash
<1>3. RunsMove /\ \A r \in Run : Finished(r)' <=> Finished(r)
  <2>1. \A r \in Run : \/ run'[r] = run[r]
                       \/ /\ run[r].status = "running"
                          /\ run'[r] = [run[r] EXCEPT !.status = "failed"]
    BY <1>1 DEF RecoverExpired
  <2>2. QED
    BY <1>1, <2>1, SweepMoves DEF ResultInv
<1>4. \A j \in Job : JobStays(j)
  <2>1. ASSUME NEW j \in Job PROVE JobStays(j)
    <3>1. job'[j] = job[j] \/ job'[j] = [job[j] EXCEPT !.status = "queued", !.owner = None]
      BY <1>1 DEF RecoverExpired
    <3>2. job[j] \in JobRow
      BY QueueRows
    <3>3. job'[j] = job[j] \/ (job'[j].status = "queued" /\ job'[j].retryRun = job[j].retryRun)
      BY <3>1, <3>2 DEF JobRow
    <3>4. QED
      BY <3>3 DEF JobStays
  <2>2. QED
    BY <2>1
<1>5. ASSUME NEW l \in Lane PROVE LaneStays(l)
  <2>1. CASE lane'[l] = IdleLane
    BY <2>1 DEF IdleLane, LaneStays, KnowsRun, Writing, Ended
  <2>2. CASE lane'[l] = lane[l]
    <3>1. PICK r : r = lane[l].run
      OBVIOUS
    <3>2. lane[l].pc \in Writing => r \in Run /\ ~Finished(r)
      BY <3>1, QueueRows DEF ResultInv, LanesKnow, LaneKnows, KnowsRun, RunFits
    <3>3. lane[l].pc \in Writing => ~Finished(lane[l].run)'
      BY <1>3, <2>2, <3>1, <3>2
    <3>4. QED
      BY <2>2, <3>3 DEF LaneStays, KnowsRun
  <2>3. QED
    BY <1>2, <2>1, <2>2
<1>6. RunsFresh' /\ LanesKnow' /\ JobsKnow' /\ ReviewedHeadHasRun'
  BY <1>1, <1>3, <1>4, <1>5, LanesStay, JobsStay, HeadsStay
     DEF ResultInv, RunsMove, RunsFresh
<1>7. QED
  BY <1>3, <1>6 DEF ResultInv

---------------------------------------------------------------------------
(* Done jobs, reviewed heads and completed runs                            *)

\* At first there is no run, no job and no lane at work.
LEMMA ResultInit == Init => ResultInv
<1> SUFFICES ASSUME Init PROVE ResultInv
  OBVIOUS
<1>1. /\ \A r \in Run : run[r].status = "none"
      /\ \A j \in Job : job[j].status = "none" /\ job[j].retryRun = NoRun
      /\ \A l \in Lane : lane[l].pc = "idle"
      /\ \A p \in Pr : reviewed[p] = None
  BY DEF Init, NoRunRow, NoJobRow, IdleLane
<1>2. RunsFresh /\ JobsKnow /\ ReviewedHeadHasRun
  BY <1>1 DEF RunsFresh, JobsKnow, RetriesKnow, DoneJobHasFinishedRun, ReviewedHeadHasRun
<1>3. LanesKnow
  BY <1>1 DEF LanesKnow, LaneKnows, KnowsRun, WritersApart, Writing, Ended
<1>4. QED
  BY <1>2, <1>3 DEF ResultInv

\* Every step keeps the invariant and moves the runs forward.
LEMMA ResultStep == TypeInv /\ ResultInv /\ [Next]_vars => ResultInv' /\ RunsMove
<1> SUFFICES ASSUME TypeInv, ResultInv, [Next]_vars PROVE ResultInv' /\ RunsMove
  OBVIOUS
<1>1. ASSUME UNCHANGED <<run, runs>> PROVE RunsMove
  BY <1>1, RunsStay DEF ResultInv
<1>2. CASE \/ UserStep
           \/ \E p \in Pr : Close(p) \/ \E s \in Sha : Sync(p, s)
           \/ \E j \in Job : BackoffElapses(j)
  BY <1>1, <1>2, RequestsResult
<1>3. ASSUME NEW l \in Lane, Claim(l) \/ CancelLane(l)
      PROVE  ResultInv' /\ RunsMove
  <2>1. UNCHANGED <<run, runs>>
    BY <1>3 DEF Claim, CancelLane, dbVars
  <2>2. QED
    BY <1>1, <1>3, <2>1, ClaimResult, RestResult
<1>4. ASSUME NEW l \in Lane, LaneStep(l)
      PROVE  ResultInv' /\ RunsMove
  <2>1. CASE \/ Gate(l) \/ MarkCanceled(l) \/ CancelStaleAndEnqueueLatest(l)
             \/ HeadMoved(l) \/ Skip(l) \/ SkipMark(l) \/ RetryStart(l)
             \/ RetryFails(l) \/ MarkDone(l) \/ MarkFailed(l)
    <3>1. UNCHANGED <<run, runs>>
      BY <2>1 DEF Gate, MarkCanceled, CancelStaleAndEnqueueLatest, HeadMoved, Skip,
                  SkipMark, RetryStart, RetryFails, MarkDone, MarkFailed, dbVars
    <3>2. QED
      BY <1>1, <2>1, <3>1, GateResult, MarkCanceledResult, StaleResult, BodyResult,
         SkipMarkResult, RetryStartResult, RestResult, MarkDoneResult, MarkFailedResult
  <2>2. QED
    BY <1>4, <2>1, CreateRunResult, FinishRunResult, PersistResult, RetryPersistResult,
       TimeoutResult DEF LaneStep
<1>5. ASSUME NEW p \in Proc, ProcStep(p)
      PROVE  ResultInv' /\ RunsMove
  BY <1>5, ProcessesResult
<1>6. CASE UNCHANGED vars
  <2>1. UNCHANGED <<run, runs, reviewed, lane>> /\ \A j \in Job : JobStays(j)
    BY <1>6, JobsAlone DEF vars
  <2>2. QED
    BY <1>1, <2>1, JobsOnly
<1>7. QED
  BY <1>2, <1>3, <1>4, <1>5, <1>6 DEF Next

\* The invariant holds together with the types.
LEMMA ResultAlways == Spec => [](TypeInv /\ ResultInv)
<1>1. Init => TypeInv /\ ResultInv
  BY TypeInit, ResultInit
<1>2. TypeInv /\ ResultInv /\ [Next]_vars => (TypeInv /\ ResultInv)'
  BY TypeStep, ResultStep
<1>3. QED
  BY <1>1, <1>2, PTL DEF Spec

\* The run a done job points at is a finished run of that very pull request and head,
\* although mark_done follows the pipeline's own commit, possibly after the lease was
\* lost and the job ran elsewhere.
THEOREM DoneJobs == Spec => []DoneJobHasFinishedRun
<1>1. TypeInv /\ ResultInv => DoneJobHasFinishedRun
  BY DEF ResultInv, JobsKnow
<1>2. QED
  BY ResultAlways, <1>1, PTL

\* last_reviewed_sha names only a head some run was finished for, or that was skipped
\* on purpose.
THEOREM ReviewedHeads == Spec => []ReviewedHeadHasRun
<1>1. TypeInv /\ ResultInv => ReviewedHeadHasRun
  BY DEF ResultInv
<1>2. QED
  BY ResultAlways, <1>1, PTL

\* A completed review is never undone: neither a timeout, nor the recovery of an
\* expired lease, nor a late writer changes the status of a done run.
THEOREM CompletedRuns == Spec => DoneRunFinal
<1>1. TypeInv /\ ResultInv /\ [Next]_vars =>
        [\A r \in Run : run[r].status = "done" => run'[r].status = "done"]_vars
  <2> SUFFICES ASSUME TypeInv, ResultInv, [Next]_vars, NEW r \in Run, run[r].status = "done"
               PROVE  run'[r].status = "done"
    OBVIOUS
  <2>1. r \in 1..runs
    BY QueueRows DEF ResultInv, RunsFresh, Run
  <2>2. QED
    BY <2>1, ResultStep DEF RunsMove
<1>2. QED
  BY ResultAlways, <1>1, PTL DEF Spec, DoneRunFinal

---------------------------------------------------------------------------
(* Work that is left behind                                                *)

\* Only a running row has an owner, a process that booted.
OwnersRun ==
  \A j \in Job : IF job[j].status = "running"
                 THEN job[j].owner \in Proc /\ proc[job[j].owner] # "off"
                 ELSE job[j].owner = None

WorkInv == OwnersRun /\ NoOrphanedWork

\* A lane that works on the row of its process goes on with it, while the process is
\* up under its lease.
LaneWorksOn(j) ==
  \A l \in Lane :
    Holds(l, j) /\ l[1] = job[j].owner /\ l[1] \in live' /\ proc'[l[1]] = "up" => Holds(l, j)'

\* What every step but a claim does to a row.
JobWorks(j) ==
  \/ job'[j].status # "running" /\ job'[j].owner = None
  \/ /\ job[j].status = "running" /\ job'[j].status = "running"
     /\ job'[j].owner = job[j].owner /\ LaneWorksOn(j)

\* A process gets its lease only when it boots.
ProcsKeep ==
  \A q \in Proc :
    /\ q \in live' /\ proc'[q] = "up" => proc[q] = "off" \/ (q \in live /\ proc[q] = "up")
    /\ proc[q] # "off" => proc'[q] # "off"

\* Such a step leaves no work behind.
LEMMA WorkKept ==
  ASSUME WorkInv, ProcsKeep, \A j \in Job : JobWorks(j)
  PROVE  WorkInv'
<1>1. ASSUME NEW j \in Job, job'[j].status = "running"
      PROVE  /\ job[j].status = "running" /\ job'[j].owner = job[j].owner
             /\ job[j].owner \in Proc /\ proc[job[j].owner] # "off" /\ LaneWorksOn(j)
  BY <1>1 DEF WorkInv, OwnersRun, JobWorks
<1>2. OwnersRun'
  BY <1>1 DEF OwnersRun, JobWorks, ProcsKeep
<1>3. ASSUME NEW j \in Job, job'[j].status = "running", job'[j].owner \in live',
             proc'[job'[j].owner] = "up"
      PROVE  \E i \in Slots : Holds(<<job[j].owner, i>>, j)'
  <2>1. PICK q \in Proc : q = job[j].owner
    BY <1>1, <1>3
  <2>2. job[j].status = "running" /\ job'[j].owner = q /\ LaneWorksOn(j)
        /\ q \in live /\ proc[q] = "up"
    BY <1>1, <1>3, <2>1 DEF ProcsKeep
  <2>3. PICK i \in Slots : Holds(<<q, i>>, j)
    BY <2>1, <2>2 DEF WorkInv, NoOrphanedWork
  <2>4. <<q, i>> \in Lane /\ <<q, i>>[1] = q
    BY DEF Lane
  <2>5. Holds(<<q, i>>, j)'
    BY <1>3, <2>1, <2>2, <2>3, <2>4 DEF LaneWorksOn
  <2>6. QED
    BY <2>1, <2>2, <2>5
<1>4. NoOrphanedWork'
  <2>1. ASSUME NEW j \in Job, job'[j].status = "running"
        PROVE  job'[j].owner \in Proc
    BY <1>1, <2>1
  <2>2. QED
    BY <1>3, <2>1 DEF NoOrphanedWork
<1>5. QED
  BY <1>2, <1>4 DEF WorkInv

\* Rows that are not written, in a step that no working lane of their owner ends.
LEMMA UnwrittenWorks ==
  ASSUME WorkInv, NEW j \in Job, job'[j] = job[j], LaneWorksOn(j)
  PROVE  JobWorks(j)
  BY DEF WorkInv, OwnersRun, JobWorks

\* No enqueue touches a running row, and what it writes has no owner.
LEMMA EnqueueWorks ==
  ASSUME TypeInv, WorkInv, UNCHANGED lane, NEW j \in Job, NEW row,
         job[j].status # "running", row.status # "running", row.owner = None,
         job' = [job EXCEPT ![j] = row]
  PROVE  \A k \in Job : JobWorks(k)
<1>1. \A k \in Job : LaneWorksOn(k)
  BY DEF LaneWorksOn, Holds
<1>2. job'[j] = row /\ \A k \in Job : k # j => job'[k] = job[k]
  BY QueueRows
<1>3. QED
  BY <1>1, <1>2, UnwrittenWorks DEF JobWorks

\* The rows an enqueue writes have no owner.
LEMMA EnqueuedFree ==
  ASSUME TypeInv, WorkInv, NEW j \in Job, NEW trigger, NEW r
  PROVE  /\ Inserted(trigger, r).status = "queued" /\ Inserted(trigger, r).owner = None
         /\ job[j].status # "running" => /\ Revived(j, trigger, r).status = "queued"
                                         /\ Revived(j, trigger, r).owner = None
<1>1. job[j] \in JobRow
  BY QueueRows
<1>2. job[j].status # "running" => job[j].owner = None
  BY DEF WorkInv, OwnersRun
<1>3. QED
  BY <1>1, <1>2 DEF Inserted, Revived, NoJobRow, JobRow

\* Requests of the poller, of webhooks and of people write no running row.
LEMMA RequestsWork ==
  ASSUME TypeInv, WorkInv,
         \/ UserStep
         \/ \E p \in Pr : Close(p) \/ \E s \in Sha : Sync(p, s)
         \/ \E j \in Job : BackoffElapses(j)
  PROVE  WorkInv'
<1>1. UNCHANGED <<lane, proc, live>>
  BY DEF UserStep, Close, Sync, BackoffElapses, EnqueueManual, CancelReview,
         EnqueueRetry, SetConfig, procVars
<1>2. ProcsKeep /\ \A j \in Job : LaneWorksOn(j)
  BY <1>1 DEF ProcsKeep, LaneWorksOn, Holds
<1>3. ASSUME UNCHANGED job PROVE \A j \in Job : JobWorks(j)
  BY <1>2, <1>3, UnwrittenWorks
<1>4. ASSUME NEW p \in Pr, NEW s \in Sha, Sync(p, s)
      PROVE  \A j \in Job : JobWorks(j)
  <2>1. PICK j \in Job : j = <<p, s>>
    BY DEF Job
  <2>2. \/ UNCHANGED job
        \/ job[j].status # "running" /\ job' = [job EXCEPT ![j] = Inserted("auto", NoRun)]
        \/ /\ job[j].status # "running"
           /\ job' = [job EXCEPT ![j] = Revived(j, "auto", job[j].retryRun)]
    BY <1>4, <2>1 DEF Sync, AutoEnqueue, SystemCanceled
  <2>3. QED
    BY <1>1, <1>3, <2>2, EnqueuedFree, EnqueueWorks
<1>5. ASSUME NEW j, NEW trigger, NEW r, UserEnqueue(j, trigger, r)
      PROVE  \A k \in Job : JobWorks(k)
  <2>1. CASE j \in Job
    <3>1. \/ job[j].status # "running" /\ job' = [job EXCEPT ![j] = Inserted(trigger, r)]
          \/ job[j].status # "running" /\ job' = [job EXCEPT ![j] = Revived(j, trigger, r)]
          \/ /\ job[j].status = "queued"
             /\ job' = [job EXCEPT ![j] = [job[j] EXCEPT !.trigger = "manual"]]
      BY <1>5, <2>1 DEF UserEnqueue
    <3>2. job[j].status = "queued" =>
            /\ [job[j] EXCEPT !.trigger = "manual"].status = "queued"
            /\ [job[j] EXCEPT !.trigger = "manual"].owner = None
      <4>1. job[j] \in JobRow
        BY <2>1, QueueRows
      <4>2. job[j].status = "queued" => job[j].owner = None
        BY <2>1 DEF WorkInv, OwnersRun
      <4>3. QED
        BY <4>1, <4>2 DEF JobRow
    <3>3. ASSUME NEW row, row.status = "queued", row.owner = None, job[j].status # "running",
                 job' = [job EXCEPT ![j] = row]
          PROVE  \A k \in Job : JobWorks(k)
      BY <1>1, <2>1, <3>3, EnqueueWorks
    <3>4. CASE job[j].status # "running" /\ job' = [job EXCEPT ![j] = Inserted(trigger, r)]
      BY <2>1, <3>3, <3>4, EnqueuedFree
    <3>5. CASE job[j].status # "running" /\ job' = [job EXCEPT ![j] = Revived(j, trigger, r)]
      BY <2>1, <3>3, <3>5, EnqueuedFree
    <3>6. CASE /\ job[j].status = "queued"
               /\ job' = [job EXCEPT ![j] = [job[j] EXCEPT !.trigger = "manual"]]
      BY <2>1, <3>2, <3>3, <3>6
    <3>7. QED
      BY <3>1, <3>4, <3>5, <3>6
  <2>2. CASE j \notin Job
    <3>1. \A k \in Job : job'[k] = job[k]
      BY <1>5, <2>2, QueueRows DEF UserEnqueue
    <3>2. QED
      BY <1>2, <3>1, UnwrittenWorks
  <2>3. QED
    BY <2>1, <2>2
<1>6. ASSUME NEW p \in Pr, CancelReview(p)
      PROVE  \A j \in Job : JobWorks(j)
  <2>1. ASSUME NEW j \in Job PROVE JobWorks(j)
    <3>1. CASE job'[j] = job[j]
      BY <1>2, <3>1, UnwrittenWorks
    <3>2. CASE /\ job[j].status = "queued"
               /\ job'[j] = [job[j] EXCEPT !.status = "canceled", !.cause = "user"]
      <4>1. job[j] \in JobRow /\ job[j].owner = None
        BY <3>2, QueueRows DEF WorkInv, OwnersRun
      <4>2. job'[j].status = "canceled" /\ job'[j].owner = None
        BY <3>2, <4>1 DEF JobRow
      <4>3. QED
        BY <4>2 DEF JobWorks
    <3>3. QED
      BY <1>6, <3>1, <3>2 DEF CancelReview
  <2>2. QED
    BY <2>1
<1>7. ASSUME NEW j \in Job, BackoffElapses(j)
      PROVE  \A k \in Job : JobWorks(k)
  <2>1. job[j] \in JobRow /\ job[j].status = "queued" /\ job[j].owner = None
    BY <1>7, QueueRows DEF BackoffElapses, WorkInv, OwnersRun
  <2>2. job' = [job EXCEPT ![j] = [job[j] EXCEPT !.delayed = FALSE]]
    BY <1>7 DEF BackoffElapses
  <2>3. /\ [job[j] EXCEPT !.delayed = FALSE].status = "queued"
        /\ [job[j] EXCEPT !.delayed = FALSE].owner = None
    BY <2>1 DEF JobRow
  <2>4. QED
    BY <1>1, <2>1, <2>2, <2>3, EnqueueWorks
<1>8. ASSUME NEW p \in Pr, Close(p) PROVE UNCHANGED job
  BY <1>8 DEF Close, dbVars
<1>9. ASSUME NEW c, SetConfig(c) PROVE UNCHANGED job
  BY <1>9 DEF SetConfig, dbVars
<1>10. \A j \in Job : JobWorks(j)
  BY <1>3, <1>4, <1>5, <1>6, <1>7, <1>8, <1>9 DEF UserStep, EnqueueManual, EnqueueRetry
<1>11. QED
  BY <1>2, <1>10, WorkKept

\* The lane that claims a row works on it.
LEMMA ClaimWorks ==
  ASSUME TypeInv, WorkInv, NEW l \in Lane, Claim(l)
  PROVE  WorkInv'
<1>1. PICK j \in Job :
        /\ job' = [job EXCEPT ![j].status = "running", ![j].owner = l[1],
                              ![j].attempts = Counted(@)]
        /\ lane' = [lane EXCEPT ![l] =
                      [IdleLane EXCEPT !.pc = "gate", !.job = j,
                                       !.run = IF job[j].trigger = "retry"
                                               THEN job[j].retryRun
                                               ELSE NoRun]]
  BY DEF Claim, Claimant, Ready
<1>2. UNCHANGED <<proc, live>> /\ proc[l[1]] = "up" /\ lane[l].pc = "idle"
  BY DEF Claim, procVars
<1>3. job'[j].status = "running" /\ job'[j].owner = l[1]
  BY <1>1, QueueRows DEF JobRow
<1>4. \A k \in Job : k # j => job'[k] = job[k]
  BY <1>1, QueueRows
<1>5. lane'[l].pc = "gate" /\ lane'[l].job = j /\ \A m \in Lane \ {l} : lane'[m] = lane[m]
  BY <1>1, QueueRows DEF IdleLane
<1>6. l[1] \in Proc /\ l[2] \in Slots /\ l = <<l[1], l[2]>>
  BY DEF Lane
<1>7. \A m \in Lane, k \in Job : Holds(m, k) => Holds(m, k)'
  BY <1>2, <1>5 DEF Holds
<1>8. OwnersRun'
  BY <1>2, <1>3, <1>4, <1>6 DEF WorkInv, OwnersRun
<1>9. ASSUME NEW k \in Job, k # j, job'[k].status = "running"
      PROVE  /\ job'[k].owner \in Proc
             /\ job'[k].owner \in live' /\ proc'[job'[k].owner] = "up" =>
                  \E i \in Slots : Holds(<<job[k].owner, i>>, k)'
  <2>1. PICK q : q = job[k].owner
    OBVIOUS
  <2>2. job'[k].owner = q /\ q \in Proc /\ job[k].status = "running"
    BY <1>4, <1>9, <2>1 DEF WorkInv, NoOrphanedWork
  <2>3. q \in live' /\ proc'[q] = "up" => \E i \in Slots : Holds(<<q, i>>, k)
    BY <1>2, <2>1, <2>2 DEF WorkInv, NoOrphanedWork
  <2>4. \A i \in Slots : <<q, i>> \in Lane
    BY <2>2 DEF Lane
  <2>5. QED
    BY <1>7, <2>2, <2>3, <2>4
<1>10. Holds(<<job[j].owner, l[2]>>, j)'
  BY <1>3, <1>5, <1>6 DEF Holds
<1>11. NoOrphanedWork'
  BY <1>3, <1>6, <1>9, <1>10 DEF NoOrphanedWork
<1>12. QED
  BY <1>8, <1>11 DEF WorkInv

\* A lane of a process without a lease or on its way down may let go; every other
\* step of a lane that writes no job goes on with it.
LaneHolds(l) ==
  \/ l[1] \notin live \/ proc[l[1]] # "up"
  \/ lane'[l].pc # "idle" /\ lane'[l].job = lane[l].job

\* Steps of a lane that write no job.
LEMMA LaneWorks ==
  ASSUME WorkInv, NEW l \in Lane, UNCHANGED <<job, proc, live>>, LaneHolds(l),
         \A m \in Lane \ {l} : lane'[m] = lane[m]
  PROVE  WorkInv'
<1>1. ASSUME NEW j \in Job PROVE LaneWorksOn(j)
  BY DEF LaneWorksOn, LaneHolds, Holds
<1>2. ProcsKeep
  BY DEF ProcsKeep
<1>3. QED
  BY <1>1, <1>2, UnwrittenWorks, WorkKept

\* The pipeline, from the gate to the settling statement.
LEMMA PipelineWorks ==
  ASSUME TypeInv, WorkInv, NEW l \in Lane,
         \/ Gate(l) \/ CreateRun(l) \/ HeadMoved(l) \/ StaleFinish(l)
         \/ Skip(l) \/ SkipFinish(l) \/ SkipMark(l) \/ NoVendor(l)
         \/ Persist(l) \/ RunFails(l) \/ Timeout(l) \/ RetryStart(l)
         \/ RetryPersist(l) \/ RetryFails(l) \/ CancelLane(l)
  PROVE  WorkInv'
<1>1. UNCHANGED <<job, proc, live>>
  BY DEF Gate, CreateRun, HeadMoved, StaleFinish, Skip, SkipFinish, SkipMark,
         NoVendor, Persist, RunFails, Timeout, RetryStart, RetryPersist,
         RetryFails, CancelLane, dbVars, procVars
<1> DEFINE Works == LaneHolds(l) /\ \A m \in Lane \ {l} : lane'[m] = lane[m]
<1>2. lane \in [Lane -> LaneRow] /\ lane[l] \in LaneRow
  BY QueueRows
<1>3. ASSUME NEW pc, pc # "idle", GoTo(l, pc) PROVE Works
  BY <1>3, GoToRows DEF LaneHolds
<1>4. ASSUME NEW r, Fail(l, r) PROVE Works
  <2>1. lane'[l].pc \in {"failRetry", "failFinal"} /\ lane'[l].job = lane[l].job
    BY <1>2, <1>4 DEF Fail, LaneRow
  <2>2. QED
    BY <1>2, <1>4, <2>1 DEF Fail, LaneHolds
<1>5. ASSUME Rest(l), ~HoldsLease(l) \/ proc[l[1]] = "stopping" PROVE Works
  BY <1>2, <1>5 DEF Rest, HoldsLease, LaneHolds
<1>6. ASSUME Timeout(l) PROVE Works
  <2>1. lane'[l].pc = "failRetry" /\ lane'[l].job = lane[l].job
    BY <1>2, <1>6 DEF Timeout, LaneRow
  <2>2. QED
    BY <1>2, <1>6, <2>1 DEF Timeout, LaneHolds
<1>7. ASSUME CreateRun(l) PROVE Works
  <2>1. GoTo(l, "stale")
        \/ lane' = [lane EXCEPT ![l] = [lane[l] EXCEPT !.pc = "body", !.run = runs + 1,
                                                       !.vendor = config.vendor]]
    BY <1>7 DEF CreateRun
  <2>2. CASE lane' = [lane EXCEPT ![l] = [lane[l] EXCEPT !.pc = "body", !.run = runs + 1,
                                                         !.vendor = config.vendor]]
    <3>1. lane'[l].pc = "body" /\ lane'[l].job = lane[l].job
      BY <1>2, <2>2 DEF LaneRow
    <3>2. QED
      BY <1>2, <2>2, <3>1 DEF LaneHolds
  <2>3. QED
    BY <1>3, <2>1, <2>2
<1>8. ASSUME Persist(l) \/ RetryPersist(l) PROVE Works
  <2>1. GoTo(l, "done") \/ GoTo(l, "stale") \/ (Rest(l) /\ ~HoldsLease(l))
    BY <1>8 DEF Persist, RetryPersist, Abandon
  <2>2. QED
    BY <1>3, <1>5, <2>1
<1>9. ASSUME CancelLane(l) PROVE Works
  BY <1>5, <1>9 DEF CancelLane
<1>10. ASSUME \/ Gate(l) \/ HeadMoved(l) \/ StaleFinish(l) \/ Skip(l) \/ SkipFinish(l)
              \/ SkipMark(l) \/ NoVendor(l) \/ RunFails(l) \/ RetryStart(l) \/ RetryFails(l)
       PROVE  Works
  BY <1>3, <1>4, <1>10 DEF Gate, HeadMoved, StaleFinish, Skip, SkipFinish, SkipMark,
     NoVendor, RunFails, RetryStart, RetryFails
<1>11. Works
  BY <1>6, <1>7, <1>8, <1>9, <1>10
<1>12. QED
  BY <1>1, <1>11, LaneWorks

\* A settling statement gives up the row the process owns; a row the process does not
\* own is worked on by no lane of its owner that could rest here.
LEMMA SettleWorks ==
  ASSUME TypeInv, WorkInv, NEW l \in Lane, Rest(l), UNCHANGED <<proc, live>>,
         \A j \in Job : \/ job'[j].status # "running" /\ job'[j].owner = None
                        \/ job'[j] = job[j] /\ (j = lane[l].job => job[j].owner # l[1])
  PROVE  WorkInv'
<1>1. \A m \in Lane \ {l} : lane'[m] = lane[m]
  BY QueueRows DEF Rest
<1>2. ASSUME NEW j \in Job, job'[j] = job[j], j = lane[l].job => job[j].owner # l[1]
      PROVE  JobWorks(j)
  <2>1. LaneWorksOn(j)
    BY <1>1, <1>2 DEF LaneWorksOn, Holds
  <2>2. QED
    BY <1>2, <2>1, UnwrittenWorks
<1>3. \A j \in Job : JobWorks(j)
  BY <1>2 DEF JobWorks
<1>4. ProcsKeep
  BY DEF ProcsKeep
<1>5. QED
  BY <1>3, <1>4, WorkKept

\* mark_canceled, mark_done and mark_failed write the row of their process and leave it
\* without an owner.
LEMMA MarkWrites ==
  ASSUME TypeInv, NEW l \in Lane, MarkCanceled(l) \/ MarkDone(l) \/ MarkFailed(l), Owns(l),
         NEW j \in Job, j = lane[l].job
  PROVE  \E row : row.status # "running" /\ row.owner = None /\ job' = [job EXCEPT ![j] = row]
<1>1. job[j] \in JobRow /\ job \in [Job -> JobRow]
  BY QueueRows
<1>2. CASE MarkCanceled(l)
  <2>1. job' = [job EXCEPT ![j] = [job[j] EXCEPT !.status = "canceled",
                                                 !.cause = "system", !.owner = None]]
    BY <1>2 DEF MarkCanceled
  <2>2. QED
    BY <1>1, <2>1 DEF JobRow
<1>3. CASE MarkDone(l)
  <2>1. job' = [job EXCEPT ![j] = [job[j] EXCEPT !.status = "done",
                                                 !.runId = lane[l].run, !.owner = None]]
    BY <1>3 DEF MarkDone
  <2>2. QED
    BY <1>1, <2>1 DEF JobRow
<1>4. CASE MarkFailed(l)
  <2> DEFINE again == lane[l].pc = "failRetry" /\ job[j].attempts < MaxAttempts
             pointer == IF lane[l].run = NoRun THEN job[j].runId ELSE lane[l].run
             row == [job[j] EXCEPT !.status = IF again THEN "queued" ELSE "failed",
                                   !.delayed = IF again THEN TRUE ELSE @,
                                   !.runId = pointer, !.owner = None]
  <2>1. job' = [job EXCEPT ![j] = row]
    <3>1. job' = [job EXCEPT ![j].status = IF again THEN "queued" ELSE "failed",
                             ![j].delayed = IF again THEN TRUE ELSE @,
                             ![j].runId = pointer,
                             ![j].owner = None]
      BY <1>4, Zenon DEF MarkFailed, again, pointer
    <3> HIDE DEF again, pointer
    <3>2. QED
      BY <1>1, <3>1
  <2>2. row.status \in {"queued", "failed"} /\ row.owner = None
    <3> HIDE DEF again, pointer
    <3>1. QED
      BY <1>1 DEF JobRow
  <2> HIDE DEF row
  <2>3. QED
    BY <2>1, <2>2
<1>5. QED
  BY <1>2, <1>3, <1>4

\* They write it only for its owner.
LEMMA MarksWork ==
  ASSUME TypeInv, WorkInv, NEW l \in Lane, MarkCanceled(l) \/ MarkDone(l) \/ MarkFailed(l)
  PROVE  WorkInv'
<1>1. Rest(l) /\ UNCHANGED <<proc, live>> /\ lane[l].pc # "idle"
  BY DEF MarkCanceled, MarkDone, MarkFailed, procVars
<1>2. PICK j \in Job : j = lane[l].job
  BY <1>1 DEF TypeInv, LaneHasJob
<1>3. CASE ~Owns(l)
  <2>1. UNCHANGED job /\ job[j].owner # l[1]
    BY <1>2, <1>3 DEF MarkCanceled, MarkDone, MarkFailed, Owns
  <2>2. QED
    BY <1>1, <1>2, <2>1, SettleWorks
<1>4. CASE Owns(l)
  <2>1. \E row : row.status # "running" /\ row.owner = None /\ job' = [job EXCEPT ![j] = row]
    BY <1>2, <1>4, MarkWrites
  <2>2. job'[j].status # "running" /\ job'[j].owner = None
        /\ \A k \in Job : k # j => job'[k] = job[k]
    BY <2>1, QueueRows
  <2>3. QED
    BY <1>1, <1>2, <2>2, SettleWorks
<1>5. QED
  BY <1>3, <1>4

\* So does the replacement of a stale row; the row of the head was not running.
LEMMA StaleWorks ==
  ASSUME TypeInv, WorkInv, NEW l \in Lane, CancelStaleAndEnqueueLatest(l)
  PROVE  WorkInv'
<1>1. Rest(l) /\ UNCHANGED <<proc, live>> /\ lane[l].pc # "idle"
  BY DEF CancelStaleAndEnqueueLatest, procVars
<1>2. PICK j \in Job : j = lane[l].job
  BY <1>1 DEF TypeInv, LaneHasJob
<1>3. job[j] \in JobRow /\ job \in [Job -> JobRow]
  BY QueueRows
<1> DEFINE Given(k, row) ==
      \/ row.status # "running" /\ row.owner = None
      \/ row = job[k] /\ (k = j => job[k].owner # l[1])
<1>4. DOMAIN StaleCanceled(l) = Job /\ \A k \in Job : Given(k, StaleCanceled(l)[k])
  <2>1. CASE Owns(l) /\ job[j].status \in {"queued", "running"}
    <3>1. StaleCanceled(l) = [job EXCEPT ![j] = [job[j] EXCEPT !.status = "canceled",
                                                     !.cause = "system", !.owner = None]]
      BY <1>2, <2>1 DEF StaleCanceled, CancelOwn
    <3>2. /\ [job[j] EXCEPT !.status = "canceled", !.cause = "system",
                            !.owner = None].status = "canceled"
          /\ [job[j] EXCEPT !.status = "canceled", !.cause = "system",
                            !.owner = None].owner = None
      BY <1>3 DEF JobRow
    <3>3. QED
      BY <1>3, <3>1, <3>2
  <2>2. CASE ~(Owns(l) /\ job[j].status \in {"queued", "running"})
    <3>1. StaleCanceled(l) = job
      BY <1>2, <2>2 DEF StaleCanceled, CancelOwn
    <3>2. job[j].owner # l[1]
      <4>1. l[1] \in Proc /\ l[1] # None
        BY NoneApart DEF Lane
      <4>2. job[j].status \notin {"queued", "running"} => job[j].owner = None
        BY DEF WorkInv, OwnersRun
      <4>3. QED
        BY <1>2, <2>2, <4>1, <4>2 DEF Owns
    <3>3. QED
      BY <1>3, <3>1, <3>2
  <2>3. QED
    BY <2>1, <2>2
<1>5. \/ job' = StaleCanceled(l)
      \/ \E h \in Job : \E row : /\ job' = [StaleCanceled(l) EXCEPT ![h] = row]
                                 /\ row.status # "running" /\ row.owner = None
  <2>1. PICK h \in Job : h = <<lane[l].job[1], head[lane[l].job[1]]>>
    BY <1>1, WorkingLane
  <2>2. PICK trigger : trigger = IF job[j].trigger = "auto" THEN "auto" ELSE "manual"
    OBVIOUS
  <2>3. \/ job' = StaleCanceled(l)
        \/ job' = [StaleCanceled(l) EXCEPT ![h] = Inserted(trigger, NoRun)]
        \/ /\ job[h].status # "running"
           /\ job' = [StaleCanceled(l) EXCEPT ![h] = Revived(h, trigger, NoRun)]
    BY <1>2, <2>1, <2>2 DEF CancelStaleAndEnqueueLatest, SystemCanceled
  <2>4. QED
    BY <2>3, EnqueuedFree
<1>6. \A k \in Job : Given(k, job'[k])
  BY <1>4, <1>5
<1>7. QED
  BY <1>1, <1>2, <1>6, SettleWorks

\* Booting, recovery and the ends of a process.
LEMMA ProcessesWork ==
  ASSUME TypeInv, WorkInv, NEW p \in Proc, ProcStep(p)
  PROVE  WorkInv'
<1>0. proc \in [Proc -> {"off", "up", "stopping", "gone"}] /\ job \in [Job -> JobRow]
      /\ lane \in [Lane -> LaneRow]
  BY DEF TypeInv, TypeOK
<1>1. CASE Boot(p) \/ Heartbeat(p)
  <2>1. UNCHANGED lane /\ RecoverExpired(live')
    BY <1>1 DEF Boot, Heartbeat, procVars
  <2>2. ProcsKeep
    BY <1>0, <1>1 DEF Boot, Heartbeat, procVars, ProcsKeep
  <2>3. \A j \in Job : LaneWorksOn(j)
    BY <2>1 DEF LaneWorksOn, Holds
  <2>4. ASSUME NEW j \in Job PROVE JobWorks(j)
    <3>1. CASE job'[j] = job[j]
      BY <2>3, <3>1, UnwrittenWorks
    <3>2. CASE job'[j] = [job[j] EXCEPT !.status = "queued", !.owner = None]
      <4>1. job[j] \in JobRow
        BY <1>0
      <4>2. job'[j].status = "queued" /\ job'[j].owner = None
        BY <3>2, <4>1 DEF JobRow
      <4>3. QED
        BY <4>2 DEF JobWorks
    <3>3. QED
      BY <2>1, <3>1, <3>2 DEF RecoverExpired
  <2>5. QED
    BY <2>2, <2>4, WorkKept
<1>2. CASE LeaseLost(p) \/ LeaseExpires(p) \/ Shutdown(p) \/ Release(p) \/ Crash(p)
  <2>1. UNCHANGED job
    BY <1>2 DEF LeaseLost, LeaseExpires, Shutdown, Release, Crash, dbVars
  <2>2. ProcsKeep
    BY <1>0, <1>2 DEF LeaseLost, LeaseExpires, Shutdown, Release, Crash, ProcsKeep
  <2>3. ASSUME NEW l \in Lane, proc'[l[1]] = "up"
        PROVE  lane'[l] = lane[l]
    <3>1. l[1] \in Proc
      BY DEF Lane
    <3>2. QED
      BY <1>0, <1>2, <2>3, <3>1 DEF LeaseLost, LeaseExpires, Shutdown, Release, Crash
  <2>4. \A j \in Job : LaneWorksOn(j)
    BY <2>3 DEF LaneWorksOn, Holds
  <2>5. QED
    BY <2>1, <2>2, <2>4, UnwrittenWorks, WorkKept
<1>3. QED
  BY <1>1, <1>2 DEF ProcStep

LEMMA WorkAlways == Spec => [](TypeInv /\ WorkInv)
<1>1. Init => TypeInv /\ WorkInv
  <2>1. Init => WorkInv
    BY DEF Init, WorkInv, OwnersRun, NoOrphanedWork, NoJobRow
  <2>2. QED
    BY <2>1, TypeInit
<1>2. TypeInv /\ WorkInv /\ [Next]_vars => (TypeInv /\ WorkInv)'
  <2>1. ASSUME TypeInv, WorkInv, Next PROVE WorkInv'
    BY <2>1, RequestsWork, ClaimWorks, PipelineWorks, MarksWork, StaleWorks, ProcessesWork
       DEF Next, LaneStep
  <2>2. WorkInv /\ UNCHANGED vars => WorkInv'
    BY DEF vars, WorkInv, OwnersRun, NoOrphanedWork, Holds
  <2>3. QED
    BY <2>1, <2>2, TypeStep
<1>3. QED
  BY <1>1, <1>2, PTL DEF Spec

\* A running row names a process; while that process is up with an unexpired lease one
\* of its lanes is at work on the row, so no settling path of run_one_job leaves behind
\* a row that recover_expired would never collect.
THEOREM WorkIsHeld == Spec => []NoOrphanedWork
<1>1. TypeInv /\ WorkInv => NoOrphanedWork
  BY DEF WorkInv
<1>2. QED
  BY WorkAlways, <1>1, PTL

---------------------------------------------------------------------------
(* What a person canceled                                                  *)

\* A person asks for the review of the pull request again.
AskedAgain(j) == EnqueueManual(j[1]) \/ \E r \in Run : EnqueueRetry(r)

\* A row of nobody is not written by a lane that settles.
LEMMA CanceledUnowned ==
  ASSUME TypeInv, WorkInv, NEW j \in Job, UserCanceled(j), NEW l \in Lane
  PROVE  lane[l].job = j => ~Owns(l)
<1>1. job[j].owner = None
  BY DEF WorkInv, OwnersRun, UserCanceled
<1>2. l[1] \in Proc
  BY DEF Lane
<1>3. QED
  BY <1>1, <1>2, NoneApart DEF Owns

\* Polls, webhooks, the repository's settings and other cancelations.
LEMMA RequestsRespect ==
  ASSUME TypeInv, NEW j \in Job, UserCanceled(j),
         \/ UserStep
         \/ \E p \in Pr : Close(p) \/ \E s \in Sha : Sync(p, s)
         \/ \E k \in Job : BackoffElapses(k)
  PROVE  AskedAgain(j) \/ job'[j] = job[j]
<1>1. ASSUME NEW p \in Pr, EnqueueManual(p) PROVE AskedAgain(j) \/ job'[j] = job[j]
  <2>1. CASE p = j[1]
    BY <1>1, <2>1 DEF AskedAgain
  <2>2. CASE p # j[1]
    <3>1. <<p, head[p]>> # j
      BY <2>2
    <3>2. QED
      BY <1>1, <3>1, QueueRows DEF EnqueueManual, UserEnqueue
  <2>3. QED
    BY <2>1, <2>2
<1>2. ASSUME NEW p \in Pr, CancelReview(p) PROVE job'[j] = job[j]
  BY <1>2 DEF CancelReview, UserCanceled
<1>3. ASSUME NEW c \in RepoConfigs, SetConfig(c) PROVE job'[j] = job[j]
  BY <1>3 DEF SetConfig, dbVars
<1>4. ASSUME NEW p \in Pr, Close(p) PROVE job'[j] = job[j]
  BY <1>4 DEF Close, dbVars
<1>5. ASSUME NEW p \in Pr, NEW s \in Sha, Sync(p, s) PROVE job'[j] = job[j]
  <2>1. UNCHANGED job \/ AutoEnqueue(<<p, s>>)
    BY <1>5 DEF Sync
  <2>2. QED
    BY <2>1, QueueRows DEF AutoEnqueue, UserCanceled, SystemCanceled
<1>6. ASSUME NEW k \in Job, BackoffElapses(k) PROVE job'[j] = job[j]
  BY <1>6, QueueRows DEF BackoffElapses, UserCanceled
<1>7. QED
  BY <1>1, <1>2, <1>3, <1>4, <1>5, <1>6 DEF UserStep, AskedAgain

\* The lanes: a claim takes a queued row, a settling statement a row of its own process,
\* and the row of the current head comes back only if the system had canceled it.
LEMMA LanesRespect ==
  ASSUME TypeInv, WorkInv, NEW j \in Job, UserCanceled(j), NEW l \in Lane,
         Claim(l) \/ LaneStep(l) \/ CancelLane(l)
  PROVE  job'[j] = job[j]
<1>1. CASE Claim(l)
  BY <1>1, QueueRows DEF Claim, Ready, UserCanceled
<1>2. CASE MarkCanceled(l) \/ MarkDone(l) \/ MarkFailed(l)
  BY <1>2, CanceledUnowned, QueueRows DEF MarkCanceled, MarkDone, MarkFailed
<1>3. CASE CancelStaleAndEnqueueLatest(l)
  <2>1. StaleCanceled(l)[j] = job[j] /\ DOMAIN StaleCanceled(l) = Job
    BY CanceledUnowned, QueueRows DEF StaleCanceled, CancelOwn
  <2>2. QED
    BY <1>3, <2>1 DEF CancelStaleAndEnqueueLatest, UserCanceled, SystemCanceled
<1>4. ASSUME ~(MarkCanceled(l) \/ MarkDone(l) \/ MarkFailed(l)),
             ~CancelStaleAndEnqueueLatest(l), LaneStep(l) \/ CancelLane(l)
      PROVE  UNCHANGED job
  BY <1>4 DEF LaneStep, Gate, CreateRun, HeadMoved, StaleFinish, Skip, SkipFinish, SkipMark,
     NoVendor, Persist, RunFails, Timeout, RetryStart, RetryPersist, RetryFails, CancelLane, dbVars
<1>5. QED
  BY <1>1, <1>2, <1>3, <1>4

\* A job a person canceled stays canceled until a person asks again: no poll, webhook,
\* stale-head replacement or recovery brings it back.
THEOREM CancelsStick == Spec => UserCancelSticks
<1>1. TypeInv /\ WorkInv /\ [Next]_vars =>
        [\A j \in Job : UserCanceled(j) =>
           \/ UserCanceled(j)'
           \/ EnqueueManual(j[1])
           \/ \E r \in Run : EnqueueRetry(r)]_vars
  <2> SUFFICES ASSUME TypeInv, WorkInv, Next, NEW j \in Job, UserCanceled(j)
               PROVE  AskedAgain(j) \/ job'[j] = job[j]
    BY DEF AskedAgain, UserCanceled
  <2>1. ASSUME NEW p \in Proc, ProcStep(p) PROVE job'[j] = job[j]
    <3>1. UNCHANGED job \/ \E alive : RecoverExpired(alive)
      BY <2>1 DEF ProcStep, Boot, Heartbeat, LeaseLost, LeaseExpires, Shutdown, Release, Crash,
         dbVars
    <3>2. QED
      BY <3>1 DEF RecoverExpired, UserCanceled
  <2>2. QED
    BY <2>1, RequestsRespect, LanesRespect DEF Next
<1>2. QED
  BY WorkAlways, <1>1, PTL DEF Spec, UserCancelSticks

---------------------------------------------------------------------------
(* The job table implements a table of leased tasks                        *)

\* What a row shows of its task.
StatusOf(row) == IF row.status = "running" THEN "held"
                 ELSE IF row.status = "queued" THEN "waiting" ELSE "idle"

\* The mapping, by rows.
LEMMA Mapping ==
  /\ TaskStatus = [j \in Job |-> StatusOf(job[j])]
  /\ TaskHolder = [j \in Job |-> job[j].owner]
  /\ TaskStatus' = [j \in Job |-> StatusOf(job'[j])]
  /\ TaskHolder' = [j \in Job |-> job'[j].owner]
  BY DEF TaskStatus, TaskHolder, StatusOf

\* A step that writes no row changes no task.
LEMMA TasksStay ==
  ASSUME TypeInv, \A j \in Job : job'[j] = job[j]
  PROVE  UNCHANGED <<TaskStatus, TaskHolder>>
  BY DEF TaskStatus, TaskHolder

\* A step that writes one row changes one task.
LEMMA RowStep ==
  ASSUME TypeInv, NEW j \in Job, NEW row, job' = [job EXCEPT ![j] = row]
  PROVE  /\ TaskStatus' = [TaskStatus EXCEPT ![j] = StatusOf(row)]
         /\ TaskHolder' = [TaskHolder EXCEPT ![j] = row.owner]
         /\ TaskStatus[j] = StatusOf(job[j])
         /\ TaskHolder[j] = job[j].owner
<1> HIDE DEF StatusOf
<1>1. DOMAIN job = Job
  BY QueueRows
<1>2. QED
  BY <1>1, Mapping

\* A task is asked for while nobody holds it.
LEMMA AskRefines ==
  ASSUME TypeInv, WorkInv, UNCHANGED <<live, TaskResult>>, NEW j \in Job, NEW row,
         job[j].status # "running", row.status = "queued", row.owner = None,
         job' = [job EXCEPT ![j] = row]
  PROVE  Leased!Ask(j)
<1>1. job[j].owner = None
  BY DEF WorkInv, OwnersRun
<1>2. StatusOf(row) = "waiting" /\ StatusOf(job[j]) # "held"
  BY DEF StatusOf
<1>3. /\ TaskStatus' = [TaskStatus EXCEPT ![j] = "waiting"]
      /\ TaskHolder' = [TaskHolder EXCEPT ![j] = TaskHolder[j]]
      /\ TaskStatus[j] # "held"
  <2>1. /\ TaskStatus' = [TaskStatus EXCEPT ![j] = StatusOf(row)]
        /\ TaskHolder' = [TaskHolder EXCEPT ![j] = row.owner]
        /\ TaskStatus[j] = StatusOf(job[j])
        /\ TaskHolder[j] = job[j].owner
    BY RowStep
  <2>2. QED
    BY <1>1, <1>2, <2>1
<1>4. TaskHolder' = TaskHolder
  BY <1>3 DEF TaskHolder
<1>5. QED
  BY <1>3, <1>4 DEF Leased!Ask

\* A row that its owner gives up.
LEMMA LeaveRefines ==
  ASSUME TypeInv, WorkInv, UNCHANGED <<live, TaskResult>>, NEW j \in Job, NEW row,
         job[j].owner \in Proc, row.status # "running", row.owner = None,
         job' = [job EXCEPT ![j] = row]
  PROVE  Leased!Leave(j, job[j].owner)
<1>1. job[j].status = "running"
  BY NoneApart DEF WorkInv, OwnersRun
<1>2. StatusOf(row) \in {"idle", "waiting"} /\ StatusOf(job[j]) = "held"
  BY <1>1 DEF StatusOf
<1>3. /\ TaskStatus' = [TaskStatus EXCEPT ![j] = StatusOf(row)]
      /\ TaskHolder' = [TaskHolder EXCEPT ![j] = row.owner]
      /\ TaskStatus[j] = StatusOf(job[j])
      /\ TaskHolder[j] = job[j].owner
  BY RowStep
<1>4. QED
  BY <1>2, <1>3 DEF Leased!Leave

\* No request touches a task that is held: it asks for one, takes requests back, or is
\* not seen.
LEMMA EnqueueRefines ==
  ASSUME TypeInv, WorkInv, UNCHANGED <<live, TaskResult>>, NEW j, NEW trigger, NEW r,
         UserEnqueue(j, trigger, r)
  PROVE  (\E k \in Job : Leased!Ask(k)) \/ UNCHANGED Leased!vars
<1>1. CASE j \in Job
  <2>1. \/ job[j].status # "running" /\ job' = [job EXCEPT ![j] = Inserted(trigger, r)]
        \/ job[j].status # "running" /\ job' = [job EXCEPT ![j] = Revived(j, trigger, r)]
        \/ /\ job[j].status = "queued"
           /\ job' = [job EXCEPT ![j] = [job[j] EXCEPT !.trigger = "manual"]]
    BY <1>1 DEF UserEnqueue
  <2>2. job[j].status = "queued" =>
          /\ [job[j] EXCEPT !.trigger = "manual"].status = "queued"
          /\ [job[j] EXCEPT !.trigger = "manual"].owner = None
    <3>1. job[j] \in JobRow
      BY <1>1, QueueRows
    <3>2. job[j].status = "queued" => job[j].owner = None
      BY <1>1 DEF WorkInv, OwnersRun
    <3>3. QED
      BY <3>1, <3>2 DEF JobRow
  <2>3. ASSUME NEW row, row.status = "queued", row.owner = None, job[j].status # "running",
               job' = [job EXCEPT ![j] = row]
        PROVE  Leased!Ask(j)
    BY <1>1, <2>3, AskRefines
  <2>4. CASE job[j].status # "running" /\ job' = [job EXCEPT ![j] = Inserted(trigger, r)]
    BY <1>1, <2>3, <2>4, EnqueuedFree
  <2>5. CASE job[j].status # "running" /\ job' = [job EXCEPT ![j] = Revived(j, trigger, r)]
    BY <1>1, <2>3, <2>5, EnqueuedFree
  <2>6. CASE /\ job[j].status = "queued"
             /\ job' = [job EXCEPT ![j] = [job[j] EXCEPT !.trigger = "manual"]]
    BY <1>1, <2>2, <2>3, <2>6
  <2>7. QED
    BY <2>1, <2>4, <2>5, <2>6
<1>2. CASE j \notin Job
  <2>1. \A k \in Job : job'[k] = job[k]
    BY <1>2, QueueRows DEF UserEnqueue
  <2>2. QED
    BY <2>1, TasksStay DEF Leased!vars
<1>3. QED
  BY <1>1, <1>2

\* A poll or a webhook delivery asks for the review of the head it reports.
LEMMA SyncRefines ==
  ASSUME TypeInv, WorkInv, UNCHANGED TaskResult, NEW p \in Pr, NEW s \in Sha, Sync(p, s)
  PROVE  (\E k \in Job : Leased!Ask(k)) \/ UNCHANGED Leased!vars
<1>1. UNCHANGED live
  BY DEF Sync, procVars
<1>2. PICK j \in Job : j = <<p, s>>
  BY DEF Job
<1>3. \/ UNCHANGED job
      \/ job[j].status # "running" /\ job' = [job EXCEPT ![j] = Inserted("auto", NoRun)]
      \/ /\ job[j].status # "running"
         /\ job' = [job EXCEPT ![j] = Revived(j, "auto", job[j].retryRun)]
  BY <1>2 DEF Sync, AutoEnqueue, SystemCanceled
<1>4. UNCHANGED job => UNCHANGED Leased!vars
  BY <1>1, TasksStay DEF Leased!vars
<1>5. QED
  BY <1>1, <1>3, <1>4, EnqueuedFree, AskRefines

\* What a cancelation writes.
LEMMA CancelWrites ==
  ASSUME NEW p \in Pr, CancelReview(p)
  PROVE  /\ \A j \in Job :
              IF j[1] = p /\ job[j].status = "queued"
              THEN job'[j] = [job[j] EXCEPT !.status = "canceled", !.cause = "user"]
              ELSE job'[j] = job[j]
         /\ UNCHANGED live
<1>1. UNCHANGED live
  BY Zenon DEF CancelReview, procVars
<1>2. QED
  BY <1>1, Zenon DEF CancelReview

\* A person takes back the requests of a pull request that nobody serves yet.
LEMMA CancelRefines ==
  ASSUME TypeInv, WorkInv, UNCHANGED TaskResult, NEW p \in Pr, CancelReview(p)
  PROVE  \E T \in SUBSET Job : Leased!GiveUp(T)
<1> DEFINE T == {j \in Job : j[1] = p /\ job[j].status = "queued"}
           row(j) == [job[j] EXCEPT !.status = "canceled", !.cause = "user"]
<1>1. /\ \A j \in Job : job'[j] = IF j \in T THEN row(j) ELSE job[j]
      /\ UNCHANGED live
  <2>1. \A j \in Job : j \in T <=> j[1] = p /\ job[j].status = "queued"
    BY Zenon
  <2>2. /\ \A j \in Job : IF j[1] = p /\ job[j].status = "queued"
                          THEN job'[j] = row(j) ELSE job'[j] = job[j]
        /\ UNCHANGED live
    BY CancelWrites, Zenon
  <2> HIDE DEF row, T
  <2>3. QED
    BY <2>1, <2>2
<1>2. ASSUME NEW j \in T
      PROVE  /\ row(j).owner = job[j].owner
             /\ StatusOf(row(j)) = "idle" /\ StatusOf(job[j]) = "waiting"
  <2>1. job[j] \in JobRow
    BY QueueRows
  <2>2. QED
    BY <2>1 DEF JobRow, StatusOf
<1>3. T \in SUBSET Job
  OBVIOUS
<1> HIDE DEF row, T
<1>4. TaskStatus' = [j \in Job |-> IF j \in T THEN "idle" ELSE TaskStatus[j]]
  BY <1>1, <1>2, <1>3, Mapping
<1>5. TaskHolder' = TaskHolder
  BY <1>1, <1>2, <1>3, Mapping
<1>6. \A j \in T : TaskStatus[j] = "waiting"
  BY <1>2, <1>3, Mapping
<1>7. QED
  BY <1>1, <1>3, <1>4, <1>5, <1>6 DEF Leased!GiveUp

\* Who claims a row takes a task that waits.
LEMMA ClaimRefines ==
  ASSUME TypeInv, UNCHANGED TaskResult, NEW l \in Lane, Claim(l)
  PROVE  \E j \in Job : Leased!Take(j, l[1])
<1>1. PICK j \in Job :
        /\ job[j].status = "queued"
        /\ job' = [job EXCEPT ![j].status = "running", ![j].owner = l[1],
                              ![j].attempts = Counted(@)]
  BY DEF Claim, Claimant, Ready
<1> DEFINE row == [job[j] EXCEPT !.status = "running", !.owner = l[1],
                                 !.attempts = Counted(job[j].attempts)]
<1>2. row.status = "running" /\ row.owner = l[1]
  <2>1. job[j] \in JobRow
    BY QueueRows
  <2>2. QED
    BY <2>1 DEF JobRow
<1>3. job' = [job EXCEPT ![j] = row]
  BY <1>1, QueueRows
<1>4. UNCHANGED live
  BY DEF Claim, procVars
<1> HIDE DEF row
<1>5. StatusOf(row) = "held" /\ StatusOf(job[j]) = "waiting"
  BY <1>1, <1>2 DEF StatusOf
<1>6. /\ TaskStatus' = [TaskStatus EXCEPT ![j] = StatusOf(row)]
      /\ TaskHolder' = [TaskHolder EXCEPT ![j] = row.owner]
      /\ TaskStatus[j] = StatusOf(job[j])
  BY <1>3, RowStep
<1>7. QED
  BY <1>2, <1>4, <1>5, <1>6 DEF Leased!Take

\* Who settles a row leaves the task it holds, or is not seen.
LEMMA MarkRefines ==
  ASSUME TypeInv, WorkInv, UNCHANGED TaskResult, NEW l \in Lane,
         MarkCanceled(l) \/ MarkDone(l) \/ MarkFailed(l)
  PROVE  (\E j \in Job : Leased!Leave(j, l[1])) \/ UNCHANGED Leased!vars
<1>1. UNCHANGED live /\ lane[l].pc # "idle" /\ l[1] \in Proc
  BY DEF MarkCanceled, MarkDone, MarkFailed, procVars, Lane
<1>2. PICK j \in Job : j = lane[l].job
  BY <1>1 DEF TypeInv, LaneHasJob
<1>3. CASE ~Owns(l)
  <2>1. UNCHANGED job
    BY <1>3 DEF MarkCanceled, MarkDone, MarkFailed
  <2>2. QED
    BY <1>1, <2>1, TasksStay DEF Leased!vars
<1>4. CASE Owns(l)
  <2>1. job[j].owner = l[1]
    BY <1>2, <1>4 DEF Owns
  <2>2. \E row : row.status # "running" /\ row.owner = None /\ job' = [job EXCEPT ![j] = row]
    BY <1>2, <1>4, MarkWrites
  <2>3. QED
    BY <1>1, <2>1, <2>2, LeaveRefines
<1>5. QED
  BY <1>3, <1>4

\* Who finds the head moved leaves its task for the one of the head.
LEMMA ReplaceRefines ==
  ASSUME TypeInv, WorkInv, UNCHANGED <<live, TaskResult>>,
         NEW j \in Job, NEW h \in Job, h # j, NEW ended, NEW row,
         job[j].owner \in Proc, job[h].status # "running",
         ended.status = "canceled", ended.owner = None,
         row.status = "queued", row.owner = None,
         job'[j] = ended, job'[h] = row,
         \A k \in Job : k # j /\ k # h => job'[k] = job[k]
  PROVE  Leased!Replace(j, h, job[j].owner)
<1>1. job[j].status = "running" /\ job[h].owner = None
  BY NoneApart DEF WorkInv, OwnersRun
<1>2. /\ StatusOf(job[j]) = "held" /\ StatusOf(job[h]) # "held"
      /\ StatusOf(ended) = "idle" /\ StatusOf(row) = "waiting"
  BY <1>1 DEF StatusOf
<1>3. TaskStatus' = [TaskStatus EXCEPT ![j] = "idle", ![h] = "waiting"]
  <2>1. TaskStatus' = [k \in Job |-> IF k = h THEN "waiting" ELSE
                                      IF k = j THEN "idle" ELSE TaskStatus[k]]
    <3>1. \A k \in Job : StatusOf(job'[k]) = IF k = h THEN "waiting" ELSE
                                           IF k = j THEN "idle" ELSE StatusOf(job[k])
      BY <1>2
    <3>2. \A k \in Job : TaskStatus[k] = StatusOf(job[k])
      BY Mapping
    <3>3. TaskStatus' = [k \in Job |-> StatusOf(job'[k])]
      BY Mapping
    <3>4. QED
      BY <3>1, <3>2, <3>3
  <2>2. DOMAIN TaskStatus = Job
    BY DEF TaskStatus
  <2>3. QED
    BY <2>1, <2>2
<1>4. TaskHolder' = [TaskHolder EXCEPT ![j] = None]
  <2>1. TaskHolder' = [k \in Job |-> IF k = j THEN None ELSE TaskHolder[k]]
    <3>1. \A k \in Job : job'[k].owner = IF k = j THEN None ELSE job[k].owner
      BY <1>1
    <3>2. \A k \in Job : TaskHolder[k] = job[k].owner
      BY Mapping
    <3>3. TaskHolder' = [k \in Job |-> job'[k].owner]
      BY Mapping
    <3>4. QED
      BY <3>1, <3>2, <3>3
  <2>2. DOMAIN TaskHolder = Job
    BY DEF TaskHolder
  <2>3. QED
    BY <2>1, <2>2
<1>5. TaskStatus[j] = "held" /\ TaskStatus[h] # "held" /\ TaskHolder[j] = job[j].owner
  BY <1>2, Mapping
<1>6. QED
  BY <1>3, <1>4, <1>5 DEF Leased!Replace

\* The replacement of a stale row: what its process still holds is given up, and the head is
\* asked for, unless its row is there.
LEMMA StaleRefines ==
  ASSUME TypeInv, WorkInv, UNCHANGED TaskResult, NEW l \in Lane,
         CancelStaleAndEnqueueLatest(l)
  PROVE  \/ \E j \in Job : \/ Leased!Ask(j) \/ Leased!Leave(j, l[1])
                           \/ \E h \in Job : Leased!Replace(j, h, l[1])
         \/ UNCHANGED Leased!vars
<1>1. UNCHANGED live /\ lane[l].pc # "idle" /\ l[1] \in Proc
  BY DEF CancelStaleAndEnqueueLatest, procVars, Lane
<1>2. PICK j \in Job : j = lane[l].job
  BY <1>1 DEF TypeInv, LaneHasJob
<1>3. PICK h \in Job : h = <<lane[l].job[1], head[lane[l].job[1]]>>
  BY <1>1, WorkingLane
<1>4. \/ job' = StaleCanceled(l)
      \/ \E row : /\ h # j /\ job[h].status # "running"
                  /\ row.status = "queued" /\ row.owner = None
                  /\ job' = [StaleCanceled(l) EXCEPT ![h] = row]
  <2>1. PICK trigger : trigger = IF job[j].trigger = "auto" THEN "auto" ELSE "manual"
    OBVIOUS
  <2>2. \/ job' = StaleCanceled(l)
        \/ /\ h # j /\ job[h].status # "running"
           /\ job' = [StaleCanceled(l) EXCEPT ![h] = Inserted(trigger, NoRun)]
        \/ /\ h # j /\ job[h].status # "running"
           /\ job' = [StaleCanceled(l) EXCEPT ![h] = Revived(h, trigger, NoRun)]
    BY <1>2, <1>3, <2>1 DEF CancelStaleAndEnqueueLatest, SystemCanceled
  <2>3. QED
    BY <2>2, EnqueuedFree
<1>5. CASE Owns(l) /\ job[j].status \in {"queued", "running"}
  <2> DEFINE ended == [job[j] EXCEPT !.status = "canceled", !.cause = "system",
                                     !.owner = None]
  <2>1. StaleCanceled(l) = [job EXCEPT ![j] = ended]
    BY <1>2, <1>5 DEF StaleCanceled, CancelOwn
  <2>2. ended.status = "canceled" /\ ended.owner = None
    <3>1. job[j] \in JobRow
      BY QueueRows
    <3>2. QED
      BY <3>1 DEF JobRow
  <2>3. job[j].owner = l[1]
    BY <1>2, <1>5 DEF Owns
  <2> HIDE DEF ended
  <2>4. CASE job' = StaleCanceled(l)
    <3>1. Leased!Leave(j, job[j].owner)
      BY <1>1, <2>1, <2>2, <2>3, <2>4, LeaveRefines
    <3>2. QED
      BY <2>3, <3>1
  <2>5. ASSUME NEW row, h # j, job[h].status # "running", row.status = "queued",
               row.owner = None, job' = [StaleCanceled(l) EXCEPT ![h] = row]
        PROVE  Leased!Replace(j, h, l[1])
    <3>1. /\ job'[j] = ended /\ job'[h] = row
          /\ \A k \in Job : k # j /\ k # h => job'[k] = job[k]
      BY <2>1, <2>5, QueueRows
    <3>2. Leased!Replace(j, h, job[j].owner)
      BY <1>1, <2>2, <2>3, <2>5, <3>1, ReplaceRefines
    <3>3. QED
      BY <2>3, <3>2
  <2>6. QED
    BY <1>4, <2>4, <2>5
<1>6. CASE ~(Owns(l) /\ job[j].status \in {"queued", "running"})
  <2>1. StaleCanceled(l) = job
    BY <1>2, <1>6 DEF StaleCanceled, CancelOwn
  <2>2. UNCHANGED job => UNCHANGED Leased!vars
    BY <1>1, TasksStay DEF Leased!vars
  <2>3. ASSUME NEW row, job[h].status # "running", row.status = "queued",
               row.owner = None, job' = [job EXCEPT ![h] = row]
        PROVE  Leased!Ask(h)
    BY <1>1, <2>3, AskRefines
  <2>4. QED
    BY <1>4, <2>1, <2>2, <2>3
<1>7. QED
  BY <1>5, <1>6

\* A recovery returns exactly the tasks whose holder is not alive.
LEMMA RecoverRefines ==
  ASSUME TypeInv, WorkInv, NEW alive, RecoverExpired(alive)
  PROVE  Leased!Return(alive)
<1> DEFINE Lost(j) == job[j].status = "running" /\ job[j].owner \notin alive
           row(j)  == [job[j] EXCEPT !.status = "queued", !.owner = None]
           lost    == {t \in Job : TaskStatus[t] = "held" /\ TaskHolder[t] \notin alive}
<1>1. \A j \in Job : job'[j] = IF Lost(j) THEN row(j) ELSE job[j]
  BY DEF RecoverExpired, Expired
<1>2. ASSUME NEW j \in Job PROVE row(j).owner = None /\ StatusOf(row(j)) = "waiting"
  <2>1. job[j] \in JobRow
    BY QueueRows
  <2>2. QED
    BY <2>1 DEF JobRow, StatusOf
<1>3. ASSUME NEW j \in Job PROVE j \in lost <=> Lost(j)
  <2>1. StatusOf(job[j]) = "held" <=> job[j].status = "running"
    BY DEF StatusOf
  <2>2. TaskStatus[j] = StatusOf(job[j]) /\ TaskHolder[j] = job[j].owner
    BY Mapping
  <2>3. QED
    BY <2>1, <2>2
<1> HIDE DEF row, Lost
<1>4. TaskStatus' = [t \in Job |-> IF t \in lost THEN "waiting" ELSE TaskStatus[t]]
  BY <1>1, <1>2, <1>3, Mapping
<1>5. TaskHolder' = [t \in Job |-> IF t \in lost THEN None ELSE TaskHolder[t]]
  BY <1>1, <1>2, <1>3, Mapping
<1>6. QED
  BY <1>4, <1>5 DEF Leased!Return

\* A process that boots leases itself and recovers; a heartbeat recovers; a lease ends
\* with its time or with the process; the rest is not seen.
LEMMA ProcessRefines ==
  ASSUME TypeInv, WorkInv, UNCHANGED TaskResult, NEW p \in Proc, ProcStep(p)
  PROVE  Leased!Join(p) \/ Leased!Recover \/ Leased!Expire(p) \/ UNCHANGED Leased!vars
<1>1. CASE Boot(p)
  <2>1. PICK alive : alive = live'
    OBVIOUS
  <2>2. live' = live \cup {p} /\ RecoverExpired(alive)
    BY <1>1, <2>1 DEF Boot
  <2>3. Leased!Return(alive)
    BY <2>2, RecoverRefines
  <2>4. Leased!Return(live')
    BY <2>1, <2>3
  <2>5. QED
    BY <2>2, <2>4 DEF Leased!Join
<1>2. CASE Heartbeat(p)
  <2>1. PICK alive : alive = live
    OBVIOUS
  <2>2. UNCHANGED live /\ RecoverExpired(alive)
    BY <1>2, <2>1 DEF Heartbeat, procVars
  <2>3. Leased!Return(alive)
    BY <2>2, RecoverRefines
  <2>4. QED
    BY <2>1, <2>2, <2>3 DEF Leased!Recover
<1>3. CASE LeaseExpires(p) \/ Release(p)
  <2>1. UNCHANGED job /\ live' = live \ {p}
    BY <1>3 DEF LeaseExpires, Release, dbVars
  <2>2. QED
    BY <2>1, TasksStay DEF Leased!Expire
<1>4. CASE LeaseLost(p) \/ Shutdown(p) \/ Crash(p)
  <2>1. UNCHANGED <<job, live>>
    BY <1>4 DEF LeaseLost, Shutdown, Crash, dbVars
  <2>2. QED
    BY <2>1, TasksStay DEF Leased!vars
<1>5. QED
  BY <1>1, <1>2, <1>3, <1>4 DEF ProcStep

\* What is on display after one more review: the latest of them, still.
LEMMA LatestStays ==
  ASSUME NEW S, NEW s, s.made \in Nat, \A t \in S : t.made \in Nat,
         NEW u \in S, s.made < u.made
  PROVE  Latest(S \cup {s}) = Latest(S)
<1> DEFINE Top(rs) == {t \in rs : \A x \in rs : x.made <= t.made}
<1>1. ASSUME NEW t \in Top(S) PROVE t \in Top(S \cup {s})
  <2>1. t \in S /\ \A x \in S : x.made <= t.made
    OBVIOUS
  <2>2. s.made <= t.made
    BY <2>1
  <2>3. QED
    BY <2>1, <2>2
<1>2. ASSUME NEW t \in Top(S \cup {s}) PROVE t \in Top(S)
  <2>1. t \in S \cup {s} /\ u.made <= t.made /\ \A x \in S : x.made <= t.made
    OBVIOUS
  <2>2. t # s
    BY <2>1
  <2>3. QED
    BY <2>1, <2>2
<1>3. Top(S \cup {s}) = Top(S)
  BY <1>1, <1>2
<1>4. \A rs : Latest(rs) = CHOOSE t : t \in Top(rs)
  BY Zenon DEF Latest
<1> HIDE DEF Top
<1>5. QED
  BY <1>3, <1>4

\* Or the new one, if it is later than every other.
LEMMA LatestIsNew ==
  ASSUME NEW S, NEW s, s.made \in Nat, \A t \in S : t.made \in Nat /\ t.made < s.made
  PROVE  Latest(S \cup {s}) = s
<1> DEFINE Top(t) == \A x \in S \cup {s} : x.made <= t.made
<1>1. s \in S \cup {s} /\ Top(s)
  OBVIOUS
<1>2. Latest(S \cup {s}) \in S \cup {s} /\ Top(Latest(S \cup {s}))
  BY <1>1 DEF Latest
<1>3. ASSUME NEW t \in S \cup {s}, Top(t) PROVE t = s
  <2>1. s.made <= t.made
    BY <1>3
  <2>2. t \notin S
    BY <2>1
  <2>3. QED
    BY <2>2
<1> HIDE DEF Top
<1>4. QED
  BY <1>2, <1>3

\* No statement moves a run to another process.
LEMMA RunsOwned ==
  ASSUME TypeInv, ResultInv, Next, NEW r \in 1..runs
  PROVE  run'[r].owner = run[r].owner
<1>1. r \in Run /\ run \in [Run -> RunRow] /\ run[r] \in RunRow /\ r # runs + 1
  BY QueueRows
<1>2. CASE \/ UserStep
           \/ \E p \in Pr : Close(p) \/ \E s \in Sha : Sync(p, s)
           \/ \E j \in Job : BackoffElapses(j)
  BY <1>2 DEF UserStep, Close, Sync, BackoffElapses, EnqueueManual,
              CancelReview, EnqueueRetry, SetConfig, dbVars
<1>3. ASSUME NEW p \in Proc, ProcStep(p)
      PROVE  run'[r].owner = run[r].owner
  <2>1. UNCHANGED run \/ \E alive : RecoverExpired(alive)
    BY <1>3 DEF ProcStep, Boot, Heartbeat, LeaseLost, LeaseExpires,
                Shutdown, Release, Crash, dbVars
  <2>2. run'[r] = run[r] \/ run'[r] = [run[r] EXCEPT !.status = "failed"]
    BY <1>1, <2>1 DEF RecoverExpired
  <2>3. QED
    BY <1>1, <2>2 DEF RunRow
<1>4. ASSUME NEW l \in Lane, Claim(l) \/ LaneStep(l) \/ CancelLane(l)
      PROVE  run'[r].owner = run[r].owner
  <2>1. ASSUME NEW k, NEW status, NEW why, FinishRun(k, status, why)
        PROVE  run'[r].owner = run[r].owner
    BY <1>1, <2>1 DEF FinishRun, RunRow
  <2>2. CASE StaleFinish(l) \/ SkipFinish(l) \/ NoVendor(l) \/ RunFails(l)
    BY <2>1, <2>2 DEF StaleFinish, SkipFinish, NoVendor, RunFails
  <2>3. CASE CreateRun(l)
    <3>1. UNCHANGED run \/ \E row : run' = [run EXCEPT ![runs + 1] = row]
      BY <2>3 DEF CreateRun
    <3>2. QED
      BY <1>1, <3>1
  <2>4. CASE Timeout(l)
    <3>1. run'[r] = run[r] \/ run'[r] = [run[r] EXCEPT !.status = "failed"]
      BY <1>1, <2>4 DEF Timeout
    <3>2. QED
      BY <1>1, <3>1 DEF RunRow
  <2>5. ASSUME NEW k, NEW row, run' = [run EXCEPT ![k] = row], row.owner = run[k].owner
        PROVE  run'[r].owner = run[r].owner
    BY <1>1, <2>5
  <2>6. CASE Persist(l) \/ RetryPersist(l)
    <3> DEFINE k == lane[l].run
    <3>1. \/ UNCHANGED run
          \/ \E partial \in BOOLEAN :
               \/ run' = [run EXCEPT ![k] = [run[k] EXCEPT !.status = "done",
                                                         !.partial = partial]]
               \/ run' = [run EXCEPT ![k] = [run[k] EXCEPT !.partial = partial]]
      BY <2>6 DEF Persist, RetryPersist
    <3>2. k \in 1..runs
      BY <2>6 DEF Persist, RetryPersist, ResultInv, LanesKnow, LaneKnows, KnowsRun,
                  Writing, Ended, RunFits
    <3>3. run[k] \in RunRow
      BY <3>2, QueueRows
    <3>4. ASSUME NEW partial \in BOOLEAN
          PROVE  /\ [run[k] EXCEPT !.status = "done", !.partial = partial].owner = run[k].owner
                 /\ [run[k] EXCEPT !.partial = partial].owner = run[k].owner
      BY <3>3 DEF RunRow
    <3> HIDE DEF k
    <3>5. QED
      BY <2>5, <3>1, <3>4
  <2>7. CASE \/ Claim(l) \/ CancelLane(l) \/ Gate(l) \/ HeadMoved(l) \/ Skip(l)
             \/ SkipMark(l) \/ RetryStart(l) \/ RetryFails(l) \/ MarkCanceled(l)
             \/ CancelStaleAndEnqueueLatest(l) \/ MarkDone(l) \/ MarkFailed(l)
    BY <2>7 DEF Claim, CancelLane, Gate, HeadMoved, Skip, SkipMark, RetryStart,
                RetryFails, MarkCanceled, CancelStaleAndEnqueueLatest,
                MarkDone, MarkFailed, dbVars
  <2>8. QED
    BY <1>4, <2>2, <2>3, <2>4, <2>6, <2>7 DEF LaneStep
<1>5. QED
  BY <1>2, <1>3, <1>4 DEF Next

\* What a run says of a completed review of a job.
IsReview(row, j) == row.status = "done" /\ row.job = j

LEMMA ReviewRows ==
  ASSUME NEW j
  PROVE  /\ Reviews(j) = {[made |-> r, by |-> run[r].owner] :
                            r \in {k \in Run : IsReview(run[k], j)}}
         /\ Reviews(j)' = {[made |-> r, by |-> run'[r].owner] :
                             r \in {k \in Run : IsReview(run'[k], j)}}
  BY DEF Reviews, IsReview

\* The reviews of a job stay while none is added, and none is moved.
LEMMA SameReviews ==
  ASSUME NEW j,
         \A r \in Run : /\ IsReview(run'[r], j) <=> IsReview(run[r], j)
                        /\ IsReview(run[r], j) => run'[r].owner = run[r].owner
  PROVE  Reviews(j)' = Reviews(j)
<1>1. ASSUME NEW s \in Reviews(j) PROVE s \in Reviews(j)'
  <2>1. PICK r \in Run : IsReview(run[r], j) /\ s = [made |-> r, by |-> run[r].owner]
    BY DEF Reviews, IsReview
  <2>2. IsReview(run'[r], j) /\ run'[r].owner = run[r].owner
    BY <2>1
  <2>3. QED
    BY <2>1, <2>2 DEF Reviews, IsReview
<1>2. ASSUME NEW s \in Reviews(j)' PROVE s \in Reviews(j)
  <2>1. PICK r \in Run : IsReview(run'[r], j) /\ s = [made |-> r, by |-> run'[r].owner]
    BY DEF Reviews, IsReview
  <2>2. IsReview(run[r], j) /\ run'[r].owner = run[r].owner
    BY <2>1 DEF IsReview
  <2>3. QED
    BY <2>1, <2>2 DEF Reviews, IsReview
<1>3. QED
  BY <1>1, <1>2

\* A step that completes no run leaves what is on display.
LEMMA ReviewsStay ==
  ASSUME TypeInv, ResultInv, Next, \A r \in Run : ~Persists(r)
  PROVE  UNCHANGED TaskResult
<1>1. ASSUME NEW j \in Job, NEW r \in Run
      PROVE  /\ IsReview(run'[r], j) <=> IsReview(run[r], j)
             /\ IsReview(run[r], j) => run'[r].owner = run[r].owner
  <2>1. run[r].status = "done" => r \in 1..runs
    BY QueueRows DEF ResultInv, RunsFresh, Run
  <2>2. run'[r].status = "done" => run[r].status = "done"
    BY DEF Persists
  <2>3. r \in 1..runs => /\ run'[r].job = run[r].job
                         /\ run[r].status = "done" => run'[r].status = "done"
                         /\ run'[r].owner = run[r].owner
    BY ResultStep, RunsOwned DEF RunsMove
  <2>4. QED
    BY <2>1, <2>2, <2>3 DEF IsReview
<1>2. ASSUME NEW j \in Job PROVE Reviews(j)' = Reviews(j)
  BY <1>1, SameReviews
<1>3. QED
  BY <1>2 DEF TaskResult

\* Who completes a run, under its lease, publishes the review of the task it holds, or a
\* later one is on display already.
LEMMA PublishRefines ==
  ASSUME FenceInv, ResultInv, Next, NEW r \in Run, Persists(r)
  PROVE  \/ \E j \in Job, p \in Proc : Leased!Publish(j, p)
         \/ UNCHANGED Leased!vars
<1>0. TypeInv
  BY DEF FenceInv, ExclusionInv
<1>1. PICK l \in Lane : Persist(l) /\ HoldsLease(l) /\ r = lane[l].run
  BY OnlyPersistCompletes
<1>2. /\ lane[l].pc = "body" /\ UNCHANGED <<job, live>> /\ l[1] \in live /\ l[1] \in Proc
      /\ \E partial \in BOOLEAN : run' = [run EXCEPT ![r].status = "done",
                                                     ![r].partial = partial]
  BY <1>1 DEF Persist, HoldsLease, procVars, Lane
<1>3. PICK j \in Job : j = lane[l].job
  BY <1>0, <1>2 DEF TypeInv, LaneHasJob
<1>4. run[r].job = j /\ run[r].owner = l[1]
  BY <1>1, <1>2, <1>3 DEF FenceInv, BodyOwnsRun
<1>5. job[j].status = "running" /\ job[j].owner = l[1]
  BY <1>2, <1>3 DEF FenceInv, ExclusionInv, LiveOwnerExclusive
<1>6. run'[r].status = "done" /\ run'[r].job = j /\ run'[r].owner = l[1]
      /\ \A k \in Run \ {r} : run'[k] = run[k]
  BY <1>0, <1>2, <1>4, QueueRows DEF RunRow
<1>7. ~IsReview(run[r], j)
  BY DEF Persists, IsReview
<1> DEFINE S   == Reviews(j)
           new == [made |-> r, by |-> l[1]]
<1>8. Reviews(j)' = S \cup {new}
  BY <1>6, <1>7, ReviewRows DEF IsReview
<1>9. ASSUME NEW k \in Job, k # j PROVE Reviews(k)' = Reviews(k)
  <2>1. ~IsReview(run[r], k) /\ ~IsReview(run'[r], k)
    BY <1>4, <1>6, <1>9 DEF IsReview
  <2>2. QED
    BY <1>6, <2>1, SameReviews
<1>10. new.made \in Nat /\ \A t \in S : t.made \in Nat /\ t.made # new.made
  BY <1>7, ReviewRows, Bounds DEF Run
<1>11. UNCHANGED <<TaskStatus, TaskHolder>>
  BY <1>0, <1>2, TasksStay
<1>12. TaskStatus[j] = "held" /\ TaskHolder[j] = l[1]
  BY <1>5 DEF TaskStatus, TaskHolder
<1> HIDE DEF S, new
<1>13. CASE \E u \in S : new.made < u.made
  <2>1. Latest(S \cup {new}) = Latest(S) /\ S # {}
    BY <1>10, <1>13, LatestStays
  <2>2. UNCHANGED TaskResult
    BY <1>8, <1>9, <2>1 DEF TaskResult, S
  <2>3. QED
    BY <1>2, <1>11, <2>2 DEF Leased!vars
<1>14. CASE ~\E u \in S : new.made < u.made
  <2>1. \A t \in S : t.made < new.made
    BY <1>10, <1>14
  <2>2. Latest(S \cup {new}) = new
    BY <1>10, <2>1, LatestIsNew
  <2>3. TaskResult' = [TaskResult EXCEPT ![j] = new]
    BY <1>8, <1>9, <2>2 DEF TaskResult
  <2>4. QED
    BY <1>2, <1>11, <1>12, <2>3 DEF Leased!Publish, new
<1>15. QED
  BY <1>13, <1>14

\* Initially no task is asked for, held or done.
LEMMA InitRefines == Init => Leased!Init
<1> SUFFICES ASSUME Init PROVE Leased!Init
  OBVIOUS
<1>1. \A j \in Job : StatusOf(job[j]) = "idle" /\ job[j].owner = None
  BY DEF Init, NoJobRow, StatusOf
<1>2. \A j \in Job : Reviews(j) = {}
  BY ReviewRows DEF Init, NoRunRow, IsReview
<1>3. TaskResult = [j \in Job |-> None]
  BY <1>2 DEF TaskResult
<1>4. QED
  BY <1>1, <1>3, Mapping DEF Init, Leased!Init

\* A lane takes a task, leaves or replaces the one its process holds, or is not seen.
LEMMA LaneRefines ==
  ASSUME TypeInv, WorkInv, UNCHANGED TaskResult, NEW l \in Lane,
         Claim(l) \/ LaneStep(l) \/ CancelLane(l)
  PROVE  Leased!Next \/ UNCHANGED Leased!vars
<1>0. l[1] \in Proc
  BY DEF Lane
<1>1. CASE Claim(l)
  BY <1>0, <1>1, ClaimRefines DEF Leased!Next
<1>2. CASE MarkCanceled(l) \/ MarkDone(l) \/ MarkFailed(l)
  BY <1>0, <1>2, MarkRefines DEF Leased!Next
<1>3. CASE CancelStaleAndEnqueueLatest(l)
  BY <1>0, <1>3, StaleRefines DEF Leased!Next
<1>4. CASE \/ Gate(l) \/ CreateRun(l) \/ HeadMoved(l) \/ StaleFinish(l) \/ Skip(l)
           \/ SkipFinish(l) \/ SkipMark(l) \/ NoVendor(l) \/ Persist(l) \/ RunFails(l)
           \/ Timeout(l) \/ RetryStart(l) \/ RetryPersist(l) \/ RetryFails(l)
           \/ CancelLane(l)
  <2>1. UNCHANGED <<job, live>>
    BY <1>4 DEF Gate, CreateRun, HeadMoved, StaleFinish, Skip, SkipFinish, SkipMark,
       NoVendor, Persist, RunFails, Timeout, RetryStart, RetryPersist, RetryFails,
       CancelLane, dbVars, procVars
  <2>2. QED
    BY <2>1, TasksStay DEF Leased!vars
<1>5. QED
  BY <1>1, <1>2, <1>3, <1>4 DEF LaneStep

\* Every step of the queue is a step of the task table, or is not seen.
LEMMA StepRefines ==
  FenceInv /\ ResultInv /\ WorkInv /\ [Next]_vars => [Leased!Next]_(Leased!vars)
<1> SUFFICES ASSUME FenceInv, ResultInv, WorkInv, [Next]_vars
             PROVE  Leased!Next \/ UNCHANGED Leased!vars
  OBVIOUS
<1>0. TypeInv
  BY DEF FenceInv, ExclusionInv
<1>1. CASE UNCHANGED vars
  <2>1. UNCHANGED TaskResult
    BY <1>1 DEF vars, TaskResult, Reviews
  <2>2. QED
    BY <1>0, <1>1, <2>1, TasksStay DEF vars, Leased!vars
<1>2. CASE Next /\ \E r \in Run : Persists(r)
  BY <1>2, PublishRefines DEF Leased!Next
<1>3. CASE Next /\ ~\E r \in Run : Persists(r)
  <2>1. UNCHANGED TaskResult
    BY <1>0, <1>3, ReviewsStay
  <2>2. CASE UserStep
    <3>1. ASSUME NEW j, NEW trigger, NEW r, UserEnqueue(j, trigger, r), UNCHANGED live
          PROVE  Leased!Next \/ UNCHANGED Leased!vars
      BY <1>0, <2>1, <3>1, EnqueueRefines DEF Leased!Next
    <3>2. ASSUME NEW p \in Pr, CancelReview(p)
          PROVE  Leased!Next
      BY <1>0, <2>1, <3>2, CancelRefines DEF Leased!Next
    <3>3. ASSUME NEW c, SetConfig(c)
          PROVE  UNCHANGED Leased!vars
      <4>1. UNCHANGED <<job, live>>
        BY <3>3 DEF SetConfig, dbVars, procVars
      <4>2. QED
        BY <1>0, <2>1, <4>1, TasksStay DEF Leased!vars
    <3>4. QED
      BY <2>2, <3>1, <3>2, <3>3 DEF UserStep, EnqueueManual, EnqueueRetry, procVars
  <2>3. ASSUME NEW p \in Pr, NEW s \in Sha, Sync(p, s)
        PROVE  Leased!Next \/ UNCHANGED Leased!vars
    BY <1>0, <2>1, <2>3, SyncRefines DEF Leased!Next
  <2>4. ASSUME NEW p \in Pr, Close(p)
        PROVE  UNCHANGED Leased!vars
    <3>1. UNCHANGED <<job, live>>
      BY <2>4 DEF Close, dbVars, procVars
    <3>2. QED
      BY <1>0, <2>1, <3>1, TasksStay DEF Leased!vars
  <2>5. ASSUME NEW j \in Job, BackoffElapses(j)
        PROVE  Leased!Next
    <3>1. job[j] \in JobRow /\ job[j].status = "queued" /\ job[j].owner = None
          /\ UNCHANGED live
      BY <1>0, <2>5, QueueRows DEF BackoffElapses, WorkInv, OwnersRun, procVars
    <3>2. job' = [job EXCEPT ![j] = [job[j] EXCEPT !.delayed = FALSE]]
      BY <2>5 DEF BackoffElapses
    <3>3. /\ [job[j] EXCEPT !.delayed = FALSE].status = "queued"
          /\ [job[j] EXCEPT !.delayed = FALSE].owner = None
      BY <3>1 DEF JobRow
    <3>4. Leased!Ask(j)
      BY <1>0, <2>1, <3>1, <3>2, <3>3, AskRefines
    <3>5. QED
      BY <3>4 DEF Leased!Next
  <2>6. ASSUME NEW l \in Lane, Claim(l) \/ LaneStep(l) \/ CancelLane(l)
        PROVE  Leased!Next \/ UNCHANGED Leased!vars
    BY <1>0, <2>1, <2>6, LaneRefines
  <2>7. ASSUME NEW p \in Proc, ProcStep(p)
        PROVE  Leased!Next \/ UNCHANGED Leased!vars
    BY <1>0, <2>1, <2>7, ProcessRefines DEF Leased!Next
  <2>8. QED
    BY <1>3, <2>2, <2>3, <2>4, <2>5, <2>6, <2>7 DEF Next
<1>4. QED
  BY <1>1, <1>2, <1>3

\* For any number of processes, lanes, pull requests, commits, runs and moves: a job is in
\* the name of one process at a time and is taken away only from an owner without a lease,
\* no request touches it while it runs, and a completed review of it is put on display only
\* while its process holds the job and its lease, and is never taken back.
THEOREM QueueImplementsLeasedTask == Spec => ImplementsLeasedTask
<1>1. Spec => []FenceInv
  BY FenceInit, FenceStep, PTL DEF Spec
<1>2. Spec => [][Leased!Next]_(Leased!vars)
  BY <1>1, ResultAlways, WorkAlways, StepRefines, PTL DEF Spec
<1>3. QED
  BY <1>2, InitRefines, PTL DEF Spec, ImplementsLeasedTask, Leased!Spec
=============================================================================
