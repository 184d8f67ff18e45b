# A TLA+ model of the review server

The server in `src/server` watches GitHub repositories, runs several AI vendors
over every new head of a pull request, merges what they find, and lets a person
post the result.  It is one Python program over one SQLite database, but several
copies of it may run at once (a restart that overlaps, a forgotten terminal), and
each copy runs several asyncio loops.  The database is the only thing they share.
This directory models what those loops may do to each other.

## The system

| Part | State it keeps | Operations | Interacts with |
|---|---|---|---|
| Review job queue (`repos/job_repo.py`) | `review_job`: status, trigger, attempts, owner, error, run and retry-run pointers, backoff | enqueue, manual and retry request, claim, done / failed / canceled, stale replacement, cancel | everyone below |
| Review worker (`worker.py`) | the lane's claimed row and run id | `run_one_job`: claim, gate, pipeline, settle; timeout; shutdown | queue, pipeline |
| Process leases (`repos/process_repo.py`) | `process_lease` rows with an expiry | register, heartbeat, recover_expired, release | queue, pipeline |
| Review pipeline (`pipeline.py`) | `review_run`, `vendor_result`, findings, `last_reviewed_sha` | `review_pr`, `retry_pr`; prescreen, contexts, vendors, merge, debate, the persist barrier | queue, vendors |
| Poller, webhook (`poller.py`, `github/webhook.py`, `repos/pr_repo.py`) | `pull_request`: head, state, draft, what was reviewed | sync a reported pull request, close the missing ones, enqueue | queue, GitHub |
| Commands (`api.py`) | none of their own | trigger, retry vendors, cancel, settings | queue, repo rows |
| Posting outbox (`repos/post_operation_repo.py`, `api.py`) | `github_post_operation`, `posted_comment`, reserved findings | prepare, claim, create or adopt the remote review, record, finalize | findings, GitHub |
| Findings (`repos/finding_repo.py`, triggers in `db.py`) | findings, decisions, summary counters | patch, approve, dismiss | outbox |
| Wiki queue (`repos/wiki_repo.py`, `wiki.py`) | wiki rows with owner and retry time | mark, claim, generate, check the evidence, save, retry, fail, recover | worker, leases |
| Retention and repository deletion (`retention.py`, `api.py`) | transcript files | delete what is old or unwanted | every table |
| Diff filter, merge, finding policy, debate (`review/*.py`) | none: functions of a diff or of findings | cut, own, scope, group, tag, judge | pipeline |
| Context providers (`context/*.py`) | none | collect text, choose what fits | pipeline |
| Vendor adapters (`review/vendors.py`, `review/vendor_telemetry.py`, `review/runner.py`) | child processes, one semaphore | run, time out, read events, parse | pipeline, wiki |
| Slack feedback | one message per run, reactions | post, attribute a reaction | outbox |

What is hard: two processes hold different ideas of who owns a job; a lane works
on for minutes with a row it read before an `await`; the head of a pull request
moves, and moves back, while a review of it runs; a statement commits and the
process dies before the next; settings change between two reads of the same row;
a webhook, a poll, a person and a stale worker enqueue the same head at once.

What makes each part correct:

- queue, worker, leases: one live owner per job; every running row has somebody
  who will settle or recover it; a cancel by a person sticks; a cancel by the
  system does not;
- pipeline: a result is stored only under the lease, for the head it reviewed;
  a completed run is never undone; a head is called reviewed only if it was;
- review and retry: every added line that can be placed has one prompt; a chunk is answered
  once and counted as answered only if it was; what may be posted, what agrees and
  what is counted fit the stored findings;
- poller, webhook: rows become what GitHub has, whatever came late or was lost;
- retention: only idle history of closed pull requests goes, and no file stays;
- outbox: a remote review is created once per approved content, across crashes;
- wiki: the holder of a page keeps it, and what is shown is backed by evidence.

`PROJECT.json` lists every component with its status and every hazard with the
line where it bites.

## What is modelled

| Module | Of the system | Uses |
|---|---|---|
| `ReviewQueue` | job queue, worker, leases, the commits of the pipeline | implements `LeasedTask` |
| `ReviewExecution` | what one review and its retries do to run, vendor rows and findings | `DiffChunks` (with `Sublist`), `FindingPolicy`, `VendorOutput`, `ReviewContext` |
| `PostOperation` | the posting outbox and the decisions on findings | |
| `PrTracking` | polls, syncs, webhook, retention, removal of a repository | |
| `WikiQueue` | the wiki's rows, lane and processes | `WikiEvidence`; implements `LeasedTask` |

The five meet in the database and are composed by what each lets the others do:
`PrTracking` works off a job in one step where `ReviewQueue` has thirty,
`ReviewQueue` reviews in one nondeterministic outcome what `ReviewExecution` does
in detail, `ReviewExecution` posts in one step.  Each abstraction allows more than
the detailed module does.

### ReviewQueue

One module for the review job queue and everybody who writes to it.  An action is
one committed statement or transaction, together with the reads the code makes
without an intervening `await`.

| Variable | In the code |
|---|---|
| `head`, `open`, `reviewed` | `pull_request.head_sha`, `.state = 'open'`, `.last_reviewed_sha` |
| `config` | the `repo` row: enabled, trigger mode is auto, some vendor is on |
| `job` | `review_job`, one row per pull request and head (the UNIQUE key) |
| `run`, `runs` | `review_run` with whether some vendor result failed; how many rows exist |
| `lane` | the local variables of `run_one_job` in a worker lane: place, claimed job, run id |
| `proc` | a server process: not booted, up, stopping, gone |
| `live` | processes with an unexpired `process_lease` row |
| `rows`, `moves` | the next row id; how many bounded environment steps were taken |

| Actions | In the code |
|---|---|
| `Sync`, `Close` | a poll or a webhook delivery reports a pull request, or its absence |
| `EnqueueManual`, `EnqueueRetry`, `CancelReview`, `SetConfig` | the commands of `api.py` |
| `Claim` | `claim_next` |
| `Gate` | the checks of `run_one_job` before a vendor is paid |
| `CreateRun`, `HeadMoved`, `Skip`, `NoVendor`, `Persist`, `RunFails` | `review_pr` and `_execute_run`; the statements that follow an early exit are actions of their own (`StaleFinish`, `SkipFinish`, `SkipMark`) because each commits alone |
| `RetryStart`, `RetryPersist`, `RetryFails` | `retry_pr` |
| `Timeout` | `wait_for(..., JOB_TIMEOUT_SEC)` and what its handler writes |
| `MarkDone`, `MarkFailed`, `MarkCanceled`, `CancelStaleAndEnqueueLatest` | the settling statements, each guarded by the owner column |
| `Boot`, `Heartbeat`, `LeaseLost`, `Shutdown`, `CancelLane`, `Release`, `Crash` | `lifespan`, `lease_heartbeat_loop`, `worker_loop` |
| `LeaseExpires`, `BackoffElapses` | time |

A lane keeps what it captured: the retry run it read with the claim, and what
`review_pr` read of the vendors.  The claim does not look at the lease, and
neither do the settling statements: a process that lost its lease goes on until
its heartbeat notices, and the model lets it.

Abstractions:

- A webhook delivery and a poll are both `Sync`: any head may be reported at any
  time.  Which report is old, and how it commits, is the subject of `PrTracking`.
- Draft pull requests are a reason not to enqueue, like `config.auto`.
- The vendors of a repository are one flag: at least one is on.  What vendors
  answer is nondeterministic; of a finished run only "some vendor failed" is kept
  (`ReviewExecution` has the rest).
- `attempts` stops counting at `MaxAttempts`, the only value it is compared with.  The
  column itself has no bound: a recovered job is claimed, and counted, beyond
  `max_attempts`, so nothing is claimed about its size.
- The pull request and repository rows that the gate reads one after the other
  are read together; so are the head and the job of a manual request.
- `EnqueueRetry` does not require that the failed vendors are still on, only that
  some vendor is.
- The mode without an owner (`owner_process_id` NULL, used by tests) and a locked
  database inside a settling statement are not modelled; rows are deleted only in
  `PrTracking`.

### PostOperation

Posting the approved findings of one pull request.  The outbox shares only the
rows of findings and runs with the queue, and reads nothing of the queue's state,
so it is a module of its own; a newer run is the one thing the queue does to it.

| Variable | In the code |
|---|---|
| `finding` | status, text (`edited_text` or `claim`) and `posting_operation_id` of the finding rows |
| `op`, `ops` | `github_post_operation`: status, operation key, findings it reserves, owner, whether its lock is twenty minutes old, remote review; ids handed out |
| `posted` | `posted_comment` rows, oldest first, and whether they are superseded |
| `review` | the server's reviews on GitHub, oldest first: deleted or not, and whose text they show |
| `run`, `head` | `head_sha` of the review runs; the head of the pull request |
| `poster` | local variables of `_post_run_locked`, one per process and run: `post_run` lets one thread per run in |
| `moves` | bounded environment steps taken |

| Actions | In the code |
|---|---|
| `PatchFinding` | `patch_finding`: approve, dismiss, edit what no operation holds |
| `MoveHead`, `NewRun`, `RemoveReview` | a push, a review run stored by the pipeline, a review deleted on GitHub |
| `BuildComments` | `_post_run_locked` up to `_comments_to_post` |
| `CheckRun`, `CheckHead` | `_assert_post_fresh` (rows, then GitHub), the review to replace, the policy |
| `Prepare` | `prepare`: find the operation by its key, or insert it and reserve its findings |
| `ClaimOp`, `LockAges` | `claim`, and its clause on twenty minutes |
| `FindRemote` | `find_remote_review`: look for the marker |
| `UpdateReview`, `CreateReview` | the calls to GitHub; either may be carried out and its answer lost; a missing review is created again or the operation aborted (`AbortUnapplied`) |
| `MarkRemote`, `Finalize` | `mark_remote`; the transaction of supersede, add and `finalize` |
| `Stop` | any error or crash between two steps; nothing is undone |

A comment body is the set of findings it shows with their texts: two bodies are
equal, and have the same operation key, exactly when those sets are.  The marker
in a review stands for that key, so it is not a field of its own.

Abstractions:

- `LockAges` is about abandoned operations only.  After the claim a poster lists
  pages of reviews (10 s each) and makes at most three calls of at most 300 s,
  so it does not get to twenty minutes.
- GitHub's list of reviews is current.  The local and the remote head are one.
- Health check, duplicate scan and legacy operations only keep a POST from
  starting.  Inline comments, Slack and the cut of bodies at the size limit are
  left out.
- All findings may be posted (`posting_eligible`); those of a run exist as pending
  from the start and matter once the run does.
- `MayUpdate`, `MayCreate` and `Fallback` are the rehearsal policy; without one
  they are all true.

### ReviewExecution

One review of a pull request from the claim of its job to the stored findings, and
the retries of what failed in it, by whichever process has the job.

| Variable | In the code |
|---|---|
| `site`, `chunks` | the repository at hand: its diff and chunks, what vendors, prescreen and sources may answer, how it may change |
| `setting` | vendors, merge, debate, policies, CLI version, and what a retry compares (titles, models, prompts) as one `basis` |
| `head`, `job` | the head of the pull request; its job and who has it |
| `run` | the newest `review_run`: status, head, policy snapshot, identity, stored contexts, whether consensus was computed |
| `screened` | a `pre_screen` row that may be used again |
| `row` | `vendor_result`: status and, per attempt, how each chunk ended |
| `finding`, `summary` | `finding` rows in the order of their ids; `run_finding_summary` as its triggers keep it |
| `lane` | the local variables of `review_pr` and `retry_pr` |
| `live`, `moves` | unexpired leases; bounded steps of the environment |

| Actions | In the code |
|---|---|
| `Claim` | the claim, and `build_deps`: whom a debate may ask |
| `CreateRun`, `Prescreen`, `Nothing`, `StoreContexts`, `BindPolicy`, `AddRows` | `review_pr` up to the vendors, one action per commit |
| `AskVendors`, `Combine`, `Debate` | `_run_vendor`, scope, duplicates, `deterministic_merge`, `_verify_singles` |
| `PersistAllFailed`, `PersistStale`, `Persist`, `LeaseLost`, `ReviewFails` | `_persist_vendor_results` and its exits |
| `RetryStart`, `RetryRefused`, `RetryStale`, `RetryAdds`, `RetryFails` | `retry_pr`, `_retry_failed_vendors`, `_require_retry_identity` |
| `Timeout`, `Crash`, `LeaseExpires`, `Recover` | the worker and `recover_expired` |
| `RequestRetry`, `RequestReview`, `FindingChanges`, `SettingChanges`, `ContextsExpire`, `HeadMoves` | people, upgrades, cleanup, pushes |

The functions it calls are operators of four modules:

- `DiffChunks`: `filter_reviewable`, line numbering, splitting of a block that is
  too large, packing, and the two assertions of `_prompt_chunks`.  A diff is a
  sequence of blocks, hunks and lines; of a text only its size is kept.  A block whose
  header `_header_target` cannot read has the path `""`, as in the code: it is kept,
  and owned by no prompt.
- `FindingPolicy`: the rollout decision, scope, duplicate groups (also when a
  retry repeats a stored finding), `deterministic_merge`, who is asked in a debate and
  its verdict.
- `VendorOutput`: what exit, limits, events and final message of a CLI amount to.
- `ReviewContext`: which blocks of context fit, and what of them may be stored.

Abstractions:

- The repository row is read twice, as in the code: `Claim` takes from it who may be
  asked in a debate (`by`, from `run_one_job` and `build_deps`), `CreateRun` what the
  run works with (`cfg`, from `review_pr`).  `SettingChanges` may come in between.
- Vendors work in parallel in the code and write nothing until all have ended, so
  their answers are one step.  A chunk has at most one finding.
- Every finding is serious enough for a debate.  The attempts of a debate and the
  byte limit of an envelope are left out; `MaxAttempts` stands for both limits.
- What a retry compares is one value, `Identity`; the hash of each part is not.
- Posting and deciding are one step each; `PostOperation` has the rest.
- The next review of a moved head comes with the next request.

### PrTracking

| Variable | In the code |
|---|---|
| `hub`, `mail` | the pull requests as GitHub has them; deliveries it may still make |
| `row`, `job`, `repo` | `pull_request` (with whether `updated_at` is older than the retention period), `review_job`, the `repo` row |
| `raw` | a transcript file of an older version, and the `raw_path` that names it |
| `poll` | local variables of the poll loop and of every manual sync: settings and open rows captured before the call, the list |
| `hook` | a webhook delivery between its two commits |
| `keeper`, `removal` | local variables of `cleanup`, of `delete_repo` |
| `site`, `moves` | which features are on, the list limit, the bound; bounded steps taken |

| Actions | In the code |
|---|---|
| `HubMoves`, `SetRepo`, `DaysPass` | GitHub, people, time |
| `PollBegin`, `PollList`, `PollFinish`, `SyncCommits`, `PollFails` | `poll_once` and `sync_repo`: a poll is one transaction; a sync commits with every job it enqueues |
| `HookUpsert`, `HookEnqueue`, `HookLost` | `github_webhook` |
| `Work` | what a worker lane makes of a job, in one step |
| `KeeperSelect`, `KeeperDelete`, `KeeperUnlink`, `KeeperCrash`, `DiagnosticSweep` | `retention.py` |
| `RemoveCheck`, `RemoveRepo` | `delete_repo` |

Titles and authors are left out, so `updated_at` moves with head, state and draft
only.  GitHub's list is current when it answers, and may be any part of the open
pull requests once they exceed the limit.

### WikiQueue

| Variable | In the code |
|---|---|
| `page` | `wiki_page`: status, attempts, owner, lock, backoff, age, the page on display and who made it |
| `lane` | local variables of the wiki branch of a worker lane |
| `proc`, `live` | as in `ReviewQueue` |
| `moves` | requests so far |

Actions are the statements of `wiki_repo.py` (`RefreshWiki`, `ListPages`, `Claim`,
`Save`, `ScheduleRetry`, `MarkFailed`, `RecoverExpired`), the generation in between,
time and the life of the processes.  `Generate` asks the enabled vendors in order;
a page is kept only if `WikiEvidence` accepts it: `Validated` drops the citations
that do not resolve against the snapshot or the columns of the catalog, `Accepted`
refuses a page with a fact that has none left.  The live schema may or may not
answer (`Catalogs`).

`LeasedTask` is the abstract specification of a table of leased work: tasks are
idle, waiting or held; only the holder ends one, replaces it or gives it back; it
leaves or publishes only a result of `Good`; only a holder without a lease loses a
task; nobody asks for one that is held.  Two modules implement it
(`ImplementsLeasedTask`).  In `ReviewQueue` a task is a job and its result the latest
completed run with the process that made it: a run is completed, `Publish`, before
its job leaves the table, and only under the lease.  The mapping does not say which
actor takes a step, so a late lane that settles a row its process owns no more is
what `LiveOwnerExclusive` is about; what a retry adds to a completed run is
`ReviewExecution`'s.  In `WikiQueue` the result comes with the
`Leave`, and `Good` are the pages whose every fact is `Grounded`: a definition that
says what a reader may rely on (a line with text, a declared name, a file, a column)
and not how the code looks for it.

## Runs

### ReviewQueue

`MCReviewQueue` instantiates the module; every `.cfg` names its bounds.
`MaxMoves` bounds what changes the environment (a report that changes something,
a closing, a setting, a command), `MaxRuns` the review runs, `MaxAttempts` is the
program's own constant.  Crashes, lost leases, timeouts, failures and shutdowns
are not bounded.

| Run | Instance | What it shows |
|---|---|---|
| `processes` | two processes, one lane each, two heads, one move, one attempt, two runs | `LiveOwnerExclusive`, `DoneJobHasFinishedRun`, `ReviewedHeadHasRun`, `DoneRunFinal`, `PersistFenced`, `ImplementsLeasedTask`, `TypeOK`: two processes lose leases, recover each other's job and run it again with a late owner still at work, while the head may move anywhere in the pipeline |
| `lanes` | one process, two lanes, two heads, settings and closings, three moves | `NoOrphanedWork`, `UserCancelSticks`; `EligibleHeadSettles` under fairness |
| `recovery` | a process that may die and one that stays | `ExpiredWorkRecovered`, `EligibleHeadSettles` under fairness |
| `vendor_off` | one process, vendors switched | violated: `EligibleHeadSettles` |

The bounds are enough for what the runs are about: a job lost and regained needs
two processes, and its second execution a second run; a head that moves under a
review takes one move, and a head that moves away and back (`lanes`)
two; a setting that is switched off and on again takes two moves, and a third
leaves room for a command.  A second attempt is taken in `recovery`; a recovered
job comes back without one.  `processes` does not check deadlock: there all
processes may be dead and all moves spent.  Its two processes are interchangeable
and it checks no liveness, so it uses symmetry.

`Fairness` assumes only what the code's scheduling gives: asyncio runs a lane that
can go on, and `JOB_TIMEOUT_SEC` ends a pipeline that hangs (`LaneStep`,
`CancelLane`); an idle lane polls the queue (`Claim`); the heartbeat loop ticks
while its process is up (`Heartbeat`, `LeaseLost`), and a stopped process deletes
its lease (`Release`); the lease of a dead process runs out (`LeaseExpires` once
`proc` is gone); a backoff ends; the poll keeps reporting the head of every open
pull request (`Sync`); and some process of `Durable` is started.  Leases of
running processes need not expire and people need not do anything.
`EligibleHeadSettles` is about a pull request that stays open at one head with
settings that allow its review, while `MaxRuns` is not used up: without that
condition the bound, not the code, would stop the review.

### PostOperation

`MCPostOperation` instantiates the module.  `MaxMoves` bounds decisions, pushes,
deletions, lost answers, errors and crashes together; `MaxOps` and `MaxReviews`
bound rows and reviews.  A run that uses one of them up stops there, so deadlock
is not checked.

| Run | Instance | What it shows |
|---|---|---|
| `post_processes` | two processes, two findings of one vendor, five moves | `ReservationsAgree`, `CreatedOnce`, `RecordedOnce`, `TypeOK`: an operation that two requests meet in every state, with lost answers and deletions |
| `post_repost` | one process, two findings with two texts, a policy without fallback, six moves | `PostedStaysShown`, with aborted operations |
| `post_retries` | two runs, three findings of two vendors, one head, four moves | `RetryCompletes` under fairness |
| `post_edited_late`, `post_unadopted` | one process, two findings | violated, see below |

Six moves approve two findings, post one, change it, approve again and lose an
answer on the way; a third operation and a third review are only reached by
changing a text twice.  `post_retries` has as many operations and reviews as its
moves can ever ask for, so neither bound gets in the way of progress.  Its
fairness is that somebody keeps pressing the button (`BuildComments`), that a
request goes on (`PostStep`), and that time passes (`LockAges`); errors need not
stop by themselves but are bounded by `MaxMoves`.  The property asks nothing of
an operation whose content is not what the run would post now, or while the run
has a comment of another vendor to post: the loop over the vendors ends at the
first refusal, so a vendor that is refused for good holds back those after it.

### ReviewExecution

One run, `execution`, over a set of sites that differ in what may happen, so that
each stays small: two vendors and two chunks that fail and are retried; neighbouring
findings of two vendors; one attested vendor with enforced policies; a debate with
two vendors and with one, and with a vendor switched off or on meanwhile; a repository where vendors, merge, policies, compared
inputs and the head change between review and retry, and contexts are collected,
withheld and cleaned up; a prescreen that grades, talks nonsense or fails; and every
diff of one or two small blocks with up to three lines in the first, and diffs with
files whose headers cannot be read, which the chunker must partition.

| Properties | What they say |
|---|---|
| `ChunkFindingsOnce` | a chunk is answered at most once per vendor, through crashes, recoveries and retries |
| `OpenChunksRetryable` | no chunk that failed passes as reviewed |
| `OneEligiblePerDuplicate`, `EligibleStays` | of a repeated claim the stored one, and only one, may be posted |
| `ConsensusAgrees`, `SummaryMatches` | what is derived fits the findings it is derived from |
| `ChunksPartition`, `CleanAnswers` | the pure functions: no line of a file whose header can be read is lost or owned twice, no failed process taken for an empty review; checked in the initial states over every diff and every end of a process |
| `ConfirmedIndependent` | a confirmed or contested finding has a second vendor behind it, also when a vendor is switched off or on between the two reads of the repository row |
| `ContextsWithheld`, `SkippedOnGrade` | see the comments at the definitions |

Two processes suffice for a late owner and its successor; `MaxAttempts` is three (64
in the code), so that the limit is met; three findings make a duplicate and one
beside it.  `Budget`, `SourceLimit` and `TotalLimit` are small for the same reason.
The processes are interchangeable and nothing temporal needs fairness, so it uses
symmetry.  No deadlock is checked: when the runs of a site are used up, nothing
is left to do.

### PrTracking

One run, `tracking`, over four sites: a list with room for one of two pull requests;
retention; manual syncs beside the loop; removal of the repository.  Two moves
suffice for a push and a failure, or a close and a lost delivery; three for a
removal that meets a delivery.  `Fairness`: the loop polls on, a delivery that is
being handled and a job are worked off, the retention loop and time go on; failures
are moves, so they end.  `NeverClosedIsOpen` and `DeletesOnlyIdle` need none of it.
`Converges` and `WantedHeadQueued` ask nothing while more pull requests are open
than the list holds: nothing is then closed by a poll, and the code accepts that.

### WikiQueue

One run, `wiki`: one repository, a process that may stop, die or lose its lease and
one that stays, two attempts, three requests, five pages that lose no citation, lose
one, need the live schema, or are refused.  One page suffices for the questions
asked: rows do not interact, and the theorems below hold for any number.
`RequestEnds` is under the fairness that loops run, vendors time out, and a backoff
ends.

### What the violated runs show

- `vendor_off`: the vendors are switched off after the gate and before
  `review_pr` reads the repository again.  The run is canceled, but the function
  returns normally and the job is marked done.  A done job is never revived by
  the poller and `last_reviewed_sha` is not set, so the head is never reviewed
  automatically once the vendors are back.
- `post_edited_late`: between `_comments_to_post` and `prepare` a finding is
  edited.  `prepare` asks for the status only, so the finding is posted with its
  old text and marked posted with the new one.
- `post_unadopted`: after a crash behind `create_review`, approving one more
  finding changes the key.  The old operation is never found, the new one cannot
  reserve, and every POST ends in a conflict; taking the approval back helps.

The models also contain sequences that no run is spent on:

- A lane of a process whose lease expired runs into its timeout and fails the
  running runs of its *job row* (`worker.py:137`), the one the new owner is
  executing included, although `worker.py:147` says that an old owner overwrites
  nothing.  The new owner's persist barrier completes the run all the same.
- The head moves and moves back around the stale check.
  `cancel_stale_and_enqueue_latest` cancels the job of what is now the current
  head and enqueues nothing.  In an automatic repository the next poll revives
  it; in a manual one the request is lost.
- `patch_finding` takes back a posted finding.  With the same text its operation
  is the succeeded one, which nobody can claim, and every POST of the run is
  refused as already in progress until a text changes.
- A POST of the old run passes the freshness check, a newer run is stored and
  posted, and the old POST then updates the same review with the old text.
- The same with one run and two processes, which no lock orders: one builds a comment
  with finding 1; finding 1 is dismissed, finding 2 approved and posted by the other
  process; finding 1 is approved again.  The first POST is still fresh, reserves finding
  1, takes the new review for the one to edit (`api.py:1775`) and replaces its text:
  finding 2 is marked posted and in no review, although `api.py:1437` says that what was
  posted does not disappear.  TLC finds it when `post_repost` is given two processes.
- With the threshold at `complex` a prescreen CLI that fails counts as `moderate`,
  and the automatic review is skipped and the head marked reviewed, although
  `pipeline.py:524` and `prescreen.py:12` say that a failure must not block it.
  `SkippedOnGrade` is checked with the threshold at `moderate`.
- After a context timeout `pipeline.py:577` says that the late thread's results must
  not be looked at; `pipeline.py:646` renders them into the prompts all the same.
  They pass the check for text that must not be stored (`ContextsWithheld`).
- An exception between the vendor rows and the end of a review leaves those rows
  `running` in a failed run (`ReviewFails`); nothing calls `recover_stale_running`.
- A retry is refused for ever when Codex has no configured model, and for a vendor
  that ran beside another where policies were attested for one alone; a debate after
  a CLI upgrade fails the review when everything is done (`ReviewFails`), also when
  the head has moved and the run would have been canceled (`PersistStale`).
- An added line whose text begins with `++` is taken for a file header, its number
  is not counted, and later lines of its hunk are one off.  `ChunksPartition` has
  no such line.
- A file whose name has a space or an apostrophe, and that git does not quote, has a
  header that does not split into four parts (`diff_filter.py:71`).  It is reviewed,
  even as a lock file, but no prompt owns its added lines, so a finding there has no
  chunk and may not be posted where scope is enforced.  The plan
  `2026-07-22-review-scope-observability-and-dedup.md:298` wants every added line
  owned exactly once.  `ChunksPartition` says it of the files whose header can be read.
- A vendor is switched off after `build_deps` and before `review_pr` reads the row
  again: it still refutes, and a finding of the other is stored as confirmed, although
  it has no row in the run and the attempts of the debate are kept nowhere
  (`gh_deps.py:33` says that a vendor that is off is not asked).  A vendor switched on
  in between reviews, but may not defend what it found.

## Proofs

`ReviewQueueProofs` and `ReviewQueueResults` are checked by TLAPS, for every value of the constants allowed by `QueueAssumption`: `None` is not
a process, job or commit; the bounds are natural numbers and at least one attempt is
allowed; settings are records of three flags.

- `TypeCorrect`: `Spec => []TypeOK`.  `TypeOK` alone is not inductive: a settling
  statement writes to the row of the lane's job, so the invariant also says that a
  lane that is not idle has one (`LaneHasJob`).
- `Exclusive`: `Spec => []LiveOwnerExclusive`.  The invariant is strengthened by
  `OffIsDark` (a process that has not booted has no lease and no lane at work):
  booting is the only step that makes a process live, and must not make an old
  lane live with it.  The argument: a claim takes only queued rows; an enqueue
  never touches a running one; a settling statement writes only a row its process
  still owns, and its lane rests in the same step; recovery touches only rows of
  expired owners.  `ExclusionKept` states what all other steps have in common.
- `Fenced`: `Spec => PersistFenced`.  `BodyOwnsRun` (a lane in the pipeline works
  for a run it created itself, for its own job) is added; `OnlyPersistCompletes`
  shows that no other statement can make a run done; exclusivity then says whose
  row the job is at that moment.

- `DoneJobs`, `ReviewedHeads`, `CompletedRuns`: `Spec => []DoneJobHasFinishedRun`,
  `Spec => []ReviewedHeadHasRun`, `Spec => DoneRunFinal`, all from `ResultInv`.  It
  says what a lane knows of its run (`LaneKnows`: while it may still write, the run
  exists, is of its own job and not finished; before `mark_done`, it is finished),
  that no two lanes may write the same run (`WritersApart`), that a retry names a
  run of its own job (`RetriesKnow`) and that runs not created have no row
  (`RunsFresh`).  Every step moves the runs by `RunsMove`, by which finished runs stay
  finished and done ones done: `FinishRunMoves` for a lane that gives up, `SweepMoves`
  for the timeout, which look only at runs still running.  `LaneStays` and `JobStays`
  state what most steps do to lanes and jobs.
- `WorkIsHeld`: `Spec => []NoOrphanedWork`.  `WorkInv` adds that exactly the running
  rows have an owner, a process that booted (`OwnersRun`).  A step either leaves a row
  not running and without owner, or leaves it to lanes that go on with it (`JobWorks`,
  `LaneWorksOn`, `WorkKept`).  A lane rests by settling the row its process owns
  (`SettleWorks`), or when its process has lost the lease or is going down.
- `CancelsStick`: `Spec => UserCancelSticks`, from the same invariant: a canceled row
  has no owner, so no lane settles it and no recovery collects it.
- `QueueImplementsLeasedTask`: `Spec => ImplementsLeasedTask`, from the invariants of
  `Fenced`, `ResultInv` and `WorkInv`.  One lemma per operation maps it to a step of
  the table: requests, syncs and the enqueue of another head to `Ask`
  (`EnqueueRefines`, `SyncRefines`), a cancel to `GiveUp` (`CancelRefines`), a claim to
  `Take` (`ClaimRefines`), the settling statements to `Leave` (`MarkRefines`), a stale
  head to `Replace`, `Leave` or `Ask` (`StaleRefines`), boots and heartbeats to `Join`
  and `Recover` (`ProcessRefines`), the commit of a review to `Publish`
  (`PublishRefines`).  What is on display stays in all other steps: they complete no
  run (`RunsMove`), and the latest of a set that does not change is the same
  (`ReviewsStay`, `LatestStays`, `LatestIsNew`).

`PostOperationProofs` does the same for the outbox under `PostAssumption`: every
finding has a run and a vendor, the reported text is a text, the bounds are
natural numbers and there is a first run.

- `TypeCorrect`: `Spec => []TypeOK`.  What is added says which local variables a
  poster has at which place (`PosterOK`), that rows not handed out are not open,
  and that an applied operation knows its review.  `MaxInSet` shows that the
  newest of a non-empty set of rows exists.
- `Agreement`: `Spec => []ReservationsAgree`.  It is inductive together with the
  types.  An operation may go on (`OpGoesOn`) or end (`OpEnds`); it ends by
  releasing exactly the findings whose rows name it, and by agreement those are
  exactly its list, which is what `finalize` walks and `abort_unapplied` does not.

Two more build on these:

- `CommentCreatedOnce`, `CommentRecordedOnce`: `Spec => []CreatedOnce` and
  `Spec => []RecordedOnce`, from the invariant `OnceInv`.  It adds what a request
  knows (`PosterOnce`): a request that talks to GitHub owns the operation of its
  comment and its lock is fresh, and one about to update or create found no review
  with its marker; and what rows and reviews have in common (`RowsOnce`): one
  operation per comment (`OneIdentity`), and a review keeps the marker it was created
  with until that operation has succeeded (`BornMarked`).  So whoever is about to
  create knows that no shown review was created for its comment: one that was would
  carry the marker, or its operation would have succeeded and not be in hand.  The
  other requests are no danger, since two that talk to GitHub write different comments
  (`KeysDiffer`, `NotMarked`); only a recorded review is written over (`PrevDone`); and
  a request finalizes only an operation not recorded yet, by `Agreement`, because the
  findings it lists are still reserved.

`PostedShown` is `Spec => []PostedStaysShown` where `Proc` has one element and
`LastRun = 1`: every finding marked posted is in some review.  Both hypotheses are what
the code needs.  A lock lets a process post a run once at a time, but nothing orders
the POSTs of two processes or of two runs (see the sequences above).  For the only
request there is (`Alone`), the invariant `ShownInv` says three things:

- Of the rows (`RowsShow`): an operation lists its new findings and only findings of
  its vendor, and once applied the review says what it lists (`OpShows`); a vendor has
  one open operation at most (`VendorsApart`); a review keeps to one vendor, which its
  `posted_comment` rows share (`ReviewsSay`, `CommentsSay`); and all that is posted is
  in a review (`AllShown`).
- Of the request (`Carries`): its copy of the findings has every finding that is
  posted, new or reserved.  That is why the copy may be old: only this request posts.
- Of its place (`WorksOn`): the operation, the row to replace and the review it goes by
  are of the comment and the vendor it is at.

`ReviewWritten` is the step it turns on.  Writing over a review of the vendor loses
nothing, since what was posted of the vendor is in the comment; and no operation that is
still to be finalized found its text in that review, since the vendor has no other open
one.  The other steps post and write no review, and `RowsStay` covers their rows.

`WikiQueueProofs` proves under `WikiAssumption` (the snapshot's lines and the cited
line numbers have their types):

- `WikiTypes`, `WikiHolderKeepsPage`: the invariant `WikiInv` adds that a page is
  claimed exactly while it has an owner (`ClaimsAgree`), that a lane at work belongs
  to a process that runs (`LanesWork`; so a boot, the only step that makes a process
  live, makes no old claim live with it), and that a lane about to save holds a good
  page (`SavesGood`).
- `AcceptedGood`: what `Validated` keeps of an accepted page is `Grounded`.  This is
  about every snapshot, catalog and page, where the run has five.
- `WikiImplementsLeasedTask`: `Spec => Leased!Spec`.  One lemma per operation maps
  it to a step of the table (`RefreshRefines` to `Ask`, `ClaimRefines` to `Take`,
  `SaveRefines`, `RetryRefines` and `FailedRefines` to `Leave`, `RecoverRefines` to
  `Recover`); what writes neither pages nor leases is not seen (`Unseen`).

`PrTrackingProofs` proves under `TrackingAssumption` (finitely many pull requests, a
list that holds at least one):

- `TrackingTypes`: `Spec => []TypeOK`, which is inductive by itself.
- `TrackingNeverClosedIsOpen`: `Spec => []NeverClosedIsOpen`.  Two things are added:
  nothing the program holds is about a pull request that was not opened yet
  (`HeardOpened`), so an opening meets no row; and what a poll is about to
  reconcile away was closed at some time (`MissingIsClosed`).  The latter is true
  when GitHub answers, because a list shorter than the limit is the whole of it
  (`AnswerMisses`, by counting: `ListedAsMany`), and stays true because a reopened pull
  request counts as one that was closed (`HubStep`).  `RowStep`, `PollStep` and
  `MailStep` state what all other steps have in common, `QuietKeeps` that they suffice.
- `TrackingDeletesOnlyIdle`: `Spec => DeletesOnlyIdle`.  `OnlyKeeperForgets` goes
  through the other actions; the transaction asks `StillExpired` of every candidate.

`DiffChunksProofs` proves about every diff what the run sees on small ones:

- `ChunksCover`: a diff as git prints it (`WellFormed`: one block per file, hunks that
  follow each other) is cut into chunks of at most `Budget` characters; every added
  line of a file whose header can be read is in exactly one of them, and lines of other
  files in none.  Line numbering, splitting and packing are loops, in the model folds.  What holds after any number of steps is shown by looking at the
  first step after which it does not (`Least`, `Climb`); `FoldExists`, `FoldRuns` and
  `FlattenPlaces` show once that a fold of the library, and a flattened sequence, are
  such steps.  The invariants of the three loops are `UnitsTo`, `CutTo` and `PackTo`.

`ReviewExecutionProofs` and `ReviewExecutionResults` prove the invariants of the run
`execution` for every set of sites, processes and places.  `SiteAssumption` says that
diffs are as git prints them, and settings and blocks of context have their types,
`ExecutionAssumption`, `PolicyAssumption` and `ContextAssumption` that the bounds are
natural numbers and there is at least one attempt.  The invariant grows in layers, each inductive together with those before it:

- `Base`: types of everything but findings.  The chunks are those of the site's diff.
- `Owning`: a lane at work in a process with a lease owns the job, and a lane that owns
  the job works on it as the job says, automatic, manual or a retry.  `SkipsGraded`
  needs no more; its hypothesis `LowThresholds` (no site sets the threshold above the
  default grade) is what the code needs too, see the sequences above.
- `Control`: the lanes in a review of the newest run are one at most (`RunsApart`); until
  it persists there are no findings and no attempts (`WorkOK`), so nothing a late lane
  holds can meet what it does not expect; a finished run has its policy (`StoredOK`).
- `History`: the attempts of a vendor ask for what the one before left open (`Tried`), the
  chunks a lane asks for are the open ones of its vendor (`AskHistory`), and the status
  of a row is that of its attempts.  Late owners matter here: two retries of one run may
  work at once, and the second to write would repeat the first one's chunks.  It cannot
  write: by `Owning` only one of them can be in a process with a lease, because the job is
  given away only from an owner without one, and a lease that is gone does not come back.
- `Findings`: every stored finding, and every one a lane holds, is of a chunk that was
  answered, and no two of a vendor are of the same.  `Drawn` says that scope, duplicates,
  tags and debate only mark and reorder: what comes out is what went in, each once.
- `Marked`: the marks of the findings.  What is stored is `Deduped` under the policy bound
  to the run and, in a run that merges, `Agreeing`; verdicts are `Sided` by the vendors a debate of that lane could ask.  A lane
  holds for its findings what its place says (`FoundMarks`).  The policy must be the one
  that was bound, not what the settings say by now, and `GroupRetried` must find the
  stored finding first (`RetriedKeeps`), else a repeat would become eligible again.
- `Tallies`: the counters count the findings.  `TallyMore` and `TallyOther` are one fired
  trigger each; `InsertedTallies` and `UpdatedTallies` follow a statement over its rows.

- `Contexts`: what a lane tells its vendors fits the budget (`ToldOK`; before it gathers,
  it tells nothing), and what a run stores may be kept (`KeptOK`).  Only `StoreContexts`
  writes either (`ToldStaying`, `KeptStaying`).  That the choice fits (`SelectedWithin`)
  is an invariant of its fold, over blocks put in order by insertion, as a stable sort
  leaves them; sizes add up (`SizeMore`), and the share of a prompt times the number of
  prompts is at most the limit (`DividedUp`, `BudgetKept`).

From these follow `TypeCorrect`, `ChunksOnce`, `OpenRetryable`, `PartitionStays` (with
`ChunksCover`), `SkipsGraded`; `OneEligible`, `EligibleKept`, `ConsensusTold`,
`ConfirmedByOthers`, `SummaryTold`, `ContextsKept`.  `AnswersClean` is about the functions of
`VendorOutput` alone.  `CalmStep`, `QuietStep`, `HistorySteady` and `ControlMild` state
what the steps have in common that leave a layer alone.

Only model-checked:

- Liveness: `EligibleHeadSettles`, `ExpiredWorkRecovered`, `RetryCompletes`, `Converges`,
  `WantedHeadQueued`, `OrphansGo`, `RequestEnds`.  It is out of the prover's reach.

## Not modelled

- Slack feedback: rows written after a call to Slack and read by nobody else.
- Runner pool and worktrees: one semaphore, child processes, git and files.  Their
  outcomes (answer, failure, timeout, cut stream; a checkout that fails) are choices
  in `VendorOutput` and `ReviewExecution`.
- SQL gateway, JSON and SQL parsing, prompts, HTTP guards, pagination: text and
  stateless checks.
- Health and operations reports, the dashboard, the benchmark scripts: they read, or
  reach the system through the commands modelled here.
- Storage errors inside a settling statement, the ownerless legacy mode, inline
  comments, truncation of long comments.
