----------------------------- MODULE PrTracking -----------------------------
(***************************************************************************)
(* How the pull requests of one registered repository are tracked: the     *)
(* poll loop and manual syncs, which ask GitHub for the open list and      *)
(* apply the answer later; webhook deliveries, which are handled in two    *)
(* commits and may be late, repeated or lost; the two retention loops,     *)
(* which delete what has been closed for long; and the removal of the      *)
(* repository.  Executing a job is ReviewQueue; here a job is only         *)
(* waiting, answered or canceled by the system.                            *)
(***************************************************************************)
EXTENDS Integers, FiniteSets

CONSTANTS
  Pr,            \* pull request numbers of the repository on GitHub
  Sha,           \* commits a head may point at
  None,          \* SQL NULL
  Syncs,         \* concurrent manual sync requests
  SkipDraft,     \* skip_draft_on
  Sites          \* deployments to check, see site

ASSUME TrackingAssumption ==
  /\ None \notin Sha
  /\ IsFiniteSet(Pr)
  /\ Sites \subseteq [prs : SUBSET Pr, limit : Nat \ {0}, moves : Nat,
                       retention : BOOLEAN, syncs : BOOLEAN, removable : BOOLEAN]
  /\ SkipDraft \in BOOLEAN

Loop   == "loop"              \* the one background poller
Poller == {Loop} \cup Syncs
Job    == Pr \X Sha           \* review_job, UNIQUE(pr_id, head_sha)

VARIABLES
  hub,      \* the pull requests as GitHub has them
  row,      \* pull_request
  job,      \* review_job
  raw,      \* legacy raw transcripts: the file, and vendor_result.raw_path
  repo,     \* the repo row
  poll,     \* local variables of the poll loop and of every sync request
  mail,     \* webhook deliveries GitHub may still make
  hook,     \* the delivery being handled
  keeper,   \* local variables of cleanup_loop
  removal,  \* whether a delete_repo request has found no active work
  site,     \* the pull requests there are, POLL_OPEN_PR_LIMIT, a bound on the
            \* events on GitHub, settings, requests and failures, whether the retention
            \* loops are on, whether people sync and may delete the repository
  moves     \* how many bounded environment steps have been taken

vars == <<hub, row, job, raw, repo, poll, mail, hook, keeper, removal, site,
          moves>>
tables == <<row, job, raw, repo>>
actors == <<poll, hook, keeper, removal>>

---------------------------------------------------------------------------
(* Types and initial state                                                *)

\* What the list and a delivery say of an open pull request.
Info == [pr : Pr, head : Sha, draft : BOOLEAN]

\* never: not opened yet; open: open and never closed; again: reopened
HubRow == [state : {"never", "open", "closed", "again"}, head : Sha,
           draft : BOOLEAN]

\* stale: updated_at is older than the retention cutoff.
PrRow == [known : BOOLEAN, state : {"open", "closed"}, head : Sha \cup {None},
          draft : BOOLEAN, reviewed : Sha \cup {None}, stale : BOOLEAN]

NoRow == [known |-> FALSE, state |-> "closed", head |-> None, draft |-> FALSE,
          reviewed |-> None, stale |-> FALSE]

JobStatus == {"none", "active", "answered", "canceled"}
RawRow    == [file : BOOLEAN, path : BOOLEAN, old : BOOLEAN]
RepoRow   == [registered : BOOLEAN, enabled : BOOLEAN, auto : BOOLEAN]

PollRow ==
  [pc : {"idle", "asked", "apply"}, auto : BOOLEAN, prev : SUBSET Pr,
   listed : SUBSET Info, todo : SUBSET Info]
IdlePoll == [pc |-> "idle", auto |-> FALSE, prev |-> {}, listed |-> {},
             todo |-> {}]

KeeperRow == [pc : {"idle", "chosen", "unlink"}, prs : SUBSET Pr]

TypeOK ==
  /\ hub \in [Pr -> HubRow]
  /\ row \in [Pr -> PrRow]
  /\ job \in [Job -> JobStatus]
  /\ raw \in [Pr -> RawRow]
  /\ repo \in RepoRow
  /\ poll \in [Poller -> PollRow]
  /\ mail \subseteq Info
  /\ hook \in Info \cup {None}
  /\ keeper \in KeeperRow
  /\ removal \in BOOLEAN
  /\ site \in Sites
  /\ moves \in 0..site.moves

\* Some pull requests are tracked already: reviewed long ago, by a version
\* that still kept a raw transcript.
Init ==
  /\ site \in Sites
  /\ \E known \in SUBSET site.prs, s \in Sha :
       /\ hub = [p \in Pr |-> [state |-> IF p \in known THEN "open" ELSE "never",
                               head |-> s, draft |-> FALSE]]
       /\ row = [p \in Pr |->
                   IF p \in known
                   THEN [NoRow EXCEPT !.known = TRUE, !.state = "open",
                                      !.head = s, !.reviewed = s]
                   ELSE NoRow]
       /\ job = [j \in Job |-> IF j[1] \in known /\ j[2] = s
                               THEN "answered" ELSE "none"]
       /\ raw = [p \in Pr |-> [file |-> p \in known, path |-> p \in known,
                               old |-> FALSE]]
  /\ repo = [registered |-> TRUE, enabled |-> TRUE, auto |-> TRUE]
  /\ poll = [q \in Poller |-> IdlePoll]
  /\ mail = {}
  /\ hook = None
  /\ keeper = [pc |-> "idle", prs |-> {}]
  /\ removal = FALSE
  /\ moves = 0

---------------------------------------------------------------------------
(* GitHub, the operator and the passing of time                           *)

Move == moves < site.moves /\ moves' = moves + 1

HubOpen == {p \in Pr : hub[p].state \in {"open", "again"}}
InfoOf(p, h) == [pr |-> p, head |-> h[p].head, draft |-> h[p].draft]

\* opened, reopened, synchronize, ready_for_review: GitHub sends a delivery.
HubTells(p, change) ==
  /\ Move
  /\ hub' = [hub EXCEPT ![p] = change]
  /\ mail' = mail \cup {InfoOf(p, hub')}

HubMoves(p) ==
  /\ p \in site.prs
  /\ \/ \E d \in BOOLEAN :
          /\ hub[p].state = "never"
          /\ HubTells(p, [hub[p] EXCEPT !.state = "open", !.draft = d])
     \/ /\ hub[p].state = "closed"
        /\ HubTells(p, [hub[p] EXCEPT !.state = "again"])
     \/ \E s \in Sha \ {hub[p].head} :
          /\ p \in HubOpen
          /\ HubTells(p, [hub[p] EXCEPT !.head = s])
     \/ /\ p \in HubOpen /\ hub[p].draft
        /\ HubTells(p, [hub[p] EXCEPT !.draft = FALSE])
     \/ /\ p \in HubOpen                       \* closed or merged
        /\ Move
        /\ hub' = [hub EXCEPT ![p].state = "closed"]
        /\ UNCHANGED mail
  /\ UNCHANGED <<tables, actors, site>>

SetRepo(enabled, auto) ==
  /\ Move
  /\ repo.registered
  /\ repo' = [repo EXCEPT !.enabled = enabled, !.auto = auto]
  /\ repo' # repo
  /\ UNCHANGED <<hub, row, job, raw, actors, mail, site>>

\* A retention period goes by in which nothing else happens.
DaysPass ==
  /\ site.retention
  /\ row' = [p \in Pr |-> [row[p] EXCEPT !.stale = row[p].known]]
  /\ raw' = [p \in Pr |-> [raw[p] EXCEPT !.old = raw[p].file]]
  /\ UNCHANGED <<hub, job, repo, actors, mail, site, moves>>

---------------------------------------------------------------------------
(* Rows                                                                   *)

\* Mutant: the draft flag is lost.
UpsertedNoDraft(r, i) ==
  [r EXCEPT !.known = TRUE, !.state = "open", !.head = i.head, !.draft = None]

\* INSERT ... ON CONFLICT DO UPDATE; updated_at moves only with a change.
Upserted(r, i) ==
  LET new == [known |-> TRUE, state |-> "open", head |-> i.head,
              draft |-> i.draft, reviewed |-> r.reviewed, stale |-> FALSE]
  IN  IF r = [new EXCEPT !.stale = r.stale] THEN r ELSE new

\* The row table after the reports of set I were applied.
Applied(I) ==
  [p \in Pr |-> IF \E i \in I : i.pr = p
                THEN Upserted(row[p], CHOOSE i \in I : i.pr = p)
                ELSE row[p]]

NeedsReview(r) == r.known /\ r.head # r.reviewed

Due(auto, i, r) == auto /\ ~(SkipDraft /\ i.draft) /\ NeedsReview(r)

\* Mutant: only new rows.
NoRevival(jobs, J) ==
  [j \in Job |-> IF j \in J /\ jobs[j] = "none" THEN "active" ELSE jobs[j]]

\* INSERT ... DO NOTHING; a row the system canceled is queued again.
AutoEnqueue(jobs, J) ==
  [j \in Job |-> IF j \in J /\ jobs[j] \in {"none", "canceled"} THEN "active"
                 ELSE jobs[j]]

MarkClosed(rows, prs) ==
  [p \in Pr |-> IF p \in prs /\ rows[p].known /\ rows[p].state = "open"
                THEN [rows[p] EXCEPT !.state = "closed"] ELSE rows[p]]

---------------------------------------------------------------------------
(* Polls and syncs                                                        *)

KnownOpen == {p \in Pr : row[p].known /\ row[p].state = "open"}

\* list_enabled or the endpoint's read, then settings and prev_open.
PollBegin(q) ==
  /\ poll[q].pc = "idle"
  /\ repo.registered /\ repo.enabled
  /\ IF q = Loop THEN UNCHANGED moves ELSE site.syncs /\ Move
  /\ poll' = [poll EXCEPT ![q] = [IdlePoll EXCEPT !.pc = "asked",
                                    !.auto = repo.auto, !.prev = KnownOpen]]
  /\ UNCHANGED <<hub, tables, mail, hook, keeper, removal, site>>

\* gh pr list --limit: the open pull requests, cut off at the limit.
ListAnswers ==
  {L \in SUBSET HubOpen :
     \/ L = HubOpen /\ Cardinality(L) <= site.limit
     \/ Cardinality(L) = site.limit}

PollList(q) ==
  /\ poll[q].pc = "asked"
  /\ \E L \in ListAnswers :
       LET infos == {InfoOf(p, hub) : p \in L} IN
       poll' = [poll EXCEPT ![q].pc = "apply", ![q].listed = infos,
                            ![q].todo = infos]
  /\ UNCHANGED <<hub, tables, mail, hook, keeper, removal, site, moves>>

\* Mutants: what the table has open by now; reconciliation forgotten.
MissingNow(q)     == KnownOpen \ {i.pr : i \in poll[q].listed}
NothingMissing(q) == {}

\* prev_open - set(open_numbers), unless the list may have been cut off.
Missing(q) ==
  IF Cardinality(poll[q].listed) < site.limit
  THEN poll[q].prev \ {i.pr : i \in poll[q].listed}
  ELSE {}

DueIn(q, I, rows) == {i \in I : Due(poll[q].auto, i, rows[i.pr])}
JobsOf(I) == {<<i.pr, i.head>> : i \in I}

\* The rest of the list, the reconciliation and last_polled_at: one commit.
PollFinish(q) ==
  LET rows == Applied(poll[q].todo) IN
  /\ poll[q].pc = "apply"
  /\ repo.registered                 \* else the foreign key fails: PollFails
  /\ q # Loop => DueIn(q, poll[q].todo, rows) = {}
  /\ row' = MarkClosed(rows, Missing(q))
  /\ job' = AutoEnqueue(job, JobsOf(DueIn(q, poll[q].todo, rows)))
  /\ poll' = [poll EXCEPT ![q] = IdlePoll]
  /\ UNCHANGED <<hub, raw, repo, mail, hook, keeper, removal, site, moves>>

\* A sync enqueues with commit=True: everything up to the first pull request
\* that is due is committed with its job, and the list goes on after it.
SyncCommits(q) ==
  /\ q # Loop
  /\ poll[q].pc = "apply"
  /\ repo.registered
  /\ \E i \in poll[q].todo, S \in SUBSET poll[q].todo :
       /\ i \in S
       /\ DueIn(q, S, Applied(S)) = {i}
       /\ row' = Applied(S)
       /\ job' = AutoEnqueue(job, JobsOf({i}))
       /\ poll' = [poll EXCEPT ![q].todo = @ \ S]
  /\ UNCHANGED <<hub, raw, repo, mail, hook, keeper, removal, site, moves>>

\* GitHub or the database fails, or the repository is gone: what is not
\* committed is rolled back and last_poll_error is written.
PollFails(q) ==
  /\ poll[q].pc # "idle"
  /\ IF repo.registered THEN Move ELSE UNCHANGED moves
  /\ poll' = [poll EXCEPT ![q] = IdlePoll]
  /\ UNCHANGED <<hub, tables, mail, hook, keeper, removal, site>>

---------------------------------------------------------------------------
(* Webhook                                                                *)

\* The first commit of a delivery: a repository that is disabled or manual
\* ignores it.  A delivery may be repeated.
HookUpsert(m, again) ==
  /\ hook = None
  /\ m \in mail
  /\ \/ again /\ Move /\ UNCHANGED mail
     \/ ~again /\ mail' = mail \ {m} /\ UNCHANGED moves
  /\ IF repo.registered /\ repo.enabled /\ repo.auto
     THEN hook' = m /\ row' = Applied({m})
     ELSE UNCHANGED <<hook, row>>
  /\ UNCHANGED <<hub, job, raw, repo, poll, keeper, removal, site>>

\* The second commit, from the row as it is by now.
HookEnqueue ==
  /\ hook # None
  /\ job' = IF Due(TRUE, hook, row[hook.pr])
            THEN AutoEnqueue(job, JobsOf({hook})) ELSE job
  /\ hook' = None
  /\ UNCHANGED <<hub, row, raw, repo, poll, mail, keeper, removal, site, moves>>

\* A delivery is lost, or its request dies between the commits.
HookLost ==
  /\ \/ hook # None /\ hook' = None /\ UNCHANGED mail
     \/ \E m \in mail : mail' = mail \ {m} /\ UNCHANGED hook
  /\ UNCHANGED <<hub, tables, poll, keeper, removal, site, moves>>

---------------------------------------------------------------------------
(* The worker, seen from here                                             *)

\* A lane's gate drops a job of a closed pull request or a disabled
\* repository, replaces one of an old head, and else reviews or gives up.
Work(j) ==
  LET r == row[j[1]] IN
  /\ job[j] = "active"
  /\ \/ /\ r.state # "open" \/ (r.head = j[2] /\ ~repo.enabled)
        /\ job' = [job EXCEPT ![j] = "canceled"]
        /\ UNCHANGED row
     \/ /\ r.state = "open" /\ r.head # j[2]
        /\ job' = AutoEnqueue([job EXCEPT ![j] = "canceled"], {<<j[1], r.head>>})
        /\ UNCHANGED row
     \/ /\ r.state = "open" /\ r.head = j[2] /\ repo.enabled
        /\ job' = [job EXCEPT ![j] = "answered"]
        /\ \/ row' = [row EXCEPT ![j[1]].reviewed = j[2]]
           \/ UNCHANGED row                   \* failed for good
  /\ UNCHANGED <<hub, raw, repo, actors, mail, site, moves>>

---------------------------------------------------------------------------
(* Retention and removal                                                  *)

Idle(p) == \A s \in Sha : job[<<p, s>>] # "active"

Expired(p) == row[p].known /\ row[p].state # "open" /\ row[p].stale /\ Idle(p)

\* The candidate query, before the transaction.
KeeperSelect ==
  /\ site.retention
  /\ keeper.pc = "idle"
  /\ keeper' = [pc |-> "chosen", prs |-> {p \in Pr : Expired(p)}]
  /\ UNCHANGED <<hub, tables, poll, mail, hook, removal, site, moves>>

\* Mutant: the candidates are not looked at again.
StillKnown(p)   == row[p].known
StillExpired(p) == Expired(p)

Forget(prs) ==
  /\ row' = [p \in Pr |-> IF p \in prs THEN NoRow ELSE row[p]]
  /\ job' = [j \in Job |-> IF j[1] \in prs THEN "none" ELSE job[j]]
  /\ raw' = [p \in Pr |-> IF p \in prs THEN [raw[p] EXCEPT !.path = FALSE]
                          ELSE raw[p]]

\* BEGIN IMMEDIATE, every candidate looked at again, children before parents.
KeeperDelete ==
  LET gone == {p \in keeper.prs : StillExpired(p)} IN
  /\ keeper.pc = "chosen"
  /\ Forget(gone)
  /\ keeper' = [pc |-> "unlink", prs |-> {p \in gone : raw[p].path}]
  /\ UNCHANGED <<hub, repo, poll, mail, hook, removal, site, moves>>

Unlinked(prs) ==
  [p \in Pr |-> IF p \in prs THEN [raw[p] EXCEPT !.file = FALSE, !.old = FALSE]
                ELSE raw[p]]

\* Mutant: no sweep after the deletions.
NothingUnreferenced == {}

\* Files no row refers to any more, whoever left them behind.
Unreferenced == {p \in Pr : raw[p].file /\ ~raw[p].path /\ raw[p].old}

\* After the commit: the files of the rows deleted, then the sweep.
KeeperUnlink ==
  /\ keeper.pc = "unlink"
  /\ raw' = Unlinked(keeper.prs \cup Unreferenced)
  /\ keeper' = [pc |-> "idle", prs |-> {}]
  /\ UNCHANGED <<hub, row, job, repo, poll, mail, hook, removal, site, moves>>

KeeperCrash ==
  /\ Move
  /\ keeper.pc # "idle"
  /\ keeper' = [pc |-> "idle", prs |-> {}]
  /\ UNCHANGED <<hub, tables, poll, mail, hook, removal, site>>

\* cleanup_raw_diagnostics: old files go, and then the paths of those and of
\* files already missing; a crash in between leaves the paths for next time.
DiagnosticSweep(crash) ==
  LET late == {p \in Pr : raw[p].path /\ (raw[p].old \/ ~raw[p].file)}
      swept == Unlinked(late \cup Unreferenced)
  IN  /\ site.retention
      /\ late \cup Unreferenced # {}
      /\ raw' = IF crash THEN Unlinked(late)
                ELSE [p \in Pr |-> IF p \in late
                                   THEN [swept[p] EXCEPT !.path = FALSE]
                                   ELSE swept[p]]
      /\ UNCHANGED <<hub, row, job, repo, actors, mail, site, moves>>

\* delete_repo: has_active_work, then remove in a transaction of its own.
RemoveCheck ==
  /\ site.removable
  /\ Move
  /\ repo.registered /\ ~removal
  /\ \A p \in Pr : Idle(p)
  /\ removal' = TRUE
  /\ UNCHANGED <<hub, tables, poll, mail, hook, keeper, site>>

RemoveRepo ==
  /\ removal
  /\ removal' = FALSE
  /\ repo' = [registered |-> FALSE, enabled |-> FALSE, auto |-> FALSE]
  /\ Forget(Pr)
  /\ UNCHANGED <<hub, poll, mail, hook, keeper, site, moves>>

---------------------------------------------------------------------------
(* Specification                                                          *)

Next ==
  \/ \E p \in Pr : HubMoves(p)
  \/ \E e, a \in BOOLEAN : SetRepo(e, a)
  \/ DaysPass
  \/ \E q \in Poller : \/ PollBegin(q) \/ PollList(q) \/ SyncCommits(q)
                       \/ PollFinish(q) \/ PollFails(q)
  \/ \E m \in mail, again \in BOOLEAN : HookUpsert(m, again)
  \/ HookEnqueue \/ HookLost
  \/ \E j \in Job : Work(j)
  \/ KeeperSelect \/ KeeperDelete \/ KeeperUnlink \/ KeeperCrash
  \/ \E c \in BOOLEAN : DiagnosticSweep(c)
  \/ RemoveCheck \/ RemoveRepo

Spec == Init /\ [][Next]_vars

\* The poll loop, the worker, the retention loop and a request that is being
\* served take their next step in the end; failures are bounded by site.moves.
Fairness ==
  /\ WF_vars(PollBegin(Loop) \/ PollList(Loop) \/ PollFinish(Loop))
  /\ WF_vars(HookEnqueue)
  /\ WF_vars(\E j \in Job : Work(j))
  /\ WF_vars(KeeperSelect \/ KeeperDelete \/ KeeperUnlink)
  /\ WF_vars(DaysPass)

FairSpec == Spec /\ Fairness

---------------------------------------------------------------------------
(* Properties                                                             *)

\* A pull request that GitHub never closed is never shown closed: a poll whose
\* list is older than the webhook that inserted the row, or cut off at the
\* limit, does not reconcile it away.
NeverClosedIsOpen ==
  \A p \in Pr : hub[p].state = "open" /\ row[p].known => row[p].state = "open"

\* Retention deletes the history of a pull request only if at that moment it is
\* closed, nothing is queued or running for it and it has not changed lately,
\* whatever a webhook did between the query and the transaction.
DeletesOnlyIdle ==
  [][repo'.registered =>
       \A p \in Pr : row[p].known /\ ~row'[p].known =>
         row[p].state = "closed" /\ row[p].stale /\ Idle(p)]_vars

InSync(p) ==
  IF p \in HubOpen
  THEN row[p].state = "open" /\ row[p].head = hub[p].head
       /\ row[p].draft = hub[p].draft
  ELSE row[p].state = "closed"

\* Whatever was lost, repeated, late or applied from an old list, the rows end
\* up as GitHub has them, while fewer are open than the list can hold.
Converges ==
  \A p \in Pr :
    <>[](repo.enabled /\ Cardinality(HubOpen) < site.limit) => <>[]InSync(p)

Wanted(p, s) ==
  /\ repo.enabled /\ repo.auto
  /\ Cardinality(HubOpen) < site.limit
  /\ p \in HubOpen /\ hub[p].head = s /\ ~(SkipDraft /\ hub[p].draft)

\* A head that stays wanted is reviewed or has a job, also after a request that
\* died between its two commits, or a job the system canceled.
WantedHeadQueued ==
  \A p \in Pr, s \in Sha :
    <>[]Wanted(p, s) =>
      <>[](row[p].reviewed = s \/ job[<<p, s>>] \in {"active", "answered"})

\* Where retention is on, a transcript no row refers to goes in the end, although
\* the loop that took its row away died before it unlinked the file.
OrphansGo ==
  \A p \in Pr :
    (site.retention /\ raw[p].file /\ ~raw[p].path) ~> ~raw[p].file
=============================================================================
