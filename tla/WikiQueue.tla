----------------------------- MODULE WikiQueue -----------------------------
(***************************************************************************)
(* The ground-truth wiki: one wiki_page row per repository, requested by   *)
(* people, claimed by the first worker lane of some server process,        *)
(* generated by the first vendor that answers with checkable evidence, and *)
(* saved, retried or failed under the name of the process that claimed it. *)
(* Every action is one committed statement of server/repos/wiki_repo.py    *)
(* or process_repo.py; a lane writes only after an await.                  *)
(***************************************************************************)
EXTENDS WikiEvidence

CONSTANTS
  Repo,         \* registered repositories
  Proc,         \* process identities; every boot draws a fresh one
  None,         \* SQL NULL
  Durable,      \* processes that neither crash nor shut down
  MaxAttempts,  \* DEFAULT_MAX_ATTEMPTS
  Snapshot,     \* files of a repository, and its CREATE TABLE statements
  Static,
  Live,         \* what the live schema gateway adds, while it answers
  Pages,        \* pages a vendor may write
  MaxMoves      \* bound: requests

ASSUME WikiAssumption ==
  /\ None \notin Proc
  /\ None \notin Repo
  /\ None \notin Pages
  /\ Durable \subseteq Proc
  /\ MaxAttempts \in Nat \ {0}
  /\ MaxMoves \in Nat
  /\ \A path \in DOMAIN Snapshot : Snapshot[path].lines \in Seq(BOOLEAN)
  /\ \A a \in Pages : \A fact \in DOMAIN a : \A cite \in a[fact] :
       cite.kind = "code" /\ cite.anchor.form = "lines" =>
         cite.anchor.from \in Nat /\ cite.anchor.to \in Nat

VARIABLES
  page,   \* wiki_page rows
  lane,   \* the wiki lane of every process
  proc,   \* life cycle of every process
  live,   \* processes whose process_lease row has not expired
  moves   \* how many bounded environment steps have been taken

vars == <<page, lane, proc, live, moves>>

\* content: the page on display; by: the process that generated it.
\* backoff: next_run_at is in the future; old: updated_at is older than
\* GENERATION_STALE_MINUTES.  attempts stops counting at MaxAttempts, the only
\* value it is compared with; the column itself has no bound.
Catalogs == {Static, Static \cup Live}
Kept == {Validated(a, Snapshot, t) : a \in Pages, t \in Catalogs}
Content == Kept \cup {None}

PageRow ==
  [status : {"none", "generating", "ready", "failed"},
   attempts : 0..MaxAttempts, owner : Proc \cup {None}, locked : BOOLEAN,
   backoff : BOOLEAN, old : BOOLEAN, by : Proc \cup {None}, content : Content]

LaneRow == [pc : {"idle", "generate", "save", "error", "fail"},
            repo : Repo \cup {None}, retryable : BOOLEAN, content : Content]

NoPage == [status |-> "none", attempts |-> 0, owner |-> None, locked |-> FALSE,
           backoff |-> FALSE, old |-> FALSE, by |-> None, content |-> None]
IdleLane == [pc |-> "idle", repo |-> None, retryable |-> FALSE, content |-> None]

TypeOK ==
  /\ page \in [Repo -> PageRow]
  /\ lane \in [Proc -> LaneRow]
  /\ proc \in [Proc -> {"off", "up", "stopping", "gone"}]
  /\ live \subseteq Proc
  /\ moves \in 0..MaxMoves

Init ==
  /\ page = [r \in Repo |-> NoPage]
  /\ lane = [p \in Proc |-> IdleLane]
  /\ proc = [p \in Proc |-> "off"]
  /\ live = {}
  /\ moves = 0

---------------------------------------------------------------------------
(* Requests and their age                                                 *)

Generating(r) == page[r].status = "generating"
Waiting(r)    == Generating(r) /\ ~page[r].locked

\* Mutant: a claimed page that looks old is replaced too.
ReplaceableOld(r) == Generating(r) => page[r].old

\* ON CONFLICT ... WHERE: not generating, or unclaimed for too long.
Replaceable(r) == Generating(r) => ~page[r].locked /\ page[r].old

\* Any other request is answered with 409 and changes nothing.
RefreshWiki(r) ==
  /\ moves < MaxMoves
  /\ moves' = moves + 1
  /\ Replaceable(r)
  /\ page' = [page EXCEPT ![r] = [@ EXCEPT
                !.status = "generating", !.attempts = 0, !.backoff = FALSE,
                !.locked = FALSE, !.old = FALSE]]
  /\ UNCHANGED <<lane, proc, live>>

\* Every GET /api/wiki fails the requests nobody claimed for too long.
ListPages ==
  LET stale == {r \in Repo : Waiting(r) /\ page[r].old} IN
  /\ page' = [r \in Repo |-> IF r \in stale
                THEN [page[r] EXCEPT !.status = "failed", !.backoff = FALSE,
                                     !.old = FALSE]
                ELSE page[r]]
  /\ UNCHANGED <<lane, proc, live, moves>>

\* claim_next and recover_expired do not touch updated_at.
Ages(r) ==
  /\ Generating(r)
  /\ page' = [page EXCEPT ![r].old = TRUE]
  /\ UNCHANGED <<lane, proc, live, moves>>

BackoffElapses(r) ==
  /\ page[r].backoff
  /\ page' = [page EXCEPT ![r].backoff = FALSE]
  /\ UNCHANGED <<lane, proc, live, moves>>

---------------------------------------------------------------------------
(* The lane                                                               *)

Counted(n) == IF n < MaxAttempts THEN n + 1 ELSE n

Claim(p, r) ==
  /\ proc[p] = "up"
  /\ lane[p].pc = "idle"
  /\ Waiting(r) /\ ~page[r].backoff
  /\ page' = [page EXCEPT ![r] = [@ EXCEPT
                !.owner = p, !.locked = TRUE, !.attempts = Counted(page[r].attempts)]]
  /\ lane' = [lane EXCEPT ![p] = [IdleLane EXCEPT !.pc = "generate", !.repo = r]]
  /\ UNCHANGED <<proc, live, moves>>

\* The enabled vendors are asked one after the other; None is an answer that fails,
\* or has no page of the right form.  The first page that is accepted wins.
FirstAccepted(answers, tables) ==
  LET good == {v \in DOMAIN answers :
                 answers[v] # None /\ Accepted(answers[v], Snapshot, tables)}
  IN IF "claude" \in good THEN {answers["claude"]} ELSE {answers[v] : v \in good}

\* Mutant: the page is stored as the vendor wrote it.
StoredRaw(a, tables) == a

\* Of an accepted page, what validate_page_evidence keeps is stored.
Stored(a, tables) == Validated(a, Snapshot, tables)

Generate(p) ==
  /\ lane[p].pc = "generate"
  /\ \/ \E on \in SUBSET {"claude", "codex"}, tables \in Catalogs :
          \E answers \in [on -> Pages \cup {None}] :
            \E a \in FirstAccepted(answers, tables) :
              lane' = [lane EXCEPT ![p] = [@ EXCEPT
                        !.pc = "save", !.content = Stored(a, tables)]]
     \/ \E b \in BOOLEAN :
          lane' = [lane EXCEPT ![p] = [@ EXCEPT !.pc = "error", !.retryable = b]]
  /\ UNCHANGED <<page, proc, live, moves>>

\* Mutant: whoever finishes saves.
OwnsAny(p) == TRUE

\* WHERE owner_process_id = this process
Owns(p) == page[lane[p].repo].owner = p

Rest(p) == lane' = [lane EXCEPT ![p] = IdleLane]

\* A page of which nobody is the owner any more raises, as a failed generation.
Save(p) ==
  /\ lane[p].pc = "save"
  /\ \/ /\ Owns(p)
        /\ page' = [page EXCEPT ![lane[p].repo] = [@ EXCEPT
                      !.status = "ready", !.by = p, !.content = lane[p].content,
                      !.backoff = FALSE, !.locked = FALSE, !.owner = None, !.old = FALSE]]
        /\ Rest(p)
     \/ /\ ~Owns(p)
        /\ lane' = [lane EXCEPT ![p] = [@ EXCEPT !.pc = "error",
                                                 !.retryable = FALSE]]
        /\ UNCHANGED page
  /\ UNCHANGED <<proc, live, moves>>

\* schedule_retry: with attempts left and the page still owned, back to waiting.
ScheduleRetry(p) ==
  LET r == lane[p].repo IN
  /\ lane[p].pc = "error"
  /\ \/ /\ lane[p].retryable /\ page[r].attempts < MaxAttempts
        /\ Generating(r) /\ Owns(p)
        /\ page' = [page EXCEPT ![r] = [@ EXCEPT
                      !.backoff = TRUE, !.locked = FALSE, !.owner = None,
                      !.old = FALSE]]
        /\ Rest(p)
     \/ /\ ~(/\ lane[p].retryable /\ page[r].attempts < MaxAttempts
             /\ Generating(r) /\ Owns(p))
        /\ lane' = [lane EXCEPT ![p].pc = "fail"]
        /\ UNCHANGED page
  /\ UNCHANGED <<proc, live, moves>>

MarkFailed(p) ==
  /\ lane[p].pc = "fail"
  /\ page' = IF Owns(p)
             THEN [page EXCEPT ![lane[p].repo] = [@ EXCEPT
                     !.status = "failed", !.backoff = FALSE, !.locked = FALSE,
                     !.owner = None, !.old = FALSE]]
             ELSE page
  /\ Rest(p)
  /\ UNCHANGED <<proc, live, moves>>

---------------------------------------------------------------------------
(* Processes                                                              *)

Boot(p) ==
  /\ proc[p] = "off"
  /\ proc' = [proc EXCEPT ![p] = "up"]
  /\ live' = live \cup {p}
  /\ UNCHANGED <<page, lane, moves>>

\* Mutants: recovery takes every claimed page; or none.
AnyClaimed(r)  == Generating(r) /\ page[r].owner # None
NeverExpired(r) == FALSE

\* owner_process_id is set and has no row among the unexpired leases.
OwnerExpired(r) ==
  Generating(r) /\ page[r].owner # None /\ page[r].owner \notin live

\* At boot, and after every heartbeat that found the lease unexpired.
RecoverExpired(p) ==
  /\ proc[p] = "up"
  /\ p \in live
  /\ page' = [r \in Repo |-> IF OwnerExpired(r)
                THEN [page[r] EXCEPT !.locked = FALSE, !.owner = None]
                ELSE page[r]]
  /\ UNCHANGED <<lane, proc, live, moves>>

\* Time passes without a heartbeat; a durable process is never late.
LeaseExpires(p) ==
  /\ p \in live \ Durable
  /\ live' = live \ {p}
  /\ UNCHANGED <<page, lane, proc, moves>>

\* A tick that finds the lease expired stops the loops of the process.
LeaseLost(p) ==
  /\ proc[p] = "up"
  /\ p \notin live
  /\ proc' = [proc EXCEPT ![p] = "stopping"]
  /\ UNCHANGED <<page, lane, live, moves>>

Stop(p) ==
  /\ proc[p] = "up"
  /\ p \notin Durable
  /\ proc' = [proc EXCEPT ![p] = "stopping"]
  /\ UNCHANGED <<page, lane, live, moves>>

\* After the grace period a generating lane is canceled and writes nothing.
CancelLane(p) ==
  /\ proc[p] = "stopping"
  /\ lane[p].pc = "generate"
  /\ Rest(p)
  /\ UNCHANGED <<page, proc, live, moves>>

Release(p) ==
  /\ proc[p] = "stopping"
  /\ lane[p].pc = "idle"
  /\ proc' = [proc EXCEPT ![p] = "gone"]
  /\ live' = live \ {p}
  /\ UNCHANGED <<page, lane, moves>>

Crash(p) ==
  /\ proc[p] \in {"up", "stopping"}
  /\ p \notin Durable
  /\ proc' = [proc EXCEPT ![p] = "gone"]
  /\ Rest(p)
  /\ UNCHANGED <<page, live, moves>>

---------------------------------------------------------------------------
(* Specification                                                          *)

LaneStep(p) ==
  Generate(p) \/ Save(p) \/ ScheduleRetry(p) \/ MarkFailed(p) \/ CancelLane(p)

Next ==
  \/ ListPages
  \/ \E r \in Repo : RefreshWiki(r) \/ Ages(r) \/ BackoffElapses(r)
  \/ \E p \in Proc :
       \/ \E r \in Repo : Claim(p, r)
       \/ LaneStep(p)
       \/ Boot(p) \/ RecoverExpired(p) \/ LeaseExpires(p) \/ LeaseLost(p)
       \/ Stop(p)       \/ Release(p) \/ Crash(p)

Spec == Init /\ [][Next]_vars

\* One server stays up and its loops run; vendors are bounded by timeouts; a
\* process that is gone renews no lease.
Fairness ==
  /\ \A p \in Durable : WF_vars(Boot(p)) /\ WF_vars(RecoverExpired(p))
                        /\ WF_vars(\E r \in Repo : Claim(p, r))
  /\ \A p \in Proc :
       /\ WF_vars(LaneStep(p)) /\ WF_vars(LeaseLost(p)) /\ WF_vars(Release(p))
       /\ WF_vars(proc[p] \in {"stopping", "gone"} /\ LeaseExpires(p))
  /\ \A r \in Repo : WF_vars(BackoffElapses(r))

FairSpec == Spec /\ Fairness

---------------------------------------------------------------------------
(* Properties                                                             *)

\* While a process holds its lease, the page its lane works on stays claimed in
\* its name: neither a refresh, nor the stale check of a list request, nor the
\* recovery by another process takes it away.
HolderKeepsPage ==
  \A p \in Proc : p \in live /\ lane[p].pc # "idle" =>
    LET row == page[lane[p].repo] IN
    row.status = "generating" /\ row.locked /\ row.owner = p

\* A page is claimed exactly while it has an owner, and only while generating.
ClaimsAgree ==
  \A r \in Repo : /\ page[r].locked <=> page[r].owner # None
                  /\ page[r].locked => Generating(r)

\* Every request ends, with a page or an error, also when the process that
\* generates it loses its lease, stops or dies.
RequestEnds == \A r \in Repo : Generating(r) ~> ~Generating(r)

\* The page table implements a table of leased tasks whose results can be relied
\* upon: only the holder of a page puts a new one on display, and each of its facts
\* cites something that is there.
TaskStatus == [r \in Repo |-> IF page[r].locked THEN "held"
                              ELSE IF Generating(r) THEN "waiting" ELSE "idle"]
TaskHolder == [r \in Repo |-> page[r].owner]
TaskResult == [r \in Repo |-> IF page[r].by = None THEN None
                              ELSE [made |-> page[r].content, by |-> page[r].by]]

\* Every fact of a page is backed by what the snapshot or a table really has.
GoodPages == {c \in Kept : Grounded(c, Snapshot, Static \cup Live)}

Leased == INSTANCE LeasedTask WITH
  Task <- Repo, status <- TaskStatus, holder <- TaskHolder, result <- TaskResult,
  Good <- GoodPages

ImplementsLeasedTask == Leased!Spec
=============================================================================
