-------------------------- MODULE ReviewExecution --------------------------
(***************************************************************************)
(* What one review of a pull request does to its run, its vendor rows and  *)
(* its findings: server/pipeline.py under the lane of a server process.    *)
(* The diff is cut into chunks, every enabled vendor reviews them one      *)
(* after the other, the answers pass scope, duplicates, consensus and      *)
(* debate, and are stored in one transaction that first checks the lease   *)
(* and the head.  A retry asks failed chunks of a finished run again and   *)
(* adds to it.  Meanwhile people decide on findings, settings change, the  *)
(* head moves, and the lease of a process can expire.                      *)
(***************************************************************************)
EXTENDS DiffChunks, FindingPolicy, VendorOutput, ReviewContext

CONSTANTS
  Proc,         \* process identities
  None,         \* SQL NULL
  Sites,        \* repositories to start from (see Init)
  Spots,        \* [path, line] places a finding can name
  MaxAttempts,  \* attempts an execution envelope may hold
  MaxFindings   \* bound: findings of one run

ASSUME ExecutionAssumption ==
  /\ None \notin Proc
  /\ MaxAttempts \in Nat \ {0}
  /\ MaxFindings \in Nat
  /\ Spots \subseteq [path : STRING, line : Nat]

VARIABLES
  site,     \* the repository as registered: diff, policies, what vendors answer
  chunks,   \* the chunks of that diff
  setting,  \* what people and upgrades change
  head,     \* head commit of the pull request
  job,      \* the review job
  run,      \* the newest review_run row
  screened, \* the grade of the diff that a pre_screen row keeps, if any
  row,      \* its vendor_result rows
  finding,  \* its finding rows, by id
  summary,  \* its run_finding_summary row, kept by triggers
  lane,     \* the lane of every process
  live,     \* processes with an unexpired lease
  moves     \* decisions, changes and failures so far, at most site.moves

dbVars == <<run, row, finding, summary>>
envVars == <<site, chunks, setting, head, screened, live, moves>>
vars == <<site, chunks, setting, head, screened, job, run, row, finding, summary, lane, live, moves>>

Vendor == {"claude", "codex"}
VendorOrder == <<"claude", "codex">>
Failing == {"failed", "partial", "timeout"}

\* What the prescreen CLI can say about a diff, from low to high; it may also
\* answer "garbage", or fail.
Grades == <<"trivial", "moderate", "complex">>

\* A repository as it can be registered, and what people can make of it.
SettingOK(c) ==
  /\ c.on \subseteq Vendor
  /\ c.merge \in BOOLEAN /\ c.verify \in BOOLEAN
  /\ c.threshold \in ToSet(Grades)

ASSUME SiteAssumption ==
  /\ None \notin ToSet(Grades)
  /\ \A s \in Sites :
       /\ s.moves \in Nat /\ s.runs \in Nat
       /\ WellFormed(s.diff)
       /\ s.spots \subseteq Spots
       /\ s.sources \in Seq(Seq(ContextBlock))
       /\ \A c \in s.changes \cup {s.setting} :
            SettingOK(c) /\ \A vs \in SUBSET Vendor : None # Snapshot(c.policy, vs)

\* The chunks as the pipeline numbers them, and the one that owns each place.
ChunkSet == 1..Len(chunks)
ChunkOwner == [place \in {<<s.path, s.line>> : s \in Spots} |-> OwnerOf(chunks, place)]

\* asked: the chunks of an attempt and how they ended.
NoRow == [status |-> "none", attempts |-> <<>>]
NoContexts == [text |-> <<>>, chunks |-> None]
NoRun == [id |-> 0, status |-> "none", head |-> 0, policy |-> None, bound |-> None,
          contexts |-> NoContexts, tagged |-> FALSE]
NoJob == [kind |-> "none", head |-> 0, owner |-> None]
IdleLane == [pc |-> "idle", auto |-> FALSE, run |-> 0, head |-> 0, by |-> {}, cfg |-> None,
             told |-> None, cli |-> 0, debated |-> 0, ask |-> <<>>, answer |-> <<>>, found |-> <<>>]
NoSummary == [total |-> 0, max |-> 0, pending |-> 0, approved |-> 0, dismissed |-> 0,
              posted |-> 0, postable |-> 0]

FindingRow ==
  [vendor : Vendor, path : {s.path : s \in Spots}, line : {s.line : s \in Spots},
   source : Nat, owner : Nat, eligible : BOOLEAN, group : Nat, merged : Nat,
   consensus : BOOLEAN, status : {"pending", "approved", "dismissed", "posted"},
   verify : {"none", "degraded", "refuted", "contested", "confirmed", "supported_self"}]

TypeOK ==
  /\ site \in Sites
  /\ moves \in 0..site.moves /\ head \in 0..moves
  /\ live \subseteq Proc
  /\ job.kind \in {"none", "auto", "manual", "retry"} /\ job.owner \in Proc \cup {None}
  /\ run.id \in 0..site.runs
  /\ run.status \in {"none", "running", "done", "failed", "canceled"}
  /\ \A v \in Vendor :
       /\ row[v].status \in {"none", "running", "done", "canceled"} \cup Failing
       /\ Len(row[v].attempts) <= MaxAttempts
  /\ Len(finding) <= MaxFindings /\ \A i \in Indices(finding) : finding[i] \in FindingRow
  /\ \A p \in Proc :
       lane[p].pc \in {"idle", "review", "created", "skip", "prepare", "bind", "rows", "start", "ask",
                       "combine", "debate", "persist", "ask again", "add"}

Init ==
  /\ site \in Sites
  /\ chunks = Chunks(Reviewable(site.diff))
  /\ setting = site.setting
  /\ head = 0 /\ moves = 0
  /\ job = [kind |-> "auto", head |-> 0, owner |-> None]
  /\ screened = None
  /\ run = NoRun
  /\ row = [v \in Vendor |-> NoRow]
  /\ finding = <<>>
  /\ summary = NoSummary
  /\ lane = [p \in Proc |-> IdleLane]
  /\ live = Proc

---------------------------------------------------------------------------
(* The summary row of a run                                               *)

Postable(f) == f.eligible /\ f.status = "approved"
One(b) == IF b THEN 1 ELSE 0

Counted(s, f, n) ==
  [s EXCEPT !.total = @ + n, !.pending = @ + n * One(f.status = "pending"),
            !.approved = @ + n * One(f.status = "approved"),
            !.dismissed = @ + n * One(f.status = "dismissed"),
            !.posted = @ + n * One(f.status = "posted"),
            !.postable = @ + n * One(Postable(f))]

\* trg_finding_summary_insert, once for every new row
Inserted(s, fs) ==
  FoldLeft(LAMBDA t, f : [Counted(t, f, 1) EXCEPT !.max = @ + 1], s, fs)

\* Mutant: the trigger fires for a new status but counts the finding as eligible.
UpdatedEligible(s, old, new) ==
  [Counted(Counted(s, old, -1), new, 1) EXCEPT !.postable = s.postable +
     One(new.status = "approved") - One(Postable(old))]

\* trg_finding_summary_update
Updated(s, old, new) == Counted(Counted(s, old, -1), new, 1)

UpdatedAll(s, old, new) ==
  FoldLeft(LAMBDA t, i : IF old[i] = new[i] THEN t ELSE Updated(t, old[i], new[i]),
           s, [i \in Indices(old) |-> i])

---------------------------------------------------------------------------
(* The job and its end                                                    *)

Goes(p, pc) == lane' = [lane EXCEPT ![p].pc = pc]
Rests(p) == lane' = [lane EXCEPT ![p] = IdleLane]
Owns(p) == job.owner = p
Newest(p) == lane[p].run = run.id

\* mark_done, mark_failed without retry, mark_canceled
JobEnds(p) == job' = IF Owns(p) THEN NoJob ELSE job
\* mark_failed with attempts left
JobFails(p) ==
  \/ JobEnds(p)
  \/ Owns(p) /\ job' = [job EXCEPT !.owner = None]
\* cancel_stale_and_enqueue_latest
JobMoves(p) ==
  job' = IF Owns(p) THEN [kind |-> IF job.kind = "auto" THEN "auto" ELSE "manual",
                          head |-> head, owner |-> None]
         ELSE job

\* The worker reads the repository row for the first time: by, the vendors that a
\* debate may ask (build_deps).
Claim(p) ==
  /\ lane[p].pc = "idle"
  /\ job.kind # "none" /\ job.owner = None
  /\ job' = [job EXCEPT !.owner = p]
  /\ lane' = [lane EXCEPT ![p] = [IdleLane EXCEPT
                !.pc = IF job.kind = "retry" THEN "start" ELSE "review",
                !.auto = (job.kind = "auto"), !.head = job.head, !.by = setting.on]]
  /\ UNCHANGED <<dbVars, envVars>>

\* Any other exception of review_pr: the run fails, its vendor rows stay.
RunFails(p) ==
  /\ run' = IF Newest(p) THEN [run EXCEPT !.status = "failed"] ELSE run
  /\ JobFails(p) /\ Rests(p)
  /\ UNCHANGED <<row, finding, summary, envVars>>

---------------------------------------------------------------------------
(* A review                                                               *)

\* The gates of the worker; then review_pr reads the repository row again: cfg, which
\* the run works with.
CreateRun(p) ==
  /\ lane[p].pc = "review"
  /\ \/ /\ lane[p].head # head
        /\ JobMoves(p) /\ Rests(p)
        /\ UNCHANGED dbVars
     \/ /\ lane[p].by = {}
        /\ JobEnds(p) /\ Rests(p)
        /\ UNCHANGED dbVars
     \/ /\ lane[p].head = head /\ lane[p].by # {}
        /\ run.id < site.runs
        /\ run' = [NoRun EXCEPT !.id = run.id + 1, !.status = "running", !.head = head]
        /\ row' = [v \in Vendor |-> NoRow]
        /\ finding' = <<>> /\ summary' = NoSummary
        /\ lane' = [lane EXCEPT ![p] = [@ EXCEPT !.pc = "created", !.run = run.id + 1,
                                                 !.cfg = setting]]
        /\ UNCHANGED job
  /\ UNCHANGED envVars

\* finish_run without a look at the owner or the status.
Closes(p, status) ==
  /\ run' = IF Newest(p) THEN [run EXCEPT !.status = status] ELSE run
  /\ UNCHANGED <<row, finding, summary>>

Rank(grade) == CHOOSE n \in 1..3 : Grades[n] = grade
Graded(answer) == answer \in ToSet(Grades)

\* Mutant: a prescreen that fails finds nothing to review.
GradeLow(answer) == IF Graded(answer) THEN answer ELSE "trivial"

\* The default of prescreen and of the exception around it.
Grade(answer) == IF Graded(answer) THEN answer ELSE "moderate"

\* decide
Below(grade, threshold) == Rank(grade) < Rank(threshold)

\* _prescreen_diff: a grade of the same diff is used again, a default is not kept.
Prescreen(p) ==
  /\ lane[p].pc = "created" /\ ChunkSet # {}
  /\ \E answer \in IF screened = None THEN site.grades ELSE {screened} :
       /\ screened' = IF Graded(answer) THEN answer ELSE None
       /\ Goes(p, IF lane[p].auto /\ Below(Grade(answer), lane[p].cfg.threshold)
                  THEN "skip" ELSE "prepare")
  /\ UNCHANGED <<dbVars, job, site, chunks, setting, head, live, moves>>

\* Nothing but noise, or an automatic review screened out, or no vendor.
Nothing(p) ==
  /\ \/ /\ \/ lane[p].pc = "created" /\ ChunkSet = {}
           \/ lane[p].pc = "skip"
        /\ IF lane[p].head = head THEN JobEnds(p) ELSE JobMoves(p)
     \/ /\ lane[p].pc = "prepare" /\ lane[p].cfg.on = {}
        /\ JobEnds(p)
  /\ Closes(p, "canceled")
  /\ Rests(p)
  /\ UNCHANGED envVars

PathsOf(c) == {place[1] : place \in chunks[c].owned}

\* Context is optional.  When gathering it takes too long the text of the run stays
\* empty, but whatever the late thread left is still rendered for the chunks.
StoreContexts(p) ==
  /\ lane[p].pc = "prepare" /\ lane[p].cfg.on # {}
  /\ \E ok \in SUBSET (1..Len(site.sources)), late \in BOOLEAN :
     \E got \in {Blocks(Gathered(site.sources, ok))} :
     \E told \in {[c \in ChunkSet |-> Selected(got, PathsOf(c),
                      ContextBudget(Len(chunks), Cardinality(lane[p].cfg.on)))]} :
       /\ run' = IF Newest(p)
                 THEN [run EXCEPT !.contexts =
                        [text |-> IF late THEN <<>> ELSE Keepable(got),
                         chunks |-> [c \in ChunkSet |-> Keepable(told[c])]]]
                 ELSE run
       /\ lane' = [lane EXCEPT ![p] = [@ EXCEPT !.pc = "bind", !.told = told]]
  /\ UNCHANGED <<row, finding, summary, job, envVars>>

\* The identity of every vendor's execution: what a retry compares.
Identity(cli, basis, told) == [cli |-> cli, basis |-> basis, told |-> told]

\* set_policy_snapshot: only a running run without one.
PolicyOpen(p) == Newest(p) /\ run.status = "running" /\ run.policy = None

BindPolicy(p) ==
  /\ lane[p].pc = "bind"
  /\ PolicyOpen(p)
  /\ run' = [run EXCEPT
       !.policy = Snapshot(lane[p].cfg.policy, lane[p].cfg.on),
       !.bound = Identity(setting.cli, lane[p].cfg.basis, lane[p].told)]
  /\ lane' = [lane EXCEPT ![p] = [@ EXCEPT !.pc = "rows", !.cli = setting.cli,
                                         !.debated = setting.cli]]
  /\ UNCHANGED <<row, finding, summary, job, envVars>>

\* The snapshot of the work tree is made before the rows are added.
AddRows(p) ==
  /\ lane[p].pc = "rows"
  /\ row' = IF ~Newest(p) THEN row
            ELSE [v \in Vendor |-> IF v \in lane[p].cfg.on
                                   THEN [NoRow EXCEPT !.status = "running"] ELSE NoRow]
  /\ lane' = [lane EXCEPT ![p].pc = "ask",
                ![p].ask = [v \in Vendor |-> IF v \in lane[p].cfg.on THEN ChunkSet ELSE {}]]
  /\ UNCHANGED <<run, finding, summary, job, envVars>>

---------------------------------------------------------------------------
(* Vendors                                                                *)

EndsOf == [v \in Vendor |-> {ChunkStatus(v, e) : e \in ProcessEnds}]

\* What a vendor says about its chunks: how each ended, and the place its finding
\* names, if it found something.
Silent == [path |-> "", line |-> 0]
ChunkAnswers(v) ==
  {[end |-> x, spot |-> s] : x \in EndsOf[v] \cap site.ends \cap {"done"},
                             s \in site.spots \cup {Silent}}
    \cup {[end |-> x, spot |-> Silent] : x \in (EndsOf[v] \cap site.ends) \ {"done"}}

\* Mutant: a vendor is done when one of its chunks is.
VendorStatusAny(ends) ==
  IF \E c \in DOMAIN ends : ends[c] = "done" THEN "done" ELSE "failed"

VendorStatus(ends) ==
  LET all == {ends[c] : c \in DOMAIN ends} IN
  IF all = {"done"} THEN "done"
  ELSE IF "done" \in all THEN "partial"
  ELSE IF all = {"timeout"} THEN "timeout" ELSE "failed"

Finding(v, c, spot) ==
  [vendor |-> v, path |-> spot.path, line |-> spot.line, source |-> c, owner |-> 0,
   eligible |-> TRUE, group |-> 0, merged |-> 0, consensus |-> FALSE,
   status |-> "pending", verify |-> "none"]

FindingsOf(v, answers) ==
  FlattenSeq([c \in ChunkSet |->
    IF c \in DOMAIN answers /\ answers[c].spot # Silent
    THEN <<Finding(v, c, answers[c].spot)>> ELSE <<>>])

\* Vendors in the order of their adapters.
Found(answers) == FlattenSeq([n \in 1..2 |-> FindingsOf(VendorOrder[n], answers[VendorOrder[n]])])

EndsIn(answers) == [v \in Vendor |-> [c \in DOMAIN answers[v] |-> answers[v][c].end]]

\* _run_vendor for every vendor at once: one chunk after the other, each after a
\* look at the CLI version; a failed chunk does not stop the next.
AskVendors(p) ==
  /\ lane[p].pc \in {"ask", "ask again"}
  /\ setting.cli = lane[p].cli
  /\ \E x \in [lane[p].ask["claude"] -> ChunkAnswers("claude")],
        y \in [lane[p].ask["codex"] -> ChunkAnswers("codex")] :
       LET a == [v \in Vendor |-> IF v = "claude" THEN x ELSE y] IN
       /\ Len(finding) + Len(Found(a)) <= MaxFindings
       /\ lane' = [lane EXCEPT ![p] = [@ EXCEPT
            !.pc = IF lane[p].pc = "ask" THEN "combine" ELSE "add",
            !.answer = EndsIn(a), !.found = Found(a)]]
  /\ UNCHANGED <<dbVars, job, envVars>>

---------------------------------------------------------------------------
(* Debate                                                                 *)

Succeeded(ends) == ends # <<>> /\ VendorStatus(ends) \in {"done", "partial"}
AllFailed(p) == \A v \in lane[p].cfg.on : ~Succeeded(lane[p].answer[v])

\* Scope, duplicates and consensus, while the lane holds the event loop; tags that
\* only the debate needs are dropped after it.
Combine(p) ==
  /\ lane[p].pc = "combine"
  /\ \/ /\ AllFailed(p) \/ ~Newest(p) \/ run.policy = None
        /\ Goes(p, "persist")
     \/ /\ ~AllFailed(p) /\ Newest(p) /\ run.policy # None
        /\ \E scoped \in {ApplyScope(lane[p].found, ChunkOwner, run.policy.scope)} :
           \E fs \in {GroupDuplicates(scoped, run.policy.dedupe)} :
             lane' = [lane EXCEPT ![p] = [@ EXCEPT !.pc = "debate",
               !.found = IF lane[p].cfg.merge \/ lane[p].cfg.verify THEN Tagged(fs) ELSE fs]]
  /\ UNCHANGED <<dbVars, job, envVars>>

\* Serious findings of a single vendor, in scope and not a duplicate; here every
\* finding is serious.
Targets(fs) ==
  {i \in Indices(fs) : ~fs[i].consensus /\ fs[i].eligible /\ fs[i].owner # 0}

Debated(fs, cfg, by, say) ==
  [i \in Indices(fs) |->
     LET f == IF cfg.merge THEN fs[i] ELSE [fs[i] EXCEPT !.consensus = FALSE, !.merged = 0]
     IN IF i \notin DOMAIN say THEN f
        ELSE [f EXCEPT !.verify = Verdict(f.vendor, by, say[i].first, say[i].second)]]

\* The refuter's answer and the author's.
Sayings == {Said(v, e, w) : v \in Vendor, e \in ProcessEnds, w \in Verdicts}
Says == [first : Sayings, second : Sayings]

\* Vendors of the run that a debate asks: only their rows keep its attempts.
Debaters(p, say) ==
  lane[p].cfg.on \cap
    UNION {Asked(lane[p].found[i].vendor, lane[p].by, say[i].first) : i \in DOMAIN say}

\* _verify_singles; who is asked may by now run another CLI version.
Debate(p) ==
  /\ lane[p].pc = "debate"
  /\ \E say \in [IF lane[p].cfg.verify THEN Targets(lane[p].found) ELSE {} -> Says] :
     \E said \in {Debated(lane[p].found, lane[p].cfg, lane[p].by, say)} :
       lane' = [lane EXCEPT ![p] = [@ EXCEPT !.pc = "persist",
         !.found = IF lane[p].cfg.merge THEN InGroupOrder(said) ELSE said,
         !.debated = IF Debaters(p, say) = {} THEN @ ELSE setting.cli]]
  /\ UNCHANGED <<dbVars, job, envVars>>

---------------------------------------------------------------------------
(* Storing a review                                                       *)

\* append_execution_attempt
Attempted(r, ends) == Append(r.attempts, ends)

Finished(v, ends) == [status |-> VendorStatus(ends), attempts |-> Attempted(row[v], ends)]

\* Mutant: the limit is met only when it is passed.
EnvelopeOver(p) ==
  \E v \in Vendor : lane[p].answer[v] # <<>> /\ Len(row[v].attempts) > MaxAttempts

\* validate_execution_envelope: an attempt too many is refused after the work.
\* The attempts of a debate, which count too, and the limit in bytes are left out.
EnvelopeFull(p) ==
  \E v \in Vendor : lane[p].answer[v] # <<>> /\ Len(row[v].attempts) >= MaxAttempts

FinishedRows(p, ends) ==
  [v \in Vendor |-> IF ends[v] = <<>> THEN row[v] ELSE Finished(v, ends[v])]

\* _assert_process_lease: the old owner changes nothing any more.
LeaseLost(p) ==
  /\ \/ lane[p].pc = "add"
     \/ lane[p].pc = "persist" /\ ~AllFailed(p)
  /\ p \notin live
  /\ Rests(p)
  /\ UNCHANGED <<dbVars, job, envVars>>

\* Rows and run fail together, without a look at lease or head.
PersistAllFailed(p) ==
  /\ lane[p].pc = "persist" /\ AllFailed(p)
  /\ IF Newest(p)
     THEN /\ row' = FinishedRows(p, lane[p].answer)
          /\ run' = [run EXCEPT !.status = "failed"]
     ELSE UNCHANGED <<row, run>>
  /\ JobFails(p) /\ Rests(p)
  /\ UNCHANGED <<finding, summary, envVars>>

\* Mutant: the transaction trusts the claim of the job.
MayWriteAny(p) == TRUE

MayWrite(p) == p \in live

CanceledRows(p) ==
  [v \in Vendor |-> IF lane[p].answer[v] = <<>> THEN row[v]
     ELSE [FinishedRows(p, lane[p].answer)[v] EXCEPT !.status = "canceled"]]

PersistStale(p) ==
  /\ lane[p].pc = "persist" /\ ~AllFailed(p) /\ MayWrite(p)
  /\ Newest(p) /\ run.head # head
  /\ lane[p].debated = lane[p].cli
  /\ row' = CanceledRows(p)
  /\ run' = [run EXCEPT !.status = "canceled"]
  /\ JobMoves(p) /\ Rests(p)
  /\ UNCHANGED <<finding, summary, envVars>>

\* Rows, findings, run and reviewed head in one transaction.
Persist(p) ==
  /\ lane[p].pc = "persist" /\ ~AllFailed(p) /\ MayWrite(p)
  /\ Newest(p) /\ run.head = head
  /\ lane[p].debated = lane[p].cli
  /\ row' = FinishedRows(p, lane[p].answer)
  /\ finding' = finding \o lane[p].found
  /\ summary' = Inserted(summary, lane[p].found)
  /\ run' = [run EXCEPT !.status = "done", !.tagged = lane[p].cfg.merge]
  /\ JobEnds(p) /\ Rests(p)
  /\ UNCHANGED envVars

\* Diff, checkout, snapshot or their removal, a policy that is no longer open, a
\* vendor CLI found upgraded between two chunks or, in the end, by the debate.
ReviewFails(p) ==
  /\ \/ lane[p].pc \in {"created", "prepare", "bind", "rows", "ask", "debate"}
     \/ lane[p].pc = "persist" /\ ~AllFailed(p) /\ MayWrite(p)
        /\ lane[p].debated # lane[p].cli
  /\ RunFails(p)

---------------------------------------------------------------------------
(* A retry                                                                *)

FailedVendors == {v \in Vendor : row[v].status \in Failing}

\* _retry_prompt_chunks: what the latest attempt left open.
Unresolved(v) ==
  LET latest == Last(row[v].attempts) IN {c \in DOMAIN latest : latest[c] # "done"}

\* Codex without a configured model can never be shown to be the same.
Named(v) == v \in site.named

\* The stored texts, by chunk; without them the text of the run.
Restored == IF run.contexts.chunks # None THEN run.contexts.chunks
            ELSE [c \in ChunkSet |-> run.contexts.text]

\* What _retry_failed_vendors and _require_retry_identity compare.
SameBasis ==
  /\ \A v \in FailedVendors : Named(v)
  /\ Identity(setting.cli, setting.basis, Restored) = run.bound
  /\ Snapshot(setting.policy, FailedVendors) = run.policy

RetryRefused(p) ==
  /\ lane[p].pc = "start"
  /\ run.status = "done" /\ run.head = head /\ lane[p].head = head
  /\ \/ FailedVendors \ setting.on # {}
     \/ FailedVendors # {} /\ ~SameBasis
  /\ JobEnds(p) /\ Rests(p)
  /\ UNCHANGED <<dbVars, envVars>>

RetryStart(p) ==
  /\ lane[p].pc = "start"
  /\ \/ /\ run.head # head \/ lane[p].head # head
        /\ JobMoves(p) /\ Rests(p)
     \/ /\ lane[p].by = {}
        /\ JobEnds(p) /\ Rests(p)
     \/ /\ run.head = head /\ lane[p].head = head
        /\ run.status # "done" \/ FailedVendors = {}
        /\ JobEnds(p) /\ Rests(p)
     \/ /\ run.head = head /\ lane[p].head = head /\ lane[p].by # {}
        /\ run.status = "done" /\ FailedVendors # {}
        /\ FailedVendors \subseteq setting.on /\ SameBasis
        /\ lane' = [lane EXCEPT ![p] = [@ EXCEPT
             !.pc = "ask again", !.run = run.id, !.cfg = setting, !.cli = setting.cli,
             !.ask = [v \in Vendor |-> IF v \in FailedVendors THEN Unresolved(v) ELSE {}]]]
        /\ UNCHANGED job
  /\ UNCHANGED <<dbVars, envVars>>

\* Diff, checkout or snapshot fail, the CLI was upgraded: only the job fails.
RetryFails(p) ==
  /\ \/ lane[p].pc = "start"
     \/ lane[p].pc = "ask again"
     \/ lane[p].pc = "add" /\ EnvelopeFull(p) /\ MayWrite(p)
  /\ JobFails(p) /\ Rests(p)
  /\ UNCHANGED <<dbVars, envVars>>

RetryStale(p) ==
  /\ lane[p].pc = "add" /\ MayWrite(p)
  /\ Newest(p) /\ run.head # head
  /\ JobMoves(p) /\ Rests(p)
  /\ UNCHANGED <<dbVars, envVars>>

\* The new findings join the stored ones; if the repository merged when the
\* retry began, everything is tagged again.
RetryAdds(p) ==
  /\ lane[p].pc = "add" /\ MayWrite(p)
  /\ Newest(p) /\ run.head = head
  /\ ~EnvelopeFull(p)
  /\ \E scoped \in {ApplyScope(lane[p].found, ChunkOwner, run.policy.scope)} :
     \E all \in {GroupRetried(finding, scoped, run.policy.dedupe)} :
       finding' = IF lane[p].cfg.merge THEN Tagged(all) ELSE all
  /\ summary' = Inserted(UpdatedAll(summary, finding, SubSeq(finding', 1, Len(finding))),
                         SubSeq(finding', Len(finding) + 1, Len(finding')))
  /\ row' = FinishedRows(p, lane[p].answer)
  /\ run' = [run EXCEPT !.tagged = lane[p].cfg.merge]
  /\ JobEnds(p) /\ Rests(p)
  /\ UNCHANGED envVars

---------------------------------------------------------------------------
(* Timeouts and processes                                                 *)

Moved == moves < site.moves /\ moves' = moves + 1

\* Only what still runs is closed; a run that a retry works on is done.
Timeout(p) ==
  /\ lane[p].pc # "idle"
  /\ IF Newest(p) /\ run.status = "running" /\ job.kind \in {"auto", "manual"}
     THEN /\ row' = [v \in Vendor |-> IF row[v].status = "running"
                                      THEN [row[v] EXCEPT !.status = "failed"] ELSE row[v]]
          /\ run' = [run EXCEPT !.status = "failed"]
     ELSE UNCHANGED <<row, run>>
  /\ JobFails(p) /\ Rests(p)
  /\ UNCHANGED <<finding, summary, envVars>>

Crash(p) ==
  /\ Moved
  /\ lane[p].pc # "idle"
  /\ Rests(p)
  /\ live' = live \ {p}
  /\ UNCHANGED <<dbVars, job, site, chunks, setting, head, screened>>

LeaseExpires(p) ==
  /\ Moved
  /\ p \in live
  /\ live' = live \ {p}
  /\ UNCHANGED <<dbVars, job, lane, site, chunks, setting, head, screened>>

\* recover_expired by another process.
Recover ==
  /\ live # {}
  /\ job.owner # None /\ job.owner \notin live
  /\ job' = [job EXCEPT !.owner = None]
  /\ IF run.status = "running"
     THEN /\ row' = [v \in Vendor |-> IF row[v].status = "running"
                                      THEN [row[v] EXCEPT !.status = "failed"] ELSE row[v]]
          /\ run' = [run EXCEPT !.status = "failed"]
     ELSE UNCHANGED <<row, run>>
  /\ UNCHANGED <<finding, summary, lane, envVars>>

---------------------------------------------------------------------------
(* People                                                                 *)

\* retry_vendors
RequestRetry ==
  /\ job.kind = "none"
  /\ run.status = "done" /\ run.head = head
  /\ FailedVendors # {} /\ FailedVendors \subseteq setting.on
  /\ job' = [kind |-> "retry", head |-> head, owner |-> None]
  /\ UNCHANGED <<dbVars, lane, envVars>>

\* trigger_review; a queued automatic job becomes a manual one.
RequestReview ==
  /\ \/ job.kind = "none" /\ run.id < site.runs
     \/ job.kind = "auto" /\ job.owner = None
  /\ job' = [kind |-> "manual", head |-> head, owner |-> None]
  /\ UNCHANGED <<dbVars, lane, envVars>>

\* Decisions look at the status, not at the eligibility.
DecideFinding(i) ==
  /\ finding[i].status # "posted"
  /\ \E s \in {"approved", "dismissed"} \ {finding[i].status} :
       LET f == [finding[i] EXCEPT !.status = s] IN
       /\ finding' = [finding EXCEPT ![i] = f]
       /\ summary' = Updated(summary, finding[i], f)

\* Only what is approved and eligible is posted.
Post ==
  LET new == [i \in Indices(finding) |-> IF Postable(finding[i])
                THEN [finding[i] EXCEPT !.status = "posted"] ELSE finding[i]] IN
  /\ run.status = "done" /\ run.head = head
  /\ new # finding
  /\ finding' = new
  /\ summary' = UpdatedAll(summary, finding, new)

FindingChanges ==
  /\ Moved
  /\ Post \/ \E i \in Indices(finding) : DecideFinding(i)
  /\ UNCHANGED <<run, row, job, lane, site, chunks, setting, head, screened, live>>

\* Vendor and merge switches, policy overrides, upgrades, edited titles or models,
\* as far as the site allows them.
SettingChanges ==
  /\ Moved
  /\ setting' \in site.changes /\ setting' # setting
  /\ UNCHANGED <<dbVars, job, lane, site, chunks, head, screened, live>>

\* cleanup_context_payloads, for a run that ended long ago.
ContextsExpire ==
  /\ Moved /\ site.cleanup
  /\ run.contexts # NoContexts /\ run.status # "running"
  /\ run' = [run EXCEPT !.contexts = NoContexts]
  /\ UNCHANGED <<row, finding, summary, job, lane, site, chunks, setting, head, screened, live>>

\* The worker enqueues nothing here: the next review comes with the next request.
HeadMoves ==
  /\ Moved /\ site.pushes
  /\ head' = head + 1
  /\ UNCHANGED <<dbVars, job, lane, site, chunks, setting, screened, live>>

Next ==
  \/ \E p \in Proc :
       \/ Claim(p) \/ CreateRun(p) \/ Prescreen(p) \/ Nothing(p) \/ StoreContexts(p)
       \/ BindPolicy(p) \/ AddRows(p) \/ AskVendors(p) \/ Combine(p) \/ Debate(p) \/ LeaseLost(p)
       \/ PersistAllFailed(p) \/ PersistStale(p) \/ Persist(p) \/ ReviewFails(p)
       \/ RetryRefused(p) \/ RetryStart(p) \/ RetryFails(p) \/ RetryStale(p)
       \/ RetryAdds(p) \/ Timeout(p) \/ Crash(p) \/ LeaseExpires(p)
  \/ Recover \/ RequestRetry \/ RequestReview \/ FindingChanges \/ SettingChanges
  \/ ContextsExpire \/ HeadMoves

Spec == Init /\ [][Next]_vars

---------------------------------------------------------------------------
(* Properties                                                             *)

AttemptsDone(v, c) ==
  {n \in 1..Len(row[v].attempts) : /\ c \in DOMAIN row[v].attempts[n]
                                   /\ row[v].attempts[n][c] = "done"}

\* A chunk is answered once per vendor in a run, whatever was retried and whoever
\* recovered the job in between, and every finding comes from an answered chunk.
ChunkFindingsOnce ==
  /\ \A v \in Vendor, c \in ChunkSet : Cardinality(AttemptsDone(v, c)) <= 1
  /\ \A i, j \in Indices(finding) :
       /\ AttemptsDone(finding[i].vendor, finding[i].source) # {}
       /\ i # j => <<finding[i].vendor, finding[i].source>>
                     # <<finding[j].vendor, finding[j].source>>

\* In a finished run a vendor either answered every chunk, or its row says that a
\* retry may ask it again; nobody is left running.
OpenChunksRetryable ==
  run.status = "done" =>
    \A v \in Vendor : row[v].status # "none" =>
      row[v].status = IF \A c \in ChunkSet : AttemptsDone(v, c) # {} THEN "done"
                      ELSE IF row[v].status \in Failing THEN row[v].status ELSE "failed"

\* What may be posted: a finding on an added line, and where duplicates are
\* enforced the first of them and only that one, also when a retry repeats it.
OneEligiblePerDuplicate ==
  \A i \in Indices(finding) :
    /\ run.policy.scope = "enforce" => finding[i].owner # 0
    /\ finding[i].eligible <=>
         finding[i].owner # 0 /\ (run.policy.dedupe = "enforce" => IsFirst(finding, i))
    /\ finding[i].group # 0 <=> Cardinality(Twins(finding, i)) > 1
    /\ \A j \in Indices(finding) : finding[i].group # 0 /\ finding[j].group = finding[i].group
                                    => KeyOf(finding[j]) = KeyOf(finding[i])

\* Two vendors that name the same line agree, also when the second answered in a
\* retry; nobody agrees with findings further away than two steps of proximity.
ConsensusAgrees ==
  run.tagged => \A i \in Indices(finding) :
    LET others == {j \in Indices(finding) : /\ finding[j].vendor # finding[i].vendor
                                            /\ finding[j].path = finding[i].path} IN
    /\ (\E j \in others : finding[j].line = finding[i].line) => finding[i].consensus
    /\ finding[i].consensus =>
         \E j \in others : finding[i].line - finding[j].line \in -(2 * Proximity)..(2 * Proximity)

\* The counters that pages show are those of the findings, after any sequence of
\* inserts, decisions, posts and retries.
SummaryMatches ==
  LET n(T(_)) == Cardinality({i \in Indices(finding) : T(finding[i])})
  IN summary = [total |-> Len(finding), max |-> Len(finding),
                pending |-> n(LAMBDA f : f.status = "pending"),
                approved |-> n(LAMBDA f : f.status = "approved"),
                dismissed |-> n(LAMBDA f : f.status = "dismissed"),
                posted |-> n(LAMBDA f : f.status = "posted"),
                postable |-> n(Postable)]

\* Line numbers of the added lines of a hunk, counted by position.
AddedIn(path, h) ==
  {<<path, h.new + Cardinality({k \in 1..(i - 1) : h.lines[k].kind \in {"add", "ctx"}})>> :
     i \in {j \in 1..Len(h.lines) : h.lines[j].kind = "add"}}

\* The assertions of the chunker never end a review: every added line of a file
\* worth reviewing whose name can be read is owned by exactly one prompt, no prompt
\* owns another line, and no prompt is too long.
ChunksPartition ==
  LET d == site.diff
      cs == chunks
      added == UNION {UNION {AddedIn(d[i].path, d[i].hunks[k]) : k \in 1..Len(d[i].hunks)} :
                      i \in {j \in 1..Len(d) : d[j].path # "" /\ ~d[j].noise}}
  IN run.id = 0 =>
       /\ ~Refused(cs, Reviewable(d))
       /\ UNION {cs[c].owned : c \in 1..Len(cs)} = added
       /\ \A c \in 1..Len(cs) : cs[c].size <= Budget

\* No retry and no later run of the same findings takes a finding away that could
\* be posted: the one that is already stored wins over its repetition.
EligibleStays ==
  [][run.id = run'.id => \A i \in Indices(finding) :
       finding[i].eligible => finding'[i].eligible]_vars

\* A finding is stored as confirmed or contested only if its author and another
\* vendor were enabled when the worker took the job; the other has a row in the run
\* unless it was switched off before review_pr read the repository again.
ConfirmedIndependent ==
  [][\A i \in Indices(finding') \ Indices(finding) :
       finding'[i].verify \in {"confirmed", "contested"} =>
         \E p \in Proc :
           LET others == lane[p].by \ {finding'[i].vendor} IN
           /\ lane[p].pc = "persist" /\ lane'[p] = IdleLane
           /\ finding'[i].vendor \in lane[p].by /\ others # {}
           /\ \A v \in others \cap lane[p].cfg.on : row'[v].status # "none"]_vars

\* A chunk counts as reviewed only after a process that ended well, was read to
\* the end and left findings that can be parsed; so does a verdict.
CleanAnswers ==
  run.id = 0 => \A v \in Vendor, e \in ProcessEnds :
    LET clean == ~e.timeout /\ e.exit = 0 /\ ~e.cut IN
    /\ ChunkStatus(v, e) = "done" => clean /\ e.answer \in {"items dropped", "findings"}
    /\ \A w \in Verdicts : Said(v, e, w) # "error" => clean

\* The run keeps no text that must not be kept, whichever sources were late and
\* whatever was left out, and no prompt carries more context than its budget.
ContextsWithheld ==
  LET stored == run.contexts.chunks
      texts == {run.contexts.text} \cup {stored[c] : c \in IF stored = None THEN {} ELSE ChunkSet}
  IN /\ \A bs \in texts : \A i \in Indices(bs) : ~bs[i].secret
     /\ \A p \in Proc : lane[p].told # None => \A c \in ChunkSet :
          Len(chunks) * Cardinality(lane[p].cfg.on) * Size(lane[p].told[c]) <= TotalLimit

\* A review that nobody asked for is dropped only because a readable answer graded
\* the diff below the threshold: a prescreen that fails does not take it away
\* (while the threshold is at most the default grade).
SkippedOnGrade ==
  [][\A p \in Proc : lane'[p].pc = "skip" /\ lane[p].pc # "skip" =>
       /\ job.owner = p => job.kind = "auto"
       /\ screened' # None /\ Below(screened', lane[p].cfg.threshold)]_vars
=============================================================================
