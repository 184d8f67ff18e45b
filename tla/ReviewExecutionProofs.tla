------------------------ MODULE ReviewExecutionProofs ------------------------
(***************************************************************************)
(* Proofs about ReviewExecution, for every diff, every set of sites,       *)
(* processes and places, and any bounds.                                   *)
(***************************************************************************)
EXTENDS ReviewExecution, DiffChunksProofs, SequenceTheorems

---------------------------------------------------------------------------
(* Fields and places                                                      *)

PC == {"idle", "review", "created", "skip", "prepare", "bind", "rows", "start", "ask",
       "combine", "debate", "persist", "ask again", "add"}
LaneFields == {"pc", "auto", "run", "head", "by", "cfg", "told", "cli", "debated", "ask", "answer",
               "found"}
RunFields == {"id", "status", "head", "policy", "bound", "contexts", "tagged"}
JobFields == {"kind", "head", "owner"}
RowStatus == {"none", "running", "done", "canceled"} \cup Failing

\* What people can have set.
Settings == site.changes \cup {site.setting}

EnvOK ==
  /\ site \in Sites /\ chunks = Chunks(Reviewable(site.diff))
  /\ setting \in Settings
  /\ moves \in 0..site.moves /\ head \in 0..moves
  /\ live \in SUBSET Proc

LaneOK(l) ==
  /\ DOMAIN l = LaneFields
  /\ l.pc \in PC
  /\ l.pc \notin {"idle", "review", "start"} => l.cfg \in Settings

LanesOK == DOMAIN lane = Proc /\ \A p \in Proc : LaneOK(lane[p])

JobOK ==
  /\ DOMAIN job = JobFields
  /\ job.kind \in {"none", "auto", "manual", "retry"}
  /\ job.owner \in Proc \cup {None}

RunOK ==
  /\ DOMAIN run = RunFields
  /\ run.id \in 0..site.runs
  /\ run.status \in {"none", "running", "done", "failed", "canceled"}

RowOK(r) == DOMAIN r = {"status", "attempts"} /\ r.status \in RowStatus
RowsOK == DOMAIN row = Vendor /\ \A v \in Vendor : RowOK(row[v])

Base == EnvOK /\ LanesOK /\ JobOK /\ RunOK /\ RowsOK

\* One lane moves on.
LEMMA LaneMoves ==
  ASSUME LanesOK, NEW p \in Proc, UNCHANGED site, NEW l, lane' = [lane EXCEPT ![p] = l], LaneOK(l)
  PROVE  LanesOK'
  BY DEF LanesOK, LaneOK, Settings

\* The lane of p goes on for the same run and job, the others stay where they are.
Moves(p, pcs) ==
  /\ DOMAIN lane' = Proc /\ DOMAIN lane'[p] = LaneFields
  /\ \A q \in Proc : q # p => lane'[q] = lane[q]
  /\ lane'[p].pc \in pcs
GoesOn(p, pcs) ==
  /\ Moves(p, pcs)
  /\ lane'[p].auto = lane[p].auto /\ lane'[p].run = lane[p].run
  /\ lane'[p].head = lane[p].head /\ lane'[p].cfg = lane[p].cfg

LEMMA GoingOn ==
  ASSUME LanesOK, NEW p \in Proc, NEW pcs, GoesOn(p, pcs), UNCHANGED site,
         lane[p].pc \notin {"idle", "review", "start"}, pcs \subseteq PC
  PROVE  LanesOK'
  BY DEF LanesOK, LaneOK, GoesOn, Moves, Settings

LEMMA PrescreenLane ==
  ASSUME LanesOK, NEW p \in Proc, Prescreen(p)
  PROVE  /\ lane[p].pc = "created" /\ GoesOn(p, {"skip", "prepare"})
         /\ UNCHANGED <<dbVars, job, site, chunks, setting, head, live, moves>>
<1>1. \E pc \in {"skip", "prepare"} : lane' = [lane EXCEPT ![p].pc = pc]
  BY DEF Prescreen, Goes
<1>2. QED
  BY <1>1 DEF Prescreen, LanesOK, LaneOK, LaneFields, GoesOn, Moves

LEMMA StoreContextsLane ==
  ASSUME LanesOK, NEW p \in Proc, StoreContexts(p)
  PROVE  /\ lane[p].pc = "prepare" /\ GoesOn(p, {"bind"}) /\ lane[p].cfg.on # {}
<1>1. PICK told : lane' = [lane EXCEPT ![p] = [@ EXCEPT !.pc = "bind", !.told = told]]
  BY DEF StoreContexts
<1>2. QED
  BY <1>1 DEF StoreContexts, LanesOK, LaneOK, LaneFields, GoesOn, Moves

LEMMA BindPolicyLane ==
  ASSUME LanesOK, NEW p \in Proc, BindPolicy(p)
  PROVE  /\ lane[p].pc = "bind" /\ GoesOn(p, {"rows"})
         /\ lane'[p].told = lane[p].told
  BY DEF BindPolicy, LanesOK, LaneOK, LaneFields, GoesOn, Moves

LEMMA AddRowsLane ==
  ASSUME LanesOK, NEW p \in Proc, AddRows(p)
  PROVE  /\ lane[p].pc = "rows" /\ GoesOn(p, {"ask"})
         /\ lane'[p].told = lane[p].told
         /\ lane'[p].ask = [v \in Vendor |-> IF v \in lane[p].cfg.on THEN ChunkSet ELSE {}]
<1>1. PICK ask : /\ ask = [v \in Vendor |-> IF v \in lane[p].cfg.on THEN ChunkSet ELSE {}]
                 /\ lane' = [lane EXCEPT ![p].pc = "ask", ![p].ask = ask]
  BY DEF AddRows
<1>2. QED
  BY <1>1 DEF AddRows, LanesOK, LaneOK, LaneFields, GoesOn, Moves

\* The answers of an attempt.
AskedFor(p, a) ==
  /\ a = [v \in Vendor |-> a[v]]
  /\ \A v \in Vendor : a[v] \in [lane[p].ask[v] -> ChunkAnswers(v)]
  /\ Len(finding) + Len(Found(a)) <= MaxFindings

LEMMA AskVendorsLane ==
  ASSUME LanesOK, NEW p \in Proc, AskVendors(p)
  PROVE  /\ lane[p].pc \in {"ask", "ask again"}
         /\ GoesOn(p, {IF lane[p].pc = "ask" THEN "combine" ELSE "add"})
         /\ lane'[p].told = lane[p].told /\ lane'[p].ask = lane[p].ask
         /\ \E a : AskedFor(p, a) /\ lane'[p].answer = EndsIn(a) /\ lane'[p].found = Found(a)
<1>1. PICK x \in [lane[p].ask["claude"] -> ChunkAnswers("claude")],
           y \in [lane[p].ask["codex"] -> ChunkAnswers("codex")] :
        LET a == [v \in Vendor |-> IF v = "claude" THEN x ELSE y] IN
        /\ Len(finding) + Len(Found(a)) <= MaxFindings
        /\ lane' = [lane EXCEPT ![p] = [@ EXCEPT
             !.pc = IF lane[p].pc = "ask" THEN "combine" ELSE "add",
             !.answer = EndsIn(a), !.found = Found(a)]]
  BY DEF AskVendors
<1>2. PICK a : a = [v \in Vendor |-> IF v = "claude" THEN x ELSE y]
  OBVIOUS
<1>3. AskedFor(p, a)
  BY <1>1, <1>2 DEF AskedFor, Vendor
<1>4. PICK ends, fs : ends = EndsIn(a) /\ fs = Found(a)
  OBVIOUS
<1>5. lane' = [lane EXCEPT ![p] = [@ EXCEPT
        !.pc = IF lane[p].pc = "ask" THEN "combine" ELSE "add", !.answer = ends, !.found = fs]]
  BY <1>1, <1>2, <1>4
<1>6. lane[p].pc \in {"ask", "ask again"}
  BY DEF AskVendors
<1>7. /\ Moves(p, {IF lane[p].pc = "ask" THEN "combine" ELSE "add"})
      /\ lane'[p].answer = ends /\ lane'[p].found = fs
  BY <1>5 DEF LanesOK, LaneOK, LaneFields, Moves
<1>8. /\ lane'[p].auto = lane[p].auto /\ lane'[p].run = lane[p].run
      /\ lane'[p].head = lane[p].head /\ lane'[p].cfg = lane[p].cfg
      /\ lane'[p].told = lane[p].told /\ lane'[p].ask = lane[p].ask
  BY <1>5 DEF LanesOK, LaneOK, LaneFields
<1>9. QED
  BY <1>3, <1>4, <1>6, <1>7, <1>8 DEF GoesOn

\* Scope, duplicates and consensus of a review.
Combined(p) ==
  LET fs == GroupDuplicates(ApplyScope(lane[p].found, ChunkOwner, run.policy.scope),
                            run.policy.dedupe)
  IN IF lane[p].cfg.merge \/ lane[p].cfg.verify THEN Tagged(fs) ELSE fs

LEMMA CombineLane ==
  ASSUME LanesOK, NEW p \in Proc, Combine(p)
  PROVE  /\ lane[p].pc = "combine" /\ GoesOn(p, {"debate", "persist"})
         /\ lane'[p].told = lane[p].told /\ lane'[p].ask = lane[p].ask
         /\ lane'[p].answer = lane[p].answer
         /\ lane'[p].pc = "debate" => ~AllFailed(p) /\ Newest(p) /\ run.policy # None
                                      /\ lane'[p].found = Combined(p)
         /\ lane'[p].pc = "persist" => /\ AllFailed(p) \/ ~Newest(p) \/ run.policy = None
                                       /\ lane'[p].found = lane[p].found
<1>1. CASE (AllFailed(p) \/ ~Newest(p) \/ run.policy = None) /\ Goes(p, "persist")
  BY <1>1 DEF Combine, Goes, LanesOK, LaneOK, LaneFields, GoesOn, Moves
<1>2. CASE /\ ~AllFailed(p) /\ Newest(p) /\ run.policy # None
           /\ \E fs : /\ fs = Combined(p)
                      /\ lane' = [lane EXCEPT ![p] = [@ EXCEPT !.pc = "debate", !.found = fs]]
  BY <1>2 DEF Combine, LanesOK, LaneOK, LaneFields, GoesOn, Moves
<1>3. ASSUME /\ \E scoped \in {ApplyScope(lane[p].found, ChunkOwner, run.policy.scope)} :
                \E fs \in {GroupDuplicates(scoped, run.policy.dedupe)} :
                  lane' = [lane EXCEPT ![p] = [@ EXCEPT !.pc = "debate",
                    !.found = IF lane[p].cfg.merge \/ lane[p].cfg.verify THEN Tagged(fs) ELSE fs]]
      PROVE  \E fs : /\ fs = Combined(p)
                     /\ lane' = [lane EXCEPT ![p] = [@ EXCEPT !.pc = "debate", !.found = fs]]
  BY <1>3 DEF Combined
<1>4. QED
  BY <1>1, <1>2, <1>3 DEF Combine

\* What a debate makes of the findings.
Answered(p, say) ==
  LET said == Debated(lane[p].found, lane[p].cfg, lane[p].by, say)
  IN IF lane[p].cfg.merge THEN InGroupOrder(said) ELSE said
Spoken(p, say) ==
  say \in [IF lane[p].cfg.verify THEN Targets(lane[p].found) ELSE {} -> Says]

LEMMA DebateLane ==
  ASSUME LanesOK, NEW p \in Proc, Debate(p)
  PROVE  /\ lane[p].pc = "debate" /\ GoesOn(p, {"persist"})
         /\ lane'[p].told = lane[p].told /\ lane'[p].ask = lane[p].ask
         /\ lane'[p].answer = lane[p].answer /\ lane'[p].by = lane[p].by
         /\ \E say : Spoken(p, say) /\ lane'[p].found = Answered(p, say)
<1>1. PICK say : /\ Spoken(p, say)
                 /\ lane' = [lane EXCEPT ![p] = [@ EXCEPT !.pc = "persist",
                      !.found = Answered(p, say),
                      !.debated = IF Debaters(p, say) = {} THEN @ ELSE setting.cli]]
  BY Zenon DEF Debate, Spoken, Answered
<1>2. PICK fs, who : fs = Answered(p, say) /\ who = Debaters(p, say)
  OBVIOUS
<1>3. lane' = [lane EXCEPT ![p] = [@ EXCEPT !.pc = "persist", !.found = fs,
                 !.debated = IF who = {} THEN @ ELSE setting.cli]]
  BY <1>1, <1>2
<1>4. /\ GoesOn(p, {"persist"}) /\ lane'[p].told = lane[p].told /\ lane'[p].ask = lane[p].ask
      /\ lane'[p].answer = lane[p].answer /\ lane'[p].by = lane[p].by /\ lane'[p].found = fs
  BY <1>3 DEF LanesOK, LaneOK, LaneFields, GoesOn, Moves
<1>5. QED
  BY <1>1, <1>2, <1>4 DEF Debate

LEMMA RetryStartLane ==
  ASSUME LanesOK, NEW p \in Proc, RetryStart(p)
  PROVE  /\ lane[p].pc = "start"
         /\ \/ (JobMoves(p) \/ JobEnds(p)) /\ Rests(p)
            \/ /\ run.status = "done" /\ run.head = head /\ UNCHANGED job
               /\ Moves(p, {"ask again"})
               /\ lane'[p].auto = lane[p].auto /\ lane'[p].head = lane[p].head
               /\ lane'[p].run = run.id /\ lane'[p].cfg = setting
               /\ lane'[p].told = lane[p].told
               /\ lane'[p].ask = [v \in Vendor |-> IF v \in FailedVendors THEN Unresolved(v) ELSE {}]
<1>1. CASE (JobMoves(p) \/ JobEnds(p)) /\ Rests(p)
  BY <1>1 DEF RetryStart
<1>2. CASE /\ run.status = "done" /\ run.head = head /\ UNCHANGED job
           /\ lane' = [lane EXCEPT ![p] = [@ EXCEPT
                !.pc = "ask again", !.run = run.id, !.cfg = setting, !.cli = setting.cli,
                !.ask = [v \in Vendor |-> IF v \in FailedVendors THEN Unresolved(v) ELSE {}]]]
  <2>1. PICK ask : ask = [v \in Vendor |-> IF v \in FailedVendors THEN Unresolved(v) ELSE {}]
    OBVIOUS
  <2>2. lane' = [lane EXCEPT ![p] = [@ EXCEPT !.pc = "ask again", !.run = run.id, !.cfg = setting,
                                              !.cli = setting.cli, !.ask = ask]]
    BY <1>2, <2>1
  <2>3. lane[p].pc = "start"
    BY DEF RetryStart
  <2>4. /\ Moves(p, {"ask again"})
        /\ lane'[p].auto = lane[p].auto /\ lane'[p].head = lane[p].head
        /\ lane'[p].run = run.id /\ lane'[p].cfg = setting
        /\ lane'[p].told = lane[p].told /\ lane'[p].ask = ask
    BY <2>2 DEF LanesOK, LaneOK, LaneFields, Moves
  <2>5. QED
    BY <1>2, <2>1, <2>3, <2>4
<1>3. QED
  BY <1>1, <1>2 DEF RetryStart

LEMMA IdleOK == LaneOK(IdleLane)
  BY DEF LaneOK, IdleLane, LaneFields, PC

LEMMA Resting ==
  ASSUME LanesOK, NEW p \in Proc, UNCHANGED site, Rests(p)
  PROVE  LanesOK'
  BY IdleOK, LaneMoves DEF Rests

LEMMA Same ==
  ASSUME Base, UNCHANGED <<dbVars, site, chunks>>
  PROVE  RunOK' /\ RowsOK'
  BY DEF Base, RunOK, RowsOK, RowOK, dbVars

LEMMA EnvSame ==
  ASSUME EnvOK, UNCHANGED envVars
  PROVE  EnvOK'
  BY DEF EnvOK, envVars, Settings

LEMMA JobEnding ==
  ASSUME JobOK, NEW p \in Proc, JobEnds(p)
  PROVE  JobOK'
  BY DEF JobOK, JobEnds, NoJob, JobFields

LEMMA JobFailing ==
  ASSUME JobOK, NEW p \in Proc, JobFails(p)
  PROVE  JobOK'
  BY JobEnding DEF JobOK, JobFails, JobFields

LEMMA JobMoving ==
  ASSUME JobOK, NEW p \in Proc, JobMoves(p)
  PROVE  JobOK'
  BY DEF JobOK, JobMoves, JobFields


LEMMA ClaimBase ==
  ASSUME Base, NEW p \in Proc, Claim(p)
  PROVE  Base'
<1>1. RunOK' /\ RowsOK' /\ EnvOK'
  BY Same, EnvSame DEF Base, Claim, envVars
<1>2. JobOK'
  BY DEF Base, Claim, JobOK, JobFields
<1>3. PICK pc \in {"start", "review"} :
        lane' = [lane EXCEPT ![p] = [IdleLane EXCEPT !.pc = pc, !.auto = (job.kind = "auto"),
                                                     !.head = job.head, !.by = setting.on]]
  BY DEF Claim
<1>4. LaneOK([IdleLane EXCEPT !.pc = pc, !.auto = (job.kind = "auto"), !.head = job.head,
                              !.by = setting.on])
  BY DEF LaneOK, IdleLane, LaneFields, PC
<1>5. LanesOK'
  BY <1>3, <1>4, LaneMoves DEF Base, Claim, envVars
<1>6. QED
  BY <1>1, <1>2, <1>5 DEF Base

LEMMA CreateRunBase ==
  ASSUME Base, NEW p \in Proc, CreateRun(p)
  PROVE  Base'
<1>1. EnvOK'
  BY EnvSame DEF Base, CreateRun
<1>2. CASE (JobMoves(p) \/ JobEnds(p)) /\ Rests(p) /\ UNCHANGED dbVars
  <2>1. JobOK' /\ LanesOK'
    BY <1>2, JobMoving, JobEnding, Resting DEF Base, CreateRun, envVars
  <2>2. RunOK' /\ RowsOK'
    BY <1>2, Same DEF CreateRun, envVars
  <2>3. QED
    BY <1>1, <2>1, <2>2 DEF Base
<1>3. CASE /\ lane[p].head = head
           /\ run.id < site.runs
           /\ run' = [NoRun EXCEPT !.id = run.id + 1, !.status = "running", !.head = head]
           /\ row' = [v \in Vendor |-> NoRow]
           /\ lane' = [lane EXCEPT ![p] = [@ EXCEPT !.pc = "created", !.run = run.id + 1,
                                                    !.cfg = setting]]
           /\ UNCHANGED job
  <2>1. LaneOK(lane[p]) /\ setting \in Settings
    BY DEF Base, LanesOK, EnvOK
  <2>2. LaneOK([lane[p] EXCEPT !.pc = "created", !.run = run.id + 1, !.cfg = setting])
    BY <2>1 DEF LaneOK, LaneFields, PC
  <2>3. LanesOK'
    BY <1>3, <2>2, LaneMoves DEF Base, CreateRun, envVars
  <2>4. RunOK'
    <3>1. run.id \in Nat /\ site.runs \in Nat /\ site' = site
      BY SiteAssumption DEF Base, RunOK, EnvOK, CreateRun, envVars
    <3>2. run.id + 1 \in 0..site.runs
      BY <1>3, <3>1
    <3>3. QED
      BY <1>3, <3>1, <3>2 DEF RunOK, RunFields, NoRun
  <2>5. RowsOK'
    BY <1>3 DEF RowsOK, RowOK, NoRow, RowStatus
  <2>6. JobOK'
    BY <1>3 DEF Base, JobOK
  <2>7. QED
    BY <1>1, <2>3, <2>4, <2>5, <2>6 DEF Base
<1>4. QED
  BY <1>2, <1>3 DEF CreateRun

LEMMA PrescreenBase ==
  ASSUME Base, NEW p \in Proc, Prescreen(p)
  PROVE  Base'
<1>1. /\ lane[p].pc = "created" /\ GoesOn(p, {"skip", "prepare"})
      /\ UNCHANGED <<dbVars, job, site, chunks, setting, head, live, moves>>
  BY PrescreenLane DEF Base
<1>2. EnvOK' /\ JobOK' /\ RunOK' /\ RowsOK'
  <2>1. RunOK' /\ RowsOK'
    BY <1>1, Same
  <2>2. EnvOK' /\ JobOK'
    BY <1>1 DEF Base, EnvOK, JobOK, Settings
  <2>3. QED
    BY <2>1, <2>2
<1>3. LanesOK'
  BY <1>1, GoingOn DEF Base, PC
<1>4. QED
  BY <1>2, <1>3 DEF Base

LEMMA NothingBase ==
  ASSUME Base, NEW p \in Proc, Nothing(p)
  PROVE  Base'
<1>1. JobOK'
  BY JobEnding, JobMoving DEF Base, Nothing
<1>2. LanesOK' /\ EnvOK'
  BY Resting, EnvSame DEF Base, Nothing, envVars
<1>3. RunOK' /\ RowsOK'
  BY DEF Base, Nothing, Closes, RunOK, RunFields, RowsOK, RowOK, envVars
<1>4. QED
  BY <1>1, <1>2, <1>3 DEF Base

LEMMA StoreContextsBase ==
  ASSUME Base, NEW p \in Proc, StoreContexts(p)
  PROVE  Base'
<1>1. EnvOK' /\ JobOK'
  BY EnvSame DEF Base, StoreContexts, JobOK, envVars
<1>2. LanesOK'
  BY StoreContextsLane, GoingOn DEF Base, StoreContexts, PC, envVars
<1>3. RunOK' /\ RowsOK'
  BY DEF Base, StoreContexts, RunOK, RunFields, RowsOK, RowOK, NoRow, RowStatus, envVars
<1>4. QED
  BY <1>1, <1>2, <1>3 DEF Base

LEMMA BindPolicyBase ==
  ASSUME Base, NEW p \in Proc, BindPolicy(p)
  PROVE  Base'
<1>1. EnvOK' /\ JobOK'
  BY EnvSame DEF Base, BindPolicy, JobOK, envVars
<1>2. LanesOK'
  BY BindPolicyLane, GoingOn DEF Base, BindPolicy, PC, envVars
<1>3. RunOK' /\ RowsOK'
  BY DEF Base, BindPolicy, RunOK, RunFields, RowsOK, RowOK, NoRow, RowStatus, envVars
<1>4. QED
  BY <1>1, <1>2, <1>3 DEF Base

LEMMA AddRowsBase ==
  ASSUME Base, NEW p \in Proc, AddRows(p)
  PROVE  Base'
<1>1. EnvOK' /\ JobOK'
  BY EnvSame DEF Base, AddRows, JobOK, envVars
<1>2. LanesOK'
  BY AddRowsLane, GoingOn DEF Base, AddRows, PC, envVars
<1>3. RunOK' /\ RowsOK'
  BY DEF Base, AddRows, RunOK, RunFields, RowsOK, RowOK, NoRow, RowStatus, envVars
<1>4. QED
  BY <1>1, <1>2, <1>3 DEF Base

LEMMA AskVendorsBase ==
  ASSUME Base, NEW p \in Proc, AskVendors(p)
  PROVE  Base'
<1>1. EnvOK' /\ JobOK'
  BY EnvSame DEF Base, AskVendors, JobOK, envVars
<1>2. LanesOK'
  BY AskVendorsLane, GoingOn DEF Base, AskVendors, PC, envVars
<1>3. RunOK' /\ RowsOK'
  BY Same DEF AskVendors, envVars
<1>4. QED
  BY <1>1, <1>2, <1>3 DEF Base

LEMMA CombineBase ==
  ASSUME Base, NEW p \in Proc, Combine(p)
  PROVE  Base'
<1>1. EnvOK' /\ JobOK'
  BY EnvSame DEF Base, Combine, JobOK, envVars
<1>2. LanesOK'
  BY CombineLane, GoingOn DEF Base, Combine, PC, envVars
<1>3. RunOK' /\ RowsOK'
  BY Same DEF Combine, envVars
<1>4. QED
  BY <1>1, <1>2, <1>3 DEF Base

LEMMA DebateBase ==
  ASSUME Base, NEW p \in Proc, Debate(p)
  PROVE  Base'
<1>1. EnvOK' /\ JobOK'
  BY EnvSame DEF Base, Debate, JobOK, envVars
<1>2. LanesOK'
  BY DebateLane, GoingOn DEF Base, Debate, PC, envVars
<1>3. RunOK' /\ RowsOK'
  BY Same DEF Debate, envVars
<1>4. QED
  BY <1>1, <1>2, <1>3 DEF Base

LEMMA LeaseLostBase ==
  ASSUME Base, NEW p \in Proc, LeaseLost(p)
  PROVE  Base'
  BY Same, EnvSame, Resting DEF Base, LeaseLost, envVars, JobOK

LEMMA FinishedOK ==
  ASSUME RowsOK, NEW p \in Proc, NEW ends
  PROVE  /\ DOMAIN FinishedRows(p, ends) = Vendor
         /\ \A v \in Vendor : RowOK(FinishedRows(p, ends)[v])
  BY DEF RowsOK, FinishedRows, RowOK, Finished, VendorStatus, RowStatus, Failing

LEMMA PersistAllFailedBase ==
  ASSUME Base, NEW p \in Proc, PersistAllFailed(p)
  PROVE  Base'
<1>1. JobOK' /\ LanesOK' /\ EnvOK'
  BY JobFailing, Resting, EnvSame DEF Base, PersistAllFailed, envVars
<1>2. RunOK' /\ RowsOK'
  BY FinishedOK DEF Base, PersistAllFailed, RunOK, RunFields, RowsOK, envVars, RowOK
<1>3. QED
  BY <1>1, <1>2 DEF Base

LEMMA PersistStaleBase ==
  ASSUME Base, NEW p \in Proc, PersistStale(p)
  PROVE  Base'
<1>1. JobOK' /\ LanesOK' /\ EnvOK'
  BY JobMoving, Resting, EnvSame DEF Base, PersistStale, envVars
<1>2. RunOK'
  BY DEF Base, PersistStale, RunOK, RunFields, envVars
<1>3. RowsOK'
  BY FinishedOK DEF Base, PersistStale, RowsOK, RowOK, CanceledRows, RowStatus
<1>4. QED
  BY <1>1, <1>2, <1>3 DEF Base

LEMMA PersistBase ==
  ASSUME Base, NEW p \in Proc, Persist(p)
  PROVE  Base'
<1>1. JobOK' /\ LanesOK' /\ EnvOK'
  BY JobEnding, Resting, EnvSame DEF Base, Persist, envVars
<1>2. RunOK'
  BY DEF Base, Persist, RunOK, RunFields, envVars
<1>3. RowsOK'
  BY FinishedOK DEF Base, Persist, RowsOK
<1>4. QED
  BY <1>1, <1>2, <1>3 DEF Base

LEMMA ReviewFailsBase ==
  ASSUME Base, NEW p \in Proc, ReviewFails(p)
  PROVE  Base'
<1>1. JobOK' /\ LanesOK' /\ EnvOK'
  BY JobFailing, Resting, EnvSame DEF Base, ReviewFails, RunFails, envVars
<1>2. RunOK' /\ RowsOK'
  BY DEF Base, ReviewFails, RunFails, RunOK, RunFields, RowsOK, RowOK, envVars
<1>3. QED
  BY <1>1, <1>2 DEF Base

LEMMA RetryRefusedBase ==
  ASSUME Base, NEW p \in Proc, RetryRefused(p)
  PROVE  Base'
  BY JobEnding, Resting, EnvSame, Same DEF Base, RetryRefused, envVars

LEMMA RetryStartBase ==
  ASSUME Base, NEW p \in Proc, RetryStart(p)
  PROVE  Base'
<1>1. RunOK' /\ RowsOK' /\ EnvOK'
  BY Same, EnvSame DEF Base, RetryStart, envVars
<1>2. CASE (JobMoves(p) \/ JobEnds(p)) /\ Rests(p)
  BY <1>1, <1>2, JobEnding, JobMoving, Resting DEF Base, RetryStart, envVars
<1>3. CASE UNCHANGED job /\ Moves(p, {"ask again"}) /\ lane'[p].cfg = setting
  <2>1. LanesOK'
    BY <1>3 DEF Base, Moves, RetryStart, LanesOK, LaneOK, PC, Settings, EnvOK, envVars
  <2>2. JobOK'
    BY <1>3 DEF Base, JobOK
  <2>3. QED
    BY <1>1, <2>1, <2>2 DEF Base
<1>4. QED
  BY <1>2, <1>3, RetryStartLane DEF Base

LEMMA RetryFailsBase ==
  ASSUME Base, NEW p \in Proc, RetryFails(p)
  PROVE  Base'
  BY JobFailing, Resting, EnvSame, Same DEF Base, RetryFails, envVars

LEMMA RetryStaleBase ==
  ASSUME Base, NEW p \in Proc, RetryStale(p)
  PROVE  Base'
  BY JobMoving, Resting, EnvSame, Same DEF Base, RetryStale, envVars

LEMMA RetryAddsBase ==
  ASSUME Base, NEW p \in Proc, RetryAdds(p)
  PROVE  Base'
<1>1. JobOK' /\ LanesOK' /\ EnvOK'
  BY JobEnding, Resting, EnvSame DEF Base, RetryAdds, envVars
<1>2. RunOK'
  BY DEF Base, RetryAdds, RunOK, RunFields, envVars
<1>3. RowsOK'
  BY FinishedOK DEF Base, RetryAdds, RowsOK
<1>4. QED
  BY <1>1, <1>2, <1>3 DEF Base

LEMMA TimeoutBase ==
  ASSUME Base, NEW p \in Proc, Timeout(p)
  PROVE  Base'
<1>1. JobOK' /\ LanesOK' /\ EnvOK'
  BY JobFailing, Resting, EnvSame DEF Base, Timeout, envVars
<1>2. RunOK' /\ RowsOK'
  BY DEF Base, Timeout, RunOK, RunFields, RowsOK, RowOK, RowStatus, Failing, envVars
<1>3. QED
  BY <1>1, <1>2 DEF Base

LEMMA MovedOK ==
  ASSUME Base, Moved, site' = site
  PROVE  moves' \in 0..site'.moves /\ moves' = moves + 1 /\ head \in 0..moves' /\ head + 1 \in 0..moves'
  BY SiteAssumption DEF Base, EnvOK, Moved

LEMMA CrashBase ==
  ASSUME Base, NEW p \in Proc, Crash(p)
  PROVE  Base'
<1>1. site' = site /\ moves' \in 0..site'.moves /\ head' \in 0..moves'
  BY MovedOK DEF Crash
<1>2. EnvOK' /\ JobOK'
  BY <1>1 DEF Base, EnvOK, JobOK, Crash, Settings
<1>3. RunOK' /\ RowsOK' /\ LanesOK'
  BY Same, Resting DEF Base, Crash
<1>4. QED
  BY <1>2, <1>3 DEF Base

LEMMA LeaseExpiresBase ==
  ASSUME Base, NEW p \in Proc, LeaseExpires(p)
  PROVE  Base'
<1>1. site' = site /\ moves' \in 0..site'.moves /\ head' \in 0..moves'
  BY MovedOK DEF LeaseExpires
<1>2. EnvOK' /\ JobOK' /\ LanesOK'
  BY <1>1 DEF Base, EnvOK, JobOK, LeaseExpires, Settings, LanesOK, LaneOK
<1>3. RunOK' /\ RowsOK'
  BY Same DEF LeaseExpires
<1>4. QED
  BY <1>2, <1>3 DEF Base

LEMMA LanesSame ==
  ASSUME LanesOK, UNCHANGED <<lane, site>>
  PROVE  LanesOK'
  BY DEF LanesOK, LaneOK, Settings

LEMMA RecoverBase ==
  ASSUME Base, Recover
  PROVE  Base'
<1>1. LanesOK' /\ EnvOK'
  BY LanesSame, EnvSame DEF Base, Recover, envVars
<1>2. JobOK'
  BY DEF Base, Recover, JobOK, JobFields
<1>3. RunOK' /\ RowsOK'
  BY DEF Base, Recover, RunOK, RunFields, RowsOK, RowOK, RowStatus, Failing, envVars
<1>4. QED
  BY <1>1, <1>2, <1>3 DEF Base

LEMMA RequestBase ==
  ASSUME Base, RequestRetry \/ RequestReview
  PROVE  Base'
<1>1. LanesOK' /\ EnvOK' /\ RunOK' /\ RowsOK'
  BY LanesSame, EnvSame, Same DEF Base, RequestRetry, RequestReview, envVars
<1>2. JobOK'
  BY DEF RequestRetry, RequestReview, JobOK, JobFields
<1>3. QED
  BY <1>1, <1>2 DEF Base

LEMMA PeopleBase ==
  ASSUME Base, FindingChanges \/ SettingChanges \/ ContextsExpire \/ HeadMoves
  PROVE  Base'
<1>1. site' = site /\ chunks' = chunks /\ live' = live /\ job' = job /\ lane' = lane /\ row' = row
  BY DEF FindingChanges, SettingChanges, ContextsExpire, HeadMoves, dbVars
<1>2. setting' \in Settings /\ head' \in {head, head + 1} /\ Moved
  BY DEF FindingChanges, SettingChanges, ContextsExpire, HeadMoves, Base, EnvOK, Settings
<1>3. EnvOK'
  BY <1>1, <1>2, MovedOK DEF Base, EnvOK, Settings
<1>4. LanesOK' /\ JobOK' /\ RowsOK'
  BY <1>1, LanesSame DEF Base, JobOK, RowsOK, RowOK
<1>5. RunOK'
  BY <1>1 DEF Base, RunOK, RunFields, FindingChanges, SettingChanges, ContextsExpire, HeadMoves, dbVars
<1>6. QED
  BY <1>3, <1>4, <1>5 DEF Base

LEMMA BaseStep ==
  ASSUME Base, Next
  PROVE  Base'
<1>1. ASSUME NEW p \in Proc,
             \/ Claim(p) \/ CreateRun(p) \/ Prescreen(p) \/ Nothing(p) \/ StoreContexts(p)
             \/ BindPolicy(p) \/ AddRows(p) \/ AskVendors(p) \/ Combine(p) \/ Debate(p)
             \/ LeaseLost(p) \/ PersistAllFailed(p) \/ PersistStale(p) \/ Persist(p)
             \/ ReviewFails(p) \/ RetryRefused(p) \/ RetryStart(p) \/ RetryFails(p)
             \/ RetryStale(p) \/ RetryAdds(p) \/ Timeout(p) \/ Crash(p) \/ LeaseExpires(p)
      PROVE  Base'
  BY <1>1, ClaimBase, CreateRunBase, PrescreenBase, NothingBase, StoreContextsBase,
     BindPolicyBase, AddRowsBase, AskVendorsBase, CombineBase, DebateBase, LeaseLostBase,
     PersistAllFailedBase, PersistStaleBase, PersistBase, ReviewFailsBase, RetryRefusedBase,
     RetryStartBase, RetryFailsBase, RetryStaleBase, RetryAddsBase, TimeoutBase, CrashBase,
     LeaseExpiresBase
<1>2. QED
  BY <1>1, RecoverBase, RequestBase, PeopleBase DEF Next

LEMMA BaseInit == Init => Base
<1> SUFFICES ASSUME Init PROVE Base
  OBVIOUS
<1>1. EnvOK
  BY SiteAssumption DEF Init, EnvOK, Settings
<1>2. LanesOK
  BY IdleOK DEF Init, LanesOK
<1>3. JobOK /\ RunOK /\ RowsOK
  BY SiteAssumption DEF Init, JobOK, JobFields, RunOK, RunFields, NoRun, RowsOK, RowOK, NoRow, RowStatus
<1>4. QED
  BY <1>1, <1>2, <1>3 DEF Base

---------------------------------------------------------------------------
(* Answers that count                                                     *)

\* Whatever the CLI: a good status comes from a process that ended well, and what it
\* says is read out of its final message, or nothing.
LEMMA CleanProcess ==
  ASSUME NEW v, NEW e \in ProcessEnds, NEW x,
         x = IF v = "claude" THEN Claude(e) ELSE Codex(e), x.status = "done"
  PROVE  /\ x.answer \in {"none", e.answer}
         /\ x.answer # "none" => e.exit = 0 /\ ~e.cut
<1>1. x \in {Legacy(e), ClaudeEvents(e), CodexEvents(e)}
  BY DEF Claude, Codex
<1>2. CASE x = Legacy(e)
  BY <1>2 DEF Legacy, Ended
<1>3. CASE x = ClaudeEvents(e)
  <2>1. PICK results : results = SelectSeq(e.events, LAMBDA t : t \in {"result", "result error"})
    OBVIOUS
  <2>2. x = IF ~e.schema
            THEN Ended(IF e.exit = 0 THEN "done" ELSE "failed", "none")
            ELSE Ended(IF /\ e.exit = 0 /\ ~e.cut
                          /\ results # <<>> => Last(results) = "result"
                       THEN "done" ELSE "failed",
                       IF results = <<>> THEN "none" ELSE e.answer)
    BY <1>3, <2>1, Zenon DEF ClaudeEvents
  <2>3. QED
    BY <2>2 DEF Ended
<1>4. CASE x = CodexEvents(e)
  BY <1>4 DEF CodexEvents, Ended
<1>5. QED
  BY <1>1, <1>2, <1>3, <1>4

LEMMA CleanChunk ==
  ASSUME NEW v, NEW e \in ProcessEnds, ChunkStatus(v, e) = "done"
  PROVE  ~e.timeout /\ e.exit = 0 /\ ~e.cut /\ e.answer \in {"items dropped", "findings"}
<1>1. PICK x : x = IF v = "claude" THEN Claude(e) ELSE Codex(e)
  OBVIOUS
<1>2. ~e.timeout /\ x.status = "done" /\ Readable(x.answer)
  <2>1. ChunkStatus(v, e) =
          IF e.timeout THEN "timeout"
          ELSE IF x.status = "done" /\ Readable(x.answer) THEN "done" ELSE "failed"
    BY <1>1, Zenon DEF ChunkStatus
  <2>2. QED
    BY <2>1
<1>3. x.answer \in {"none", e.answer} /\ (x.answer # "none" => e.exit = 0 /\ ~e.cut)
  BY <1>1, <1>2, CleanProcess
<1>4. x.answer \in {"items dropped", "findings"}
  BY <1>2 DEF Readable
<1>5. QED
  BY <1>2, <1>3, <1>4

LEMMA CleanVerdict ==
  ASSUME NEW v, NEW e \in ProcessEnds, NEW w, Said(v, e, w) # "error"
  PROVE  ~e.timeout /\ e.exit = 0 /\ ~e.cut
<1>1. PICK x : x = IF v = "claude" THEN Claude(e) ELSE Codex(e)
  OBVIOUS
<1>2. ~e.timeout /\ x.status = "done" /\ x.answer # "none"
  BY <1>1 DEF Said
<1>3. QED
  BY <1>1, <1>2, CleanProcess

\* Whatever the CLI prints: a chunk counts as reviewed, and a verdict as given, only
\* after a process that ended well and was read to the end (ChunkStatus, Said).
THEOREM AnswersClean == Spec => []CleanAnswers
<1>1. CleanAnswers
  BY CleanChunk, CleanVerdict DEF CleanAnswers
<1>2. QED
  BY <1>1, PTL

THEOREM BaseHolds == Spec => []Base
<1>1. Init => Base
  BY BaseInit
<1>2. Base /\ [Next]_vars => Base'
  <2>1. CASE Next
    BY <2>1, BaseStep
  <2>2. CASE UNCHANGED vars
    BY <2>2 DEF vars, Base, EnvOK, Settings, LanesOK, LaneOK, JobOK, RunOK, RowsOK, RowOK
  <2>3. QED
    BY <2>1, <2>2
<1>3. QED
  BY <1>1, <1>2, PTL DEF Spec

---------------------------------------------------------------------------
(* Every added line in one chunk                                          *)

LEMMA ReviewableFormed ==
  ASSUME NEW diff, WellFormed(diff)
  PROVE  /\ WellFormed(Reviewable(diff))
         /\ \A i \in 1..Len(Reviewable(diff)) : \E j \in 1..Len(diff) :
              ~IsNoise(diff[j]) /\ Reviewable(diff)[i] = diff[j]
         /\ \A j \in 1..Len(diff) : ~IsNoise(diff[j]) =>
              \E i \in 1..Len(Reviewable(diff)) : Reviewable(diff)[i] = diff[j]
<1> DEFINE kept == {i \in 1..Len(diff) : ~IsNoise(diff[i])}
           F == Reviewable(diff)
<1>1. diff \in Seq(DiffBlock) /\ F = Only(diff, kept)
  BY DEF WellFormed, Reviewable
<1> HIDE DEF F
<1>2. PICK pos \in [1..Len(F) -> Nat] : Keeps(F, diff, kept, pos)
  BY <1>1, OnlyPlaces
<1>3. F \in Seq(DiffBlock)
  BY <1>1, OnlyPlaces
<1>4. \A i \in 1..Len(F) : pos[i] \in 1..Len(diff) /\ ~IsNoise(diff[pos[i]]) /\ F[i] = diff[pos[i]]
  BY <1>2 DEF Keeps
<1>5. \A j \in 1..Len(diff) : ~IsNoise(diff[j]) => \E i \in 1..Len(F) : pos[i] = j
  BY <1>2 DEF Keeps
<1>6. ASSUME NEW i \in 1..Len(F), NEW j \in 1..Len(F), i # j, F[i].path # ""
      PROVE  F[i].path # F[j].path
  <2>1. Len(F) \in Nat
    BY <1>3
  <2>2. i < j \/ j < i
    <3>1. i # j
      BY <1>6, Zenon
    <3>2. QED
      BY <2>1, <3>1
  <2>3. pos[i] < pos[j] \/ pos[j] < pos[i]
    BY <1>2, <2>2 DEF Keeps
  <2>4. pos[i] \in Nat /\ pos[j] \in Nat
    BY <1>2
  <2>5. pos[i] # pos[j]
    BY <2>3, <2>4
  <2>6. \A k, m \in 1..Len(diff) :
          k # m /\ diff[k].path # "" => diff[k].path # diff[m].path
    BY Zenon DEF WellFormed
  <2>7. F[i] = diff[pos[i]] /\ F[j] = diff[pos[j]] /\ pos[i] \in 1..Len(diff) /\ pos[j] \in 1..Len(diff)
    BY <1>4, Zenon
  <2>8. QED
    BY <1>6, <2>5, <2>6, <2>7, Zenon
<1>7. \A i \in 1..Len(F) : HunksFollow(F[i].hunks)
  <2>1. \A i \in 1..Len(diff) : HunksFollow(diff[i].hunks)
    BY Zenon DEF WellFormed
  <2>2. QED
    BY <1>4, <2>1
<1>8. WellFormed(F)
  BY <1>3, <1>6, <1>7 DEF WellFormed
<1>9. QED
  BY <1>4, <1>5, <1>8 DEF F

\* The added lines of a block whose name can be read, by the position of each line
\* in its hunk; those of another block belong to nobody.
LEMMA AddedLines ==
  ASSUME NEW block \in DiffBlock, HunksFollow(block.hunks), block.path # ""
  PROVE  ChangedLines(block)
           = UNION {AddedIn(block.path, block.hunks[k]) : k \in 1..Len(block.hunks)}
<1> DEFINE us == BlockUnits(block)
           hs == block.hunks
<1>1. block.path \in STRING /\ us \in Seq(Unit) /\ UnitsOf(us, hs)
  BY BlockUnitsNumbers DEF DiffBlock
<1>2. ChangedLines(block) = Owned(block.path, us)
  BY DEF ChangedLines
<1>20. PICK path : path = block.path
  OBVIOUS
<1> HIDE DEF us, hs
<1>3. \A x : x \in ChangedLines(block) <=> \E v \in News(us) : x = <<block.path, v>>
  <2>1. path \in STRING
    BY <1>1, <1>20
  <2>2. \A x : x \in Owned(path, us) <=> path # "" /\ \E v \in News(us) : x = <<path, v>>
    BY <1>1, <2>1, OwnedNews
  <2>3. QED
    BY <1>2, <1>20, <2>2, Zenon
<1>4. ASSUME NEW v
      PROVE  v \in News(us) <=>
               \E k \in 1..Len(hs) : \E q \in 1..Len(hs[k].lines) :
                 hs[k].lines[q].kind = "add" /\ v = NumberAt(hs[k], q)
  <2>1. v \in News(us) <=> \E i \in Adds(us) : v = us[i].new
    BY Zenon DEF News
  <2>2. \A i \in Adds(us) : \E k \in 1..Len(hs) : \E q \in 1..Len(hs[k].lines) :
          hs[k].lines[q].kind = "add" /\ us[i].new = NumberAt(hs[k], q)
    BY <1>1, Zenon DEF UnitsOf
  <2>3. \A k \in 1..Len(hs) : \A q \in 1..Len(hs[k].lines) :
          hs[k].lines[q].kind = "add" => \E i \in Adds(us) : us[i].new = NumberAt(hs[k], q)
    BY <1>1, Zenon DEF UnitsOf
  <2>4. ASSUME v \in News(us)
        PROVE  \E k \in 1..Len(hs) : \E q \in 1..Len(hs[k].lines) :
                 hs[k].lines[q].kind = "add" /\ v = NumberAt(hs[k], q)
    <3>1. PICK i \in Adds(us) : v = us[i].new
      BY <2>1, <2>4
    <3>2. QED
      BY <2>2, <3>1
  <2>5. ASSUME NEW k \in 1..Len(hs), NEW q \in 1..Len(hs[k].lines),
               hs[k].lines[q].kind = "add" /\ v = NumberAt(hs[k], q)
        PROVE  v \in News(us)
    <3>1. PICK i \in Adds(us) : us[i].new = NumberAt(hs[k], q)
      BY <2>3, <2>5
    <3>2. QED
      BY <2>1, <2>5, <3>1
  <2>6. QED
    BY <2>4, <2>5
<1>5. ASSUME NEW k \in 1..Len(hs), NEW x
      PROVE  x \in AddedIn(block.path, hs[k]) <=>
               \E q \in 1..Len(hs[k].lines) :
                 hs[k].lines[q].kind = "add" /\ x = <<block.path, NumberAt(hs[k], q)>>
  BY Zenon DEF AddedIn, NumberAt, NewLines, CountsNew
<1>6. ASSUME NEW x PROVE x \in ChangedLines(block) <=>
                           \E k \in 1..Len(hs) : x \in AddedIn(block.path, hs[k])
  <2>1. ASSUME x \in ChangedLines(block)
        PROVE  \E k \in 1..Len(hs) : x \in AddedIn(block.path, hs[k])
    <3>1. PICK v \in News(us) : x = <<block.path, v>>
      BY <1>3, <2>1, Zenon
    <3>2. PICK k \in 1..Len(hs) : \E q \in 1..Len(hs[k].lines) :
            hs[k].lines[q].kind = "add" /\ v = NumberAt(hs[k], q)
      BY <1>4, Zenon
    <3>3. x \in AddedIn(block.path, hs[k])
      BY <1>5, <3>1, <3>2, Zenon
    <3>4. QED
      BY <3>3
  <2>2. ASSUME NEW k \in 1..Len(hs), x \in AddedIn(block.path, hs[k])
        PROVE  x \in ChangedLines(block)
    <3>1. PICK q \in 1..Len(hs[k].lines) :
            hs[k].lines[q].kind = "add" /\ x = <<block.path, NumberAt(hs[k], q)>>
      BY <1>5, <2>2, Zenon
    <3>2. NumberAt(hs[k], q) \in News(us)
      BY <1>4, <3>1, Zenon
    <3>3. QED
      BY <1>3, <3>1, <3>2, Zenon
  <2>3. QED
    BY <2>1, <2>2
<1>7. QED
  BY <1>6, Zenon DEF hs

LEMMA NamelessLines ==
  ASSUME NEW block, block.path = ""
  PROVE  ChangedLines(block) = {}
<1>1. PICK us : us = BlockUnits(block)
  OBVIOUS
<1>2. Owned("", us) = {}
  <2>1. {j \in 1..Len(us) : "" # "" /\ us[j].kind = "add"} = {}
    OBVIOUS
  <2>2. QED
    BY <2>1 DEF Owned
<1>3. QED
  BY <1>1, <1>2 DEF ChangedLines

LEMMA PartitionHolds ==
  ASSUME Base
  PROVE  ChunksPartition
<1> DEFINE d == site.diff
           r == Reviewable(d)
           added == UNION {UNION {AddedIn(d[i].path, d[i].hunks[k]) : k \in 1..Len(d[i].hunks)} :
                           i \in {j \in 1..Len(d) : d[j].path # "" /\ ~d[j].noise}}
<1>1. WellFormed(d) /\ chunks = Chunks(r)
  BY SiteAssumption DEF Base, EnvOK
<1>2. /\ WellFormed(r)
      /\ \A i \in 1..Len(r) : \E j \in 1..Len(d) : ~IsNoise(d[j]) /\ r[i] = d[j]
      /\ \A j \in 1..Len(d) : ~IsNoise(d[j]) => \E i \in 1..Len(r) : r[i] = d[j]
  BY <1>1, ReviewableFormed
<1> HIDE DEF r
<1>3. chunks \in Seq(Piece) /\ Covers(chunks, AllLines(r))
  BY <1>1, <1>2, ChunksCover
<1>4. UNION {chunks[c].owned : c \in 1..Len(chunks)} = AllLines(r)
  <2>1. PICK L, n : L = AllLines(r) /\ n = Len(chunks)
    OBVIOUS
  <2>2. /\ \A c \in 1..n : chunks[c].owned \subseteq L
        /\ \A x \in L : \E c \in 1..n : x \in chunks[c].owned
    BY <1>3, <2>1, Zenon DEF Covers
  <2>3. UNION {chunks[c].owned : c \in 1..n} = L
    BY <2>2, Zenon
  <2>4. QED
    BY <2>1, <2>3
<1>5. ~Refused(chunks, r)
  BY <1>3, <1>4, Zenon DEF Refused, Covers, AllLines
<1>6. ASSUME NEW i \in 1..Len(d)
      PROVE  ChangedLines(d[i]) =
               IF d[i].path = "" THEN {}
               ELSE UNION {AddedIn(d[i].path, d[i].hunks[k]) : k \in 1..Len(d[i].hunks)}
  <2>1. d[i] \in DiffBlock /\ HunksFollow(d[i].hunks)
    <3>1. d \in Seq(DiffBlock) /\ \A k \in 1..Len(d) : HunksFollow(d[k].hunks)
      BY <1>1, Zenon DEF WellFormed
    <3>2. QED
      BY <3>1
  <2>2. CASE d[i].path = ""
    BY <2>2, NamelessLines
  <2>3. CASE d[i].path # ""
    BY <2>1, <2>3, AddedLines
  <2>4. QED
    BY <2>2, <2>3
<1>7. ASSUME NEW x PROVE x \in AllLines(r) <=> x \in added
  <2>1. x \in AllLines(r) <=> \E i \in 1..Len(r) : x \in ChangedLines(r[i])
    BY Zenon DEF AllLines
  <2>2. x \in AllLines(r) <=> \E j \in 1..Len(d) : ~IsNoise(d[j]) /\ x \in ChangedLines(d[j])
    BY <1>2, <2>1, Zenon
  <2>3. x \in added <=> \E j \in 1..Len(d) :
           /\ d[j].path # "" /\ ~d[j].noise
           /\ x \in UNION {AddedIn(d[j].path, d[j].hunks[k]) : k \in 1..Len(d[j].hunks)}
    BY Zenon
  <2>30. ASSUME NEW j \in 1..Len(d)
         PROVE  ~IsNoise(d[j]) /\ x \in ChangedLines(d[j])
                  <=> /\ d[j].path # "" /\ ~d[j].noise
                      /\ x \in UNION {AddedIn(d[j].path, d[j].hunks[k]) : k \in 1..Len(d[j].hunks)}
    <3>1. CASE d[j].path = ""
      BY <1>6, <3>1, Zenon
    <3>2. CASE d[j].path # ""
      BY <1>6, <3>2, Zenon DEF IsNoise
    <3>3. QED
      BY <3>1, <3>2
  <2> HIDE DEF added, d
  <2>4. QED
    BY <2>2, <2>3, <2>30, Zenon
<1> HIDE DEF added
<1>8. added = AllLines(r)
  BY <1>7, Zenon
<1>9. \A c \in 1..Len(chunks) : chunks[c].size <= Budget
  BY <1>3 DEF Covers
<1>10. QED
  BY <1>4, <1>5, <1>8, <1>9 DEF ChunksPartition, added, r

\* For every well-formed diff, whatever its blocks, hunks and lines: the chunker's
\* assertions hold, so a review is never ended by them.
THEOREM PartitionStays == Spec => []ChunksPartition
  BY BaseHolds, PartitionHolds, PTL

---------------------------------------------------------------------------
(* Who owns the job                                                       *)

Retrying == {"ask again", "add"}

\* A live lane at work owns the job, and does what the job asks for.
Owning ==
  /\ job.kind = "none" => job.owner = None
  /\ \A p \in Proc : lane[p].pc # "idle" =>
       /\ p \in live => job.owner = p
       /\ job.owner = p => /\ lane[p].auto <=> job.kind = "auto"
                           /\ lane[p].pc \in Retrying \cup {"start"} <=> job.kind = "retry"

\* The lane goes on with the same work.
LEMMA OwningGoes ==
  ASSUME Base, Owning, NEW p \in Proc, NEW pcs, Moves(p, pcs), lane'[p].auto = lane[p].auto,
         UNCHANGED <<job, live>>, lane[p].pc # "idle", "idle" \notin pcs,
         \/ lane[p].pc \in Retrying \cup {"start"} /\ pcs \subseteq Retrying
         \/ lane[p].pc \notin Retrying \cup {"start"} /\ pcs \cap (Retrying \cup {"start"}) = {}
  PROVE  Owning'
  BY DEF Owning, Moves

\* The lane rests, and if the job was its own, nobody owns it now.
LEMMA OwningRests ==
  ASSUME Base, Owning, NEW p \in Proc, Rests(p), live' \subseteq live,
         job' = job \/ (Owns(p) /\ job'.owner = None)
  PROVE  Owning'
<1>1. lane'[p].pc = "idle" /\ \A q \in Proc : q # p => lane'[q] = lane[q]
  BY DEF Base, LanesOK, Rests, IdleLane
<1>2. QED
  BY <1>1, ExecutionAssumption DEF Owning, Owns

LEMMA JobLets ==
  ASSUME NEW p \in Proc, JobEnds(p) \/ JobFails(p) \/ JobMoves(p), Base
  PROVE  job' = job \/ (Owns(p) /\ job'.owner = None)
  BY DEF JobEnds, JobFails, JobMoves, NoJob, Base, JobOK, JobFields

\* The lanes stay where they are.
LEMMA OwningOutside ==
  ASSUME Base, Owning, UNCHANGED <<lane, live>>,
         \/ job' = job
         \/ job'.owner = None /\ (job.owner = None \/ job.owner \notin live)
  PROVE  Owning'
  BY ExecutionAssumption DEF Owning

LEMMA OwningStep ==
  ASSUME Base, Owning, Next
  PROVE  Owning'
<1> USE DEF Retrying
<1>1. ASSUME NEW p \in Proc, Claim(p) PROVE Owning'
  <2>1. /\ DOMAIN lane = Proc /\ DOMAIN job = JobFields /\ lane[p].pc = "idle"
        /\ job.kind # "none" /\ job.owner = None
        /\ job' = [job EXCEPT !.owner = p] /\ live' = live
        /\ lane' = [lane EXCEPT ![p] = [IdleLane EXCEPT
                      !.pc = IF job.kind = "retry" THEN "start" ELSE "review",
                      !.auto = (job.kind = "auto"), !.head = job.head, !.by = setting.on]]
    BY <1>1 DEF Claim, Base, LanesOK, JobOK, envVars
  <2>2. /\ job'.owner = p /\ job'.kind = job.kind
        /\ lane'[p].pc = IF job.kind = "retry" THEN "start" ELSE "review"
        /\ lane'[p].auto = (job.kind = "auto")
        /\ \A q \in Proc : q # p => lane'[q] = lane[q]
    BY <2>1 DEF IdleLane, JobFields
  <2>3. \A q \in Proc : lane[q].pc # "idle" => q \notin live /\ job.owner # q
    BY <2>1, ExecutionAssumption DEF Owning
  <2>4. /\ lane'[p].auto <=> job'.kind = "auto"
        /\ lane'[p].pc \in Retrying \cup {"start"} <=> job'.kind = "retry"
    BY <2>2
  <2>5. \A q \in Proc : q # p /\ lane'[q].pc # "idle" => q \notin live /\ job'.owner # q
    BY <2>2, <2>3
  <2>6. job'.kind # "none" /\ job'.owner = p /\ live' = live
    BY <2>1, <2>2
  <2>7. QED
    BY <2>4, <2>5, <2>6, Zenon DEF Owning
<1>2. ASSUME NEW p \in Proc, CreateRun(p) PROVE Owning'
  <2>1. CASE (JobMoves(p) \/ JobEnds(p)) /\ Rests(p)
    BY <1>2, <2>1, JobLets, OwningRests DEF CreateRun, envVars
  <2>2. CASE /\ lane' = [lane EXCEPT ![p] = [@ EXCEPT !.pc = "created", !.run = run.id + 1,
                                                      !.cfg = setting]]
             /\ UNCHANGED job
    <3>1. Moves(p, {"created"}) /\ lane'[p].auto = lane[p].auto
      BY <2>2 DEF Moves, Base, LanesOK, LaneOK, LaneFields
    <3>2. QED
      BY <1>2, <2>2, <3>1, OwningGoes DEF CreateRun, envVars
  <2>3. QED
    BY <1>2, <2>1, <2>2 DEF CreateRun
<1>3. ASSUME NEW p \in Proc, Prescreen(p) PROVE Owning'
  BY <1>3, PrescreenLane, OwningGoes DEF Base, GoesOn
<1>4. ASSUME NEW p \in Proc, Nothing(p) PROVE Owning'
  BY <1>4, JobLets, OwningRests DEF Nothing, envVars
<1>5. ASSUME NEW p \in Proc, StoreContexts(p) PROVE Owning'
  BY <1>5, StoreContextsLane, OwningGoes DEF Base, GoesOn, StoreContexts, envVars
<1>6. ASSUME NEW p \in Proc, BindPolicy(p) PROVE Owning'
  BY <1>6, BindPolicyLane, OwningGoes DEF Base, GoesOn, BindPolicy, envVars
<1>7. ASSUME NEW p \in Proc, AddRows(p) PROVE Owning'
  BY <1>7, AddRowsLane, OwningGoes DEF Base, GoesOn, AddRows, envVars
<1>8. ASSUME NEW p \in Proc, AskVendors(p) PROVE Owning'
  <2>1. UNCHANGED <<job, live>>
    BY <1>8 DEF AskVendors, envVars
  <2>2. /\ lane[p].pc \in {"ask", "ask again"}
        /\ GoesOn(p, {IF lane[p].pc = "ask" THEN "combine" ELSE "add"})
    BY <1>8, AskVendorsLane DEF Base
  <2>3. QED
    BY <2>1, <2>2, OwningGoes DEF GoesOn
<1>9. ASSUME NEW p \in Proc, Combine(p) PROVE Owning'
  BY <1>9, CombineLane, OwningGoes DEF Base, GoesOn, Combine, envVars
<1>10. ASSUME NEW p \in Proc, Debate(p) PROVE Owning'
  BY <1>10, DebateLane, OwningGoes DEF Base, GoesOn, Debate, envVars
<1>11. ASSUME NEW p \in Proc, LeaseLost(p) PROVE Owning'
  BY <1>11, OwningRests DEF LeaseLost, envVars
<1>12. ASSUME NEW p \in Proc, PersistAllFailed(p) PROVE Owning'
  BY <1>12, JobLets, OwningRests DEF PersistAllFailed, envVars
<1>13. ASSUME NEW p \in Proc, PersistStale(p) PROVE Owning'
  BY <1>13, JobLets, OwningRests DEF PersistStale, envVars
<1>14. ASSUME NEW p \in Proc, Persist(p) PROVE Owning'
  BY <1>14, JobLets, OwningRests DEF Persist, envVars
<1>15. ASSUME NEW p \in Proc, ReviewFails(p) PROVE Owning'
  BY <1>15, JobLets, OwningRests DEF ReviewFails, RunFails, envVars
<1>16. ASSUME NEW p \in Proc, RetryRefused(p) PROVE Owning'
  BY <1>16, JobLets, OwningRests DEF RetryRefused, envVars
<1>17. ASSUME NEW p \in Proc, RetryStart(p) PROVE Owning'
  <2>1. CASE (JobMoves(p) \/ JobEnds(p)) /\ Rests(p)
    BY <1>17, <2>1, JobLets, OwningRests DEF RetryStart, envVars
  <2>2. CASE UNCHANGED job /\ Moves(p, {"ask again"}) /\ lane'[p].auto = lane[p].auto
    BY <1>17, <2>2, RetryStartLane, OwningGoes DEF Base, RetryStart, envVars
  <2>3. QED
    BY <1>17, <2>1, <2>2, RetryStartLane DEF Base
<1>18. ASSUME NEW p \in Proc, RetryFails(p) PROVE Owning'
  BY <1>18, JobLets, OwningRests DEF RetryFails, envVars
<1>19. ASSUME NEW p \in Proc, RetryStale(p) PROVE Owning'
  BY <1>19, JobLets, OwningRests DEF RetryStale, envVars
<1>20. ASSUME NEW p \in Proc, RetryAdds(p) PROVE Owning'
  BY <1>20, JobLets, OwningRests DEF RetryAdds, envVars
<1>21. ASSUME NEW p \in Proc, Timeout(p) PROVE Owning'
  BY <1>21, JobLets, OwningRests DEF Timeout, envVars
<1>22. ASSUME NEW p \in Proc, Crash(p) PROVE Owning'
  BY <1>22, OwningRests DEF Crash
<1>23. ASSUME NEW p \in Proc, LeaseExpires(p) PROVE Owning'
  BY <1>23 DEF LeaseExpires, Owning
<1>24. ASSUME Recover \/ RequestRetry \/ RequestReview PROVE Owning'
  <2>1. /\ UNCHANGED <<lane, live>> /\ job'.owner = None
        /\ job.owner = None \/ job.owner \notin live
    <3>1. CASE Recover
      BY <3>1 DEF Recover, envVars, Base, JobOK, JobFields
    <3>2. CASE RequestRetry
      BY <3>2 DEF RequestRetry, envVars, Owning
    <3>3. CASE RequestReview
      BY <3>3 DEF RequestReview, envVars, Owning
    <3>4. QED
      BY <1>24, <3>1, <3>2, <3>3
  <2>2. QED
    BY <2>1, OwningOutside
<1>25. ASSUME FindingChanges \/ SettingChanges \/ ContextsExpire \/ HeadMoves PROVE Owning'
  BY <1>25, OwningOutside DEF FindingChanges, SettingChanges, ContextsExpire, HeadMoves
<1>26. QED
  BY <1>1, <1>2, <1>3, <1>4, <1>5, <1>6, <1>7, <1>8, <1>9, <1>10, <1>11, <1>12, <1>13, <1>14,
     <1>15, <1>16, <1>17, <1>18, <1>19, <1>20, <1>21, <1>22, <1>23, <1>24, <1>25 DEF Next

LEMMA OwningInit == Init => Owning
  BY DEF Init, Owning, IdleLane

---------------------------------------------------------------------------
(* A review that is dropped                                               *)

\* The default grade of a prescreen that fails is not below the threshold.
LowThresholds ==
  \A s \in Sites : \A c \in s.changes \cup {s.setting} : c.threshold \in {"trivial", "moderate"}

LEMMA Ranks ==
  /\ ToSet(Grades) = {"trivial", "moderate", "complex"}
  /\ Rank("trivial") = 1 /\ Rank("moderate") = 2
<1>1. /\ Grades[1] = "trivial" /\ Grades[2] = "moderate" /\ Grades[3] = "complex"
      /\ DOMAIN Grades = 1..3
  BY DEF Grades
<1>2. ToSet(Grades) = {Grades[i] : i \in 1..3}
  BY <1>1 DEF ToSet, Range
<1>3. ToSet(Grades) = {"trivial", "moderate", "complex"}
  <2>1. \A i \in 1..3 : i = 1 \/ i = 2 \/ i = 3
    OBVIOUS
  <2>2. QED
    BY <1>1, <1>2, <2>1
<1>4. \A n \in 1..3 : Grades[n] = "trivial" <=> n = 1
  BY <1>1
<1>5. \A n \in 1..3 : Grades[n] = "moderate" <=> n = 2
  BY <1>1
<1>6. Rank("trivial") = 1 /\ Rank("moderate") = 2
  BY <1>4, <1>5 DEF Rank
<1>7. QED
  BY <1>3, <1>6

LEMMA RestsIdle ==
  ASSUME LanesOK, NEW p \in Proc, Rests(p)
  PROVE  /\ lane'[p] = IdleLane /\ lane'[p].pc = "idle"
         /\ \A q \in Proc : q # p => lane'[q] = lane[q]
  BY DEF LanesOK, Rests, IdleLane

\* Only the prescreen leads to "skip".
LEMMA OnlyPrescreenSkips ==
  ASSUME LanesOK, Next, NEW p \in Proc, lane'[p].pc = "skip", lane[p].pc # "skip"
  PROVE  Prescreen(p)
<1>1. ASSUME NEW q \in Proc,
             \/ Rests(q)
             \/ \E pcs : Moves(q, pcs) /\ "skip" \notin pcs
             \/ UNCHANGED lane
      PROVE  FALSE
  BY <1>1, RestsIdle DEF Moves
<1>2. ASSUME NEW q \in Proc, Claim(q) PROVE FALSE
  BY <1>2 DEF Claim, LanesOK, IdleLane
<1>3. ASSUME NEW q \in Proc, CreateRun(q) PROVE FALSE
  <2>1. CASE Rests(q)
    BY <1>1, <2>1
  <2>2. CASE lane' = [lane EXCEPT ![q] = [@ EXCEPT !.pc = "created", !.run = run.id + 1,
                                                   !.cfg = setting]]
    <3>1. Moves(q, {"created"})
      BY <2>2 DEF Moves, LanesOK, LaneOK, LaneFields
    <3>2. "skip" \notin {"created"}
      OBVIOUS
    <3>3. QED
      BY <1>1, <3>1, <3>2
  <2>3. QED
    BY <1>3, <2>1, <2>2 DEF CreateRun
<1>4. ASSUME NEW q \in Proc, Prescreen(q) PROVE q = p
  BY <1>4, PrescreenLane DEF GoesOn, Moves
<1>5. ASSUME NEW q \in Proc,
             StoreContexts(q) \/ BindPolicy(q) \/ AddRows(q) \/ Combine(q) \/ Debate(q)
      PROVE  FALSE
  <2>1. \E pcs \in {{"bind"}, {"rows"}, {"ask"}, {"debate", "persist"}, {"persist"}} : Moves(q, pcs)
    BY <1>5, StoreContextsLane, BindPolicyLane, AddRowsLane, CombineLane, DebateLane DEF GoesOn
  <2>2. QED
    BY <1>1, <2>1
<1>6. ASSUME NEW q \in Proc, AskVendors(q) PROVE FALSE
  <2>1. Moves(q, {IF lane[q].pc = "ask" THEN "combine" ELSE "add"})
    BY <1>6, AskVendorsLane DEF GoesOn
  <2>2. "skip" \notin {IF lane[q].pc = "ask" THEN "combine" ELSE "add"}
    OBVIOUS
  <2>3. QED
    BY <1>1, <2>1, <2>2
<1>7. ASSUME NEW q \in Proc, RetryStart(q) PROVE FALSE
  <2>1. Rests(q) \/ Moves(q, {"ask again"})
    BY <1>7, RetryStartLane
  <2>2. "skip" \notin {"ask again"}
    OBVIOUS
  <2>3. QED
    BY <1>1, <2>1, <2>2
<1>8. ASSUME NEW q \in Proc,
             \/ Nothing(q) \/ LeaseLost(q) \/ PersistAllFailed(q) \/ PersistStale(q) \/ Persist(q)
             \/ ReviewFails(q) \/ RetryRefused(q) \/ RetryFails(q) \/ RetryStale(q)
             \/ RetryAdds(q) \/ Timeout(q) \/ Crash(q) \/ LeaseExpires(q)
      PROVE  FALSE
  <2>1. Rests(q) \/ UNCHANGED lane
    BY <1>8 DEF Nothing, LeaseLost, PersistAllFailed, PersistStale, Persist, ReviewFails, RunFails,
       RetryRefused, RetryFails, RetryStale, RetryAdds, Timeout, Crash, LeaseExpires
  <2>2. QED
    BY <1>1, <2>1
<1>9. ASSUME \/ Recover \/ RequestRetry \/ RequestReview \/ FindingChanges \/ SettingChanges
             \/ ContextsExpire \/ HeadMoves
      PROVE  FALSE
  BY <1>9 DEF Recover, RequestRetry, RequestReview, FindingChanges, SettingChanges,
     ContextsExpire, HeadMoves
<1>10. QED
  BY <1>2, <1>3, <1>4, <1>5, <1>6, <1>7, <1>8, <1>9 DEF Next

LEMMA SkipStep ==
  ASSUME LowThresholds, Base, Owning, Next, NEW p \in Proc,
         lane'[p].pc = "skip", lane[p].pc # "skip"
  PROVE  /\ job.owner = p => job.kind = "auto"
         /\ screened' # None /\ Below(screened', lane[p].cfg.threshold)
<1>1. Prescreen(p) /\ lane[p].pc = "created"
  BY OnlyPrescreenSkips DEF Base, Prescreen
<1>2. PICK answer :
        /\ screened' = IF Graded(answer) THEN answer ELSE None
        /\ Goes(p, IF lane[p].auto /\ Below(Grade(answer), lane[p].cfg.threshold)
                   THEN "skip" ELSE "prepare")
  BY <1>1 DEF Prescreen
<1>3. lane[p].auto /\ Below(Grade(answer), lane[p].cfg.threshold)
  <2>1. CASE ~(lane[p].auto /\ Below(Grade(answer), lane[p].cfg.threshold))
    <3>1. lane' = [lane EXCEPT ![p].pc = "prepare"]
      BY <1>2, <2>1 DEF Goes
    <3>2. QED
      BY <3>1 DEF Base, LanesOK, LaneOK, LaneFields
  <2>2. QED
    BY <2>1
<1>4. job.owner = p => job.kind = "auto"
  BY <1>1, <1>3, Zenon DEF Owning
<1>5. lane[p].cfg.threshold \in {"trivial", "moderate"}
  BY <1>1 DEF Base, LanesOK, LaneOK, Settings, EnvOK, LowThresholds
<1>6. Graded(answer)
  <2>1. Rank(lane[p].cfg.threshold) \in {1, 2}
    BY <1>5, Ranks
  <2>2. CASE ~Graded(answer)
    <3>1. Rank(Grade(answer)) = 2
      BY <2>2, Ranks DEF Grade
    <3>2. QED
      BY <1>3, <2>1, <3>1 DEF Below
  <2>3. QED
    BY <2>2
<1>7. screened' = answer /\ answer # None /\ Grade(answer) = answer
  BY <1>2, <1>6, SiteAssumption DEF Graded, Grade
<1>8. QED
  BY <1>3, <1>4, <1>7

\* A prescreen that fails, whatever it prints, never takes an automatic review away,
\* and nobody's request is screened out (_prescreen_diff, decide).
THEOREM SkipsGraded ==
  ASSUME LowThresholds
  PROVE  Spec => SkippedOnGrade
<1>1. Base /\ Owning /\ Base' /\ [Next]_vars
        => [\A p \in Proc : lane'[p].pc = "skip" /\ lane[p].pc # "skip" =>
             /\ job.owner = p => job.kind = "auto"
             /\ screened' # None /\ Below(screened', lane[p].cfg.threshold)]_vars
  BY SkipStep
<1>2. Base /\ Owning /\ [Next]_vars => Owning'
  <2>1. CASE Next
    BY <2>1, OwningStep
  <2>2. CASE UNCHANGED vars
    BY <2>2 DEF vars, Owning
  <2>3. QED
    BY <2>1, <2>2
<1>3. QED
  BY <1>1, <1>2, OwningInit, BaseHolds, PTL DEF Spec, SkippedOnGrade

---------------------------------------------------------------------------
(* The newest run and the lanes that work on it                           *)

Asking == {"ask", "combine", "debate", "persist"}
Bound == {"rows"} \cup Asking
Reviewing == {"created", "skip", "prepare", "bind"} \cup Bound

\* Nothing but the rows of the vendors is stored for the run yet.
Fresh ==
  /\ run.status \in {"running", "failed"}
  /\ finding = <<>> /\ summary = NoSummary
  /\ \A v \in Vendor : row[v].attempts = <<>>

RunsApart ==
  \A p, q \in Proc : p # q /\ lane[p].pc \in Reviewing /\ lane[q].pc \in Reviewing
                       => lane[p].run # lane[q].run

\* A review that works on the newest run has it for itself; a retry works on a run
\* that is done.
WorkOK(p) ==
  /\ lane[p].pc \in Reviewing \cup Retrying => lane[p].run \in 1..run.id
  /\ lane[p].pc \in Reviewing /\ Newest(p) => Fresh
  /\ lane[p].pc \in Bound /\ Newest(p) => run.policy # None
  /\ lane[p].pc \in Reviewing \ Asking /\ Newest(p) => \A v \in Vendor : row[v].status = "none"
  /\ lane[p].pc \in Asking /\ Newest(p) =>
       \A v \in Vendor : row[v].status = "none" <=> v \notin lane[p].cfg.on
  /\ lane[p].pc \in Retrying /\ Newest(p) => run.status = "done"

StoredOK ==
  /\ run.id = 0 => run.status = "none"
  /\ run.status = "done" => run.policy # None

Control == RunsApart /\ StoredOK /\ \A p \in Proc : WorkOK(p)

\* A change of the run that a review would not notice.
Mild ==
  /\ run'.id = run.id /\ run'.policy = run.policy /\ UNCHANGED <<finding, summary>>
  /\ run'.status = run.status \/ (run.status = "running" /\ run'.status = "failed")
  /\ \A v \in Vendor : /\ row'[v].attempts = row[v].attempts
                       /\ row'[v].status = "none" <=> row[v].status = "none"

LEMMA ControlMild ==
  ASSUME Base, Control, Mild,
         \A p \in Proc : lane'[p] = lane[p] \/ lane'[p].pc \in {"idle", "review", "start"}
  PROVE  Control'
<1> USE DEF Reviewing, Bound, Asking, Retrying
<1>1. RunsApart'
  BY DEF Control, RunsApart
<1>2. StoredOK'
  BY DEF Control, StoredOK, Mild
<1>3. Fresh => Fresh'
  BY DEF Fresh, Mild
<1>4. ASSUME NEW p \in Proc, lane'[p] = lane[p] PROVE WorkOK(p)'
  BY <1>3, <1>4 DEF Control, WorkOK, Mild, Newest
<1>5. ASSUME NEW p \in Proc, lane'[p].pc \in {"idle", "review", "start"} PROVE WorkOK(p)'
  BY <1>5 DEF WorkOK
<1>6. QED
  BY <1>1, <1>2, <1>4, <1>5 DEF Control

\* A review that ends changes its own run as it likes.
LEMMA ControlOwn ==
  ASSUME Base, Control, NEW p \in Proc, lane[p].pc \in Reviewing, Newest(p), Rests(p),
         run'.id = run.id, run'.policy = run.policy, run'.status # "none",
         run'.status = "done" => lane[p].pc \in Bound
  PROVE  Control'
<1> USE DEF Reviewing, Bound, Asking, Retrying
<1>1. lane'[p].pc = "idle" /\ \A q \in Proc : q # p => lane'[q] = lane[q]
  BY RestsIdle DEF Base
<1>2. RunsApart'
  BY <1>1 DEF Control, RunsApart
<1>3. WorkOK(p)'
  BY <1>1 DEF WorkOK
<1>4. ASSUME NEW q \in Proc, q # p PROVE WorkOK(q)'
  <2>1. lane[q].pc \in Reviewing \cup Retrying => lane[q].run \in 1..run.id /\ lane[q].run # run.id
    <3>1. run.status # "done"
      BY DEF Control, WorkOK, Fresh
    <3>2. CASE lane[q].pc \in Reviewing
      BY <1>4, <3>2 DEF Control, WorkOK, RunsApart, Newest
    <3>3. CASE lane[q].pc \in Retrying
      BY <3>1, <3>3 DEF Control, WorkOK, Newest
    <3>4. QED
      BY <3>2, <3>3
  <2>2. QED
    BY <1>1, <1>4, <2>1 DEF WorkOK, Newest
<1>5. run.id # 0
  <2>1. lane[p].run \in 1..run.id
    BY DEF Control, WorkOK
  <2>2. run.id \in Int
    BY DEF Base, RunOK
  <2>3. QED
    BY <2>1, <2>2
<1>6. StoredOK'
  BY <1>5 DEF Control, WorkOK, StoredOK
<1>7. QED
  BY <1>2, <1>3, <1>4, <1>6 DEF Control

\* A lane goes on with its run.
LEMMA ControlGoes ==
  ASSUME Base, Control, Mild, NEW p \in Proc, NEW pcs, GoesOn(p, pcs),
         \/ /\ lane[p].pc \in Retrying /\ pcs \subseteq Retrying
         \/ /\ lane[p].pc \in Reviewing /\ pcs \subseteq Reviewing
            /\ lane[p].pc \in Asking <=> pcs \subseteq Asking
            /\ pcs \cap Bound # {} => lane[p].pc \in Bound
            /\ pcs \subseteq Asking \/ pcs \cap Asking = {}
  PROVE  Control'
<1>1. /\ \A q \in Proc : q # p => lane'[q] = lane[q]
      /\ lane'[p].pc \in pcs /\ lane'[p].run = lane[p].run /\ lane'[p].cfg = lane[p].cfg
  BY DEF GoesOn, Moves
<1>2. lane'[p].pc \in Reviewing <=> lane[p].pc \in Reviewing
  BY <1>1 DEF Reviewing, Bound, Asking, Retrying
<1>3. lane'[p].pc \in Retrying <=> lane[p].pc \in Retrying
  BY <1>1 DEF Reviewing, Bound, Asking, Retrying
<1>4. lane[p].pc \in Reviewing => (lane'[p].pc \in Asking <=> lane[p].pc \in Asking)
  BY <1>1, <1>2, <1>3 DEF Reviewing, Bound, Asking, Retrying
<1>5. lane'[p].pc \in Bound => lane[p].pc \in Bound
  BY <1>1, <1>2, <1>3, <1>4 DEF Reviewing, Bound, Asking, Retrying
<1>6. Asking \subseteq Reviewing
  BY DEF Reviewing, Bound, Asking
<1>7. RunsApart'
  BY <1>1, <1>2 DEF Control, RunsApart
<1>8. StoredOK'
  BY DEF Control, StoredOK, Mild
<1>9. Fresh => Fresh'
  BY DEF Fresh, Mild
<1>10. ASSUME NEW q \in Proc, q # p PROVE WorkOK(q)'
  BY <1>1, <1>9, <1>10 DEF Control, WorkOK, Mild, Newest
<1>11. WorkOK(p)'
  <2>1. WorkOK(p)
    BY DEF Control
  <2>2. QED
    BY <1>1, <1>2, <1>3, <1>4, <1>5, <1>6, <1>9, <2>1 DEF WorkOK, Mild, Newest
<1>12. QED
  BY <1>7, <1>8, <1>10, <1>11 DEF Control

LEMMA CreateRunControl ==
  ASSUME Base, Control, NEW p \in Proc, CreateRun(p)
  PROVE  Control'
<1>1. CASE Rests(p) /\ UNCHANGED dbVars
  BY <1>1, RestsIdle, ControlMild DEF Base, Mild, dbVars
<1>2. CASE /\ run' = [NoRun EXCEPT !.id = run.id + 1, !.status = "running", !.head = head]
           /\ row' = [v \in Vendor |-> NoRow]
           /\ finding' = <<>> /\ summary' = NoSummary
           /\ lane' = [lane EXCEPT ![p] = [@ EXCEPT !.pc = "created", !.run = run.id + 1,
                                                    !.cfg = setting]]
  <2>1. run.id \in Nat /\ run'.id = run.id + 1 /\ run'.status = "running"
    BY <1>2, SiteAssumption DEF Base, RunOK, EnvOK, NoRun
  <2>2. /\ \A q \in Proc : q # p => lane'[q] = lane[q]
        /\ lane'[p].pc = "created" /\ lane'[p].run = run.id + 1
    BY <1>2 DEF Base, LanesOK, LaneOK, LaneFields
  <2>3. ASSUME NEW q \in Proc, q # p
        PROVE  lane'[q].pc \in Reviewing \cup Retrying => /\ lane'[q].run \in 1..run'.id
                                                        /\ lane'[q].run # run'.id
    <3>1. lane'[q] = lane[q]
      BY <2>2, <2>3
    <3>2. lane[q].pc \in Reviewing \cup Retrying => lane[q].run \in 1..run.id
      BY DEF Control, WorkOK
    <3>3. \A r \in 1..run.id : r \in 1..run'.id /\ r # run'.id
      BY <2>1
    <3>4. QED
      BY <3>1, <3>2, <3>3
  <2>4. ASSUME NEW q \in Proc, q # p PROVE WorkOK(q)'
    BY <2>3, <2>4 DEF WorkOK, Newest, Asking, Bound, Reviewing, Retrying
  <2>5. Fresh' /\ \A v \in Vendor : row'[v].status = "none"
    BY <1>2, <2>1 DEF Fresh, NoRow
  <2>6. WorkOK(p)'
    <3>1. run'.id \in 1..run'.id
      BY <2>1
    <3>2. QED
      BY <2>1, <2>2, <2>5, <3>1 DEF WorkOK, Asking, Bound, Reviewing, Retrying
  <2>7. RunsApart'
    BY <2>1, <2>2, <2>3 DEF Control, RunsApart
  <2>8. StoredOK'
    BY <2>1 DEF StoredOK
  <2>9. QED
    BY <2>4, <2>6, <2>7, <2>8 DEF Control
<1>3. QED
  BY <1>1, <1>2 DEF CreateRun

LEMMA BindPolicyControl ==
  ASSUME Base, Control, NEW p \in Proc, BindPolicy(p)
  PROVE  Control'
<1>1. lane[p].pc = "bind" /\ GoesOn(p, {"rows"})
  BY BindPolicyLane DEF Base
<1>2. /\ run'.id = run.id /\ run'.status = run.status /\ UNCHANGED <<row, finding, summary>>
      /\ Newest(p)
      /\ run'.policy = Snapshot(lane[p].cfg.policy, lane[p].cfg.on)
  BY DEF BindPolicy, PolicyOpen, Base, RunOK, RunFields
<1>3. run'.policy # None
  BY <1>1, <1>2, SiteAssumption DEF Base, LanesOK, LaneOK, EnvOK, Settings, SettingOK
<1>4. /\ \A q \in Proc : q # p => lane'[q] = lane[q]
      /\ lane'[p].pc = "rows" /\ lane'[p].run = lane[p].run /\ lane'[p].cfg = lane[p].cfg
  BY <1>1 DEF GoesOn, Moves
<1>5. Fresh => Fresh'
  BY <1>2 DEF Fresh
<1>6. ASSUME NEW q \in Proc, q # p PROVE WorkOK(q)'
  BY <1>2, <1>3, <1>4, <1>5, <1>6 DEF Control, WorkOK, Newest
<1>7. WorkOK(p)'
  BY <1>1, <1>2, <1>3, <1>4, <1>5 DEF Control, WorkOK, Newest, Asking, Bound, Reviewing, Retrying
<1>8. RunsApart' /\ StoredOK'
  BY <1>1, <1>2, <1>3, <1>4 DEF Control, RunsApart, StoredOK, Asking, Bound, Reviewing
<1>9. QED
  BY <1>6, <1>7, <1>8 DEF Control

LEMMA AddRowsControl ==
  ASSUME Base, Control, NEW p \in Proc, AddRows(p)
  PROVE  Control'
<1>1. lane[p].pc = "rows" /\ GoesOn(p, {"ask"})
  BY AddRowsLane DEF Base
<1>2. /\ \A q \in Proc : q # p => lane'[q] = lane[q]
      /\ lane'[p].pc = "ask" /\ lane'[p].run = lane[p].run /\ lane'[p].cfg = lane[p].cfg
  BY <1>1 DEF GoesOn, Moves
<1>3. /\ UNCHANGED <<run, finding, summary>>
      /\ ~Newest(p) => row' = row
  BY DEF AddRows
<1>31. ASSUME Newest(p), NEW v \in Vendor PROVE row'[v].attempts = <<>>
  BY <1>31 DEF AddRows, NoRow
<1>32. ASSUME Newest(p), NEW v \in Vendor PROVE row'[v].status = "none" <=> v \notin lane[p].cfg.on
  BY <1>32 DEF AddRows, NoRow
<1>4. Newest(p) => /\ Fresh
                   /\ \A q \in Proc : q # p => ~(lane[q].pc \in Reviewing /\ Newest(q))
  BY <1>1 DEF Control, WorkOK, RunsApart, Newest, Asking, Bound, Reviewing
<1>5. Fresh => Fresh'
  <2>1. ASSUME NEW v \in Vendor, row[v].attempts = <<>> PROVE row'[v].attempts = <<>>
    <3>1. CASE Newest(p)
      BY <1>31, <3>1
    <3>2. CASE ~Newest(p)
      BY <1>3, <2>1, <3>2, Zenon
    <3>3. QED
      BY <3>1, <3>2
  <2>2. QED
    BY <1>3, <2>1 DEF Fresh
<1>6. ASSUME NEW q \in Proc, q # p PROVE WorkOK(q)'
  BY <1>2, <1>3, <1>4, <1>5, <1>6 DEF Control, WorkOK, Newest, Reviewing, Bound
<1>7. WorkOK(p)'
  <2>1. lane[p].run \in 1..run.id /\ (Newest(p) => Fresh' /\ run.policy # None)
    BY <1>1, <1>5 DEF Control, WorkOK, Asking, Bound, Reviewing, Retrying
  <2>2. Newest(p)' <=> Newest(p)
    BY <1>2, <1>3 DEF Newest
  <2>3. CASE Newest(p)
    BY <1>2, <1>3, <1>32, <2>1, <2>2, <2>3 DEF WorkOK, Asking, Bound, Reviewing, Retrying
  <2>4. CASE ~Newest(p)
    <3>1. ~(Newest(p)')
      BY <2>2, <2>4
    <3>2. lane'[p].run \in 1..run'.id
      BY <1>2, <1>3, <2>1
    <3>3. lane'[p].pc \notin Retrying
      BY <1>2 DEF Retrying
    <3>4. QED
      BY <3>1, <3>2, <3>3, Zenon DEF WorkOK
  <2>5. QED
    BY <2>3, <2>4
<1>8. RunsApart' /\ StoredOK'
  BY <1>1, <1>2, <1>3 DEF Control, RunsApart, StoredOK, Asking, Bound, Reviewing
<1>9. QED
  BY <1>6, <1>7, <1>8 DEF Control

LEMMA RetryStartControl ==
  ASSUME Base, Control, NEW p \in Proc, RetryStart(p)
  PROVE  Control'
<1>1. UNCHANGED dbVars
  BY DEF RetryStart
<1>2. Mild
  BY <1>1 DEF Mild, dbVars
<1>3. CASE Rests(p)
  BY <1>2, <1>3, RestsIdle, ControlMild DEF Base
<1>4. CASE run.status = "done" /\ Moves(p, {"ask again"}) /\ lane'[p].run = run.id
  <2>1. /\ \A q \in Proc : q # p => lane'[q] = lane[q]
        /\ lane'[p].pc = "ask again"
    BY <1>4 DEF Moves
  <2>2. run.id \in 1..run.id
    <3>1. run.id \in Nat
      BY SiteAssumption DEF Base, RunOK, EnvOK
    <3>2. run.id # 0
      BY <1>4 DEF Control, StoredOK
    <3>3. QED
      BY <3>1, <3>2
  <2>3. Fresh' <=> Fresh
    BY <1>1 DEF Fresh, dbVars
  <2>4. ASSUME NEW q \in Proc, q # p PROVE WorkOK(q)'
    BY <1>1, <2>1, <2>3, <2>4 DEF Control, WorkOK, Newest, dbVars
  <2>5. WorkOK(p)'
    BY <1>1, <1>4, <2>1, <2>2 DEF WorkOK, Newest, dbVars, Retrying, Reviewing, Bound, Asking
  <2>6. RunsApart'
    <3>1. run' = run
      BY <1>1 DEF dbVars
    <3>2. lane'[p].pc \notin Reviewing \cup Bound
      BY <2>1 DEF Bound, Asking, Reviewing
    <3>3. QED
      BY <2>1, <3>1, <3>2 DEF Control, RunsApart
  <2>7. StoredOK'
    BY <1>1 DEF Control, StoredOK, dbVars
  <2>8. QED
    BY <2>4, <2>5, <2>6, <2>7 DEF Control
<1>5. QED
  BY <1>3, <1>4, RetryStartLane DEF Base

\* Findings change only in a run that no review works on.
LEMMA ControlFindings ==
  ASSUME Base, Control, finding # <<>> \/ run.status = "done",
         run'.id = run.id, run'.policy = run.policy, run'.status = run.status,
         \A p \in Proc : lane'[p] = lane[p] \/ lane'[p].pc \in {"idle", "review", "start"}
  PROVE  Control'
<1> USE DEF Reviewing, Bound, Asking, Retrying
<1>1. RunsApart'
  BY DEF Control, RunsApart
<1>2. StoredOK'
  BY DEF Control, StoredOK
<1>3. ~Fresh
  BY DEF Fresh
<1>4. ASSUME NEW p \in Proc, lane'[p] = lane[p] PROVE WorkOK(p)'
  BY <1>3, <1>4 DEF Control, WorkOK, Newest
<1>5. ASSUME NEW p \in Proc, lane'[p].pc \in {"idle", "review", "start"} PROVE WorkOK(p)'
  BY <1>5 DEF WorkOK
<1>6. QED
  BY <1>1, <1>2, <1>4, <1>5 DEF Control

LEMMA ControlStep ==
  ASSUME Base, Control, Next
  PROVE  Control'
<1>1. ASSUME Mild,
             \/ \E q \in Proc : Rests(q)
             \/ UNCHANGED lane
      PROVE  Control'
  BY <1>1, RestsIdle, ControlMild DEF Base
<1>2. ASSUME UNCHANGED dbVars PROVE Mild
  BY <1>2 DEF Mild, dbVars
<1>3. ASSUME NEW p \in Proc, Claim(p) PROVE Control'
  <2>1. Mild
    BY <1>2, <1>3 DEF Claim
  <2>2. \A q \in Proc : lane'[q] = lane[q] \/ lane'[q].pc \in {"review", "start"}
    BY <1>3 DEF Claim, Base, LanesOK, IdleLane
  <2>3. QED
    BY <2>1, <2>2, ControlMild
<1>4. ASSUME NEW p \in Proc, Prescreen(p) PROVE Control'
  <2>1. lane[p].pc = "created" /\ GoesOn(p, {"skip", "prepare"}) /\ Mild
    BY <1>2, <1>4, PrescreenLane DEF Base
  <2>2. QED
    BY <2>1, ControlGoes DEF Reviewing, Bound, Asking
<1>5. ASSUME NEW p \in Proc, Nothing(p) PROVE Control'
  <2>1. CASE Newest(p)
    <3>1. /\ run'.id = run.id /\ run'.policy = run.policy /\ run'.status = "canceled"
          /\ Rests(p) /\ lane[p].pc \in Reviewing
      BY <1>5, <2>1 DEF Nothing, Closes, Base, RunOK, RunFields, Reviewing
    <3>2. QED
      BY <2>1, <3>1, ControlOwn
  <2>2. CASE ~Newest(p)
    BY <1>1, <1>2, <1>5, <2>2 DEF Nothing, Closes, dbVars
  <2>3. QED
    BY <2>1, <2>2
<1>6. ASSUME NEW p \in Proc, StoreContexts(p) PROVE Control'
  <2>1. lane[p].pc = "prepare" /\ GoesOn(p, {"bind"})
    BY <1>6, StoreContextsLane DEF Base
  <2>2. Mild
    BY <1>6 DEF StoreContexts, Mild, Base, RunOK, RunFields
  <2>3. QED
    BY <2>1, <2>2, ControlGoes DEF Reviewing, Bound, Asking
<1>7. ASSUME NEW p \in Proc, AskVendors(p) PROVE Control'
  <2>1. Mild
    BY <1>2, <1>7 DEF AskVendors
  <2>2. /\ lane[p].pc \in {"ask", "ask again"}
        /\ GoesOn(p, {IF lane[p].pc = "ask" THEN "combine" ELSE "add"})
    BY <1>7, AskVendorsLane DEF Base
  <2>3. CASE lane[p].pc = "ask"
    <3>1. GoesOn(p, {"combine"})
      BY <2>2, <2>3
    <3>2. QED
      BY <2>1, <2>3, <3>1, ControlGoes DEF Reviewing, Bound, Asking
  <2>4. CASE lane[p].pc = "ask again"
    <3>1. GoesOn(p, {"add"})
      BY <2>2, <2>4
    <3>2. QED
      BY <2>1, <2>4, <3>1, ControlGoes DEF Retrying
  <2>5. QED
    BY <2>2, <2>3, <2>4
<1>8. ASSUME NEW p \in Proc, Combine(p) PROVE Control'
  <2>1. Mild /\ lane[p].pc = "combine" /\ GoesOn(p, {"debate", "persist"})
    BY <1>2, <1>8, CombineLane DEF Base, Combine
  <2>2. QED
    BY <2>1, ControlGoes DEF Reviewing, Bound, Asking
<1>9. ASSUME NEW p \in Proc, Debate(p) PROVE Control'
  <2>1. Mild /\ lane[p].pc = "debate" /\ GoesOn(p, {"persist"})
    BY <1>2, <1>9, DebateLane DEF Base, Debate
  <2>2. QED
    BY <2>1, ControlGoes DEF Reviewing, Bound, Asking
<1>10. ASSUME NEW p \in Proc, LeaseLost(p) \/ RetryRefused(p) \/ RetryFails(p) \/ RetryStale(p)
       PROVE  Control'
  BY <1>1, <1>2, <1>10 DEF LeaseLost, RetryRefused, RetryFails, RetryStale
<1>11. ASSUME NEW p \in Proc, PersistAllFailed(p) PROVE Control'
  <2>1. CASE Newest(p)
    <3>1. /\ run'.id = run.id /\ run'.policy = run.policy /\ run'.status = "failed"
          /\ Rests(p) /\ lane[p].pc \in Reviewing
      BY <1>11, <2>1 DEF PersistAllFailed, Base, RunOK, RunFields, Reviewing, Bound, Asking
    <3>2. QED
      BY <2>1, <3>1, ControlOwn
  <2>2. CASE ~Newest(p)
    BY <1>1, <1>2, <1>11, <2>2 DEF PersistAllFailed, dbVars
  <2>3. QED
    BY <2>1, <2>2
<1>12. ASSUME NEW p \in Proc, PersistStale(p) \/ Persist(p) PROVE Control'
  <2>1. /\ run'.id = run.id /\ run'.policy = run.policy /\ run'.status \in {"canceled", "done"}
        /\ Rests(p) /\ lane[p].pc \in Bound /\ lane[p].pc \in Reviewing /\ Newest(p)
    BY <1>12 DEF PersistStale, Persist, Base, RunOK, RunFields, Reviewing, Bound, Asking
  <2>2. QED
    BY <2>1, ControlOwn
<1>13. ASSUME NEW p \in Proc, ReviewFails(p) PROVE Control'
  <2>1. CASE Newest(p)
    <3>1. /\ run'.id = run.id /\ run'.policy = run.policy /\ run'.status = "failed"
          /\ Rests(p) /\ lane[p].pc \in Reviewing
      BY <1>13, <2>1 DEF ReviewFails, RunFails, Base, RunOK, RunFields, Reviewing, Bound, Asking
    <3>2. QED
      BY <2>1, <3>1, ControlOwn
  <2>2. CASE ~Newest(p)
    BY <1>1, <1>2, <1>13, <2>2 DEF ReviewFails, RunFails, dbVars
  <2>3. QED
    BY <2>1, <2>2
<1>14. ASSUME NEW p \in Proc, RetryAdds(p) PROVE Control'
  <2>1. /\ lane[p].pc \in Retrying /\ Newest(p) /\ Rests(p)
        /\ run'.id = run.id /\ run'.policy = run.policy /\ run'.status = run.status
    BY <1>14 DEF RetryAdds, Retrying, Base, RunOK, RunFields
  <2>2. run.status = "done"
    BY <2>1 DEF Control, WorkOK
  <2>3. QED
    BY <2>1, <2>2, RestsIdle, ControlFindings DEF Base
<1>15. ASSUME NEW p \in Proc, Timeout(p) PROVE Control'
  <2>1. Mild
    BY <1>15 DEF Timeout, Mild, Base, RunOK, RunFields, RowsOK, RowOK
  <2>2. QED
    BY <1>1, <1>15, <2>1 DEF Timeout
<1>16. ASSUME NEW p \in Proc, Crash(p) \/ LeaseExpires(p) PROVE Control'
  BY <1>1, <1>2, <1>16 DEF Crash, LeaseExpires
<1>17. ASSUME Recover PROVE Control'
  <2>1. Mild
    BY <1>17 DEF Recover, Mild, Base, RunOK, RunFields, RowsOK, RowOK
  <2>2. QED
    BY <1>1, <1>17, <2>1 DEF Recover
<1>18. ASSUME RequestRetry \/ RequestReview \/ SettingChanges \/ HeadMoves PROVE Control'
  BY <1>1, <1>2, <1>18 DEF RequestRetry, RequestReview, SettingChanges, HeadMoves
<1>19. ASSUME ContextsExpire PROVE Control'
  <2>1. Mild
    BY <1>19 DEF ContextsExpire, Mild, Base, RunOK, RunFields
  <2>2. QED
    BY <1>1, <1>19, <2>1 DEF ContextsExpire
<1>20. ASSUME FindingChanges PROVE Control'
  <2>1. UNCHANGED <<run, row, lane>>
    BY <1>20 DEF FindingChanges
  <2>2. finding # <<>>
    <3>1. CASE finding = <<>>
      <4>1. Indices(finding) = {}
        BY <3>1 DEF Indices
      <4>2. Post
        BY <1>20, <4>1 DEF FindingChanges
      <4>3. [i \in Indices(finding) |-> IF Postable(finding[i])
               THEN [finding[i] EXCEPT !.status = "posted"] ELSE finding[i]] = finding
        BY <3>1, <4>1
      <4>4. QED
        BY <4>2, <4>3 DEF Post
    <3>2. QED
      BY <3>1
  <2>3. QED
    BY <2>1, <2>2, ControlFindings
<1>21. QED
  BY <1>3, <1>4, <1>5, <1>6, <1>7, <1>8, <1>9, <1>10, <1>11, <1>12, <1>13, <1>14, <1>15, <1>16,
     <1>17, <1>18, <1>19, <1>20, CreateRunControl, BindPolicyControl, AddRowsControl,
     RetryStartControl DEF Next

LEMMA ControlInit ==
  ASSUME Init
  PROVE  Control
<1>1. \A p \in Proc : lane[p].pc = "idle"
  BY DEF Init, IdleLane
<1>2. run.id = 0 /\ run.status = "none"
  BY DEF Init, NoRun
<1>3. RunsApart /\ \A p \in Proc : WorkOK(p)
  BY <1>1 DEF RunsApart, WorkOK, Reviewing, Bound, Asking, Retrying
<1>4. QED
  BY <1>2, <1>3 DEF Control, StoredOK

---------------------------------------------------------------------------
(* The attempts of a vendor                                               *)

Ends == {"done", "failed", "timeout"}
Attempt == UNION {[D -> Ends] : D \in (SUBSET ChunkSet) \ {{}}}

DoneIn(ts, c) == {n \in 1..Len(ts) : c \in DOMAIN ts[n] /\ ts[n][c] = "done"}
OpenIn(ts) == {c \in DOMAIN ts[Len(ts)] : ts[Len(ts)][c] # "done"}

\* What was asked again is what was still open.
Tried(ts) ==
  /\ ts \in Seq(Attempt) /\ Len(ts) <= MaxAttempts
  /\ \A c \in ChunkSet : \A m, n \in DoneIn(ts, c) : m = n
  /\ ts # <<>> => \A c \in ChunkSet : DoneIn(ts, c) = {} <=> c \in OpenIn(ts)

LEMMA Appended ==
  ASSUME NEW S, NEW s \in Seq(S), NEW e \in S
  PROVE  /\ Append(s, e) \in Seq(S) /\ Append(s, e) # <<>>
         /\ Len(s) \in Nat /\ Len(Append(s, e)) = Len(s) + 1 /\ Append(s, e)[Len(s) + 1] = e
         /\ \A n \in 1..Len(s) : Append(s, e)[n] = s[n]
         /\ 1..(Len(s) + 1) = (1..Len(s)) \cup {Len(s) + 1} /\ Len(s) + 1 \notin 1..Len(s)
  OBVIOUS

\* The next attempt asks for the chunks in D.
Asks(ts, D) == IF ts = <<>> THEN D = ChunkSet ELSE D = OpenIn(ts)

LEMMA AttemptAdded ==
  ASSUME NEW ts, Tried(ts), Len(ts) < MaxAttempts,
         NEW D \in SUBSET ChunkSet, D # {}, NEW ends \in [D -> Ends],
         Asks(ts, D)
  PROVE  Tried(Append(ts, ends)) /\ Append(ts, ends) # <<>>
<1> DEFINE bs == Append(ts, ends)
           k == Len(ts) + 1
<1>1. ts \in Seq(Attempt) /\ ends \in Attempt
  <2>1. ts \in Seq(Attempt)
    BY DEF Tried
  <2>2. D \in (SUBSET ChunkSet) \ {{}}
    OBVIOUS
  <2>3. ends \in Attempt
    BY <2>2, Zenon DEF Attempt
  <2>4. QED
    BY <2>1, <2>3
<1>2. /\ bs \in Seq(Attempt) /\ Len(ts) \in Nat /\ Len(bs) = k /\ bs[k] = ends
      /\ \A n \in 1..Len(ts) : bs[n] = ts[n]
      /\ bs # <<>>
      /\ 1..k = (1..Len(ts)) \cup {k} /\ k \notin 1..Len(ts)
  BY <1>1, Appended
<1> HIDE DEF bs
<1>3. Len(bs) <= MaxAttempts
  BY <1>2, ExecutionAssumption
<1>4. DOMAIN ends = D
  OBVIOUS
<1>5. ASSUME NEW c \in ChunkSet
      PROVE  DoneIn(bs, c) = IF c \in D /\ ends[c] = "done" THEN {k} ELSE DoneIn(ts, c)
  <2>1. 1..Len(bs) = (1..Len(ts)) \cup {k} /\ k \notin 1..Len(ts)
    BY <1>2
  <2>2. DoneIn(bs, c) = DoneIn(ts, c) \cup (IF c \in D /\ ends[c] = "done" THEN {k} ELSE {})
    BY <1>2, <1>4, <2>1 DEF DoneIn
  <2>3. c \in D => DoneIn(ts, c) = {}
    <3>1. CASE ts = <<>>
      BY <1>1, <3>1 DEF DoneIn
    <3>2. CASE ts # <<>>
      BY <3>2 DEF Tried, Asks
    <3>3. QED
      BY <3>1, <3>2
  <2>4. QED
    BY <2>2, <2>3
<1>6. \A c \in ChunkSet : \A m, n \in DoneIn(bs, c) : m = n
  BY <1>5 DEF Tried
<1>7. OpenIn(bs) = {c \in D : ends[c] # "done"}
  BY <1>2, <1>4 DEF OpenIn
<1>8. ASSUME NEW c \in ChunkSet PROVE DoneIn(bs, c) = {} <=> c \in OpenIn(bs)
  <2>1. CASE c \in D /\ ends[c] = "done"
    BY <1>5, <1>7, <2>1
  <2>2. CASE c \in D /\ ends[c] # "done"
    <3>1. DoneIn(ts, c) = {}
      <4>1. CASE ts = <<>>
        BY <1>1, <4>1 DEF DoneIn
      <4>2. CASE ts # <<>>
        BY <2>2, <4>2 DEF Tried, Asks
      <4>3. QED
        BY <4>1, <4>2
    <3>2. QED
      BY <1>5, <1>7, <2>2, <3>1
  <2>3. CASE c \notin D
    <3>1. ts # <<>> /\ c \notin OpenIn(ts)
      BY <2>3 DEF Asks
    <3>2. DoneIn(ts, c) # {}
      BY <3>1 DEF Tried
    <3>3. QED
      BY <1>5, <1>7, <2>3, <3>2
  <2>4. QED
    BY <2>1, <2>2, <2>3
<1>9. QED
  BY <1>2, <1>3, <1>6, <1>8 DEF Tried, bs

LEMMA NothingTried == Tried(<<>>)
<1>1. <<>> \in Seq(Attempt) /\ Len(<<>>) = 0 /\ 0 <= MaxAttempts
  BY ExecutionAssumption
<1>2. \A c : DoneIn(<<>>, c) = {}
  BY DEF DoneIn
<1>3. QED
  BY <1>1, <1>2 DEF Tried

\* How a vendor ended, by its chunks.
LEMMA StatusOfEnds ==
  ASSUME NEW ends \in Attempt
  PROVE  /\ VendorStatus(ends) \in {"done"} \cup Failing
         /\ VendorStatus(ends) = "done" <=> \A c \in DOMAIN ends : ends[c] = "done"
<1>1. PICK D \in (SUBSET ChunkSet) \ {{}} : ends \in [D -> Ends]
  BY DEF Attempt
<1>2. DOMAIN ends = D /\ D # {}
  BY <1>1
<1>3. PICK all : all = {ends[c] : c \in DOMAIN ends}
  OBVIOUS
<1>4. all = {"done"} <=> \A c \in DOMAIN ends : ends[c] = "done"
  BY <1>2, <1>3
<1>5. VendorStatus(ends) = IF all = {"done"} THEN "done"
                           ELSE IF "done" \in all THEN "partial"
                           ELSE IF all = {"timeout"} THEN "timeout" ELSE "failed"
  BY <1>3 DEF VendorStatus
<1>6. QED
  BY <1>4, <1>5 DEF Failing

---------------------------------------------------------------------------
(* What vendors are asked                                                 *)

Answering == {"combine", "debate", "persist", "add"}

AskHistory(p) ==
  /\ lane[p].pc \in {"skip", "prepare", "bind"} \cup Bound => ChunkSet # {}
  /\ lane[p].pc \in Asking =>
       lane[p].ask = [v \in Vendor |-> IF v \in lane[p].cfg.on THEN ChunkSet ELSE {}]
  /\ lane[p].pc \in Retrying /\ p \in live /\ Newest(p) =>
       lane[p].ask = [v \in Vendor |-> IF v \in FailedVendors THEN Unresolved(v) ELSE {}]
  /\ lane[p].pc \in Answering =>
       /\ DOMAIN lane[p].answer = Vendor
       /\ \A v \in Vendor : lane[p].answer[v] \in [lane[p].ask[v] -> Ends]

\* A vendor of a finished run was asked, and its row says how the last attempt ended.
DoneRow(v) ==
  IF row[v].status = "none" THEN row[v].attempts = <<>>
  ELSE row[v].attempts # <<>> /\ row[v].status = VendorStatus(row[v].attempts[Len(row[v].attempts)])

History ==
  /\ \A v \in Vendor : Tried(row[v].attempts)
  /\ run.status = "done" => \A v \in Vendor : DoneRow(v)
  /\ \A p \in Proc : AskHistory(p)

\* No attempt is added, and a finished run stays as it is.
Steady ==
  /\ run'.id = run.id /\ UNCHANGED chunks /\ live' \subseteq live
  /\ \A v \in Vendor : row'[v].attempts = row[v].attempts
  /\ run'.status = "done" => run.status = "done" /\ row' = row

LEMMA SteadyRows ==
  ASSUME Base, History, Steady
  PROVE  /\ \A v \in Vendor : Tried(row[v].attempts)'
         /\ (run.status = "done" => \A v \in Vendor : DoneRow(v))'
<1>1. ASSUME NEW v \in Vendor PROVE Tried(row[v].attempts)'
  <2>1. PICK ts : ts = row[v].attempts
    OBVIOUS
  <2>2. Tried(ts) /\ row'[v].attempts = ts
    BY <2>1 DEF History, Steady
  <2>3. chunks' = chunks
    BY DEF Steady
  <2>4. ChunkSet' = ChunkSet
    BY <2>3 DEF ChunkSet
  <2>5. Attempt' = Attempt
    BY <2>4 DEF Attempt
  <2>6. Tried(ts)'
    BY <2>2, <2>4, <2>5 DEF Tried, DoneIn, OpenIn
  <2>7. QED
    BY <2>2, <2>6
<1>2. ASSUME run'.status = "done", NEW v \in Vendor PROVE DoneRow(v)'
  BY <1>2 DEF History, Steady, DoneRow
<1>3. QED
  BY <1>1, <1>2

LEMMA SteadyLane ==
  ASSUME Base, Control', History, Steady, NEW p \in Proc,
         lane'[p] = lane[p] \/ lane'[p].pc \in {"idle", "review", "start"}
  PROVE  AskHistory(p)'
<1>1. CASE lane'[p].pc \in {"idle", "review", "start"}
  BY <1>1 DEF AskHistory, Answering, Retrying, Asking, Bound
<1>2. CASE lane'[p] = lane[p]
  <2>1. AskHistory(p)
    BY DEF History
  <2>2. ChunkSet' = ChunkSet /\ (p \in live' => p \in live) /\ (Newest(p)' <=> Newest(p))
    BY <1>2 DEF Steady, ChunkSet, Newest
  <2>3. lane'[p].pc \in Retrying /\ Newest(p)' => row' = row
    BY DEF Control, WorkOK, Steady
  <2>4. row' = row => FailedVendors' = FailedVendors /\ \A v : Unresolved(v)' = Unresolved(v)
    BY DEF FailedVendors, Unresolved
  <2>5. QED
    BY <1>2, <2>1, <2>2, <2>3, <2>4 DEF AskHistory
<1>3. QED
  BY <1>1, <1>2

LEMMA HistorySteady ==
  ASSUME Base, Control', History, Steady,
         \A p \in Proc : lane'[p] = lane[p] \/ lane'[p].pc \in {"idle", "review", "start"}
  PROVE  History'
  BY SteadyRows, SteadyLane DEF History

\* One lane goes on; what it asks is looked at by itself.
LEMMA HistoryGoes ==
  ASSUME Base, Control', History, Steady, NEW p \in Proc, AskHistory(p)',
         \A q \in Proc : q # p => lane'[q] = lane[q]
  PROVE  History'
  BY SteadyRows, SteadyLane DEF History

\* The lane keeps what it asked and was told.
LEMMA AskKept ==
  ASSUME Base, Control', History, Steady, NEW p \in Proc, NEW pcs, GoesOn(p, pcs),
         lane'[p].ask = lane[p].ask, lane'[p].answer = lane[p].answer,
         \/ lane[p].pc \in Asking \cap Answering /\ pcs \subseteq Asking \cap Answering
  PROVE  History'
<1>1. /\ \A q \in Proc : q # p => lane'[q] = lane[q]
      /\ lane'[p].pc \in pcs /\ lane'[p].cfg = lane[p].cfg
  BY DEF GoesOn, Moves
<1>2. AskHistory(p) /\ ChunkSet' = ChunkSet
  BY DEF History, Steady, ChunkSet
<1>3. AskHistory(p)'
  BY <1>1, <1>2 DEF AskHistory, Answering, Retrying, Asking, Bound
<1>4. QED
  BY <1>1, <1>3, HistoryGoes

LEMMA AskVendorsHistory ==
  ASSUME Base, Control', History, NEW p \in Proc, AskVendors(p)
  PROVE  History'
<1>1. Steady
  BY DEF AskVendors, Steady, dbVars, envVars
<1>2. /\ lane[p].pc \in {"ask", "ask again"}
      /\ GoesOn(p, {IF lane[p].pc = "ask" THEN "combine" ELSE "add"})
      /\ lane'[p].ask = lane[p].ask
      /\ \E a : AskedFor(p, a) /\ lane'[p].answer = EndsIn(a)
  BY AskVendorsLane DEF Base
<1>3. PICK a : AskedFor(p, a) /\ lane'[p].answer = EndsIn(a)
  BY <1>2
<1>4. ASSUME NEW v \in Vendor
      PROVE  EndsIn(a)[v] \in [lane[p].ask[v] -> Ends]
  <2>1. a[v] \in [lane[p].ask[v] -> ChunkAnswers(v)]
    BY <1>3 DEF AskedFor
  <2>2. \A x \in ChunkAnswers(v) : x.end \in Ends
    BY DEF ChunkAnswers, EndsOf, ChunkStatus, Ends
  <2>3. EndsIn(a)[v] = [c \in DOMAIN a[v] |-> a[v][c].end]
    BY DEF EndsIn
  <2>4. QED
    BY <2>1, <2>2, <2>3
<1>5. /\ \A q \in Proc : q # p => lane'[q] = lane[q]
      /\ lane'[p].pc \in {"combine", "add"} /\ lane'[p].cfg = lane[p].cfg
      /\ lane'[p].run = lane[p].run
      /\ lane'[p].pc = "combine" <=> lane[p].pc = "ask"
  BY <1>2 DEF GoesOn, Moves
<1>6. AskHistory(p)'
  <2>1. DOMAIN EndsIn(a) = Vendor
    BY DEF EndsIn
  <2>2. AskHistory(p)
    BY DEF History
  <2>3. UNCHANGED <<chunks, row, run, live>>
    BY DEF AskVendors, dbVars, envVars
  <2>4. FailedVendors' = FailedVendors /\ (\A v : Unresolved(v)' = Unresolved(v)) /\ ChunkSet' = ChunkSet
        /\ (Newest(p)' <=> Newest(p))
    BY <1>5, <2>3 DEF FailedVendors, Unresolved, ChunkSet, Newest
  <2>5. CASE lane[p].pc = "ask"
    BY <1>2, <1>3, <1>4, <1>5, <2>1, <2>2, <2>4, <2>5 DEF AskHistory, Answering, Retrying, Asking, Bound
  <2>6. CASE lane[p].pc = "ask again"
    BY <1>2, <1>3, <1>4, <1>5, <2>1, <2>2, <2>3, <2>4, <2>6 DEF AskHistory, Answering, Retrying, Asking, Bound
  <2>7. QED
    BY <1>2, <2>5, <2>6
<1>7. QED
  BY <1>1, <1>5, <1>6, HistoryGoes

LEMMA PrescreenHistory ==
  ASSUME Base, Control', History, NEW p \in Proc,
         Prescreen(p) \/ StoreContexts(p) \/ BindPolicy(p)
  PROVE  History'
<1>1. /\ GoesOn(p, {"skip", "prepare", "bind", "rows"})
      /\ lane[p].pc \in {"created", "prepare", "bind"}
  BY PrescreenLane, StoreContextsLane, BindPolicyLane DEF Base, GoesOn, Moves
<1>2. UNCHANGED <<chunks, row, live>> /\ run'.id = run.id /\ run'.status = run.status
  BY DEF Prescreen, StoreContexts, BindPolicy, dbVars, envVars, Base, RunOK, RunFields
<1>3. Steady
  BY <1>2 DEF Steady
<1>4. AskHistory(p)'
  <2>1. ChunkSet # {}
    BY DEF Prescreen, History, AskHistory, StoreContexts, BindPolicy
  <2>2. ChunkSet' = ChunkSet /\ lane'[p].pc \in {"skip", "prepare", "bind", "rows"}
    BY <1>1, <1>2 DEF ChunkSet, GoesOn, Moves
  <2>3. QED
    BY <2>1, <2>2 DEF AskHistory, Answering, Retrying, Asking, Bound
<1>5. QED
  BY <1>1, <1>3, <1>4, HistoryGoes DEF GoesOn, Moves

LEMMA AddRowsHistory ==
  ASSUME Base, Control, Control', History, NEW p \in Proc, AddRows(p)
  PROVE  History'
<1>1. /\ lane[p].pc = "rows" /\ GoesOn(p, {"ask"})
      /\ lane'[p].ask = [v \in Vendor |-> IF v \in lane[p].cfg.on THEN ChunkSet ELSE {}]
  BY AddRowsLane DEF Base
<1>2. UNCHANGED <<chunks, run, live>>
  BY DEF AddRows, envVars
<1>5. Steady
  <2>1. CASE Newest(p)
    <3>1. run.status # "done" /\ \A v \in Vendor : row[v].attempts = <<>>
      BY <1>1, <2>1 DEF Control, WorkOK, Fresh, Reviewing, Bound
    <3>2. \A v \in Vendor : row'[v].attempts = <<>>
      BY <2>1 DEF AddRows, NoRow
    <3>3. QED
      BY <1>2, <3>1, <3>2 DEF Steady
  <2>2. CASE ~Newest(p)
    BY <1>2, <2>2 DEF AddRows, Steady
  <2>3. QED
    BY <2>1, <2>2
<1>6. AskHistory(p)'
  <2>1. ChunkSet # {} /\ ChunkSet' = ChunkSet
    BY <1>1, <1>2 DEF History, AskHistory, Bound, ChunkSet
  <2>2. QED
    BY <1>1, <2>1 DEF GoesOn, Moves, AskHistory, Answering, Retrying, Asking, Bound
<1>7. QED
  BY <1>1, <1>5, <1>6, HistoryGoes DEF GoesOn, Moves

LEMMA RetryStartHistory ==
  ASSUME Base, Control', History, NEW p \in Proc, RetryStart(p)
  PROVE  History'
<1>1. Steady
  BY DEF RetryStart, Steady, dbVars, envVars
<1>2. CASE Rests(p)
  BY <1>1, <1>2, RestsIdle, HistorySteady DEF Base
<1>3. CASE /\ Moves(p, {"ask again"})
           /\ lane'[p].ask = [v \in Vendor |-> IF v \in FailedVendors THEN Unresolved(v) ELSE {}]
  <2>1. UNCHANGED <<chunks, row>>
    BY DEF RetryStart, dbVars, envVars
  <2>2. FailedVendors' = FailedVendors /\ \A v : Unresolved(v)' = Unresolved(v)
    BY <2>1 DEF FailedVendors, Unresolved
  <2>3. AskHistory(p)'
    BY <1>3, <2>2 DEF Moves, AskHistory, Answering, Retrying, Asking, Bound
  <2>4. QED
    BY <1>1, <1>3, <2>3, HistoryGoes DEF Moves
<1>4. QED
  BY <1>2, <1>3, RetryStartLane DEF Base

\* What an attempt that may be stored adds, and who it is for.
LEMMA Writing ==
  ASSUME Base, Control, History, NEW p \in Proc, Newest(p),
         lane[p].pc \in Asking \cap Answering \/ (lane[p].pc = "add" /\ p \in live),
         NEW v \in Vendor
  PROVE  IF lane[p].answer[v] = <<>>
         THEN /\ run.status = "done" => DoneRow(v)
              /\ run.status # "done" => row[v].status = "none" /\ row[v].attempts = <<>>
              /\ row[v].status \notin Failing
         ELSE /\ lane[p].answer[v] \in Attempt /\ row[v].status # "none"
              /\ Len(row[v].attempts) < MaxAttempts
                   => Tried(Append(row[v].attempts, lane[p].answer[v]))
<1>1. PICK D, ends, ts, status :
        D = lane[p].ask[v] /\ ends = lane[p].answer[v] /\ ts = row[v].attempts /\ status = row[v].status
  OBVIOUS
<1>2. ends \in [D -> Ends] /\ Tried(ts)
  BY <1>1 DEF History, AskHistory, Answering
<1>3. ends = <<>> <=> D = {}
  <2>1. DOMAIN ends = D
    BY <1>2
  <2>2. ends = <<>> => D = {}
    BY <2>1
  <2>3. D = {} => ends = <<>>
    BY <2>1
  <2>4. QED
    BY <2>2, <2>3
<1>4. CASE lane[p].pc \in Asking \cap Answering
  <2>1. run.status # "done" /\ ts = <<>> /\ (status = "none" <=> v \notin lane[p].cfg.on)
    BY <1>1, <1>4 DEF Control, WorkOK, Fresh, Reviewing, Bound
  <2>2. D = (IF v \in lane[p].cfg.on THEN ChunkSet ELSE {}) /\ ChunkSet # {}
    BY <1>1, <1>4 DEF History, AskHistory, Bound
  <2>3. CASE v \in lane[p].cfg.on
    <3>1. D = ChunkSet /\ D # {} /\ ends # <<>> /\ status # "none"
      BY <1>3, <2>1, <2>2, <2>3
    <3>2. ends \in Attempt
      <4>1. D \in (SUBSET ChunkSet) \ {{}}
        BY <3>1
      <4>2. QED
        BY <1>2, <4>1, Zenon DEF Attempt
    <3>3. Asks(ts, D)
      BY <2>1, <3>1 DEF Asks
    <3>4. Len(ts) < MaxAttempts => Tried(Append(ts, ends))
      BY <1>2, <3>1, <3>3, AttemptAdded
    <3>5. QED
      BY <1>1, <3>1, <3>2, <3>4
  <2>4. CASE v \notin lane[p].cfg.on
    BY <1>1, <1>3, <2>1, <2>2, <2>4 DEF Failing
  <2>5. QED
    BY <2>3, <2>4
<1>5. CASE lane[p].pc = "add" /\ p \in live
  <2>1. run.status = "done" /\ DoneRow(v)
    BY <1>5 DEF Control, WorkOK, History, Retrying
  <2>2. D = IF v \in FailedVendors THEN Unresolved(v) ELSE {}
    BY <1>1, <1>5 DEF History, AskHistory, Retrying
  <2>3. CASE v \in FailedVendors
    <3>1. status \in Failing /\ ts # <<>> /\ status = VendorStatus(ts[Len(ts)])
      BY <1>1, <2>1, <2>3 DEF FailedVendors, DoneRow, Failing
    <3>2. ts[Len(ts)] \in Attempt
      <4>1. ts \in Seq(Attempt)
        BY <1>2 DEF Tried
      <4>2. QED
        BY <3>1, <4>1
    <3>3. ~ \A c \in DOMAIN ts[Len(ts)] : ts[Len(ts)][c] = "done"
      BY <3>1, <3>2, StatusOfEnds DEF Failing
    <3>4. D = OpenIn(ts)
      BY <1>1, <2>2, <2>3 DEF Unresolved, OpenIn, Last
    <3>5. D # {} /\ D \subseteq ChunkSet
      <4>1. PICK e : e = ts[Len(ts)]
        OBVIOUS
      <4>2. PICK E \in (SUBSET ChunkSet) \ {{}} : e \in [E -> Ends]
        BY <3>2, <4>1, Zenon DEF Attempt
      <4>3. DOMAIN e = E
        BY <4>2
      <4>4. QED
        BY <3>3, <3>4, <4>1, <4>3 DEF OpenIn
    <3>6. ends # <<>> /\ status # "none"
      BY <1>3, <3>1, <3>5 DEF Failing
    <3>7. ends \in Attempt
      <4>1. D \in (SUBSET ChunkSet) \ {{}}
        BY <3>5
      <4>2. QED
        BY <1>2, <4>1, Zenon DEF Attempt
    <3>8. Len(ts) < MaxAttempts => Tried(Append(ts, ends))
      <4>1. Asks(ts, D)
        BY <3>1, <3>4 DEF Asks
      <4>2. QED
        BY <1>2, <3>5, <4>1, AttemptAdded
    <3>9. QED
      BY <1>1, <3>6, <3>7, <3>8
  <2>4. CASE v \notin FailedVendors
    <3>1. ends = <<>>
      BY <1>3, <2>2, <2>4
    <3>2. row[v].status \notin Failing
      BY <2>4 DEF FailedVendors
    <3>3. QED
      BY <1>1, <2>1, <3>1, <3>2
  <2>5. QED
    BY <2>3, <2>4
<1>6. QED
  BY <1>4, <1>5

\* An attempt of the newest run is stored and the lane rests.
LEMMA HistoryWrites ==
  ASSUME Base, Owning, Control, Control', History, NEW p \in Proc, Newest(p),
         lane[p].pc \in Asking \cap Answering \/ (lane[p].pc = "add" /\ p \in live),
         \A v \in Vendor : lane[p].answer[v] # <<>> => Len(row[v].attempts) < MaxAttempts,
         UNCHANGED <<chunks, live>>, run'.id = run.id, Rests(p),
         \A v \in Vendor : row'[v].attempts =
           IF lane[p].answer[v] = <<>> THEN row[v].attempts
           ELSE Append(row[v].attempts, lane[p].answer[v]),
         run'.status = "done" => row' = FinishedRows(p, lane[p].answer)
  PROVE  History'
<1>1. ASSUME NEW v \in Vendor PROVE Tried(row[v].attempts)'
  <2>1. PICK ts : ts = row'[v].attempts
    OBVIOUS
  <2>2. Tried(ts)
    <3>1. CASE lane[p].answer[v] = <<>>
      BY <2>1, <3>1 DEF History
    <3>2. CASE lane[p].answer[v] # <<>>
      BY <2>1, <3>2, Writing
    <3>3. QED
      BY <3>1, <3>2
  <2>3. ChunkSet' = ChunkSet
    BY DEF ChunkSet
  <2>4. Attempt' = Attempt
    BY <2>3 DEF Attempt
  <2>5. Tried(ts)'
    BY <2>2, <2>3, <2>4 DEF Tried, DoneIn, OpenIn
  <2>6. QED
    BY <2>1, <2>5
<1>2. ASSUME run'.status = "done", NEW v \in Vendor PROVE DoneRow(v)'
  <2>1. row'[v] = IF lane[p].answer[v] = <<>> THEN row[v] ELSE Finished(v, lane[p].answer[v])
    BY <1>2 DEF FinishedRows
  <2>2. CASE lane[p].answer[v] = <<>>
    <3>1. DoneRow(v)
      BY <2>2, Writing DEF DoneRow
    <3>2. QED
      BY <2>1, <2>2, <3>1 DEF DoneRow
  <2>3. CASE lane[p].answer[v] # <<>>
    <3>1. PICK ends, ts : ends = lane[p].answer[v] /\ ts = row[v].attempts
      OBVIOUS
    <3>2. ends \in Attempt /\ Tried(ts)
      BY <2>3, <3>1, Writing DEF History
    <3>3. row'[v].status = VendorStatus(ends) /\ row'[v].attempts = Append(ts, ends)
      BY <2>1, <2>3, <3>1 DEF Finished, Attempted
    <3>4. VendorStatus(ends) # "none"
      BY <3>2, StatusOfEnds DEF Failing
    <3>5. ts \in Seq(Attempt)
      BY <3>2 DEF Tried
    <3>6. Append(ts, ends) # <<>> /\ Append(ts, ends)[Len(Append(ts, ends))] = ends
      BY <3>2, <3>5, Appended
    <3>7. QED
      BY <3>3, <3>4, <3>6 DEF DoneRow
  <2>4. QED
    BY <2>2, <2>3
<1>3. lane'[p].pc = "idle" /\ \A q \in Proc : q # p => lane'[q] = lane[q]
  BY RestsIdle DEF Base
<1>4. AskHistory(p)'
  BY <1>3 DEF AskHistory, Answering, Retrying, Asking, Bound
<1>5. ASSUME NEW q \in Proc, q # p PROVE AskHistory(q)'
  <2>1. ~(lane[q].pc \in Retrying /\ q \in live /\ Newest(q))
    <3>1. ASSUME lane[q].pc \in Retrying, q \in live, Newest(q) PROVE FALSE
      <4>1. run.status = "done"
        BY <3>1 DEF Control, WorkOK
      <4>2. lane[p].pc = "add" /\ p \in live
        BY <4>1 DEF Control, WorkOK, Fresh, Reviewing, Bound
      <4>3. QED
        BY <1>5, <3>1, <4>2 DEF Owning, Retrying
    <3>2. QED
      BY <3>1
  <2>2. AskHistory(q) /\ lane'[q] = lane[q]
    BY <1>3, <1>5 DEF History
  <2>3. ChunkSet' = ChunkSet /\ (Newest(q)' <=> Newest(q))
    BY <2>2 DEF ChunkSet, Newest
  <2>4. QED
    BY <2>1, <2>2, <2>3 DEF AskHistory
<1>6. QED
  BY <1>1, <1>2, <1>4, <1>5 DEF History

LEMMA PersistHistory ==
  ASSUME Base, Owning, Control, Control', History, NEW p \in Proc,
         PersistAllFailed(p) \/ PersistStale(p) \/ Persist(p)
  PROVE  History'
<1>1. CASE Newest(p)
  <2>1. /\ lane[p].pc \in Asking \cap Answering /\ UNCHANGED <<chunks, live>> /\ Rests(p)
        /\ run'.id = run.id
    BY <1>1 DEF PersistAllFailed, PersistStale, Persist, Asking, Answering, envVars, Base, RunOK, RunFields
  <2>2. \A v \in Vendor : row[v].attempts = <<>>
    BY <1>1, <2>1 DEF Control, WorkOK, Fresh, Reviewing, Bound
  <2>3. \A v \in Vendor : Len(row[v].attempts) < MaxAttempts
    BY <2>2, ExecutionAssumption
  <2>4. \/ row' = FinishedRows(p, lane[p].answer)
        \/ row' = CanceledRows(p) /\ run'.status = "canceled"
    <3>1. CASE PersistStale(p)
      BY <3>1 DEF PersistStale, Base, RunOK, RunFields
    <3>2. CASE PersistAllFailed(p) \/ Persist(p)
      BY <1>1, <3>2 DEF PersistAllFailed, Persist
    <3>3. QED
      BY <3>1, <3>2
  <2>5. ASSUME NEW v \in Vendor
        PROVE  row'[v].attempts = IF lane[p].answer[v] = <<>> THEN row[v].attempts
                                  ELSE Append(row[v].attempts, lane[p].answer[v])
    <3>1. FinishedRows(p, lane[p].answer)[v].attempts =
            IF lane[p].answer[v] = <<>> THEN row[v].attempts
            ELSE Append(row[v].attempts, lane[p].answer[v])
      BY DEF FinishedRows, Finished, Attempted
    <3>2. CanceledRows(p)[v].attempts = FinishedRows(p, lane[p].answer)[v].attempts
      <4>1. CASE lane[p].answer[v] = <<>>
        BY <4>1 DEF CanceledRows, FinishedRows
      <4>2. CASE lane[p].answer[v] # <<>>
        <5>1. PICK r : r = FinishedRows(p, lane[p].answer)[v]
          OBVIOUS
        <5>2. DOMAIN r = {"status", "attempts"}
          BY <4>2, <5>1 DEF FinishedRows, Finished
        <5>3. CanceledRows(p)[v] = [r EXCEPT !.status = "canceled"]
          BY <4>2, <5>1 DEF CanceledRows
        <5>4. QED
          BY <5>1, <5>2, <5>3
      <4>3. QED
        BY <4>1, <4>2
    <3>3. QED
      BY <2>4, <3>1, <3>2
  <2>6. run'.status = "done" => row' = FinishedRows(p, lane[p].answer)
    BY <2>4
  <2>7. QED
    BY <1>1, <2>1, <2>3, <2>5, <2>6, HistoryWrites
<1>2. CASE ~Newest(p)
  <2>1. Rests(p) /\ UNCHANGED <<run, row, chunks, live>>
    BY <1>2 DEF PersistAllFailed, PersistStale, Persist, envVars
  <2>2. Steady
    BY <2>1 DEF Steady
  <2>3. QED
    BY <2>1, <2>2, RestsIdle, HistorySteady DEF Base
<1>3. QED
  BY <1>1, <1>2

LEMMA RetryAddsHistory ==
  ASSUME Base, Owning, Control, Control', History, NEW p \in Proc, RetryAdds(p)
  PROVE  History'
<1>1. /\ lane[p].pc = "add" /\ p \in live /\ Newest(p) /\ Rests(p) /\ UNCHANGED <<chunks, live>>
      /\ row' = FinishedRows(p, lane[p].answer) /\ run'.id = run.id
  BY DEF RetryAdds, MayWrite, envVars, Base, RunOK, RunFields
<1>2. ASSUME NEW v \in Vendor, lane[p].answer[v] # <<>> PROVE Len(row[v].attempts) < MaxAttempts
  <2>1. ~(Len(row[v].attempts) >= MaxAttempts)
    BY <1>2 DEF RetryAdds, EnvelopeFull
  <2>2. row[v].attempts \in Seq(Attempt)
    BY DEF History, Tried
  <2>3. QED
    BY <2>1, <2>2, ExecutionAssumption
<1>3. ASSUME NEW v \in Vendor
      PROVE  row'[v].attempts = IF lane[p].answer[v] = <<>> THEN row[v].attempts
                                ELSE Append(row[v].attempts, lane[p].answer[v])
  BY <1>1 DEF FinishedRows, Finished, Attempted
<1>4. QED
  BY <1>1, <1>2, <1>3, HistoryWrites

LEMMA CreateRunHistory ==
  ASSUME Base, Control, Control', History, NEW p \in Proc, CreateRun(p)
  PROVE  History'
<1>1. CASE Rests(p) /\ UNCHANGED dbVars
  <2>1. Steady
    BY <1>1 DEF CreateRun, Steady, dbVars, envVars
  <2>2. QED
    BY <1>1, <2>1, RestsIdle, HistorySteady DEF Base
<1>2. CASE /\ run' = [NoRun EXCEPT !.id = run.id + 1, !.status = "running", !.head = head]
           /\ row' = [v \in Vendor |-> NoRow]
           /\ lane' = [lane EXCEPT ![p] = [@ EXCEPT !.pc = "created", !.run = run.id + 1,
                                                    !.cfg = setting]]
  <2>1. run.id \in Nat /\ run'.id = run.id + 1 /\ run'.status = "running" /\ chunks' = chunks
    BY <1>2, SiteAssumption DEF CreateRun, envVars, Base, RunOK, EnvOK, NoRun
  <2>2. /\ \A q \in Proc : q # p => lane'[q] = lane[q]
        /\ lane'[p].pc = "created"
    BY <1>2 DEF Base, LanesOK, LaneOK, LaneFields
  <2>3. ASSUME NEW q \in Proc, q # p PROVE AskHistory(q)'
    <3>1. lane[q].pc \in Retrying => lane[q].run \in 1..run.id
      BY DEF Control, WorkOK
    <3>2. lane'[q].pc \in Retrying => ~(Newest(q)')
      BY <2>1, <2>2, <2>3, <3>1 DEF Newest
    <3>3. AskHistory(q) /\ ChunkSet' = ChunkSet /\ lane'[q] = lane[q]
      BY <2>1, <2>2, <2>3 DEF History, ChunkSet
    <3>4. QED
      BY <3>2, <3>3 DEF AskHistory
  <2>4. AskHistory(p)'
    BY <2>2 DEF AskHistory, Answering, Retrying, Asking, Bound
  <2>5. ASSUME NEW v \in Vendor PROVE Tried(row[v].attempts)'
    <3>1. row'[v].attempts = <<>>
      BY <1>2 DEF NoRow
    <3>2. ChunkSet' = ChunkSet
      BY <2>1 DEF ChunkSet
    <3>3. Attempt' = Attempt
      BY <3>2 DEF Attempt
    <3>4. Tried(<<>>)'
      BY <3>2, <3>3, NothingTried DEF Tried, DoneIn, OpenIn
    <3>5. QED
      BY <3>1, <3>4
  <2>6. QED
    BY <2>1, <2>3, <2>4, <2>5 DEF History
<1>3. QED
  BY <1>1, <1>2 DEF CreateRun

LEMMA HistoryStep ==
  ASSUME Base, Owning, Control, Control', History, Next
  PROVE  History'
<1>1. ASSUME Steady, \E q \in Proc : Rests(q) PROVE History'
  BY <1>1, RestsIdle, HistorySteady DEF Base
<1>2. ASSUME Steady, UNCHANGED lane PROVE History'
  BY <1>2, HistorySteady
<1>3. ASSUME UNCHANGED dbVars, UNCHANGED chunks, live' \subseteq live PROVE Steady
  BY <1>3 DEF Steady, dbVars
<1>4. ASSUME NEW p \in Proc, Claim(p) PROVE History'
  <2>1. Steady
    BY <1>3, <1>4 DEF Claim, envVars
  <2>2. \A q \in Proc : lane'[q] = lane[q] \/ lane'[q].pc \in {"review", "start"}
    BY <1>4 DEF Claim, Base, LanesOK, IdleLane
  <2>3. QED
    BY <2>1, <2>2, HistorySteady
<1>5. ASSUME NEW p \in Proc, Nothing(p) PROVE History'
  <2>1. Steady
    BY <1>5 DEF Nothing, Closes, Steady, Base, RunOK, RunFields, envVars
  <2>2. QED
    BY <1>1, <1>5, <2>1 DEF Nothing
<1>6. ASSUME NEW p \in Proc, ReviewFails(p) PROVE History'
  <2>1. Steady
    BY <1>6 DEF ReviewFails, RunFails, Steady, Base, RunOK, RunFields, envVars
  <2>2. QED
    BY <1>1, <1>6, <2>1 DEF ReviewFails, RunFails
<1>7. ASSUME NEW p \in Proc, Combine(p) PROVE History'
  <2>1. Steady
    BY <1>3, <1>7 DEF Combine, envVars
  <2>2. /\ lane[p].pc = "combine" /\ GoesOn(p, {"debate", "persist"})
        /\ lane'[p].ask = lane[p].ask /\ lane'[p].answer = lane[p].answer
    BY <1>7, CombineLane DEF Base
  <2>3. QED
    BY <2>1, <2>2, AskKept DEF Asking, Answering
<1>8. ASSUME NEW p \in Proc, Debate(p) PROVE History'
  <2>1. Steady
    BY <1>3, <1>8 DEF Debate, envVars
  <2>2. /\ lane[p].pc = "debate" /\ GoesOn(p, {"persist"})
        /\ lane'[p].ask = lane[p].ask /\ lane'[p].answer = lane[p].answer
    BY <1>8, DebateLane DEF Base
  <2>3. QED
    BY <2>1, <2>2, AskKept DEF Asking, Answering
<1>9. ASSUME NEW p \in Proc, LeaseLost(p) \/ RetryRefused(p) \/ RetryFails(p) \/ RetryStale(p)
      PROVE  History'
  BY <1>1, <1>3, <1>9 DEF LeaseLost, RetryRefused, RetryFails, RetryStale, envVars
<1>10. ASSUME NEW p \in Proc, Timeout(p) PROVE History'
  <2>1. Steady
    BY <1>10 DEF Timeout, Steady, Base, RunOK, RunFields, RowsOK, RowOK, envVars
  <2>2. QED
    BY <1>1, <1>10, <2>1 DEF Timeout
<1>11. ASSUME NEW p \in Proc, Crash(p) PROVE History'
  BY <1>1, <1>3, <1>11 DEF Crash
<1>12. ASSUME NEW p \in Proc, LeaseExpires(p) PROVE History'
  BY <1>2, <1>3, <1>12 DEF LeaseExpires
<1>13. ASSUME Recover PROVE History'
  <2>1. Steady
    BY <1>13 DEF Recover, Steady, Base, RunOK, RunFields, RowsOK, RowOK, envVars
  <2>2. QED
    BY <1>2, <1>13, <2>1 DEF Recover
<1>14. ASSUME RequestRetry \/ RequestReview \/ SettingChanges \/ HeadMoves PROVE History'
  BY <1>2, <1>3, <1>14 DEF RequestRetry, RequestReview, SettingChanges, HeadMoves, envVars
<1>15. ASSUME ContextsExpire \/ FindingChanges PROVE History'
  <2>1. Steady
    BY <1>15 DEF ContextsExpire, FindingChanges, Steady, Base, RunOK, RunFields
  <2>2. QED
    BY <1>2, <1>15, <2>1 DEF ContextsExpire, FindingChanges
<1>16. QED
  BY <1>4, <1>5, <1>6, <1>7, <1>8, <1>9, <1>10, <1>11, <1>12, <1>13, <1>14, <1>15,
     CreateRunHistory, PrescreenHistory, AddRowsHistory, AskVendorsHistory, PersistHistory,
     RetryStartHistory, RetryAddsHistory DEF Next

LEMMA HistoryInit ==
  ASSUME Init
  PROVE  History
<1>1. \A p \in Proc : lane[p].pc = "idle"
  BY DEF Init, IdleLane
<1>2. \A p \in Proc : AskHistory(p)
  BY <1>1 DEF AskHistory, Answering, Retrying, Asking, Bound
<1>3. run.status = "none" /\ \A v \in Vendor : row[v].attempts = <<>>
  BY DEF Init, NoRun, NoRow
<1>4. QED
  BY <1>2, <1>3, NothingTried DEF History

---------------------------------------------------------------------------
(* What was answered                                                      *)

Stored == Base /\ Owning /\ Control /\ History

LEMMA StoredStep ==
  ASSUME Stored, [Next]_vars, Base'
  PROVE  Stored'
<1>1. CASE Next
  BY <1>1, OwningStep, ControlStep, HistoryStep DEF Stored
<1>2. CASE UNCHANGED vars
  <2>1. Mild /\ Steady /\ UNCHANGED <<lane, job, live>>
    BY <1>2 DEF vars, Mild, Steady
  <2>2. Owning'
    BY <2>1 DEF Stored, Owning
  <2>3. Control'
    BY <2>1, ControlMild DEF Stored
  <2>4. History'
    BY <2>1, <2>3, HistorySteady DEF Stored
  <2>5. QED
    BY <2>2, <2>3, <2>4 DEF Stored
<1>3. QED
  BY <1>1, <1>2

LEMMA StoredHolds == Spec => []Stored
<1>1. Init => Base
  BY BaseInit
<1>2. Init /\ Base => Stored
  BY OwningInit, ControlInit, HistoryInit DEF Stored
<1>3. Stored /\ Base' /\ [Next]_vars => Stored'
  BY StoredStep
<1>4. QED
  BY <1>1, <1>2, <1>3, BaseHolds, PTL DEF Spec

LEMMA DoneSets ==
  ASSUME History, NEW v \in Vendor, NEW c \in ChunkSet
  PROVE  /\ AttemptsDone(v, c) = DoneIn(row[v].attempts, c)
         /\ Cardinality(AttemptsDone(v, c)) <= 1
<1>1. PICK D : D = AttemptsDone(v, c)
  OBVIOUS
<1>2. D = DoneIn(row[v].attempts, c)
  BY <1>1 DEF AttemptsDone, DoneIn
<1>3. \A m, n \in D : m = n
  BY <1>2 DEF History, Tried
<1>4. CASE D = {}
  BY <1>1, <1>2, <1>4, FS_EmptySet
<1>5. CASE D # {}
  <2>1. PICK m : D = {m}
    BY <1>3, <1>5
  <2>2. Cardinality(D) = 1
    BY <2>1, FS_Singleton
  <2>3. QED
    BY <1>1, <1>2, <2>2
<1>6. QED
  BY <1>4, <1>5

LEMMA OpenHolds ==
  ASSUME Base, History
  PROVE  OpenChunksRetryable
<1>1. ASSUME run.status = "done", NEW v \in Vendor, row[v].status # "none"
      PROVE  row[v].status = IF \A c \in ChunkSet : AttemptsDone(v, c) # {} THEN "done"
                             ELSE IF row[v].status \in Failing THEN row[v].status ELSE "failed"
  <2>1. PICK ts, status : ts = row[v].attempts /\ status = row[v].status
    OBVIOUS
  <2>2. Tried(ts) /\ ts # <<>> /\ status = VendorStatus(ts[Len(ts)])
    BY <1>1, <2>1 DEF History, DoneRow
  <2>3. ts[Len(ts)] \in Attempt
    <3>1. ts \in Seq(Attempt)
      BY <2>2 DEF Tried
    <3>2. QED
      BY <2>2, <3>1
  <2>4. PICK ends : ends = ts[Len(ts)]
    OBVIOUS
  <2>5. PICK D \in (SUBSET ChunkSet) \ {{}} : ends \in [D -> Ends]
    BY <2>3, <2>4, Zenon DEF Attempt
  <2>6. DOMAIN ends = D /\ D \subseteq ChunkSet
    BY <2>5
  <2>7. OpenIn(ts) = {c \in D : ends[c] # "done"}
    BY <2>4, <2>6 DEF OpenIn
  <2>8. \A c \in ChunkSet : DoneIn(ts, c) = {} <=> c \in OpenIn(ts)
    BY <2>2 DEF Tried
  <2>9. status \in {"done"} \cup Failing /\ (status = "done" <=> \A c \in D : ends[c] = "done")
    BY <2>2, <2>3, <2>4, <2>6, StatusOfEnds
  <2>10. (\A c \in ChunkSet : AttemptsDone(v, c) # {}) <=> \A c \in ChunkSet : DoneIn(ts, c) # {}
    BY <2>1, DoneSets
  <2>11. (\A c \in ChunkSet : DoneIn(ts, c) # {}) <=> OpenIn(ts) = {}
    BY <2>6, <2>7, <2>8
  <2>12. OpenIn(ts) = {} <=> status = "done"
    BY <2>7, <2>9
  <2>13. QED
    BY <2>1, <2>9, <2>10, <2>11, <2>12
<1>2. QED
  BY <1>1 DEF OpenChunksRetryable

\* Whatever was asked, failed and was asked again, in a run that is stored as done
\* the status of a vendor says whether a chunk is still open.
THEOREM OpenRetryable == Spec => []OpenChunksRetryable
<1>1. Stored => OpenChunksRetryable
  BY OpenHolds DEF Stored
<1>2. QED
  BY <1>1, StoredHolds, PTL

---------------------------------------------------------------------------
(* Findings on their way                                                  *)

\* A finding names a place that a vendor can name.
Placed == {f \in FindingRow : \E s \in Spots : f.path = s.path /\ f.line = s.line}

SameClaim(f, g) ==
  f.vendor = g.vendor /\ f.source = g.source /\ f.path = g.path /\ f.line = g.line

\* out are findings of fs, each at most once: number k is the one at pos[k].
Draws(out, fs, pos) ==
  /\ \A k \in 1..Len(out) : pos[k] \in 1..Len(fs) /\ SameClaim(out[k], fs[pos[k]])
  /\ \A j, k \in 1..Len(out) : pos[j] = pos[k] => j = k
Drawn(out, fs) ==
  out \in Seq(Placed) /\ \E pos \in [1..Len(out) -> Nat] : Draws(out, fs, pos)

LEMMA UpTo ==
  ASSUME NEW n \in Nat
  PROVE  IsFiniteSet(1..n) /\ Cardinality(1..n) = n
  BY FS_Interval

LEMMA DrawnShorter ==
  ASSUME NEW fs \in Seq(Placed), NEW out, Drawn(out, fs)
  PROVE  Len(out) <= Len(fs)
<1>1. PICK pos \in [1..Len(out) -> Nat] : Draws(out, fs, pos)
  BY DEF Drawn
<1>2. Len(out) \in Nat /\ Len(fs) \in Nat
  <2>1. out \in Seq(Placed)
    BY DEF Drawn
  <2>2. QED
    BY <2>1
<1>3. pos \in [1..Len(out) -> 1..Len(fs)]
  BY <1>1 DEF Draws
<1>4. SUFFICES ASSUME Len(fs) < Len(out) PROVE FALSE
  BY <1>2
<1>5. /\ IsFiniteSet(1..Len(fs)) /\ Cardinality(1..Len(fs)) = Len(fs)
      /\ IsFiniteSet(1..Len(out)) /\ Cardinality(1..Len(out)) = Len(out)
  BY <1>2, UpTo
<1>6. PICK j, k \in 1..Len(out) : j # k /\ pos[j] = pos[k]
  BY <1>3, <1>4, <1>5, FS_PigeonHole
<1>7. QED
  BY <1>1, <1>6 DEF Draws

LEMMA DrawnAll ==
  ASSUME NEW fs, NEW out \in Seq(Placed), Len(out) = Len(fs),
         \A k \in 1..Len(out) : SameClaim(out[k], fs[k])
  PROVE  Drawn(out, fs)
<1>1. PICK pos : pos = [k \in 1..Len(out) |-> k]
  OBVIOUS
<1>2. pos \in [1..Len(out) -> Nat] /\ \A k \in 1..Len(out) : pos[k] = k
  BY <1>1
<1>3. Draws(out, fs, pos)
  BY <1>2 DEF Draws
<1>4. QED
  BY <1>2, <1>3 DEF Drawn

LEMMA DrawnAgain ==
  ASSUME NEW fs, NEW mid, Drawn(mid, fs), NEW out, Drawn(out, mid)
  PROVE  Drawn(out, fs)
<1>1. PICK b \in [1..Len(mid) -> Nat] : Draws(mid, fs, b)
  BY DEF Drawn
<1>2. PICK a \in [1..Len(out) -> Nat] : Draws(out, mid, a)
  BY DEF Drawn
<1>3. PICK pos : pos = [k \in 1..Len(out) |-> b[a[k]]]
  OBVIOUS
<1>4. ASSUME NEW k \in 1..Len(out)
      PROVE  pos[k] = b[a[k]] /\ a[k] \in 1..Len(mid) /\ pos[k] \in Nat /\ pos[k] \in 1..Len(fs)
             /\ SameClaim(out[k], fs[pos[k]])
  <2>1. a[k] \in 1..Len(mid) /\ SameClaim(out[k], mid[a[k]]) /\ pos[k] = b[a[k]]
    BY <1>2, <1>3 DEF Draws
  <2>2. b[a[k]] \in Nat /\ b[a[k]] \in 1..Len(fs) /\ SameClaim(mid[a[k]], fs[b[a[k]]])
    BY <1>1, <2>1 DEF Draws
  <2>3. QED
    BY <2>1, <2>2 DEF SameClaim
<1>5. ASSUME NEW j \in 1..Len(out), NEW k \in 1..Len(out), pos[j] = pos[k] PROVE j = k
  <2>1. a[j] = a[k]
    BY <1>1, <1>4, <1>5 DEF Draws
  <2>2. QED
    BY <1>2, <2>1 DEF Draws
<1>6. pos \in [1..Len(out) -> Nat] /\ Draws(out, fs, pos)
  BY <1>3, <1>4, <1>5 DEF Draws
<1>7. QED
  BY <1>6 DEF Drawn

\* A map over findings that changes nothing of what they claim.
LEMMA DrawnMap ==
  ASSUME NEW fs \in Seq(Placed), NEW out, out = [i \in Indices(fs) |-> out[i]],
         \A i \in Indices(fs) : out[i] \in Placed /\ SameClaim(out[i], fs[i])
  PROVE  out \in Seq(Placed) /\ Len(out) = Len(fs) /\ Drawn(out, fs)
<1>1. Len(fs) \in Nat /\ Indices(fs) = 1..Len(fs)
  BY DEF Indices
<1>2. out \in Seq(Placed) /\ Len(out) = Len(fs)
  BY <1>1
<1>3. QED
  BY <1>1, <1>2, DrawnAll

\* What may change of a finding.
LEMMA PlacedOwner ==
  ASSUME NEW f \in Placed, NEW n \in Nat, NEW b \in BOOLEAN,
         NEW g, g = [f EXCEPT !.owner = n, !.eligible = b]
  PROVE  g \in Placed /\ SameClaim(g, f)
  BY DEF Placed, FindingRow, SameClaim

LEMMA PlacedGroup ==
  ASSUME NEW f \in Placed, NEW n \in Nat, NEW b \in BOOLEAN,
         NEW g, g = [f EXCEPT !.group = n, !.eligible = b]
  PROVE  g \in Placed /\ SameClaim(g, f)
  BY DEF Placed, FindingRow, SameClaim

LEMMA PlacedMerged ==
  ASSUME NEW f \in Placed, NEW n \in Nat, NEW b \in BOOLEAN,
         NEW g, \/ g = [f EXCEPT !.merged = n, !.consensus = b]
                \/ g = [f EXCEPT !.consensus = b, !.merged = n]
  PROVE  g \in Placed /\ SameClaim(g, f)
  BY DEF Placed, FindingRow, SameClaim

LEMMA PlacedVerify ==
  ASSUME NEW f \in Placed,
         NEW w \in {"none", "degraded", "refuted", "contested", "confirmed", "supported_self"},
         NEW g, g = [f EXCEPT !.verify = w]
  PROVE  g \in Placed /\ SameClaim(g, f)
  BY DEF Placed, FindingRow, SameClaim

LEMMA PlacedStatus ==
  ASSUME NEW f \in Placed, NEW s \in {"pending", "approved", "dismissed", "posted"},
         NEW g, g = [f EXCEPT !.status = s]
  PROVE  g \in Placed /\ SameClaim(g, f)
  BY DEF Placed, FindingRow, SameClaim

LEMMA OwnerNumber ==
  ASSUME Base, NEW f \in Placed
  PROVE  ChunkOwner[<<f.path, f.line>>] \in Nat
<1>1. PICK s \in Spots : f.path = s.path /\ f.line = s.line
  BY DEF Placed
<1>2. PICK place : place = <<f.path, f.line>>
  OBVIOUS
<1>3. place \in {<<t.path, t.line>> : t \in Spots}
  BY <1>1, <1>2
<1>4. ChunkOwner[place] = OwnerOf(chunks, place)
  BY <1>3, Zenon DEF ChunkOwner
<1>5. OwnerOf(chunks, place) \in Nat
  <2>1. WellFormed(Reviewable(site.diff))
    BY SiteAssumption, ReviewableFormed DEF Base, EnvOK
  <2>2. chunks \in Seq(Piece)
    BY <2>1, ChunksCover DEF Base, EnvOK
  <2>3. Len(chunks) \in Nat
    BY <2>2
  <2>4. PICK own : own = {i \in 1..Len(chunks) : place \in chunks[i].owned}
    OBVIOUS
  <2>5. own \subseteq Nat
    BY <2>3, <2>4
  <2>6. OwnerOf(chunks, place) = IF own = {} THEN 0 ELSE CHOOSE i \in own : TRUE
    BY <2>4 DEF OwnerOf
  <2>7. CASE own = {}
    BY <2>6, <2>7
  <2>8. CASE own # {}
    <3>1. PICK i : i = CHOOSE c \in own : TRUE
      OBVIOUS
    <3>2. i \in own
      BY <2>8, <3>1, Zenon
    <3>3. OwnerOf(chunks, place) = i
      BY <2>6, <2>8, <3>1, Zenon
    <3>4. QED
      BY <2>5, <3>2, <3>3
  <2>9. QED
    BY <2>7, <2>8
<1>6. QED
  BY <1>2, <1>4, <1>5

LEMMA DrawnScope ==
  ASSUME Base, NEW fs \in Seq(Placed), NEW mode
  PROVE  Drawn(ApplyScope(fs, ChunkOwner, mode), fs)
<1>1. PICK all : all = [i \in Indices(fs) |-> Scoped(fs[i], ChunkOwner[<<fs[i].path, fs[i].line>>])]
  OBVIOUS
<1>2. Len(fs) \in Nat /\ Indices(fs) = 1..Len(fs) /\ \A i \in 1..Len(fs) : fs[i] \in Placed
  BY DEF Indices
<1>3. ASSUME NEW i \in Indices(fs) PROVE all[i] \in Placed /\ SameClaim(all[i], fs[i])
  <2>1. PICK f, n, b : f = fs[i] /\ n = ChunkOwner[<<f.path, f.line>>] /\ b = (n # 0)
    OBVIOUS
  <2>2. n \in Nat /\ f \in Placed /\ b \in BOOLEAN
    BY <1>2, <1>3, <2>1, OwnerNumber
  <2>3. all[i] = [f EXCEPT !.owner = n, !.eligible = b]
    BY <1>1, <2>1 DEF Scoped
  <2>4. QED
    BY <2>1, <2>2, <2>3, PlacedOwner
<1>4. all \in Seq(Placed) /\ Drawn(all, fs)
  BY <1>1, <1>3, DrawnMap
<1>5. ApplyScope(fs, ChunkOwner, mode) =
        IF mode = "enforce" THEN Only(all, {i \in Indices(all) : all[i].owner # 0}) ELSE all
  BY <1>1 DEF ApplyScope
<1>6. ASSUME NEW kept PROVE Drawn(Only(all, kept), all)
  <2>1. PICK out : out = Only(all, kept)
    OBVIOUS
  <2>2. out \in Seq(Placed)
    BY <1>4, <2>1, OnlyPlaces
  <2>3. PICK pos \in [1..Len(out) -> Nat] : Keeps(out, all, kept, pos)
    BY <1>4, <2>1, OnlyPlaces
  <2>4. Len(out) \in Nat
    BY <2>2
  <2>5. Draws(out, all, pos)
    BY <2>3, <2>4 DEF Keeps, Draws, SameClaim
  <2>6. QED
    BY <2>1, <2>2, <2>3, <2>5 DEF Drawn
<1>7. QED
  BY <1>4, <1>5, <1>6, DrawnAgain

LEMMA SomeOf ==
  ASSUME NEW fs \in Seq(Placed), NEW S \in SUBSET Indices(fs)
  PROVE  IsFiniteSet(S) /\ Cardinality(S) \in Nat
<1>1. Len(fs) \in Nat
  OBVIOUS
<1>2. IsFiniteSet(1..Len(fs))
  BY <1>1, FS_Interval
<1>3. IsFiniteSet(S)
  BY <1>2, FS_Subset DEF Indices
<1>4. QED
  BY <1>3, FS_CardinalityType

LEMMA DrawnDuplicates ==
  ASSUME NEW fs \in Seq(Placed), NEW mode
  PROVE  Drawn(GroupDuplicates(fs, mode), fs)
<1>1. PICK out : out = GroupDuplicates(fs, mode)
  OBVIOUS
<1>2. ASSUME NEW i \in Indices(fs) PROVE GroupNumber(fs, i, 0) \in Nat
  <2>1. PICK S : S = {j \in Indices(fs) : /\ IsFirst(fs, j) /\ Cardinality(Twins(fs, j)) > 1
                                          /\ \E k \in Twins(fs, i) : j <= k /\ IsFirst(fs, k)}
    OBVIOUS
  <2>2. Cardinality(S) \in Nat
    BY <2>1, SomeOf
  <2>3. QED
    BY <2>1, <2>2 DEF GroupNumber
<1>3. ASSUME NEW i \in Indices(fs) PROVE out[i] \in Placed /\ SameClaim(out[i], fs[i])
  <2>1. PICK f, n, e : /\ f = fs[i] /\ n = GroupNumber(fs, i, 0)
                       /\ e = (f.eligible /\ (mode = "enforce" => IsFirst(fs, i)))
    OBVIOUS
  <2>2. f \in Placed /\ f.eligible \in BOOLEAN
    <3>1. f \in Placed
      BY <2>1 DEF Indices
    <3>2. QED
      BY <3>1 DEF Placed, FindingRow
  <2>3. n \in Nat /\ e \in BOOLEAN
    BY <1>2, <2>1
  <2>4. out[i] = f \/ out[i] = [f EXCEPT !.group = n, !.eligible = e]
    BY <1>1, <2>1 DEF GroupDuplicates
  <2>5. CASE out[i] = f
    BY <2>1, <2>2, <2>5 DEF SameClaim
  <2>6. CASE out[i] = [f EXCEPT !.group = n, !.eligible = e]
    BY <2>1, <2>2, <2>3, <2>6, PlacedGroup
  <2>7. QED
    BY <2>4, <2>5, <2>6
<1>4. out = [i \in Indices(fs) |-> out[i]]
  BY <1>1 DEF GroupDuplicates
<1>5. QED
  BY <1>1, <1>3, <1>4, DrawnMap

---------------------------------------------------------------------------
(* Groups of consensus                                                    *)

GroupState == [heads : Seq(Placed), of : Seq(Nat)]

\* The group that a finding joins: the first whose head is near, or a new one.
LEMMA GroupChosen ==
  ASSUME NEW s \in GroupState, NEW f \in Placed
  PROVE  \/ /\ \A n \in 1..Len(s.heads) : ~Near(s.heads[n], f)
            /\ GroupStep(s, f) = [heads |-> Append(s.heads, f), of |-> Append(s.of, Len(s.heads) + 1)]
         \/ \E g \in 1..Len(s.heads) :
              /\ Near(s.heads[g], f) /\ \A n \in 1..Len(s.heads) : Near(s.heads[n], f) => g <= n
              /\ GroupStep(s, f) = [heads |-> s.heads, of |-> Append(s.of, g)]
<1> DEFINE fits == {g \in Indices(s.heads) : Near(s.heads[g], f)}
           least == CHOOSE n \in fits : \A k \in fits : n <= k
<1>1. /\ GroupStep(s, f).heads = IF fits = {} THEN Append(s.heads, f) ELSE s.heads
      /\ GroupStep(s, f).of = Append(s.of, IF fits = {} THEN Len(s.heads) + 1 ELSE least)
      /\ GroupStep(s, f) = [heads |-> GroupStep(s, f).heads, of |-> GroupStep(s, f).of]
  BY DEF GroupStep
<1>2. /\ Len(s.heads) \in Nat /\ Indices(s.heads) = 1..Len(s.heads)
      /\ \A g : g \in fits <=> g \in Indices(s.heads) /\ Near(s.heads[g], f)
  BY DEF GroupState, Indices
<1>3. (\E m \in fits : \A k \in fits : m <= k) => least \in fits /\ \A k \in fits : least <= k
  BY Zenon
<1> HIDE DEF fits, least
<1>4. CASE fits = {}
  BY <1>1, <1>2, <1>4
<1>5. CASE fits # {}
  <2>1. fits \in SUBSET Nat
    BY <1>2
  <2>2. \E m \in fits : \A k \in fits : m <= k
    BY <1>5, <2>1, Least
  <2>3. least \in fits /\ \A k \in fits : least <= k
    BY <1>3, <2>2
  <2>4. GroupStep(s, f) = [heads |-> s.heads, of |-> Append(s.of, least)]
    BY <1>1, <1>5
  <2>5. QED
    BY <1>2, <2>3, <2>4
<1>6. QED
  BY <1>4, <1>5

LEMMA GroupStepTyped ==
  ASSUME NEW s \in GroupState, NEW f \in Placed
  PROVE  GroupStep(s, f) \in GroupState
<1>1. s.heads \in Seq(Placed) /\ s.of \in Seq(Nat) /\ Len(s.heads) \in Nat
  BY DEF GroupState
<1>2. \A n \in Nat : Append(s.of, n) \in Seq(Nat)
  BY <1>1
<1>3. Append(s.heads, f) \in Seq(Placed)
  BY <1>1
<1>4. \A g \in 1..Len(s.heads) : g \in Nat
  BY <1>1
<1>5. CASE GroupStep(s, f) = [heads |-> Append(s.heads, f), of |-> Append(s.of, Len(s.heads) + 1)]
  BY <1>1, <1>2, <1>3, <1>5 DEF GroupState
<1>6. CASE \E g \in 1..Len(s.heads) : GroupStep(s, f) = [heads |-> s.heads, of |-> Append(s.of, g)]
  BY <1>1, <1>2, <1>4, <1>6 DEF GroupState
<1>7. QED
  BY <1>5, <1>6, GroupChosen


\* The findings one after the other find their groups.
GroupsFindings(g, fs) ==
  /\ g[0] = [heads |-> <<>>, of |-> <<>>]
  /\ \A k \in 1..Len(fs) : g[k] = GroupStep(g[k-1], fs[k])
  /\ FoldLeft(GroupStep, [heads |-> <<>>, of |-> <<>>], fs) = g[Len(fs)]

LEMMA GroupsRun ==
  ASSUME NEW fs \in Seq(Placed)
  PROVE  \E g \in [0..Len(fs) -> GroupState] : GroupsFindings(g, fs)
<1> DEFINE n == Len(fs)
           step == [x \in GroupState \X (1..n) |-> GroupStep(x[1], fs[x[2]])]
           Fold(it) == it = [t \in SUBSET DOMAIN fs |->
                               IF t = {} THEN [heads |-> <<>>, of |-> <<>>]
                               ELSE GroupStep(it[t \ {Max(t)}], fs[Max(t)])]
<1>1. /\ n \in Nat /\ [heads |-> <<>>, of |-> <<>>] \in GroupState
      /\ \A x \in GroupState, i \in 1..n : GroupStep(x, fs[i]) \in GroupState
      /\ DOMAIN fs = 1..n
  <2>1. \A i \in 1..n : fs[i] \in Placed
    OBVIOUS
  <2>2. \A x \in GroupState, i \in 1..n : GroupStep(x, fs[i]) \in GroupState
    BY <2>1, GroupStepTyped
  <2>3. QED
    BY <2>2 DEF GroupState
<1>2. step \in [GroupState \X (1..n) -> GroupState]
  BY <1>1
<1>3. \A x \in GroupState, k \in 1..n : step[<<x, k>>] = GroupStep(x, fs[k])
  OBVIOUS
<1>4. DOMAIN fs = 1..n
  BY <1>1
<1> HIDE DEF n, step
<1>5. PICK it0 \in [SUBSET (1..n) -> GroupState] : Folds(it0, n, [heads |-> <<>>, of |-> <<>>], step)
  BY <1>1, <1>2, FoldExists
<1>6. \A t \in SUBSET (1..n) :
        it0[t] = IF t = {} THEN [heads |-> <<>>, of |-> <<>>] ELSE step[<<it0[t \ {Max(t)}], Max(t)>>]
  BY <1>5, Zenon DEF Folds
<1>7. ASSUME NEW t \in SUBSET (1..n), t # {}
      PROVE  it0[t] = GroupStep(it0[t \ {Max(t)}], fs[Max(t)])
  <2>1. Max(t) \in 1..n /\ t \ {Max(t)} \in SUBSET (1..n)
    BY <1>1, <1>7, FoldPlace
  <2>2. it0[t \ {Max(t)}] \in GroupState
    BY <1>5, <2>1
  <2>3. it0[t] = step[<<it0[t \ {Max(t)}], Max(t)>>]
    BY <1>6, <1>7
  <2>4. QED
    BY <1>3, <2>1, <2>2, <2>3
<1>8. Fold(it0)
  BY <1>4, <1>6, <1>7, Zenon
<1>9. PICK it : it = CHOOSE f : Fold(f)
  OBVIOUS
<1>10. Fold(it)
  BY <1>8, <1>9, Zenon
<1>11. FoldLeft(GroupStep, [heads |-> <<>>, of |-> <<>>], fs) = it[1..n]
  BY <1>4, <1>9, Zenon DEF FoldLeft, MapThenFoldSet
<1>12. it[{}] = [heads |-> <<>>, of |-> <<>>]
  BY <1>10, Zenon
<1>13. ASSUME NEW t \in SUBSET (1..n), t # {}, it[t \ {Max(t)}] \in GroupState
       PROVE  it[t] = step[<<it[t \ {Max(t)}], Max(t)>>]
  <2>1. Max(t) \in 1..n
    BY <1>1, <1>13, FoldPlace
  <2>2. it[t] = GroupStep(it[t \ {Max(t)}], fs[Max(t)])
    BY <1>4, <1>10, <1>13, Zenon
  <2>3. QED
    BY <1>3, <1>13, <2>1, <2>2
<1>14. PICK g \in [0..n -> GroupState] : FoldsTo(g, n, [heads |-> <<>>, of |-> <<>>], step, it[1..n])
  <2>1. Follows(it, n, GroupState, [heads |-> <<>>, of |-> <<>>], step)
    BY <1>12, <1>13, Zenon DEF Follows
  <2>2. QED
    BY <1>1, <1>2, <2>1, FoldRuns
<1>15. ASSUME NEW k \in 1..n PROVE g[k] = GroupStep(g[k-1], fs[k])
  <2>1. k - 1 \in 0..n
    BY <1>1
  <2>2. g[k-1] \in GroupState
    BY <2>1
  <2>3. g[k] = step[<<g[k-1], k>>]
    BY <1>14 DEF FoldsTo, Iterates
  <2>4. QED
    BY <1>3, <2>2, <2>3
<1>16. GroupsFindings(g, fs)
  BY <1>11, <1>14, <1>15, Zenon DEF FoldsTo, Iterates, GroupsFindings, n
<1>17. QED
  BY <1>16, Zenon DEF n


\* The first k findings have their groups: each is near the head of its own, and
\* of no earlier one.
GroupsTo(s, fs, k) ==
  /\ Len(s.of) = k /\ Len(s.heads) <= k
  /\ \A i \in 1..k :
       /\ s.of[i] \in 1..Len(s.heads) /\ Near(s.heads[s.of[i]], fs[i])
       /\ \A n \in 1..Len(s.heads) : Near(s.heads[n], fs[i]) => s.of[i] <= n

LEMMA NearItself ==
  ASSUME NEW f \in Placed
  PROVE  Near(f, f)
<1>1. f.line \in Int
  <2>1. PICK s \in Spots : f.line = s.line
    BY DEF Placed
  <2>2. s.line \in Nat
    BY ExecutionAssumption
  <2>3. QED
    BY <2>1, <2>2
<1>2. QED
  BY <1>1, PolicyAssumption DEF Near

LEMMA GroupsStep ==
  ASSUME NEW fs \in Seq(Placed), NEW k \in 1..Len(fs), NEW s \in GroupState,
         GroupsTo(s, fs, k - 1)
  PROVE  GroupsTo(GroupStep(s, fs[k]), fs, k)
<1>1. PICK h, o, f : h = s.heads /\ o = s.of /\ f = fs[k]
  OBVIOUS
<1>2. /\ h \in Seq(Placed) /\ o \in Seq(Nat) /\ f \in Placed /\ Len(h) \in Nat
      /\ Len(fs) \in Nat /\ Len(o) = k - 1 /\ Len(h) <= k - 1
  BY <1>1 DEF GroupState, GroupsTo
<1>3. \A n \in Nat : /\ Len(Append(o, n)) = k /\ Append(o, n)[k] = n
                     /\ \A i \in 1..(k - 1) : Append(o, n)[i] = o[i]
  BY <1>2
<1>4. ASSUME NEW i \in 1..(k - 1)
      PROVE  /\ o[i] \in 1..Len(h) /\ Near(h[o[i]], fs[i])
             /\ \A n \in 1..Len(h) : Near(h[n], fs[i]) => o[i] <= n
  BY <1>1, <1>4 DEF GroupsTo
<1>5. CASE /\ \A n \in 1..Len(h) : ~Near(h[n], f)
           /\ GroupStep(s, f) = [heads |-> Append(h, f), of |-> Append(o, Len(h) + 1)]
  <2>1. PICK H, O : H = Append(h, f) /\ O = Append(o, Len(h) + 1)
    OBVIOUS
  <2>2. /\ Len(H) = Len(h) + 1 /\ H[Len(h) + 1] = f /\ \A n \in 1..Len(h) : H[n] = h[n]
        /\ Len(O) = k /\ O[k] = Len(h) + 1 /\ \A i \in 1..(k - 1) : O[i] = o[i]
    BY <1>2, <1>3, <2>1
  <2>3. ASSUME NEW i \in 1..k
        PROVE  /\ O[i] \in 1..Len(H) /\ Near(H[O[i]], fs[i])
               /\ \A n \in 1..Len(H) : Near(H[n], fs[i]) => O[i] <= n
    <3>1. CASE i = k
      <4>1. O[i] = Len(h) + 1 /\ Len(h) + 1 \in 1..Len(H) /\ fs[i] = f /\ H[Len(h) + 1] = f
        BY <1>1, <1>2, <2>2, <3>1
      <4>2. Near(H[O[i]], fs[i])
        BY <1>2, <4>1, NearItself
      <4>3. ASSUME NEW n \in 1..Len(H), Near(H[n], fs[i]) PROVE O[i] <= n
        <5>1. n \in 1..(Len(h) + 1) /\ n \notin 1..Len(h)
          BY <1>5, <2>2, <4>1, <4>3
        <5>2. QED
          BY <1>2, <4>1, <5>1
      <4>4. QED
        BY <4>1, <4>2, <4>3
    <3>2. CASE i # k
      <4>1. i \in 1..(k - 1)
        BY <3>2
      <4>2. O[i] = o[i] /\ o[i] \in 1..Len(h) /\ H[o[i]] = h[o[i]] /\ Near(h[o[i]], fs[i])
        BY <1>4, <2>2, <4>1
      <4>3. ASSUME NEW n \in 1..Len(H), Near(H[n], fs[i]) PROVE o[i] <= n
        <5>1. CASE n \in 1..Len(h)
          BY <1>4, <2>2, <4>1, <4>3, <5>1
        <5>2. CASE n \notin 1..Len(h)
          BY <1>2, <2>2, <4>2, <5>2
        <5>3. QED
          BY <5>1, <5>2
      <4>4. QED
        BY <1>2, <2>2, <4>2, <4>3
    <3>3. QED
      BY <3>1, <3>2
  <2>4. GroupStep(s, f).heads = H /\ GroupStep(s, f).of = O
    BY <1>5, <2>1
  <2>5. QED
    BY <1>1, <1>2, <2>2, <2>3, <2>4 DEF GroupsTo
<1>6. CASE \E g \in 1..Len(h) :
             /\ Near(h[g], f) /\ \A n \in 1..Len(h) : Near(h[n], f) => g <= n
             /\ GroupStep(s, f) = [heads |-> h, of |-> Append(o, g)]
  <2>1. PICK g \in 1..Len(h) :
          /\ Near(h[g], f) /\ \A n \in 1..Len(h) : Near(h[n], f) => g <= n
          /\ GroupStep(s, f) = [heads |-> h, of |-> Append(o, g)]
    BY <1>6
  <2>2. PICK O : O = Append(o, g)
    OBVIOUS
  <2>3. Len(O) = k /\ O[k] = g /\ \A i \in 1..(k - 1) : O[i] = o[i]
    BY <1>2, <1>3, <2>2
  <2>4. ASSUME NEW i \in 1..k
        PROVE  /\ O[i] \in 1..Len(h) /\ Near(h[O[i]], fs[i])
               /\ \A n \in 1..Len(h) : Near(h[n], fs[i]) => O[i] <= n
    <3>1. CASE i = k
      BY <1>1, <2>1, <2>3, <3>1
    <3>2. CASE i # k
      <4>1. i \in 1..(k - 1)
        BY <3>2
      <4>2. QED
        BY <1>4, <2>3, <4>1
    <3>3. QED
      BY <3>1, <3>2
  <2>5. GroupStep(s, f).heads = h /\ GroupStep(s, f).of = O
    BY <2>1, <2>2
  <2>6. QED
    BY <1>1, <1>2, <2>3, <2>4, <2>5 DEF GroupsTo
<1>7. QED
  BY <1>1, <1>2, <1>5, <1>6, GroupChosen

\* The groups of all findings.
LEMMA GroupsAll ==
  ASSUME NEW fs \in Seq(Placed)
  PROVE  \E s \in GroupState : MergeGroups(fs) = s.of /\ GroupsTo(s, fs, Len(fs))
<1> DEFINE n == Len(fs)
<1>1. n \in Nat
  OBVIOUS
<1>2. PICK g \in [0..n -> GroupState] : GroupsFindings(g, fs)
  BY GroupsRun
<1> DEFINE P == {k \in 0..n : GroupsTo(g[k], fs, k)}
<1>3. 0 \in P
  <2>1. g[0] = [heads |-> <<>>, of |-> <<>>]
    BY <1>2 DEF GroupsFindings
  <2>2. GroupsTo(g[0], fs, 0)
    BY <2>1 DEF GroupsTo
  <2>3. QED
    BY <1>1, <2>2
<1>4. ASSUME NEW k \in 1..n, k - 1 \in P PROVE k \in P
  <2>1. k - 1 \in 0..n /\ k \in 0..n
    BY <1>1
  <2>2. g[k-1] \in GroupState /\ GroupsTo(g[k-1], fs, k - 1) /\ g[k] = GroupStep(g[k-1], fs[k])
    BY <1>2, <1>4, <2>1 DEF GroupsFindings
  <2>3. GroupsTo(g[k], fs, k)
    BY <2>2, GroupsStep
  <2>4. QED
    BY <2>1, <2>3
<1>5. \A k \in 0..n : k \in P
  <2> HIDE DEF n, P
  <2>1. QED
    BY <1>1, <1>3, <1>4, Climb
<1>6. n \in 0..n
  BY <1>1
<1>7. g[n] \in GroupState /\ GroupsTo(g[n], fs, n)
  BY <1>5, <1>6
<1>8. MergeGroups(fs) = g[n].of
  BY <1>2 DEF GroupsFindings, MergeGroups
<1>9. QED
  BY <1>7, <1>8

---------------------------------------------------------------------------
(* Consensus, debate and order                                            *)

LEMMA DrawnTagged ==
  ASSUME NEW fs \in Seq(Placed)
  PROVE  /\ Tagged(fs) \in Seq(Placed) /\ Len(Tagged(fs)) = Len(fs) /\ Drawn(Tagged(fs), fs)
         /\ \A i \in 1..Len(fs) : Tagged(fs)[i].merged \in 1..Len(fs)
<1>1. PICK s \in GroupState : MergeGroups(fs) = s.of /\ GroupsTo(s, fs, Len(fs))
  BY GroupsAll
<1>2. PICK out : out = Tagged(fs)
  OBVIOUS
<1>3. out = [i \in Indices(fs) |-> [fs[i] EXCEPT !.merged = s.of[i], !.consensus = Agreed(fs, s.of, i)]]
  BY <1>1, <1>2 DEF Tagged
<1>4. Len(fs) \in Nat /\ Indices(fs) = 1..Len(fs) /\ Len(s.heads) \in Nat
  BY DEF Indices, GroupState
<1>5. ASSUME NEW i \in 1..Len(fs) PROVE s.of[i] \in 1..Len(fs)
  BY <1>1, <1>4 DEF GroupsTo
<1>6. ASSUME NEW i \in Indices(fs)
      PROVE  /\ out[i] \in Placed /\ SameClaim(out[i], fs[i])
             /\ out[i].merged = s.of[i]
  <2>1. PICK f, n, b : f = fs[i] /\ n = s.of[i] /\ b = Agreed(fs, s.of, i)
    OBVIOUS
  <2>2. f \in Placed /\ n \in Nat
    BY <1>4, <1>5, <2>1
  <2>3. b \in BOOLEAN
    BY <2>1 DEF Agreed
  <2>4. out[i] = [f EXCEPT !.merged = n, !.consensus = b]
    BY <1>3, <2>1
  <2>5. out[i].merged = n
    BY <2>2, <2>4 DEF Placed, FindingRow
  <2>6. QED
    BY <2>1, <2>2, <2>3, <2>4, <2>5, PlacedMerged
<1>7. out \in Seq(Placed) /\ Len(out) = Len(fs) /\ Drawn(out, fs)
  BY <1>3, <1>6, DrawnMap
<1>8. QED
  BY <1>2, <1>4, <1>5, <1>6, <1>7

LEMMA VerdictOne ==
  ASSUME NEW author, NEW by, NEW first, NEW second
  PROVE  Verdict(author, by, first, second)
           \in {"degraded", "supported_self", "confirmed", "contested", "refuted"}
<1>1. CASE first = "error"
  BY <1>1 DEF Verdict
<1>2. CASE first = "stands"
  BY <1>2 DEF Verdict
<1>3. CASE first # "error" /\ first # "stands"
  <2>1. CASE first = "falls" /\ Independent(author, by) /\ second = "stands"
    BY <1>3, <2>1 DEF Verdict
  <2>2. CASE ~(first = "falls" /\ Independent(author, by) /\ second = "stands")
    BY <1>3, <2>2 DEF Verdict
  <2>3. QED
    BY <2>1, <2>2
<1>4. QED
  BY <1>1, <1>2, <1>3

LEMMA DrawnDebated ==
  ASSUME NEW fs \in Seq(Placed), NEW cfg, NEW by, NEW say
  PROVE  /\ Debated(fs, cfg, by, say) \in Seq(Placed) /\ Len(Debated(fs, cfg, by, say)) = Len(fs)
         /\ Drawn(Debated(fs, cfg, by, say), fs)
         /\ cfg.merge => \A i \in 1..Len(fs) : Debated(fs, cfg, by, say)[i].merged = fs[i].merged
<1>1. PICK out : out = Debated(fs, cfg, by, say)
  OBVIOUS
<1>2. Len(fs) \in Nat /\ Indices(fs) = 1..Len(fs)
  BY DEF Indices
<1>3. ASSUME NEW i \in Indices(fs)
      PROVE  out[i] \in Placed /\ SameClaim(out[i], fs[i]) /\ (cfg.merge => out[i].merged = fs[i].merged)
  <2>1. PICK f : f = IF cfg.merge THEN fs[i] ELSE [fs[i] EXCEPT !.consensus = FALSE, !.merged = 0]
    OBVIOUS
  <2>2. fs[i] \in Placed
    BY <1>2
  <2>3. f \in Placed /\ SameClaim(f, fs[i])
    <3>1. CASE cfg.merge
      BY <2>1, <2>2, <3>1 DEF SameClaim
    <3>2. CASE ~cfg.merge
      <4>1. f = [fs[i] EXCEPT !.consensus = FALSE, !.merged = 0]
        BY <2>1, <3>2
      <4>2. QED
        BY <2>2, <4>1, PlacedMerged
    <3>3. QED
      BY <3>1, <3>2
  <2>4. PICK w : w = Verdict(f.vendor, by, say[i].first, say[i].second)
    OBVIOUS
  <2>5. w \in {"degraded", "supported_self", "confirmed", "contested", "refuted"}
    BY <2>4, VerdictOne
  <2>6. out[i] = f \/ out[i] = [f EXCEPT !.verify = w]
    BY <1>1, <2>1, <2>4 DEF Debated
  <2>7. CASE out[i] = f
    BY <2>1, <2>3, <2>7
  <2>8. CASE out[i] = [f EXCEPT !.verify = w]
    <3>1. out[i] \in Placed /\ SameClaim(out[i], f)
      BY <2>3, <2>5, <2>8, PlacedVerify
    <3>2. out[i].merged = f.merged
      BY <2>3, <2>8 DEF Placed, FindingRow
    <3>3. QED
      BY <2>1, <2>3, <3>1, <3>2 DEF SameClaim
  <2>9. QED
    BY <2>6, <2>7, <2>8
<1>4. out = [i \in Indices(fs) |-> out[i]]
  <2> DEFINE e(i) ==
        LET f == IF cfg.merge THEN fs[i] ELSE [fs[i] EXCEPT !.consensus = FALSE, !.merged = 0]
        IN IF i \notin DOMAIN say THEN f
           ELSE [f EXCEPT !.verify = Verdict(f.vendor, by, say[i].first, say[i].second)]
  <2>1. out = [i \in Indices(fs) |-> e(i)]
    BY <1>1 DEF Debated
  <2> HIDE DEF e
  <2>2. QED
    BY <2>1
<1>5. out \in Seq(Placed) /\ Len(out) = Len(fs) /\ Drawn(out, fs)
  BY <1>3, <1>4, DrawnMap
<1>6. QED
  BY <1>1, <1>2, <1>3, <1>5

\* out are the findings of fs group by group, in their order within a group.
Regroups(out, fs, pos) ==
  /\ \A k \in 1..Len(out) : pos[k] \in 1..Len(fs) /\ out[k] = fs[pos[k]]
  /\ \A j, k \in 1..Len(out) : pos[j] = pos[k] => j = k
  /\ \A j, k \in 1..Len(out) : j < k /\ fs[pos[j]].merged = fs[pos[k]].merged => pos[j] < pos[k]
  /\ \A i \in 1..Len(fs) : fs[i].merged \in 1..Len(fs) => \E k \in 1..Len(out) : pos[k] = i

LEMMA OrderPlaces ==
  ASSUME NEW fs \in Seq(Placed)
  PROVE  /\ InGroupOrder(fs) \in Seq(Placed)
         /\ \E pos \in [1..Len(InGroupOrder(fs)) -> Nat] : Regroups(InGroupOrder(fs), fs, pos)
<1>1. PICK n : n = Len(fs)
  OBVIOUS
<1>2. n \in Nat /\ Indices(fs) = 1..n
  BY <1>1 DEF Indices
<1>3. PICK kept : kept = [g \in 1..n |-> {i \in 1..n : fs[i].merged = g}]
  OBVIOUS
<1>4. PICK ss : ss = [g \in 1..n |-> Only(fs, kept[g])]
  OBVIOUS
<1>5. ASSUME NEW g \in 1..n
      PROVE  /\ ss[g] \in Seq(Placed)
             /\ \E p \in [1..Len(ss[g]) -> Nat] : Keeps(ss[g], fs, kept[g], p)
             /\ \A i \in 1..n : i \in kept[g] <=> fs[i].merged = g
  <2>1. ss[g] = Only(fs, kept[g])
    BY <1>4
  <2>2. \A i \in 1..n : i \in kept[g] <=> fs[i].merged = g
    BY <1>3
  <2>3. PICK kg : kg = kept[g]
    OBVIOUS
  <2>4. Only(fs, kg) \in Seq(Placed) /\ \E p \in [1..Len(Only(fs, kg)) -> Nat] : Keeps(Only(fs, kg), fs, kg, p)
    BY OnlyPlaces
  <2>5. QED
    BY <2>1, <2>2, <2>3, <2>4
<1>6. ss \in Seq(Seq(Placed)) /\ Len(ss) = n
  BY <1>2, <1>4, <1>5
<1>7. PICK F : F = InGroupOrder(fs)
  OBVIOUS
<1>8. F = FlattenSeq(ss)
  <2>1. ss = [g \in Indices(fs) |-> Only(fs, {i \in Indices(fs) : fs[i].merged = g})]
    BY <1>2, <1>3, <1>4
  <2>2. QED
    BY <1>7, <2>1 DEF InGroupOrder
<1>9. F \in Seq(Placed) /\ Len(F) \in Nat
  <2>1. F \in Seq(Placed)
    BY <1>6, <1>8, FlattenPlaces
  <2>2. QED
    BY <2>1
<1>10. PICK part \in [1..Len(F) -> Nat], col \in [1..Len(F) -> Nat] : Flattens(F, ss, n, part, col)
  BY <1>6, <1>8, FlattenPlaces
<1>11. PICK ps : ps = [g \in 1..n |-> CHOOSE p \in [1..Len(ss[g]) -> Nat] : Keeps(ss[g], fs, kept[g], p)]
  OBVIOUS
<1>12. ASSUME NEW g \in 1..n PROVE ps[g] \in [1..Len(ss[g]) -> Nat] /\ Keeps(ss[g], fs, kept[g], ps[g])
  BY <1>5, <1>11, Zenon
<1>13. PICK pos : pos = [k \in 1..Len(F) |-> ps[part[k]][col[k]]]
  OBVIOUS
<1>14. ASSUME NEW k \in 1..Len(F)
       PROVE  /\ part[k] \in 1..n /\ col[k] \in 1..Len(ss[part[k]])
              /\ pos[k] = ps[part[k]][col[k]] /\ pos[k] \in Nat /\ pos[k] \in 1..n
              /\ F[k] = fs[pos[k]] /\ fs[pos[k]].merged = part[k]
  <2>1. part[k] \in 1..n /\ col[k] \in 1..Len(ss[part[k]]) /\ F[k] = ss[part[k]][col[k]]
    BY <1>10 DEF Flattens
  <2>2. PICK g, c : g = part[k] /\ c = col[k]
    OBVIOUS
  <2>3. PICK p : p = ps[g]
    OBVIOUS
  <2>4. p \in [1..Len(ss[g]) -> Nat] /\ Keeps(ss[g], fs, kept[g], p)
    BY <1>12, <2>1, <2>2, <2>3
  <2>5. p[c] \in Nat /\ p[c] \in 1..n /\ p[c] \in kept[g] /\ ss[g][c] = fs[p[c]]
    BY <1>1, <2>1, <2>2, <2>4 DEF Keeps
  <2>6. fs[p[c]].merged = g
    BY <1>5, <2>1, <2>2, <2>5
  <2>7. pos[k] = p[c]
    BY <1>13, <2>2, <2>3
  <2>8. QED
    BY <2>1, <2>2, <2>3, <2>5, <2>6, <2>7
<1>15. ASSUME NEW j \in 1..Len(F), NEW k \in 1..Len(F), j < k, part[j] = part[k]
       PROVE  pos[j] < pos[k]
  <2>1. col[j] < col[k]
    <3>1. part[j] \in Nat /\ (part[j] < part[k] \/ (part[j] = part[k] /\ col[j] < col[k]))
      BY <1>10, <1>15 DEF Flattens
    <3>2. QED
      BY <1>15, <3>1
  <2>2. PICK g : g = part[j]
    OBVIOUS
  <2>3. PICK p : p = ps[g]
    OBVIOUS
  <2>4. Keeps(ss[g], fs, kept[g], p) /\ col[j] \in 1..Len(ss[g]) /\ col[k] \in 1..Len(ss[g])
    BY <1>12, <1>14, <1>15, <2>2, <2>3
  <2>5. p[col[j]] < p[col[k]]
    BY <2>1, <2>4 DEF Keeps
  <2>6. QED
    BY <1>14, <1>15, <2>2, <2>3, <2>5
<1>16. ASSUME NEW j \in 1..Len(F), NEW k \in 1..Len(F), pos[j] = pos[k] PROVE j = k
  <2>1. part[j] = part[k] /\ pos[j] \in Nat /\ pos[k] \in Nat
    BY <1>14, <1>16
  <2>2. ~(j < k) /\ ~(k < j)
    BY <1>15, <1>16, <2>1
  <2>3. QED
    BY <1>9, <2>2
<1>17. ASSUME NEW i \in 1..n, fs[i].merged \in 1..n
       PROVE  \E k \in 1..Len(F) : pos[k] = i
  <2>1. PICK g \in 1..n : g = fs[i].merged
    BY <1>17
  <2>2. i \in kept[g]
    BY <1>5, <2>1
  <2>3. PICK p : p = ps[g]
    OBVIOUS
  <2>4. Keeps(ss[g], fs, kept[g], p)
    BY <1>12, <2>3
  <2>5. PICK c \in 1..Len(ss[g]) : p[c] = i
    BY <1>1, <2>2, <2>4 DEF Keeps
  <2>6. PICK k \in 1..Len(F) : part[k] = g /\ col[k] = c
    BY <1>10, <2>5 DEF Flattens
  <2>7. pos[k] = i
    BY <1>13, <2>3, <2>5, <2>6
  <2>8. QED
    BY <2>7
<1>18. pos \in [1..Len(F) -> Nat] /\ Regroups(F, fs, pos)
  <2>1. pos \in [1..Len(F) -> Nat]
    BY <1>13, <1>14
  <2>2. \A j, k \in 1..Len(F) : j < k /\ fs[pos[j]].merged = fs[pos[k]].merged => pos[j] < pos[k]
    BY <1>14, <1>15
  <2>3. QED
    BY <1>1, <1>14, <1>16, <1>17, <2>1, <2>2 DEF Regroups
<1>19. QED
  BY <1>7, <1>9, <1>18

LEMMA DrawnOrder ==
  ASSUME NEW fs \in Seq(Placed)
  PROVE  Drawn(InGroupOrder(fs), fs)
<1>1. PICK out : out = InGroupOrder(fs)
  OBVIOUS
<1>2. out \in Seq(Placed) /\ \E pos \in [1..Len(out) -> Nat] : Regroups(out, fs, pos)
  BY <1>1, OrderPlaces
<1>3. PICK pos \in [1..Len(out) -> Nat] : Regroups(out, fs, pos)
  BY <1>2
<1>4. Draws(out, fs, pos)
  BY <1>3 DEF Regroups, Draws, SameClaim
<1>5. QED
  BY <1>1, <1>2, <1>4 DEF Drawn

---------------------------------------------------------------------------
(* What vendors found                                                     *)

LEMMA ChunksCounted ==
  ASSUME Base
  PROVE  Len(chunks) \in Nat /\ ChunkSet = 1..Len(chunks) /\ ChunkSet \subseteq Nat
<1>1. WellFormed(Reviewable(site.diff))
  BY SiteAssumption, ReviewableFormed DEF Base, EnvOK
<1>2. chunks \in Seq(Piece)
  BY <1>1, ChunksCover DEF Base, EnvOK
<1>3. Len(chunks) \in Nat
  BY <1>2
<1>4. QED
  BY <1>3 DEF ChunkSet

\* Every finding comes from a chunk that was answered, and no two from the same.
FoundFrom(fs, ends) ==
  /\ \A i \in 1..Len(fs) : /\ fs[i].source \in ChunkSet
                           /\ fs[i].source \in DOMAIN ends[fs[i].vendor]
                           /\ ends[fs[i].vendor][fs[i].source] = "done"
  /\ \A i, j \in 1..Len(fs) : fs[i].vendor = fs[j].vendor /\ fs[i].source = fs[j].source => i = j

LEMMA FoundDrawn ==
  ASSUME NEW fs, NEW ends, FoundFrom(fs, ends), NEW out, Drawn(out, fs)
  PROVE  FoundFrom(out, ends)
<1>1. PICK pos \in [1..Len(out) -> Nat] : Draws(out, fs, pos)
  BY DEF Drawn
<1>2. ASSUME NEW i \in 1..Len(out)
      PROVE  /\ pos[i] \in 1..Len(fs)
             /\ out[i].vendor = fs[pos[i]].vendor /\ out[i].source = fs[pos[i]].source
  BY <1>1 DEF Draws, SameClaim
<1>3. ASSUME NEW i \in 1..Len(out), NEW j \in 1..Len(out),
             out[i].vendor = out[j].vendor, out[i].source = out[j].source
      PROVE  i = j
  <2>1. PICK x, y : x = pos[i] /\ y = pos[j]
    OBVIOUS
  <2>2. /\ x \in 1..Len(fs) /\ y \in 1..Len(fs)
        /\ fs[x].vendor = fs[y].vendor /\ fs[x].source = fs[y].source
    BY <1>2, <1>3, <2>1
  <2>3. x = y
    BY <2>2 DEF FoundFrom
  <2>4. QED
    BY <1>1, <2>1, <2>3 DEF Draws
<1>4. QED
  BY <1>2, <1>3 DEF FoundFrom

\* A finding as a vendor hands it in.
Raw(f) == /\ f.eligible = TRUE /\ f.owner = 0 /\ f.group = 0
          /\ f.verify = "none" /\ f.status = "pending"

LEMMA VendorFindings ==
  ASSUME Base, NEW v \in Vendor, NEW D, NEW answers \in [D -> ChunkAnswers(v)]
  PROVE  LET fs == FindingsOf(v, answers) IN
         /\ fs \in Seq(Placed)
         /\ \A i \in 1..Len(fs) : /\ fs[i].vendor = v /\ fs[i].source \in ChunkSet
                                  /\ fs[i].source \in D /\ answers[fs[i].source].end = "done"
                                  /\ Raw(fs[i])
         /\ \A i, j \in 1..Len(fs) : fs[i].source = fs[j].source => i = j
<1>1. PICK n : n = Len(chunks)
  OBVIOUS
<1>2. n \in Nat /\ ChunkSet = 1..n
  BY <1>1, ChunksCounted
<1>3. PICK ss : ss = [c \in ChunkSet |->
                        IF c \in DOMAIN answers /\ answers[c].spot # Silent
                        THEN <<Finding(v, c, answers[c].spot)>> ELSE <<>>]
  OBVIOUS
<1>4. ASSUME NEW c \in 1..n
      PROVE  \/ ss[c] = <<>>
             \/ /\ c \in D /\ answers[c].end = "done"
                /\ \E f \in Placed : f.vendor = v /\ f.source = c /\ Raw(f) /\ ss[c] = <<f>>
  <2>1. CASE c \in D /\ answers[c].spot # Silent
    <3>1. PICK a, s : a = answers[c] /\ s = a.spot
      OBVIOUS
    <3>2. a \in ChunkAnswers(v) /\ s # Silent
      BY <2>1, <3>1
    <3>3. a.end = "done" /\ s \in site.spots
      BY <3>1, <3>2 DEF ChunkAnswers
    <3>4. s \in Spots
      BY <3>3, SiteAssumption DEF Base, EnvOK
    <3>5. PICK f : f = Finding(v, c, s)
      OBVIOUS
    <3>6. f \in Placed /\ f.vendor = v /\ f.source = c /\ Raw(f)
      BY <1>2, <3>4, <3>5 DEF Finding, Placed, FindingRow, Raw
    <3>7. ss[c] = <<f>>
      BY <1>2, <1>3, <2>1, <3>1, <3>5
    <3>8. QED
      BY <2>1, <3>1, <3>3, <3>6, <3>7
  <2>2. CASE ~(c \in D /\ answers[c].spot # Silent)
    BY <1>2, <1>3, <2>2
  <2>3. QED
    BY <2>1, <2>2
<1>5. ss \in Seq(Seq(Placed)) /\ Len(ss) = n
  BY <1>2, <1>3, <1>4
<1>6. PICK F : F = FindingsOf(v, answers)
  OBVIOUS
<1>7. F = FlattenSeq(ss)
  BY <1>3, <1>6 DEF FindingsOf
<1>8. F \in Seq(Placed) /\ Len(F) \in Nat
  <2>1. F \in Seq(Placed)
    BY <1>5, <1>7, FlattenPlaces
  <2>2. QED
    BY <2>1
<1>9. PICK part \in [1..Len(F) -> Nat], col \in [1..Len(F) -> Nat] : Flattens(F, ss, n, part, col)
  BY <1>5, <1>7, FlattenPlaces
<1>10. ASSUME NEW i \in 1..Len(F)
       PROVE  /\ part[i] \in 1..n /\ F[i].vendor = v /\ F[i].source = part[i] /\ col[i] = 1
              /\ part[i] \in D /\ answers[part[i]].end = "done" /\ Raw(F[i])
  <2>1. PICK c : c = part[i]
    OBVIOUS
  <2>2. c \in 1..n /\ col[i] \in 1..Len(ss[c]) /\ F[i] = ss[c][col[i]]
    BY <1>9, <2>1 DEF Flattens
  <2>3. ss[c] # <<>>
    BY <2>2
  <2>4. PICK f \in Placed : f.vendor = v /\ f.source = c /\ Raw(f) /\ ss[c] = <<f>>
    BY <1>4, <2>2, <2>3
  <2>5. col[i] = 1 /\ F[i] = f
    BY <2>2, <2>4
  <2>6. QED
    BY <1>4, <2>1, <2>2, <2>3, <2>4, <2>5
<1>11. ASSUME NEW i \in 1..Len(F), NEW j \in 1..Len(F), F[i].source = F[j].source PROVE i = j
  <2>1. part[i] = part[j] /\ col[i] = col[j] /\ part[i] \in Nat /\ col[i] \in Nat
    BY <1>10, <1>11
  <2>2. /\ i < j => part[i] < part[j] \/ (part[i] = part[j] /\ col[i] < col[j])
        /\ j < i => part[j] < part[i] \/ (part[j] = part[i] /\ col[j] < col[i])
    BY <1>9 DEF Flattens
  <2>3. QED
    BY <1>8, <2>1, <2>2
<1>12. \A i \in 1..Len(F) : /\ F[i].vendor = v /\ F[i].source \in ChunkSet
                            /\ F[i].source \in D /\ answers[F[i].source].end = "done"
                            /\ Raw(F[i])
  BY <1>2, <1>10
<1>13. QED
  BY <1>6, <1>8, <1>11, <1>12

LEMMA FoundGood ==
  ASSUME Base, NEW p, NEW a, AskedFor(p, a)
  PROVE  /\ Found(a) \in Seq(Placed) /\ FoundFrom(Found(a), EndsIn(a))
         /\ \A i \in 1..Len(Found(a)) : Raw(Found(a)[i])
<1>1. PICK ss : ss = [n \in 1..2 |-> FindingsOf(VendorOrder[n], a[VendorOrder[n]])]
  OBVIOUS
<1>2. PICK F, ends : F = Found(a) /\ ends = EndsIn(a)
  OBVIOUS
<1>3. F = FlattenSeq(ss)
  BY <1>1, <1>2 DEF Found
<1>4. ASSUME NEW n \in 1..2
      PROVE  /\ ss[n] \in Seq(Placed)
             /\ \A i \in 1..Len(ss[n]) :
                  /\ ss[n][i].vendor = VendorOrder[n]
                  /\ ss[n][i].source \in ChunkSet
                  /\ ss[n][i].source \in DOMAIN ends[VendorOrder[n]]
                  /\ ends[VendorOrder[n]][ss[n][i].source] = "done"
                  /\ Raw(ss[n][i])
             /\ \A i, j \in 1..Len(ss[n]) : ss[n][i].source = ss[n][j].source => i = j
  <2>1. PICK v, fs, D : v = VendorOrder[n] /\ fs = FindingsOf(v, a[v]) /\ D = lane[p].ask[v]
    OBVIOUS
  <2>2. v \in Vendor /\ ss[n] = fs
    BY <1>1, <2>1 DEF VendorOrder, Vendor
  <2>3. a[v] \in [D -> ChunkAnswers(v)]
    BY <2>1, <2>2 DEF AskedFor
  <2>4. /\ fs \in Seq(Placed)
        /\ \A i \in 1..Len(fs) : /\ fs[i].vendor = v /\ fs[i].source \in ChunkSet
                                 /\ fs[i].source \in D /\ a[v][fs[i].source].end = "done"
                                 /\ Raw(fs[i])
        /\ \A i, j \in 1..Len(fs) : fs[i].source = fs[j].source => i = j
    BY <2>1, <2>2, <2>3, VendorFindings
  <2>5. DOMAIN ends[v] = D /\ \A c \in D : ends[v][c] = a[v][c].end
    BY <1>2, <2>2, <2>3 DEF EndsIn
  <2>6. QED
    BY <2>1, <2>2, <2>4, <2>5
<1>5. ss \in Seq(Seq(Placed)) /\ Len(ss) = 2
  BY <1>1, <1>4
<1>6. F \in Seq(Placed) /\ Len(F) \in Nat
  <2>1. F \in Seq(Placed)
    BY <1>3, <1>5, FlattenPlaces
  <2>2. QED
    BY <2>1
<1>7. PICK part \in [1..Len(F) -> Nat], col \in [1..Len(F) -> Nat] : Flattens(F, ss, 2, part, col)
  BY <1>3, <1>5, FlattenPlaces
<1>8. ASSUME NEW i \in 1..Len(F)
      PROVE  /\ part[i] \in 1..2 /\ col[i] \in 1..Len(ss[part[i]]) /\ F[i] = ss[part[i]][col[i]]
             /\ F[i].vendor = VendorOrder[part[i]]
  BY <1>4, <1>7 DEF Flattens
<1>9. ASSUME NEW i \in 1..Len(F)
      PROVE  /\ F[i].source \in ChunkSet /\ F[i].source \in DOMAIN ends[F[i].vendor]
             /\ ends[F[i].vendor][F[i].source] = "done" /\ Raw(F[i])
  <2>1. PICK r, c, f : r = part[i] /\ c = col[i] /\ f = F[i]
    OBVIOUS
  <2>2. r \in 1..2 /\ c \in 1..Len(ss[r]) /\ f = ss[r][c] /\ f.vendor = VendorOrder[r]
    BY <1>8, <2>1
  <2>3. /\ f.source \in ChunkSet /\ f.source \in DOMAIN ends[VendorOrder[r]]
        /\ ends[VendorOrder[r]][f.source] = "done" /\ Raw(f)
    BY <1>4, <2>2
  <2>4. QED
    BY <2>1, <2>2, <2>3
<1>10. ASSUME NEW i \in 1..Len(F), NEW j \in 1..Len(F),
              F[i].vendor = F[j].vendor, F[i].source = F[j].source
       PROVE  i = j
  <2>1. part[i] = part[j]
    <3>1. VendorOrder[1] = "claude" /\ VendorOrder[2] = "codex"
      BY DEF VendorOrder
    <3>2. PICK r, s : r = part[i] /\ s = part[j]
      OBVIOUS
    <3>3. r \in {1, 2} /\ s \in {1, 2} /\ VendorOrder[r] = VendorOrder[s]
      BY <1>8, <1>10, <3>2
    <3>4. QED
      BY <3>1, <3>2, <3>3
  <2>2. PICK r : r = part[i]
    OBVIOUS
  <2>3. /\ r \in 1..2 /\ col[i] \in 1..Len(ss[r]) /\ col[j] \in 1..Len(ss[r])
        /\ ss[r][col[i]].source = ss[r][col[j]].source
    BY <1>8, <1>10, <2>1, <2>2
  <2>4. col[i] = col[j]
    BY <1>4, <2>3
  <2>5. /\ i < j => part[i] < part[j] \/ (part[i] = part[j] /\ col[i] < col[j])
        /\ j < i => part[j] < part[i] \/ (part[j] = part[i] /\ col[j] < col[i])
    BY <1>7 DEF Flattens
  <2>6. part[i] \in Nat /\ col[i] \in Nat
    OBVIOUS
  <2>7. QED
    BY <1>6, <2>1, <2>4, <2>5, <2>6
<1>11. QED
  BY <1>2, <1>6, <1>9, <1>10 DEF FoundFrom

---------------------------------------------------------------------------
(* What a retry adds                                                      *)

LEMMA HighestPlace ==
  ASSUME NEW fs \in Seq(Placed), fs # <<>>
  PROVE  \E i \in 1..Len(fs) : \A j \in 1..Len(fs) : fs[j].group <= fs[i].group
<1> DEFINE n == Len(fs)
           P == {k \in 0..n : k = 0 \/ \E i \in 1..k : \A j \in 1..k : fs[j].group <= fs[i].group}
<1>1. n \in Nat /\ n # 0 /\ \A i \in 1..n : fs[i].group \in Nat
  <2>1. n \in Nat /\ n # 0 /\ \A i \in 1..n : fs[i] \in Placed
    OBVIOUS
  <2>2. \A f \in Placed : f.group \in Nat
    BY DEF Placed, FindingRow
  <2>3. QED
    BY <2>1, <2>2
<1>2. 0 \in P
  BY <1>1
<1>3. ASSUME NEW k \in 1..n, k - 1 \in P PROVE k \in P
  <2>1. k \in 0..n /\ \A j \in 1..k : j = k \/ j \in 1..(k - 1)
    BY <1>1
  <2>2. CASE k = 1
    BY <1>1, <2>1, <2>2
  <2>3. CASE k # 1
    <3>1. PICK i \in 1..(k - 1) : \A j \in 1..(k - 1) : fs[j].group <= fs[i].group
      BY <1>3, <2>3
    <3>2. i \in 1..n /\ i \in 1..k /\ k \in 1..k /\ fs[i].group \in Nat /\ fs[k].group \in Nat
      BY <1>1
    <3>3. CASE fs[k].group <= fs[i].group
      <4>1. \A j \in 1..k : fs[j].group <= fs[i].group
        BY <2>1, <3>1, <3>3
      <4>2. QED
        BY <2>1, <3>2, <4>1
    <3>4. CASE ~(fs[k].group <= fs[i].group)
      <4>1. \A j \in 1..k : fs[j].group <= fs[k].group
        BY <1>1, <2>1, <3>1, <3>2, <3>4
      <4>2. QED
        BY <2>1, <3>2, <4>1
    <3>5. QED
      BY <3>3, <3>4
  <2>4. QED
    BY <2>2, <2>3
<1>4. \A k \in 0..n : k \in P
  <2> HIDE DEF n, P
  <2>1. QED
    BY <1>1, <1>2, <1>3, Climb
<1>5. n \in 0..n
  BY <1>1
<1>6. n \in P
  BY <1>4, <1>5, Zenon
<1>7. QED
  BY <1>1, <1>6

\* The highest group number in use.
LEMMA HighestIs ==
  ASSUME NEW fs \in Seq(Placed)
  PROVE  Highest(fs) \in Nat /\ \A i \in 1..Len(fs) : fs[i].group <= Highest(fs)
<1>1. Len(fs) \in Nat /\ Indices(fs) = 1..Len(fs) /\ \A i \in 1..Len(fs) : fs[i].group \in Nat
  BY DEF Indices, Placed, FindingRow
<1>2. CASE \A i \in Indices(fs) : fs[i].group = 0
  BY <1>1, <1>2 DEF Highest
<1>3. CASE ~\A i \in Indices(fs) : fs[i].group = 0
  <2>1. fs # <<>>
    BY <1>1, <1>3
  <2>2. PICK i \in 1..Len(fs) : \A j \in 1..Len(fs) : fs[j].group <= fs[i].group
    BY <2>1, HighestPlace
  <2>3. PICK h : h = CHOOSE n \in {fs[k].group : k \in Indices(fs)} :
                       \A k \in Indices(fs) : fs[k].group <= n
    OBVIOUS
  <2>4. \E n \in {fs[k].group : k \in Indices(fs)} : \A k \in Indices(fs) : fs[k].group <= n
    BY <1>1, <2>2
  <2>5. h \in {fs[k].group : k \in Indices(fs)} /\ \A k \in Indices(fs) : fs[k].group <= h
    BY <2>3, <2>4, Zenon
  <2>6. Highest(fs) = h
    BY <1>3, <2>3, Zenon DEF Highest
  <2>7. QED
    BY <1>1, <2>5, <2>6
<1>4. QED
  BY <1>2, <1>3

\* The parts of GroupRetried: fs are old and new findings, the last n are new.
Fresh2(fs, m, i) == \E j \in Twins(fs, i) : j > m
FirstNew(fs, m, i) == i > m /\ \A j \in Twins(fs, i) : j > m => i <= j
KeptGroups(fs, m, i) == {fs[j].group : j \in {k \in Twins(fs, i) : ~(k > m)}} \ {0}
NewHeads(fs, m) ==
  {i \in Indices(fs) : /\ FirstNew(fs, m, i) /\ KeptGroups(fs, m, i) = {}
                       /\ Cardinality(Twins(fs, i)) > 1}
NewNumber(fs, m, old, i) ==
  Highest(old) + Cardinality({j \in NewHeads(fs, m) :
                                \E k \in Twins(fs, i) : FirstNew(fs, m, k) /\ j <= k})

\* What becomes of finding number i.
RetriedAt(fs, m, old, mode, g, i) ==
  IF ~Fresh2(fs, m, i) \/ Cardinality(Twins(fs, i)) < 2 THEN g = fs[i]
  ELSE \E n \in Nat :
    /\ KeptGroups(fs, m, i) # {} => n \in KeptGroups(fs, m, i)
    /\ KeptGroups(fs, m, i) = {} => n = NewNumber(fs, m, old, i)
    /\ g = [fs[i] EXCEPT !.group = n, !.eligible = @ /\ (mode = "enforce" => IsFirst(fs, i))]

LEMMA RetriedIs ==
  ASSUME NEW old \in Seq(Placed), NEW new \in Seq(Placed), NEW mode
  PROVE  LET fs == old \o new
             out == GroupRetried(old, new, mode)
         IN  /\ out = [i \in Indices(fs) |-> out[i]]
             /\ \A i \in Indices(fs) : RetriedAt(fs, Len(old), old, mode, out[i], i)
<1> DEFINE fs == old \o new
           m == Len(old)
           out == GroupRetried(old, new, mode)
           number(i) == IF KeptGroups(fs, m, i) # {} THEN CHOOSE g \in KeptGroups(fs, m, i) : TRUE
                        ELSE NewNumber(fs, m, old, i)
           e(i) == IF ~Fresh2(fs, m, i) \/ Cardinality(Twins(fs, i)) < 2 THEN fs[i]
                   ELSE [fs[i] EXCEPT !.group = number(i),
                           !.eligible = @ /\ (mode = "enforce" => IsFirst(fs, i))]
<1>2. fs \in Seq(Placed)
  OBVIOUS
<1>3. out = [i \in Indices(fs) |-> e(i)]
  BY DEF GroupRetried, Fresh2, FirstNew, KeptGroups, NewHeads, NewNumber
<1> HIDE DEF fs, m, out
<1>4. ASSUME NEW i \in Indices(fs) PROVE number(i) \in Nat
  <2>1. \A k \in Twins(fs, i) : fs[k].group \in Nat
    BY <1>2 DEF Twins, Indices, Placed, FindingRow
  <2>2. CASE KeptGroups(fs, m, i) # {}
    <3>1. PICK g : g = CHOOSE h \in KeptGroups(fs, m, i) : TRUE
      OBVIOUS
    <3>2. g \in KeptGroups(fs, m, i)
      BY <2>2, <3>1, Zenon
    <3>3. g \in Nat
      BY <2>1, <3>2 DEF KeptGroups
    <3>4. QED
      BY <2>2, <3>1, <3>3
  <2>3. CASE KeptGroups(fs, m, i) = {}
    <3>1. PICK S : S = {j \in NewHeads(fs, m) : \E k \in Twins(fs, i) : FirstNew(fs, m, k) /\ j <= k}
      OBVIOUS
    <3>2. S \in SUBSET Indices(fs)
      BY <3>1 DEF NewHeads
    <3>3. Cardinality(S) \in Nat /\ Highest(old) \in Nat
      BY <1>2, <3>2, SomeOf, HighestIs
    <3>4. NewNumber(fs, m, old, i) = Highest(old) + Cardinality(S)
      BY <3>1 DEF NewNumber
    <3>5. QED
      BY <2>3, <3>3, <3>4
  <2>4. QED
    BY <2>2, <2>3
<1>5. ASSUME NEW i \in Indices(fs), KeptGroups(fs, m, i) # {} PROVE number(i) \in KeptGroups(fs, m, i)
  BY <1>5, Zenon
<1>6. ASSUME NEW i \in Indices(fs), KeptGroups(fs, m, i) = {} PROVE number(i) = NewNumber(fs, m, old, i)
  BY <1>6
<1> HIDE DEF number
<1>7. ASSUME NEW i \in Indices(fs) PROVE RetriedAt(fs, m, old, mode, out[i], i)
  <2>1. out[i] = e(i)
    BY <1>3
  <2>2. CASE ~Fresh2(fs, m, i) \/ Cardinality(Twins(fs, i)) < 2
    BY <2>1, <2>2 DEF RetriedAt
  <2>3. CASE ~(~Fresh2(fs, m, i) \/ Cardinality(Twins(fs, i)) < 2)
    <3>1. out[i] = [fs[i] EXCEPT !.group = number(i),
                      !.eligible = @ /\ (mode = "enforce" => IsFirst(fs, i))]
      BY <2>1, <2>3
    <3>2. QED
      BY <1>4, <1>5, <1>6, <2>3, <3>1 DEF RetriedAt
  <2>4. QED
    BY <2>2, <2>3
<1>8. out = [i \in Indices(fs) |-> out[i]]
  <2> HIDE DEF e
  <2>1. QED
    BY <1>3
<1>9. QED
  BY <1>7, <1>8 DEF fs, m, out

\* The findings stay what they are; only numbers and eligibility change.
LEMMA RetriedPlaced ==
  ASSUME NEW old \in Seq(Placed), NEW new \in Seq(Placed), NEW mode
  PROVE  LET fs == old \o new
             out == GroupRetried(old, new, mode)
         IN  /\ out \in Seq(Placed) /\ Len(out) = Len(old) + Len(new)
             /\ \A i \in 1..Len(out) : SameClaim(out[i], fs[i]) /\ out[i].status = fs[i].status
<1>1. PICK fs, m, out : fs = old \o new /\ m = Len(old) /\ out = GroupRetried(old, new, mode)
  OBVIOUS
<1>2. fs \in Seq(Placed) /\ Len(fs) = Len(old) + Len(new) /\ Indices(fs) = 1..Len(fs)
  BY <1>1 DEF Indices
<1>3. /\ out = [i \in Indices(fs) |-> out[i]]
      /\ \A i \in Indices(fs) : RetriedAt(fs, m, old, mode, out[i], i)
  BY <1>1, RetriedIs
<1>4. ASSUME NEW i \in Indices(fs)
      PROVE  out[i] \in Placed /\ SameClaim(out[i], fs[i]) /\ out[i].status = fs[i].status
  <2>1. PICK f : f = fs[i]
    OBVIOUS
  <2>2. f \in Placed
    BY <1>2, <2>1
  <2>21. f.eligible \in BOOLEAN
    BY <2>2 DEF Placed, FindingRow
  <2>3. CASE out[i] = fs[i]
    BY <2>1, <2>2, <2>3 DEF SameClaim
  <2>4. CASE \E n \in Nat : out[i] = [f EXCEPT !.group = n,
                                        !.eligible = @ /\ (mode = "enforce" => IsFirst(fs, i))]
    <3>0. PICK b : b = (f.eligible /\ (mode = "enforce" => IsFirst(fs, i)))
      OBVIOUS
    <3>1. PICK n \in Nat : out[i] = [f EXCEPT !.group = n, !.eligible = b]
      BY <2>4, <3>0
    <3>2. b \in BOOLEAN
      BY <2>21, <3>0
    <3>3. out[i] \in Placed /\ SameClaim(out[i], f)
      BY <2>2, <3>1, <3>2, PlacedGroup
    <3>4. out[i].status = f.status
      BY <2>2, <3>1 DEF Placed, FindingRow
    <3>5. QED
      BY <2>1, <3>3, <3>4
  <2>5. QED
    BY <1>3, <2>1, <2>3, <2>4 DEF RetriedAt
<1>5. out \in Seq(Placed) /\ Len(out) = Len(fs)
  <2>1. Len(fs) \in Nat
    BY <1>2
  <2>2. QED
    BY <1>2, <1>3, <1>4, <2>1
<1>6. QED
  BY <1>1, <1>2, <1>4, <1>5

---------------------------------------------------------------------------
(* The findings of a run                                                  *)

FoundOK(p) ==
  lane[p].pc \in Answering =>
    /\ lane[p].found \in Seq(Placed) /\ FoundFrom(lane[p].found, lane[p].answer)
    /\ Len(lane[p].found) <= MaxFindings
    /\ lane[p].pc = "add" /\ p \in live /\ Newest(p) =>
         Len(finding) + Len(lane[p].found) <= MaxFindings

\* Every stored finding comes from a chunk that is answered, each from its own.
FindingOK ==
  /\ finding \in Seq(Placed) /\ Len(finding) <= MaxFindings
  /\ \A i \in 1..Len(finding) :
       /\ finding[i].source \in ChunkSet
       /\ DoneIn(row[finding[i].vendor].attempts, finding[i].source) # {}
  /\ \A i, j \in 1..Len(finding) :
       finding[i].vendor = finding[j].vendor /\ finding[i].source = finding[j].source => i = j

Findings == FindingOK /\ \A p \in Proc : FoundOK(p)

\* No finding is added and none goes; what they claim stays.
Quiet ==
  /\ run'.id = run.id /\ UNCHANGED chunks /\ live' \subseteq live
  /\ \A v \in Vendor : row'[v].attempts = row[v].attempts
  /\ finding' \in Seq(Placed) /\ Len(finding') = Len(finding)
  /\ \A i \in 1..Len(finding) : SameClaim(finding'[i], finding[i])

LEMMA QuietFindings ==
  ASSUME FindingOK, Quiet
  PROVE  FindingOK'
<1>1. ChunkSet' = ChunkSet
  BY DEF Quiet, ChunkSet
<1>2. ASSUME NEW i \in 1..Len(finding')
      PROVE  /\ i \in 1..Len(finding) /\ finding'[i].vendor = finding[i].vendor
             /\ finding'[i].source = finding[i].source
             /\ finding'[i].source \in ChunkSet
             /\ DoneIn(row'[finding'[i].vendor].attempts, finding'[i].source) # {}
  <2>1. /\ i \in 1..Len(finding) /\ finding'[i].vendor = finding[i].vendor
        /\ finding'[i].source = finding[i].source
    BY <1>2 DEF Quiet, SameClaim
  <2>2. PICK v, c : v = finding[i].vendor /\ c = finding[i].source
    OBVIOUS
  <2>3. v \in Vendor
    <3>1. PICK f : f = finding[i]
      OBVIOUS
    <3>2. f \in Placed
      BY <2>1, <3>1 DEF FindingOK
    <3>3. f.vendor \in Vendor
      BY <3>2 DEF Placed, FindingRow
    <3>4. QED
      BY <2>2, <3>1, <3>3
  <2>4. c \in ChunkSet /\ DoneIn(row[v].attempts, c) # {}
    BY <2>1, <2>2 DEF FindingOK
  <2>5. row'[v].attempts = row[v].attempts
    BY <2>3 DEF Quiet
  <2>6. QED
    BY <2>1, <2>2, <2>4, <2>5
<1>3. finding' \in Seq(Placed) /\ Len(finding') <= MaxFindings
  BY DEF Quiet, FindingOK
<1>4. \A i, j \in 1..Len(finding') :
        finding'[i].vendor = finding'[j].vendor /\ finding'[i].source = finding'[j].source => i = j
  BY <1>2 DEF FindingOK
<1>5. QED
  BY <1>1, <1>2, <1>3, <1>4 DEF FindingOK, DoneIn

LEMMA QuietLane ==
  ASSUME Findings, Quiet, NEW p \in Proc, lane'[p] = lane[p] \/ lane'[p].pc \notin Answering
  PROVE  FoundOK(p)'
<1>1. ChunkSet' = ChunkSet /\ (p \in live' => p \in live) /\ Len(finding') = Len(finding)
  BY DEF Quiet, ChunkSet
<1>2. CASE lane'[p].pc \notin Answering
  BY <1>2 DEF FoundOK, Answering
<1>3. CASE lane'[p] = lane[p]
  <2>1. FoundOK(p) /\ (Newest(p)' <=> Newest(p))
    BY <1>3 DEF Findings, Quiet, Newest
  <2>2. QED
    BY <1>1, <1>3, <2>1 DEF FoundOK, FoundFrom, Answering
<1>4. QED
  BY <1>2, <1>3

LEMMA QuietStep ==
  ASSUME Findings, Quiet, \A p \in Proc : lane'[p] = lane[p] \/ lane'[p].pc \notin Answering
  PROVE  Findings'
  BY QuietFindings, QuietLane DEF Findings

\* One lane goes on.
LEMMA QuietGoes ==
  ASSUME Findings, Quiet, NEW p \in Proc, FoundOK(p)',
         \A q \in Proc : q # p => lane'[q] = lane[q]
  PROVE  Findings'
  BY QuietFindings, QuietLane DEF Findings

LEMMA SameFindings ==
  ASSUME Findings, run'.id = run.id, UNCHANGED <<finding, chunks>>, live' \subseteq live,
         \A v \in Vendor : row'[v].attempts = row[v].attempts
  PROVE  Quiet
  BY DEF Quiet, Findings, FindingOK, SameClaim

LEMMA AskVendorsFindings ==
  ASSUME Base, Findings, NEW p \in Proc, AskVendors(p)
  PROVE  Findings'
<1>1. Quiet
  BY SameFindings DEF AskVendors, dbVars, envVars
<1>2. /\ GoesOn(p, {IF lane[p].pc = "ask" THEN "combine" ELSE "add"})
      /\ \E a : AskedFor(p, a) /\ lane'[p].answer = EndsIn(a) /\ lane'[p].found = Found(a)
  BY AskVendorsLane DEF Base
<1>3. PICK a : AskedFor(p, a) /\ lane'[p].answer = EndsIn(a) /\ lane'[p].found = Found(a)
  BY <1>2
<1>4. PICK fs : fs = Found(a)
  OBVIOUS
<1>5. fs \in Seq(Placed) /\ FoundFrom(fs, EndsIn(a))
  BY <1>3, <1>4, FoundGood
<1>6. Len(finding) + Len(fs) <= MaxFindings /\ Len(finding) \in Nat /\ Len(fs) \in Nat
  BY <1>3, <1>4, <1>5 DEF AskedFor, Findings, FindingOK
<1>7. Len(fs) <= MaxFindings
  BY <1>6, ExecutionAssumption
<1>8. UNCHANGED <<chunks, finding>>
  BY DEF AskVendors, dbVars, envVars
<1>9. FoundFrom(lane[p].found, lane[p].answer)'
  <2>1. ChunkSet' = ChunkSet
    BY <1>8 DEF ChunkSet
  <2>2. PICK ends : ends = EndsIn(a)
    OBVIOUS
  <2>3. FoundFrom(fs, ends)'
    BY <1>5, <2>1, <2>2 DEF FoundFrom
  <2>4. QED
    BY <1>3, <1>4, <2>2, <2>3
<1>10. FoundOK(p)'
  BY <1>3, <1>4, <1>5, <1>6, <1>7, <1>8, <1>9 DEF FoundOK
<1>11. QED
  BY <1>1, <1>2, <1>10, QuietGoes DEF GoesOn, Moves

LEMMA CombineDebateFindings ==
  ASSUME Base, Findings, NEW p \in Proc, Combine(p) \/ Debate(p)
  PROVE  Findings'
<1>1. Quiet
  BY SameFindings DEF Combine, Debate, dbVars, envVars
<1>2. /\ lane[p].pc \in {"combine", "debate"} /\ GoesOn(p, {"debate", "persist"})
      /\ lane'[p].answer = lane[p].answer
  BY CombineLane, DebateLane DEF Base, GoesOn, Moves
<1>3. lane[p].found \in Seq(Placed) /\ FoundFrom(lane[p].found, lane[p].answer)
      /\ Len(lane[p].found) <= MaxFindings
  BY <1>2 DEF Findings, FoundOK, Answering
<1>4. Drawn(lane'[p].found, lane[p].found)
  <2>1. PICK fs : fs = lane[p].found
    OBVIOUS
  <2>2. fs \in Seq(Placed)
    BY <1>3, <2>1
  <2>3. CASE Combine(p)
    <3>1. lane'[p].found = Combined(p) \/ lane'[p].found = fs
      BY <2>1, <2>3, CombineLane DEF Base, GoesOn, Moves
    <3>2. Drawn(Combined(p), fs)
      <4>1. PICK a : a = ApplyScope(fs, ChunkOwner, run.policy.scope)
        OBVIOUS
      <4>2. Drawn(a, fs) /\ a \in Seq(Placed)
        BY <2>2, <4>1, DrawnScope DEF Drawn
      <4>3. PICK b : b = GroupDuplicates(a, run.policy.dedupe)
        OBVIOUS
      <4>4. Drawn(b, a) /\ b \in Seq(Placed)
        BY <4>2, <4>3, DrawnDuplicates DEF Drawn
      <4>5. Drawn(b, fs)
        BY <4>2, <4>4, DrawnAgain
      <4>6. Combined(p) = b \/ Combined(p) = Tagged(b)
        BY <2>1, <4>1, <4>3 DEF Combined
      <4>7. Drawn(Tagged(b), fs)
        BY <4>4, <4>5, DrawnTagged, DrawnAgain
      <4>8. QED
        BY <4>5, <4>6, <4>7
    <3>3. Drawn(fs, fs)
      BY <2>2, DrawnAll DEF SameClaim
    <3>4. QED
      BY <2>1, <3>1, <3>2, <3>3
  <2>4. CASE Debate(p)
    <3>1. PICK say : lane'[p].found = Answered(p, say)
      BY <2>4, DebateLane DEF Base
    <3>2. PICK b : b = Debated(fs, lane[p].cfg, lane[p].by, say)
      OBVIOUS
    <3>3. Drawn(b, fs) /\ b \in Seq(Placed)
      BY <2>2, <3>2, DrawnDebated
    <3>4. Drawn(InGroupOrder(b), fs)
      BY <3>3, DrawnOrder, DrawnAgain
    <3>5. lane'[p].found = b \/ lane'[p].found = InGroupOrder(b)
      BY <2>1, <3>1, <3>2 DEF Answered
    <3>6. QED
      BY <2>1, <3>3, <3>4, <3>5
  <2>5. QED
    BY <2>3, <2>4
<1>5. PICK fs, out : fs = lane[p].found /\ out = lane'[p].found
  OBVIOUS
<1>6. /\ out \in Seq(Placed) /\ FoundFrom(out, lane[p].answer) /\ Len(out) <= Len(fs)
      /\ Len(fs) <= MaxFindings /\ Len(fs) \in Nat /\ Len(out) \in Nat
  <2>1. fs \in Seq(Placed) /\ FoundFrom(fs, lane[p].answer) /\ Drawn(out, fs)
    BY <1>3, <1>4, <1>5
  <2>2. out \in Seq(Placed)
    BY <2>1 DEF Drawn
  <2>3. QED
    BY <1>3, <1>5, <2>1, <2>2, FoundDrawn, DrawnShorter
<1>7. Len(out) <= MaxFindings
  BY <1>6, ExecutionAssumption
<1>8. FoundFrom(lane[p].found, lane[p].answer)'
  <2>1. ChunkSet' = ChunkSet
    BY DEF Combine, Debate, envVars, ChunkSet
  <2>2. PICK ends : ends = lane[p].answer
    OBVIOUS
  <2>3. FoundFrom(out, ends)'
    BY <1>6, <2>1, <2>2 DEF FoundFrom
  <2>4. QED
    BY <1>2, <1>5, <2>2, <2>3
<1>9. lane'[p].pc \in {"debate", "persist"} /\ \A q \in Proc : q # p => lane'[q] = lane[q]
  BY <1>2 DEF GoesOn, Moves
<1>10. FoundOK(p)'
  BY <1>5, <1>6, <1>7, <1>8, <1>9 DEF FoundOK
<1>11. QED
  BY <1>1, <1>9, <1>10, QuietGoes

LEMMA CreateRunFindings ==
  ASSUME Base, Control, Findings, NEW p \in Proc, CreateRun(p)
  PROVE  Findings'
<1>1. CASE Rests(p) /\ UNCHANGED dbVars
  <2>1. Quiet
    BY <1>1, SameFindings DEF CreateRun, dbVars, envVars
  <2>2. QED
    BY <1>1, <2>1, RestsIdle, QuietStep DEF Base, Answering
<1>2. CASE /\ run' = [NoRun EXCEPT !.id = run.id + 1, !.status = "running", !.head = head]
           /\ finding' = <<>>
           /\ lane' = [lane EXCEPT ![p] = [@ EXCEPT !.pc = "created", !.run = run.id + 1,
                                                    !.cfg = setting]]
  <2>1. run.id \in Nat /\ run'.id = run.id + 1 /\ UNCHANGED <<chunks, live>>
    BY <1>2, SiteAssumption DEF CreateRun, envVars, Base, RunOK, EnvOK, NoRun
  <2>2. /\ \A q \in Proc : q # p => lane'[q] = lane[q]
        /\ lane'[p].pc = "created"
    BY <1>2 DEF Base, LanesOK, LaneOK, LaneFields
  <2>3. FindingOK'
    BY <1>2, ExecutionAssumption DEF FindingOK
  <2>4. FoundOK(p)'
    BY <2>2 DEF FoundOK, Answering
  <2>5. ASSUME NEW q \in Proc, q # p PROVE FoundOK(q)'
    <3>1. lane[q].pc = "add" => lane[q].run \in 1..run.id
      BY DEF Control, WorkOK, Retrying
    <3>2. lane'[q].pc = "add" => ~(Newest(q)')
      BY <2>1, <2>2, <2>5, <3>1 DEF Newest
    <3>3. FoundOK(q) /\ ChunkSet' = ChunkSet /\ lane'[q] = lane[q]
      BY <2>1, <2>2, <2>5 DEF Findings, ChunkSet
    <3>4. QED
      BY <3>2, <3>3 DEF FoundOK, FoundFrom, Answering
  <2>6. QED
    BY <2>3, <2>4, <2>5 DEF Findings
<1>3. QED
  BY <1>1, <1>2 DEF CreateRun

\* An attempt is stored: what was answered stays answered, what it answers is.
LEMMA DoneGrows ==
  ASSUME NEW ts \in Seq(Attempt), NEW e \in Attempt, NEW c
  PROVE  /\ DoneIn(ts, c) # {} => DoneIn(Append(ts, e), c) # {}
         /\ c \in DOMAIN e /\ e[c] = "done" => DoneIn(Append(ts, e), c) # {}
<1>1. PICK bs : bs = Append(ts, e)
  OBVIOUS
<1>2. /\ Len(ts) \in Nat /\ Len(bs) = Len(ts) + 1 /\ bs[Len(ts) + 1] = e
      /\ \A n \in 1..Len(ts) : bs[n] = ts[n]
  BY <1>1
<1>3. ASSUME DoneIn(ts, c) # {} PROVE DoneIn(bs, c) # {}
  <2>1. PICK n \in 1..Len(ts) : c \in DOMAIN ts[n] /\ ts[n][c] = "done"
    BY <1>3 DEF DoneIn
  <2>2. n \in 1..Len(bs) /\ bs[n] = ts[n]
    BY <1>2
  <2>3. QED
    BY <2>1, <2>2 DEF DoneIn
<1>4. ASSUME c \in DOMAIN e, e[c] = "done" PROVE DoneIn(bs, c) # {}
  <2>1. Len(ts) + 1 \in 1..Len(bs)
    BY <1>2
  <2>2. QED
    BY <1>2, <1>4, <2>1 DEF DoneIn
<1>5. QED
  BY <1>1, <1>3, <1>4

\* The chunks that a retry asks for are open.
LEMMA AskedOpen ==
  ASSUME Base, Control, History, NEW p \in Proc, Newest(p), lane[p].pc = "add", p \in live,
         NEW v \in Vendor, NEW c \in DOMAIN lane[p].answer[v], c \in ChunkSet
  PROVE  DoneIn(row[v].attempts, c) = {}
<1>1. run.status = "done" /\ DoneRow(v) /\ Tried(row[v].attempts)
  BY DEF Control, WorkOK, History, Retrying
<1>2. c \in lane[p].ask[v] /\ lane[p].ask[v] = IF v \in FailedVendors THEN Unresolved(v) ELSE {}
  BY DEF History, AskHistory, Retrying, Answering
<1>3. v \in FailedVendors /\ c \in Unresolved(v)
  BY <1>2
<1>4. PICK ts : ts = row[v].attempts
  OBVIOUS
<1>5. ts # <<>>
  BY <1>1, <1>3, <1>4 DEF FailedVendors, DoneRow, Failing
<1>6. c \in OpenIn(ts)
  BY <1>3, <1>4 DEF Unresolved, OpenIn, Last
<1>7. QED
  BY <1>1, <1>4, <1>5, <1>6 DEF Tried

\* An attempt of the newest run joins the stored findings.
LEMMA FindingsJoin ==
  ASSUME Base, Owning, Control, History, Findings, NEW p \in Proc, Newest(p), Rests(p),
         lane[p].pc \in Asking \cap Answering \/ (lane[p].pc = "add" /\ p \in live),
         UNCHANGED <<chunks, live>>, run'.id = run.id,
         \A v \in Vendor : row'[v].attempts =
           IF lane[p].answer[v] = <<>> THEN row[v].attempts
           ELSE Append(row[v].attempts, lane[p].answer[v]),
         NEW new, Drawn(new, lane[p].found),
         finding' \in Seq(Placed), Len(finding') = Len(finding) + Len(new),
         \A i \in 1..Len(finding') : SameClaim(finding'[i], (finding \o new)[i])
  PROVE  Findings'
<1>1. FoundFrom(new, lane[p].answer) /\ Len(new) <= Len(lane[p].found) /\ new \in Seq(Placed)
      /\ Len(finding) + Len(lane[p].found) <= MaxFindings
      /\ Len(lane[p].found) \in Nat
  <2>1. /\ lane[p].found \in Seq(Placed) /\ FoundFrom(lane[p].found, lane[p].answer)
        /\ Len(lane[p].found) <= MaxFindings
    BY DEF Findings, FoundOK, Answering
  <2>2. Len(finding) + Len(lane[p].found) <= MaxFindings
    <3>1. CASE lane[p].pc = "add" /\ p \in live
      BY <3>1 DEF Findings, FoundOK, Answering
    <3>2. CASE lane[p].pc \in Asking
      <4>1. finding = <<>>
        BY <3>2 DEF Control, WorkOK, Fresh, Reviewing, Bound
      <4>2. QED
        BY <2>1, <4>1
    <3>3. QED
      BY <3>1, <3>2
  <2>3. new \in Seq(Placed)
    BY DEF Drawn
  <2>4. QED
    BY <2>1, <2>2, <2>3, FoundDrawn, DrawnShorter
<1>2. PICK m : m = Len(finding)
  OBVIOUS
<1>3. m \in Nat /\ Len(new) \in Nat /\ Len(finding') = m + Len(new) /\ finding \in Seq(Placed)
  BY <1>1, <1>2 DEF Findings, FindingOK
<1>4. ASSUME NEW i \in 1..Len(finding')
      PROVE  \/ /\ i \in 1..m /\ finding'[i].vendor = finding[i].vendor
                /\ finding'[i].source = finding[i].source
             \/ /\ i - m \in 1..Len(new) /\ finding'[i].vendor = new[i - m].vendor
                /\ finding'[i].source = new[i - m].source
  <2>1. SameClaim(finding'[i], (finding \o new)[i])
    OBVIOUS
  <2>2. CASE i \in 1..m
    BY <1>1, <1>2, <1>3, <2>1, <2>2 DEF SameClaim
  <2>3. CASE i \notin 1..m
    <3>1. i - m \in 1..Len(new) /\ (finding \o new)[i] = new[i - m]
      BY <1>1, <1>2, <1>3, <2>3
    <3>2. QED
      BY <2>1, <3>1 DEF SameClaim
  <2>4. QED
    BY <2>2, <2>3
<1>5. ASSUME NEW v \in Vendor, NEW c, \/ DoneIn(row[v].attempts, c) # {}
                                      \/ /\ c \in DOMAIN lane[p].answer[v]
                                         /\ lane[p].answer[v][c] = "done"
      PROVE  DoneIn(row'[v].attempts, c) # {}
  <2>1. CASE lane[p].answer[v] = <<>>
    BY <1>5, <2>1
  <2>2. CASE lane[p].answer[v] # <<>>
    <3>1. PICK ends, ts : ends = lane[p].answer[v] /\ ts = row[v].attempts
      OBVIOUS
    <3>2. ends \in Attempt
      BY <2>2, <3>1, Writing
    <3>3. ts \in Seq(Attempt)
      BY <3>1 DEF History, Tried
    <3>4. row'[v].attempts = Append(ts, ends)
      BY <2>2, <3>1
    <3>5. QED
      BY <1>5, <3>1, <3>2, <3>3, <3>4, DoneGrows
  <2>3. QED
    BY <2>1, <2>2
<1>6. ASSUME NEW i \in 1..m
      PROVE  /\ finding[i].vendor \in Vendor /\ finding[i].source \in ChunkSet
             /\ DoneIn(row[finding[i].vendor].attempts, finding[i].source) # {}
  <2>1. PICK f : f = finding[i]
    OBVIOUS
  <2>2. f \in Placed
    BY <1>2, <1>3, <2>1
  <2>3. f.vendor \in Vendor
    BY <2>2 DEF Placed, FindingRow
  <2>4. f.source \in ChunkSet /\ DoneIn(row[f.vendor].attempts, f.source) # {}
    BY <1>2, <2>1 DEF Findings, FindingOK
  <2>5. QED
    BY <2>1, <2>3, <2>4
<1>7. ASSUME NEW j \in 1..Len(new)
      PROVE  /\ new[j].vendor \in Vendor /\ new[j].source \in ChunkSet
             /\ new[j].source \in DOMAIN lane[p].answer[new[j].vendor]
             /\ lane[p].answer[new[j].vendor][new[j].source] = "done"
  <2>1. PICK f : f = new[j]
    OBVIOUS
  <2>2. f \in Placed
    BY <1>1, <2>1
  <2>3. f.vendor \in Vendor
    BY <2>2 DEF Placed, FindingRow
  <2>4. QED
    BY <1>1, <2>1, <2>3 DEF FoundFrom
<1>8. ASSUME NEW i \in 1..Len(finding')
      PROVE  /\ finding'[i].source \in ChunkSet
             /\ DoneIn(row'[finding'[i].vendor].attempts, finding'[i].source) # {}
  BY <1>4, <1>5, <1>6, <1>7
<1>9. ASSUME NEW i \in 1..m, NEW j \in 1..Len(new),
             finding[i].vendor = new[j].vendor, finding[i].source = new[j].source
      PROVE  FALSE
  <2>1. lane[p].pc = "add" /\ p \in live
    <3>1. CASE lane[p].pc \in Asking
      <4>1. finding = <<>>
        BY <3>1 DEF Control, WorkOK, Fresh, Reviewing, Bound
      <4>2. QED
        BY <1>2, <1>9, <4>1
    <3>2. QED
      BY <3>1
  <2>2. PICK v, c : v = new[j].vendor /\ c = new[j].source
    OBVIOUS
  <2>3. v \in Vendor /\ c \in ChunkSet /\ c \in DOMAIN lane[p].answer[v]
    BY <1>7, <2>2
  <2>4. DoneIn(row[v].attempts, c) = {}
    BY <2>1, <2>3, AskedOpen
  <2>5. QED
    BY <1>6, <1>9, <2>2, <2>4
<1>10. ASSUME NEW i \in 1..Len(finding'), NEW j \in 1..Len(finding'),
              finding'[i].vendor = finding'[j].vendor, finding'[i].source = finding'[j].source
       PROVE  i = j
  <2>1. CASE i \in 1..m /\ j \in 1..m
    <3>1. finding[i].vendor = finding[j].vendor /\ finding[i].source = finding[j].source
      BY <1>3, <1>4, <1>10, <2>1
    <3>2. QED
      BY <1>2, <2>1, <3>1 DEF Findings, FindingOK
  <2>2. CASE i \notin 1..m /\ j \notin 1..m
    <3>1. /\ i - m \in 1..Len(new) /\ j - m \in 1..Len(new)
          /\ new[i - m].vendor = new[j - m].vendor /\ new[i - m].source = new[j - m].source
      BY <1>4, <1>10, <2>2
    <3>2. i - m = j - m
      BY <1>1, <3>1 DEF FoundFrom
    <3>3. QED
      BY <1>3, <3>2
  <2>3. CASE i \in 1..m /\ j \notin 1..m
    <3>1. j - m \in 1..Len(new) /\ finding'[j].vendor = new[j - m].vendor
          /\ finding'[j].source = new[j - m].source
      BY <1>4, <2>3
    <3>2. finding'[i].vendor = finding[i].vendor /\ finding'[i].source = finding[i].source
      BY <1>3, <1>4, <2>3
    <3>3. QED
      BY <1>9, <1>10, <2>3, <3>1, <3>2
  <2>4. CASE i \notin 1..m /\ j \in 1..m
    <3>1. i - m \in 1..Len(new) /\ finding'[i].vendor = new[i - m].vendor
          /\ finding'[i].source = new[i - m].source
      BY <1>4, <2>4
    <3>2. finding'[j].vendor = finding[j].vendor /\ finding'[j].source = finding[j].source
      BY <1>3, <1>4, <2>4
    <3>3. QED
      BY <1>9, <1>10, <2>4, <3>1, <3>2
  <2>5. QED
    BY <2>1, <2>2, <2>3, <2>4
<1>11. FindingOK'
  <2>1. ChunkSet' = ChunkSet
    BY DEF ChunkSet
  <2>2. Len(finding') <= MaxFindings
    BY <1>1, <1>2, <1>3, ExecutionAssumption
  <2>3. QED
    BY <1>8, <1>10, <2>1, <2>2 DEF FindingOK, DoneIn
<1>12. lane'[p].pc = "idle" /\ \A q \in Proc : q # p => lane'[q] = lane[q]
  BY RestsIdle DEF Base
<1>13. FoundOK(p)'
  BY <1>12 DEF FoundOK, Answering
<1>14. ASSUME NEW q \in Proc, q # p PROVE FoundOK(q)'
  <2>1. ~(lane[q].pc = "add" /\ q \in live /\ Newest(q))
    <3>1. ASSUME lane[q].pc = "add", q \in live, Newest(q) PROVE FALSE
      <4>1. run.status = "done"
        BY <3>1 DEF Control, WorkOK, Retrying
      <4>2. lane[p].pc = "add" /\ p \in live
        BY <4>1 DEF Control, WorkOK, Fresh, Reviewing, Bound
      <4>3. QED
        BY <1>14, <3>1, <4>2 DEF Owning
    <3>2. QED
      BY <3>1
  <2>2. FoundOK(q) /\ lane'[q] = lane[q] /\ ChunkSet' = ChunkSet /\ (Newest(q)' <=> Newest(q))
    BY <1>12, <1>14 DEF Findings, ChunkSet, Newest
  <2>3. QED
    BY <2>1, <2>2 DEF FoundOK, FoundFrom, Answering
<1>15. QED
  BY <1>11, <1>13, <1>14 DEF Findings

---------------------------------------------------------------------------
(* Findings are stored and change                                         *)

\* Every vendor row that was asked gets its attempt.
LEMMA RowsAppended ==
  ASSUME NEW p \in Proc, NEW v \in Vendor,
         row' = FinishedRows(p, lane[p].answer) \/ row' = CanceledRows(p)
  PROVE  row'[v].attempts = IF lane[p].answer[v] = <<>> THEN row[v].attempts
                            ELSE Append(row[v].attempts, lane[p].answer[v])
<1>1. FinishedRows(p, lane[p].answer)[v].attempts =
        IF lane[p].answer[v] = <<>> THEN row[v].attempts
        ELSE Append(row[v].attempts, lane[p].answer[v])
  BY DEF FinishedRows, Finished, Attempted
<1>2. CanceledRows(p)[v].attempts = FinishedRows(p, lane[p].answer)[v].attempts
  <2>1. CASE lane[p].answer[v] = <<>>
    BY <2>1 DEF CanceledRows, FinishedRows
  <2>2. CASE lane[p].answer[v] # <<>>
    <3>1. PICK r : r = FinishedRows(p, lane[p].answer)[v]
      OBVIOUS
    <3>2. DOMAIN r = {"status", "attempts"}
      BY <2>2, <3>1 DEF FinishedRows, Finished
    <3>3. CanceledRows(p)[v] = [r EXCEPT !.status = "canceled"]
      BY <2>2, <3>1 DEF CanceledRows
    <3>4. QED
      BY <3>1, <3>2, <3>3
  <2>3. QED
    BY <2>1, <2>2
<1>3. QED
  BY <1>1, <1>2

LEMMA DrawnNothing ==
  ASSUME NEW fs
  PROVE  Drawn(<<>>, fs)
<1>1. <<>> \in Seq(Placed) /\ Len(<<>>) = 0
  OBVIOUS
<1>2. PICK pos : pos = [k \in 1..Len(<<>>) |-> 0]
  OBVIOUS
<1>3. pos \in [1..Len(<<>>) -> Nat]
  BY <1>2
<1>4. Draws(<<>>, fs, pos)
  BY <1>1 DEF Draws
<1>5. QED
  BY <1>1, <1>3, <1>4 DEF Drawn

LEMMA PersistFindings ==
  ASSUME Base, Owning, Control, History, Findings, NEW p \in Proc,
         PersistAllFailed(p) \/ PersistStale(p) \/ Persist(p)
  PROVE  Findings'
<1>1. CASE Newest(p)
  <2>1. /\ lane[p].pc = "persist" /\ UNCHANGED <<chunks, live>> /\ Rests(p)
        /\ run'.id = run.id
    BY <1>1 DEF PersistAllFailed, PersistStale, Persist, envVars, Base, RunOK, RunFields
  <2>2. lane[p].pc \in Asking \cap Answering
    BY <2>1 DEF Asking, Answering
  <2>3. finding = <<>>
    BY <1>1, <2>2 DEF Control, WorkOK, Fresh, Reviewing, Bound
  <2>4. row' = FinishedRows(p, lane[p].answer) \/ row' = CanceledRows(p)
    BY <1>1 DEF PersistAllFailed, PersistStale, Persist
  <2>5. PICK new : new = IF Persist(p) THEN lane[p].found ELSE <<>>
    OBVIOUS
  <2>6. lane[p].found \in Seq(Placed)
    BY <2>2 DEF Findings, FoundOK
  <2>7. Drawn(new, lane[p].found) /\ new \in Seq(Placed)
    <3>1. Drawn(lane[p].found, lane[p].found)
      BY <2>6, DrawnAll DEF SameClaim
    <3>2. QED
      BY <2>5, <3>1, DrawnNothing DEF Drawn
  <2>8. finding' = new
    <3>1. CASE Persist(p)
      <4>1. finding' = finding \o lane[p].found
        BY <3>1 DEF Persist
      <4>2. QED
        BY <2>3, <2>5, <2>6, <3>1, <4>1
    <3>2. CASE ~Persist(p)
      BY <2>3, <2>5, <3>2 DEF PersistAllFailed, PersistStale
    <3>3. QED
      BY <3>1, <3>2
  <2>9. /\ finding' \in Seq(Placed) /\ Len(finding') = Len(finding) + Len(new)
        /\ finding \o new = new
    BY <2>3, <2>7, <2>8
  <2>10. \A i \in 1..Len(finding') : SameClaim(finding'[i], (finding \o new)[i])
    BY <2>8, <2>9 DEF SameClaim
  <2>11. \A v \in Vendor : row'[v].attempts =
           IF lane[p].answer[v] = <<>> THEN row[v].attempts
           ELSE Append(row[v].attempts, lane[p].answer[v])
    BY <2>4, RowsAppended
  <2>12. QED
    BY <1>1, <2>1, <2>2, <2>7, <2>9, <2>10, <2>11, FindingsJoin
<1>2. CASE ~Newest(p)
  <2>1. Rests(p) /\ UNCHANGED <<run, row, chunks, live, finding>>
    BY <1>2 DEF PersistAllFailed, PersistStale, Persist, envVars
  <2>2. Quiet
    BY <2>1, SameFindings
  <2>3. QED
    BY <2>1, <2>2, RestsIdle, QuietStep DEF Base, Answering
<1>3. QED
  BY <1>1, <1>2

\* What a retry stores: the old and the new findings, grouped again.
Again(p, scoped) ==
  IF lane[p].cfg.merge THEN Tagged(GroupRetried(finding, scoped, run.policy.dedupe))
  ELSE GroupRetried(finding, scoped, run.policy.dedupe)

\* What a tag leaves alone.
SameStanding(g, f) ==
  /\ g.owner = f.owner /\ g.eligible = f.eligible /\ g.group = f.group
  /\ g.status = f.status /\ g.verify = f.verify

LEMMA TaggedStanding ==
  ASSUME NEW fs \in Seq(Placed), NEW i \in 1..Len(fs)
  PROVE  SameStanding(Tagged(fs)[i], fs[i])
<1>1. PICK of : of = MergeGroups(fs)
  OBVIOUS
<1>2. PICK f, n, b : f = fs[i] /\ n = of[i] /\ b = Agreed(fs, of, i)
  OBVIOUS
<1>3. f \in Placed
  BY <1>2
<1>4. Tagged(fs)[i] = [f EXCEPT !.merged = n, !.consensus = b]
  BY <1>1, <1>2 DEF Tagged, Indices
<1>5. QED
  BY <1>2, <1>3, <1>4 DEF SameStanding, Placed, FindingRow

LEMMA TaggedClaims ==
  ASSUME NEW fs \in Seq(Placed), NEW i \in 1..Len(fs)
  PROVE  SameClaim(Tagged(fs)[i], fs[i])
<1>1. PICK of : of = MergeGroups(fs)
  OBVIOUS
<1>2. PICK f, n, b : f = fs[i] /\ n = of[i] /\ b = Agreed(fs, of, i)
  OBVIOUS
<1>3. f \in Placed
  BY <1>2
<1>4. Tagged(fs)[i] = [f EXCEPT !.merged = n, !.consensus = b]
  BY <1>1, <1>2 DEF Tagged, Indices
<1>5. QED
  BY <1>2, <1>3, <1>4 DEF SameClaim, Placed, FindingRow

Joins(out, old, new, mode, merge) ==
  out = IF merge THEN Tagged(GroupRetried(old, new, mode)) ELSE GroupRetried(old, new, mode)

LEMMA AgainPlaced ==
  ASSUME NEW old \in Seq(Placed), NEW new \in Seq(Placed), NEW mode, NEW merge,
         NEW out, Joins(out, old, new, mode, merge)
  PROVE  /\ out \in Seq(Placed) /\ Len(out) = Len(old) + Len(new)
         /\ \A i \in 1..Len(out) : SameClaim(out[i], (old \o new)[i])
                                   /\ out[i].status = (old \o new)[i].status
<1>1. PICK all, fs : all = GroupRetried(old, new, mode) /\ fs = old \o new
  OBVIOUS
<1>2. /\ all \in Seq(Placed) /\ Len(all) = Len(old) + Len(new)
      /\ \A i \in 1..Len(all) : SameClaim(all[i], fs[i]) /\ all[i].status = fs[i].status
  BY <1>1, RetriedPlaced
<1>3. CASE merge
  <2>1. out = Tagged(all)
    BY <1>1, <1>3 DEF Joins
  <2>2. /\ out \in Seq(Placed) /\ Len(out) = Len(all)
        /\ \A i \in 1..Len(all) : SameClaim(out[i], all[i]) /\ out[i].status = all[i].status
    BY <1>2, <2>1, DrawnTagged, TaggedClaims, TaggedStanding DEF SameStanding
  <2>3. QED
    BY <1>1, <1>2, <2>2 DEF SameClaim
<1>4. CASE ~merge
  BY <1>1, <1>2, <1>4 DEF Joins
<1>5. QED
  BY <1>3, <1>4

LEMMA RetryAddsFindings ==
  ASSUME Base, Owning, Control, History, Findings, NEW p \in Proc, RetryAdds(p)
  PROVE  Findings'
<1>1. /\ lane[p].pc = "add" /\ p \in live /\ Newest(p) /\ Rests(p) /\ UNCHANGED <<chunks, live>>
      /\ row' = FinishedRows(p, lane[p].answer) /\ run'.id = run.id
  BY DEF RetryAdds, MayWrite, envVars, Base, RunOK, RunFields
<1>2. PICK scoped : /\ scoped = ApplyScope(lane[p].found, ChunkOwner, run.policy.scope)
                    /\ finding' = Again(p, scoped)
  BY DEF RetryAdds, Again
<1>3. lane[p].found \in Seq(Placed) /\ finding \in Seq(Placed)
  BY <1>1 DEF Findings, FoundOK, FindingOK, Answering
<1>4. Drawn(scoped, lane[p].found) /\ scoped \in Seq(Placed)
  BY <1>2, <1>3, DrawnScope DEF Drawn
<1>5. /\ finding' \in Seq(Placed) /\ Len(finding') = Len(finding) + Len(scoped)
      /\ \A i \in 1..Len(finding') : SameClaim(finding'[i], (finding \o scoped)[i])
  <2>1. PICK out, old, mode, merge :
          /\ out = finding' /\ old = finding /\ mode = run.policy.dedupe /\ merge = lane[p].cfg.merge
    OBVIOUS
  <2>2. Joins(out, old, scoped, mode, merge)
    BY <1>2, <2>1 DEF Again, Joins
  <2>3. /\ out \in Seq(Placed) /\ Len(out) = Len(old) + Len(scoped)
        /\ \A i \in 1..Len(out) : SameClaim(out[i], (old \o scoped)[i])
    <3>1. old \in Seq(Placed) /\ scoped \in Seq(Placed)
      BY <1>3, <1>4, <2>1
    <3>2. QED
      BY <2>2, <3>1, AgainPlaced
  <2>4. QED
    BY <2>1, <2>3
<1>6. \A v \in Vendor : row'[v].attempts =
        IF lane[p].answer[v] = <<>> THEN row[v].attempts
        ELSE Append(row[v].attempts, lane[p].answer[v])
  BY <1>1, RowsAppended
<1>7. QED
  BY <1>1, <1>4, <1>5, <1>6, FindingsJoin

\* A decision or a post changes nothing but statuses.
Restated ==
  /\ Len(finding') = Len(finding) /\ finding' \in Seq(Placed)
  /\ \A i \in 1..Len(finding) :
       \/ finding'[i] = finding[i]
       \/ \E s \in {"approved", "dismissed", "posted"} : finding'[i] = [finding[i] EXCEPT !.status = s]

LEMMA FindingChangesRestate ==
  ASSUME finding \in Seq(Placed), FindingChanges
  PROVE  Restated
<1>1. PICK fs, m : fs = finding /\ m = Len(finding)
  OBVIOUS
<1>2. fs \in Seq(Placed) /\ m \in Nat /\ Len(fs) = m /\ Indices(fs) = 1..m
      /\ fs = [i \in 1..m |-> fs[i]]
  BY <1>1 DEF Indices
<1>3. ASSUME NEW out, out = [i \in 1..m |-> out[i]],
             \A i \in 1..m : \/ out[i] = fs[i]
                             \/ \E s \in {"approved", "dismissed", "posted"} :
                                  out[i] = [fs[i] EXCEPT !.status = s]
      PROVE  out \in Seq(Placed) /\ Len(out) = m
  <2>1. ASSUME NEW i \in 1..m PROVE out[i] \in Placed
    <3>1. PICK f : f = fs[i]
      OBVIOUS
    <3>2. f \in Placed
      BY <1>2, <3>1
    <3>3. CASE out[i] = f
      BY <3>2, <3>3
    <3>4. CASE \E s \in {"approved", "dismissed", "posted"} : out[i] = [f EXCEPT !.status = s]
      BY <3>2, <3>4, PlacedStatus
    <3>5. QED
      BY <1>3, <3>1, <3>3, <3>4
  <2>2. QED
    BY <1>2, <1>3, <2>1
<1>4. CASE Post
  <2>1. finding' = [i \in 1..m |-> IF Postable(fs[i]) THEN [fs[i] EXCEPT !.status = "posted"] ELSE fs[i]]
    BY <1>1, <1>2, <1>4 DEF Post
  <2>2. finding' = [i \in 1..m |-> finding'[i]]
        /\ \A i \in 1..m : finding'[i] = fs[i] \/ finding'[i] = [fs[i] EXCEPT !.status = "posted"]
    BY <2>1
  <2>3. QED
    BY <1>1, <1>3, <2>2 DEF Restated
<1>5. ASSUME NEW i \in Indices(finding), DecideFinding(i) PROVE Restated
  <2>1. PICK s \in {"approved", "dismissed"} :
          finding' = [finding EXCEPT ![i] = [finding[i] EXCEPT !.status = s]]
    BY <1>5 DEF DecideFinding
  <2>2. PICK f : f = [fs[i] EXCEPT !.status = s]
    OBVIOUS
  <2>3. finding' = [fs EXCEPT ![i] = f] /\ i \in 1..m
    BY <1>1, <1>2, <1>5, <2>1, <2>2
  <2>4. finding' = [j \in 1..m |-> finding'[j]]
        /\ \A j \in 1..m : finding'[j] = IF j = i THEN f ELSE fs[j]
    BY <1>2, <2>3
  <2>5. QED
    BY <1>1, <1>3, <2>2, <2>4 DEF Restated
<1>6. QED
  BY <1>4, <1>5 DEF FindingChanges

LEMMA FindingChangesFindings ==
  ASSUME Base, Findings, FindingChanges
  PROVE  Findings'
<1>1. Restated
  BY FindingChangesRestate DEF Findings, FindingOK
<1>2. ASSUME NEW i \in 1..Len(finding) PROVE SameClaim(finding'[i], finding[i])
  <2>1. PICK f : f = finding[i]
    OBVIOUS
  <2>2. f \in Placed
    BY <2>1 DEF Findings, FindingOK
  <2>3. finding'[i] = f \/ \E s \in {"approved", "dismissed", "posted"} : finding'[i] = [f EXCEPT !.status = s]
    BY <1>1, <2>1 DEF Restated
  <2>4. SameClaim(finding'[i], f)
    BY <2>2, <2>3, PlacedStatus DEF SameClaim
  <2>5. QED
    BY <2>1, <2>4
<1>3. Quiet
  BY <1>1, <1>2 DEF FindingChanges, Quiet, Restated
<1>4. QED
  BY <1>3, QuietStep DEF FindingChanges

LEMMA FindingsStep ==
  ASSUME Base, Owning, Control, History, Findings, Next
  PROVE  Findings'
<1> USE DEF Answering
<1>1. ASSUME Quiet, NEW p \in Proc, Rests(p) PROVE Findings'
  BY <1>1, RestsIdle, QuietStep DEF Base
<1>2. ASSUME Quiet, UNCHANGED lane PROVE Findings'
  BY <1>2, QuietStep
<1>3. ASSUME UNCHANGED dbVars, UNCHANGED chunks, live' \subseteq live PROVE Quiet
  BY <1>3, SameFindings DEF dbVars
<1>4. ASSUME Quiet, NEW p \in Proc, NEW pcs, GoesOn(p, pcs), pcs \cap Answering = {}
      PROVE  Findings'
  BY <1>4, QuietStep DEF GoesOn, Moves
<1>5. ASSUME NEW p \in Proc, Claim(p) PROVE Findings'
  <2>1. Quiet
    BY <1>3, <1>5 DEF Claim, envVars
  <2>2. \A q \in Proc : lane'[q] = lane[q] \/ lane'[q].pc \in {"review", "start"}
    BY <1>5 DEF Claim, Base, LanesOK, IdleLane
  <2>3. QED
    BY <2>1, <2>2, QuietStep
<1>6. ASSUME NEW p \in Proc, Nothing(p) \/ ReviewFails(p) PROVE Findings'
  <2>1. Quiet
    BY <1>6, SameFindings DEF Nothing, Closes, ReviewFails, RunFails, Base, RunOK, RunFields, envVars
  <2>2. QED
    BY <1>1, <1>6, <2>1 DEF Nothing, ReviewFails, RunFails
<1>7. ASSUME NEW p \in Proc, Prescreen(p) PROVE Findings'
  <2>1. Quiet
    BY <1>3, <1>7 DEF Prescreen
  <2>2. QED
    BY <1>4, <1>7, <2>1, PrescreenLane DEF Base
<1>8. ASSUME NEW p \in Proc, StoreContexts(p) PROVE Findings'
  <2>1. Quiet
    BY <1>8, SameFindings DEF StoreContexts, Base, RunOK, RunFields, envVars
  <2>2. QED
    BY <1>4, <1>8, <2>1, StoreContextsLane DEF Base
<1>9. ASSUME NEW p \in Proc, BindPolicy(p) PROVE Findings'
  <2>1. Quiet
    BY <1>9, SameFindings DEF BindPolicy, Base, RunOK, RunFields, envVars
  <2>2. QED
    BY <1>4, <1>9, <2>1, BindPolicyLane DEF Base
<1>10. ASSUME NEW p \in Proc, AddRows(p) PROVE Findings'
  <2>1. CASE ~Newest(p)
    <3>1. Quiet
      BY <1>10, <2>1, SameFindings DEF AddRows, envVars
    <3>2. QED
      BY <1>4, <1>10, <3>1, AddRowsLane DEF Base
  <2>2. CASE Newest(p)
    <3>1. \A v \in Vendor : row[v].attempts = <<>>
      BY <1>10, <2>2 DEF AddRows, Control, WorkOK, Fresh, Reviewing, Bound
    <3>2. \A v \in Vendor : row'[v].attempts = <<>>
      BY <1>10, <2>2 DEF AddRows, NoRow
    <3>3. Quiet
      BY <1>10, <3>1, <3>2, SameFindings DEF AddRows, envVars
    <3>4. QED
      BY <1>4, <1>10, <3>3, AddRowsLane DEF Base
  <2>3. QED
    BY <2>1, <2>2
<1>11. ASSUME NEW p \in Proc, RetryStart(p) PROVE Findings'
  <2>1. Quiet
    BY <1>3, <1>11 DEF RetryStart, envVars
  <2>2. QED
    BY <1>1, <1>11, <2>1, RetryStartLane, QuietStep DEF Base, Moves
<1>12. ASSUME NEW p \in Proc, LeaseLost(p) \/ RetryRefused(p) \/ RetryFails(p) \/ RetryStale(p)
      PROVE  Findings'
  BY <1>1, <1>3, <1>12 DEF LeaseLost, RetryRefused, RetryFails, RetryStale, envVars
<1>13. ASSUME NEW p \in Proc, Timeout(p) PROVE Findings'
  <2>1. Quiet
    BY <1>13, SameFindings DEF Timeout, Base, RunOK, RunFields, RowsOK, RowOK, envVars
  <2>2. QED
    BY <1>1, <1>13, <2>1 DEF Timeout
<1>14. ASSUME NEW p \in Proc, Crash(p) PROVE Findings'
  BY <1>1, <1>3, <1>14 DEF Crash
<1>15. ASSUME NEW p \in Proc, LeaseExpires(p) PROVE Findings'
  BY <1>2, <1>3, <1>15 DEF LeaseExpires
<1>16. ASSUME Recover PROVE Findings'
  <2>1. Quiet
    BY <1>16, SameFindings DEF Recover, Base, RunOK, RunFields, RowsOK, RowOK, envVars
  <2>2. QED
    BY <1>2, <1>16, <2>1 DEF Recover
<1>17. ASSUME RequestRetry \/ RequestReview \/ SettingChanges \/ HeadMoves PROVE Findings'
  BY <1>2, <1>3, <1>17 DEF RequestRetry, RequestReview, SettingChanges, HeadMoves, envVars
<1>18. ASSUME ContextsExpire PROVE Findings'
  <2>1. Quiet
    BY <1>18, SameFindings DEF ContextsExpire, Base, RunOK, RunFields
  <2>2. QED
    BY <1>2, <1>18, <2>1 DEF ContextsExpire
<1>19. QED
  BY <1>5, <1>6, <1>7, <1>8, <1>9, <1>10, <1>11, <1>12, <1>13, <1>14, <1>15, <1>16, <1>17, <1>18,
     CreateRunFindings, AskVendorsFindings, CombineDebateFindings, PersistFindings,
     RetryAddsFindings, FindingChangesFindings DEF Next

LEMMA FindingsInit ==
  ASSUME Init
  PROVE  Findings
<1>1. finding = <<>> /\ \A p \in Proc : lane[p].pc = "idle"
  BY DEF Init, IdleLane
<1>2. QED
  BY <1>1, ExecutionAssumption DEF Findings, FindingOK, FoundOK, Answering

LEMMA FindingsKept ==
  ASSUME Stored, Findings, [Next]_vars
  PROVE  Findings'
<1>1. CASE Next
  BY <1>1, FindingsStep DEF Stored
<1>2. CASE UNCHANGED vars
  BY <1>2, SameFindings, QuietStep DEF vars
<1>3. QED
  BY <1>1, <1>2

LEMMA FindingsHold == Spec => []Findings
<1>1. Init => Findings
  BY FindingsInit
<1>2. Stored /\ Findings /\ [Next]_vars => Findings'
  BY FindingsKept
<1>3. QED
  BY <1>1, <1>2, StoredHolds, PTL DEF Spec

LEMMA TypeHolds ==
  ASSUME Stored, Findings
  PROVE  TypeOK
<1>1. /\ site \in Sites /\ moves \in 0..site.moves /\ head \in 0..moves /\ live \subseteq Proc
      /\ job.kind \in {"none", "auto", "manual", "retry"} /\ job.owner \in Proc \cup {None}
      /\ run.id \in 0..site.runs
      /\ run.status \in {"none", "running", "done", "failed", "canceled"}
  BY DEF Stored, Base, EnvOK, JobOK, RunOK
<1>2. ASSUME NEW v \in Vendor
      PROVE  /\ row[v].status \in {"none", "running", "done", "canceled"} \cup Failing
             /\ Len(row[v].attempts) <= MaxAttempts
  BY DEF Stored, Base, RowsOK, RowOK, RowStatus, History, Tried
<1>3. Len(finding) <= MaxFindings /\ \A i \in Indices(finding) : finding[i] \in FindingRow
  <2>1. finding \in Seq(Placed) /\ Len(finding) <= MaxFindings
    BY DEF Findings, FindingOK
  <2>2. \A i \in Indices(finding) : finding[i] \in Placed
    BY <2>1 DEF Indices
  <2>3. QED
    BY <2>1, <2>2 DEF Placed
<1>4. \A p \in Proc : lane[p].pc \in PC
  BY DEF Stored, Base, LanesOK, LaneOK
<1>5. QED
  BY <1>1, <1>2, <1>3, <1>4 DEF TypeOK, PC

\* Rows hold no more attempts than an execution envelope may, runs no more findings
\* than they were given room for, and every stored finding is a complete row, its
\* numbers set by scope, duplicates and consensus.
THEOREM TypeCorrect == Spec => []TypeOK
<1>1. Stored /\ Findings => TypeOK
  BY TypeHolds
<1>2. QED
  BY <1>1, StoredHolds, FindingsHold, PTL

LEMMA OnceHolds ==
  ASSUME Stored, Findings
  PROVE  ChunkFindingsOnce
<1>1. \A v \in Vendor, c \in ChunkSet : Cardinality(AttemptsDone(v, c)) <= 1
  BY DoneSets DEF Stored
<1>2. ASSUME NEW i \in Indices(finding), NEW j \in Indices(finding)
      PROVE  /\ AttemptsDone(finding[i].vendor, finding[i].source) # {}
             /\ i # j => <<finding[i].vendor, finding[i].source>>
                           # <<finding[j].vendor, finding[j].source>>
  <2>1. PICK f : f = finding[i]
    OBVIOUS
  <2>2. f \in Placed
    BY <2>1 DEF Findings, FindingOK, Indices
  <2>3. f.vendor \in Vendor
    BY <2>2 DEF Placed, FindingRow
  <2>4. f.source \in ChunkSet /\ DoneIn(row[f.vendor].attempts, f.source) # {}
    BY <2>1 DEF Findings, FindingOK, Indices
  <2>5. AttemptsDone(f.vendor, f.source) # {}
    BY <2>3, <2>4, DoneSets DEF Stored
  <2>6. finding[i].vendor = finding[j].vendor /\ finding[i].source = finding[j].source => i = j
    BY DEF Findings, FindingOK, Indices
  <2>7. QED
    BY <2>1, <2>5, <2>6
<1>3. QED
  BY <1>1, <1>2 DEF ChunkFindingsOnce

\* The findings of a chunk are stored once per vendor: no retry, recovered job or
\* process that lost its lease stores those of an answered chunk a second time, and
\* none is stored for a chunk that no attempt answers.
THEOREM ChunksOnce == Spec => []ChunkFindingsOnce
<1>1. Stored /\ Findings => ChunkFindingsOnce
  BY OnceHolds
<1>2. QED
  BY <1>1, StoredHolds, FindingsHold, PTL
=============================================================================
