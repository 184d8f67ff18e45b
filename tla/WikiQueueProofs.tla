-------------------------- MODULE WikiQueueProofs --------------------------
(***************************************************************************)
(* Proofs about WikiQueue for any number of processes, repositories,       *)
(* attempts and requests, and for any snapshot, catalogs and pages: the    *)
(* page table implements LeasedTask.                                       *)
(***************************************************************************)
EXTENDS WikiQueue, TLAPS

---------------------------------------------------------------------------
(* Evidence: what is accepted is backed by what is there                   *)

\* What the provers need of the assumption on the constants.
LEMMA WikiBounds ==
  /\ None \notin Proc /\ None \notin Repo
  /\ MaxAttempts \in Nat /\ MaxAttempts >= 1 /\ MaxMoves \in Nat
  BY WikiAssumption

\* A cited range of lines that resolves has a line with text in it.
LEMMA LinesBacked ==
  ASSUME NEW file, file.lines \in Seq(BOOLEAN), NEW anchor,
         anchor.from \in Nat, anchor.to \in Nat, LineExists(anchor, file)
  PROVE  \E n \in 1..Len(file.lines) :
           file.lines[n] /\ anchor.from <= n /\ n <= anchor.to
<1>1. PICK n \in anchor.from..anchor.to : file.lines[n]
  BY DEF LineExists
<1>2. Len(file.lines) \in Nat
  OBVIOUS
<1>3. n \in 1..Len(file.lines) /\ anchor.from <= n /\ n <= anchor.to
  BY <1>1, <1>2 DEF LineExists
<1>4. QED
  BY <1>1, <1>3

\* A column that resolves belongs to a table of the cited name.
LEMMA ColumnBacked ==
  ASSUME NEW cite, NEW tables, DatabaseResolves(cite, tables)
  PROVE  \E t \in tables : cite.table \in Keys(t) /\ cite.column \in t.columns
  BY DEF DatabaseResolves, Columns

\* Every citation of a page a vendor writes that resolves is backed.
LEMMA CitationBacked ==
  ASSUME NEW a \in Pages, NEW fact \in DOMAIN a, NEW cite \in a[fact],
         NEW t \in Catalogs, Resolves(cite, Snapshot, t)
  PROVE  IF cite.kind = "database"
         THEN \E u \in Static \cup Live : cite.table \in Keys(u) /\ cite.column \in u.columns
         ELSE /\ cite.path \in DOMAIN Snapshot
              /\ cite.kind = "code" =>
                   LET file == Snapshot[cite.path] IN
                   IF cite.anchor.form = "lines"
                   THEN \E n \in 1..Len(file.lines) :
                          file.lines[n] /\ cite.anchor.from <= n /\ n <= cite.anchor.to
                   ELSE \E s \in cite.anchor.symbols : s \in file.declared
<1>1. CASE cite.kind = "database"
  <2>1. DatabaseResolves(cite, t)
    BY <1>1 DEF Resolves
  <2>2. t \subseteq Static \cup Live
    BY DEF Catalogs
  <2>3. QED
    BY <1>1, <2>1, <2>2, ColumnBacked
<1>2. CASE cite.kind # "database"
  <2>1. FileResolves(cite, Snapshot)
    BY <1>2 DEF Resolves
  <2>2. cite.path \in DOMAIN Snapshot
    BY <2>1 DEF FileResolves
  <2> DEFINE file == Snapshot[cite.path]
  <2>3. CASE cite.kind = "code" /\ cite.anchor.form = "lines"
    <3>1. file.lines \in Seq(BOOLEAN)
      BY <2>2, WikiAssumption
    <3>2. cite.anchor.from \in Nat /\ cite.anchor.to \in Nat
      BY <2>3, WikiAssumption
    <3>3. LineExists(cite.anchor, file)
      BY <2>1, <2>3 DEF FileResolves
    <3> HIDE DEF file
    <3>4. \E n \in 1..Len(file.lines) :
            file.lines[n] /\ cite.anchor.from <= n /\ n <= cite.anchor.to
      BY <3>1, <3>2, <3>3, LinesBacked
    <3>5. QED
      BY <1>2, <2>2, <2>3, <3>4 DEF file
  <2>4. CASE cite.kind = "code" /\ cite.anchor.form # "lines"
    <3>1. SymbolDeclared(cite.anchor, file)
      BY <2>1, <2>4 DEF FileResolves
    <3>2. \E s \in cite.anchor.symbols : s \in file.declared
      BY <3>1 DEF SymbolDeclared
    <3>3. QED
      BY <1>2, <2>2, <2>4, <3>2
  <2>5. QED
    BY <1>2, <2>2, <2>3, <2>4
<1>3. QED
  BY <1>1, <1>2

\* The page that validate_page_evidence keeps of an accepted answer.
LEMMA AcceptedGood ==
  ASSUME NEW a \in Pages, NEW t \in Catalogs, Accepted(a, Snapshot, t)
  PROVE  Validated(a, Snapshot, t) \in GoodPages
<1> DEFINE kept == Validated(a, Snapshot, t)
<1>1. kept \in Kept
  BY DEF Kept
<1>2. DOMAIN kept = DOMAIN a
  BY DEF Validated
<1>3. \A fact \in DOMAIN a : kept[fact] = {cite \in a[fact] : Resolves(cite, Snapshot, t)}
  BY DEF Validated
<1>4. \A fact \in DOMAIN a : kept[fact] # {}
  BY DEF Accepted
<1>5. Grounded(kept, Snapshot, Static \cup Live)
  <2> HIDE DEF kept
  <2>1. SUFFICES ASSUME NEW fact \in DOMAIN a, NEW cite \in kept[fact]
        PROVE IF cite.kind = "database"
              THEN \E u \in Static \cup Live :
                     cite.table \in Keys(u) /\ cite.column \in u.columns
              ELSE /\ cite.path \in DOMAIN Snapshot
                   /\ cite.kind = "code" =>
                        LET file == Snapshot[cite.path] IN
                        IF cite.anchor.form = "lines"
                        THEN \E n \in 1..Len(file.lines) :
                               file.lines[n] /\ cite.anchor.from <= n /\ n <= cite.anchor.to
                        ELSE \E s \in cite.anchor.symbols : s \in file.declared
    BY <1>2, <1>4 DEF Grounded
  <2>2. cite \in a[fact] /\ Resolves(cite, Snapshot, t)
    BY <1>3
  <2>3. QED
    BY <2>2, CitationBacked
<1>6. QED
  BY <1>1, <1>5 DEF GoodPages

---------------------------------------------------------------------------
(* The inductive invariant                                                 *)

\* A lane at work has a repository, and its process still runs.
LanesWork ==
  \A p \in Proc : lane[p].pc # "idle" =>
    lane[p].repo \in Repo /\ proc[p] \in {"up", "stopping"}

\* A lane about to save holds a page all of whose facts are backed.
SavesGood == \A p \in Proc : lane[p].pc = "save" => lane[p].content \in GoodPages

WikiInv == TypeOK /\ LanesWork /\ SavesGood /\ ClaimsAgree /\ HolderKeepsPage

\* Nothing is requested, nothing is claimed, no process runs.
LEMMA InitInv == Init => WikiInv
<1> SUFFICES ASSUME Init PROVE WikiInv
  OBVIOUS
<1>1. NoPage \in PageRow
  BY WikiBounds DEF NoPage, PageRow, Content
<1>2. IdleLane \in LaneRow
  BY DEF IdleLane, LaneRow, Content
<1>3. TypeOK
  BY <1>1, <1>2, WikiBounds DEF Init, TypeOK
<1>4. LanesWork /\ SavesGood /\ HolderKeepsPage
  BY DEF Init, IdleLane, LanesWork, SavesGood, HolderKeepsPage
<1>5. ClaimsAgree
  BY DEF Init, NoPage, ClaimsAgree, Generating
<1>6. QED
  BY <1>3, <1>4, <1>5 DEF WikiInv

\* Only an unclaimed or finished page is asked for again.
LEMMA RefreshInv ==
  ASSUME WikiInv, NEW r \in Repo, RefreshWiki(r)
  PROVE  WikiInv'
<1> DEFINE row == [page[r] EXCEPT !.status = "generating", !.attempts = 0, !.backoff = FALSE,
                                  !.locked = FALSE, !.old = FALSE]
<1>1. page' = [page EXCEPT ![r] = row] /\ UNCHANGED <<lane, proc, live>>
  BY DEF RefreshWiki
<1>2. page[r] \in PageRow
  BY DEF WikiInv, TypeOK
<1>3. row \in PageRow
  <2>1. 0 \in 0..MaxAttempts
    BY WikiBounds
  <2>2. QED
    BY <1>2, <2>1 DEF PageRow
<1>4. ~page[r].locked /\ page[r].owner = None
  BY DEF RefreshWiki, Replaceable, Generating, WikiInv, ClaimsAgree
<1>5. TypeOK'
  BY <1>1, <1>3, WikiBounds DEF WikiInv, TypeOK, RefreshWiki
<1>6. ClaimsAgree'
  BY <1>1, <1>2, <1>4 DEF WikiInv, TypeOK, ClaimsAgree, Generating, PageRow
<1>7. HolderKeepsPage'
  BY <1>1, <1>4 DEF WikiInv, TypeOK, HolderKeepsPage, LanesWork
<1>8. QED
  BY <1>1, <1>5, <1>6, <1>7 DEF WikiInv, LanesWork, SavesGood

\* A list request fails unclaimed pages only.
LEMMA ListInv ==
  ASSUME WikiInv, ListPages
  PROVE  WikiInv'
<1> DEFINE stale == {r \in Repo : Waiting(r) /\ page[r].old}
           row(r) == [page[r] EXCEPT !.status = "failed", !.backoff = FALSE, !.old = FALSE]
<1>1. page' = [r \in Repo |-> IF r \in stale THEN row(r) ELSE page[r]]
      /\ UNCHANGED <<lane, proc, live, moves>>
  BY DEF ListPages
<1>2. ASSUME NEW r \in Repo PROVE page[r] \in PageRow /\ row(r) \in PageRow
  <2>1. page[r] \in PageRow
    BY DEF WikiInv, TypeOK
  <2>2. QED
    BY <2>1 DEF PageRow
<1>3. ASSUME NEW r \in stale PROVE ~page[r].locked /\ page[r].owner = None
  BY DEF Waiting, WikiInv, ClaimsAgree
<1>4. TypeOK'
  BY <1>1, <1>2 DEF WikiInv, TypeOK
<1>5. ClaimsAgree'
  <2>1. SUFFICES ASSUME NEW r \in Repo
        PROVE  /\ page'[r].locked <=> page'[r].owner # None
               /\ page'[r].locked => page'[r].status = "generating"
    BY DEF ClaimsAgree, Generating
  <2>2. CASE r \in stale
    <3>1. page'[r] = row(r)
      BY <1>1, <2>2
    <3>2. row(r).locked = page[r].locked /\ row(r).owner = page[r].owner
      BY <1>2 DEF PageRow
    <3>3. QED
      BY <1>3, <2>2, <3>1, <3>2
  <2>3. CASE r \notin stale
    BY <1>1, <2>3 DEF WikiInv, ClaimsAgree, Generating
  <2>4. QED
    BY <2>2, <2>3
<1>6. HolderKeepsPage'
  BY <1>1, <1>3 DEF WikiInv, HolderKeepsPage, LanesWork
<1>7. QED
  BY <1>1, <1>4, <1>5, <1>6 DEF WikiInv, LanesWork, SavesGood

\* The clock writes neither the claim nor the status of a page.
LEMMA ClockInv ==
  ASSUME WikiInv, NEW r \in Repo, Ages(r) \/ BackoffElapses(r)
  PROVE  WikiInv'
<1>1. PICK b \in BOOLEAN, o \in BOOLEAN :
        page' = [page EXCEPT ![r] = [page[r] EXCEPT !.backoff = b, !.old = o]]
  <2>1. page[r] \in PageRow
    BY DEF WikiInv, TypeOK
  <2>2. CASE Ages(r)
    <3>1. page[r] = [page[r] EXCEPT !.backoff = page[r].backoff]
      BY <2>1 DEF PageRow
    <3>2. page' = [page EXCEPT ![r] = [page[r] EXCEPT !.backoff = page[r].backoff, !.old = TRUE]]
      BY <2>1, <2>2, <3>1 DEF Ages, PageRow
    <3>3. QED
      BY <2>1, <3>2 DEF PageRow
  <2>3. CASE BackoffElapses(r)
    <3>1. page' = [page EXCEPT ![r] = [page[r] EXCEPT !.backoff = FALSE, !.old = page[r].old]]
      BY <2>1, <2>3 DEF BackoffElapses, PageRow
    <3>2. QED
      BY <2>1, <3>1 DEF PageRow
  <2>4. QED
    BY <2>2, <2>3
<1>2. UNCHANGED <<lane, proc, live, moves>>
  BY DEF Ages, BackoffElapses
<1> DEFINE row == [page[r] EXCEPT !.backoff = b, !.old = o]
<1>3. page[r] \in PageRow
  BY DEF WikiInv, TypeOK
<1>4. row \in PageRow
  BY <1>3 DEF PageRow
<1>5. row.status = page[r].status /\ row.locked = page[r].locked /\ row.owner = page[r].owner
  BY <1>3 DEF PageRow
<1> HIDE DEF row
<1>6. page' = [page EXCEPT ![r] = row]
  BY <1>1 DEF row
<1>7. TypeOK'
  BY <1>2, <1>4, <1>6 DEF WikiInv, TypeOK
<1>8. ClaimsAgree' /\ HolderKeepsPage'
  BY <1>2, <1>5, <1>6 DEF WikiInv, TypeOK, ClaimsAgree, HolderKeepsPage, LanesWork, Generating
<1>9. QED
  BY <1>2, <1>7, <1>8 DEF WikiInv, LanesWork, SavesGood

\* A lane takes an unclaimed page in the name of its process.
LEMMA ClaimInv ==
  ASSUME WikiInv, NEW p \in Proc, NEW r \in Repo, Claim(p, r)
  PROVE  WikiInv'
<1> DEFINE row == [page[r] EXCEPT !.owner = p, !.locked = TRUE,
                                  !.attempts = Counted(page[r].attempts)]
           work == [IdleLane EXCEPT !.pc = "generate", !.repo = r]
<1>1. /\ page[r] \in PageRow
      /\ page' = [page EXCEPT ![r] = row]
      /\ lane' = [lane EXCEPT ![p] = work]
      /\ UNCHANGED <<proc, live, moves>>
  <2>1. page[r] \in PageRow
    BY DEF WikiInv, TypeOK
  <2>2. QED
    BY <2>1 DEF Claim
<1>2. row \in PageRow
  <2>1. Counted(page[r].attempts) \in 0..MaxAttempts
    <3>1. page[r].attempts \in 0..MaxAttempts
      BY <1>1 DEF PageRow
    <3>2. QED
      BY <3>1, WikiBounds DEF Counted
  <2>2. QED
    BY <1>1, <2>1 DEF PageRow
<1>3. row.status = "generating" /\ row.locked /\ row.owner = p
  BY <1>1 DEF PageRow, Claim, Waiting, Generating
<1>4. work \in LaneRow /\ work.pc = "generate" /\ work.repo = r
  BY DEF IdleLane, LaneRow, Content
<1>5. ~page[r].locked /\ proc[p] = "up"
  BY DEF Claim, Waiting
<1> HIDE DEF row, work
<1>6. TypeOK'
  BY <1>1, <1>2, <1>4 DEF WikiInv, TypeOK
<1>7. LanesWork' /\ SavesGood'
  BY <1>1, <1>4, <1>5 DEF WikiInv, TypeOK, LanesWork, SavesGood
<1>8. ClaimsAgree'
  BY <1>1, <1>3, WikiBounds DEF WikiInv, TypeOK, ClaimsAgree, Generating
<1>9. HolderKeepsPage'
  BY <1>1, <1>3, <1>4, <1>5 DEF WikiInv, TypeOK, HolderKeepsPage, LanesWork
<1>10. QED
  BY <1>6, <1>7, <1>8, <1>9 DEF WikiInv

\* A lane that moves to another place of its task, with a page only if it is good.
LEMMA LaneMovesInv ==
  ASSUME WikiInv, NEW p \in Proc, NEW row \in LaneRow,
         lane[p].pc # "idle", row.repo = lane[p].repo,
         row.pc = "save" => row.content \in GoodPages,
         lane' = [lane EXCEPT ![p] = row], UNCHANGED <<page, proc, live, moves>>
  PROVE  WikiInv'
<1>1. TypeOK'
  BY DEF WikiInv, TypeOK
<1>2. LanesWork' /\ SavesGood'
  BY DEF WikiInv, TypeOK, LanesWork, SavesGood
<1>3. ClaimsAgree'
  BY DEF WikiInv, ClaimsAgree, Generating
<1>4. HolderKeepsPage'
  BY DEF WikiInv, TypeOK, HolderKeepsPage
<1>5. QED
  BY <1>1, <1>2, <1>3, <1>4 DEF WikiInv

\* A lane that ends its task, the page of its process being its own no longer, or
\* given up by it.
LEMMA LaneEndsInv ==
  ASSUME WikiInv, NEW p \in Proc, NEW r \in Repo, NEW row \in PageRow,
         page[r].owner = p,
         ~row.locked, row.owner = None,
         lane[p].repo = r,
         page' = [page EXCEPT ![r] = row], Rest(p), UNCHANGED <<proc, live, moves>>
  PROVE  WikiInv'
<1>1. IdleLane \in LaneRow /\ IdleLane.pc = "idle"
  BY DEF IdleLane, LaneRow, Content
<1>2. TypeOK'
  BY <1>1 DEF WikiInv, TypeOK, Rest
<1>3. LanesWork' /\ SavesGood'
  BY <1>1 DEF WikiInv, TypeOK, LanesWork, SavesGood, Rest
<1>4. ClaimsAgree'
  BY DEF WikiInv, TypeOK, ClaimsAgree, Generating
<1>5. HolderKeepsPage'
  BY <1>1 DEF WikiInv, TypeOK, HolderKeepsPage, LanesWork, Rest
<1>6. QED
  BY <1>2, <1>3, <1>4, <1>5 DEF WikiInv

\* A lane that stops without a word about its page.
LEMMA LaneDropsInv ==
  ASSUME WikiInv, NEW p \in Proc, Rest(p), UNCHANGED <<page, live, moves>>,
         \/ UNCHANGED proc
         \/ proc' = [proc EXCEPT ![p] = "gone"]
  PROVE  WikiInv'
<1>1. IdleLane \in LaneRow /\ IdleLane.pc = "idle"
  BY DEF IdleLane, LaneRow, Content
<1>2. TypeOK'
  BY <1>1 DEF WikiInv, TypeOK, Rest
<1>3. LanesWork' /\ SavesGood'
  BY <1>1 DEF WikiInv, TypeOK, LanesWork, SavesGood, Rest
<1>4. ClaimsAgree'
  BY DEF WikiInv, ClaimsAgree, Generating
<1>5. HolderKeepsPage'
  BY <1>1 DEF WikiInv, TypeOK, HolderKeepsPage, Rest
<1>6. QED
  BY <1>2, <1>3, <1>4, <1>5 DEF WikiInv

\* The page a vendor wrote is saved only after its evidence was accepted.
LEMMA GenerateInv ==
  ASSUME WikiInv, NEW p \in Proc, Generate(p)
  PROVE  WikiInv'
<1>1. lane[p] \in LaneRow /\ lane[p].pc = "generate"
      /\ UNCHANGED <<page, proc, live, moves>>
  BY DEF Generate, WikiInv, TypeOK
<1>2. CASE \E on \in SUBSET {"claude", "codex"}, tables \in Catalogs :
             \E answers \in [on -> Pages \cup {None}] :
               \E a \in FirstAccepted(answers, tables) :
                 lane' = [lane EXCEPT ![p] = [@ EXCEPT
                   !.pc = "save", !.content = Stored(a, tables)]]
  <2> PICK on \in SUBSET {"claude", "codex"}, tables \in Catalogs :
        \E answers \in [on -> Pages \cup {None}] :
          \E a \in FirstAccepted(answers, tables) :
            lane' = [lane EXCEPT ![p] = [@ EXCEPT
              !.pc = "save", !.content = Stored(a, tables)]]
    BY <1>2
  <2> PICK answers \in [on -> Pages \cup {None}] :
        \E a \in FirstAccepted(answers, tables) :
          lane' = [lane EXCEPT ![p] = [@ EXCEPT
            !.pc = "save", !.content = Stored(a, tables)]]
    OBVIOUS
  <2>1. PICK a \in FirstAccepted(answers, tables) :
          lane' = [lane EXCEPT ![p] = [lane[p] EXCEPT
                    !.pc = "save", !.content = Stored(a, tables)]]
    OBVIOUS
  <2>2. \E v \in on : /\ a = answers[v] /\ answers[v] # None
                      /\ Accepted(answers[v], Snapshot, tables)
    BY DEF FirstAccepted
  <2>3. a \in Pages /\ Accepted(a, Snapshot, tables)
    BY <2>2
  <2>4. Stored(a, tables) \in GoodPages
    BY <2>3, AcceptedGood DEF Stored
  <2> DEFINE kept == Stored(a, tables)
             row == [lane[p] EXCEPT !.pc = "save", !.content = kept]
  <2>5. kept \in Content
    BY <2>4 DEF GoodPages, Content
  <2> HIDE DEF kept
  <2>6. row \in LaneRow /\ row.repo = lane[p].repo /\ row.content = kept
    BY <1>1, <2>5 DEF LaneRow
  <2>7. lane' = [lane EXCEPT ![p] = row]
    BY <2>1 DEF kept
  <2>8. kept \in GoodPages
    BY <2>4 DEF kept
  <2> HIDE DEF row
  <2>9. QED
    BY <1>1, <2>6, <2>7, <2>8, LaneMovesInv
<1>3. CASE \E b \in BOOLEAN :
             lane' = [lane EXCEPT ![p] = [@ EXCEPT !.pc = "error", !.retryable = b]]
  <2>1. PICK b \in BOOLEAN :
          lane' = [lane EXCEPT ![p] = [lane[p] EXCEPT !.pc = "error", !.retryable = b]]
    BY <1>3
  <2> DEFINE row == [lane[p] EXCEPT !.pc = "error", !.retryable = b]
  <2>2. row \in LaneRow /\ row.repo = lane[p].repo /\ row.pc = "error"
    BY <1>1 DEF LaneRow
  <2>3. lane' = [lane EXCEPT ![p] = row]
    BY <2>1
  <2> HIDE DEF row
  <2>4. QED
    BY <1>1, <2>2, <2>3, LaneMovesInv
<1>4. QED
  BY <1>2, <1>3 DEF Generate

\* Only the owner of a page saves it, and is its owner no longer.
LEMMA SaveInv ==
  ASSUME WikiInv, NEW p \in Proc, Save(p)
  PROVE  WikiInv'
<1> DEFINE r == lane[p].repo
<1>1. /\ lane[p] \in LaneRow /\ lane[p].pc = "save" /\ r \in Repo
      /\ page[r] \in PageRow
      /\ UNCHANGED <<proc, live, moves>>
  BY DEF Save, WikiInv, TypeOK, LanesWork
<1>2. CASE Owns(p)
  <2> DEFINE row == [page[r] EXCEPT
               !.status = "ready", !.by = p, !.content = lane[p].content,
               !.backoff = FALSE, !.locked = FALSE, !.owner = None, !.old = FALSE]
  <2>1. page' = [page EXCEPT ![r] = row] /\ Rest(p)
    BY <1>2 DEF Save
  <2>2. lane[p].content \in Content
    BY <1>1 DEF LaneRow
  <2>3. row \in PageRow /\ ~row.locked /\ row.owner = None
    BY <1>1, <2>2 DEF PageRow
  <2>4. page[r].owner = p
    BY <1>2 DEF Owns
  <2> HIDE DEF row, r
  <2>5. lane[p].repo = r
    BY DEF r
  <2>6. QED
    BY <1>1, <2>1, <2>3, <2>4, <2>5, LaneEndsInv
<1>3. CASE ~Owns(p)
  <2> DEFINE row == [lane[p] EXCEPT !.pc = "error", !.retryable = FALSE]
  <2>1. lane' = [lane EXCEPT ![p] = row] /\ UNCHANGED page
    BY <1>3 DEF Save
  <2>2. row \in LaneRow /\ row.repo = lane[p].repo /\ row.pc = "error"
    BY <1>1 DEF LaneRow
  <2> HIDE DEF row
  <2>3. QED
    BY <1>1, <2>1, <2>2, LaneMovesInv
<1>4. QED
  BY <1>2, <1>3

\* A page goes back for another attempt only from its owner.
LEMMA RetryInv ==
  ASSUME WikiInv, NEW p \in Proc, ScheduleRetry(p)
  PROVE  WikiInv'
<1> DEFINE r == lane[p].repo
           again == /\ lane[p].retryable /\ page[r].attempts < MaxAttempts
                    /\ Generating(r) /\ Owns(p)
<1>1. /\ lane[p] \in LaneRow /\ lane[p].pc = "error" /\ r \in Repo
      /\ page[r] \in PageRow
      /\ UNCHANGED <<proc, live, moves>>
  BY DEF ScheduleRetry, WikiInv, TypeOK, LanesWork
<1>2. CASE again
  <2> DEFINE row == [page[r] EXCEPT !.backoff = TRUE, !.locked = FALSE,
                                    !.owner = None, !.old = FALSE]
  <2>1. page' = [page EXCEPT ![r] = row] /\ Rest(p)
    BY <1>2 DEF ScheduleRetry
  <2>2. row \in PageRow /\ ~row.locked /\ row.owner = None
    BY <1>1 DEF PageRow
  <2>3. page[r].owner = p
    BY <1>2 DEF Owns
  <2>4. UNCHANGED <<proc, live, moves>> /\ r \in Repo
    BY <1>1
  <2> HIDE DEF row, r
  <2>5. lane[p].repo = r
    BY DEF r
  <2>6. QED
    BY <2>1, <2>2, <2>3, <2>4, <2>5, LaneEndsInv
<1>3. CASE ~again
  <2> DEFINE row == [lane[p] EXCEPT !.pc = "fail"]
  <2>1. lane' = [lane EXCEPT ![p] = row] /\ UNCHANGED page
    BY <1>3 DEF ScheduleRetry
  <2>2. row \in LaneRow /\ row.repo = lane[p].repo /\ row.pc = "fail"
    BY <1>1 DEF LaneRow
  <2> HIDE DEF row
  <2>3. QED
    BY <1>1, <2>1, <2>2, LaneMovesInv
<1>4. QED
  BY <1>2, <1>3

\* Only the owner of a page fails it.
LEMMA FailedInv ==
  ASSUME WikiInv, NEW p \in Proc, MarkFailed(p)
  PROVE  WikiInv'
<1> DEFINE r == lane[p].repo
<1>1. /\ r \in Repo /\ page[r] \in PageRow
      /\ Rest(p) /\ UNCHANGED <<proc, live, moves>>
  BY DEF MarkFailed, WikiInv, TypeOK, LanesWork
<1>2. CASE Owns(p)
  <2> DEFINE row == [page[r] EXCEPT !.status = "failed", !.backoff = FALSE,
                                    !.locked = FALSE, !.owner = None, !.old = FALSE]
  <2>1. page' = [page EXCEPT ![r] = row]
    BY <1>2 DEF MarkFailed
  <2>2. row \in PageRow /\ ~row.locked /\ row.owner = None
    BY <1>1 DEF PageRow
  <2>3. page[r].owner = p
    BY <1>2 DEF Owns
  <2> HIDE DEF row, r
  <2>4. lane[p].repo = r
    BY DEF r
  <2>5. QED
    BY <1>1, <2>1, <2>2, <2>3, <2>4, LaneEndsInv
<1>3. CASE ~Owns(p)
  <2>1. UNCHANGED page
    BY <1>3 DEF MarkFailed
  <2>2. QED
    BY <1>1, <2>1, LaneDropsInv
<1>4. QED
  BY <1>2, <1>3

\* No row whose owner has a lease is taken away by a recovery.
LEMMA RecoverInv ==
  ASSUME WikiInv, NEW p \in Proc, RecoverExpired(p)
  PROVE  WikiInv'
<1> DEFINE row(r) == [page[r] EXCEPT !.locked = FALSE, !.owner = None]
<1>1. /\ page' = [r \in Repo |-> IF OwnerExpired(r) THEN row(r) ELSE page[r]]
      /\ UNCHANGED <<lane, proc, live, moves>>
  BY DEF RecoverExpired
<1>2. ASSUME NEW r \in Repo
      PROVE  /\ page[r] \in PageRow /\ row(r) \in PageRow
             /\ ~row(r).locked /\ row(r).owner = None
  <2>1. page[r] \in PageRow
    BY DEF WikiInv, TypeOK
  <2>2. QED
    BY <2>1 DEF PageRow
<1>3. ASSUME NEW r \in Repo, OwnerExpired(r) PROVE page[r].owner \notin live
  BY <1>3 DEF OwnerExpired
<1> HIDE DEF row
<1>4. TypeOK'
  BY <1>1, <1>2 DEF WikiInv, TypeOK
<1>5. ClaimsAgree'
  <2>1. SUFFICES ASSUME NEW r \in Repo
        PROVE  /\ page'[r].locked <=> page'[r].owner # None
               /\ page'[r].locked => page'[r].status = "generating"
    BY DEF ClaimsAgree, Generating
  <2>2. CASE OwnerExpired(r)
    BY <1>1, <1>2, <2>2
  <2>3. CASE ~OwnerExpired(r)
    BY <1>1, <2>3 DEF WikiInv, ClaimsAgree, Generating
  <2>4. QED
    BY <2>2, <2>3
<1>6. HolderKeepsPage'
  <2>1. SUFFICES ASSUME NEW q \in Proc, q \in live, lane[q].pc # "idle"
        PROVE  page'[lane[q].repo] = page[lane[q].repo]
    BY <1>1 DEF WikiInv, HolderKeepsPage
  <2>2. lane[q].repo \in Repo /\ page[lane[q].repo].owner = q
    BY <2>1 DEF WikiInv, HolderKeepsPage, LanesWork
  <2>3. QED
    BY <1>1, <1>3, <2>1, <2>2
<1>7. QED
  BY <1>1, <1>4, <1>5, <1>6 DEF WikiInv, LanesWork, SavesGood

\* The life of a process: only one that never ran starts, only an idle one goes.
LEMMA ProcessInv ==
  ASSUME WikiInv, NEW p \in Proc,
         Boot(p) \/ LeaseExpires(p) \/ LeaseLost(p) \/ Stop(p) \/ Release(p)
  PROVE  WikiInv'
<1>1. UNCHANGED <<page, lane, moves>>
  BY DEF Boot, LeaseExpires, LeaseLost, Stop, Release
<1>2. TypeOK'
  BY <1>1 DEF WikiInv, TypeOK, Boot, LeaseExpires, LeaseLost, Stop, Release
<1>3. LanesWork'
  BY <1>1 DEF WikiInv, TypeOK, LanesWork, Boot, LeaseExpires, LeaseLost, Stop, Release
<1>4. SavesGood' /\ ClaimsAgree'
  BY <1>1 DEF WikiInv, SavesGood, ClaimsAgree, Generating
<1>5. HolderKeepsPage'
  <2>1. ASSUME NEW q \in Proc, q \in live', lane[q].pc # "idle"
        PROVE  q \in live
    BY <2>1 DEF WikiInv, LanesWork, Boot, LeaseExpires, LeaseLost, Stop, Release
  <2>2. QED
    BY <1>1, <2>1 DEF WikiInv, HolderKeepsPage
<1>6. QED
  BY <1>2, <1>3, <1>4, <1>5 DEF WikiInv

\* Every step of every lane, request and process keeps the invariant.
LEMMA NextInv == WikiInv /\ [Next]_vars => WikiInv'
<1> SUFFICES ASSUME WikiInv, [Next]_vars PROVE WikiInv'
  OBVIOUS
<1>1. CASE ListPages
  BY <1>1, ListInv
<1>2. ASSUME NEW r \in Repo, RefreshWiki(r) \/ Ages(r) \/ BackoffElapses(r)
      PROVE  WikiInv'
  BY <1>2, RefreshInv, ClockInv
<1>3. ASSUME NEW p \in Proc, NEW r \in Repo, Claim(p, r)
      PROVE  WikiInv'
  BY <1>3, ClaimInv
<1>4. ASSUME NEW p \in Proc, LaneStep(p)
      PROVE  WikiInv'
  <2>1. CASE CancelLane(p)
    BY <2>1, LaneDropsInv DEF CancelLane
  <2>2. QED
    BY <1>4, <2>1, GenerateInv, SaveInv, RetryInv, FailedInv DEF LaneStep
<1>5. ASSUME NEW p \in Proc,
             Boot(p) \/ LeaseExpires(p) \/ LeaseLost(p) \/ Stop(p) \/ Release(p)
      PROVE  WikiInv'
  BY <1>5, ProcessInv
<1>6. ASSUME NEW p \in Proc, RecoverExpired(p)
      PROVE  WikiInv'
  BY <1>6, RecoverInv
<1>7. ASSUME NEW p \in Proc, Crash(p)
      PROVE  WikiInv'
  BY <1>7, LaneDropsInv DEF Crash
<1>8. CASE UNCHANGED vars
  BY <1>8 DEF vars, WikiInv, TypeOK, LanesWork, SavesGood, ClaimsAgree, HolderKeepsPage,
              Generating
<1>9. QED
  BY <1>1, <1>2, <1>3, <1>4, <1>5, <1>6, <1>7, <1>8 DEF Next

\* The invariant holds of every reachable state of the page table.
THEOREM WikiInvariant == Spec => []WikiInv
  BY InitInv, NextInv, PTL DEF Spec

\* Pages, lanes and processes keep their types.
THEOREM WikiTypes == Spec => []TypeOK
<1>1. WikiInv => TypeOK
  BY DEF WikiInv
<1>2. QED
  BY <1>1, WikiInvariant, PTL

\* For any number of processes and repositories: while a process holds its lease,
\* the page its lane works on stays claimed in its name.
THEOREM WikiHolderKeepsPage == Spec => []HolderKeepsPage
<1>1. WikiInv => HolderKeepsPage
  BY DEF WikiInv
<1>2. QED
  BY <1>1, WikiInvariant, PTL

---------------------------------------------------------------------------
(* The page table implements a table of leased tasks                       *)

\* What a row shows of its task.
StatusOf(row) == IF row.locked THEN "held"
                 ELSE IF row.status = "generating" THEN "waiting" ELSE "idle"
ResultOf(row) == IF row.by = None THEN None ELSE [made |-> row.content, by |-> row.by]

\* The mapping, by rows.
LEMMA Mapping ==
  /\ TaskStatus = [r \in Repo |-> StatusOf(page[r])]
  /\ TaskHolder = [r \in Repo |-> page[r].owner]
  /\ TaskResult = [r \in Repo |-> ResultOf(page[r])]
  /\ TaskStatus' = [r \in Repo |-> StatusOf(page'[r])]
  /\ TaskHolder' = [r \in Repo |-> page'[r].owner]
  /\ TaskResult' = [r \in Repo |-> ResultOf(page'[r])]
  BY DEF TaskStatus, TaskHolder, TaskResult, StatusOf, ResultOf, Generating

\* A step that writes one row changes one task.
LEMMA RowStep ==
  ASSUME TypeOK, NEW r \in Repo, NEW row, page' = [page EXCEPT ![r] = row]
  PROVE  /\ TaskStatus' = [TaskStatus EXCEPT ![r] = StatusOf(row)]
         /\ TaskHolder' = [TaskHolder EXCEPT ![r] = row.owner]
         /\ TaskResult' = [TaskResult EXCEPT ![r] = ResultOf(row)]
         /\ TaskStatus[r] = StatusOf(page[r])
         /\ TaskHolder[r] = page[r].owner
         /\ TaskResult[r] = ResultOf(page[r])
<1> HIDE DEF StatusOf, ResultOf
<1>1. DOMAIN page = Repo
  BY DEF TypeOK
<1>2. QED
  BY <1>1, Mapping

\* What a row keeps of the mapping when it is written as it was.
LEMMA TasksStay ==
  ASSUME UNCHANGED page
  PROVE  UNCHANGED <<TaskStatus, TaskHolder, TaskResult>>
  BY DEF TaskStatus, TaskHolder, TaskResult, Generating

\* A step that leaves the pages and the leases alone is not seen.
LEMMA Unseen ==
  ASSUME UNCHANGED <<page, live>>
  PROVE  UNCHANGED Leased!vars
  BY TasksStay DEF Leased!vars

\* A task is asked for while nobody holds it.
LEMMA RefreshRefines ==
  ASSUME WikiInv, NEW r \in Repo, RefreshWiki(r)
  PROVE  Leased!Ask(r)
<1> DEFINE row == [page[r] EXCEPT !.status = "generating", !.attempts = 0, !.backoff = FALSE,
                                  !.locked = FALSE, !.old = FALSE]
<1>1. page' = [page EXCEPT ![r] = row] /\ UNCHANGED live
  BY DEF RefreshWiki
<1>2. page[r] \in PageRow /\ TypeOK
  BY DEF WikiInv, TypeOK
<1>3. /\ StatusOf(row) = "waiting" /\ row.owner = page[r].owner
      /\ ResultOf(row) = ResultOf(page[r])
  BY <1>2 DEF PageRow, StatusOf, ResultOf
<1>4. StatusOf(page[r]) # "held"
  BY <1>2 DEF RefreshWiki, Replaceable, Generating, WikiInv, ClaimsAgree, StatusOf
<1> HIDE DEF row
<1>5. /\ TaskStatus' = [TaskStatus EXCEPT ![r] = "waiting"]
      /\ TaskHolder' = [TaskHolder EXCEPT ![r] = TaskHolder[r]]
      /\ TaskResult' = [TaskResult EXCEPT ![r] = TaskResult[r]]
      /\ TaskStatus[r] # "held"
  <2>1. /\ TaskStatus' = [TaskStatus EXCEPT ![r] = StatusOf(row)]
        /\ TaskHolder' = [TaskHolder EXCEPT ![r] = row.owner]
        /\ TaskResult' = [TaskResult EXCEPT ![r] = ResultOf(row)]
        /\ TaskStatus[r] = StatusOf(page[r])
        /\ TaskHolder[r] = page[r].owner
        /\ TaskResult[r] = ResultOf(page[r])
    BY <1>1, <1>2, RowStep
  <2>2. QED
    BY <2>1, <1>3, <1>4
<1>6. TaskHolder' = TaskHolder /\ TaskResult' = TaskResult
  BY <1>5 DEF TaskHolder, TaskResult
<1>7. QED
  BY <1>1, <1>5, <1>6 DEF Leased!Ask

\* What nobody took for too long is given up, all of it in one step.
LEMMA ListRefines ==
  ASSUME WikiInv, ListPages
  PROVE  \E T \in SUBSET Repo : Leased!GiveUp(T)
<1> DEFINE stale == {r \in Repo : Waiting(r) /\ page[r].old}
           row(r) == [page[r] EXCEPT !.status = "failed", !.backoff = FALSE, !.old = FALSE]
<1>1. page' = [r \in Repo |-> IF r \in stale THEN row(r) ELSE page[r]]
      /\ UNCHANGED live
  BY DEF ListPages
<1>2. \A r \in Repo : page[r] \in PageRow
  BY DEF WikiInv, TypeOK
<1>3. ASSUME NEW r \in Repo
      PROVE  /\ row(r).owner = page[r].owner
             /\ ResultOf(row(r)) = ResultOf(page[r])
             /\ ~page[r].locked => StatusOf(row(r)) = "idle"
  BY <1>2 DEF PageRow, StatusOf, ResultOf
<1>4. ASSUME NEW r \in stale
      PROVE  ~page[r].locked /\ StatusOf(page[r]) = "waiting"
  BY DEF Waiting, Generating, StatusOf
<1> HIDE DEF row
<1>5. TaskStatus' = [r \in Repo |-> IF r \in stale THEN "idle" ELSE TaskStatus[r]]
  BY <1>1, <1>3, <1>4, Mapping
<1>6. TaskHolder' = TaskHolder /\ TaskResult' = TaskResult
  <2>1. \A r \in Repo : page'[r].owner = page[r].owner /\ ResultOf(page'[r]) = ResultOf(page[r])
    BY <1>1, <1>3
  <2>2. QED
    BY <2>1, Mapping
<1>7. \A r \in stale : TaskStatus[r] = "waiting"
  BY <1>4, Mapping
<1>8. stale \in SUBSET Repo
  OBVIOUS
<1> HIDE DEF stale
<1>9. Leased!GiveUp(stale)
  BY <1>1, <1>5, <1>6, <1>7 DEF Leased!GiveUp
<1>10. QED
  BY <1>8, <1>9

\* Neither the age of a page nor its backoff is seen.
LEMMA ClockRefines ==
  ASSUME WikiInv, NEW r \in Repo, Ages(r) \/ BackoffElapses(r)
  PROVE  UNCHANGED Leased!vars
<1>1. page[r] \in PageRow /\ TypeOK
  BY DEF WikiInv, TypeOK
<1>2. ASSUME NEW row, page' = [page EXCEPT ![r] = row], row.owner = page[r].owner,
             StatusOf(row) = StatusOf(page[r]), ResultOf(row) = ResultOf(page[r])
      PROVE  UNCHANGED <<TaskStatus, TaskHolder, TaskResult>>
  <2>1. /\ TaskStatus' = [TaskStatus EXCEPT ![r] = TaskStatus[r]]
        /\ TaskHolder' = [TaskHolder EXCEPT ![r] = TaskHolder[r]]
        /\ TaskResult' = [TaskResult EXCEPT ![r] = TaskResult[r]]
    <3>1. /\ TaskStatus' = [TaskStatus EXCEPT ![r] = StatusOf(row)]
          /\ TaskHolder' = [TaskHolder EXCEPT ![r] = row.owner]
          /\ TaskResult' = [TaskResult EXCEPT ![r] = ResultOf(row)]
          /\ TaskStatus[r] = StatusOf(page[r])
          /\ TaskHolder[r] = page[r].owner
          /\ TaskResult[r] = ResultOf(page[r])
      BY <1>1, <1>2, RowStep
    <3>2. QED
      BY <3>1, <1>2
  <2>2. QED
    BY <2>1 DEF TaskStatus, TaskHolder, TaskResult
<1>3. CASE Ages(r)
  <2> DEFINE row == [page[r] EXCEPT !.old = TRUE]
  <2>1. page' = [page EXCEPT ![r] = row] /\ UNCHANGED live
    BY <1>3 DEF Ages
  <2>2. /\ row.owner = page[r].owner
        /\ StatusOf(row) = StatusOf(page[r]) /\ ResultOf(row) = ResultOf(page[r])
    BY <1>1 DEF PageRow, StatusOf, ResultOf
  <2> HIDE DEF row
  <2>3. QED
    BY <1>2, <2>1, <2>2 DEF Leased!vars
<1>4. CASE BackoffElapses(r)
  <2> DEFINE row == [page[r] EXCEPT !.backoff = FALSE]
  <2>1. page' = [page EXCEPT ![r] = row] /\ UNCHANGED live
    BY <1>4 DEF BackoffElapses
  <2>2. /\ row.owner = page[r].owner
        /\ StatusOf(row) = StatusOf(page[r]) /\ ResultOf(row) = ResultOf(page[r])
    BY <1>1 DEF PageRow, StatusOf, ResultOf
  <2> HIDE DEF row
  <2>3. QED
    BY <1>2, <2>1, <2>2 DEF Leased!vars
<1>5. QED
  BY <1>3, <1>4

\* Whoever claims a page takes a task that waits.
LEMMA ClaimRefines ==
  ASSUME WikiInv, NEW p \in Proc, NEW r \in Repo, Claim(p, r)
  PROVE  Leased!Take(r, p)
<1> DEFINE row == [page[r] EXCEPT !.owner = p, !.locked = TRUE,
                                  !.attempts = Counted(page[r].attempts)]
<1>1. page[r] \in PageRow /\ TypeOK
  BY DEF WikiInv, TypeOK
<1>2. page' = [page EXCEPT ![r] = row] /\ UNCHANGED live
  BY DEF Claim
<1>3. /\ StatusOf(row) = "held" /\ row.owner = p
      /\ ResultOf(row) = ResultOf(page[r])
  BY <1>1 DEF PageRow, StatusOf, ResultOf
<1>4. StatusOf(page[r]) = "waiting"
  BY DEF Claim, Waiting, Generating, StatusOf
<1> HIDE DEF row
<1>5. /\ TaskStatus' = [TaskStatus EXCEPT ![r] = "held"]
      /\ TaskHolder' = [TaskHolder EXCEPT ![r] = p]
      /\ TaskResult' = [TaskResult EXCEPT ![r] = TaskResult[r]]
      /\ TaskStatus[r] = "waiting"
  <2>1. /\ TaskStatus' = [TaskStatus EXCEPT ![r] = StatusOf(row)]
        /\ TaskHolder' = [TaskHolder EXCEPT ![r] = row.owner]
        /\ TaskResult' = [TaskResult EXCEPT ![r] = ResultOf(row)]
        /\ TaskStatus[r] = StatusOf(page[r])
        /\ TaskHolder[r] = page[r].owner
        /\ TaskResult[r] = ResultOf(page[r])
    BY <1>1, <1>2, RowStep
  <2>2. QED
    BY <2>1, <1>3, <1>4
<1>6. TaskResult' = TaskResult
  BY <1>5 DEF TaskResult
<1>7. QED
  BY <1>2, <1>5, <1>6 DEF Leased!Take

\* A row that its owner gives up, unclaimed, and what its status says then.
LEMMA OwnerLeaves ==
  ASSUME WikiInv, NEW p \in Proc, NEW r \in Repo, NEW row,
         page[r].owner = p, ~row.locked, row.owner = None,
         page' = [page EXCEPT ![r] = row], UNCHANGED live,
         \/ row.status # "generating" /\ ResultOf(row) = ResultOf(page[r])
         \/ /\ row.status # "generating"
            /\ row.content \in GoodPages /\ row.by = p
         \/ row.status = "generating" /\ ResultOf(row) = ResultOf(page[r])
  PROVE  Leased!Leave(r, p)
<1>1. TypeOK
  BY DEF WikiInv
<1>2. StatusOf(page[r]) = "held"
  BY WikiBounds DEF WikiInv, ClaimsAgree, StatusOf
<1>3. /\ TaskStatus' = [TaskStatus EXCEPT ![r] = StatusOf(row)]
      /\ TaskHolder' = [TaskHolder EXCEPT ![r] = None]
      /\ TaskResult' = [TaskResult EXCEPT ![r] = ResultOf(row)]
      /\ TaskStatus[r] = "held" /\ TaskHolder[r] = p
      /\ TaskResult[r] = ResultOf(page[r])
  BY <1>1, <1>2, RowStep
<1>4. CASE ResultOf(row) = ResultOf(page[r])
  <2>1. TaskResult' = [TaskResult EXCEPT ![r] = TaskResult[r]]
    BY <1>3, <1>4
  <2>2. UNCHANGED TaskResult
    BY <2>1 DEF TaskResult
  <2>3. StatusOf(row) \in {"idle", "waiting"}
    BY DEF StatusOf
  <2>4. QED
    BY <1>3, <2>2, <2>3 DEF Leased!Leave
<1>5. CASE row.status # "generating" /\ row.content \in GoodPages /\ row.by = p
  <2>1. StatusOf(row) = "idle"
    BY <1>5 DEF StatusOf
  <2>2. ResultOf(row) = [made |-> row.content, by |-> p]
    BY <1>5, WikiBounds DEF ResultOf
  <2>3. \E g \in GoodPages : TaskResult' = [TaskResult EXCEPT ![r] = [made |-> g, by |-> p]]
    BY <1>3, <1>5, <2>2
  <2>4. QED
    BY <1>3, <2>1, <2>3 DEF Leased!Leave
<1>6. QED
  BY <1>4, <1>5

\* Only the holder of a task saves it, with a good page.
LEMMA SaveRefines ==
  ASSUME WikiInv, NEW p \in Proc, Save(p), Owns(p)
  PROVE  \E r \in Repo : Leased!Leave(r, p)
<1> DEFINE r == lane[p].repo
           row == [page[r] EXCEPT
               !.status = "ready", !.by = p, !.content = lane[p].content,
               !.backoff = FALSE, !.locked = FALSE, !.owner = None, !.old = FALSE]
<1>1. lane[p].pc = "save" /\ r \in Repo /\ page[r] \in PageRow
  BY DEF Save, WikiInv, TypeOK, LanesWork
<1>2. lane[p].content \in GoodPages
  BY <1>1 DEF WikiInv, SavesGood
<1>3. page' = [page EXCEPT ![r] = row] /\ UNCHANGED live /\ page[r].owner = p
  BY DEF Save, Owns
<1>4. /\ row.status = "ready" /\ row.by = p /\ row.content \in GoodPages
      /\ ~row.locked /\ row.owner = None
  BY <1>1, <1>2 DEF PageRow
<1>5. row.status # "generating"
  BY <1>4
<1> HIDE DEF row, r
<1>6. Leased!Leave(r, p)
  BY <1>1, <1>3, <1>4, <1>5, OwnerLeaves
<1>7. QED
  BY <1>1, <1>6

\* Only the holder of a task returns it.
LEMMA RetryRefines ==
  ASSUME WikiInv, NEW p \in Proc, ScheduleRetry(p), page' # page
  PROVE  \E r \in Repo : Leased!Leave(r, p)
<1> DEFINE r == lane[p].repo
           row == [page[r] EXCEPT !.backoff = TRUE, !.locked = FALSE,
                                  !.owner = None, !.old = FALSE]
<1>1. lane[p].pc = "error" /\ r \in Repo /\ page[r] \in PageRow
  BY DEF ScheduleRetry, WikiInv, TypeOK, LanesWork
<1>2. /\ page' = [page EXCEPT ![r] = row] /\ UNCHANGED live
      /\ Generating(r) /\ Owns(p)
  BY DEF ScheduleRetry
<1>3. /\ row.status = "generating" /\ ResultOf(row) = ResultOf(page[r])
      /\ ~row.locked /\ row.owner = None
  BY <1>1, <1>2 DEF PageRow, Generating, ResultOf
<1>4. page[r].owner = p
  BY <1>2 DEF Owns
<1> HIDE DEF row, r
<1>5. Leased!Leave(r, p)
  BY <1>1, <1>2, <1>3, <1>4, OwnerLeaves
<1>6. QED
  BY <1>1, <1>5

\* Only the holder of a task fails it.
LEMMA FailedRefines ==
  ASSUME WikiInv, NEW p \in Proc, MarkFailed(p), Owns(p)
  PROVE  \E r \in Repo : Leased!Leave(r, p)
<1> DEFINE r == lane[p].repo
           row == [page[r] EXCEPT !.status = "failed", !.backoff = FALSE,
                                  !.locked = FALSE, !.owner = None, !.old = FALSE]
<1>1. r \in Repo /\ page[r] \in PageRow
  BY DEF MarkFailed, WikiInv, TypeOK, LanesWork
<1>2. page' = [page EXCEPT ![r] = row] /\ UNCHANGED live /\ page[r].owner = p
  BY DEF MarkFailed, Owns
<1>3. /\ row.status = "failed" /\ ResultOf(row) = ResultOf(page[r])
      /\ ~row.locked /\ row.owner = None
  BY <1>1 DEF PageRow, ResultOf
<1>4. row.status # "generating"
  BY <1>3
<1> HIDE DEF row, r
<1>5. Leased!Leave(r, p)
  BY <1>1, <1>2, <1>3, <1>4, OwnerLeaves
<1>6. QED
  BY <1>1, <1>5

\* A recovery returns exactly the tasks whose holder has no lease.
LEMMA RecoverRefines ==
  ASSUME WikiInv, NEW p \in Proc, RecoverExpired(p)
  PROVE  Leased!Recover
<1> DEFINE row(r) == [page[r] EXCEPT !.locked = FALSE, !.owner = None]
           lost == {t \in Repo : TaskStatus[t] = "held" /\ TaskHolder[t] \notin live}
<1>1. /\ page' = [r \in Repo |-> IF OwnerExpired(r) THEN row(r) ELSE page[r]]
      /\ UNCHANGED live
  BY DEF RecoverExpired
<1>2. \A r \in Repo : page[r] \in PageRow
  BY DEF WikiInv, TypeOK
<1>3. ASSUME NEW r \in Repo, OwnerExpired(r)
      PROVE  /\ row(r).owner = None
             /\ ResultOf(row(r)) = ResultOf(page[r])
             /\ StatusOf(row(r)) = "waiting"
  BY <1>2, <1>3 DEF PageRow, StatusOf, ResultOf, OwnerExpired, Generating
<1>4. ASSUME NEW r \in Repo PROVE r \in lost <=> OwnerExpired(r)
  <2>1. /\ page[r].locked <=> page[r].owner # None
        /\ page[r].locked => page[r].status = "generating"
    BY DEF WikiInv, ClaimsAgree, Generating
  <2>2. StatusOf(page[r]) = "held" <=> page[r].locked
    BY DEF StatusOf
  <2>3. QED
    BY <2>1, <2>2, Mapping DEF OwnerExpired, Generating
<1> HIDE DEF row
<1>5. TaskStatus' = [t \in Repo |-> IF t \in lost THEN "waiting" ELSE TaskStatus[t]]
  BY <1>1, <1>3, <1>4, Mapping
<1>6. TaskHolder' = [t \in Repo |-> IF t \in lost THEN None ELSE TaskHolder[t]]
  BY <1>1, <1>3, <1>4, Mapping
<1>7. TaskResult' = TaskResult
  <2>1. \A r \in Repo : ResultOf(page'[r]) = ResultOf(page[r])
    BY <1>1, <1>3
  <2>2. QED
    BY <2>1, Mapping
<1>8. QED
  BY <1>1, <1>5, <1>6, <1>7 DEF Leased!Recover, Leased!Return

\* Initially no task is asked for, held or done.
LEMMA InitRefines == Init => Leased!Init
<1> SUFFICES ASSUME Init PROVE Leased!Init
  OBVIOUS
<1>1. \A r \in Repo : /\ page[r].status = "none" /\ ~page[r].locked
                      /\ page[r].owner = None /\ page[r].by = None
  BY DEF Init, NoPage
<1>2. \A r \in Repo : StatusOf(page[r]) = "idle" /\ ResultOf(page[r]) = None
  BY <1>1 DEF StatusOf, ResultOf
<1>3. QED
  BY <1>1, <1>2, Mapping DEF Init, Leased!Init

\* Every step of the page table is a step of the task table, or is not seen.
LEMMA StepRefines == WikiInv /\ [Next]_vars => [Leased!Next]_(Leased!vars)
<1> SUFFICES ASSUME WikiInv, [Next]_vars PROVE Leased!Next \/ UNCHANGED Leased!vars
  OBVIOUS
<1> USE DEF Leased!Next
<1>1. CASE ListPages
  BY <1>1, ListRefines
<1>2. ASSUME NEW r \in Repo, RefreshWiki(r) \/ Ages(r) \/ BackoffElapses(r)
      PROVE  Leased!Next \/ UNCHANGED Leased!vars
  BY <1>2, RefreshRefines, ClockRefines
<1>3. ASSUME NEW p \in Proc, NEW r \in Repo, Claim(p, r)
      PROVE  Leased!Next
  BY <1>3, ClaimRefines
<1>4. ASSUME NEW p \in Proc, LaneStep(p)
      PROVE  Leased!Next \/ UNCHANGED Leased!vars
  <2>1. CASE Generate(p) \/ CancelLane(p)
    BY <2>1, Unseen DEF Generate, CancelLane
  <2>2. CASE Save(p)
    <3>1. CASE Owns(p)
      BY <2>2, <3>1, SaveRefines
    <3>2. CASE ~Owns(p)
      BY <2>2, <3>2, Unseen DEF Save
    <3>3. QED
      BY <3>1, <3>2
  <2>3. CASE ScheduleRetry(p)
    <3>1. UNCHANGED live
      BY <2>3 DEF ScheduleRetry
    <3>2. QED
      BY <2>3, <3>1, RetryRefines, Unseen
  <2>4. CASE MarkFailed(p)
    <3>1. CASE Owns(p)
      BY <2>4, <3>1, FailedRefines
    <3>2. CASE ~Owns(p)
      BY <2>4, <3>2, Unseen DEF MarkFailed
    <3>3. QED
      BY <3>1, <3>2
  <2>5. QED
    BY <1>4, <2>1, <2>2, <2>3, <2>4 DEF LaneStep
<1>5. ASSUME NEW p \in Proc, Boot(p)
      PROVE  Leased!Next
  BY <1>5, TasksStay DEF Boot, Leased!Renew
<1>6. ASSUME NEW p \in Proc, LeaseExpires(p) \/ Release(p)
      PROVE  Leased!Next
  BY <1>6, TasksStay DEF LeaseExpires, Release, Leased!Expire
<1>7. ASSUME NEW p \in Proc, LeaseLost(p) \/ Stop(p) \/ Crash(p)
      PROVE  UNCHANGED Leased!vars
  BY <1>7, Unseen DEF LeaseLost, Stop, Crash
<1>8. ASSUME NEW p \in Proc, RecoverExpired(p)
      PROVE  Leased!Next
  BY <1>8, RecoverRefines
<1>9. CASE UNCHANGED vars
  BY <1>9, Unseen DEF vars
<1>10. QED
  BY <1>1, <1>2, <1>3, <1>4, <1>5, <1>6, <1>7, <1>8, <1>9 DEF Next

\* For any number of processes, repositories, attempts and requests, and for any
\* snapshot, catalogs and pages: a wiki page is replaced only by the process that
\* holds it, and every fact of it cites a line with text, a declared name, a file or
\* a column that is there; it is taken away only from an owner without a lease.
THEOREM WikiImplementsLeasedTask == Spec => ImplementsLeasedTask
<1>1. Spec => [][Leased!Next]_(Leased!vars)
  BY WikiInvariant, StepRefines, PTL DEF Spec
<1>2. QED
  BY <1>1, InitRefines, PTL DEF Spec, ImplementsLeasedTask, Leased!Spec
=============================================================================
