-------------------------- MODULE PrTrackingProofs --------------------------
(***************************************************************************)
(* Proofs about PrTracking for any number of pull requests, commits, sync  *)
(* requests and environment steps, and any limit of the list.              *)
(***************************************************************************)
EXTENDS PrTracking, FiniteSetTheorems, TLAPS

---------------------------------------------------------------------------
(* How rows and jobs keep their types                                      *)

\* What the provers need of the assumption on the deployments.
LEMMA SiteTyped ==
  ASSUME NEW s \in Sites
  PROVE  s.moves \in Nat /\ s.limit \in Nat /\ s.prs \subseteq Pr
  BY TrackingAssumption

\* A report opens the row it is about.
LEMMA UpsertedTyped ==
  ASSUME NEW r \in PrRow, NEW i \in Info
  PROVE  Upserted(r, i) \in PrRow /\ Upserted(r, i).known /\ Upserted(r, i).state = "open"
<1> DEFINE new == [known |-> TRUE, state |-> "open", head |-> i.head,
                   draft |-> i.draft, reviewed |-> r.reviewed, stale |-> FALSE]
<1>1. new \in PrRow /\ new.known /\ new.state = "open"
  BY DEF PrRow, Info
<1>2. CASE r = [new EXCEPT !.stale = r.stale]
  <2>1. Upserted(r, i) = r
    BY <1>2 DEF Upserted
  <2>2. [new EXCEPT !.stale = r.stale].known /\ [new EXCEPT !.stale = r.stale].state = "open"
    OBVIOUS
  <2> HIDE DEF new
  <2>3. QED
    BY <1>2, <2>1, <2>2
<1>3. CASE r # [new EXCEPT !.stale = r.stale]
  <2>1. Upserted(r, i) = new
    BY <1>3 DEF Upserted
  <2>2. QED
    BY <1>1, <2>1
<1>4. QED
  BY <1>2, <1>3

\* Reports open the rows they are about and leave the others alone.
LEMMA AppliedTyped ==
  ASSUME row \in [Pr -> PrRow], NEW I \in SUBSET Info
  PROVE  /\ Applied(I) \in [Pr -> PrRow]
         /\ \A p \in Pr :
              \/ Applied(I)[p] = row[p]
              \/ /\ \E i \in I : i.pr = p
                 /\ Applied(I)[p].known /\ Applied(I)[p].state = "open"
<1>1. ASSUME NEW p \in Pr, \E i \in I : i.pr = p
      PROVE  /\ Applied(I)[p] \in PrRow
             /\ Applied(I)[p].known /\ Applied(I)[p].state = "open"
  <2>1. (CHOOSE i \in I : i.pr = p) \in Info
    BY <1>1
  <2>2. Applied(I)[p] = Upserted(row[p], CHOOSE i \in I : i.pr = p)
    BY <1>1 DEF Applied
  <2>3. QED
    BY <2>1, <2>2, UpsertedTyped
<1>2. ASSUME NEW p \in Pr, ~ \E i \in I : i.pr = p
      PROVE  Applied(I)[p] = row[p]
  BY <1>2 DEF Applied
<1>3. Applied(I) = [p \in Pr |-> Applied(I)[p]]
  BY DEF Applied
<1>4. \A p \in Pr : Applied(I)[p] \in PrRow
  BY <1>1, <1>2
<1>5. QED
  BY <1>1, <1>2, <1>3, <1>4

\* Reconciliation closes open rows of the pull requests it is given.
LEMMA MarkClosedTyped ==
  ASSUME NEW rows \in [Pr -> PrRow], NEW prs
  PROVE  /\ MarkClosed(rows, prs) \in [Pr -> PrRow]
         /\ \A p \in Pr : /\ MarkClosed(rows, prs)[p].known = rows[p].known
                          /\ \/ MarkClosed(rows, prs)[p] = rows[p]
                             \/ p \in prs /\ rows[p].known
<1>1. ASSUME NEW p \in Pr
      PROVE  [rows[p] EXCEPT !.state = "closed"] \in PrRow
             /\ [rows[p] EXCEPT !.state = "closed"].known = rows[p].known
  <2>1. rows[p] \in PrRow
    OBVIOUS
  <2>2. QED
    BY <2>1 DEF PrRow
<1>2. QED
  BY <1>1 DEF MarkClosed

\* Enqueueing only makes jobs wait.
LEMMA EnqueuedTyped ==
  ASSUME NEW jobs \in [Job -> JobStatus], NEW J
  PROVE  AutoEnqueue(jobs, J) \in [Job -> JobStatus]
  BY DEF AutoEnqueue, JobStatus

\* A row that is gone.
LEMMA NoRowTyped == NoRow \in PrRow /\ ~NoRow.known
  BY DEF NoRow, PrRow

\* Deleting a history deletes its row and jobs, and the path of its file.
LEMMA ForgetTyped ==
  ASSUME row \in [Pr -> PrRow], job \in [Job -> JobStatus], raw \in [Pr -> RawRow],
         NEW prs, Forget(prs)
  PROVE  row' \in [Pr -> PrRow] /\ job' \in [Job -> JobStatus] /\ raw' \in [Pr -> RawRow]
<1>1. row' \in [Pr -> PrRow]
  BY NoRowTyped DEF Forget
<1>2. job' \in [Job -> JobStatus]
  BY DEF Forget, JobStatus
<1>3. ASSUME NEW p \in Pr PROVE [raw[p] EXCEPT !.path = FALSE] \in RawRow
  <2>1. raw[p] \in RawRow
    OBVIOUS
  <2>2. QED
    BY <2>1 DEF RawRow
<1>4. raw' \in [Pr -> RawRow]
  BY <1>3 DEF Forget
<1>5. QED
  BY <1>1, <1>2, <1>4

\* Unlinking a file does not touch the path of it.
LEMMA UnlinkedTyped ==
  ASSUME raw \in [Pr -> RawRow], NEW prs
  PROVE  Unlinked(prs) \in [Pr -> RawRow]
<1>1. ASSUME NEW p \in Pr
      PROVE  [raw[p] EXCEPT !.file = FALSE, !.old = FALSE] \in RawRow
  <2>1. raw[p] \in RawRow
    OBVIOUS
  <2>2. QED
    BY <2>1 DEF RawRow
<1>2. QED
  BY <1>1 DEF Unlinked

---------------------------------------------------------------------------
(* Types                                                                   *)

\* A bounded step of the environment stays within the bound.
LEMMA MovesTyped ==
  ASSUME TypeOK, UNCHANGED site, Move \/ UNCHANGED moves
  PROVE  moves' \in 0..site'.moves
<1>1. site.moves \in Nat /\ moves \in 0..site.moves
  BY SiteTyped DEF TypeOK
<1>2. CASE UNCHANGED moves
  BY <1>1, <1>2
<1>3. CASE Move
  BY <1>1, <1>3 DEF Move
<1>4. QED
  BY <1>2, <1>3

\* Initially the tracked pull requests are open rows that were reviewed.
LEMMA InitTyped == Init => TypeOK
<1> SUFFICES ASSUME Init PROVE TypeOK
  OBVIOUS
<1>1. site \in Sites /\ moves = 0
  BY DEF Init
<1>2. PICK known \in SUBSET site.prs, s \in Sha :
        /\ hub = [p \in Pr |-> [state |-> IF p \in known THEN "open" ELSE "never",
                                head |-> s, draft |-> FALSE]]
        /\ row = [p \in Pr |->
                    IF p \in known
                    THEN [NoRow EXCEPT !.known = TRUE, !.state = "open",
                                       !.head = s, !.reviewed = s]
                    ELSE NoRow]
        /\ job = [j \in Job |-> IF j[1] \in known /\ j[2] = s
                                THEN "answered" ELSE "none"]
        /\ raw = [p \in Pr |-> [file |-> p \in known, path |-> p \in known,
                                old |-> FALSE]]
  BY DEF Init
<1>3. hub \in [Pr -> HubRow]
  BY <1>2 DEF HubRow
<1>4. [NoRow EXCEPT !.known = TRUE, !.state = "open", !.head = s, !.reviewed = s] \in PrRow
  BY DEF NoRow, PrRow
<1>5. row \in [Pr -> PrRow]
  BY <1>2, <1>4, NoRowTyped
<1>6. job \in [Job -> JobStatus]
  BY <1>2 DEF JobStatus
<1>7. raw \in [Pr -> RawRow]
  BY <1>2 DEF RawRow
<1>8. repo \in RepoRow
  BY DEF Init, RepoRow
<1>9. poll \in [Poller -> PollRow]
  <2>1. IdlePoll \in PollRow
    BY DEF IdlePoll, PollRow
  <2>2. QED
    BY <2>1 DEF Init
<1>10. mail \subseteq Info /\ hook \in Info \cup {None} /\ removal \in BOOLEAN
  BY DEF Init
<1>11. keeper \in KeeperRow
  BY DEF Init, KeeperRow
<1>12. moves \in 0..site.moves
  BY <1>1, SiteTyped
<1>13. QED
  BY <1>1, <1>3, <1>5, <1>6, <1>7, <1>8, <1>9, <1>10, <1>11, <1>12 DEF TypeOK

\* What GitHub says of a pull request.
LEMMA InfoTyped ==
  ASSUME NEW h \in [Pr -> HubRow], NEW p \in Pr
  PROVE  InfoOf(p, h) \in Info /\ InfoOf(p, h).pr = p
<1>1. h[p] \in HubRow
  OBVIOUS
<1>2. h[p].head \in Sha /\ h[p].draft \in BOOLEAN
  BY <1>1 DEF HubRow
<1>3. QED
  BY <1>2 DEF InfoOf, Info

\* What may become of a pull request on GitHub: it is opened once, and after it was
\* closed it is never again one that was not.
HubStep(p, change) ==
  /\ change \in HubRow /\ change.state # "never"
  /\ change.state = "open" => hub[p].state \in {"never", "open"}

\* Every event on GitHub is such a step, with or without a delivery.
LEMMA HubSteps ==
  ASSUME TypeOK, NEW p \in Pr, HubMoves(p)
  PROVE  \E change : /\ HubStep(p, change)
                     /\ hub' = [hub EXCEPT ![p] = change]
                     /\ mail' = mail \cup {InfoOf(p, hub')} \/ UNCHANGED mail
<1>1. hub[p] \in HubRow
  BY DEF TypeOK
<1>2. CASE \E d \in BOOLEAN :
             /\ hub[p].state = "never"
             /\ HubTells(p, [hub[p] EXCEPT !.state = "open", !.draft = d])
  <2>1. PICK d \in BOOLEAN :
          /\ hub[p].state = "never"
          /\ HubTells(p, [hub[p] EXCEPT !.state = "open", !.draft = d])
    BY <1>2
  <2> DEFINE change == [hub[p] EXCEPT !.state = "open", !.draft = d]
  <2>2. HubStep(p, change)
    BY <1>1, <2>1 DEF HubStep, HubRow
  <2> HIDE DEF change
  <2>3. HubTells(p, change)
    BY <2>1 DEF change
  <2>4. QED
    BY <2>2, <2>3 DEF HubTells
<1>3. CASE hub[p].state = "closed" /\ HubTells(p, [hub[p] EXCEPT !.state = "again"])
  <2> DEFINE change == [hub[p] EXCEPT !.state = "again"]
  <2>1. HubStep(p, change)
    BY <1>1 DEF HubStep, HubRow
  <2> HIDE DEF change
  <2>2. HubTells(p, change)
    BY <1>3 DEF change
  <2>3. QED
    BY <2>1, <2>2 DEF HubTells
<1>4. CASE \E s \in Sha \ {hub[p].head} :
             p \in HubOpen /\ HubTells(p, [hub[p] EXCEPT !.head = s])
  <2>1. PICK s \in Sha : p \in HubOpen /\ HubTells(p, [hub[p] EXCEPT !.head = s])
    BY <1>4
  <2> DEFINE change == [hub[p] EXCEPT !.head = s]
  <2>2. HubStep(p, change)
    BY <1>1, <2>1 DEF HubStep, HubRow, HubOpen
  <2> HIDE DEF change
  <2>3. HubTells(p, change)
    BY <2>1 DEF change
  <2>4. QED
    BY <2>2, <2>3 DEF HubTells
<1>5. CASE p \in HubOpen /\ hub[p].draft /\ HubTells(p, [hub[p] EXCEPT !.draft = FALSE])
  <2> DEFINE change == [hub[p] EXCEPT !.draft = FALSE]
  <2>1. HubStep(p, change)
    BY <1>1, <1>5 DEF HubStep, HubRow, HubOpen
  <2> HIDE DEF change
  <2>2. HubTells(p, change)
    BY <1>5 DEF change
  <2>3. QED
    BY <2>1, <2>2 DEF HubTells
<1>6. CASE p \in HubOpen /\ Move /\ hub' = [hub EXCEPT ![p].state = "closed"] /\ UNCHANGED mail
  <2> DEFINE change == [hub[p] EXCEPT !.state = "closed"]
  <2>1. HubStep(p, change)
    BY <1>1 DEF HubStep, HubRow
  <2>2. hub' = [hub EXCEPT ![p] = change]
    BY <1>6
  <2> HIDE DEF change
  <2>3. QED
    BY <1>6, <2>1, <2>2
<1>7. QED
  BY <1>2, <1>3, <1>4, <1>5, <1>6 DEF HubMoves

\* An event on GitHub.
LEMMA HubTyped ==
  ASSUME TypeOK, NEW p \in Pr, HubMoves(p)
  PROVE  TypeOK'
<1>1. PICK change : /\ HubStep(p, change)
                    /\ hub' = [hub EXCEPT ![p] = change]
                    /\ mail' = mail \cup {InfoOf(p, hub')} \/ UNCHANGED mail
  BY HubSteps
<1>2. hub' \in [Pr -> HubRow]
  BY <1>1 DEF TypeOK, HubStep
<1>3. mail' \subseteq Info
  <2>1. InfoOf(p, hub') \in Info
    BY <1>2, InfoTyped
  <2>2. mail \subseteq Info
    BY DEF TypeOK
  <2>3. QED
    BY <1>1, <2>1, <2>2
<1>4. UNCHANGED <<tables, actors, site>> /\ Move
  BY DEF HubMoves, HubTells
<1>5. moves' \in 0..site'.moves
  BY <1>4, MovesTyped
<1>6. QED
  BY <1>2, <1>3, <1>4, <1>5 DEF TypeOK, tables, actors

\* Settings and time.
LEMMA ClockTyped ==
  ASSUME TypeOK, DaysPass \/ \E e, a \in BOOLEAN : SetRepo(e, a)
  PROVE  TypeOK'
<1>1. CASE DaysPass
  <2>1. ASSUME NEW p \in Pr
        PROVE  /\ [row[p] EXCEPT !.stale = row[p].known] \in PrRow
               /\ [raw[p] EXCEPT !.old = raw[p].file] \in RawRow
    <3>1. row[p] \in PrRow /\ raw[p] \in RawRow
      BY DEF TypeOK
    <3>2. [row[p] EXCEPT !.stale = row[p].known] \in PrRow
      BY <3>1 DEF PrRow
    <3>3. [raw[p] EXCEPT !.old = raw[p].file] \in RawRow
      BY <3>1 DEF RawRow
    <3>4. QED
      BY <3>2, <3>3
  <2>2. row' \in [Pr -> PrRow] /\ raw' \in [Pr -> RawRow]
    BY <1>1, <2>1 DEF DaysPass
  <2>3. QED
    BY <1>1, <2>2, MovesTyped DEF DaysPass, TypeOK, actors
<1>2. CASE \E e, a \in BOOLEAN : SetRepo(e, a)
  <2>1. PICK e \in BOOLEAN, a \in BOOLEAN : SetRepo(e, a)
    BY <1>2
  <2>2. repo' \in RepoRow
    <3>1. repo \in RepoRow
      BY DEF TypeOK
    <3>2. repo' = [repo EXCEPT !.enabled = e, !.auto = a]
      BY <2>1 DEF SetRepo
    <3>3. QED
      BY <3>1, <3>2 DEF RepoRow
  <2>3. QED
    BY <2>1, <2>2, MovesTyped DEF SetRepo, TypeOK, actors
<1>3. QED
  BY <1>1, <1>2

\* A poll or a sync begins.
LEMMA PollBeginTyped ==
  ASSUME TypeOK, NEW q \in Poller, PollBegin(q)
  PROVE  TypeOK'
<1> DEFINE begun == [IdlePoll EXCEPT !.pc = "asked", !.auto = repo.auto, !.prev = KnownOpen]
<1>1. begun \in PollRow
  <2>1. repo.auto \in BOOLEAN
    BY DEF TypeOK, RepoRow
  <2>2. KnownOpen \in SUBSET Pr
    BY DEF KnownOpen
  <2>3. QED
    BY <2>1, <2>2 DEF IdlePoll, PollRow
<1>2. poll' = [poll EXCEPT ![q] = begun]
  BY DEF PollBegin
<1> HIDE DEF begun
<1>3. poll' \in [Poller -> PollRow]
  BY <1>1, <1>2 DEF TypeOK
<1>4. UNCHANGED <<hub, tables, mail, hook, keeper, removal, site>> /\ (Move \/ UNCHANGED moves)
  BY DEF PollBegin
<1>5. moves' \in 0..site'.moves
  BY <1>4, MovesTyped
<1>6. QED
  BY <1>3, <1>4, <1>5 DEF TypeOK, tables

\* A list is about pull requests that are open.
LEMMA ListedOpen ==
  ASSUME TypeOK, NEW L \in ListAnswers
  PROVE  /\ L \subseteq HubOpen /\ L \subseteq Pr
         /\ {InfoOf(p, hub) : p \in L} \in SUBSET Info
<1>1. L \subseteq HubOpen /\ L \subseteq Pr
  BY DEF ListAnswers, HubOpen
<1>2. \A p \in L : InfoOf(p, hub) \in Info
  BY <1>1, InfoTyped DEF TypeOK
<1>3. QED
  BY <1>1, <1>2

\* GitHub answers.
LEMMA PollListTyped ==
  ASSUME TypeOK, NEW q \in Poller, PollList(q)
  PROVE  TypeOK'
<1>1. PICK L \in ListAnswers :
        poll' = [poll EXCEPT ![q].pc = "apply",
                             ![q].listed = {InfoOf(p, hub) : p \in L},
                             ![q].todo = {InfoOf(p, hub) : p \in L}]
  BY DEF PollList
<1> DEFINE infos == {InfoOf(p, hub) : p \in L}
           asked == [poll[q] EXCEPT !.pc = "apply", !.listed = infos, !.todo = infos]
<1>2. infos \in SUBSET Info
  BY ListedOpen
<1>3. poll' = [poll EXCEPT ![q] = asked]
  BY <1>1
<1> HIDE DEF infos
<1>4. asked \in PollRow
  <2>1. poll[q] \in PollRow
    BY DEF TypeOK
  <2>2. QED
    BY <1>2, <2>1 DEF PollRow
<1> HIDE DEF asked
<1>5. poll' \in [Poller -> PollRow]
  BY <1>3, <1>4 DEF TypeOK
<1>6. UNCHANGED <<hub, tables, mail, hook, keeper, removal, site, moves>>
  BY DEF PollList
<1>7. QED
  BY <1>5, <1>6 DEF TypeOK, tables

\* The poll of q, and what it has still to apply.
LEMMA PollTyped ==
  ASSUME TypeOK, NEW q \in Poller
  PROVE  /\ poll[q] \in PollRow /\ IdlePoll \in PollRow
         /\ poll[q].listed \in SUBSET Info /\ poll[q].todo \in SUBSET Info
         /\ poll[q].prev \in SUBSET Pr
         /\ poll[q].pc \in {"idle", "asked", "apply"}
<1>1. poll[q] \in PollRow
  BY DEF TypeOK
<1>2. IdlePoll \in PollRow
  BY DEF IdlePoll, PollRow
<1>3. QED
  BY <1>1, <1>2 DEF PollRow

\* The answer is applied, or the rest of it.
LEMMA PollFinishTyped ==
  ASSUME TypeOK, NEW q \in Poller, PollFinish(q)
  PROVE  TypeOK'
<1>1. Applied(poll[q].todo) \in [Pr -> PrRow]
  BY PollTyped, AppliedTyped DEF TypeOK
<1>2. row' \in [Pr -> PrRow]
  BY <1>1, MarkClosedTyped DEF PollFinish
<1>3. job' \in [Job -> JobStatus]
  BY EnqueuedTyped DEF TypeOK, PollFinish
<1>4. poll' \in [Poller -> PollRow]
  BY PollTyped DEF TypeOK, PollFinish
<1>5. UNCHANGED <<hub, raw, repo, mail, hook, keeper, removal, site, moves>>
  BY DEF PollFinish
<1>6. QED
  BY <1>2, <1>3, <1>4, <1>5 DEF TypeOK

\* A sync commits in the middle of its list.
LEMMA SyncCommitsTyped ==
  ASSUME TypeOK, NEW q \in Poller, SyncCommits(q)
  PROVE  TypeOK'
<1>1. PICK i \in poll[q].todo, S \in SUBSET poll[q].todo :
        /\ row' = Applied(S)
        /\ job' = AutoEnqueue(job, JobsOf({i}))
        /\ poll' = [poll EXCEPT ![q].todo = @ \ S]
  BY DEF SyncCommits
<1>2. row' \in [Pr -> PrRow]
  <2>1. S \in SUBSET Info
    BY PollTyped
  <2>2. QED
    BY <1>1, <2>1, AppliedTyped DEF TypeOK
<1>3. job' \in [Job -> JobStatus]
  BY <1>1, EnqueuedTyped DEF TypeOK
<1>4. [poll[q] EXCEPT !.todo = poll[q].todo \ S] \in PollRow
  <2>1. poll[q].todo \ S \in SUBSET Info
    BY PollTyped
  <2>2. poll[q] \in PollRow
    BY PollTyped
  <2>3. QED
    BY <2>1, <2>2 DEF PollRow
<1>5. poll' = [poll EXCEPT ![q] = [poll[q] EXCEPT !.todo = poll[q].todo \ S]]
  BY <1>1
<1>6. poll' \in [Poller -> PollRow]
  BY <1>4, <1>5 DEF TypeOK
<1>7. UNCHANGED <<hub, raw, repo, mail, hook, keeper, removal, site, moves>>
  BY DEF SyncCommits
<1>8. QED
  BY <1>2, <1>3, <1>6, <1>7 DEF TypeOK

\* A poll or a sync fails.
LEMMA PollFailsTyped ==
  ASSUME TypeOK, NEW q \in Poller, PollFails(q)
  PROVE  TypeOK'
<1>1. poll' \in [Poller -> PollRow]
  BY PollTyped DEF TypeOK, PollFails
<1>2. UNCHANGED <<hub, tables, mail, hook, keeper, removal, site>> /\ (Move \/ UNCHANGED moves)
  BY DEF PollFails
<1>3. moves' \in 0..site'.moves
  BY <1>2, MovesTyped
<1>4. QED
  BY <1>1, <1>2, <1>3 DEF TypeOK, tables

\* A delivery is handled, repeated or lost.
LEMMA HookTyped ==
  ASSUME TypeOK,
         \/ \E m \in mail, again \in BOOLEAN : HookUpsert(m, again)
         \/ HookEnqueue \/ HookLost
  PROVE  TypeOK'
<1>1. CASE \E m \in mail, again \in BOOLEAN : HookUpsert(m, again)
  <2>1. PICK m \in mail, again \in BOOLEAN : HookUpsert(m, again)
    BY <1>1
  <2>2. m \in Info
    BY DEF TypeOK
  <2>3. row' \in [Pr -> PrRow] /\ hook' \in Info \cup {None}
    <3>1. CASE hook' = m /\ row' = Applied({m})
      BY <2>2, <3>1, AppliedTyped DEF TypeOK
    <3>2. CASE UNCHANGED <<hook, row>>
      BY <3>2 DEF TypeOK
    <3>3. QED
      BY <2>1, <3>1, <3>2 DEF HookUpsert
  <2>4. mail' \subseteq Info
    BY <2>1 DEF HookUpsert, TypeOK
  <2>5. moves' \in 0..site'.moves
    BY <2>1, MovesTyped DEF HookUpsert
  <2>6. UNCHANGED <<hub, job, raw, repo, poll, keeper, removal, site>>
    BY <2>1 DEF HookUpsert
  <2>7. QED
    BY <2>3, <2>4, <2>5, <2>6 DEF TypeOK
<1>2. CASE HookEnqueue
  <2>1. job' \in [Job -> JobStatus]
    BY <1>2, EnqueuedTyped DEF HookEnqueue, TypeOK
  <2>2. QED
    BY <1>2, <2>1 DEF HookEnqueue, TypeOK
<1>3. CASE HookLost
  BY <1>3 DEF HookLost, TypeOK, tables
<1>4. QED
  BY <1>1, <1>2, <1>3

\* A lane's gate drops, replaces, reviews or gives up a job.
LEMMA WorkTyped ==
  ASSUME TypeOK, NEW j \in Job, Work(j)
  PROVE  TypeOK'
<1>1. job \in [Job -> JobStatus] /\ row \in [Pr -> PrRow] /\ j[1] \in Pr /\ j[2] \in Sha
  BY DEF TypeOK, Job
<1>2. \A st \in {"canceled", "answered"} : [job EXCEPT ![j] = st] \in [Job -> JobStatus]
  BY <1>1 DEF JobStatus
<1>3. job' \in [Job -> JobStatus]
  <2> DEFINE J == {<<j[1], row[j[1]].head>>}
             dropped == [job EXCEPT ![j] = "canceled"]
  <2>1. \/ job' = dropped \/ job' = AutoEnqueue(dropped, J)
        \/ job' = [job EXCEPT ![j] = "answered"]
    BY DEF Work
  <2>2. dropped \in [Job -> JobStatus] /\ [job EXCEPT ![j] = "answered"] \in [Job -> JobStatus]
    BY <1>2
  <2> HIDE DEF J, dropped
  <2>3. AutoEnqueue(dropped, J) \in [Job -> JobStatus]
    BY <2>2, EnqueuedTyped
  <2>4. QED
    BY <2>1, <2>2, <2>3
<1>4. [row[j[1]] EXCEPT !.reviewed = j[2]] \in PrRow
  <2>1. row[j[1]] \in PrRow
    BY <1>1
  <2>2. QED
    BY <1>1, <2>1 DEF PrRow
<1>5. row' = row \/ row' = [row EXCEPT ![j[1]] = [row[j[1]] EXCEPT !.reviewed = j[2]]]
  BY DEF Work
<1>6. row' \in [Pr -> PrRow]
  BY <1>1, <1>4, <1>5
<1>7. UNCHANGED <<hub, raw, repo, actors, mail, site, moves>>
  BY DEF Work
<1>8. QED
  BY <1>3, <1>6, <1>7 DEF TypeOK, actors

\* Retention looks for candidates, deletes histories, unlinks files or dies.
LEMMA KeeperTyped ==
  ASSUME TypeOK, KeeperSelect \/ KeeperDelete \/ KeeperUnlink \/ KeeperCrash
  PROVE  TypeOK'
<1>1. CASE KeeperSelect
  <2>1. keeper' \in KeeperRow
    BY <1>1 DEF KeeperSelect, KeeperRow
  <2>2. QED
    BY <1>1, <2>1 DEF KeeperSelect, TypeOK, tables
<1>2. CASE KeeperDelete
  <2>1. keeper.prs \in SUBSET Pr
    BY DEF TypeOK, KeeperRow
  <2>2. keeper' \in KeeperRow
    BY <1>2, <2>1 DEF KeeperDelete, KeeperRow
  <2>3. row' \in [Pr -> PrRow] /\ job' \in [Job -> JobStatus] /\ raw' \in [Pr -> RawRow]
    BY <1>2, ForgetTyped DEF KeeperDelete, TypeOK
  <2>4. QED
    BY <1>2, <2>2, <2>3 DEF KeeperDelete, TypeOK
<1>3. CASE KeeperUnlink
  <2>1. keeper' \in KeeperRow
    BY <1>3 DEF KeeperUnlink, KeeperRow
  <2>2. raw' \in [Pr -> RawRow]
    BY <1>3, UnlinkedTyped DEF KeeperUnlink, TypeOK
  <2>3. QED
    BY <1>3, <2>1, <2>2 DEF KeeperUnlink, TypeOK
<1>4. CASE KeeperCrash
  <2>1. keeper' \in KeeperRow
    BY <1>4 DEF KeeperCrash, KeeperRow
  <2>2. moves' \in 0..site'.moves
    BY <1>4, MovesTyped DEF KeeperCrash
  <2>3. QED
    BY <1>4, <2>1, <2>2 DEF KeeperCrash, TypeOK, tables
<1>5. QED
  BY <1>1, <1>2, <1>3, <1>4

\* The sweep of the transcripts.
LEMMA SweepTyped ==
  ASSUME TypeOK, NEW c \in BOOLEAN, DiagnosticSweep(c)
  PROVE  TypeOK'
<1> DEFINE late == {p \in Pr : raw[p].path /\ (raw[p].old \/ ~raw[p].file)}
           swept == Unlinked(late \cup Unreferenced)
<1>1. raw' = IF c THEN Unlinked(late)
             ELSE [p \in Pr |-> IF p \in late THEN [swept[p] EXCEPT !.path = FALSE]
                                ELSE swept[p]]
  BY DEF DiagnosticSweep
<1>2. swept \in [Pr -> RawRow] /\ Unlinked(late) \in [Pr -> RawRow]
  BY UnlinkedTyped DEF TypeOK
<1> HIDE DEF late, swept
<1>3. \A p \in Pr : [swept[p] EXCEPT !.path = FALSE] \in RawRow
  <2>1. \A r \in RawRow : [r EXCEPT !.path = FALSE] \in RawRow
    BY DEF RawRow
  <2>2. QED
    BY <1>2, <2>1
<1>4. raw' \in [Pr -> RawRow]
  BY <1>1, <1>2, <1>3
<1>5. UNCHANGED <<hub, row, job, repo, actors, mail, site, moves>>
  BY DEF DiagnosticSweep
<1>6. QED
  BY <1>4, <1>5 DEF TypeOK, actors

\* The repository is removed.
LEMMA RemovalTyped ==
  ASSUME TypeOK, RemoveCheck \/ RemoveRepo
  PROVE  TypeOK'
<1>1. CASE RemoveCheck
  <2>1. moves' \in 0..site'.moves
    BY <1>1, MovesTyped DEF RemoveCheck
  <2>2. QED
    BY <1>1, <2>1 DEF RemoveCheck, TypeOK, tables
<1>2. CASE RemoveRepo
  <2>1. row' \in [Pr -> PrRow] /\ job' \in [Job -> JobStatus] /\ raw' \in [Pr -> RawRow]
    BY <1>2, ForgetTyped DEF RemoveRepo, TypeOK
  <2>2. repo' \in RepoRow
    BY <1>2 DEF RemoveRepo, RepoRow
  <2>3. QED
    BY <1>2, <2>1, <2>2 DEF RemoveRepo, TypeOK
<1>3. QED
  BY <1>1, <1>2

\* Every step keeps the types.
LEMMA NextTyped == TypeOK /\ [Next]_vars => TypeOK'
<1> SUFFICES ASSUME TypeOK, [Next]_vars PROVE TypeOK'
  OBVIOUS
<1>1. CASE UNCHANGED vars
  BY <1>1 DEF vars, tables, TypeOK
<1>2. ASSUME NEW q \in Poller,
             \/ PollBegin(q) \/ PollList(q) \/ SyncCommits(q)
             \/ PollFinish(q) \/ PollFails(q)
      PROVE  TypeOK'
  BY <1>2, PollBeginTyped, PollListTyped, SyncCommitsTyped, PollFinishTyped, PollFailsTyped
<1>3. CASE Next
  BY <1>2, <1>3, HubTyped, ClockTyped, HookTyped, WorkTyped, KeeperTyped, SweepTyped,
     RemovalTyped DEF Next
<1>4. QED
  BY <1>1, <1>3

\* Rows, jobs, transcripts, the local variables of every actor and the deliveries
\* under way keep their types, and GitHub does no more than the deployment allows.
THEOREM TrackingTypes == Spec => []TypeOK
<1>1. Init => TypeOK
  BY InitTyped
<1>2. TypeOK /\ [Next]_vars => TypeOK'
  BY NextTyped
<1>3. QED
  BY <1>1, <1>2, PTL DEF Spec

---------------------------------------------------------------------------
(* Pull requests that were never closed                                    *)

Opened(p) == hub[p].state # "never"

\* Nothing this program holds is about a pull request that was not opened yet.
HeardOpened ==
  /\ \A i \in mail : Opened(i.pr)
  /\ hook # None => Opened(hook.pr)
  /\ \A q \in Poller :
       /\ \A p \in poll[q].prev : Opened(p)
       /\ \A i \in poll[q].todo : Opened(i.pr)
  /\ \A p \in Pr : row[p].known => Opened(p)

\* What a poll is about to reconcile away was closed on GitHub at some time.
MissingIsClosed ==
  \A q \in Poller :
    poll[q].pc = "apply" => \A p \in Missing(q) : hub[p].state # "open"

OpenInv == TypeOK /\ HeardOpened /\ MissingIsClosed /\ NeverClosedIsOpen

\* What a step that is none of GitHub's may do to the row of p: take it away, leave its
\* state alone, open it after a report, or close it after a reconciliation.
RowStep(p) ==
  \/ ~row'[p].known
  \/ row[p].known /\ row'[p].state = row[p].state
  \/ Opened(p) /\ row'[p].state = "open"
  \/ Opened(p) /\ hub[p].state # "open"

\* What it may do to the poll q: leave it, drop it, go on with less of the same
\* list, begin anew from the open rows, or take the answer of GitHub.
PollStep(q) ==
  \/ poll'[q] = poll[q]
  \/ poll'[q] = IdlePoll
  \/ poll'[q].pc = "asked" /\ poll'[q].prev = KnownOpen /\ poll'[q].todo = {}
  \/ /\ poll'[q].prev = poll[q].prev /\ poll'[q].todo \subseteq poll[q].todo
     /\ poll'[q].pc = poll[q].pc /\ poll'[q].listed = poll[q].listed
  \/ /\ poll'[q].prev = poll[q].prev
     /\ \E L \in ListAnswers :
          /\ poll'[q].todo = {InfoOf(p, hub) : p \in L}
          /\ poll'[q].listed = {InfoOf(p, hub) : p \in L}

\* Deliveries are repeated or lost, and one that is being handled was under way.
MailStep ==
  /\ mail' \subseteq mail
  /\ hook' = None \/ hook' = hook \/ hook' \in mail

\* A list and the pull requests in it are equally many.
LEMMA ListedAsMany ==
  ASSUME TypeOK, NEW L \in SUBSET Pr
  PROVE  Cardinality({InfoOf(p, hub) : p \in L}) = Cardinality(L)
<1> DEFINE infos == {InfoOf(p, hub) : p \in L}
           f == [p \in L |-> InfoOf(p, hub)]
<1>1. IsFiniteSet(L)
  BY TrackingAssumption, FS_Subset
<1>2. \A p \in L : InfoOf(p, hub).pr = p
  BY InfoTyped DEF TypeOK
<1>3. f \in Bijection(L, infos)
  <2>1. f \in [L -> infos]
    OBVIOUS
  <2>2. \A i \in infos : \E p \in L : f[p] = i
    OBVIOUS
  <2>3. \A p, p2 \in L : f[p] = f[p2] => p = p2
    <3>1. \A p \in L : f[p] = InfoOf(p, hub)
      OBVIOUS
    <3> HIDE DEF f
    <3>2. QED
      BY <1>2, <3>1
  <2> HIDE DEF f, infos
  <2>4. QED
    BY <2>1, <2>2, <2>3 DEF Bijection, Injection, Surjection, IsInjective
<1>4. ExistsBijection(L, infos)
  BY <1>3 DEF ExistsBijection
<1>5. QED
  BY <1>1, <1>4, FS_Bijection

\* An answer of GitHub leaves only those out that are not open, unless it was cut off.
LEMMA AnswerMisses ==
  ASSUME TypeOK, NEW L \in ListAnswers,
         Cardinality({InfoOf(p, hub) : p \in L}) < site.limit,
         NEW p \in Pr, p \notin {i.pr : i \in {InfoOf(p2, hub) : p2 \in L}}
  PROVE  hub[p].state # "open"
<1>1. L \subseteq Pr
  BY ListedOpen
<1>2. Cardinality(L) < site.limit
  BY <1>1, ListedAsMany
<1>3. site.limit \in Nat
  BY SiteTyped DEF TypeOK
<1>4. Cardinality(L) # site.limit
  BY <1>2, <1>3
<1>5. L = HubOpen
  BY <1>4 DEF ListAnswers
<1>6. p \notin L
  <2>1. ASSUME p \in L PROVE FALSE
    <3>1. InfoOf(p, hub).pr = p
      BY InfoTyped DEF TypeOK
    <3>2. InfoOf(p, hub) \in {InfoOf(p2, hub) : p2 \in L}
      BY <2>1
    <3>3. QED
      BY <3>1, <3>2
  <2>2. QED
    BY <2>1
<1>7. QED
  BY <1>5, <1>6 DEF HubOpen

\* A list of GitHub's is about pull requests that were opened.
LEMMA ListHeard ==
  ASSUME TypeOK, NEW L \in ListAnswers, NEW i \in {InfoOf(p, hub) : p \in L}
  PROVE  Opened(i.pr)
<1>1. PICK p \in L : i = InfoOf(p, hub)
  OBVIOUS
<1>2. p \in HubOpen
  BY ListedOpen
<1>3. i.pr = p
  BY <1>1, <1>2, InfoTyped DEF TypeOK, HubOpen
<1>4. QED
  BY <1>2, <1>3 DEF HubOpen, Opened

\* A step that does no more than RowStep, PollStep and MailStep say keeps the invariant.
LEMMA QuietKeeps ==
  ASSUME OpenInv, TypeOK', UNCHANGED <<hub, site>>, MailStep,
         \A p \in Pr : RowStep(p), \A q \in Poller : PollStep(q)
  PROVE  OpenInv'
<1>1. \A p \in Pr : row'[p].known => Opened(p)
  BY DEF OpenInv, HeardOpened, RowStep, Opened
<1>2. \A i \in mail' : Opened(i.pr)
  BY DEF OpenInv, HeardOpened, MailStep
<1>3. hook' # None => Opened(hook'.pr)
  BY DEF OpenInv, HeardOpened, MailStep
<1>4. ASSUME NEW q \in Poller
      PROVE  /\ \A p \in poll'[q].prev : Opened(p)
             /\ \A i \in poll'[q].todo : Opened(i.pr)
  <2>1. CASE poll'[q] = poll[q]
    BY <2>1 DEF OpenInv, HeardOpened
  <2>2. CASE poll'[q] = IdlePoll
    BY <2>2 DEF IdlePoll
  <2>3. CASE poll'[q].pc = "asked" /\ poll'[q].prev = KnownOpen /\ poll'[q].todo = {}
    BY <2>3 DEF OpenInv, HeardOpened, KnownOpen
  <2>4. CASE poll'[q].prev = poll[q].prev /\ poll'[q].todo \subseteq poll[q].todo
    BY <2>4 DEF OpenInv, HeardOpened
  <2>5. CASE /\ poll'[q].prev = poll[q].prev
             /\ \E L \in ListAnswers : poll'[q].todo = {InfoOf(p, hub) : p \in L}
    BY <2>5, ListHeard DEF OpenInv, HeardOpened
  <2>6. QED
    BY <2>1, <2>2, <2>3, <2>4, <2>5 DEF PollStep
<1>5. HeardOpened'
  BY <1>1, <1>2, <1>3, <1>4 DEF HeardOpened, Opened
<1>6. ASSUME NEW q \in Poller, poll'[q].pc = "apply", NEW p \in Missing(q)'
      PROVE  hub[p].state # "open"
  <2>1. /\ Cardinality(poll'[q].listed) < site.limit
        /\ p \in poll'[q].prev
        /\ p \notin {i.pr : i \in poll'[q].listed}
    BY <1>6 DEF Missing
  <2>2. CASE poll'[q] = poll[q]
    BY <1>6, <2>1, <2>2 DEF OpenInv, MissingIsClosed, Missing
  <2>3. CASE poll'[q] = IdlePoll
    BY <1>6, <2>3 DEF IdlePoll
  <2>4. CASE poll'[q].pc = "asked"
    BY <1>6, <2>4
  <2>5. CASE /\ poll'[q].prev = poll[q].prev
             /\ poll'[q].pc = poll[q].pc /\ poll'[q].listed = poll[q].listed
    BY <1>6, <2>1, <2>5 DEF OpenInv, MissingIsClosed, Missing
  <2>6. CASE \E L \in ListAnswers : poll'[q].listed = {InfoOf(p2, hub) : p2 \in L}
    <3>1. PICK L \in ListAnswers : poll'[q].listed = {InfoOf(p2, hub) : p2 \in L}
      BY <2>6
    <3>2. p \in Pr
      <4>1. poll'[q] \in PollRow
        BY DEF TypeOK
      <4>2. QED
        BY <2>1, <4>1 DEF PollRow
    <3>3. QED
      BY <2>1, <3>1, <3>2, AnswerMisses DEF OpenInv
  <2>7. QED
    BY <2>2, <2>3, <2>4, <2>5, <2>6 DEF PollStep
<1>7. MissingIsClosed'
  BY <1>6 DEF MissingIsClosed
<1>8. ASSUME NEW p \in Pr, hub[p].state = "open", row'[p].known
      PROVE  row'[p].state = "open"
  BY <1>8 DEF OpenInv, NeverClosedIsOpen, RowStep
<1>9. NeverClosedIsOpen'
  BY <1>8 DEF NeverClosedIsOpen
<1>10. QED
  BY <1>5, <1>7, <1>9 DEF OpenInv

\* GitHub's own steps: what was closed at some time stays so.
LEMMA HubKeeps ==
  ASSUME OpenInv, TypeOK', NEW p \in Pr, HubMoves(p)
  PROVE  OpenInv'
<1>1. PICK change : /\ HubStep(p, change)
                    /\ hub' = [hub EXCEPT ![p] = change]
                    /\ mail' = mail \cup {InfoOf(p, hub')} \/ UNCHANGED mail
  BY HubSteps DEF OpenInv
<1>2. UNCHANGED <<row, hook, poll, site>>
  BY DEF HubMoves, HubTells, tables, actors
<1>3. hub \in [Pr -> HubRow] /\ hub' \in [Pr -> HubRow]
  BY DEF OpenInv, TypeOK
<1>4. \A p2 \in Pr : Opened(p2) => Opened(p2)'
  BY <1>1, <1>3 DEF Opened, HubStep
<1>5. \A p2 \in Pr : Opened(p2) /\ hub'[p2].state = "open" => hub[p2].state = "open"
  BY <1>1, <1>3 DEF Opened, HubStep
<1>6. Opened(p)'
  BY <1>1, <1>3 DEF Opened, HubStep
<1>7. InfoOf(p, hub').pr = p
  BY <1>3, InfoTyped
<1>8. /\ \A i \in mail : i.pr \in Pr
      /\ hook # None => hook.pr \in Pr
      /\ \A q \in Poller : /\ poll[q].prev \subseteq Pr
                           /\ \A i \in poll[q].todo : i.pr \in Pr
  <2>1. \A i \in Info : i.pr \in Pr
    BY DEF Info
  <2>2. \A q \in Poller : poll[q].prev \subseteq Pr /\ poll[q].todo \subseteq Info
    BY PollTyped DEF OpenInv
  <2>3. QED
    BY <2>1, <2>2 DEF OpenInv, TypeOK
<1>9. HeardOpened'
  <2>1. \A i \in mail' : Opened(i.pr)'
    BY <1>1, <1>4, <1>6, <1>7, <1>8 DEF OpenInv, HeardOpened
  <2>2. hook # None => hub'[hook.pr].state # "never"
    BY <1>4, <1>8 DEF OpenInv, HeardOpened, Opened
  <2>3. \A q \in Poller : /\ \A p2 \in poll[q].prev : Opened(p2)'
                          /\ \A i \in poll[q].todo : Opened(i.pr)'
    BY <1>4, <1>8 DEF OpenInv, HeardOpened
  <2>4. \A p2 \in Pr : row[p2].known => Opened(p2)'
    BY <1>4 DEF OpenInv, HeardOpened
  <2>5. QED
    BY <1>2, <2>1, <2>2, <2>3, <2>4 DEF HeardOpened, Opened
<1>10. MissingIsClosed'
  <2>1. ASSUME NEW q \in Poller, poll[q].pc = "apply", NEW p2 \in Missing(q)
        PROVE  hub'[p2].state # "open"
    <3>1. p2 \in poll[q].prev
      BY DEF Missing
    <3>2. p2 \in Pr /\ Opened(p2)
      BY <1>8, <3>1 DEF OpenInv, HeardOpened
    <3>3. hub[p2].state # "open"
      BY <2>1 DEF OpenInv, MissingIsClosed
    <3>4. QED
      BY <1>5, <3>2, <3>3
  <2>2. \A q \in Poller : Missing(q)' = Missing(q)
    BY <1>2 DEF Missing
  <2>3. QED
    BY <1>2, <2>1, <2>2 DEF MissingIsClosed
<1>11. NeverClosedIsOpen'
  BY <1>2, <1>5 DEF OpenInv, HeardOpened, NeverClosedIsOpen
<1>12. QED
  BY <1>9, <1>10, <1>11 DEF OpenInv

\* Steps that leave rows or states, polls and deliveries alone.
LEMMA RowAlone ==
  ASSUME NEW p \in Pr, row'[p].known => row[p].known, row'[p].state = row[p].state
  PROVE  RowStep(p)
  BY DEF RowStep

\* Reports that were heard open rows of opened pull requests.
LEMMA AppliedSteps ==
  ASSUME TypeOK, NEW I \in SUBSET Info, \A i \in I : Opened(i.pr), NEW p \in Pr
  PROVE  \/ Applied(I)[p] = row[p]
         \/ Opened(p) /\ Applied(I)[p].state = "open"
  BY AppliedTyped DEF TypeOK

\* The steps of a poll or a sync.
LEMMA PollKeeps ==
  ASSUME OpenInv, TypeOK', NEW q \in Poller,
         \/ PollBegin(q) \/ PollList(q) \/ SyncCommits(q)
         \/ PollFinish(q) \/ PollFails(q)
  PROVE  OpenInv'
<1>1. poll \in [Poller -> PollRow] /\ poll' \in [Poller -> PollRow]
  BY DEF OpenInv, TypeOK
<1>2. UNCHANGED <<hub, site>> /\ MailStep
  BY DEF PollBegin, PollList, SyncCommits, PollFinish, PollFails, MailStep
<1>3. \A q2 \in Poller \ {q} : poll'[q2] = poll[q2]
  BY <1>1 DEF PollBegin, PollList, SyncCommits, PollFinish, PollFails
<1>4. poll[q].todo \in SUBSET Info /\ \A i \in poll[q].todo : Opened(i.pr)
  BY PollTyped DEF OpenInv, HeardOpened
<1>5. PollStep(q)
  <2>1. CASE PollBegin(q)
    <3>1. poll'[q] = [IdlePoll EXCEPT !.pc = "asked", !.auto = repo.auto, !.prev = KnownOpen]
      BY <1>1, <2>1 DEF PollBegin
    <3>2. QED
      BY <3>1 DEF IdlePoll, PollStep
  <2>2. CASE PollList(q)
    <3>1. PICK L \in ListAnswers :
            poll' = [poll EXCEPT ![q].pc = "apply",
                                 ![q].listed = {InfoOf(p, hub) : p \in L},
                                 ![q].todo = {InfoOf(p, hub) : p \in L}]
      BY <2>2 DEF PollList
    <3> DEFINE infos == {InfoOf(p, hub) : p \in L}
    <3>2. poll' = [poll EXCEPT ![q] = [poll[q] EXCEPT !.pc = "apply", !.listed = infos,
                                                      !.todo = infos]]
      BY <3>1
    <3> HIDE DEF infos
    <3>3. /\ poll'[q].prev = poll[q].prev
          /\ poll'[q].listed = infos /\ poll'[q].todo = infos
      <4>1. poll[q] \in PollRow
        BY <1>1
      <4>2. poll'[q] = [poll[q] EXCEPT !.pc = "apply", !.listed = infos, !.todo = infos]
        BY <1>1, <3>2
      <4>3. QED
        BY <4>1, <4>2 DEF PollRow
    <3>4. QED
      BY <3>3 DEF infos, PollStep
  <2>3. CASE SyncCommits(q)
    <3>1. PICK S \in SUBSET poll[q].todo : poll' = [poll EXCEPT ![q].todo = @ \ S]
      BY <2>3 DEF SyncCommits
    <3>2. poll'[q] = [poll[q] EXCEPT !.todo = poll[q].todo \ S] /\ poll[q] \in PollRow
      BY <1>1, <3>1
    <3>3. QED
      BY <3>2 DEF PollRow, PollStep
  <2>4. CASE PollFinish(q) \/ PollFails(q)
    BY <1>1, <2>4 DEF PollFinish, PollFails, PollStep
  <2>5. QED
    BY <2>1, <2>2, <2>3, <2>4
<1>6. ASSUME NEW p \in Pr PROVE RowStep(p)
  <2>1. CASE UNCHANGED row
    BY <2>1, RowAlone
  <2>2. CASE SyncCommits(q)
    <3>1. PICK S \in SUBSET poll[q].todo : row' = Applied(S)
      BY <2>2 DEF SyncCommits
    <3>2. row'[p] = row[p] \/ (Opened(p) /\ row'[p].state = "open")
      BY <1>4, <3>1, AppliedSteps DEF OpenInv
    <3>3. QED
      BY <3>2 DEF RowStep
  <2>3. CASE PollFinish(q)
    <3> DEFINE rows == Applied(poll[q].todo)
    <3>1. rows \in [Pr -> PrRow]
      BY <1>4, AppliedTyped DEF OpenInv, TypeOK
    <3>2. rows[p] = row[p] \/ (Opened(p) /\ rows[p].state = "open")
      BY <1>4, AppliedSteps DEF OpenInv
    <3>3. row' = MarkClosed(rows, Missing(q)) /\ poll[q].pc = "apply"
      BY <2>3 DEF PollFinish
    <3> HIDE DEF rows
    <3>4. \/ row'[p] = rows[p]
          \/ p \in Missing(q)
      BY <3>1, <3>3, MarkClosedTyped
    <3>5. CASE row'[p] = rows[p]
      BY <3>2, <3>5 DEF RowStep
    <3>6. CASE p \in Missing(q)
      <4>1. hub[p].state # "open"
        BY <3>3, <3>6 DEF OpenInv, MissingIsClosed
      <4>2. p \in poll[q].prev
        BY <3>6 DEF Missing
      <4>3. QED
        BY <4>1, <4>2 DEF OpenInv, HeardOpened, RowStep
    <3>7. QED
      BY <3>4, <3>5, <3>6
  <2>4. QED
    BY <2>1, <2>2, <2>3 DEF PollBegin, PollList, PollFails, tables
<1>7. \A q2 \in Poller : PollStep(q2)
  BY <1>3, <1>5 DEF PollStep
<1>8. QED
  BY <1>2, <1>6, <1>7, QuietKeeps

\* The steps of the other actors.
LEMMA OthersKeep ==
  ASSUME OpenInv, TypeOK',
         \/ DaysPass \/ HookEnqueue \/ HookLost
         \/ \E e, a \in BOOLEAN : SetRepo(e, a)
         \/ \E m \in mail, again \in BOOLEAN : HookUpsert(m, again)
         \/ \E j \in Job : Work(j)
         \/ KeeperSelect \/ KeeperDelete \/ KeeperUnlink \/ KeeperCrash
         \/ \E c \in BOOLEAN : DiagnosticSweep(c)
         \/ RemoveCheck \/ RemoveRepo
  PROVE  OpenInv'
<1>1. UNCHANGED <<hub, site, poll>>
  BY DEF DaysPass, HookEnqueue, HookLost, SetRepo, HookUpsert, Work, KeeperSelect,
         KeeperDelete, KeeperUnlink, KeeperCrash, DiagnosticSweep, RemoveCheck,
         RemoveRepo, actors
<1>2. MailStep
  <2>1. CASE \E m \in mail, again \in BOOLEAN : HookUpsert(m, again)
    BY <2>1 DEF HookUpsert, MailStep
  <2>2. CASE HookLost
    BY <2>2 DEF HookLost, MailStep
  <2>3. CASE HookEnqueue
    BY <2>3 DEF HookEnqueue, MailStep
  <2>4. CASE UNCHANGED <<mail, hook>>
    BY <2>4 DEF MailStep
  <2>5. QED
    BY <2>1, <2>2, <2>3, <2>4
       DEF DaysPass, SetRepo, Work, KeeperSelect, KeeperDelete, KeeperUnlink,
           KeeperCrash, DiagnosticSweep, RemoveCheck, RemoveRepo, actors
<1>3. ASSUME NEW p \in Pr PROVE RowStep(p)
  <2>1. row \in [Pr -> PrRow]
    BY DEF OpenInv, TypeOK
  <2>2. row[p] \in PrRow
    BY <2>1
  <2>3. CASE UNCHANGED row
    BY <2>3, RowAlone
  <2>4. CASE DaysPass
    <3>1. row'[p] = [row[p] EXCEPT !.stale = row[p].known]
      BY <2>4 DEF DaysPass
    <3>2. QED
      BY <2>2, <3>1, RowAlone DEF PrRow
  <2>5. CASE \E m \in mail, again \in BOOLEAN : HookUpsert(m, again)
    <3>1. PICK m \in mail : row' = Applied({m}) \/ UNCHANGED row
      BY <2>5 DEF HookUpsert
    <3>2. {m} \in SUBSET Info /\ Opened(m.pr)
      BY DEF OpenInv, TypeOK, HeardOpened
    <3>3. \/ Applied({m})[p] = row[p]
          \/ Opened(p) /\ Applied({m})[p].state = "open"
      BY <3>2, AppliedSteps DEF OpenInv
    <3>4. QED
      BY <2>3, <3>1, <3>3 DEF RowStep
  <2>6. CASE \E j \in Job : Work(j)
    <3>1. PICK j \in Job : Work(j)
      BY <2>6
    <3>2. UNCHANGED row \/ row' = [row EXCEPT ![j[1]] = [row[j[1]] EXCEPT !.reviewed = j[2]]]
      BY <3>1 DEF Work
    <3>3. row'[p] = row[p] \/ row'[p] = [row[p] EXCEPT !.reviewed = j[2]]
      BY <2>1, <3>2
    <3>4. QED
      BY <2>2, <3>3, RowAlone DEF PrRow
  <2>7. CASE KeeperDelete \/ RemoveRepo
    <3>1. PICK prs : Forget(prs)
      BY <2>7 DEF KeeperDelete, RemoveRepo
    <3>2. row'[p] = NoRow \/ row'[p] = row[p]
      BY <3>1 DEF Forget
    <3>3. QED
      BY <3>2, NoRowTyped DEF RowStep
  <2>8. QED
    BY <2>3, <2>4, <2>5, <2>6, <2>7
       DEF HookEnqueue, HookLost, SetRepo, KeeperSelect, KeeperUnlink, KeeperCrash,
           DiagnosticSweep, RemoveCheck, tables
<1>4. QED
  BY <1>1, <1>2, <1>3, QuietKeeps DEF PollStep

\* Initially every row is of an open pull request, and open.
LEMMA InitOpen == Init => OpenInv
<1> SUFFICES ASSUME Init PROVE OpenInv
  OBVIOUS
<1>1. PICK known \in SUBSET site.prs, s \in Sha :
        /\ hub = [p \in Pr |-> [state |-> IF p \in known THEN "open" ELSE "never",
                                head |-> s, draft |-> FALSE]]
        /\ row = [p \in Pr |->
                    IF p \in known
                    THEN [NoRow EXCEPT !.known = TRUE, !.state = "open",
                                       !.head = s, !.reviewed = s]
                    ELSE NoRow]
  BY DEF Init
<1>2. \A p \in Pr : row[p].known => Opened(p)
  BY <1>1, NoRowTyped DEF Opened
<1>3. HeardOpened
  BY <1>2 DEF Init, HeardOpened, IdlePoll
<1>4. MissingIsClosed
  BY DEF Init, MissingIsClosed, IdlePoll
<1>5. NeverClosedIsOpen
  <2>1. ASSUME NEW p \in Pr, row[p].known PROVE row[p].state = "open"
    <3>1. p \in known
      BY <1>1, <2>1, NoRowTyped
    <3>2. QED
      BY <1>1, <3>1 DEF NoRow
  <2>2. QED
    BY <2>1 DEF NeverClosedIsOpen
<1>6. QED
  BY <1>3, <1>4, <1>5, InitTyped DEF OpenInv

\* A pull request that GitHub never closed is never shown closed: whatever polls,
\* syncs and deliveries are under way, with lists as old or as short as they may be,
\* a row is reconciled away only after its pull request was closed.
THEOREM TrackingNeverClosedIsOpen == Spec => []NeverClosedIsOpen
<1>1. Init => OpenInv
  BY InitOpen
<1>2. OpenInv /\ [Next]_vars => OpenInv'
  <2> SUFFICES ASSUME OpenInv, [Next]_vars PROVE OpenInv'
    OBVIOUS
  <2>1. TypeOK'
    BY NextTyped DEF OpenInv
  <2>2. CASE UNCHANGED vars
    <3>1. MailStep /\ UNCHANGED <<hub, site>> /\ \A q \in Poller : PollStep(q)
      BY <2>2 DEF vars, MailStep, PollStep
    <3>2. \A p \in Pr : RowStep(p)
      BY <2>2, RowAlone DEF vars, tables
    <3>3. QED
      BY <2>1, <3>1, <3>2, QuietKeeps
  <2>3. CASE Next
    BY <2>1, <2>3, HubKeeps, PollKeeps, OthersKeep DEF Next
  <2>4. QED
    BY <2>2, <2>3
<1>3. OpenInv => NeverClosedIsOpen
  BY DEF OpenInv
<1>4. QED
  BY <1>1, <1>2, <1>3, PTL DEF Spec

---------------------------------------------------------------------------
(* What retention deletes                                                  *)

\* A report keeps what is known.
LEMMA AppliedKnown ==
  ASSUME TypeOK, NEW I \in SUBSET Info, NEW p \in Pr, row[p].known
  PROVE  Applied(I)[p].known
  BY AppliedTyped DEF TypeOK

\* While the repository is registered, only retention's transaction takes a row away.
LEMMA OnlyKeeperForgets ==
  ASSUME TypeOK, Next, repo'.registered, NEW p \in Pr, row[p].known, ~row'[p].known
  PROVE  KeeperDelete
<1>1. row \in [Pr -> PrRow] /\ row[p] \in PrRow
  BY DEF TypeOK
<1>2. row' # row
  OBVIOUS
<1>3. ASSUME NEW q \in Poller,
             \/ PollBegin(q) \/ PollList(q) \/ SyncCommits(q)
             \/ PollFinish(q) \/ PollFails(q)
      PROVE  FALSE
  <2>1. CASE SyncCommits(q)
    <3>1. PICK S \in SUBSET poll[q].todo : row' = Applied(S)
      BY <2>1 DEF SyncCommits
    <3>2. S \in SUBSET Info
      BY PollTyped
    <3>3. QED
      BY <3>1, <3>2, AppliedKnown
  <2>2. CASE PollFinish(q)
    <3>1. row' = MarkClosed(Applied(poll[q].todo), Missing(q))
      BY <2>2 DEF PollFinish
    <3>2. Applied(poll[q].todo) \in [Pr -> PrRow] /\ Applied(poll[q].todo)[p].known
      BY PollTyped, AppliedTyped, AppliedKnown DEF TypeOK
    <3>3. QED
      BY <3>1, <3>2, MarkClosedTyped
  <2>3. QED
    BY <1>2, <1>3, <2>1, <2>2 DEF PollBegin, PollList, PollFails, tables
<1>4. ASSUME NEW m \in mail, NEW again \in BOOLEAN, HookUpsert(m, again)
      PROVE  FALSE
  <2>1. row' = Applied({m})
    BY <1>2, <1>4 DEF HookUpsert
  <2>2. {m} \in SUBSET Info
    BY DEF TypeOK
  <2>3. QED
    BY <2>1, <2>2, AppliedKnown
<1>5. ASSUME NEW j \in Job, Work(j)
      PROVE  FALSE
  <2>1. row' = [row EXCEPT ![j[1]] = [row[j[1]] EXCEPT !.reviewed = j[2]]]
    BY <1>2, <1>5 DEF Work
  <2>2. row'[p] = row[p] \/ row'[p] = [row[p] EXCEPT !.reviewed = j[2]]
    BY <1>1, <2>1
  <2>3. QED
    BY <1>1, <2>2 DEF PrRow
<1>6. ASSUME DaysPass
      PROVE  FALSE
  <2>1. row'[p] = [row[p] EXCEPT !.stale = row[p].known]
    BY <1>6 DEF DaysPass
  <2>2. QED
    BY <1>1, <2>1 DEF PrRow
<1>7. ASSUME RemoveRepo
      PROVE  FALSE
  BY <1>7 DEF RemoveRepo
<1>8. ~ \E p2 \in Pr : HubMoves(p2)
  BY <1>2 DEF HubMoves, tables
<1>9. ~ \E e, a \in BOOLEAN : SetRepo(e, a)
  BY <1>2 DEF SetRepo
<1>10. ~ \E c \in BOOLEAN : DiagnosticSweep(c)
  BY <1>2 DEF DiagnosticSweep
<1>11. ~(\/ HookEnqueue \/ HookLost \/ KeeperSelect \/ KeeperUnlink \/ KeeperCrash
         \/ RemoveCheck)
  BY <1>2 DEF HookEnqueue, HookLost, KeeperSelect, KeeperUnlink, KeeperCrash,
              RemoveCheck, tables
<1>12. QED
  BY <1>3, <1>4, <1>5, <1>6, <1>7, <1>8, <1>9, <1>10, <1>11 DEF Next

\* Retention deletes the history of a pull request only if at that moment it is
\* closed, nothing is queued or running for it and it has not changed lately: the
\* candidates are looked at again in the transaction that deletes them.
THEOREM TrackingDeletesOnlyIdle == Spec => DeletesOnlyIdle
<1> DEFINE Gone == repo'.registered =>
                     \A p \in Pr : row[p].known /\ ~row'[p].known =>
                       row[p].state = "closed" /\ row[p].stale /\ Idle(p)
<1>1. TypeOK /\ [Next]_vars => [Gone]_vars
  <2> SUFFICES ASSUME TypeOK, Next, repo'.registered,
                      NEW p \in Pr, row[p].known, ~row'[p].known
               PROVE  row[p].state = "closed" /\ row[p].stale /\ Idle(p)
    OBVIOUS
  <2>1. KeeperDelete
    BY OnlyKeeperForgets
  <2>2. StillExpired(p)
    BY <2>1 DEF KeeperDelete, Forget
  <2>3. row[p] \in PrRow
    BY DEF TypeOK
  <2>4. row[p].state \in {"open", "closed"}
    BY <2>3 DEF PrRow
  <2>5. QED
    BY <2>2, <2>4 DEF StillExpired, Expired
<1>2. QED
  BY <1>1, TrackingTypes, PTL DEF Spec, DeletesOnlyIdle
=============================================================================
