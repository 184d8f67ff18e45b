--------------------------- MODULE PostOperation ---------------------------
(***************************************************************************)
(* Posting the approved findings of a pull request to GitHub: a POST on a  *)
(* run builds one comment per vendor, reserves its new findings under an   *)
(* operation row, creates, updates or adopts the review on GitHub, records *)
(* it and finalizes.  Between any two steps the server may die, GitHub may *)
(* fail with or without having done what it was asked, a person may change *)
(* a finding, the head may move and a newer run may appear.                *)
(*                                                                         *)
(* All rows belong to one pull request.  A process handles requests in     *)
(* threads but one POST per run at a time, so poster <<p, r>> is the one   *)
(* request of process p that may be posting run r.                         *)
(***************************************************************************)
EXTENDS Integers, Sequences, FiniteSetsExt

CONSTANTS
  Proc,        \* server processes sharing the database
  Finding,     \* findings of the pull request
  RunOf,       \* finding.run_id
  VendorOf,    \* finding.vendor
  Text,        \* texts a finding may have
  Claim,       \* the one its vendor reported
  None,        \* SQL NULL
  Sha,         \* commits the pull request may have as its head
  LastRun,     \* bound: review runs of the pull request
  MayUpdate,   \* the posting policy lets an existing review be updated
  MayCreate,   \* it lets a review be created
  Fallback,    \* it lets one be created when the one to update is gone
  MaxOps,      \* bound: operation rows
  MaxReviews,  \* bound: reviews created on GitHub
  MaxMoves     \* bound: decisions, pushes, deletions, errors and crashes

Run    == 1..LastRun
Vendor == {VendorOf[f] : f \in Finding}
Poster == Proc \X Run
OpId   == 1..MaxOps
NoOp   == 0
NoRow  == 0
NoReview == 0

\* What a comment shows: findings with their texts.
Body == SUBSET (Finding \X Text)

ASSUME PostAssumption ==
  /\ RunOf \in [Finding -> Run]
  /\ DOMAIN VendorOf = Finding
  /\ Claim \in Text
  /\ LastRun \in Nat \ {0}
  /\ MaxOps \in Nat
  /\ MaxReviews \in Nat
  /\ MaxMoves \in Nat
  /\ {MayUpdate, MayCreate, Fallback} \subseteq BOOLEAN

VARIABLES
  finding,  \* finding rows: status, text, posting_operation_id
  op,       \* github_post_operation rows
  ops,      \* operation ids handed out
  posted,   \* posted_comment rows, oldest first
  review,   \* reviews of the server on GitHub, oldest first
  run,      \* head_sha of the review_run rows, oldest first
  head,     \* head of the pull request, here and on GitHub
  poster,   \* local variables of _post_run_locked
  moves     \* bounded environment steps taken

dbVars == <<finding, op, ops, posted>>
prVars == <<run, head>>
vars == <<finding, op, ops, posted, review, run, head, poster, moves>>

---------------------------------------------------------------------------
(* Types and initial state                                                *)

Postable  == {"approved", "edited"}
Displayed == Postable \cup {"posted"}
Open      == {"pending", "applying", "remote_applied"}

FindingRow ==
  [status : {"pending", "approved", "edited", "dismissed", "posted"},
   text : Text, op : 0..MaxOps]

\* run, vendor and body make the operation key, and the marker in the review;
\* aged: the row was locked twenty minutes ago.
OpRow ==
  [status : {"none", "succeeded"} \cup Open, run : Run \cup {None},
   vendor : Vendor \cup {None}, body : Body, new : SUBSET Finding,
   owner : Poster \cup {None}, aged : BOOLEAN, review : 0..MaxReviews]

PosterPc ==
  {"idle", "check", "prev", "prepare", "claim", "find", "update", "create",
   "mark", "finalize"}

\* shown and new: what _comments_to_post read of the findings; todo: vendors
\* whose comment is still to be posted; prev: the posted_comment to replace.
PosterRow ==
  [pc : PosterPc, shown : Body, new : SUBSET Finding, todo : SUBSET Vendor,
   vendor : Vendor \cup {None}, prev : Nat, op : 0..MaxOps,
   review : 0..MaxReviews]

\* run, vendor and body make the marker the text ends with; born: the identity
\* of the operation the review was created for.
ReviewRow ==
  [state : {"shown", "deleted"}, run : Run, vendor : Vendor, body : Body,
   born : [run : Run, vendor : Vendor, body : Body]]

PostedRow ==
  [op : OpId, vendor : Vendor, review : 1..MaxReviews, current : BOOLEAN]

NoOpRow ==
  [status |-> "none", run |-> None, vendor |-> None, body |-> {}, new |-> {},
   owner |-> None, aged |-> FALSE, review |-> NoReview]

IdlePoster ==
  [pc |-> "idle", shown |-> {}, new |-> {}, todo |-> {}, vendor |-> None,
   prev |-> NoRow, op |-> NoOp, review |-> NoReview]

TypeOK ==
  /\ finding \in [Finding -> FindingRow]
  /\ op \in [OpId -> OpRow]
  /\ ops \in 0..MaxOps
  /\ posted \in Seq(PostedRow)
  /\ review \in Seq(ReviewRow) /\ Len(review) <= MaxReviews
  /\ run \in Seq(Sha) /\ Len(run) \in Run
  /\ head \in Sha
  /\ poster \in [Poster -> PosterRow]
  /\ moves \in 0..MaxMoves

Init ==
  /\ finding = [f \in Finding |->
                  [status |-> "pending", text |-> Claim, op |-> NoOp]]
  /\ op = [o \in OpId |-> NoOpRow]
  /\ ops = 0
  /\ posted = <<>>
  /\ review = <<>>
  /\ head \in Sha
  /\ run = <<head>>
  /\ poster = [p \in Poster |-> IdlePoster]
  /\ moves = 0

---------------------------------------------------------------------------
(* Queries                                                                *)

Move == moves < MaxMoves /\ moves' = moves + 1

\* _is_latest_run, and the run's head against the pull request's.
FreshRun(r) == r = Len(run) /\ run[r] = head

Decided(r, statuses) ==
  {f \in Finding : RunOf[f] = r /\ finding[f].status \in statuses}

\* Mutant of ToShow: a comment lists only what is new.
ToShowNew(r) == {<<f, finding[f].text>> : f \in Decided(r, Postable)}

\* What _comments_to_post shows, and what it would mark as posted.
ToShow(r) == {<<f, finding[f].text>> : f \in Decided(r, Displayed)}
ToPost(r) == Decided(r, Postable)

\* latest_for_pr_vendor: the newest row that no later one superseded.
CurrentRow(v) ==
  LET rows == {k \in DOMAIN posted : posted[k].vendor = v /\ posted[k].current}
  IN  IF rows = {} THEN NoRow ELSE Max(rows)

\* The comment a poster is about to write.
CommentBody(p) ==
  {x \in poster[p].shown : VendorOf[x[1]] = poster[p].vendor}
CommentNew(p)  == {f \in poster[p].new : VendorOf[f] = poster[p].vendor}

Identity(p) == [run |-> p[2], vendor |-> poster[p].vendor,
                body |-> CommentBody(p)]
IdentityOf(row) == [run |-> row.run, vendor |-> row.vendor, body |-> row.body]

\* Operation rows with the key of the poster's comment: at most one.
Existing(p) ==
  {o \in OpId : op[o].status # "none" /\ IdentityOf(op[o]) = Identity(p)}

\* Mutant of Marked: the reviews are not searched.
MarkerNotSought(p) == {}

\* Reviews on GitHub whose text ends with the marker.
Marked(p) ==
  {i \in DOMAIN review :
     review[i].state = "shown" /\ IdentityOf(review[i]) = Identity(p)}

Owned(p) ==
  op[poster[p].op].status = "applying" /\ op[poster[p].op].owner = p

---------------------------------------------------------------------------
(* People, the head and newer runs                                        *)

\* A decision on a finding that no operation has reserved.
PatchFinding(f) ==
  /\ finding[f].op = NoOp
  /\ FreshRun(RunOf[f])
  /\ Move
  /\ \E status \in {"approved", "dismissed", "edited"}, text \in Text :
       /\ status # "edited" => text = finding[f].text
       /\ finding' = [finding EXCEPT ![f].status = status, ![f].text = text]
  /\ UNCHANGED <<op, ops, posted, review, prVars, poster>>

MoveHead ==
  /\ Move
  /\ head' \in Sha \ {head}
  /\ UNCHANGED <<dbVars, review, run, poster>>

\* A newer run of the head, whose findings are pending.
NewRun ==
  /\ Len(run) < LastRun
  /\ run' = Append(run, head)
  /\ UNCHANGED <<dbVars, review, head, poster, moves>>

RemoveReview(i) ==
  /\ review[i].state = "shown"
  /\ Move
  /\ review' = [review EXCEPT ![i].state = "deleted"]
  /\ UNCHANGED <<dbVars, prVars, poster>>

---------------------------------------------------------------------------
(* One POST                                                               *)

GoTo(p, pc) == poster' = [poster EXCEPT ![p].pc = pc]
Leave(p)    == poster' = [poster EXCEPT ![p] = IdlePoster]

\* The comments are built once; everything after works from that copy.
BuildComments(p) ==
  /\ poster[p].pc = "idle"
  /\ FreshRun(p[2])
  /\ ToPost(p[2]) # {}
  /\ poster' = [poster EXCEPT ![p] =
                  [IdlePoster EXCEPT
                     !.pc = "check", !.shown = ToShow(p[2]),
                     !.new = ToPost(p[2]),
                     !.todo = {VendorOf[f] : f \in ToPost(p[2])}]]
  /\ UNCHANGED <<dbVars, review, prVars, moves>>

\* _assert_post_fresh, before each comment: first the rows ...
CheckRun(p) ==
  /\ poster[p].pc = "check"
  /\ IF FreshRun(p[2]) THEN GoTo(p, "prev") ELSE Leave(p)
  /\ UNCHANGED <<dbVars, review, prVars, moves>>

\* ... then the head GitHub reports, before the review to replace is looked up.
CheckHead(p) ==
  /\ poster[p].pc = "prev"
  /\ \/ run[p[2]] # head /\ Leave(p)
     \/ /\ run[p[2]] = head
        /\ \E v \in poster[p].todo :
             LET prev == CurrentRow(v) IN
             IF IF prev = NoRow THEN MayCreate ELSE MayUpdate
             THEN poster' = [poster EXCEPT ![p].pc = "prepare",
                                           ![p].vendor = v, ![p].prev = prev]
             ELSE Leave(p)
  /\ UNCHANGED <<dbVars, review, prVars, moves>>

\* Mutant of Reservable: a finding another operation holds is taken over.
ReservableTaken(p) == \A f \in CommentNew(p) : finding[f].status \in Postable

\* The findings of the comment are still approved and nobody's.
Reservable(p) ==
  \A f \in CommentNew(p) :
    finding[f].status \in Postable /\ finding[f].op = NoOp

\* One transaction: the operation row and the reservation of its findings.
Prepare(p) ==
  /\ poster[p].pc = "prepare"
  /\ \/ \E o \in Existing(p) :
          /\ poster' = IF op[o].status = "remote_applied"
                       THEN [poster EXCEPT ![p].pc = "finalize", ![p].op = o,
                                           ![p].review = op[o].review]
                       ELSE [poster EXCEPT ![p].pc = "claim", ![p].op = o]
          /\ UNCHANGED <<finding, op, ops>>
     \/ /\ Existing(p) = {}
        /\ ~Reservable(p)
        /\ Leave(p)
        /\ UNCHANGED <<finding, op, ops>>
     \/ /\ Existing(p) = {}
        /\ Reservable(p)
        /\ ops < MaxOps
        /\ ops' = ops + 1
        /\ op' = [op EXCEPT ![ops + 1] =
                    [NoOpRow EXCEPT
                       !.status = "pending", !.run = p[2],
                       !.vendor = poster[p].vendor, !.body = CommentBody(p),
                       !.new = CommentNew(p)]]
        /\ finding' = [f \in Finding |->
                         IF f \in CommentNew(p)
                         THEN [finding[f] EXCEPT !.op = ops + 1]
                         ELSE finding[f]]
        /\ poster' = [poster EXCEPT ![p].pc = "claim", ![p].op = ops + 1]
  /\ UNCHANGED <<posted, review, prVars, moves>>

\* Mutant of Claimable: an abandoned operation is never taken up again.
ClaimPending(o) == op[o].status = "pending"

\* An operation nobody works on, or whose lock is twenty minutes old.
Claimable(o) ==
  \/ op[o].status = "pending"
  \/ op[o].status = "applying" /\ op[o].aged

ClaimOp(p) ==
  /\ poster[p].pc = "claim"
  /\ IF Claimable(poster[p].op)
     THEN /\ op' = [op EXCEPT ![poster[p].op].status = "applying",
                              ![poster[p].op].owner = p,
                              ![poster[p].op].aged = FALSE]
          /\ GoTo(p, "find")
     ELSE Leave(p) /\ UNCHANGED op
  /\ UNCHANGED <<finding, ops, posted, review, prVars, moves>>

\* A poster that died, or gave up on an error, stopped twenty minutes ago.
LockAges(o) ==
  /\ op[o].status = "applying"
  /\ ~op[o].aged
  /\ \A p \in Poster :
       ~(poster[p].op = o /\ poster[p].pc \in {"find", "update", "create", "mark"})
  /\ op' = [op EXCEPT ![o].aged = TRUE]
  /\ UNCHANGED <<finding, ops, posted, review, prVars, poster, moves>>

\* A review that already carries the marker is adopted, not written again.
FindRemote(p) ==
  /\ poster[p].pc = "find"
  /\ \/ /\ Marked(p) # {}
        /\ poster' = [poster EXCEPT ![p].pc = "mark",
                                    ![p].review = Max(Marked(p))]
     \/ /\ Marked(p) = {}
        /\ GoTo(p, IF poster[p].prev = NoRow THEN "create" ELSE "update")
  /\ UNCHANGED <<dbVars, review, prVars, moves>>

\* Mutant of Answered: an answer without a review id is accepted.
AnswerWithoutId(p, i) ==
  poster' = [poster EXCEPT ![p].pc = "mark", ![p].review = None] /\ UNCHANGED moves

\* GitHub's answer arrives, or is lost although the request was carried out.
Answered(p, i) ==
  \/ poster' = [poster EXCEPT ![p].pc = "mark", ![p].review = i] /\ UNCHANGED moves
  \/ Leave(p) /\ Move

\* Mutant of AbortUnapplied: the row goes, the reservations stay.
AbortKeepsReservations(p) ==
  /\ op' = IF Owned(p) /\ op[poster[p].op].review = NoReview
           THEN [op EXCEPT ![poster[p].op] = NoOpRow] ELSE op
  /\ UNCHANGED finding

AbortUnapplied(p) ==
  LET o == poster[p].op IN
  IF Owned(p) /\ op[o].review = NoReview
  THEN /\ finding' = [f \in Finding |->
                        IF finding[f].op = o
                        THEN [finding[f] EXCEPT !.op = NoOp]
                        ELSE finding[f]]
       /\ op' = [op EXCEPT ![o] = NoOpRow]
  ELSE UNCHANGED <<finding, op>>

\* The body of the previous review is replaced; it may be gone.
UpdateReview(p) ==
  /\ poster[p].pc = "update"
  /\ LET i == posted[poster[p].prev].review IN
     \/ /\ review[i].state = "shown"
        /\ review' = [review EXCEPT ![i].run = p[2],
                                    ![i].body = CommentBody(p)]
        /\ Answered(p, i)
        /\ UNCHANGED <<finding, op>>
     \/ /\ review[i].state = "deleted"
        /\ IF Fallback /\ MayCreate
           THEN GoTo(p, "create") /\ UNCHANGED <<finding, op>>
           ELSE Leave(p) /\ AbortUnapplied(p)
        /\ UNCHANGED <<review, moves>>
  /\ UNCHANGED <<ops, posted, prVars>>

CreateReview(p) ==
  /\ poster[p].pc = "create"
  /\ Len(review) < MaxReviews
  /\ review' = Append(review, [state |-> "shown", run |-> p[2],
                               vendor |-> poster[p].vendor,
                               body |-> CommentBody(p), born |-> Identity(p)])
  /\ Answered(p, Len(review) + 1)
  /\ UNCHANGED <<dbVars, prVars>>

MarkRemote(p) ==
  /\ poster[p].pc = "mark"
  /\ IF Owned(p)
     THEN /\ op' = [op EXCEPT ![poster[p].op].status = "remote_applied",
                              ![poster[p].op].review = poster[p].review,
                              ![poster[p].op].owner = None]
          /\ GoTo(p, "finalize")
     ELSE Leave(p) /\ UNCHANGED op
  /\ UNCHANGED <<finding, ops, posted, review, prVars, moves>>

\* Mutant of StillReserved: a finding nobody holds is taken for one's own.
ReservedOrFree(o) == \A f \in op[o].new : finding[f].op \in {o, NoOp}

\* The findings the operation reserved are still reserved by it.
StillReserved(o) ==
  \A f \in op[o].new : finding[f].op = o /\ finding[f].status \in Postable

\* One transaction: the posted_comment row, the findings and the operation.
Finalize(p) ==
  /\ poster[p].pc = "finalize"
  /\ LET o == poster[p].op
         prev == poster[p].prev
         rest == poster[p].todo \ {poster[p].vendor}
         kept == [k \in DOMAIN posted |->
                    IF k = prev THEN [posted[k] EXCEPT !.current = FALSE]
                    ELSE posted[k]]
     IN  IF StillReserved(o)
         THEN /\ posted' = Append(kept, [op |-> o, vendor |-> poster[p].vendor,
                                         review |-> poster[p].review,
                                         current |-> TRUE])
              /\ finding' = [f \in Finding |->
                               IF f \in op[o].new
                               THEN [finding[f] EXCEPT !.status = "posted",
                                                       !.op = NoOp]
                               ELSE finding[f]]
              /\ op' = [op EXCEPT ![o].status = "succeeded", ![o].owner = None]
              /\ poster' = [poster EXCEPT ![p] =
                              IF rest = {} THEN IdlePoster
                              ELSE [@ EXCEPT !.pc = "check", !.todo = rest,
                                             !.vendor = None, !.prev = NoRow,
                                             !.op = NoOp, !.review = NoReview]]
         ELSE Leave(p) /\ UNCHANGED <<finding, op, posted>>
  /\ UNCHANGED <<ops, review, prVars, moves>>

\* The process dies, or an error ends the request; nothing is undone.
Stop(p) ==
  /\ poster[p].pc # "idle"
  /\ Move
  /\ Leave(p)
  /\ UNCHANGED <<dbVars, review, prVars>>

PostStep(p) ==
  \/ CheckRun(p) \/ CheckHead(p) \/ Prepare(p) \/ ClaimOp(p) \/ FindRemote(p)
  \/ UpdateReview(p) \/ CreateReview(p) \/ MarkRemote(p) \/ Finalize(p)

Next ==
  \/ \E f \in Finding : PatchFinding(f)
  \/ MoveHead
  \/ NewRun
  \/ \E i \in DOMAIN review : RemoveReview(i)
  \/ \E o \in OpId : LockAges(o)
  \/ \E p \in Poster : BuildComments(p) \/ PostStep(p) \/ Stop(p)

Spec == Init /\ [][Next]_vars

\* Whoever approved a finding retries until it is posted; a request that
\* started goes on until it ends or dies; time passes.
FairSpec ==
  /\ Spec
  /\ \A p \in Poster : WF_vars(BuildComments(p)) /\ WF_vars(PostStep(p))
  /\ \A o \in OpId : WF_vars(LockAges(o))

---------------------------------------------------------------------------
(* Safety                                                                 *)

\* Reservations and open operations agree: a finding is reserved only by an
\* operation still open, and an open operation still has all of its findings,
\* approved; so finalize never finds a reservation lost, and no finding stays
\* locked against decisions by an operation that has ended.
ReservationsAgree ==
  /\ \A f \in Finding : finding[f].op # NoOp =>
       /\ op[finding[f].op].status \in Open
       /\ f \in op[finding[f].op].new
  /\ \A o \in OpId : op[o].status \in Open => StillReserved(o)

\* A lost answer, a crash or a second process never makes GitHub show two
\* reviews created for the same operation: the marker is looked for first.
CreatedOnce ==
  \A i, k \in DOMAIN review :
    /\ i # k
    /\ review[i].state = "shown" /\ review[k].state = "shown"
    => review[i].born # review[k].born

\* An operation is recorded once, and exactly when it has succeeded, with the
\* review it wrote, however many posters found it applied.
RecordedOnce ==
  /\ \A k, m \in DOMAIN posted : k # m => posted[k].op # posted[m].op
  /\ \A o \in OpId :
       op[o].status = "succeeded" <=>
         \E k \in DOMAIN posted :
           posted[k].op = o /\ posted[k].review = op[o].review

\* Re-posting a run keeps what was posted before: while no newer run took the
\* review over, every posted finding is in some review, be it one that somebody
\* deleted since.
PostedStaysShown ==
  \A f \in Finding :
    finding[f].status = "posted" /\ RunOf[f] = Len(run) =>
      \E i \in DOMAIN review, t \in Text : <<f, t>> \in review[i].body

---------------------------------------------------------------------------
(* Liveness                                                               *)

\* A POST of the operation's run would build the operation's comment again, and
\* no comment of another vendor: the first refusal ends the whole POST.
Repostable(o) ==
  /\ FreshRun(op[o].run)
  /\ op[o].body = {x \in ToShow(op[o].run) : VendorOf[x[1]] = op[o].vendor}
  /\ \A f \in ToPost(op[o].run) : VendorOf[f] = op[o].vendor

\* Whatever errors, lost answers, crashes and deletions hit it, an operation
\* ends by retrying the POST, unless its content goes out of date.
RetryCompletes ==
  \A o \in OpId :
    op[o].status \in Open /\ Repostable(o) ~>
      op[o].status \notin Open \/ ~Repostable(o)

---------------------------------------------------------------------------
(* Statements of the code and its comments that the code does not keep     *)

\* "finding changed while preparing post": what becomes posted is the text the
\* finding has, not one it had when the comment was built.
PostedTextApproved ==
  [][\A f \in Finding :
       finding[f].status # "posted" /\ finding'[f].status = "posted" =>
         <<f, finding[f].text>> \in op[finding[f].op].body]_vars

\* "even if it died after create or update succeeded and before the database
\* recorded it, the remote review is found by its marker and adopted".
OnGitHub(o) ==
  /\ op[o].status = "applying"
  /\ FreshRun(op[o].run)
  /\ \E i \in DOMAIN review :
       review[i].state = "shown" /\ IdentityOf(review[i]) = IdentityOf(op[o])

RemoteReviewAdopted == \A o \in OpId : OnGitHub(o) ~> ~OnGitHub(o)
=============================================================================
