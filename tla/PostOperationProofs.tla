------------------------ MODULE PostOperationProofs ------------------------
(***************************************************************************)
(* Proofs about PostOperation: rows and posters keep their types,          *)
(* reservations agree with open operations, and a comment is created once  *)
(* and recorded once, for every set of processes, findings, texts, vendors *)
(* and commits, any errors and crashes, and all bounds; and, where one     *)
(* process posts one run, what was posted stays in the reviews.            *)
(***************************************************************************)
EXTENDS PostOperation, SequenceTheorems, WellFoundedInduction, TLAPS

\* What the provers need of the assumption on the constants.
LEMMA Bounds ==
  MaxOps \in Nat /\ MaxReviews \in Nat /\ MaxMoves \in Nat /\ LastRun \in Nat \ {0}
  BY PostAssumption

\* A set of numbers up to n has its maximum in it.
LEMMA MaxInSet ==
  ASSUME NEW n \in Nat, NEW S \in SUBSET (0..n), S # {}
  PROVE  Max(S) \in S /\ \A y \in S : Max(S) >= y
<1> DEFINE T == {n - i : i \in S}
           R == OpToRel(<, Nat)
<1>1. \A i \in S : i \in Int /\ 0 <= i /\ i <= n /\ n - i \in Nat
  OBVIOUS
<1>2. T \subseteq Nat /\ T # {}
  BY <1>1
<1>3. PICK m \in T : \A t \in T : ~(<<t, m>> \in R)
  BY <1>2, NatLessThanWellFounded, WFMin
<1>4. R = {ss \in Nat \X Nat : ss[1] < ss[2]}
  BY Zenon DEF OpToRel
<1>5. \A t \in T : m <= t
  <2> SUFFICES ASSUME NEW t \in T, t < m PROVE FALSE
    <3> HIDE DEF T
    <3> QED
      BY <1>2
  <2>1. <<t, m>> \in Nat \X Nat
    BY <1>2
  <2> HIDE DEF R, T
  <2>2. QED
    BY <2>1, <1>3, <1>4
<1>6. PICK i \in S : m = n - i
  OBVIOUS
<1>7. \A y \in S : i >= y
  <2> SUFFICES ASSUME NEW y \in S PROVE i >= y
    OBVIOUS
  <2>1. n - y \in T
    OBVIOUS
  <2> HIDE DEF T
  <2>2. QED
    BY <1>1, <1>5, <1>6, <2>1
<1>8. QED
  BY <1>7 DEF Max

\* Writing a sequence at any place keeps the type of its elements and its length.
LEMMA SeqWrite ==
  ASSUME NEW S, NEW s \in Seq(S), NEW i,
         NEW e, i \in 1..Len(s) => e \in S
  PROVE  [s EXCEPT ![i] = e] \in Seq(S) /\ Len([s EXCEPT ![i] = e]) = Len(s)
<1>1. CASE i \in 1..Len(s)
  BY <1>1, ExceptSeq
<1>2. CASE i \notin 1..Len(s)
  <2>1. DOMAIN s = 1..Len(s) /\ s = [k \in 1..Len(s) |-> s[k]]
    BY LenProperties
  <2>2. [s EXCEPT ![i] = e] = s
    BY <1>2, <2>1
  <2>3. QED
    BY <2>2
<1>3. QED
  BY <1>1, <1>2

---------------------------------------------------------------------------
(* Type correctness                                                       *)

Chosen  == {"prepare", "claim", "find", "update", "create", "mark", "finalize"}
WithOp  == Chosen \ {"prepare"}
Settled == {"mark", "finalize"}

\* A poster's local variables, when n posted_comment rows exist.
PosterOK(r, n) ==
  /\ r \in PosterRow
  /\ r.prev <= n
  /\ r.pc \in Chosen => r.vendor \in Vendor
  /\ r.pc \in WithOp => r.op \in OpId
  /\ r.pc \in Settled => r.review # NoReview
  /\ r.pc = "update" => r.prev # NoRow

PosterTyped ==
  /\ poster \in [Poster -> PosterRow]
  /\ \A p \in Poster : PosterOK(poster[p], Len(posted))

\* Rows not yet handed out are not open; a review is known once it is applied.
OpOK(o) ==
  /\ o > ops => op[o].status \notin Open
  /\ op[o].status = "remote_applied" => op[o].review # NoReview

OpTyped ==
  /\ op \in [OpId -> OpRow]
  /\ ops \in 0..MaxOps
  /\ \A o \in OpId : OpOK(o)

PullTyped ==
  /\ run \in Seq(Sha) /\ Len(run) \in Run
  /\ head \in Sha

FindingTyped == finding \in [Finding -> FindingRow]
PostedTyped  == posted \in Seq(PostedRow)
ReviewTyped  == review \in Seq(ReviewRow) /\ Len(review) <= MaxReviews
MovesTyped   == moves \in 0..MaxMoves

TypeInv ==
  /\ FindingTyped /\ OpTyped /\ PostedTyped /\ ReviewTyped
  /\ PullTyped /\ PosterTyped /\ MovesTyped

\* Fields of the rows that the proofs read.
LEMMA RowFields ==
  /\ \A r \in PosterRow : r.shown \in Body /\ r.new \in SUBSET Finding
                          /\ r.prev \in Nat /\ r.review \in 0..MaxReviews
  /\ \A r \in PostedRow : r.review \in 1..MaxReviews
  /\ \A r \in OpRow : r.review \in 0..MaxReviews
  BY DEF PosterRow, PostedRow, OpRow

\* A bounded environment step is counted.
LEMMA MoveTyped ==
  ASSUME MovesTyped, Move
  PROVE  MovesTyped'
  BY Bounds DEF MovesTyped, Move

\* A poster gets new local variables.
LEMMA PosterSet ==
  ASSUME PosterTyped, NEW p \in Poster, NEW r, PosterOK(r, Len(posted)),
         poster' = [poster EXCEPT ![p] = r], UNCHANGED posted
  PROVE  PosterTyped'
<1>1. poster' \in [Poster -> PosterRow]
  BY DEF PosterTyped, PosterOK
<1>2. \A q \in Poster : PosterOK(poster'[q], Len(posted))
  BY DEF PosterTyped
<1>3. QED
  BY <1>1, <1>2 DEF PosterTyped

\* A request that has ended.
LEMMA IdleOK == ASSUME NEW n \in Nat PROVE PosterOK(IdlePoster, n)
<1>1. IdlePoster \in PosterRow
  BY Bounds DEF IdlePoster, PosterRow, PosterPc, Body, NoRow, NoOp, NoReview
<1>2. QED
  BY <1>1 DEF PosterOK, IdlePoster, NoRow, Chosen, WithOp, Settled

\* Ending a request.
LEMMA LeaveTyped ==
  ASSUME PosterTyped, PostedTyped, NEW p \in Poster, Leave(p), UNCHANGED posted
  PROVE  PosterTyped'
<1>1. Len(posted) \in Nat
  BY LenProperties DEF PostedTyped
<1>2. QED
  BY <1>1, IdleOK, PosterSet DEF Leave

\* Going on to a step whose local variables are there already.
LEMMA GoToTyped ==
  ASSUME PosterTyped, NEW p \in Poster, NEW pc \in PosterPc, GoTo(p, pc),
         UNCHANGED posted,
         pc \in Chosen => poster[p].vendor \in Vendor,
         pc \in WithOp => poster[p].op \in OpId,
         pc \in Settled => poster[p].review # NoReview,
         pc = "update" => poster[p].prev # NoRow
  PROVE  PosterTyped'
<1> DEFINE r == [poster[p] EXCEPT !.pc = pc]
<1>1. poster' = [poster EXCEPT ![p] = r]
  BY DEF GoTo
<1>2. poster[p] \in PosterRow /\ poster[p].prev <= Len(posted)
  BY DEF PosterTyped, PosterOK
<1>3. r \in PosterRow
  BY <1>2 DEF PosterRow
<1>4. r.pc = pc /\ r.vendor = poster[p].vendor /\ r.op = poster[p].op
      /\ r.review = poster[p].review /\ r.prev = poster[p].prev
  BY <1>2 DEF PosterRow
<1>5. PosterOK(r, Len(posted))
  <2> HIDE DEF r
  <2>1. QED
    BY <1>2, <1>3, <1>4 DEF PosterOK
<1>6. QED
  BY <1>1, <1>5, PosterSet

\* The comment of a poster is made of findings and texts.
LEMMA CommentTyped ==
  ASSUME PosterTyped, NEW p \in Poster
  PROVE  CommentBody(p) \in Body /\ CommentNew(p) \in SUBSET Finding
<1>1. poster[p].shown \in Body /\ poster[p].new \in SUBSET Finding
  BY RowFields DEF PosterTyped
<1>2. QED
  BY <1>1 DEF CommentBody, CommentNew, Body

\* The initial rows.
LEMMA TypeInit == Init => TypeInv
<1> SUFFICES ASSUME Init PROVE TypeInv
  OBVIOUS
<1>1. FindingTyped
  BY PostAssumption DEF Init, FindingTyped, FindingRow, NoOp
<1>2. NoOpRow \in OpRow
  BY Bounds DEF NoOpRow, OpRow, Body, NoReview
<1>3. OpTyped
  BY <1>2, Bounds DEF Init, OpTyped, OpOK, NoOpRow, Open
<1>4. posted = <<>> /\ review = <<>>
  BY DEF Init
<1>5. PostedTyped /\ ReviewTyped /\ Len(posted) = 0
  BY <1>4, Bounds DEF PostedTyped, ReviewTyped
<1>6. head \in Sha /\ run = <<head>>
  BY DEF Init
<1>7. PullTyped
  BY <1>6, Bounds DEF PullTyped, Run
<1>8. PosterOK(IdlePoster, Len(posted))
  BY <1>5, IdleOK
<1>9. PosterTyped
  BY <1>8 DEF Init, PosterTyped, PosterOK
<1>10. MovesTyped
  BY Bounds DEF Init, MovesTyped
<1>11. QED
  BY <1>1, <1>3, <1>5, <1>7, <1>9, <1>10 DEF TypeInv

\* A decision changes one finding.
LEMMA PatchTyped ==
  ASSUME TypeInv, NEW f \in Finding, PatchFinding(f)
  PROVE  TypeInv'
<1>1. PICK status \in {"approved", "dismissed", "edited"}, text \in Text :
        finding' = [finding EXCEPT ![f].status = status, ![f].text = text]
  BY DEF PatchFinding
<1>2. finding[f] \in FindingRow
  BY DEF TypeInv, FindingTyped
<1>3. [finding[f] EXCEPT !.status = status, !.text = text] \in FindingRow
  BY <1>2 DEF FindingRow
<1>4. finding' = [finding EXCEPT ![f] =
                    [finding[f] EXCEPT !.status = status, !.text = text]]
  BY <1>1
<1>5. FindingTyped'
  BY <1>3, <1>4 DEF TypeInv, FindingTyped
<1>6. MovesTyped'
  BY MoveTyped DEF TypeInv, PatchFinding
<1>7. QED
  BY <1>5, <1>6 DEF PatchFinding, TypeInv, OpTyped, OpOK, PostedTyped,
     ReviewTyped, PullTyped, PosterTyped, prVars

\* The head moves.
LEMMA MoveHeadTyped ==
  ASSUME TypeInv, MoveHead
  PROVE  TypeInv'
<1>1. MovesTyped'
  BY MoveTyped DEF TypeInv, MoveHead
<1>2. PullTyped'
  BY DEF TypeInv, MoveHead, PullTyped
<1>3. QED
  BY <1>1, <1>2 DEF MoveHead, TypeInv, FindingTyped, OpTyped, OpOK,
     PostedTyped, ReviewTyped, PosterTyped, dbVars

\* A newer run appears.
LEMMA NewRunTyped ==
  ASSUME TypeInv, NewRun
  PROVE  TypeInv'
<1>1. run' = Append(run, head) /\ Len(run) < LastRun /\ run \in Seq(Sha)
      /\ head \in Sha /\ Len(run) \in Nat
  BY Bounds DEF NewRun, TypeInv, PullTyped, Run
<1>2. run' \in Seq(Sha) /\ Len(run') = Len(run) + 1
  BY <1>1
<1>3. PullTyped'
  BY <1>1, <1>2, Bounds DEF PullTyped, Run, NewRun
<1>4. QED
  BY <1>3 DEF NewRun, TypeInv, FindingTyped, OpTyped, OpOK, PostedTyped,
     ReviewTyped, PosterTyped, MovesTyped, dbVars

\* Fields of a review on GitHub are rewritten.
LEMMA ReviewWrite ==
  ASSUME ReviewTyped, NEW i, NEW r, i \in 1..Len(review) => r \in ReviewRow,
         review' = [review EXCEPT ![i] = r]
  PROVE  ReviewTyped'
<1>1. review' \in Seq(ReviewRow) /\ Len(review') = Len(review)
  BY SeqWrite DEF ReviewTyped
<1>2. QED
  BY <1>1 DEF ReviewTyped

\* Somebody deletes a review.
LEMMA RemoveTyped ==
  ASSUME TypeInv, NEW i \in DOMAIN review, RemoveReview(i)
  PROVE  TypeInv'
<1>1. review' = [review EXCEPT ![i] = [review[i] EXCEPT !.state = "deleted"]]
  BY DEF RemoveReview
<1>2. i \in 1..Len(review) => [review[i] EXCEPT !.state = "deleted"] \in ReviewRow
  <2> SUFFICES ASSUME i \in 1..Len(review)
               PROVE  [review[i] EXCEPT !.state = "deleted"] \in ReviewRow
    OBVIOUS
  <2>1. review[i] \in ReviewRow
    BY ElementOfSeq DEF TypeInv, ReviewTyped
  <2>2. QED
    BY <2>1 DEF ReviewRow
<1>3. ReviewTyped'
  BY <1>1, <1>2, ReviewWrite DEF TypeInv
<1>4. MovesTyped'
  BY MoveTyped DEF TypeInv, RemoveReview
<1>5. QED
  BY <1>3, <1>4 DEF RemoveReview, TypeInv, FindingTyped, OpTyped, OpOK,
     PostedTyped, PullTyped, PosterTyped, dbVars, prVars

\* An operation row is rewritten.
LEMMA OpSet ==
  ASSUME OpTyped, NEW o \in OpId, NEW r \in OpRow,
         o > ops => r.status \notin Open,
         r.status = "remote_applied" => r.review # NoReview,
         op' = [op EXCEPT ![o] = r], UNCHANGED ops
  PROVE  OpTyped'
<1>1. op' \in [OpId -> OpRow]
  BY DEF OpTyped
<1>2. \A q \in OpId : OpOK(q)'
  BY DEF OpTyped, OpOK
<1>3. QED
  BY <1>1, <1>2 DEF OpTyped

\* The posted_comment to replace exists.
LEMMA CurrentRowTyped ==
  ASSUME PostedTyped, NEW v
  PROVE  CurrentRow(v) \in Nat /\ CurrentRow(v) <= Len(posted)
<1> DEFINE rows == {k \in DOMAIN posted : posted[k].vendor = v /\ posted[k].current}
<1>1. Len(posted) \in Nat /\ DOMAIN posted = 1..Len(posted)
  BY LenProperties DEF PostedTyped
<1>2. CASE rows = {}
  BY <1>1, <1>2 DEF CurrentRow, NoRow
<1>3. CASE rows # {}
  <2>1. rows \in SUBSET (0..Len(posted))
    BY <1>1
  <2>2. Max(rows) \in rows
    BY <1>1, <1>3, <2>1, MaxInSet
  <2>3. CurrentRow(v) = Max(rows)
    BY <1>3 DEF CurrentRow
  <2>4. QED
    BY <1>1, <2>2, <2>3
<1>4. QED
  BY <1>2, <1>3

\* A request that goes on or ends without touching a row.
QuietStep == UNCHANGED <<dbVars, review, prVars, moves>>

\* A quiet step keeps everything but the posters.
LEMMA QuietTyped ==
  ASSUME TypeInv, QuietStep, PosterTyped'
  PROVE  TypeInv'
  BY DEF QuietStep, TypeInv, FindingTyped, OpTyped, OpOK, PostedTyped,
     ReviewTyped, PullTyped, MovesTyped, dbVars, prVars

\* A request begins.
LEMMA BuildTyped ==
  ASSUME TypeInv, NEW p \in Poster, BuildComments(p)
  PROVE  TypeInv'
<1> DEFINE new == ToPost(p[2])
           r == [IdlePoster EXCEPT !.pc = "check", !.shown = ToShow(p[2]),
                                   !.new = new, !.todo = {VendorOf[f] : f \in new}]
<1>1. poster' = [poster EXCEPT ![p] = r] /\ QuietStep /\ UNCHANGED posted
  BY DEF BuildComments, QuietStep, dbVars
<1>2. new \in SUBSET Finding /\ {VendorOf[f] : f \in new} \in SUBSET Vendor
  BY DEF ToPost, Decided, Vendor
<1>3. ToShow(p[2]) \in Body
  <2>1. \A f \in Finding : finding[f].text \in Text
    BY DEF TypeInv, FindingTyped, FindingRow
  <2>2. QED
    BY <2>1 DEF ToShow, Body, Decided
<1>4. IdlePoster \in PosterRow
  BY IdleOK DEF PosterOK
<1>5. "check" \in PosterPc
  BY DEF PosterPc
<1>6. r \in PosterRow
  <2> HIDE DEF new
  <2>1. QED
    BY <1>2, <1>3, <1>4, <1>5 DEF PosterRow
<1>7. r.pc = "check" /\ r.prev = NoRow
  BY DEF IdlePoster
<1>8. Len(posted) \in Nat
  BY LenProperties DEF TypeInv, PostedTyped
<1>9. PosterOK(r, Len(posted))
  <2> HIDE DEF r
  <2>1. QED
    BY <1>6, <1>7, <1>8 DEF PosterOK, Chosen, WithOp, Settled, NoRow
<1>10. QED
  BY <1>1, <1>9, PosterSet, QuietTyped DEF TypeInv

\* The rows are looked at again.
LEMMA CheckRunTyped ==
  ASSUME TypeInv, NEW p \in Poster, CheckRun(p)
  PROVE  TypeInv'
<1>1. QuietStep /\ UNCHANGED posted
  BY DEF CheckRun, QuietStep, dbVars
<1>2. "prev" \in PosterPc /\ "prev" \notin Chosen /\ "prev" \notin WithOp
      /\ "prev" \notin Settled
  BY DEF PosterPc, Chosen, WithOp, Settled
<1>3. GoTo(p, "prev") \/ Leave(p)
  BY DEF CheckRun
<1>4. PosterTyped'
  BY <1>1, <1>2, <1>3, GoToTyped, LeaveTyped DEF TypeInv
<1>5. QED
  BY <1>1, <1>4, QuietTyped

\* The head is looked at, and a vendor's comment is chosen.
LEMMA CheckHeadTyped ==
  ASSUME TypeInv, NEW p \in Poster, CheckHead(p)
  PROVE  TypeInv'
<1>1. QuietStep /\ UNCHANGED posted
  BY DEF CheckHead, QuietStep, dbVars
<1>2. CASE Leave(p)
  BY <1>1, <1>2, LeaveTyped, QuietTyped DEF TypeInv
<1>3. ASSUME NEW v \in poster[p].todo,
             poster' = [poster EXCEPT ![p].pc = "prepare", ![p].vendor = v,
                                      ![p].prev = CurrentRow(v)]
      PROVE  TypeInv'
  <2> DEFINE prev == CurrentRow(v)
             r == [poster[p] EXCEPT !.pc = "prepare", !.vendor = v, !.prev = prev]
  <2>1. poster' = [poster EXCEPT ![p] = r]
    BY <1>3
  <2>2. poster[p] \in PosterRow
    BY DEF TypeInv, PosterTyped
  <2>3. prev \in Nat /\ prev <= Len(posted)
    BY CurrentRowTyped DEF TypeInv
  <2>4. v \in Vendor /\ "prepare" \in PosterPc
    BY <2>2 DEF PosterRow, PosterPc
  <2> HIDE DEF prev
  <2>5. r \in PosterRow /\ r.pc = "prepare" /\ r.vendor = v /\ r.prev = prev
    BY <2>2, <2>3, <2>4 DEF PosterRow
  <2>6. PosterOK(r, Len(posted))
    <3> HIDE DEF r
    <3>1. QED
      BY <2>3, <2>4, <2>5 DEF PosterOK, Chosen, WithOp, Settled
  <2>7. QED
    BY <1>1, <2>1, <2>6, PosterSet, QuietTyped DEF TypeInv
<1>4. QED
  BY <1>2, <1>3 DEF CheckHead

\* A request stops.
LEMMA StopTyped ==
  ASSUME TypeInv, NEW p \in Poster, Stop(p)
  PROVE  TypeInv'
<1>1. UNCHANGED posted
  BY DEF Stop, dbVars
<1>2. PosterTyped'
  BY <1>1, LeaveTyped DEF TypeInv, Stop
<1>3. MovesTyped'
  BY MoveTyped DEF TypeInv, Stop
<1>4. QED
  BY <1>2, <1>3 DEF Stop, TypeInv, FindingTyped, OpTyped, OpOK, PostedTyped,
     ReviewTyped, PullTyped, dbVars, prVars

\* A poster takes up operation o, whose review may be known.
LEMMA TakeUp ==
  ASSUME PosterTyped, NEW p \in Poster, poster[p].pc = "prepare",
         NEW o \in OpId, NEW pc \in {"claim", "finalize"},
         NEW i \in 0..MaxReviews, pc = "finalize" => i # NoReview,
         poster' = [poster EXCEPT ![p] =
                      [poster[p] EXCEPT !.pc = pc, !.op = o, !.review = i]],
         UNCHANGED posted
  PROVE  PosterTyped'
<1> DEFINE r == [poster[p] EXCEPT !.pc = pc, !.op = o, !.review = i]
<1>1. PosterOK(poster[p], Len(posted))
  BY DEF PosterTyped
<1>2. poster[p] \in PosterRow /\ poster[p].vendor \in Vendor
      /\ poster[p].prev <= Len(posted)
  BY <1>1 DEF PosterOK, Chosen
<1>3. pc \in PosterPc /\ o \in 0..MaxOps
  BY Bounds DEF PosterPc, OpId
<1>4. r \in PosterRow /\ r.pc = pc /\ r.op = o /\ r.review = i
      /\ r.vendor = poster[p].vendor /\ r.prev = poster[p].prev
  BY <1>2, <1>3 DEF PosterRow
<1>5. PosterOK(r, Len(posted))
  <2> HIDE DEF r
  <2>1. QED
    BY <1>2, <1>4 DEF PosterOK, Settled
<1>6. QED
  BY <1>5, PosterSet

\* The operation row exists, is refused, or is written with its reservations.
LEMMA PrepareTyped ==
  ASSUME TypeInv, NEW p \in Poster, Prepare(p)
  PROVE  TypeInv'
<1>1. UNCHANGED <<posted, review, prVars, moves>> /\ poster[p].pc = "prepare"
  BY DEF Prepare
<1>2. poster[p] \in PosterRow /\ poster[p].vendor \in Vendor
      /\ poster[p].review \in 0..MaxReviews
  BY RowFields DEF TypeInv, PosterTyped, PosterOK, Chosen, Prepare
<1>3. ASSUME NEW o \in Existing(p), UNCHANGED <<finding, op, ops>>,
             poster' = IF op[o].status = "remote_applied"
                       THEN [poster EXCEPT ![p].pc = "finalize", ![p].op = o,
                                           ![p].review = op[o].review]
                       ELSE [poster EXCEPT ![p].pc = "claim", ![p].op = o]
      PROVE  TypeInv'
  <2>1. o \in OpId /\ op[o] \in OpRow /\ op[o].review \in 0..MaxReviews
    BY RowFields DEF Existing, TypeInv, OpTyped
  <2>2. op[o].status = "remote_applied" => op[o].review # NoReview
    BY <2>1 DEF TypeInv, OpTyped, OpOK
  <2>3. CASE op[o].status = "remote_applied"
    <3>1. poster' = [poster EXCEPT ![p] = [poster[p] EXCEPT
                       !.pc = "finalize", !.op = o, !.review = op[o].review]]
      BY <1>3, <2>3
    <3>2. PosterTyped'
      BY <1>1, <2>1, <2>2, <2>3, <3>1, TakeUp DEF TypeInv
    <3>3. QED
      BY <1>1, <1>3, <3>2, QuietTyped DEF QuietStep, dbVars
  <2>4. CASE op[o].status # "remote_applied"
    <3>1. [poster[p] EXCEPT !.pc = "claim", !.op = o]
          = [poster[p] EXCEPT !.pc = "claim", !.op = o, !.review = poster[p].review]
      BY <1>2 DEF PosterRow
    <3>2. poster' = [poster EXCEPT ![p] = [poster[p] EXCEPT
                       !.pc = "claim", !.op = o, !.review = poster[p].review]]
      BY <1>3, <2>4, <3>1
    <3>3. PosterTyped'
      BY <1>1, <1>2, <2>1, <3>2, TakeUp DEF TypeInv
    <3>4. QED
      BY <1>1, <1>3, <3>3, QuietTyped DEF QuietStep, dbVars
  <2>5. QED
    BY <2>3, <2>4
<1>4. ASSUME Leave(p), UNCHANGED <<finding, op, ops>>
      PROVE  TypeInv'
  <2>1. PosterTyped'
    BY <1>1, <1>4, LeaveTyped DEF TypeInv
  <2>2. QED
    BY <1>1, <1>4, <2>1, QuietTyped DEF QuietStep, dbVars
<1> DEFINE o == ops + 1
           row == [NoOpRow EXCEPT
                     !.status = "pending", !.run = p[2],
                     !.vendor = poster[p].vendor, !.body = CommentBody(p),
                     !.new = CommentNew(p)]
<1>5. ASSUME ops < MaxOps, ops' = o, op' = [op EXCEPT ![o] = row],
             finding' = [f \in Finding |->
                           IF f \in CommentNew(p)
                           THEN [finding[f] EXCEPT !.op = o] ELSE finding[f]],
             poster' = [poster EXCEPT ![p].pc = "claim", ![p].op = o]
      PROVE  TypeInv'
  <2>1. o \in OpId /\ o \in 0..MaxOps /\ ops \in 0..MaxOps /\ o = ops + 1
    BY <1>5, Bounds DEF TypeInv, OpTyped, OpId
  <2>2. NoOpRow \in OpRow
    BY Bounds DEF NoOpRow, OpRow, Body, NoReview
  <2>3. p[2] \in Run /\ CommentBody(p) \in Body /\ CommentNew(p) \in SUBSET Finding
    BY CommentTyped DEF TypeInv, Poster
  <2>4. row \in OpRow /\ row.status = "pending"
    BY <1>2, <2>2, <2>3 DEF OpRow, Open
  <2> HIDE DEF o, row
  <2>5. op' \in [OpId -> OpRow]
    BY <1>5, <2>1, <2>4 DEF TypeInv, OpTyped
  <2>6. \A q \in OpId : OpOK(q)'
    BY <1>5, <2>1, <2>4, Bounds DEF TypeInv, OpTyped, OpOK, OpId
  <2>7. OpTyped'
    BY <1>5, <2>1, <2>5, <2>6 DEF OpTyped
  <2>8. FindingTyped'
    BY <1>5, <2>1 DEF TypeInv, FindingTyped, FindingRow
  <2>9. [poster[p] EXCEPT !.pc = "claim", !.op = o]
        = [poster[p] EXCEPT !.pc = "claim", !.op = o, !.review = poster[p].review]
    BY <1>2 DEF PosterRow
  <2>10. poster' = [poster EXCEPT ![p] = [poster[p] EXCEPT
                      !.pc = "claim", !.op = o, !.review = poster[p].review]]
    BY <1>5, <2>9
  <2>11. PosterTyped'
    BY <1>1, <1>2, <2>1, <2>10, TakeUp DEF TypeInv
  <2>12. QED
    BY <1>1, <2>7, <2>8, <2>11 DEF TypeInv, PostedTyped, ReviewTyped,
       PullTyped, MovesTyped, prVars
<1>6. QED
  BY <1>3, <1>4, <1>5 DEF Prepare

\* An operation is taken into hands.
LEMMA ClaimTyped ==
  ASSUME TypeInv, NEW p \in Poster, ClaimOp(p)
  PROVE  TypeInv'
<1> DEFINE o == poster[p].op
           row == [op[o] EXCEPT !.status = "applying", !.owner = p, !.aged = FALSE]
<1>1. poster[p].pc = "claim" /\ UNCHANGED <<finding, ops, posted, review, prVars, moves>>
  BY DEF ClaimOp
<1>2. o \in OpId /\ poster[p].vendor \in Vendor
  BY <1>1 DEF TypeInv, PosterTyped, PosterOK, Chosen, WithOp
<1>3. op[o] \in OpRow
  BY <1>2 DEF TypeInv, OpTyped
<1>4. row \in OpRow /\ row.status = "applying"
  BY <1>3 DEF OpRow, Open
<1>5. CASE Claimable(o)
  <2>1. op' = [op EXCEPT ![o] = row] /\ GoTo(p, "find")
    BY <1>5 DEF ClaimOp
  <2>2. ~(o > ops)
    BY <1>2, <1>5 DEF Claimable, TypeInv, OpTyped, OpOK, Open
  <2>3. OpTyped'
    <3> HIDE DEF o, row
    <3>1. QED
      BY <1>1, <1>2, <1>4, <2>1, <2>2, OpSet DEF TypeInv
  <2>4. "find" \in PosterPc /\ "find" \notin Settled
    BY DEF PosterPc, Settled
  <2>5. PosterTyped'
    BY <1>1, <1>2, <2>1, <2>4, GoToTyped DEF TypeInv
  <2>6. QED
    BY <1>1, <2>3, <2>5 DEF TypeInv, FindingTyped, PostedTyped, ReviewTyped,
       PullTyped, MovesTyped, prVars
<1>6. CASE ~Claimable(o)
  <2>1. Leave(p) /\ UNCHANGED op
    BY <1>6 DEF ClaimOp
  <2>2. PosterTyped'
    BY <1>1, <2>1, LeaveTyped DEF TypeInv
  <2>3. QED
    BY <1>1, <2>1, <2>2, QuietTyped DEF QuietStep, dbVars
<1>7. QED
  BY <1>5, <1>6

\* A lock gets old.
LEMMA LockAgesTyped ==
  ASSUME TypeInv, NEW o \in OpId, LockAges(o)
  PROVE  TypeInv'
<1> DEFINE row == [op[o] EXCEPT !.aged = TRUE]
<1>1. op[o] \in OpRow /\ op[o].status = "applying"
      /\ op' = [op EXCEPT ![o] = row] /\ UNCHANGED ops
  BY DEF LockAges, TypeInv, OpTyped
<1>2. row \in OpRow /\ row.status = "applying"
  BY <1>1 DEF OpRow
<1>3. ~(o > ops)
  BY <1>1 DEF TypeInv, OpTyped, OpOK, Open
<1>4. OpTyped'
  <2> HIDE DEF row
  <2>1. QED
    BY <1>1, <1>2, <1>3, OpSet DEF TypeInv
<1>5. QED
  BY <1>4 DEF LockAges, TypeInv, FindingTyped, PostedTyped, ReviewTyped,
     PullTyped, PosterTyped, MovesTyped, prVars

\* A poster knows the review that carries its comment.
LEMMA ReviewKnown ==
  ASSUME PosterTyped, NEW p \in Poster, NEW i \in 1..MaxReviews,
         poster[p].pc \in WithOp,
         poster' = [poster EXCEPT ![p].pc = "mark", ![p].review = i],
         UNCHANGED posted
  PROVE  PosterTyped'
<1> DEFINE r == [poster[p] EXCEPT !.pc = "mark", !.review = i]
<1>1. PosterOK(poster[p], Len(posted))
  BY DEF PosterTyped
<1>2. poster[p] \in PosterRow /\ poster[p].vendor \in Vendor
      /\ poster[p].op \in OpId /\ poster[p].prev <= Len(posted)
  BY <1>1 DEF PosterOK, WithOp
<1>3. "mark" \in PosterPc /\ i \in 0..MaxReviews /\ i # NoReview
  BY Bounds DEF PosterPc, NoReview
<1>4. r \in PosterRow /\ r.pc = "mark" /\ r.op = poster[p].op /\ r.review = i
      /\ r.vendor = poster[p].vendor /\ r.prev = poster[p].prev
  BY <1>2, <1>3 DEF PosterRow
<1>5. PosterOK(r, Len(posted))
  <2> HIDE DEF r
  <2>1. QED
    BY <1>2, <1>3, <1>4 DEF PosterOK
<1>6. poster' = [poster EXCEPT ![p] = r]
  OBVIOUS
<1>7. QED
  BY <1>5, <1>6, PosterSet

\* GitHub's reviews are searched.
LEMMA FindTyped ==
  ASSUME TypeInv, NEW p \in Poster, FindRemote(p)
  PROVE  TypeInv'
<1>1. QuietStep /\ UNCHANGED posted /\ poster[p].pc = "find"
  BY DEF FindRemote, QuietStep, dbVars
<1>2. poster[p].vendor \in Vendor /\ poster[p].op \in OpId
  BY <1>1 DEF TypeInv, PosterTyped, PosterOK, Chosen, WithOp
<1>3. CASE Marked(p) # {} /\ poster' = [poster EXCEPT ![p].pc = "mark",
                                                     ![p].review = Max(Marked(p))]
  <2>1. Len(review) \in Nat /\ DOMAIN review = 1..Len(review)
        /\ Len(review) <= MaxReviews
    BY LenProperties DEF TypeInv, ReviewTyped
  <2>2. Marked(p) \in SUBSET (0..Len(review)) /\ Marked(p) \subseteq 1..Len(review)
    BY <2>1 DEF Marked
  <2>3. Max(Marked(p)) \in 1..MaxReviews
    <3>1. Max(Marked(p)) \in Marked(p)
      BY <1>3, <2>1, <2>2, MaxInSet
    <3>2. QED
      BY <2>1, <2>2, <3>1, Bounds
  <2>4. poster[p].pc \in WithOp
    BY <1>1 DEF WithOp, Chosen
  <2>5. PosterTyped'
    BY <1>1, <1>3, <2>3, <2>4, ReviewKnown DEF TypeInv
  <2>6. QED
    BY <1>1, <2>5, QuietTyped
<1>4. CASE GoTo(p, IF poster[p].prev = NoRow THEN "create" ELSE "update")
  <2>1. "create" \in PosterPc /\ "update" \in PosterPc
        /\ "create" \notin Settled /\ "update" \notin Settled
    BY DEF PosterPc, Settled
  <2>2. PosterTyped'
    <3>1. CASE poster[p].prev = NoRow
      BY <1>1, <1>2, <1>4, <2>1, <3>1, GoToTyped DEF TypeInv
    <3>2. CASE poster[p].prev # NoRow
      BY <1>1, <1>2, <1>4, <2>1, <3>2, GoToTyped DEF TypeInv
    <3>3. QED
      BY <3>1, <3>2
  <2>3. QED
    BY <1>1, <2>2, QuietTyped
<1>5. QED
  BY <1>3, <1>4 DEF FindRemote

\* GitHub's answer arrives or is lost.
LEMMA AnsweredTyped ==
  ASSUME PosterTyped, PostedTyped, MovesTyped, NEW p \in Poster,
         NEW i \in 1..MaxReviews, poster[p].pc \in WithOp, Answered(p, i),
         UNCHANGED posted
  PROVE  PosterTyped' /\ MovesTyped'
<1>1. CASE poster' = [poster EXCEPT ![p].pc = "mark", ![p].review = i]
           /\ UNCHANGED moves
  BY <1>1, ReviewKnown DEF MovesTyped
<1>2. CASE Leave(p) /\ Move
  BY <1>2, LeaveTyped, MoveTyped
<1>3. QED
  BY <1>1, <1>2 DEF Answered

\* An operation that wrote nothing is taken back.
LEMMA AbortTyped ==
  ASSUME FindingTyped, OpTyped, NEW p \in Poster, poster[p].op \in OpId,
         AbortUnapplied(p), UNCHANGED ops
  PROVE  FindingTyped' /\ OpTyped'
<1> DEFINE o == poster[p].op
<1>1. CASE Owned(p) /\ op[o].review = NoReview
  <2>1. op' = [op EXCEPT ![o] = NoOpRow]
        /\ finding' = [f \in Finding |->
                         IF finding[f].op = o THEN [finding[f] EXCEPT !.op = NoOp]
                         ELSE finding[f]]
    BY <1>1 DEF AbortUnapplied
  <2>2. NoOpRow \in OpRow /\ NoOpRow.status = "none" /\ "none" \notin Open
    BY Bounds DEF NoOpRow, OpRow, Body, NoReview, Open
  <2>3. OpTyped'
    BY <2>1, <2>2, OpSet
  <2>4. NoOp \in 0..MaxOps
    BY Bounds DEF NoOp
  <2>5. FindingTyped'
    <3> HIDE DEF o
    <3>1. QED
      BY <2>1, <2>4 DEF FindingTyped, FindingRow
  <2>6. QED
    BY <2>3, <2>5
<1>2. CASE UNCHANGED <<finding, op>>
  BY <1>2 DEF FindingTyped, OpTyped, OpOK
<1>3. QED
  BY <1>1, <1>2 DEF AbortUnapplied

\* The previous review is replaced or found missing.
LEMMA UpdateTyped ==
  ASSUME TypeInv, NEW p \in Poster, UpdateReview(p)
  PROVE  TypeInv'
<1> DEFINE i == posted[poster[p].prev].review
<1>1. poster[p].pc = "update" /\ UNCHANGED <<ops, posted, prVars>>
  BY DEF UpdateReview
<1>2. poster[p] \in PosterRow /\ poster[p].vendor \in Vendor
      /\ poster[p].op \in OpId /\ poster[p].prev \in 1..Len(posted)
  <2>1. PosterOK(poster[p], Len(posted)) /\ Len(posted) \in Nat
    BY LenProperties DEF TypeInv, PosterTyped, PostedTyped
  <2>2. poster[p].prev \in Nat /\ poster[p].prev # 0 /\ poster[p].prev <= Len(posted)
    BY <1>1, <2>1, RowFields DEF PosterOK, NoRow
  <2>3. QED
    BY <1>1, <2>1, <2>2 DEF PosterOK, Chosen, WithOp
<1>3. i \in 1..MaxReviews
  <2>1. posted[poster[p].prev] \in PostedRow
    BY <1>2, ElementOfSeq DEF TypeInv, PostedTyped
  <2>2. QED
    BY <2>1, RowFields
<1> HIDE DEF i
<1>4. ASSUME review' = [review EXCEPT ![i].run = p[2], ![i].body = CommentBody(p)],
             Answered(p, i), UNCHANGED <<finding, op>>
      PROVE  TypeInv'
  <2> DEFINE row == [review[i] EXCEPT !.run = p[2], !.body = CommentBody(p)]
  <2>1. p[2] \in Run /\ CommentBody(p) \in Body
    BY CommentTyped DEF TypeInv, Poster
  <2>2. i \in 1..Len(review) => row \in ReviewRow
    <3> SUFFICES ASSUME i \in 1..Len(review) PROVE row \in ReviewRow
      OBVIOUS
    <3>1. review[i] \in ReviewRow
      BY ElementOfSeq DEF TypeInv, ReviewTyped
    <3>2. QED
      BY <2>1, <3>1 DEF ReviewRow
  <2>3. review' = [review EXCEPT ![i] = row]
    BY <1>4
  <2>4. ReviewTyped'
    <3> HIDE DEF row
    <3>1. QED
      BY <2>2, <2>3, ReviewWrite DEF TypeInv
  <2>5. poster[p].pc \in WithOp
    BY <1>1 DEF WithOp, Chosen
  <2>6. PosterTyped' /\ MovesTyped'
    BY <1>1, <1>3, <1>4, <2>5, AnsweredTyped DEF TypeInv
  <2>7. QED
    BY <1>1, <1>4, <2>4, <2>6 DEF TypeInv, FindingTyped, OpTyped, OpOK,
       PostedTyped, PullTyped, prVars
<1>5. ASSUME GoTo(p, "create"), UNCHANGED <<finding, op>>, UNCHANGED <<review, moves>>
      PROVE  TypeInv'
  <2>1. "create" \in PosterPc /\ "create" \notin Settled
    BY DEF PosterPc, Settled
  <2>2. PosterTyped'
    BY <1>1, <1>2, <1>5, <2>1, GoToTyped DEF TypeInv
  <2>3. QED
    BY <1>1, <1>5, <2>2, QuietTyped DEF QuietStep, dbVars
<1>6. ASSUME Leave(p), AbortUnapplied(p), UNCHANGED <<review, moves>>
      PROVE  TypeInv'
  <2>1. PosterTyped'
    BY <1>1, <1>6, LeaveTyped DEF TypeInv
  <2>2. FindingTyped' /\ OpTyped'
    BY <1>1, <1>2, <1>6, AbortTyped DEF TypeInv
  <2>3. QED
    BY <1>1, <1>6, <2>1, <2>2 DEF TypeInv, PostedTyped, ReviewTyped, PullTyped,
       MovesTyped, prVars
<1>7. QED
  BY <1>4, <1>5, <1>6 DEF UpdateReview, i

\* A review appears on GitHub.
LEMMA CreateTyped ==
  ASSUME TypeInv, NEW p \in Poster, CreateReview(p)
  PROVE  TypeInv'
<1> DEFINE row == [state |-> "shown", run |-> p[2], vendor |-> poster[p].vendor,
                   body |-> CommentBody(p), born |-> Identity(p)]
<1>1. poster[p].pc = "create" /\ Len(review) < MaxReviews
      /\ review' = Append(review, row) /\ Answered(p, Len(review) + 1)
      /\ UNCHANGED <<dbVars, prVars>> /\ UNCHANGED posted
  BY DEF CreateReview, dbVars
<1>2. p[2] \in Run /\ CommentBody(p) \in Body /\ poster[p].vendor \in Vendor
  BY <1>1, CommentTyped DEF TypeInv, Poster, PosterTyped, PosterOK, Chosen
<1>3. row \in ReviewRow
  BY <1>2 DEF ReviewRow, Identity
<1>4. review \in Seq(ReviewRow) /\ Len(review) \in Nat
  BY LenProperties DEF TypeInv, ReviewTyped
<1>5. ReviewTyped'
  <2> HIDE DEF row
  <2>1. review' \in Seq(ReviewRow) /\ Len(review') = Len(review) + 1
    BY <1>1, <1>3, <1>4
  <2>2. QED
    BY <1>1, <1>4, <2>1, Bounds DEF ReviewTyped
<1>6. Len(review) + 1 \in 1..MaxReviews
  BY <1>1, <1>4, Bounds
<1>7. poster[p].pc \in WithOp
  BY <1>1 DEF WithOp, Chosen
<1>8. PosterTyped' /\ MovesTyped'
  BY <1>1, <1>6, <1>7, AnsweredTyped DEF TypeInv
<1>9. QED
  BY <1>1, <1>5, <1>8 DEF TypeInv, FindingTyped, OpTyped, OpOK, PostedTyped,
     PullTyped, dbVars, prVars

\* The review is recorded in the operation.
LEMMA MarkTyped ==
  ASSUME TypeInv, NEW p \in Poster, MarkRemote(p)
  PROVE  TypeInv'
<1> DEFINE o == poster[p].op
           i == poster[p].review
           row == [op[o] EXCEPT !.status = "remote_applied", !.review = i,
                                !.owner = None]
<1>1. poster[p].pc = "mark" /\ UNCHANGED <<finding, ops, posted, review, prVars, moves>>
  BY DEF MarkRemote
<1>2. o \in OpId /\ poster[p].vendor \in Vendor /\ i # NoReview
      /\ i \in 0..MaxReviews
  BY <1>1, RowFields DEF TypeInv, PosterTyped, PosterOK, Chosen, WithOp, Settled
<1>3. op[o] \in OpRow
  BY <1>2 DEF TypeInv, OpTyped
<1>4. row \in OpRow /\ row.status = "remote_applied" /\ row.review = i
  BY <1>2, <1>3 DEF OpRow, Open
<1>5. CASE Owned(p)
  <2>1. op' = [op EXCEPT ![o] = row] /\ GoTo(p, "finalize")
    BY <1>5 DEF MarkRemote
  <2>2. ~(o > ops)
    BY <1>2, <1>5 DEF Owned, TypeInv, OpTyped, OpOK, Open
  <2>3. OpTyped'
    <3> HIDE DEF o, i, row
    <3>1. QED
      BY <1>1, <1>2, <1>4, <2>1, <2>2, OpSet DEF TypeInv
  <2>4. "finalize" \in PosterPc
    BY DEF PosterPc
  <2>5. PosterTyped'
    BY <1>1, <1>2, <2>1, <2>4, GoToTyped DEF TypeInv
  <2>6. QED
    BY <1>1, <2>3, <2>5 DEF TypeInv, FindingTyped, PostedTyped, ReviewTyped,
       PullTyped, MovesTyped, prVars
<1>6. CASE ~Owned(p)
  <2>1. Leave(p) /\ UNCHANGED op
    BY <1>6 DEF MarkRemote
  <2>2. PosterTyped'
    BY <1>1, <2>1, LeaveTyped DEF TypeInv
  <2>3. QED
    BY <1>1, <2>1, <2>2, QuietTyped DEF QuietStep, dbVars
<1>7. QED
  BY <1>5, <1>6

\* The rows of a comment are settled; the poster ends or takes the next vendor.
LEMMA FinalizeTyped ==
  ASSUME TypeInv, NEW p \in Poster, Finalize(p)
  PROVE  TypeInv'
<1> DEFINE o == poster[p].op
           prev == poster[p].prev
           rest == poster[p].todo \ {poster[p].vendor}
           kept == [k \in DOMAIN posted |->
                      IF k = prev THEN [posted[k] EXCEPT !.current = FALSE]
                      ELSE posted[k]]
           row == [op |-> o, vendor |-> poster[p].vendor,
                   review |-> poster[p].review, current |-> TRUE]
           next == [poster[p] EXCEPT !.pc = "check", !.todo = rest,
                      !.vendor = None, !.prev = NoRow, !.op = NoOp,
                      !.review = NoReview]
<1>1. poster[p].pc = "finalize" /\ UNCHANGED <<ops, review, prVars, moves>>
  BY DEF Finalize
<1>2. o \in OpId /\ poster[p].vendor \in Vendor /\ poster[p] \in PosterRow
      /\ poster[p].review \in 1..MaxReviews
  <2>1. PosterOK(poster[p], Len(posted))
    BY DEF TypeInv, PosterTyped
  <2>2. poster[p].review \in 0..MaxReviews /\ poster[p].review # 0
    BY <1>1, <2>1, RowFields DEF PosterOK, Settled, NoReview
  <2>3. QED
    BY <1>1, <2>1, <2>2, Bounds DEF PosterOK, Chosen, WithOp
<1>3. CASE ~StillReserved(o)
  <2>1. Leave(p) /\ UNCHANGED <<finding, op, posted>>
    BY <1>3 DEF Finalize
  <2>2. PosterTyped'
    BY <2>1, LeaveTyped DEF TypeInv
  <2>3. QED
    BY <1>1, <2>1, <2>2, QuietTyped DEF QuietStep, dbVars
<1>4. CASE StillReserved(o)
  <2>1. /\ posted' = Append(kept, row)
        /\ finding' = [f \in Finding |->
                         IF f \in op[o].new
                         THEN [finding[f] EXCEPT !.status = "posted", !.op = NoOp]
                         ELSE finding[f]]
        /\ op' = [op EXCEPT ![o] = [op[o] EXCEPT !.status = "succeeded",
                                                 !.owner = None]]
        /\ poster' = [poster EXCEPT ![p] = IF rest = {} THEN IdlePoster ELSE next]
    BY <1>4 DEF Finalize
  <2>2. Len(posted) \in Nat /\ DOMAIN posted = 1..Len(posted)
    BY LenProperties DEF TypeInv, PostedTyped
  <2>3. kept \in Seq(PostedRow) /\ Len(kept) = Len(posted)
    <3>1. \A k \in 1..Len(posted) : posted[k] \in PostedRow
      BY ElementOfSeq DEF TypeInv, PostedTyped
    <3>2. \A k \in 1..Len(posted) : kept[k] \in PostedRow
      BY <2>2, <3>1 DEF PostedRow
    <3>3. kept = [k \in 1..Len(posted) |-> kept[k]]
      BY <2>2
    <3> HIDE DEF kept
    <3>4. kept \in [1..Len(posted) -> PostedRow]
      BY <3>2, <3>3
    <3>5. QED
      BY <2>2, <3>4
  <2>4. row \in PostedRow
    BY <1>2 DEF PostedRow
  <2>5. PostedTyped' /\ Len(posted') = Len(posted) + 1
    <3>1. posted' = Append(kept, row)
      BY <2>1
    <3> HIDE DEF kept, row
    <3>2. Append(kept, row) \in Seq(PostedRow)
          /\ Len(Append(kept, row)) = Len(kept) + 1
      BY <2>3, <2>4, AppendProperties
    <3>3. QED
      BY <2>3, <3>1, <3>2 DEF PostedTyped
  <2>6. FindingTyped'
    <3>1. NoOp \in 0..MaxOps
      BY Bounds DEF NoOp
    <3> HIDE DEF o
    <3>2. QED
      BY <2>1, <3>1 DEF TypeInv, FindingTyped, FindingRow
  <2>7. OpTyped'
    <3>1. op[o] \in OpRow
      BY <1>2 DEF TypeInv, OpTyped
    <3>2. [op[o] EXCEPT !.status = "succeeded", !.owner = None] \in OpRow
      BY <3>1 DEF OpRow
    <3>3. [op[o] EXCEPT !.status = "succeeded", !.owner = None].status = "succeeded"
      BY <3>1 DEF OpRow
    <3>4. "succeeded" \notin Open
      BY DEF Open
    <3> HIDE DEF o
    <3>5. QED
      BY <1>1, <1>2, <2>1, <3>2, <3>3, <3>4, OpSet DEF TypeInv
  <2>8. PosterTyped'
    <3>1. Len(posted') \in Nat /\ Len(posted) <= Len(posted')
      BY <2>2, <2>5
    <3>2. \A q \in Poster : PosterOK(poster[q], Len(posted'))
      <4>1. SUFFICES ASSUME NEW q \in Poster
                     PROVE  PosterOK(poster[q], Len(posted'))
        OBVIOUS
      <4>2. PosterOK(poster[q], Len(posted)) /\ poster[q].prev \in Nat
        BY RowFields DEF TypeInv, PosterTyped
      <4>3. QED
        BY <2>2, <3>1, <4>2 DEF PosterOK
    <3>3. PosterOK(IdlePoster, Len(posted'))
      BY <3>1, IdleOK
    <3>4. next \in PosterRow /\ next.pc = "check" /\ next.prev = NoRow
      <4>1. rest \in SUBSET Vendor
        BY <1>2 DEF PosterRow
      <4>2. "check" \in PosterPc
        BY DEF PosterPc
      <4>3. NoRow \in Nat /\ NoOp \in 0..MaxOps /\ NoReview \in 0..MaxReviews
        BY Bounds DEF NoRow, NoOp, NoReview
      <4> HIDE DEF rest
      <4>4. QED
        BY <1>2, <4>1, <4>2, <4>3 DEF PosterRow
    <3>5. PosterOK(next, Len(posted'))
      <4> HIDE DEF next
      <4>1. QED
        BY <3>1, <3>4 DEF PosterOK, Chosen, WithOp, Settled, NoRow
    <3>6. PosterOK(IF rest = {} THEN IdlePoster ELSE next, Len(posted'))
      <4> HIDE DEF next, rest
      <4>1. QED
        BY <3>3, <3>5
    <3>7. poster' \in [Poster -> PosterRow]
      <4> HIDE DEF next, rest
      <4>1. QED
        BY <2>1, <3>6 DEF TypeInv, PosterTyped, PosterOK
    <3>8. \A q \in Poster : PosterOK(poster'[q], Len(posted'))
      <4> HIDE DEF next, rest
      <4>1. QED
        BY <2>1, <3>2, <3>6 DEF TypeInv, PosterTyped
    <3>9. QED
      BY <3>7, <3>8 DEF PosterTyped
  <2>9. QED
    BY <1>1, <2>5, <2>6, <2>7, <2>8 DEF TypeInv, ReviewTyped, PullTyped,
       MovesTyped, prVars
<1>5. QED
  BY <1>3, <1>4

\* Every step keeps the types.
LEMMA TypeStep == TypeInv /\ [Next]_vars => TypeInv'
<1> SUFFICES ASSUME TypeInv, [Next]_vars PROVE TypeInv'
  OBVIOUS
<1>1. ASSUME NEW f \in Finding, PatchFinding(f) PROVE TypeInv'
  BY <1>1, PatchTyped
<1>2. ASSUME NEW i \in DOMAIN review, RemoveReview(i) PROVE TypeInv'
  BY <1>2, RemoveTyped
<1>3. ASSUME NEW o \in OpId, LockAges(o) PROVE TypeInv'
  BY <1>3, LockAgesTyped
<1>4. ASSUME NEW p \in Poster, PostStep(p) PROVE TypeInv'
  BY <1>4, CheckRunTyped, CheckHeadTyped, PrepareTyped, ClaimTyped, FindTyped,
     UpdateTyped, CreateTyped, MarkTyped, FinalizeTyped DEF PostStep
<1>5. ASSUME NEW p \in Poster, BuildComments(p) \/ Stop(p) PROVE TypeInv'
  BY <1>5, BuildTyped, StopTyped
<1>6. CASE UNCHANGED vars
  BY <1>6 DEF vars, TypeInv, FindingTyped, OpTyped, OpOK, PostedTyped,
     ReviewTyped, PullTyped, PosterTyped, MovesTyped
<1>7. QED
  BY <1>1, <1>2, <1>3, <1>4, <1>5, <1>6, MoveHeadTyped, NewRunTyped DEF Next

\* Type correctness: rows of every table, the reviews on GitHub and the local
\* variables of every request stay within their types, whatever interleaving
\* of requests, decisions, errors and crashes.
THEOREM TypeCorrect == Spec => []TypeOK
<1>1. TypeInv => TypeOK
  BY DEF TypeInv, TypeOK, FindingTyped, OpTyped, PostedTyped, ReviewTyped,
     PullTyped, PosterTyped, MovesTyped
<1>2. QED
  BY TypeInit, TypeStep, <1>1, PTL DEF Spec

---------------------------------------------------------------------------
(* Reservations                                                           *)

\* What the proofs use of the rows.
LEMMA Rows ==
  ASSUME TypeInv
  PROVE  /\ finding \in [Finding -> FindingRow]
         /\ op \in [OpId -> OpRow]
         /\ \A o \in OpId : o \in Nat \ {0} /\ op[o].new \in SUBSET Finding
         /\ \A f \in Finding : finding[f].op \in 0..MaxOps
<1>1. \A o \in OpId : o \in Nat \ {0}
  BY Bounds DEF OpId
<1>2. QED
  BY <1>1 DEF TypeInv, FindingTyped, OpTyped, FindingRow, OpRow

\* An open operation goes on with the findings it has.
LEMMA OpGoesOn ==
  ASSUME TypeInv, ReservationsAgree, NEW o \in OpId, op[o].status \in Open,
         NEW r, r.status \in Open, r.new = op[o].new,
         op' = [op EXCEPT ![o] = r], UNCHANGED finding
  PROVE  ReservationsAgree'
<1>1. \A q \in OpId : op'[q].new = op[q].new
                      /\ (op'[q].status \in Open <=> op[q].status \in Open)
  BY Rows
<1>2. \A f \in Finding : finding[f].op # NoOp => finding[f].op \in OpId
  BY Rows, Bounds DEF OpId, NoOp
<1>3. QED
  BY <1>1, <1>2 DEF ReservationsAgree, StillReserved

\* A decision leaves reserved findings alone.
LEMMA PatchAgrees ==
  ASSUME TypeInv, ReservationsAgree, NEW f \in Finding, PatchFinding(f)
  PROVE  ReservationsAgree'
<1>1. finding[f].op = NoOp /\ UNCHANGED op
  BY DEF PatchFinding
<1>2. PICK status \in {"approved", "dismissed", "edited"}, text \in Text :
        finding' = [finding EXCEPT ![f].status = status, ![f].text = text]
  BY DEF PatchFinding
<1>3. \A g \in Finding : finding'[g].op = finding[g].op
                         /\ (g # f => finding'[g] = finding[g])
  BY <1>2, Rows DEF FindingRow
<1>4. \A o \in OpId : op[o].status \in Open => f \notin op[o].new
  BY <1>1, Rows DEF ReservationsAgree, StillReserved, NoOp
<1>5. \A o \in OpId : op'[o].status \in Open => StillReserved(o)'
  <2> SUFFICES ASSUME NEW o \in OpId, op[o].status \in Open, NEW g \in op[o].new
               PROVE  finding'[g].op = o /\ finding'[g].status \in Postable
    BY <1>1 DEF StillReserved
  <2>1. g \in Finding /\ g # f /\ finding[g].op = o /\ finding[g].status \in Postable
    BY <1>4, Rows DEF ReservationsAgree, StillReserved
  <2>2. QED
    BY <1>3, <2>1
<1>6. QED
  BY <1>1, <1>3, <1>5 DEF ReservationsAgree

\* A new operation takes findings that no other holds.
LEMMA PrepareAgrees ==
  ASSUME TypeInv, ReservationsAgree, NEW p \in Poster, Prepare(p)
  PROVE  ReservationsAgree'
<1> DEFINE o == ops + 1
           new == CommentNew(p)
           row == [NoOpRow EXCEPT
                     !.status = "pending", !.run = p[2],
                     !.vendor = poster[p].vendor, !.body = CommentBody(p),
                     !.new = new]
<1>1. CASE UNCHANGED <<finding, op>>
  BY <1>1 DEF ReservationsAgree, StillReserved
<1>2. ASSUME Reservable(p), ops < MaxOps, op' = [op EXCEPT ![o] = row],
             finding' = [f \in Finding |->
                           IF f \in new THEN [finding[f] EXCEPT !.op = o]
                           ELSE finding[f]]
      PROVE  ReservationsAgree'
  <2>1. o \in OpId /\ op[o].status \notin Open
    BY <1>2, Bounds DEF TypeInv, OpTyped, OpOK, OpId
  <2>2. new \in SUBSET Finding
    BY CommentTyped DEF TypeInv
  <2>3. row.status \in Open /\ row.new = new
    BY DEF NoOpRow, Open
  <2>4. \A f \in new : finding[f].op = NoOp /\ finding[f].status \in Postable
    BY <1>2 DEF Reservable
  <2> HIDE DEF o, new, row
  <2>5. \A q \in OpId : op'[q] = IF q = o THEN row ELSE op[q]
    BY <1>2, Rows
  <2>6. \A f \in Finding :
          /\ finding'[f].status = finding[f].status
          /\ finding'[f].op = IF f \in new THEN o ELSE finding[f].op
    BY <1>2, Rows DEF FindingRow
  <2>7. ASSUME NEW f \in Finding, finding'[f].op # NoOp
        PROVE  op'[finding'[f].op].status \in Open /\ f \in op'[finding'[f].op].new
    <3>1. CASE f \in new
      BY <2>1, <2>3, <2>5, <2>6, <3>1
    <3>2. CASE f \notin new
      <4>1. finding'[f].op = finding[f].op /\ finding[f].op \in OpId
        BY <2>6, <2>7, <3>2, Rows, Bounds DEF OpId, NoOp
      <4>2. op[finding[f].op].status \in Open /\ f \in op[finding[f].op].new
        BY <2>7, <4>1 DEF ReservationsAgree
      <4>3. QED
        BY <2>1, <2>5, <4>1, <4>2
    <3>3. QED
      BY <3>1, <3>2
  <2>8. ASSUME NEW q \in OpId, op'[q].status \in Open, NEW f \in op'[q].new
        PROVE  finding'[f].op = q /\ finding'[f].status \in Postable
    <3>1. CASE q = o
      BY <2>2, <2>3, <2>4, <2>5, <2>6, <2>8, <3>1
    <3>2. CASE q # o
      <4>1. op[q].status \in Open /\ f \in op[q].new
        BY <2>5, <2>8, <3>2
      <4>2. f \in Finding /\ finding[f].op = q /\ finding[f].status \in Postable
        BY <4>1, Rows DEF ReservationsAgree, StillReserved
      <4>3. f \notin new
        BY <2>4, <4>2, Rows DEF NoOp
      <4>4. QED
        BY <2>6, <4>2, <4>3
    <3>3. QED
      BY <3>1, <3>2
  <2>9. QED
    BY <2>7, <2>8 DEF ReservationsAgree, StillReserved
<1>3. QED
  BY <1>1, <1>2 DEF Prepare

\* Claiming keeps an operation open.
LEMMA ClaimAgrees ==
  ASSUME TypeInv, ReservationsAgree, NEW p \in Poster, ClaimOp(p)
  PROVE  ReservationsAgree'
<1> DEFINE o == poster[p].op
           row == [op[o] EXCEPT !.status = "applying", !.owner = p, !.aged = FALSE]
<1>1. UNCHANGED finding
  BY DEF ClaimOp
<1>2. CASE UNCHANGED op
  BY <1>1, <1>2 DEF ReservationsAgree, StillReserved
<1>3. CASE Claimable(o) /\ op' = [op EXCEPT ![o] = row]
  <2>1. o \in OpId
    BY DEF ClaimOp, TypeInv, PosterTyped, PosterOK, WithOp, Chosen
  <2>2. op[o] \in OpRow
    BY <2>1, Rows
  <2>3. row.status \in Open /\ row.new = op[o].new /\ op[o].status \in Open
    BY <1>3, <2>2 DEF OpRow, Open, Claimable
  <2> HIDE DEF o, row
  <2>4. QED
    BY <1>1, <1>3, <2>1, <2>3, OpGoesOn
<1>4. QED
  BY <1>2, <1>3 DEF ClaimOp

\* Ageing keeps an operation open.
LEMMA LockAgesAgrees ==
  ASSUME TypeInv, ReservationsAgree, NEW o \in OpId, LockAges(o)
  PROVE  ReservationsAgree'
<1> DEFINE row == [op[o] EXCEPT !.aged = TRUE]
<1>1. op[o] \in OpRow /\ op[o].status \in Open
  BY Rows DEF LockAges, Open
<1>2. row.status \in Open /\ row.new = op[o].new
  BY <1>1 DEF OpRow
<1>3. op' = [op EXCEPT ![o] = row] /\ UNCHANGED finding
  BY DEF LockAges
<1> HIDE DEF row
<1>4. QED
  BY <1>1, <1>2, <1>3, OpGoesOn

\* Recording the review keeps an operation open.
LEMMA MarkAgrees ==
  ASSUME TypeInv, ReservationsAgree, NEW p \in Poster, MarkRemote(p)
  PROVE  ReservationsAgree'
<1> DEFINE o == poster[p].op
           row == [op[o] EXCEPT !.status = "remote_applied",
                                !.review = poster[p].review, !.owner = None]
<1>1. UNCHANGED finding
  BY DEF MarkRemote
<1>2. CASE UNCHANGED op
  BY <1>1, <1>2 DEF ReservationsAgree, StillReserved
<1>3. CASE Owned(p) /\ op' = [op EXCEPT ![o] = row]
  <2>1. o \in OpId
    BY DEF MarkRemote, TypeInv, PosterTyped, PosterOK, WithOp, Chosen
  <2>2. op[o] \in OpRow
    BY <2>1, Rows
  <2>3. row.status \in Open /\ row.new = op[o].new /\ op[o].status \in Open
    BY <1>3, <2>2 DEF OpRow, Open, Owned
  <2> HIDE DEF o, row
  <2>4. QED
    BY <1>1, <1>3, <2>1, <2>3, OpGoesOn
<1>4. QED
  BY <1>2, <1>3 DEF MarkRemote

\* An operation ends, and releases every finding it holds.
LEMMA OpEnds ==
  ASSUME TypeInv, ReservationsAgree, NEW o \in OpId,
         NEW r, r.status \notin Open, op' = [op EXCEPT ![o] = r],
         \A f \in Finding : IF finding[f].op = o THEN finding'[f].op = NoOp
                            ELSE finding'[f] = finding[f]
  PROVE  ReservationsAgree'
<1>1. \A q \in OpId : op'[q] = IF q = o THEN r ELSE op[q]
  BY Rows
<1>2. ASSUME NEW f \in Finding, finding'[f].op # NoOp
      PROVE  op'[finding'[f].op].status \in Open /\ f \in op'[finding'[f].op].new
  <2>1. finding'[f] = finding[f] /\ finding[f].op # o /\ finding[f].op \in OpId
    BY <1>2, Rows, Bounds DEF OpId, NoOp
  <2>2. QED
    BY <1>1, <1>2, <2>1 DEF ReservationsAgree
<1>3. ASSUME NEW q \in OpId, op'[q].status \in Open, NEW f \in op'[q].new
      PROVE  finding'[f].op = q /\ finding'[f].status \in Postable
  <2>1. q # o /\ op[q].status \in Open /\ f \in op[q].new
    BY <1>1, <1>3
  <2>2. f \in Finding /\ finding[f].op = q /\ finding[f].status \in Postable
    BY <2>1, Rows DEF ReservationsAgree, StillReserved
  <2>3. QED
    BY <2>1, <2>2
<1>4. QED
  BY <1>2, <1>3 DEF ReservationsAgree, StillReserved

\* Updating a review either keeps the operation or aborts it.
LEMMA UpdateAgrees ==
  ASSUME TypeInv, ReservationsAgree, NEW p \in Poster, UpdateReview(p)
  PROVE  ReservationsAgree'
<1> DEFINE o == poster[p].op
<1>1. CASE UNCHANGED <<finding, op>>
  BY <1>1 DEF ReservationsAgree, StillReserved
<1>2. CASE /\ op' = [op EXCEPT ![o] = NoOpRow]
           /\ finding' = [f \in Finding |->
                            IF finding[f].op = o THEN [finding[f] EXCEPT !.op = NoOp]
                            ELSE finding[f]]
  <2>1. o \in OpId
    BY DEF UpdateReview, TypeInv, PosterTyped, PosterOK, WithOp, Chosen
  <2>2. NoOpRow.status \notin Open
    BY DEF NoOpRow, Open
  <2> HIDE DEF o
  <2>3. \A f \in Finding : IF finding[f].op = o THEN finding'[f].op = NoOp
                           ELSE finding'[f] = finding[f]
    BY <1>2, Rows DEF FindingRow
  <2>4. QED
    BY <1>2, <2>1, <2>2, <2>3, OpEnds
<1>3. QED
  BY <1>1, <1>2 DEF UpdateReview, AbortUnapplied

\* Finalizing ends the operation and posts exactly its findings.
LEMMA FinalizeAgrees ==
  ASSUME TypeInv, ReservationsAgree, NEW p \in Poster, Finalize(p)
  PROVE  ReservationsAgree'
<1> DEFINE o == poster[p].op
           row == [op[o] EXCEPT !.status = "succeeded", !.owner = None]
<1>1. CASE UNCHANGED <<finding, op>>
  BY <1>1 DEF ReservationsAgree, StillReserved
<1>2. CASE /\ StillReserved(o)
           /\ op' = [op EXCEPT ![o] = row]
           /\ finding' = [f \in Finding |->
                            IF f \in op[o].new
                            THEN [finding[f] EXCEPT !.status = "posted", !.op = NoOp]
                            ELSE finding[f]]
  <2>1. o \in OpId
    BY DEF Finalize, TypeInv, PosterTyped, PosterOK, WithOp, Chosen
  <2>2. op[o] \in OpRow
    BY <2>1, Rows
  <2>3. row.status \notin Open
    BY <2>2 DEF OpRow, Open
  <2>4. \A f \in Finding : finding[f].op = o <=> f \in op[o].new
    <3>1. o # NoOp
      BY <2>1, Rows DEF NoOp
    <3> HIDE DEF o
    <3>2. \A f \in op[o].new : finding[f].op = o
      BY <1>2 DEF StillReserved
    <3>3. \A f \in Finding : finding[f].op = o => f \in op[o].new
      BY <3>1 DEF ReservationsAgree
    <3>4. QED
      BY <3>2, <3>3
  <2> HIDE DEF o, row
  <2>5. \A f \in Finding : IF finding[f].op = o THEN finding'[f].op = NoOp
                           ELSE finding'[f] = finding[f]
    BY <1>2, <2>4, Rows DEF FindingRow
  <2>6. QED
    BY <1>2, <2>1, <2>3, <2>5, OpEnds
<1>3. QED
  BY <1>1, <1>2 DEF Finalize

Inv == TypeInv /\ ReservationsAgree

\* Every step keeps reservations and operations in agreement.
LEMMA AgreeStep == Inv /\ [Next]_vars => ReservationsAgree'
<1> SUFFICES ASSUME TypeInv, ReservationsAgree, [Next]_vars
             PROVE  ReservationsAgree'
  BY DEF Inv
<1>1. ASSUME UNCHANGED <<finding, op>> PROVE ReservationsAgree'
  BY <1>1 DEF ReservationsAgree, StillReserved
<1>2. ASSUME NEW f \in Finding, PatchFinding(f) PROVE ReservationsAgree'
  BY <1>2, PatchAgrees
<1>3. CASE MoveHead \/ NewRun \/ UNCHANGED vars
  BY <1>1, <1>3 DEF MoveHead, NewRun, dbVars, vars
<1>4. ASSUME NEW i \in DOMAIN review, RemoveReview(i) PROVE ReservationsAgree'
  BY <1>1, <1>4 DEF RemoveReview, dbVars
<1>5. ASSUME NEW o \in OpId, LockAges(o) PROVE ReservationsAgree'
  BY <1>5, LockAgesAgrees
<1>6. ASSUME NEW p \in Poster, BuildComments(p) \/ Stop(p) PROVE ReservationsAgree'
  BY <1>1, <1>6 DEF BuildComments, Stop, dbVars
<1>7. ASSUME NEW p \in Poster, PostStep(p) PROVE ReservationsAgree'
  <2>1. CASE CheckRun(p) \/ CheckHead(p) \/ FindRemote(p) \/ CreateReview(p)
    BY <1>1, <2>1 DEF CheckRun, CheckHead, FindRemote, CreateReview, dbVars
  <2>2. QED
    BY <1>7, <2>1, PrepareAgrees, ClaimAgrees, UpdateAgrees, MarkAgrees,
       FinalizeAgrees DEF PostStep
<1>8. QED
  BY <1>2, <1>3, <1>4, <1>5, <1>6, <1>7 DEF Next

\* A finding is reserved only by an operation still open, and an open operation
\* still has all of its findings, approved: finalize never finds a reservation
\* lost, and no finding stays locked by an operation that has ended.
THEOREM Agreement == Spec => []ReservationsAgree
<1>1. Init => Inv
  <2> SUFFICES ASSUME Init PROVE Inv
    OBVIOUS
  <2>1. \A f \in Finding : finding[f].op = NoOp
    BY DEF Init
  <2>2. \A o \in OpId : op[o].status \notin Open
    BY DEF Init, NoOpRow, Open
  <2>3. QED
    BY <2>1, <2>2, TypeInit DEF Inv, ReservationsAgree
<1>2. Inv /\ [Next]_vars => Inv'
  BY TypeStep, AgreeStep DEF Inv
<1>3. Inv => ReservationsAgree
  BY DEF Inv
<1>4. QED
  BY <1>1, <1>2, <1>3, PTL DEF Spec

---------------------------------------------------------------------------
(* The invariant                                                           *)

Holding == {"find", "update", "create", "mark"}
Working == Holding \cup {"claim"}
Applied == {"remote_applied", "succeeded"}

\* The operation the review i was created for has succeeded.
BornDone(i) ==
  \E o \in OpId : op[o].status = "succeeded" /\ IdentityOf(op[o]) = review[i].born

\* The review i was created for this identity, or for one that is done with.
BornFor(i, id) == i \in DOMAIN review /\ (review[i].born = id \/ BornDone(i))

\* The comments still to be posted, the one being posted among them, show
\* something new.
Chose(r) ==
  /\ r.pc # "idle" =>
       \A v \in r.todo : \E f \in r.new, t \in Text : VendorOf[f] = v /\ <<f, t>> \in r.shown
  /\ r.pc \in Chosen => r.vendor \in r.todo

Holds(p, o) == op[o].status = "applying" /\ op[o].owner = p /\ ~op[o].aged

\* What a poster knows of its operation and of the reviews.
PosterOnce(p) ==
  LET r == poster[p] IN
  /\ Chose(r)
  /\ r.pc \in Working =>
       r.op <= ops /\ (op[r.op].status # "none" => IdentityOf(op[r.op]) = Identity(p))
  /\ r.pc \in Holding => Holds(p, r.op)
  /\ r.pc \in {"update", "create"} => Marked(p) = {}
  /\ r.pc = "mark" => BornFor(r.review, Identity(p))
  /\ r.pc = "finalize" => op[r.op].status \in Applied /\ op[r.op].review = r.review

OpOnce(o) ==
  /\ o > ops => op[o].status = "none"
  /\ op[o].status # "none" => op[o].new # {}
  /\ op[o].status \in Applied => BornFor(op[o].review, IdentityOf(op[o]))

OneIdentity ==
  \A o, o2 \in OpId :
    op[o].status # "none" /\ op[o2].status # "none"
      /\ IdentityOf(op[o]) = IdentityOf(op[o2]) => o = o2

\* A review says what it was created to say until that is recorded.
BornMarked ==
  \A i \in DOMAIN review : IdentityOf(review[i]) = review[i].born \/ BornDone(i)

\* Recorded rows are of operations that succeeded, with the review they wrote.
RowsSucceeded ==
  \A k \in DOMAIN posted :
    LET o == posted[k].op IN
    op[o].status = "succeeded" /\ posted[k].review = op[o].review

\* The part of the invariant that is about rows and reviews.
RowsOnce ==
  /\ \A o \in OpId : OpOnce(o)
  /\ OneIdentity /\ BornMarked /\ RowsSucceeded /\ CreatedOnce /\ RecordedOnce

OnceInv == RowsOnce /\ \A p \in Poster : PosterOnce(p)

---------------------------------------------------------------------------
(* Steps in general                                                        *)

\* The first thing a step must not do: forget a success or what a review was
\* created for.
BornKept ==
  /\ \A o \in OpId : op[o].status = "succeeded" =>
       op'[o].status = "succeeded" /\ IdentityOf(op'[o]) = IdentityOf(op[o])
  /\ \A i \in DOMAIN review : i \in DOMAIN review' /\ review'[i].born = review[i].born

\* What a review was created for stays so.
LEMMA BornStays ==
  ASSUME BornKept
  PROVE  /\ \A i \in DOMAIN review : BornDone(i) => BornDone(i)'
         /\ \A i, id : BornFor(i, id) => BornFor(i, id)'
<1>1. ASSUME NEW i \in DOMAIN review, BornDone(i)
      PROVE  BornDone(i)'
  <2>1. PICK o \in OpId : op[o].status = "succeeded" /\ IdentityOf(op[o]) = review[i].born
    BY <1>1 DEF BornDone
  <2>2. op'[o].status = "succeeded" /\ IdentityOf(op'[o]) = review'[i].born
    BY <2>1 DEF BornKept
  <2>3. QED
    BY <2>2 DEF BornDone
<1>2. ASSUME NEW i, NEW id, BornFor(i, id)
      PROVE  BornFor(i, id)'
  BY <1>1, <1>2 DEF BornKept, BornFor
<1>3. QED
  BY <1>1, <1>2

\* What a step may do to an operation row that another poster works with: it is
\* aborted, or it keeps its identity, and an applied one its review.
OpKept(o) ==
  \/ op'[o].status = "none" /\ op[o].status \notin Applied
  \/ /\ op[o].status # "none" /\ op'[o].status # "none"
     /\ IdentityOf(op'[o]) = IdentityOf(op[o]) /\ op'[o].new = op[o].new
     /\ op[o].status \in Applied =>
          op'[o].status \in Applied /\ op'[o].review = op[o].review
     /\ op[o].status = "succeeded" => op'[o].status = "succeeded"

\* A poster that takes no step keeps its part of the invariant while its operation
\* is kept, nobody takes it over, and no review gets its marker.
LEMMA OthersKept ==
  ASSUME NEW p \in Poster, PosterOK(poster[p], Len(posted)), PosterOnce(p),
         poster'[p] = poster[p], ops \in Nat, ops' \in Nat, ops <= ops',
         BornKept, \A o \in OpId : o <= ops => OpKept(o),
         poster[p].pc \in Holding =>
           \A o \in OpId : o = poster[p].op /\ Holds(p, o) => Holds(p, o)',
         poster[p].pc \in {"update", "create"} /\ Marked(p) = {} => Marked(p)' = {},
         \A o \in OpId : op[o].status \in Applied => o <= ops
  PROVE  PosterOnce(p)'
<1> DEFINE r == poster[p]
<1>1. r.pc \in WithOp => r.op \in OpId /\ r.op \in Nat
  BY Bounds DEF PosterOK, OpId
<1>2. Identity(p)' = Identity(p)
  BY DEF Identity, CommentBody
<1>3. Chose(poster'[p])
  BY DEF PosterOnce
<1>4. r.pc \in Working =>
        r.op <= ops' /\ (op'[r.op].status # "none" => IdentityOf(op'[r.op]) = Identity(p))
  BY <1>1 DEF PosterOnce, OpKept, Working, Holding, WithOp, Chosen
<1>5. r.pc \in Holding => Holds(p, r.op)'
  BY <1>1 DEF PosterOnce, Holding, WithOp, Chosen
<1>6. r.pc = "mark" => BornFor(r.review, Identity(p))'
  BY <1>2, BornStays DEF PosterOnce
<1>7. r.pc = "finalize" => op'[r.op].status \in Applied /\ op'[r.op].review = r.review
  BY <1>1 DEF PosterOnce, OpKept, WithOp, Chosen, Applied
<1>8. QED
  BY <1>2, <1>3, <1>4, <1>5, <1>6, <1>7 DEF PosterOnce

\* What a step that creates, reserves and records nothing does to rows and reviews:
\* operations are kept, one that becomes applied has a review that was created for it,
\* and reviews change their text only after that was recorded.
NothingNew ==
  /\ UNCHANGED <<ops, posted>>
  /\ \A o \in OpId :
       /\ OpKept(o)
       /\ op'[o].status = "succeeded" => op[o].status = "succeeded"
       /\ op'[o].status \in Applied =>
            op[o].status \in Applied \/ BornFor(op'[o].review, IdentityOf(op'[o]))
  /\ DOMAIN review' = DOMAIN review
  /\ \A i \in DOMAIN review :
       /\ review'[i].born = review[i].born
       /\ review'[i].state = "shown" => review[i].state = "shown"
       /\ IdentityOf(review'[i]) = IdentityOf(review[i]) \/ BornDone(i)

\* Such a step keeps what is said of rows and reviews.
LEMMA NothingNewKeeps ==
  ASSUME RowsOnce, NothingNew, \A k \in DOMAIN posted : posted[k].op \in OpId
  PROVE  RowsOnce' /\ BornKept
<1>1. BornKept
  BY DEF NothingNew, BornKept, OpKept, Applied
<1>2. ASSUME NEW o \in OpId PROVE OpOnce(o)'
  <2>1. CASE op'[o].status = "none"
    BY <2>1 DEF RowsOnce, NothingNew, OpOnce, Applied
  <2>2. CASE op'[o].status # "none"
    <3>1. /\ op[o].status # "none" /\ op'[o].new = op[o].new
          /\ IdentityOf(op'[o]) = IdentityOf(op[o])
          /\ op[o].status \in Applied => op'[o].review = op[o].review
      BY <2>2 DEF NothingNew, OpKept
    <3>2. op'[o].status \in Applied => BornFor(op'[o].review, IdentityOf(op'[o]))
      BY <3>1 DEF RowsOnce, OpOnce, NothingNew
    <3>3. op'[o].status \in Applied => BornFor(op[o].review, IdentityOf(op[o]))'
      BY <1>1, <3>2, BornStays
    <3>4. QED
      BY <3>1, <3>3 DEF RowsOnce, OpOnce, NothingNew
  <2>3. QED
    BY <2>1, <2>2
<1>3. OneIdentity'
  <2>1. \A o \in OpId : op'[o].status # "none" =>
          op[o].status # "none" /\ IdentityOf(op'[o]) = IdentityOf(op[o])
    BY DEF NothingNew, OpKept
  <2>2. QED
    BY <2>1 DEF RowsOnce, OneIdentity
<1>4. BornMarked'
  <2>1. ASSUME NEW i \in DOMAIN review
        PROVE  IdentityOf(review'[i]) = review'[i].born \/ BornDone(i)'
    BY <1>1, BornStays DEF RowsOnce, BornMarked, NothingNew
  <2>2. QED
    BY <2>1 DEF NothingNew, BornMarked
<1>5. \A o \in OpId : /\ op'[o].status = "succeeded" <=> op[o].status = "succeeded"
                      /\ op[o].status = "succeeded" => op'[o].review = op[o].review
  BY DEF NothingNew, OpKept, Applied
<1>6. RowsSucceeded' /\ RecordedOnce'
  <2>1. RowsSucceeded'
    BY <1>5 DEF NothingNew, RowsOnce, RowsSucceeded
  <2>2. RecordedOnce'
    <3>1. \A k, m \in DOMAIN posted' : k # m => posted'[k].op # posted'[m].op
      BY DEF NothingNew, RowsOnce, RecordedOnce
    <3>2. ASSUME NEW o \in OpId
          PROVE  op'[o].status = "succeeded" <=>
                   \E k \in DOMAIN posted' :
                     posted'[k].op = o /\ posted'[k].review = op'[o].review
      <4>1. ASSUME op'[o].status = "succeeded"
            PROVE  \E k \in DOMAIN posted' :
                     posted'[k].op = o /\ posted'[k].review = op'[o].review
        BY <1>5, <4>1 DEF NothingNew, RowsOnce, RecordedOnce
      <4>2. ASSUME NEW k \in DOMAIN posted, posted[k].op = o
            PROVE  op'[o].status = "succeeded"
        BY <1>5, <4>2 DEF RowsOnce, RowsSucceeded
      <4>3. QED
        BY <4>1, <4>2 DEF NothingNew
    <3>3. QED
      BY <3>1, <3>2 DEF RecordedOnce
  <2>3. QED
    BY <2>1, <2>2
<1>7. CreatedOnce'
  BY DEF RowsOnce, CreatedOnce, NothingNew
<1>8. QED
  BY <1>1, <1>2, <1>3, <1>4, <1>6, <1>7 DEF RowsOnce

\* The operation of q stays its own, and no review gets its marker.
Unhindered(q) ==
  /\ poster[q].pc \in Holding =>
       \A o \in OpId : o = poster[q].op /\ Holds(q, o) => Holds(q, o)'
  /\ poster[q].pc \in {"update", "create"} /\ Marked(q) = {} => Marked(q)' = {}

\* What the types say of the rows, once more.
LEMMA RowFacts ==
  ASSUME TypeInv
  PROVE  /\ ops \in Nat /\ ops <= MaxOps /\ OpId \subseteq Nat \ {0}
         /\ op \in [OpId -> OpRow] /\ poster \in [Poster -> PosterRow]
         /\ Len(posted) \in Nat /\ DOMAIN posted = 1..Len(posted)
         /\ \A k \in DOMAIN posted : posted[k] \in PostedRow /\ posted[k].op \in OpId
         /\ Len(review) \in Nat /\ DOMAIN review = 1..Len(review)
         /\ \A i \in DOMAIN review : review[i] \in ReviewRow
<1>1. posted \in Seq(PostedRow) /\ review \in Seq(ReviewRow)
  BY DEF TypeInv, PostedTyped, ReviewTyped
<1>2. \A k \in DOMAIN posted : posted[k] \in PostedRow
  BY <1>1
<1>3. \A r \in PostedRow : r.op \in OpId
  BY DEF PostedRow
<1>4. ops \in Nat /\ ops <= MaxOps /\ OpId \subseteq Nat \ {0}
  BY Bounds DEF TypeInv, OpTyped, OpId
<1>5. op \in [OpId -> OpRow] /\ poster \in [Poster -> PosterRow]
  BY DEF TypeInv, OpTyped, PosterTyped
<1>6. /\ Len(posted) \in Nat /\ DOMAIN posted = 1..Len(posted)
      /\ Len(review) \in Nat /\ DOMAIN review = 1..Len(review)
  BY <1>1, LenProperties
<1>7. \A i \in DOMAIN review : review[i] \in ReviewRow
  BY <1>1
<1>8. QED
  BY <1>2, <1>3, <1>4, <1>5, <1>6, <1>7

\* Posters that take no step, and are not hindered.
LEMMA IdleOnesKept ==
  ASSUME TypeInv, OnceInv, ops' \in Nat, ops <= ops', BornKept,
         \A o \in OpId : o <= ops => OpKept(o),
         NEW q \in Poster, poster'[q] = poster[q], Unhindered(q)
  PROVE  PosterOnce(q)'
<1>1. ops \in Nat /\ PosterOK(poster[q], Len(posted)) /\ PosterOnce(q)
  BY RowFacts DEF TypeInv, PosterTyped, OnceInv
<1>2. \A o \in OpId : op[o].status \in Applied => o <= ops
  <2>1. ASSUME NEW o \in OpId, op[o].status \in Applied, o > ops PROVE FALSE
    BY <2>1 DEF OnceInv, RowsOnce, OpOnce, Applied
  <2>2. QED
    BY <1>1, <2>1, RowFacts
<1>3. QED
  BY <1>1, <1>2, OthersKept DEF Unhindered

\* A step that creates, reserves and records nothing.
LEMMA StepKeeps ==
  ASSUME TypeInv, OnceInv, NothingNew,
         \A q \in Poster : PosterOnce(q)' \/ (poster'[q] = poster[q] /\ Unhindered(q))
  PROVE  OnceInv'
<1>1. RowsOnce' /\ BornKept
  BY NothingNewKeeps, RowFacts DEF OnceInv
<1>2. ops' \in Nat /\ ops <= ops' /\ \A o \in OpId : OpKept(o)
  BY RowFacts DEF NothingNew
<1>3. \A q \in Poster : PosterOnce(q)'
  BY <1>1, <1>2, IdleOnesKept
<1>4. QED
  BY <1>1, <1>3 DEF OnceInv

\* A step that writes neither operations nor posted comments nor reviews.
LEMMA QuietKeeps ==
  ASSUME TypeInv, OnceInv, UNCHANGED <<op, ops, posted, review>>,
         \A q \in Poster : PosterOnce(q)' \/ poster'[q] = poster[q]
  PROVE  OnceInv'
<1>1. NothingNew
  BY DEF NothingNew, OpKept, Applied
<1>2. \A q \in Poster : poster'[q] = poster[q] => Unhindered(q)
  BY DEF Unhindered, Holds, Marked, Identity, CommentBody
<1>3. QED
  BY <1>1, <1>2, StepKeeps

\* The reviews a poster that takes no step looks for.
LEMMA MarkedKept ==
  ASSUME NEW q \in Poster, poster'[q] = poster[q], UNCHANGED review
  PROVE  Marked(q)' = Marked(q)
  BY DEF Marked, Identity, CommentBody

\* A request that ends knows nothing.
LEMMA LeaveKnows ==
  ASSUME TypeInv, NEW p \in Poster, Leave(p)
  PROVE  PosterOnce(p)' /\ \A q \in Poster \ {p} : poster'[q] = poster[q]
<1>1. poster'[p] = IdlePoster /\ \A q \in Poster \ {p} : poster'[q] = poster[q]
  BY RowFacts DEF Leave
<1>2. poster'[p].pc = "idle"
  BY <1>1 DEF IdlePoster
<1>3. QED
  BY <1>1, <1>2 DEF PosterOnce, Chose, Chosen, Working, Holding

\* A request that goes on with the variables it has.
LEMMA GoToKnows ==
  ASSUME TypeInv, NEW p \in Poster, NEW pc, GoTo(p, pc)
  PROVE  /\ poster'[p].pc = pc /\ Identity(p)' = Identity(p)
         /\ poster'[p].op = poster[p].op /\ poster'[p].review = poster[p].review
         /\ poster'[p].prev = poster[p].prev /\ poster'[p].todo = poster[p].todo
         /\ poster'[p].vendor = poster[p].vendor /\ poster'[p].new = poster[p].new
         /\ poster'[p].shown = poster[p].shown
         /\ \A q \in Poster \ {p} : poster'[q] = poster[q]
<1>1. poster[p] \in PosterRow
  BY RowFacts
<1>2. poster'[p] = [poster[p] EXCEPT !.pc = pc] /\ \A q \in Poster \ {p} : poster'[q] = poster[q]
  BY RowFacts DEF GoTo
<1>3. /\ poster'[p].pc = pc
      /\ poster'[p].op = poster[p].op /\ poster'[p].review = poster[p].review
      /\ poster'[p].prev = poster[p].prev /\ poster'[p].todo = poster[p].todo
      /\ poster'[p].vendor = poster[p].vendor /\ poster'[p].new = poster[p].new
      /\ poster'[p].shown = poster[p].shown
  BY <1>1, <1>2 DEF PosterRow
<1>4. Identity(p)' = Identity(p)
  BY <1>3 DEF Identity, CommentBody
<1>5. QED
  BY <1>2, <1>3, <1>4

---------------------------------------------------------------------------
(* Steps that write no operation and no review                             *)

\* A request begins with comments that show what is new in them.
LEMMA BuildOnce ==
  ASSUME TypeInv, OnceInv, NEW p \in Poster, BuildComments(p)
  PROVE  OnceInv'
<1> DEFINE new == ToPost(p[2])
           shown == ToShow(p[2])
           vendors == {VendorOf[f] : f \in ToPost(p[2])}
           row == [IdlePoster EXCEPT !.pc = "check", !.shown = shown, !.new = new,
                                     !.todo = vendors]
<1>1. poster' = [poster EXCEPT ![p] = row]
  BY DEF BuildComments
<1>2. \A v \in vendors : \E f \in new, t \in Text : VendorOf[f] = v /\ <<f, t>> \in shown
  <2>1. ASSUME NEW f \in new
        PROVE  finding[f].text \in Text /\ <<f, finding[f].text>> \in shown
    <3>1. f \in Finding /\ finding[f].status \in Postable /\ RunOf[f] = p[2]
      BY DEF ToPost, Decided
    <3>2. finding[f].text \in Text
      BY <3>1 DEF TypeInv, FindingTyped, FindingRow
    <3>3. QED
      BY <3>1, <3>2 DEF ToShow, Decided, Displayed
  <2> HIDE DEF shown
  <2>2. ASSUME NEW v \in vendors
        PROVE  \E f \in new, t \in Text : VendorOf[f] = v /\ <<f, t>> \in shown
    <3>1. PICK f \in new : VendorOf[f] = v
      OBVIOUS
    <3>2. QED
      BY <2>1, <3>1
  <2>3. QED
    BY <2>2
<1> HIDE DEF new, shown, vendors
<1>3. row.pc = "check" /\ row.shown = shown /\ row.new = new /\ row.todo = vendors
  BY DEF IdlePoster
<1>4. Chose(row)
  BY <1>2, <1>3 DEF Chose, Chosen
<1>5. PosterOnce(p)'
  <2>1. poster'[p] = row
    BY <1>1, RowFacts
  <2> HIDE DEF row
  <2>2. QED
    BY <1>3, <1>4, <2>1 DEF PosterOnce, Working, Holding
<1>6. \A q \in Poster \ {p} : poster'[q] = poster[q]
  BY <1>1, RowFacts
<1>7. UNCHANGED <<op, ops, posted, review>>
  BY DEF BuildComments, dbVars
<1>8. QED
  BY <1>5, <1>6, <1>7, QuietKeeps

\* A request that goes on to a step without an operation.
LEMMA GoOnOnce ==
  ASSUME TypeInv, OnceInv, NEW p \in Poster, GoTo(p, "prev"), poster[p].pc = "check",
         UNCHANGED <<op, ops, posted, review>>
  PROVE  OnceInv'
<1>1. Chose(poster[p])
  BY DEF OnceInv, PosterOnce
<1>2. /\ poster'[p].pc = "prev" /\ poster'[p].todo = poster[p].todo
      /\ poster'[p].new = poster[p].new /\ poster'[p].shown = poster[p].shown
      /\ \A q \in Poster \ {p} : poster'[q] = poster[q]
  BY GoToKnows
<1>3. PosterOnce(p)'
  BY <1>1, <1>2 DEF PosterOnce, Chose, Chosen, Working, Holding
<1>4. QED
  BY <1>2, <1>3, QuietKeeps

\* A request that ends, or dies.
LEMMA EndOnce ==
  ASSUME TypeInv, OnceInv, NEW p \in Poster, Leave(p), UNCHANGED <<op, ops, posted, review>>
  PROVE  OnceInv'
  BY LeaveKnows, QuietKeeps

\* The next comment and the review to replace are chosen.
LEMMA CheckHeadOnce ==
  ASSUME TypeInv, OnceInv, NEW p \in Poster, CheckHead(p)
  PROVE  OnceInv'
<1>1. UNCHANGED <<op, ops, posted, review>> /\ poster[p].pc = "prev"
  BY DEF CheckHead, dbVars
<1>2. CASE Leave(p)
  BY <1>1, <1>2, EndOnce
<1>3. CASE \E v \in poster[p].todo :
             poster' = [poster EXCEPT ![p].pc = "prepare",
                                      ![p].vendor = v, ![p].prev = CurrentRow(v)]
  <2>1. PICK v \in poster[p].todo :
          poster' = [poster EXCEPT ![p].pc = "prepare",
                                   ![p].vendor = v, ![p].prev = CurrentRow(v)]
    BY <1>3
  <2>2. /\ poster'[p] = [poster[p] EXCEPT !.pc = "prepare", !.vendor = v, !.prev = CurrentRow(v)]
        /\ \A q \in Poster \ {p} : poster'[q] = poster[q]
    BY <2>1, RowFacts
  <2>3. /\ poster'[p].pc = "prepare" /\ poster'[p].vendor = v
        /\ poster'[p].todo = poster[p].todo /\ poster'[p].new = poster[p].new
        /\ poster'[p].shown = poster[p].shown
    BY <2>2, RowFacts DEF PosterRow
  <2>4. Chose(poster[p])
    BY DEF OnceInv, PosterOnce
  <2>5. PosterOnce(p)'
    BY <1>1, <2>3, <2>4 DEF PosterOnce, Chose, Chosen, Working, Holding
  <2>6. QED
    BY <1>1, <2>2, <2>5, QuietKeeps
<1>4. QED
  BY <1>2, <1>3 DEF CheckHead

\* A review with the marker is adopted; without one the poster has looked.
LEMMA FindOnce ==
  ASSUME TypeInv, OnceInv, NEW p \in Poster, FindRemote(p)
  PROVE  OnceInv'
<1>1. UNCHANGED <<op, ops, posted, review>> /\ poster[p].pc = "find"
  BY DEF FindRemote, dbVars
<1>2. /\ Chose(poster[p]) /\ poster[p].op <= ops /\ Holds(p, poster[p].op)
      /\ op[poster[p].op].status # "none" => IdentityOf(op[poster[p].op]) = Identity(p)
  BY <1>1 DEF OnceInv, PosterOnce, Working, Holding
<1>3. CASE Marked(p) # {}
  <2>1. PICK i \in Marked(p) : i = Max(Marked(p))
    <3>1. Marked(p) \in SUBSET (0..Len(review))
      BY RowFacts DEF Marked
    <3>2. QED
      BY <1>3, <3>1, RowFacts, MaxInSet
  <2> DEFINE row == [poster[p] EXCEPT !.pc = "mark", !.review = i]
  <2>2. poster' = [poster EXCEPT ![p] = row]
    BY <1>3, <2>1 DEF FindRemote
  <2>3. /\ row.pc = "mark" /\ row.review = i /\ row.op = poster[p].op
        /\ row.shown = poster[p].shown /\ row.vendor = poster[p].vendor
        /\ row.todo = poster[p].todo /\ row.new = poster[p].new
    BY RowFacts DEF PosterRow
  <2> HIDE DEF row
  <2>4. poster'[p] = row /\ \A q \in Poster \ {p} : poster'[q] = poster[q]
    BY <2>2, RowFacts
  <2>5. Identity(p)' = Identity(p)
    BY <2>3, <2>4 DEF Identity, CommentBody
  <2>6. BornFor(i, Identity(p))
    BY <2>1 DEF Marked, BornFor, OnceInv, RowsOnce, BornMarked
  <2>7. BornFor(i, Identity(p))'
    BY <1>1, <2>5, <2>6 DEF BornFor, BornDone
  <2>8. PosterOnce(p)'
    BY <1>1, <1>2, <2>3, <2>4, <2>5, <2>7
       DEF PosterOnce, Chose, Chosen, Working, Holding, Holds
  <2>9. QED
    BY <1>1, <2>4, <2>8, QuietKeeps
<1>4. CASE Marked(p) = {} /\ \E pc \in {"create", "update"} : GoTo(p, pc)
  <2>1. PICK pc \in {"create", "update"} : GoTo(p, pc)
    BY <1>4
  <2>2. /\ poster'[p].pc = pc /\ Identity(p)' = Identity(p)
        /\ poster'[p].op = poster[p].op
        /\ poster'[p].vendor = poster[p].vendor /\ poster'[p].todo = poster[p].todo
        /\ poster'[p].new = poster[p].new /\ poster'[p].shown = poster[p].shown
        /\ \A q \in Poster \ {p} : poster'[q] = poster[q]
    BY <2>1, GoToKnows
  <2>3. Marked(p)' = {}
    BY <1>1, <1>4, <2>2 DEF Marked
  <2>4. PosterOnce(p)'
    BY <1>1, <1>2, <2>2, <2>3
       DEF PosterOnce, Chose, Chosen, Working, Holding, Holds
  <2>5. QED
    BY <1>1, <2>2, <2>4, QuietKeeps
<1>5. QED
  BY <1>3, <1>4 DEF FindRemote

---------------------------------------------------------------------------
(* Steps that write operations                                             *)

\* A chosen comment shows something, and something new.
LEMMA CommentSaysSomething ==
  ASSUME TypeInv, OnceInv, NEW p \in Poster, poster[p].pc \in Chosen
  PROVE  CommentBody(p) # {} /\ CommentNew(p) # {}
<1>1. poster[p].vendor \in poster[p].todo /\ poster[p].pc # "idle"
  BY DEF OnceInv, PosterOnce, Chose, Chosen
<1>2. PICK f \in poster[p].new, t \in Text :
        VendorOf[f] = poster[p].vendor /\ <<f, t>> \in poster[p].shown
  BY <1>1 DEF OnceInv, PosterOnce, Chose
<1>3. f \in CommentNew(p)
  BY <1>2 DEF CommentNew
<1>4. <<f, t>> \in CommentBody(p)
  BY <1>2 DEF CommentBody
<1>5. QED
  BY <1>3, <1>4

\* Fields of a poster that gets an operation.
LEMMA OperationFields ==
  ASSUME NEW r \in PosterRow, NEW pc, NEW o, NEW i
  PROVE  /\ LET n == [r EXCEPT !.pc = pc, !.op = o] IN
            /\ n.pc = pc /\ n.op = o /\ n.shown = r.shown /\ n.new = r.new
            /\ n.todo = r.todo /\ n.vendor = r.vendor
         /\ LET n == [r EXCEPT !.pc = pc, !.op = o, !.review = i] IN
            /\ n.pc = pc /\ n.op = o /\ n.shown = r.shown /\ n.new = r.new
            /\ n.todo = r.todo /\ n.vendor = r.vendor /\ n.review = i
  BY DEF PosterRow

\* A poster finds an operation with the key of its comment.
TakenUp(p, o) ==
  /\ poster[p].pc = "prepare"
  /\ o \in Existing(p)
  /\ UNCHANGED <<op, ops, posted, review>>
  /\ poster' = IF op[o].status = "remote_applied"
               THEN [poster EXCEPT ![p].pc = "finalize", ![p].op = o,
                                   ![p].review = op[o].review]
               ELSE [poster EXCEPT ![p].pc = "claim", ![p].op = o]

\* The operation with the key of the comment is taken up.
LEMMA TakeUpOnce ==
  ASSUME TypeInv, OnceInv, NEW p \in Poster, NEW o, TakenUp(p, o)
  PROVE  OnceInv'
<1>0. UNCHANGED <<op, ops, posted, review>>
  BY DEF TakenUp
<1>1. o \in OpId /\ op[o].status # "none" /\ IdentityOf(op[o]) = Identity(p)
  BY DEF Existing, TakenUp
<1>2. o <= ops
  <2>1. ~(o > ops)
    BY <1>1 DEF OnceInv, RowsOnce, OpOnce
  <2>2. QED
    BY <1>1, <2>1, RowFacts
<1>3. Chose(poster[p]) /\ poster[p].pc = "prepare"
  BY DEF OnceInv, PosterOnce, TakenUp
<1>4. CASE op[o].status = "remote_applied"
  <2>1. /\ poster'[p] = [poster[p] EXCEPT !.pc = "finalize", !.op = o, !.review = op[o].review]
        /\ \A q \in Poster \ {p} : poster'[q] = poster[q]
    BY <1>4, RowFacts DEF TakenUp
  <2>2. /\ poster'[p].pc = "finalize" /\ poster'[p].op = o
        /\ poster'[p].review = op[o].review
        /\ poster'[p].todo = poster[p].todo /\ poster'[p].new = poster[p].new
        /\ poster'[p].shown = poster[p].shown /\ poster'[p].vendor = poster[p].vendor
    BY <2>1, RowFacts, OperationFields
  <2>3. PosterOnce(p)'
    BY <1>0, <1>3, <1>4, <2>2 DEF PosterOnce, Chose, Chosen, Working, Holding, Applied
  <2>4. QED
    BY <1>0, <2>1, <2>3, QuietKeeps
<1>5. CASE op[o].status # "remote_applied"
  <2>1. /\ poster'[p] = [poster[p] EXCEPT !.pc = "claim", !.op = o]
        /\ \A q \in Poster \ {p} : poster'[q] = poster[q]
    BY <1>5, RowFacts DEF TakenUp
  <2>2. /\ poster'[p].pc = "claim" /\ poster'[p].op = o
        /\ poster'[p].todo = poster[p].todo /\ poster'[p].new = poster[p].new
        /\ poster'[p].shown = poster[p].shown /\ poster'[p].vendor = poster[p].vendor
    BY <2>1, RowFacts, OperationFields
  <2>3. Identity(p)' = Identity(p)
    BY <2>2 DEF Identity, CommentBody
  <2>4. PosterOnce(p)'
    BY <1>0, <1>1, <1>2, <1>3, <2>2, <2>3 DEF PosterOnce, Chose, Chosen, Working, Holding
  <2>5. QED
    BY <1>0, <2>1, <2>4, QuietKeeps
<1>6. QED
  BY <1>4, <1>5

\* A new operation has a key no other has.
LEMMA ReserveOnce ==
  ASSUME TypeInv, OnceInv, NEW p \in Poster, Prepare(p), ops' = ops + 1
  PROVE  OnceInv'
<1> DEFINE row == [NoOpRow EXCEPT
                     !.status = "pending", !.run = p[2],
                     !.vendor = poster[p].vendor, !.body = CommentBody(p),
                     !.new = CommentNew(p)]
<1>0. /\ poster[p].pc = "prepare" /\ UNCHANGED <<posted, review>>
      /\ Existing(p) = {} /\ ops < MaxOps
      /\ op' = [op EXCEPT ![ops + 1] = row]
      /\ poster' = [poster EXCEPT ![p].pc = "claim", ![p].op = ops + 1]
  <2>1. ops # ops + 1
    BY RowFacts
  <2>2. QED
    BY <2>1 DEF Prepare
<1>1. PICK o \in OpId : o = ops + 1
  BY <1>0, RowFacts, Bounds DEF OpId
<1>2. op[o].status = "none" /\ ops \in Nat
  BY <1>1, RowFacts DEF OnceInv, RowsOnce, OpOnce
<1>3. /\ op'[o].status = "pending" /\ op'[o].new = CommentNew(p)
      /\ IdentityOf(op'[o]) = Identity(p)
      /\ \A q \in OpId \ {o} : op'[q] = op[q]
  BY <1>0, <1>1, RowFacts DEF NoOpRow, IdentityOf, Identity
<1> HIDE DEF row
<1>4. BornKept
  BY <1>0, <1>1, <1>2, <1>3 DEF BornKept
<1>5. ASSUME NEW q \in OpId PROVE OpOnce(q)'
  <2>1. CASE q = o
    BY <1>0, <1>1, <1>2, <1>3, <2>1, CommentSaysSomething DEF OpOnce, Applied, Chosen
  <2>2. CASE q # o
    <3>1. op'[q] = op[q] /\ OpOnce(q)
      BY <1>3, <2>2 DEF OnceInv, RowsOnce
    <3>2. q > ops' => op'[q].status = "none"
      BY <1>1, <1>2, <3>1, RowFacts DEF OpOnce
    <3>3. op'[q].status \in Applied => BornFor(op[q].review, IdentityOf(op[q]))'
      BY <1>4, <3>1, BornStays DEF OpOnce
    <3>4. QED
      BY <3>1, <3>2, <3>3 DEF OpOnce
  <2>3. QED
    BY <2>1, <2>2
<1>6. OneIdentity'
  <2>1. \A q \in OpId \ {o} :
          op'[q].status # "none" => op[q].status # "none" /\ IdentityOf(op'[q]) # Identity(p)
    BY <1>0, <1>3 DEF Existing
  <2>2. QED
    BY <1>3, <2>1 DEF OneIdentity, OnceInv, RowsOnce
<1>7. BornMarked'
  BY <1>0, <1>4, BornStays DEF BornMarked, OnceInv, RowsOnce
<1>8. \A k \in DOMAIN posted : posted[k].op \in OpId \ {o}
  BY <1>2, RowFacts DEF OnceInv, RowsOnce, RowsSucceeded
<1>9. RowsSucceeded'
  BY <1>0, <1>3, <1>8 DEF OnceInv, RowsOnce, RowsSucceeded
<1>10. RecordedOnce'
  <2>1. \A k, m \in DOMAIN posted' : k # m => posted'[k].op # posted'[m].op
    BY <1>0 DEF OnceInv, RowsOnce, RecordedOnce
  <2>2. ASSUME NEW q \in OpId
        PROVE  op'[q].status = "succeeded" <=>
                 \E k \in DOMAIN posted' :
                   posted'[k].op = q /\ posted'[k].review = op'[q].review
    <3>1. CASE q = o
      BY <1>0, <1>3, <1>8, <3>1
    <3>2. CASE q # o
      BY <1>0, <1>3, <3>2 DEF OnceInv, RowsOnce, RecordedOnce
    <3>3. QED
      BY <3>1, <3>2
  <2>3. QED
    BY <2>1, <2>2 DEF RecordedOnce
<1>11. CreatedOnce'
  BY <1>0 DEF OnceInv, RowsOnce, CreatedOnce
<1>12. PosterOnce(p)'
  <2>1. poster'[p] = [poster[p] EXCEPT !.pc = "claim", !.op = o]
    BY <1>0, <1>1, RowFacts
  <2>2. /\ poster'[p].pc = "claim" /\ poster'[p].op = o
        /\ poster'[p].todo = poster[p].todo /\ poster'[p].new = poster[p].new
        /\ poster'[p].shown = poster[p].shown /\ poster'[p].vendor = poster[p].vendor
    BY <2>1, RowFacts, OperationFields
  <2>3. Identity(p)' = Identity(p)
    BY <2>2 DEF Identity, CommentBody
  <2>4. Chose(poster[p]) /\ o <= ops'
    BY <1>0, <1>1, <1>2 DEF OnceInv, PosterOnce
  <2>5. QED
    BY <1>0, <1>3, <2>2, <2>3, <2>4 DEF PosterOnce, Chose, Chosen, Working, Holding
<1>13. ASSUME NEW q \in Poster \ {p} PROVE PosterOnce(q)'
  <2>1. poster'[q] = poster[q]
    BY <1>0, RowFacts
  <2>2. Unhindered(q)
    <3>1. Marked(q)' = Marked(q)
      BY <1>0, <2>1, MarkedKept
    <3>2. \A o2 \in OpId : Holds(q, o2) => Holds(q, o2)'
      BY <1>2, <1>3 DEF Holds
    <3>3. QED
      BY <3>1, <3>2 DEF Unhindered
  <2>3. \A o2 \in OpId : o2 <= ops => OpKept(o2)
    BY <1>1, <1>2, <1>3 DEF OpKept, Applied
  <2>4. ops' \in Nat /\ ops <= ops'
    BY <1>2
  <2>5. QED
    BY <1>4, <2>1, <2>2, <2>3, <2>4, IdleOnesKept
<1>14. QED
  BY <1>5, <1>6, <1>7, <1>9, <1>10, <1>11, <1>12, <1>13 DEF OnceInv, RowsOnce

\* Preparing takes up, reserves or gives up.
LEMMA PrepareOnce ==
  ASSUME TypeInv, OnceInv, NEW p \in Poster, Prepare(p)
  PROVE  OnceInv'
<1>1. CASE \E o : TakenUp(p, o)
  BY <1>1, TakeUpOnce
<1>2. CASE Leave(p) /\ UNCHANGED <<op, ops, posted, review>>
  BY <1>2, EndOnce
<1>3. CASE ops' = ops + 1
  BY <1>3, ReserveOnce
<1>4. QED
  BY <1>1, <1>2, <1>3 DEF Prepare, TakenUp

\* A poster that holds its operation works for the identity of it.
LEMMA HolderKnows ==
  ASSUME TypeInv, OnceInv, NEW p \in Poster, poster[p].pc \in Holding
  PROVE  /\ poster[p].op \in OpId /\ Holds(p, poster[p].op) /\ poster[p].op <= ops
         /\ IdentityOf(op[poster[p].op]) = Identity(p)
         /\ Chose(poster[p])
<1>1. poster[p].op \in OpId
  BY DEF TypeInv, PosterTyped, PosterOK, WithOp, Chosen, Holding
<1>2. Holds(p, poster[p].op)
  BY DEF OnceInv, PosterOnce
<1>3. op[poster[p].op].status # "none"
  BY <1>2 DEF Holds
<1>4. QED
  BY <1>1, <1>2, <1>3 DEF OnceInv, PosterOnce, Working

\* Two posters that hold operations write different comments.
LEMMA KeysDiffer ==
  ASSUME TypeInv, OnceInv, NEW p \in Poster, NEW q \in Poster, p # q,
         poster[p].pc \in Holding, poster[q].pc \in Holding
  PROVE  ~(p[2] = q[2] /\ CommentBody(p) = CommentBody(q))
<1> SUFFICES ASSUME p[2] = q[2], CommentBody(p) = CommentBody(q)
             PROVE  FALSE
  OBVIOUS
<1>1. PICK x \in CommentBody(p) : TRUE
  BY CommentSaysSomething DEF Holding, Chosen
<1>2. poster[p].vendor = VendorOf[x[1]] /\ poster[q].vendor = VendorOf[x[1]]
  BY <1>1 DEF CommentBody
<1>3. Identity(p) = Identity(q)
  BY <1>2 DEF Identity
<1>4. poster[p].op = poster[q].op
  BY <1>3, HolderKnows DEF OnceInv, RowsOnce, OneIdentity, Holds
<1>5. QED
  BY <1>4, HolderKnows DEF Holds

\* One operation row is written: what is left to show.
LEMMA OneOpWritten ==
  ASSUME TypeInv, OnceInv, NEW o \in OpId, NEW row, op' = [op EXCEPT ![o] = row],
         UNCHANGED <<ops, posted, review>>,
         \/ row.status = "none" /\ op[o].status \notin Applied
         \/ /\ op[o].status \in {"pending", "applying"}
            /\ row.status \in {"applying", "remote_applied"}
            /\ IdentityOf(row) = IdentityOf(op[o]) /\ row.new = op[o].new
            /\ row.status = "remote_applied" => BornFor(row.review, IdentityOf(op[o]))
  PROVE  NothingNew
<1>1. op'[o] = row /\ \A q \in OpId \ {o} : op'[q] = op[q]
  BY RowFacts
<1>2. ASSUME NEW q \in OpId
      PROVE  /\ OpKept(q)
             /\ op'[q].status = "succeeded" => op[q].status = "succeeded"
             /\ op'[q].status \in Applied =>
                  op[q].status \in Applied \/ BornFor(op'[q].review, IdentityOf(op'[q]))
  <2>1. CASE q = o
    BY <1>1, <2>1 DEF OpKept, Applied
  <2>2. CASE q # o
    BY <1>1, <2>2 DEF OpKept, Applied
  <2>3. QED
    BY <2>1, <2>2
<1>3. QED
  BY <1>2 DEF NothingNew

\* An operation is claimed, unless another poster works on it.
LEMMA ClaimOnce ==
  ASSUME TypeInv, OnceInv, NEW p \in Poster, ClaimOp(p)
  PROVE  OnceInv'
<1>1. poster[p].pc = "claim" /\ UNCHANGED <<ops, posted, review>>
  BY DEF ClaimOp
<1>2. CASE Leave(p) /\ UNCHANGED op
  BY <1>1, <1>2, EndOnce
<1>3. CASE Claimable(poster[p].op)
  <2>1. PICK o \in OpId : o = poster[p].op
    BY <1>1 DEF TypeInv, PosterTyped, PosterOK, WithOp, Chosen
  <2> DEFINE row == [op[o] EXCEPT !.status = "applying", !.owner = p, !.aged = FALSE]
  <2>2. op' = [op EXCEPT ![o] = row] /\ GoTo(p, "find")
    BY <1>3, <2>1 DEF ClaimOp
  <2>3. op[o].status \in {"pending", "applying"} /\ (op[o].status = "applying" => op[o].aged)
    BY <1>3, <2>1 DEF Claimable
  <2>4. /\ row.status = "applying" /\ row.owner = p /\ row.aged = FALSE
        /\ row.new = op[o].new /\ IdentityOf(row) = IdentityOf(op[o])
    <3>1. op[o] \in OpRow
      BY RowFacts
    <3>2. QED
      BY <3>1 DEF OpRow, IdentityOf
  <2> HIDE DEF row
  <2>5. NothingNew
    BY <1>1, <2>2, <2>3, <2>4, OneOpWritten
  <2>6. op'[o] = row /\ \A q \in OpId \ {o} : op'[q] = op[q]
    BY <2>2, RowFacts
  <2>7. /\ poster'[p].pc = "find" /\ Identity(p)' = Identity(p)
        /\ poster'[p].op = poster[p].op
        /\ poster'[p].vendor = poster[p].vendor /\ poster'[p].todo = poster[p].todo
        /\ poster'[p].new = poster[p].new /\ poster'[p].shown = poster[p].shown
        /\ \A q \in Poster \ {p} : poster'[q] = poster[q]
    BY <2>2, GoToKnows
  <2>8. /\ Chose(poster[p]) /\ o <= ops
        /\ op[o].status # "none" => IdentityOf(op[o]) = Identity(p)
    BY <1>1, <2>1 DEF OnceInv, PosterOnce, Working
  <2>9. PosterOnce(p)'
    <3>1. Chose(poster'[p])
      BY <1>1, <2>7, <2>8 DEF Chose, Chosen
    <3>2. Holds(p, o)'
      BY <2>4, <2>6 DEF Holds
    <3>3. IdentityOf(op'[o]) = Identity(p)'
      BY <2>3, <2>4, <2>6, <2>7, <2>8
    <3>4. QED
      BY <1>1, <2>1, <2>7, <2>8, <3>1, <3>2, <3>3 DEF PosterOnce, Working, Holding
  <2>10. ASSUME NEW q \in Poster \ {p} PROVE poster'[q] = poster[q] /\ Unhindered(q)
    <3>1. poster'[q] = poster[q] /\ Marked(q)' = Marked(q)
      BY <1>1, <2>7, MarkedKept
    <3>2. \A o2 \in OpId : Holds(q, o2) => Holds(q, o2)'
      BY <2>3, <2>6 DEF Holds
    <3>3. QED
      BY <3>1, <3>2 DEF Unhindered
  <2>11. QED
    BY <2>5, <2>9, <2>10, StepKeeps
<1>4. QED
  BY <1>2, <1>3 DEF ClaimOp

\* A lock grows old only when nobody works on the operation.
LEMMA LockAgesOnce ==
  ASSUME TypeInv, OnceInv, NEW o \in OpId, LockAges(o)
  PROVE  OnceInv'
<1> DEFINE row == [op[o] EXCEPT !.aged = TRUE]
<1>1. /\ op[o].status = "applying" /\ UNCHANGED <<ops, posted, review, poster>>
      /\ op' = [op EXCEPT ![o] = row]
  BY DEF LockAges
<1>2. row.status = "applying" /\ row.new = op[o].new /\ IdentityOf(row) = IdentityOf(op[o])
  <2>1. op[o] \in OpRow
    BY RowFacts
  <2>2. QED
    BY <1>1, <2>1 DEF OpRow, IdentityOf
<1> HIDE DEF row
<1>3. NothingNew
  BY <1>1, <1>2, OneOpWritten
<1>4. ASSUME NEW q \in Poster PROVE poster'[q] = poster[q] /\ Unhindered(q)
  <2>1. poster'[q] = poster[q] /\ Marked(q)' = Marked(q)
    BY <1>1, MarkedKept
  <2>2. poster[q].pc \in Holding => poster[q].op # o
    BY DEF LockAges, Holding
  <2>3. \A o2 \in OpId \ {o} : Holds(q, o2) => Holds(q, o2)'
    BY <1>1, RowFacts DEF Holds
  <2>4. QED
    BY <2>1, <2>2, <2>3 DEF Unhindered
<1>5. QED
  BY <1>3, <1>4, StepKeeps

\* A poster that goes on still has comments that show something new.
LEMMA ChoseOn ==
  ASSUME NEW r, NEW n, Chose(r), r.pc # "idle", n.pc \in Chosen => r.pc \in Chosen,
         n.todo = r.todo, n.new = r.new, n.shown = r.shown, n.vendor = r.vendor
  PROVE  Chose(n)
  BY DEF Chose

\* The operation is marked applied with a review that was created for it.
LEMMA MarkOnce ==
  ASSUME TypeInv, OnceInv, NEW p \in Poster, MarkRemote(p)
  PROVE  OnceInv'
<1>1. poster[p].pc = "mark" /\ UNCHANGED <<ops, posted, review>>
  BY DEF MarkRemote
<1>2. CASE Leave(p) /\ UNCHANGED op
  BY <1>1, <1>2, EndOnce
<1>3. CASE Owned(p)
  <2>1. PICK o \in OpId : o = poster[p].op
    BY <1>1, HolderKnows DEF Holding
  <2>2. PICK i \in DOMAIN review : i = poster[p].review /\ BornFor(i, Identity(p))
    BY <1>1 DEF OnceInv, PosterOnce, BornFor
  <2> DEFINE row == [op[o] EXCEPT !.status = "remote_applied", !.review = i, !.owner = None]
  <2>3. op' = [op EXCEPT ![o] = row] /\ GoTo(p, "finalize")
    BY <1>3, <2>1, <2>2 DEF MarkRemote
  <2>4. /\ row.status = "remote_applied" /\ row.review = i
        /\ row.new = op[o].new /\ IdentityOf(row) = IdentityOf(op[o])
    <3>1. op[o] \in OpRow
      BY RowFacts
    <3>2. QED
      BY <3>1 DEF OpRow, IdentityOf
  <2> HIDE DEF row
  <2>5. /\ op[o].status = "applying" /\ op[o].owner = p
        /\ IdentityOf(op[o]) = Identity(p) /\ Chose(poster[p])
    BY <1>1, <2>1, HolderKnows DEF Holding, Holds
  <2>6. NothingNew
    BY <1>1, <2>2, <2>3, <2>4, <2>5, OneOpWritten
  <2>7. op'[o] = row /\ \A q \in OpId \ {o} : op'[q] = op[q]
    BY <2>3, RowFacts
  <2>8. /\ poster'[p].pc = "finalize" /\ poster'[p].op = poster[p].op
        /\ poster'[p].review = poster[p].review
        /\ poster'[p].vendor = poster[p].vendor /\ poster'[p].todo = poster[p].todo
        /\ poster'[p].new = poster[p].new /\ poster'[p].shown = poster[p].shown
        /\ \A q \in Poster \ {p} : poster'[q] = poster[q]
    BY <2>3, GoToKnows
  <2>9. PosterOnce(p)'
    <3>1. Chose(poster'[p])
      <4>1. poster[p].pc # "idle" /\ poster[p].pc \in Chosen
        BY <1>1 DEF Chosen
      <4>2. QED
        BY <2>5, <2>8, <4>1, ChoseOn
    <3>2. QED
      BY <2>1, <2>2, <2>4, <2>7, <2>8, <3>1 DEF PosterOnce, Working, Holding, Applied
  <2>10. ASSUME NEW q \in Poster \ {p} PROVE poster'[q] = poster[q] /\ Unhindered(q)
    <3>1. poster'[q] = poster[q] /\ Marked(q)' = Marked(q)
      BY <1>1, <2>8, MarkedKept
    <3>2. \A o2 \in OpId : Holds(q, o2) => Holds(q, o2)'
      BY <2>5, <2>7 DEF Holds
    <3>3. QED
      BY <3>1, <3>2 DEF Unhindered
  <2>11. QED
    BY <2>6, <2>9, <2>10, StepKeeps
<1>4. QED
  BY <1>2, <1>3 DEF MarkRemote

\* A deleted review is not looked for.
LEMMA RemoveOnce ==
  ASSUME TypeInv, OnceInv, NEW i \in DOMAIN review, RemoveReview(i)
  PROVE  OnceInv'
<1>1. /\ review' = [review EXCEPT ![i] = [review[i] EXCEPT !.state = "deleted"]]
      /\ UNCHANGED <<op, ops, posted, poster>>
  BY DEF RemoveReview, dbVars
<1>2. DOMAIN review' = DOMAIN review
  BY <1>1
<1>3. ASSUME NEW k \in DOMAIN review
      PROVE  /\ review'[k].born = review[k].born
             /\ review'[k].state = "shown" => review[k].state = "shown"
             /\ IdentityOf(review'[k]) = IdentityOf(review[k])
  <2>1. review[i] \in ReviewRow
    BY RowFacts
  <2>2. review'[k] = IF k = i THEN [review[i] EXCEPT !.state = "deleted"] ELSE review[k]
    BY <1>1
  <2>3. QED
    BY <2>1, <2>2 DEF ReviewRow, IdentityOf
<1>4. NothingNew
  BY <1>1, <1>2, <1>3 DEF NothingNew, OpKept, Applied
<1>5. ASSUME NEW q \in Poster PROVE poster'[q] = poster[q] /\ Unhindered(q)
  <2>1. Identity(q)' = Identity(q)
    BY <1>1 DEF Identity, CommentBody
  <2>2. Marked(q)' \subseteq Marked(q)
    BY <1>2, <1>3, <2>1 DEF Marked
  <2>3. QED
    BY <1>1, <2>2 DEF Unhindered, Holds
<1>6. QED
  BY <1>4, <1>5, StepKeeps

\* Another poster's review does not get the marker of q.
LEMMA NotMarked ==
  ASSUME TypeInv, OnceInv, NEW p \in Poster, poster[p].pc \in Holding,
         NEW q \in Poster \ {p}, poster'[q] = poster[q], Marked(q) = {},
         poster[q].pc \in {"update", "create"},
         \A k \in DOMAIN review' :
           \/ k \in DOMAIN review /\ review'[k] = review[k]
           \/ review'[k].run = p[2] /\ review'[k].body = CommentBody(p)
  PROVE  Marked(q)' = {}
<1>1. Identity(q)' = Identity(q)
  BY DEF Identity, CommentBody
<1>2. ASSUME NEW k \in DOMAIN review', review'[k].state = "shown",
             IdentityOf(review'[k]) = Identity(q)
      PROVE  FALSE
  <2>1. CASE k \in DOMAIN review /\ review'[k] = review[k]
    BY <1>2, <2>1 DEF Marked
  <2>2. CASE review'[k].run = p[2] /\ review'[k].body = CommentBody(p)
    <3>1. review'[k].run = q[2] /\ review'[k].body = CommentBody(q)
      BY <1>2 DEF IdentityOf, Identity
    <3>2. QED
      BY <2>2, <3>1, KeysDiffer DEF Holding
  <2>3. QED
    BY <2>1, <2>2
<1>3. QED
  BY <1>1, <1>2 DEF Marked

\* A poster whose request was answered knows the review; one that got no answer ends.
LEMMA AnsweredKnows ==
  ASSUME TypeInv, OnceInv, NEW p \in Poster, NEW i, Answered(p, i),
         poster[p].pc \in Holding, UNCHANGED <<op, ops>>,
         i \in DOMAIN review', review'[i].born = Identity(p) \/ BornDone(i)'
  PROVE  PosterOnce(p)' /\ \A q \in Poster \ {p} : poster'[q] = poster[q]
<1>1. CASE Leave(p)
  BY <1>1, LeaveKnows
<1>2. CASE poster' = [poster EXCEPT ![p].pc = "mark", ![p].review = i]
  <2>1. /\ poster'[p] = [poster[p] EXCEPT !.pc = "mark", !.review = i]
        /\ \A q \in Poster \ {p} : poster'[q] = poster[q]
    BY <1>2, RowFacts
  <2>2. /\ poster'[p].pc = "mark" /\ poster'[p].review = i /\ poster'[p].op = poster[p].op
        /\ poster'[p].vendor = poster[p].vendor /\ poster'[p].todo = poster[p].todo
        /\ poster'[p].new = poster[p].new /\ poster'[p].shown = poster[p].shown
    BY <2>1, RowFacts DEF PosterRow
  <2>3. Identity(p)' = Identity(p)
    BY <2>2 DEF Identity, CommentBody
  <2>4. /\ poster[p].op <= ops /\ Holds(p, poster[p].op)
        /\ IdentityOf(op[poster[p].op]) = Identity(p) /\ Chose(poster[p])
    BY HolderKnows
  <2>5. Chose(poster'[p])
    BY <2>2, <2>4 DEF Chose, Chosen, Holding
  <2>6. PosterOnce(p)'
    BY <2>2, <2>3, <2>4, <2>5 DEF PosterOnce, Working, Holding, Holds, BornFor
  <2>7. QED
    BY <2>1, <2>6
<1>3. QED
  BY <1>1, <1>2 DEF Answered

\* The review a poster replaces was recorded before.
LEMMA PrevDone ==
  ASSUME TypeInv, OnceInv, NEW p \in Poster, poster[p].pc = "update"
  PROVE  \E i \in DOMAIN review : i = posted[poster[p].prev].review /\ BornDone(i)
<1>1. poster[p].prev \in DOMAIN posted
  <2>1. poster[p].prev # NoRow /\ poster[p].prev <= Len(posted) /\ poster[p].prev \in Nat
    BY RowFields DEF TypeInv, PosterTyped, PosterOK
  <2>2. QED
    BY <2>1, RowFacts DEF NoRow
<1>2. PICK k \in DOMAIN posted : k = poster[p].prev
  BY <1>1
<1>3. PICK o \in OpId : o = posted[k].op
  BY RowFacts
<1>4. op[o].status = "succeeded" /\ posted[k].review = op[o].review
  BY <1>3 DEF OnceInv, RowsOnce, RowsSucceeded
<1>5. BornFor(op[o].review, IdentityOf(op[o]))
  BY <1>4 DEF OnceInv, RowsOnce, OpOnce, Applied
<1>6. op[o].review \in DOMAIN review /\ BornDone(op[o].review)
  BY <1>4, <1>5 DEF BornFor, BornDone
<1>7. QED
  BY <1>2, <1>4, <1>6

\* A review whose creation is recorded may get another text.
LEMMA UpdateShownOnce ==
  ASSUME TypeInv, OnceInv, NEW p \in Poster, poster[p].pc = "update",
         NEW i \in DOMAIN review, BornDone(i),
         review' = [review EXCEPT ![i].run = p[2], ![i].body = CommentBody(p)],
         Answered(p, i), UNCHANGED <<op, ops, posted>>
  PROVE  OnceInv'
<1> DEFINE row == [review[i] EXCEPT !.run = p[2], !.body = CommentBody(p)]
<1>1. review' = [review EXCEPT ![i] = row]
  OBVIOUS
<1>2. /\ row.run = p[2] /\ row.body = CommentBody(p)
      /\ row.born = review[i].born /\ row.state = review[i].state
  <2>1. review[i] \in ReviewRow
    BY RowFacts
  <2>2. QED
    BY <2>1 DEF ReviewRow
<1> HIDE DEF row
<1>3. DOMAIN review' = DOMAIN review
  BY <1>1
<1>4. review'[i] = row /\ \A k \in DOMAIN review \ {i} : review'[k] = review[k]
  BY <1>1
<1>5. NothingNew
  <2>1. ASSUME NEW k \in DOMAIN review
        PROVE  /\ review'[k].born = review[k].born
               /\ review'[k].state = "shown" => review[k].state = "shown"
               /\ IdentityOf(review'[k]) = IdentityOf(review[k]) \/ BornDone(k)
    BY <1>2, <1>4
  <2>2. \A o \in OpId : OpKept(o)
    BY DEF OpKept, Applied
  <2>3. QED
    BY <1>3, <2>1, <2>2 DEF NothingNew
<1>6. BornDone(i)'
  BY <1>5, NothingNewKeeps, BornStays, RowFacts DEF OnceInv
<1>7. PosterOnce(p)' /\ \A q \in Poster \ {p} : poster'[q] = poster[q]
  BY <1>3, <1>6, AnsweredKnows DEF Holding
<1>8. \A k \in DOMAIN review' :
        \/ k \in DOMAIN review /\ review'[k] = review[k]
        \/ review'[k].run = p[2] /\ review'[k].body = CommentBody(p)
  BY <1>2, <1>3, <1>4
<1>9. ASSUME NEW q \in Poster \ {p} PROVE Unhindered(q)
  BY <1>7, <1>8, NotMarked DEF Unhindered, Holds, Holding
<1>10. QED
  BY <1>5, <1>7, <1>9, StepKeeps

\* An operation whose review is gone is aborted by the poster that holds it.
LEMMA AbortOnce ==
  ASSUME TypeInv, OnceInv, NEW p \in Poster, poster[p].pc = "update",
         Leave(p), AbortUnapplied(p), UNCHANGED <<ops, posted, review>>
  PROVE  OnceInv'
<1>1. CASE UNCHANGED op
  BY <1>1, EndOnce
<1>2. CASE op' = [op EXCEPT ![poster[p].op] = NoOpRow]
  <2>1. PICK o \in OpId : o = poster[p].op
    BY HolderKnows DEF Holding
  <2>2. op[o].status = "applying" /\ op[o].owner = p
    BY <2>1, HolderKnows DEF Holding, Holds
  <2>3. NoOpRow.status = "none"
    BY DEF NoOpRow
  <2>4. NothingNew
    BY <1>2, <2>1, <2>2, <2>3, OneOpWritten DEF Applied
  <2>5. \A q \in OpId \ {o} : op'[q] = op[q]
    BY <1>2, <2>1, RowFacts
  <2>6. PosterOnce(p)' /\ \A q \in Poster \ {p} : poster'[q] = poster[q]
    BY LeaveKnows
  <2>7. ASSUME NEW q \in Poster \ {p} PROVE Unhindered(q)
    <3>1. Marked(q)' = Marked(q)
      BY <2>6, MarkedKept
    <3>2. \A o2 \in OpId : Holds(q, o2) => Holds(q, o2)'
      BY <2>2, <2>5 DEF Holds
    <3>3. QED
      BY <3>1, <3>2 DEF Unhindered
  <2>8. QED
    BY <2>4, <2>6, <2>7, StepKeeps
<1>3. QED
  BY <1>1, <1>2 DEF AbortUnapplied

\* A poster that goes on to create a review found none with the marker.
LEMMA GoCreateOnce ==
  ASSUME TypeInv, OnceInv, NEW p \in Poster, poster[p].pc = "update", GoTo(p, "create"),
         UNCHANGED <<op, ops, posted, review>>
  PROVE  OnceInv'
<1>1. /\ poster'[p].pc = "create" /\ Identity(p)' = Identity(p)
      /\ poster'[p].op = poster[p].op
      /\ poster'[p].vendor = poster[p].vendor /\ poster'[p].todo = poster[p].todo
      /\ poster'[p].new = poster[p].new /\ poster'[p].shown = poster[p].shown
      /\ \A q \in Poster \ {p} : poster'[q] = poster[q]
  BY GoToKnows
<1>2. /\ poster[p].op <= ops /\ Holds(p, poster[p].op)
      /\ IdentityOf(op[poster[p].op]) = Identity(p) /\ Chose(poster[p])
  BY HolderKnows DEF Holding
<1>3. Marked(p)' = {}
  <2>1. Marked(p) = {}
    BY DEF OnceInv, PosterOnce
  <2>2. QED
    BY <1>1, <2>1 DEF Marked
<1>4. Chose(poster'[p])
  BY <1>1, <1>2, ChoseOn DEF Chosen
<1>5. PosterOnce(p)'
  BY <1>1, <1>2, <1>3, <1>4 DEF PosterOnce, Working, Holding, Holds
<1>6. QED
  BY <1>1, <1>5, QuietKeeps

\* The body of the previous review is replaced, or it is gone.
LEMMA UpdateOnce ==
  ASSUME TypeInv, OnceInv, NEW p \in Poster, UpdateReview(p)
  PROVE  OnceInv'
<1>1. poster[p].pc = "update" /\ UNCHANGED <<ops, posted>>
  BY DEF UpdateReview
<1>2. PICK i \in DOMAIN review : i = posted[poster[p].prev].review /\ BornDone(i)
  BY <1>1, PrevDone
<1>3. CASE /\ review' = [review EXCEPT ![i].run = p[2], ![i].body = CommentBody(p)]
           /\ Answered(p, i) /\ UNCHANGED op
  BY <1>1, <1>2, <1>3, UpdateShownOnce
<1>4. CASE GoTo(p, "create") /\ UNCHANGED <<op, review>>
  BY <1>1, <1>4, GoCreateOnce
<1>5. CASE Leave(p) /\ AbortUnapplied(p) /\ UNCHANGED review
  BY <1>1, <1>5, AbortOnce
<1>6. QED
  BY <1>2, <1>3, <1>4, <1>5 DEF UpdateReview

\* A row is appended after all others, which stay.
LEMMA AppendKeeps ==
  ASSUME NEW S, NEW s \in Seq(S), NEW e \in S
  PROVE  /\ DOMAIN Append(s, e) = DOMAIN s \cup {Len(s) + 1}
         /\ Len(s) + 1 \notin DOMAIN s
         /\ Append(s, e)[Len(s) + 1] = e
         /\ \A k \in DOMAIN s : Append(s, e)[k] = s[k]
<1>1. /\ Append(s, e) \in Seq(S) /\ Len(Append(s, e)) = Len(s) + 1
      /\ \A k \in 1..Len(s) : Append(s, e)[k] = s[k]
      /\ Append(s, e)[Len(s) + 1] = e
  BY AppendProperties
<1>2. /\ Len(s) \in Nat /\ DOMAIN s = 1..Len(s)
      /\ DOMAIN Append(s, e) = 1..Len(Append(s, e))
  BY <1>1, LenProperties
<1>3. QED
  BY <1>1, <1>2

\* A review is created only while no shown review was created for the same identity:
\* the marker was looked for, nobody else works for the identity, and what was created
\* for it earlier still carries the marker or is done with.
LEMMA CreateOnce ==
  ASSUME TypeInv, OnceInv, NEW p \in Poster, CreateReview(p)
  PROVE  OnceInv'
<1> DEFINE row == [state |-> "shown", run |-> p[2], vendor |-> poster[p].vendor,
                   body |-> CommentBody(p), born |-> Identity(p)]
           last == Len(review) + 1
<1>1. /\ poster[p].pc = "create" /\ UNCHANGED <<op, ops, posted>>
      /\ review' = Append(review, row) /\ Answered(p, last)
  BY DEF CreateReview, dbVars
<1>2. /\ row.state = "shown" /\ row.run = p[2] /\ row.body = CommentBody(p)
      /\ row.born = Identity(p) /\ IdentityOf(row) = Identity(p)
  BY DEF IdentityOf, Identity
<1>0. row \in ReviewRow
  <2>1. p[2] \in Run /\ CommentBody(p) \in Body /\ poster[p].vendor \in Vendor
    BY <1>1, CommentTyped DEF TypeInv, Poster, PosterTyped, PosterOK, Chosen
  <2>2. QED
    BY <2>1 DEF ReviewRow, Identity
<1> HIDE DEF row
<1>3. /\ DOMAIN review' = DOMAIN review \cup {last} /\ last \notin DOMAIN review
      /\ review'[last] = row /\ \A k \in DOMAIN review : review'[k] = review[k]
  <2>1. review \in Seq(ReviewRow) /\ Len(review) \in Nat /\ DOMAIN review = 1..Len(review)
    BY RowFacts DEF TypeInv, ReviewTyped
  <2>2. QED
    BY <1>0, <1>1, <2>1, AppendKeeps
<1>4. PICK i : i = last
  OBVIOUS
<1> HIDE DEF last
<1>5. BornKept
  BY <1>1, <1>3 DEF BornKept
<1>6. ASSUME NEW o \in OpId PROVE OpOnce(o)'
  <2>1. op[o].status \in Applied => BornFor(op[o].review, IdentityOf(op[o]))
    BY DEF OnceInv, RowsOnce, OpOnce
  <2>2. op[o].status \in Applied => BornFor(op[o].review, IdentityOf(op[o]))'
    BY <1>1, <1>5, <2>1, BornStays
  <2>3. QED
    BY <1>1, <2>2 DEF OnceInv, RowsOnce, OpOnce
<1>7. BornMarked'
  BY <1>2, <1>3, <1>5, BornStays DEF OnceInv, RowsOnce, BornMarked
<1>8. OneIdentity' /\ RowsSucceeded' /\ RecordedOnce'
  BY <1>1 DEF OnceInv, RowsOnce, OneIdentity, RowsSucceeded, RecordedOnce
<1>9. \A k \in DOMAIN review : review[k].state = "shown" => review[k].born # Identity(p)
  <2>1. ASSUME NEW k \in DOMAIN review, review[k].state = "shown", review[k].born = Identity(p)
        PROVE  FALSE
    <3>1. CASE IdentityOf(review[k]) = review[k].born
      <4>1. k \in Marked(p)
        BY <2>1, <3>1 DEF Marked
      <4>2. QED
        BY <1>1, <4>1 DEF OnceInv, PosterOnce
    <3>2. CASE BornDone(k)
      <4>1. PICK o \in OpId : op[o].status = "succeeded" /\ IdentityOf(op[o]) = Identity(p)
        BY <2>1, <3>2 DEF BornDone
      <4>2. /\ poster[p].op \in OpId /\ op[poster[p].op].status = "applying"
            /\ IdentityOf(op[poster[p].op]) = Identity(p)
        BY <1>1, HolderKnows DEF Holding, Holds
      <4>3. o = poster[p].op
        BY <4>1, <4>2 DEF OnceInv, RowsOnce, OneIdentity
      <4>4. QED
        BY <4>1, <4>2, <4>3
    <3>3. QED
      BY <3>1, <3>2 DEF OnceInv, RowsOnce, BornMarked
  <2>2. QED
    BY <2>1
<1>10. CreatedOnce'
  <2>1. ASSUME NEW k \in DOMAIN review', NEW m \in DOMAIN review', k # m,
               review'[k].state = "shown", review'[m].state = "shown"
        PROVE  review'[k].born # review'[m].born
    <3>1. CASE k \in DOMAIN review /\ m \in DOMAIN review
      BY <1>3, <2>1, <3>1 DEF OnceInv, RowsOnce, CreatedOnce
    <3>2. CASE k = last
      BY <1>2, <1>3, <1>9, <2>1, <3>2
    <3>3. CASE m = last
      BY <1>2, <1>3, <1>9, <2>1, <3>3
    <3>4. QED
      BY <1>3, <2>1, <3>1, <3>2, <3>3
  <2>2. QED
    BY <2>1 DEF CreatedOnce
<1>11. PosterOnce(p)' /\ \A q \in Poster \ {p} : poster'[q] = poster[q]
  <2>1. Answered(p, i) /\ i \in DOMAIN review' /\ review'[i].born = Identity(p)
    BY <1>1, <1>2, <1>3, <1>4
  <2>2. QED
    BY <1>1, <2>1, AnsweredKnows DEF Holding
<1>12. \A k \in DOMAIN review' :
         \/ k \in DOMAIN review /\ review'[k] = review[k]
         \/ review'[k].run = p[2] /\ review'[k].body = CommentBody(p)
  BY <1>2, <1>3
<1>13. ASSUME NEW q \in Poster \ {p} PROVE PosterOnce(q)'
  <2>1. Unhindered(q)
    BY <1>1, <1>11, <1>12, NotMarked DEF Unhindered, Holds, Holding
  <2>2. \A o \in OpId : OpKept(o)
    BY <1>1 DEF OpKept, Applied
  <2>3. ops' \in Nat /\ ops <= ops'
    BY <1>1, RowFacts
  <2>4. QED
    BY <1>5, <1>11, <2>1, <2>2, <2>3, IdleOnesKept
<1>14. QED
  BY <1>6, <1>7, <1>8, <1>10, <1>11, <1>13 DEF OnceInv, RowsOnce

\* A poster that has posted one comment goes on with the rest, or ends.
LEMMA NextComment ==
  ASSUME TypeInv, OnceInv, NEW p \in Poster, Finalize(p), poster[p].pc = "finalize"
  PROVE  \/ Leave(p)
         \/ /\ poster'[p].pc = "check" /\ poster'[p].todo \subseteq poster[p].todo
            /\ poster'[p].new = poster[p].new /\ poster'[p].shown = poster[p].shown
            /\ \A q \in Poster \ {p} : poster'[q] = poster[q]
<1> DEFINE rest == poster[p].todo \ {poster[p].vendor}
           row == [poster[p] EXCEPT !.pc = "check", !.todo = rest, !.vendor = None,
                                    !.prev = NoRow, !.op = NoOp, !.review = NoReview]
<1>1. Leave(p) \/ poster' = [poster EXCEPT ![p] = IdlePoster]
      \/ poster' = [poster EXCEPT ![p] = row]
  BY DEF Finalize
<1>2. row.pc = "check" /\ row.todo = rest /\ row.new = poster[p].new
      /\ row.shown = poster[p].shown
  BY RowFacts DEF PosterRow
<1> HIDE DEF row
<1>3. poster' = [poster EXCEPT ![p] = row] =>
        poster'[p] = row /\ \A q \in Poster \ {p} : poster'[q] = poster[q]
  BY RowFacts
<1>4. QED
  BY <1>1, <1>2, <1>3 DEF Leave

\* The operation that is finalized was not recorded yet: a finding it lists is
\* reserved for it, and only an open operation has that.
LEMMA FinalizeOnce ==
  ASSUME TypeInv, ReservationsAgree, OnceInv, NEW p \in Poster, Finalize(p)
  PROVE  OnceInv'
<1>1. poster[p].pc = "finalize" /\ UNCHANGED <<ops, review>>
  BY DEF Finalize
<1>2. PICK o \in OpId : o = poster[p].op
  BY <1>1 DEF TypeInv, PosterTyped, PosterOK, WithOp, Chosen
<1>3. CASE Leave(p) /\ UNCHANGED <<op, posted>>
  BY <1>1, <1>3, EndOnce
<1>4. CASE StillReserved(o) /\ ~(Leave(p) /\ UNCHANGED <<op, posted>>)
  <2> DEFINE row == [op[o] EXCEPT !.status = "succeeded", !.owner = None]
             new == [op |-> o, vendor |-> poster[p].vendor,
                     review |-> poster[p].review, current |-> TRUE]
             kept == [k \in DOMAIN posted |->
                        IF k = poster[p].prev THEN [posted[k] EXCEPT !.current = FALSE]
                        ELSE posted[k]]
             last == Len(posted) + 1
  <2>1. op' = [op EXCEPT ![o] = row] /\ posted' = Append(kept, new)
    BY <1>2, <1>4 DEF Finalize
  <2>2. op[o].status \in Applied /\ op[o].review = poster[p].review
    BY <1>1, <1>2 DEF OnceInv, PosterOnce
  <2>3. op[o].status = "remote_applied"
    <3>1. op[o].new # {}
      BY <2>2 DEF OnceInv, RowsOnce, OpOnce, Applied
    <3>2. PICK f \in op[o].new : finding[f].op = o
      BY <1>4, <3>1 DEF StillReserved
    <3>3. f \in Finding /\ o # NoOp
      BY Rows DEF NoOp
    <3>4. op[o].status \in Open
      BY <3>2, <3>3 DEF ReservationsAgree
    <3>5. QED
      BY <2>2, <3>4 DEF Open, Applied
  <2>4. /\ row.status = "succeeded" /\ row.review = op[o].review
        /\ row.new = op[o].new /\ IdentityOf(row) = IdentityOf(op[o])
    <3>1. op[o] \in OpRow
      BY RowFacts
    <3>2. QED
      BY <3>1 DEF OpRow, IdentityOf
  <2> HIDE DEF row
  <2>5. op'[o] = row /\ \A q \in OpId \ {o} : op'[q] = op[q]
    BY <2>1, RowFacts
  <2>0. new \in PostedRow
    <3>1. PosterOK(poster[p], Len(posted))
      BY DEF TypeInv, PosterTyped
    <3>2. poster[p].review \in 0..MaxReviews /\ poster[p].review # 0
      BY <1>1, <3>1, RowFields DEF PosterOK, Settled, NoReview
    <3>3. poster[p].vendor \in Vendor /\ poster[p].review \in 1..MaxReviews
      BY <1>1, <3>1, <3>2, Bounds DEF PosterOK, Chosen, WithOp
    <3>4. QED
      BY <3>3 DEF PostedRow
  <2>6. new.op = o /\ new.review = op[o].review
    BY <2>2
  <2> HIDE DEF new
  <2>7. /\ DOMAIN posted' = DOMAIN posted \cup {last} /\ last \notin DOMAIN posted
        /\ posted'[last] = new
        /\ \A k \in DOMAIN posted : /\ posted'[k].op = posted[k].op
                                    /\ posted'[k].review = posted[k].review
    <3>1. Len(posted) \in Nat /\ DOMAIN posted = 1..Len(posted)
      BY RowFacts
    <3>2. DOMAIN kept = 1..Len(posted) /\ Len(kept) = Len(posted)
      BY <3>1
    <3>3. \A k \in DOMAIN posted : kept[k].op = posted[k].op /\ kept[k].review = posted[k].review
      <4>1. \A r \in PostedRow : /\ [r EXCEPT !.current = FALSE].op = r.op
                                 /\ [r EXCEPT !.current = FALSE].review = r.review
        BY DEF PostedRow
      <4>2. QED
        BY <4>1, RowFacts
    <3>4. kept \in Seq(PostedRow)
      <4>1. \A k \in 1..Len(posted) : posted[k] \in PostedRow
        BY ElementOfSeq DEF TypeInv, PostedTyped
      <4>2. \A k \in 1..Len(posted) : kept[k] \in PostedRow
        BY <3>1, <4>1 DEF PostedRow
      <4>3. kept = [k \in 1..Len(posted) |-> kept[k]]
        BY <3>1
      <4> HIDE DEF kept
      <4>4. kept \in [1..Len(posted) -> PostedRow]
        BY <4>2, <4>3
      <4>5. QED
        BY <3>1, <4>4
    <3> HIDE DEF kept
    <3>5. DOMAIN Append(kept, new) = DOMAIN kept \cup {Len(kept) + 1}
          /\ Len(kept) + 1 \notin DOMAIN kept
          /\ Append(kept, new)[Len(kept) + 1] = new
          /\ \A k \in DOMAIN kept : Append(kept, new)[k] = kept[k]
      BY <2>0, <3>4, AppendKeeps
    <3>6. QED
      BY <2>1, <3>1, <3>2, <3>3, <3>5
  <2> HIDE DEF kept, last
  <2>8. \A k \in DOMAIN posted : posted[k].op \in OpId \ {o}
    BY <2>3, RowFacts DEF OnceInv, RowsOnce, RowsSucceeded
  <2>9. BornKept
    BY <1>1, <2>4, <2>5 DEF BornKept
  <2>10. ASSUME NEW q \in OpId
         PROVE  /\ OpKept(q) /\ op'[q].review = op[q].review
                /\ op'[q].status = "succeeded" <=> op[q].status = "succeeded" \/ q = o
                /\ op'[q].status \in Applied <=> op[q].status \in Applied
                /\ IdentityOf(op'[q]) = IdentityOf(op[q]) /\ op'[q].new = op[q].new
                /\ op'[q].status = "none" <=> op[q].status = "none"
    <3>1. CASE q = o
      BY <2>3, <2>4, <2>5, <3>1 DEF OpKept, Applied
    <3>2. CASE q # o
      BY <2>5, <3>2 DEF OpKept, Applied
    <3>3. QED
      BY <3>1, <3>2
  <2>11. ASSUME NEW q \in OpId PROVE OpOnce(q)'
    <3>1. OpOnce(q)
      BY DEF OnceInv, RowsOnce
    <3>2. op'[q].status \in Applied => BornFor(op'[q].review, IdentityOf(op'[q]))
      BY <2>10, <3>1 DEF OpOnce
    <3>3. op'[q].status \in Applied => BornFor(op[q].review, IdentityOf(op[q]))'
      BY <2>9, <3>2, BornStays
    <3>4. QED
      BY <1>1, <2>10, <3>1, <3>3 DEF OpOnce
  <2>12. OneIdentity'
    BY <2>10 DEF OnceInv, RowsOnce, OneIdentity
  <2>13. BornMarked'
    BY <1>1, <2>9, BornStays DEF OnceInv, RowsOnce, BornMarked
  <2>14. RowsSucceeded'
    <3>1. \A k \in DOMAIN posted : op'[posted[k].op].status = "succeeded"
                                   /\ posted[k].review = op'[posted[k].op].review
      BY <2>8, <2>10 DEF OnceInv, RowsOnce, RowsSucceeded
    <3>2. QED
      BY <2>4, <2>5, <2>6, <2>7, <3>1 DEF RowsSucceeded
  <2>15. RecordedOnce'
    <3>1. \A k, m \in DOMAIN posted' : k # m => posted'[k].op # posted'[m].op
      BY <2>6, <2>7, <2>8 DEF OnceInv, RowsOnce, RecordedOnce
    <3>2. ASSUME NEW q \in OpId
          PROVE  op'[q].status = "succeeded" <=>
                   \E k \in DOMAIN posted' :
                     posted'[k].op = q /\ posted'[k].review = op'[q].review
      <4>1. CASE q = o
        BY <2>4, <2>5, <2>6, <2>7, <4>1
      <4>2. CASE q # o
        <5>1. op'[q].status = "succeeded" <=>
                \E k \in DOMAIN posted : posted[k].op = q /\ posted[k].review = op[q].review
          BY <2>5, <4>2 DEF OnceInv, RowsOnce, RecordedOnce
        <5>2. QED
          BY <2>5, <2>6, <2>7, <4>2, <5>1
      <4>3. QED
        BY <4>1, <4>2
    <3>3. QED
      BY <3>1, <3>2 DEF RecordedOnce
  <2>16. CreatedOnce'
    BY <1>1 DEF OnceInv, RowsOnce, CreatedOnce
  <2>17. PosterOnce(p)' /\ \A q \in Poster \ {p} : poster'[q] = poster[q]
    <3>1. CASE Leave(p)
      BY <3>1, LeaveKnows
    <3>2. CASE ~Leave(p)
      <4>1. /\ poster'[p].pc = "check" /\ poster'[p].todo \subseteq poster[p].todo
            /\ poster'[p].new = poster[p].new /\ poster'[p].shown = poster[p].shown
            /\ \A q \in Poster \ {p} : poster'[q] = poster[q]
        BY <1>1, <3>2, NextComment
      <4>2. Chose(poster[p])
        BY DEF OnceInv, PosterOnce
      <4>3. QED
        BY <1>1, <4>1, <4>2 DEF PosterOnce, Chose, Chosen, Working, Holding
    <3>3. QED
      BY <3>1, <3>2
  <2>18. ASSUME NEW q \in Poster \ {p} PROVE PosterOnce(q)'
    <3>1. poster'[q] = poster[q] /\ Marked(q)' = Marked(q)
      BY <1>1, <2>17, MarkedKept
    <3>2. \A o2 \in OpId : Holds(q, o2) => Holds(q, o2)'
      BY <2>3, <2>5 DEF Holds
    <3>3. Unhindered(q)
      BY <3>1, <3>2 DEF Unhindered
    <3>4. ops' \in Nat /\ ops <= ops'
      BY <1>1, RowFacts
    <3>5. QED
      BY <2>9, <2>10, <3>1, <3>3, <3>4, IdleOnesKept
  <2>19. QED
    BY <2>11, <2>12, <2>13, <2>14, <2>15, <2>16, <2>17, <2>18 DEF OnceInv, RowsOnce
<1>5. QED
  BY <1>2, <1>3, <1>4 DEF Finalize

---------------------------------------------------------------------------
(* The theorems                                                            *)

\* At first there is nothing to know.
LEMMA OnceInit == Init => OnceInv
<1> SUFFICES ASSUME Init PROVE OnceInv
  OBVIOUS
<1>1. /\ \A o \in OpId : op[o].status = "none" /\ op[o].review = NoReview
      /\ posted = <<>> /\ review = <<>>
      /\ \A p \in Poster : poster[p].pc = "idle"
  BY DEF Init, NoOpRow, IdlePoster
<1>2. RowsOnce
  <2>1. \A o \in OpId : OpOnce(o)
    BY <1>1 DEF OpOnce, Applied
  <2>2. OneIdentity
    BY <1>1 DEF OneIdentity
  <2>3. DOMAIN posted = {} /\ DOMAIN review = {}
    BY <1>1
  <2>4. BornMarked /\ RowsSucceeded /\ CreatedOnce
    BY <2>3 DEF BornMarked, RowsSucceeded, CreatedOnce
  <2>5. RecordedOnce
    BY <1>1, <2>3 DEF RecordedOnce
  <2>6. QED
    BY <2>1, <2>2, <2>4, <2>5 DEF RowsOnce
<1>3. \A p \in Poster : PosterOnce(p)
  BY <1>1 DEF PosterOnce, Chose, Chosen, Working, Holding
<1>4. QED
  BY <1>2, <1>3 DEF OnceInv

\* Every step keeps the invariant.
LEMMA OnceStep ==
  TypeInv /\ ReservationsAgree /\ OnceInv /\ [Next]_vars => OnceInv'
<1> SUFFICES ASSUME TypeInv, ReservationsAgree, OnceInv, [Next]_vars
             PROVE  OnceInv'
  OBVIOUS
<1>1. ASSUME UNCHANGED <<op, ops, posted, review, poster>> PROVE OnceInv'
  BY <1>1, QuietKeeps
<1>2. ASSUME NEW f \in Finding, PatchFinding(f) PROVE OnceInv'
  BY <1>1, <1>2 DEF PatchFinding
<1>3. CASE MoveHead \/ NewRun \/ UNCHANGED vars
  BY <1>1, <1>3 DEF MoveHead, NewRun, dbVars, vars
<1>4. ASSUME NEW i \in DOMAIN review, RemoveReview(i) PROVE OnceInv'
  BY <1>4, RemoveOnce
<1>5. ASSUME NEW o \in OpId, LockAges(o) PROVE OnceInv'
  BY <1>5, LockAgesOnce
<1>6. ASSUME NEW p \in Poster, BuildComments(p) PROVE OnceInv'
  BY <1>6, BuildOnce
<1>7. ASSUME NEW p \in Poster, Stop(p) PROVE OnceInv'
  <2>1. Leave(p) /\ UNCHANGED <<op, ops, posted, review>>
    BY <1>7 DEF Stop, dbVars
  <2>2. QED
    BY <2>1, EndOnce
<1>8. ASSUME NEW p \in Poster, CheckRun(p) PROVE OnceInv'
  <2>1. /\ poster[p].pc = "check" /\ UNCHANGED <<op, ops, posted, review>>
        /\ GoTo(p, "prev") \/ Leave(p)
    BY <1>8 DEF CheckRun, dbVars
  <2>2. QED
    BY <2>1, EndOnce, GoOnOnce
<1>9. ASSUME NEW p \in Poster, PostStep(p) PROVE OnceInv'
  BY <1>8, <1>9, CheckHeadOnce, PrepareOnce, ClaimOnce, FindOnce, UpdateOnce,
     CreateOnce, MarkOnce, FinalizeOnce DEF PostStep
<1>10. QED
  BY <1>2, <1>3, <1>4, <1>5, <1>6, <1>7, <1>9 DEF Next

\* The invariant is inductive together with the types and the reservations.
LEMMA OnceAlways == Spec => []OnceInv
<1>1. Init => OnceInv
  BY OnceInit
<1>2. TypeInv /\ ReservationsAgree /\ OnceInv /\ [Next]_vars => OnceInv'
  BY OnceStep
<1>3. Init => TypeInv
  BY TypeInit
<1>4. TypeInv /\ [Next]_vars => TypeInv'
  BY TypeStep
<1>5. Spec => []ReservationsAgree
  BY Agreement
<1>6. QED
  BY <1>1, <1>2, <1>3, <1>4, <1>5, PTL DEF Spec

\* A lost answer, a crash or a second process never makes GitHub show two reviews
\* created for the same operation: the marker is looked for first.
THEOREM CommentCreatedOnce == Spec => []CreatedOnce
<1>1. OnceInv => CreatedOnce
  BY DEF OnceInv, RowsOnce
<1>2. QED
  BY OnceAlways, <1>1, PTL

\* An operation is recorded once, and exactly when it has succeeded, with the
\* review it wrote, however many posters found it applied.
THEOREM CommentRecordedOnce == Spec => []RecordedOnce
<1>1. OnceInv => RecordedOnce
  BY DEF OnceInv, RowsOnce
<1>2. QED
  BY OnceAlways, <1>1, PTL

---------------------------------------------------------------------------
(* What was posted stays shown                                             *)

\* The text b tells of the finding.
Told(b, f) == \E t \in Text : <<f, t>> \in b

\* All that is shown or recorded as posted in the row is of its vendor.
OfVendor(b, v) == \A x \in b : VendorOf[x[1]] = v

\* The review says what the operation is to say.
Says(i, row) == i \in DOMAIN review /\ review[i].body = row.body /\ review[i].vendor = row.vendor

OpShows(o) ==
  op[o].status # "none" =>
    /\ OfVendor(op[o].body, op[o].vendor)
    /\ \A f \in op[o].new : VendorOf[f] = op[o].vendor /\ Told(op[o].body, f)
    /\ op[o].status = "remote_applied" => Says(op[o].review, op[o])

\* A vendor has one open operation at most.
VendorsApart ==
  \A o, o2 \in OpId :
    op[o].status \in Open /\ op[o2].status \in Open /\ op[o].vendor = op[o2].vendor => o = o2

ReviewsSay == \A i \in DOMAIN review : OfVendor(review[i].body, review[i].vendor)
CommentsSay ==
  \A k \in DOMAIN posted : LET i == posted[k].review IN
    i \in DOMAIN review /\ review[i].vendor = posted[k].vendor
AllShown ==
  \A f \in Finding : finding[f].status = "posted" => \E i \in DOMAIN review : Told(review[i].body, f)

RowsShow == (\A o \in OpId : OpShows(o)) /\ VendorsApart /\ ReviewsSay /\ CommentsSay /\ AllShown

\* What a request carries along: all that is posted, and every finding reserved.
Carries(r) ==
  r.pc # "idle" =>
    /\ \A f \in Finding : finding[f].status = "posted" => Told(r.shown, f)
    /\ \A f \in r.new : Told(r.shown, f)
    /\ \A o \in OpId : op[o].status \in Open => op[o].new \subseteq r.new

\* The operation, the row and the review it works on are of its comment.
WorksOn(p) ==
  LET r == poster[p] IN
  /\ r.pc \in WithOp => IdentityOf(op[r.op]) = Identity(p)
  /\ r.pc \in Chosen /\ r.prev # NoRow =>
       r.prev \in DOMAIN posted /\ posted[r.prev].vendor = r.vendor
  /\ r.pc = "mark" => Says(r.review, Identity(p))

ShownInv(p) == RowsShow /\ Carries(poster[p]) /\ WorksOn(p)

\* The only request there can be, and it posts all findings there are.
Alone(p) == p \in Poster /\ Poster = {p} /\ \A f \in Finding : RunOf[f] = p[2]

NothingPosted == \A f \in Finding : finding'[f].status = "posted" => finding[f].status = "posted"
ReviewsStay ==
  /\ DOMAIN review' = DOMAIN review
  /\ \A i \in DOMAIN review : review'[i].body = review[i].body /\ review'[i].vendor = review[i].vendor

\* An operation is settled, or goes on as the same.
OpStays(o) ==
  \/ op'[o].status = "none"
  \/ /\ op[o].status # "none" /\ IdentityOf(op'[o]) = IdentityOf(op[o]) /\ op'[o].new = op[o].new
     /\ op'[o].status \in Open => op[o].status \in Open
     /\ op'[o].status = "remote_applied" =>
          (op[o].status = "remote_applied" /\ op'[o].review = op[o].review)
            \/ Says(op'[o].review, op[o])

LEMMA SameIdentity ==
  ASSUME NEW a, NEW b, IdentityOf(a) = IdentityOf(b)
  PROVE  a.run = b.run /\ a.vendor = b.vendor /\ a.body = b.body
  BY DEF IdentityOf

\* A step that posts and writes no review leaves the rows as they should be.
LEMMA RowsStay ==
  ASSUME RowsShow, NothingPosted, ReviewsStay, UNCHANGED posted, \A o \in OpId : OpStays(o)
  PROVE  RowsShow'
<1>1. ASSUME NEW o \in OpId, op'[o].status # "none"
      PROVE  /\ op[o].status # "none" /\ op'[o].vendor = op[o].vendor /\ op'[o].body = op[o].body
             /\ op'[o].new = op[o].new
             /\ op'[o].status \in Open => op[o].status \in Open
  BY <1>1, SameIdentity DEF OpStays
<1>2. ASSUME NEW o \in OpId PROVE OpShows(o)'
  <2>1. CASE op'[o].status = "none"
    BY <2>1 DEF OpShows
  <2>2. CASE op'[o].status # "none"
    <3>1. OpShows(o) /\ OpStays(o)
      BY DEF RowsShow
    <3>2. op'[o].status = "remote_applied" => Says(op'[o].review, op[o])
      BY <1>1, <2>2, <3>1 DEF OpStays, OpShows
    <3>3. op'[o].status = "remote_applied" => Says(op[o].review, op[o])'
      BY <1>1, <2>2, <3>2 DEF Says, ReviewsStay
    <3>4. QED
      BY <1>1, <2>2, <3>1, <3>3 DEF OpShows, OfVendor, Told
  <2>3. QED
    BY <2>1, <2>2
<1>3. VendorsApart'
  <2>1. \A o \in OpId : op'[o].status \in Open => op[o].status \in Open /\ op'[o].vendor = op[o].vendor
    BY <1>1 DEF Open
  <2>2. QED
    BY <2>1 DEF RowsShow, VendorsApart
<1>4. ReviewsSay' /\ CommentsSay'
  BY DEF RowsShow, ReviewsSay, CommentsSay, ReviewsStay, OfVendor
<1>5. AllShown'
  BY DEF RowsShow, AllShown, NothingPosted, ReviewsStay, Told
<1>6. QED
  BY <1>2, <1>3, <1>4, <1>5 DEF RowsShow

\* No operation opens.
NothingOpens ==
  \A o \in OpId : op'[o].status \in Open => op[o].status \in Open /\ op'[o].new = op[o].new

LEMMA StayOpen ==
  ASSUME \A o \in OpId : OpStays(o)
  PROVE  NothingOpens
<1>1. "none" \notin Open
  BY DEF Open
<1>2. QED
  BY <1>1 DEF NothingOpens, OpStays

LEMMA SameOps ==
  ASSUME UNCHANGED op
  PROVE  \A o \in OpId : OpStays(o)
  BY DEF OpStays

LEMMA SameReviews ==
  ASSUME UNCHANGED review
  PROVE  ReviewsStay
  BY DEF ReviewsStay

\* A request carries on what it has.
LEMMA CarriedOn ==
  ASSUME NEW p \in Poster, Carries(poster[p]), NothingPosted, NothingOpens,
         poster[p].pc # "idle",
         poster'[p].shown = poster[p].shown, poster'[p].new = poster[p].new
  PROVE  Carries(poster[p])'
  BY DEF Carries, NothingPosted, NothingOpens, Told

\* A request that has ended carries nothing.
LEMMA Ended ==
  ASSUME TypeInv, NEW p \in Poster, Leave(p), RowsShow'
  PROVE  ShownInv(p)'
<1>1. poster'[p].pc = "idle"
  BY RowFacts DEF Leave, IdlePoster
<1>2. QED
  BY <1>1 DEF ShownInv, Carries, WorksOn, Chosen, WithOp

\* A step of somebody else that posts and writes no review.
LEMMA Undisturbed ==
  ASSUME NEW p \in Poster, ShownInv(p), NothingPosted, ReviewsStay, UNCHANGED <<posted, poster>>,
         \A o \in OpId : OpStays(o) /\ IdentityOf(op'[o]) = IdentityOf(op[o]),
         poster[p].pc \in WithOp => poster[p].op \in OpId
  PROVE  ShownInv(p)'
<1>1. RowsShow' /\ NothingOpens
  BY RowsStay, StayOpen DEF ShownInv
<1>2. Identity(p)' = Identity(p)
  BY DEF Identity, CommentBody
<1>3. Carries(poster[p])'
  BY <1>1 DEF ShownInv, Carries, NothingPosted, NothingOpens, Told
<1>4. WorksOn(p)'
  BY <1>2 DEF ShownInv, WorksOn, ReviewsStay, Says
<1>5. QED
  BY <1>1, <1>3, <1>4 DEF ShownInv

\* A step that writes no row at all.
LEMMA QuietShows ==
  ASSUME NEW p \in Poster, ShownInv(p), UNCHANGED <<finding, op, posted, review>>,
         Carries(poster[p])', WorksOn(p)'
  PROVE  ShownInv(p)'
<1>1. NothingPosted
  BY DEF NothingPosted
<1>2. RowsShow'
  BY <1>1, SameOps, SameReviews, RowsStay DEF ShownInv
<1>3. QED
  BY <1>2 DEF ShownInv

---------------------------------------------------------------------------
(* The steps of everybody else                                             *)

LEMMA PatchShows ==
  ASSUME TypeInv, NEW p \in Poster, ShownInv(p), NEW f \in Finding, PatchFinding(f)
  PROVE  ShownInv(p)'
<1>1. UNCHANGED <<op, posted, review, poster>>
  BY DEF PatchFinding
<1>2. NothingPosted
  <2>1. PICK status \in {"approved", "dismissed", "edited"}, text \in Text :
          finding' = [finding EXCEPT ![f].status = status, ![f].text = text]
    BY DEF PatchFinding
  <2>2. \A g \in Finding : finding'[g].status = finding[g].status \/ finding'[g].status = status
    BY <2>1, Rows DEF FindingRow
  <2>3. QED
    BY <2>2 DEF NothingPosted
<1>3. poster[p].pc \in WithOp => poster[p].op \in OpId
  BY DEF TypeInv, PosterTyped, PosterOK
<1>4. QED
  BY <1>1, <1>2, <1>3, SameOps, SameReviews, Undisturbed

LEMMA RemoveShows ==
  ASSUME TypeInv, NEW p \in Poster, ShownInv(p), NEW i \in DOMAIN review, RemoveReview(i)
  PROVE  ShownInv(p)'
<1>1. UNCHANGED <<op, posted, finding, poster>>
  BY DEF RemoveReview, dbVars
<1>2. NothingPosted
  BY <1>1 DEF NothingPosted
<1>3. ReviewsStay
  <2>1. review' = [review EXCEPT ![i].state = "deleted"]
    BY DEF RemoveReview
  <2>2. QED
    BY <2>1, RowFacts DEF ReviewsStay, ReviewRow
<1>4. poster[p].pc \in WithOp => poster[p].op \in OpId
  BY DEF TypeInv, PosterTyped, PosterOK
<1>5. QED
  BY <1>1, <1>2, <1>3, <1>4, SameOps, Undisturbed

LEMMA LockAgesShows ==
  ASSUME TypeInv, NEW p \in Poster, ShownInv(p), NEW o \in OpId, LockAges(o)
  PROVE  ShownInv(p)'
<1>1. UNCHANGED <<finding, posted, review, poster>>
  BY DEF LockAges
<1>2. op' = [op EXCEPT ![o].aged = TRUE] /\ op[o].status = "applying"
  BY DEF LockAges
<1>3. \A q \in OpId : /\ op'[q].status = op[q].status /\ op'[q].new = op[q].new
                      /\ op'[q].review = op[q].review
                      /\ IdentityOf(op'[q]) = IdentityOf(op[q])
  BY <1>2, RowFacts DEF OpRow, IdentityOf
<1>4. \A q \in OpId : OpStays(q)
  BY <1>3 DEF OpStays
<1>5. poster[p].pc \in WithOp => poster[p].op \in OpId
  BY DEF TypeInv, PosterTyped, PosterOK
<1>6. NothingPosted
  BY <1>1 DEF NothingPosted
<1>7. QED
  BY <1>1, <1>3, <1>4, <1>5, <1>6, SameReviews, Undisturbed

---------------------------------------------------------------------------
(* The steps of the request                                                *)

\* What a POST lists is all that was posted, all that is new and all that is reserved.
LEMMA BuildShows ==
  ASSUME TypeInv, ReservationsAgree, NEW p, Alone(p), ShownInv(p), BuildComments(p)
  PROVE  ShownInv(p)'
<1>1. UNCHANGED <<finding, op, posted, review>>
  BY DEF BuildComments, dbVars
<1>2. /\ poster'[p].pc = "check" /\ poster'[p].shown = ToShow(p[2]) /\ poster'[p].new = ToPost(p[2])
  <2>1. PICK shown, new, todo :
          /\ shown = ToShow(p[2]) /\ new = ToPost(p[2])
          /\ poster' = [poster EXCEPT ![p] = [IdlePoster EXCEPT !.pc = "check", !.shown = shown,
                                                                !.new = new, !.todo = todo]]
    BY DEF BuildComments
  <2>2. QED
    BY <2>1, RowFacts DEF IdlePoster, Alone
<1>3. ASSUME NEW f \in Finding, finding[f].status \in Displayed PROVE Told(ToShow(p[2]), f)
  <2>1. f \in Decided(p[2], Displayed)
    BY <1>3 DEF Decided, Alone
  <2>2. <<f, finding[f].text>> \in ToShow(p[2]) /\ finding[f].text \in Text
    BY <2>1, Rows DEF ToShow, FindingRow
  <2>3. QED
    BY <2>2 DEF Told
<1>4. \A f \in ToPost(p[2]) : f \in Finding /\ finding[f].status \in Displayed
  BY DEF ToPost, Decided, Displayed
<1>5. ASSUME NEW o \in OpId, op[o].status \in Open PROVE op[o].new \subseteq ToPost(p[2])
  BY <1>5, Rows DEF ReservationsAgree, StillReserved, ToPost, Decided, Alone
<1>6. Carries(poster[p])'
  BY <1>1, <1>2, <1>3, <1>4, <1>5 DEF Carries, Displayed, Told
<1>7. WorksOn(p)'
  BY <1>2 DEF WorksOn, Chosen, WithOp
<1>8. QED
  BY <1>1, <1>6, <1>7, QuietShows DEF Alone

LEMMA CheckRunShows ==
  ASSUME TypeInv, NEW p \in Poster, ShownInv(p), CheckRun(p)
  PROVE  ShownInv(p)'
<1>1. UNCHANGED <<finding, op, posted, review>> /\ poster[p].pc = "check"
  BY DEF CheckRun, dbVars
<1>2. NothingPosted /\ NothingOpens
  BY <1>1, SameOps, StayOpen DEF NothingPosted
<1>3. CASE Leave(p)
  <2>1. RowsShow'
    BY <1>1, <1>2, SameOps, SameReviews, RowsStay DEF ShownInv
  <2>2. QED
    BY <1>3, <2>1, Ended
<1>4. CASE GoTo(p, "prev")
  <2>1. /\ poster'[p].pc = "prev" /\ poster'[p].shown = poster[p].shown
        /\ poster'[p].new = poster[p].new
    BY <1>4, GoToKnows
  <2>2. Carries(poster[p])'
    BY <1>1, <1>2, <2>1, CarriedOn DEF ShownInv
  <2>3. WorksOn(p)'
    BY <2>1 DEF WorksOn, Chosen, WithOp
  <2>4. QED
    BY <1>1, <2>2, <2>3, QuietShows
<1>5. QED
  BY <1>3, <1>4 DEF CheckRun

LEMMA CurrentRowOf ==
  ASSUME PostedTyped, NEW v, CurrentRow(v) # NoRow
  PROVE  CurrentRow(v) \in DOMAIN posted /\ posted[CurrentRow(v)].vendor = v
<1>1. PICK rows : rows = {k \in DOMAIN posted : posted[k].vendor = v /\ posted[k].current}
  OBVIOUS
<1>2. Len(posted) \in Nat /\ DOMAIN posted = 1..Len(posted)
  BY LenProperties DEF PostedTyped
<1>3. rows # {} /\ CurrentRow(v) = Max(rows)
  BY <1>1 DEF CurrentRow
<1>4. rows \in SUBSET (0..Len(posted))
  BY <1>1, <1>2
<1>5. Max(rows) \in rows
  BY <1>2, <1>3, <1>4, MaxInSet
<1>6. QED
  BY <1>1, <1>3, <1>5

LEMMA CheckHeadShows ==
  ASSUME TypeInv, NEW p \in Poster, ShownInv(p), CheckHead(p)
  PROVE  ShownInv(p)'
<1>1. UNCHANGED <<finding, op, posted, review>> /\ poster[p].pc = "prev"
  BY DEF CheckHead, dbVars
<1>2. NothingPosted /\ NothingOpens
  BY <1>1, SameOps, StayOpen DEF NothingPosted
<1>3. CASE Leave(p)
  <2>1. RowsShow'
    BY <1>1, <1>2, SameOps, SameReviews, RowsStay DEF ShownInv
  <2>2. QED
    BY <1>3, <2>1, Ended
<1>4. ASSUME NEW v \in poster[p].todo,
             poster' = [poster EXCEPT ![p].pc = "prepare", ![p].vendor = v,
                                      ![p].prev = CurrentRow(v)]
      PROVE  ShownInv(p)'
  <2>1. PICK prev : prev = CurrentRow(v)
    OBVIOUS
  <2>2. /\ poster'[p].pc = "prepare" /\ poster'[p].vendor = v /\ poster'[p].prev = prev
        /\ poster'[p].shown = poster[p].shown /\ poster'[p].new = poster[p].new
    BY <1>4, <2>1, RowFacts DEF PosterRow
  <2>3. Carries(poster[p])'
    BY <1>1, <1>2, <2>2, CarriedOn DEF ShownInv
  <2>4. prev # NoRow => prev \in DOMAIN posted /\ posted[prev].vendor = v
    BY <2>1, CurrentRowOf DEF TypeInv
  <2>5. WorksOn(p)'
    BY <1>1, <2>2, <2>4 DEF WorksOn, Chosen, WithOp
  <2>6. QED
    BY <1>1, <2>3, <2>5, QuietShows
<1>5. QED
  BY <1>3, <1>4 DEF CheckHead

LEMMA TakeUpShows ==
  ASSUME TypeInv, NEW p \in Poster, ShownInv(p), UNCHANGED finding, NEW o, TakenUp(p, o)
  PROVE  ShownInv(p)'
<1>1. /\ UNCHANGED <<finding, op, posted, review>> /\ poster[p].pc = "prepare"
      /\ o \in OpId /\ IdentityOf(op[o]) = Identity(p)
  BY DEF TakenUp, Existing
<1>2. NothingPosted /\ NothingOpens
  BY <1>1, SameOps, StayOpen DEF NothingPosted
<1>3. ASSUME NEW pc \in {"claim", "finalize"}, NEW i,
             \/ poster' = [poster EXCEPT ![p].pc = pc, ![p].op = o]
             \/ poster' = [poster EXCEPT ![p].pc = pc, ![p].op = o, ![p].review = i]
      PROVE  /\ poster'[p].pc = pc /\ poster'[p].op = o /\ poster'[p].shown = poster[p].shown
             /\ poster'[p].new = poster[p].new /\ poster'[p].vendor = poster[p].vendor
             /\ poster'[p].prev = poster[p].prev
  BY <1>3, RowFacts DEF PosterRow
<1>4. /\ poster'[p].pc \in {"claim", "finalize"} /\ poster'[p].op = o
      /\ poster'[p].shown = poster[p].shown
      /\ poster'[p].new = poster[p].new /\ poster'[p].vendor = poster[p].vendor
      /\ poster'[p].prev = poster[p].prev
  <2>1. PICK i : i = op[o].review
    OBVIOUS
  <2>2. \/ poster' = [poster EXCEPT ![p].pc = "claim", ![p].op = o]
        \/ poster' = [poster EXCEPT ![p].pc = "finalize", ![p].op = o, ![p].review = i]
    BY <2>1 DEF TakenUp
  <2>3. QED
    BY <1>3, <2>2
<1>5. Identity(p)' = Identity(p)
  BY <1>4 DEF Identity, CommentBody
<1>6. Carries(poster[p])'
  BY <1>1, <1>2, <1>4, CarriedOn DEF ShownInv
<1>7. WorksOn(p)'
  <2>1. poster[p].prev # NoRow =>
          poster[p].prev \in DOMAIN posted /\ posted[poster[p].prev].vendor = poster[p].vendor
    BY <1>1 DEF ShownInv, WorksOn, Chosen
  <2>2. poster'[p].pc \in WithOp => IdentityOf(op[o])' = Identity(p)'
    BY <1>1, <1>5
  <2>3. QED
    BY <1>1, <1>4, <2>1, <2>2 DEF WorksOn
<1>8. QED
  BY <1>1, <1>6, <1>7, QuietShows

\* A new operation is the only open one of its vendor: what another has reserved is
\* new to every request, and then not to be had.
LEMMA ReserveShows ==
  ASSUME TypeInv, ReservationsAgree, OnceInv, NEW p, Alone(p), ShownInv(p), Prepare(p),
         ops' = ops + 1
  PROVE  ShownInv(p)'
<1>0. p \in Poster /\ ops \in Nat
  BY RowFacts DEF Alone
<1>1. /\ poster[p].pc = "prepare" /\ UNCHANGED <<posted, review>>
      /\ Reservable(p) /\ ops < MaxOps
      /\ op' = [op EXCEPT ![ops + 1] =
                  [NoOpRow EXCEPT !.status = "pending", !.run = p[2],
                     !.vendor = poster[p].vendor, !.body = CommentBody(p),
                     !.new = CommentNew(p)]]
      /\ finding' = [f \in Finding |-> IF f \in CommentNew(p)
                       THEN [finding[f] EXCEPT !.op = ops + 1] ELSE finding[f]]
      /\ poster' = [poster EXCEPT ![p].pc = "claim", ![p].op = ops + 1]
  <2>1. ops # ops + 1
    BY <1>0
  <2>2. QED
    BY <2>1 DEF Prepare
<1>2. PICK o \in OpId : o = ops + 1
  BY <1>0, <1>1, Bounds DEF OpId
<1>3. PICK v, body, new : v = poster[p].vendor /\ body = CommentBody(p) /\ new = CommentNew(p)
  OBVIOUS
<1>4. /\ op'[o].status = "pending" /\ op'[o].new = new /\ op'[o].vendor = v
      /\ op'[o].body = body /\ op'[o].run = p[2]
      /\ \A q \in OpId \ {o} : op'[q] = op[q]
  BY <1>1, <1>2, <1>3, RowFacts DEF NoOpRow
<1>5. op[o].status = "none"
  BY <1>0, <1>2 DEF OnceInv, RowsOnce, OpOnce
<1>6. /\ poster'[p].pc = "claim" /\ poster'[p].op = o /\ poster'[p].shown = poster[p].shown
      /\ poster'[p].new = poster[p].new /\ poster'[p].vendor = v
      /\ poster'[p].prev = poster[p].prev
  BY <1>0, <1>1, <1>2, <1>3, RowFacts DEF PosterRow
<1>7. Identity(p)' = Identity(p) /\ IdentityOf(op[o])' = Identity(p)
  BY <1>3, <1>4, <1>6 DEF Identity, IdentityOf, CommentBody
<1>8. \A f \in Finding : finding'[f].status = finding[f].status
  BY <1>1, Rows DEF FindingRow
<1>9. NothingPosted
  BY <1>8 DEF NothingPosted
<1>10. new \subseteq poster[p].new /\ new \subseteq Finding /\ \A f \in new : VendorOf[f] = v
  BY <1>0, <1>3, CommentTyped DEF CommentNew, TypeInv
<1>11. \A f \in new : Told(body, f)
  <2>1. ASSUME NEW f \in new PROVE Told(body, f)
    <3>1. PICK t \in Text : <<f, t>> \in poster[p].shown
      BY <1>1, <1>10, <2>1 DEF ShownInv, Carries, Told
    <3>2. <<f, t>> \in CommentBody(p)
      BY <1>3, <1>10, <2>1, <3>1 DEF CommentBody
    <3>3. QED
      BY <1>3, <3>2 DEF Told
  <2>2. QED
    BY <2>1
<1>12. OfVendor(body, v)
  BY <1>3 DEF OfVendor, CommentBody
<1>13. ASSUME NEW q \in OpId, op[q].status \in Open PROVE op[q].vendor # v
  <2>1. op[q].new # {} /\ op[q].new \in SUBSET Finding /\ op[q].status # "none"
    BY <1>13, Rows DEF OnceInv, RowsOnce, OpOnce, Open
  <2>2. PICK f \in op[q].new : TRUE
    BY <2>1
  <2>3. f \in Finding /\ f \in poster[p].new /\ finding[f].op = q
    BY <1>1, <1>13, <2>1, <2>2 DEF ShownInv, Carries, ReservationsAgree, StillReserved
  <2>4. q # NoOp
    BY Rows DEF NoOp
  <2>5. f \notin CommentNew(p)
    BY <1>1, <2>3, <2>4 DEF Reservable
  <2>6. VendorOf[f] # v
    BY <1>3, <2>3, <2>5 DEF CommentNew
  <2>7. VendorOf[f] = op[q].vendor
    BY <2>1, <2>2 DEF ShownInv, RowsShow, OpShows
  <2>8. QED
    BY <2>6, <2>7
<1>14. ASSUME NEW q \in OpId PROVE OpShows(q)'
  <2>1. CASE q = o
    BY <1>4, <1>10, <1>11, <1>12, <2>1 DEF OpShows, OfVendor, Told
  <2>2. CASE q # o
    <3>1. OpShows(q) /\ op'[q] = op[q]
      BY <1>4, <2>2 DEF ShownInv, RowsShow
    <3>2. QED
      BY <1>1, <3>1 DEF OpShows, OfVendor, Told, Says
  <2>3. QED
    BY <2>1, <2>2
<1>15. VendorsApart'
  BY <1>4, <1>13 DEF ShownInv, RowsShow, VendorsApart
<1>16. ReviewsSay' /\ CommentsSay' /\ AllShown'
  BY <1>1, <1>9 DEF ShownInv, RowsShow, ReviewsSay, CommentsSay, AllShown, OfVendor, Told,
                    NothingPosted
<1>17. Carries(poster[p])'
  <2>1. \A f \in Finding : finding'[f].status = "posted" => Told(poster'[p].shown, f)
    BY <1>1, <1>6, <1>9 DEF ShownInv, Carries, NothingPosted
  <2>2. \A f \in poster'[p].new : Told(poster'[p].shown, f)
    BY <1>1, <1>6 DEF ShownInv, Carries
  <2>3. ASSUME NEW q \in OpId, op'[q].status \in Open PROVE op'[q].new \subseteq poster'[p].new
    <3>1. CASE q = o
      BY <1>4, <1>6, <1>10, <3>1
    <3>2. CASE q # o
      BY <1>1, <1>4, <1>6, <2>3, <3>2 DEF ShownInv, Carries
    <3>3. QED
      BY <3>1, <3>2
  <2>4. QED
    BY <2>1, <2>2, <2>3 DEF Carries, Told
<1>18. WorksOn(p)'
  BY <1>1, <1>3, <1>6, <1>7 DEF ShownInv, WorksOn, Chosen, WithOp
<1>19. QED
  BY <1>14, <1>15, <1>16, <1>17, <1>18 DEF ShownInv, RowsShow

LEMMA PrepareShows ==
  ASSUME TypeInv, ReservationsAgree, OnceInv, NEW p, Alone(p), ShownInv(p), Prepare(p)
  PROVE  ShownInv(p)'
<1>1. CASE UNCHANGED finding /\ \E o : TakenUp(p, o)
  BY <1>1, TakeUpShows DEF Alone
<1>2. CASE Leave(p) /\ UNCHANGED <<finding, op, posted, review>>
  <2>1. RowsShow'
    BY <1>2, SameOps, SameReviews, RowsStay DEF ShownInv, NothingPosted
  <2>2. QED
    BY <1>2, <2>1, Ended DEF Alone
<1>3. CASE ops' = ops + 1
  BY <1>3, ReserveShows
<1>4. QED
  BY <1>1, <1>2, <1>3 DEF Prepare, TakenUp

\* One operation row is written, which stays open for the same comment.
LEMMA OpWritten ==
  ASSUME TypeInv, NEW o \in OpId, NEW row,
         op' = [op EXCEPT ![o] = row], op[o].status \in Open, row.status \in Open,
         IdentityOf(row) = IdentityOf(op[o]), row.new = op[o].new,
         row.status = "remote_applied" => Says(row.review, op[o])
  PROVE  /\ \A q \in OpId : OpStays(q) /\ IdentityOf(op'[q]) = IdentityOf(op[q])
         /\ op'[o] = row
<1>1. op'[o] = row /\ \A q \in OpId \ {o} : op'[q] = op[q]
  BY RowFacts
<1>2. OpStays(o)
  BY <1>1 DEF OpStays, Open
<1>3. \A q \in OpId \ {o} : OpStays(q)
  BY <1>1 DEF OpStays
<1>4. QED
  BY <1>1, <1>2, <1>3

\* A request at work goes on with the operation, the comment and the row it has.
LEMMA WorksOnward ==
  ASSUME TypeInv, NEW p \in Poster, ShownInv(p), poster[p].pc \in Chosen,
         poster[p].pc \in WithOp, NEW pc \in Chosen, pc # "mark", GoTo(p, pc),
         NothingPosted, ReviewsStay, UNCHANGED posted,
         \A q \in OpId : OpStays(q) /\ IdentityOf(op'[q]) = IdentityOf(op[q])
  PROVE  ShownInv(p)'
<1>1. /\ poster'[p].pc = pc /\ Identity(p)' = Identity(p)
      /\ poster'[p].op = poster[p].op /\ poster'[p].prev = poster[p].prev
      /\ poster'[p].vendor = poster[p].vendor /\ poster'[p].new = poster[p].new
      /\ poster'[p].shown = poster[p].shown
  BY GoToKnows
<1>2. RowsShow' /\ NothingOpens
  BY RowsStay, StayOpen DEF ShownInv
<1>3. poster[p].pc # "idle"
  BY DEF Chosen
<1>4. Carries(poster[p])'
  BY <1>1, <1>2, <1>3, CarriedOn DEF ShownInv
<1>5. poster[p].op \in OpId
  BY DEF TypeInv, PosterTyped, PosterOK
<1>6. WorksOn(p)'
  BY <1>1, <1>5 DEF ShownInv, WorksOn
<1>7. QED
  BY <1>2, <1>4, <1>6 DEF ShownInv

LEMMA ClaimShows ==
  ASSUME TypeInv, OnceInv, NEW p \in Poster, ShownInv(p), ClaimOp(p)
  PROVE  ShownInv(p)'
<1>1. poster[p].pc = "claim" /\ UNCHANGED <<finding, posted, review>> /\ NothingPosted
  BY DEF ClaimOp, NothingPosted
<1>2. CASE Leave(p) /\ UNCHANGED op
  <2>1. RowsShow'
    BY <1>1, <1>2, SameOps, SameReviews, RowsStay DEF ShownInv
  <2>2. QED
    BY <1>2, <2>1, Ended
<1>3. CASE Claimable(poster[p].op) /\ ~(Leave(p) /\ UNCHANGED op)
  <2>1. PICK o \in OpId : o = poster[p].op
    BY <1>1 DEF TypeInv, PosterTyped, PosterOK, WithOp, Chosen
  <2>2. PICK row : row = [op[o] EXCEPT !.status = "applying", !.owner = p, !.aged = FALSE]
    OBVIOUS
  <2>3. op' = [op EXCEPT ![o] = row] /\ GoTo(p, "find")
    BY <1>3, <2>1, <2>2, RowFacts DEF ClaimOp
  <2>4. op[o].status \in Open
    BY <1>3, <2>1 DEF Claimable, Open
  <2>5. row.status = "applying" /\ IdentityOf(row) = IdentityOf(op[o]) /\ row.new = op[o].new
    BY <2>2, RowFacts DEF OpRow, IdentityOf
  <2>6. row.status \in Open /\ row.status # "remote_applied"
    BY <2>5 DEF Open
  <2>7. \A q \in OpId : OpStays(q) /\ IdentityOf(op'[q]) = IdentityOf(op[q])
    BY <2>3, <2>4, <2>5, <2>6, OpWritten
  <2>8. poster[p].pc \in Chosen /\ poster[p].pc \in WithOp /\ "find" \in Chosen
    BY <1>1 DEF Chosen, WithOp
  <2>9. QED
    BY <1>1, <2>3, <2>7, <2>8, SameReviews, WorksOnward
<1>4. QED
  BY <1>1, <1>2, <1>3 DEF ClaimOp

\* A request knows the review that says its comment.
LEMMA ReviewSays ==
  ASSUME TypeInv, NEW p \in Poster, ShownInv(p), poster[p].pc \in WithOp, poster[p].pc # "idle",
         NEW i, poster' = [poster EXCEPT ![p].pc = "mark", ![p].review = i],
         UNCHANGED <<finding, op, posted>>, RowsShow', Says(i, Identity(p))'
  PROVE  ShownInv(p)'
<1>1. poster'[p] = [poster[p] EXCEPT !.pc = "mark", !.review = i]
  BY RowFacts
<1>2. /\ poster'[p].pc = "mark" /\ poster'[p].review = i
      /\ poster'[p].op = poster[p].op /\ poster'[p].prev = poster[p].prev
      /\ poster'[p].vendor = poster[p].vendor /\ poster'[p].new = poster[p].new
      /\ poster'[p].shown = poster[p].shown
  BY <1>1, RowFacts DEF PosterRow
<1>3. Identity(p)' = Identity(p)
  BY <1>2 DEF Identity, CommentBody
<1>4. NothingPosted /\ NothingOpens
  BY SameOps, StayOpen DEF NothingPosted
<1>5. Carries(poster[p])'
  BY <1>2, <1>4, CarriedOn DEF ShownInv
<1>6. WorksOn(p)'
  BY <1>2, <1>3 DEF ShownInv, WorksOn, WithOp
<1>7. QED
  BY <1>5, <1>6 DEF ShownInv

LEMMA FindShows ==
  ASSUME TypeInv, NEW p \in Poster, ShownInv(p), FindRemote(p)
  PROVE  ShownInv(p)'
<1>1. UNCHANGED <<finding, op, posted, review>> /\ poster[p].pc = "find"
  BY DEF FindRemote, dbVars
<1>2. NothingPosted
  BY <1>1 DEF NothingPosted
<1>3. poster[p].pc \in Chosen /\ poster[p].pc \in WithOp
  BY <1>1 DEF Chosen, WithOp
<1>4. CASE Marked(p) # {} /\ poster' = [poster EXCEPT ![p].pc = "mark", ![p].review = Max(Marked(p))]
  <2>1. PICK i \in Marked(p) : i = Max(Marked(p))
    <3>1. Marked(p) \in SUBSET (0..Len(review))
      BY RowFacts DEF Marked
    <3>2. QED
      BY <1>4, <3>1, RowFacts, MaxInSet
  <2>2. poster' = [poster EXCEPT ![p].pc = "mark", ![p].review = i]
    BY <1>4, <2>1
  <2>3. i \in DOMAIN review /\ IdentityOf(review[i]) = Identity(p)
    BY <2>1 DEF Marked
  <2>4. Says(i, Identity(p))
    BY <2>3 DEF Says, IdentityOf, Identity
  <2>5. poster'[p].shown = poster[p].shown /\ poster'[p].vendor = poster[p].vendor
    BY <2>2, RowFacts DEF PosterRow
  <2>6. Identity(p)' = Identity(p)
    BY <2>5 DEF Identity, CommentBody
  <2>7. Says(i, Identity(p))'
    BY <1>1, <2>4, <2>6 DEF Says
  <2>8. RowsShow'
    BY <1>1, <1>2, SameOps, SameReviews, RowsStay DEF ShownInv
  <2>9. QED
    BY <1>1, <1>3, <2>2, <2>7, <2>8, ReviewSays
<1>5. CASE \E pc \in {"create", "update"} : GoTo(p, pc)
  <2>1. PICK pc \in {"create", "update"} : GoTo(p, pc)
    BY <1>5
  <2>2. pc \in Chosen /\ pc # "mark"
    BY DEF Chosen
  <2>3. \A q \in OpId : OpStays(q) /\ IdentityOf(op'[q]) = IdentityOf(op[q])
    BY <1>1, SameOps
  <2>4. QED
    BY <1>1, <1>2, <1>3, <2>1, <2>2, <2>3, SameReviews, WorksOnward
<1>6. QED
  BY <1>4, <1>5 DEF FindRemote

\* A review of the vendor of the request gets the comment, and shows all of the vendor
\* that was posted before; no operation found that review with another text.
LEMMA ReviewWritten ==
  ASSUME TypeInv, OnceInv, NEW p \in Poster, ShownInv(p), poster[p].pc \in Holding,
         UNCHANGED <<finding, op, posted>>, NEW i, Answered(p, i),
         DOMAIN review' = DOMAIN review \cup {i},
         review'[i].body = CommentBody(p), review'[i].vendor = poster[p].vendor,
         i \in DOMAIN review => review[i].vendor = poster[p].vendor,
         \A k \in DOMAIN review : k # i => review'[k] = review[k]
  PROVE  ShownInv(p)'
<1>1. PICK o \in OpId : o = poster[p].op /\ op[o].status = "applying" /\ op[o].vendor = poster[p].vendor
  BY HolderKnows, SameIdentity DEF Holds, Identity, IdentityOf
<1>2. OfVendor(CommentBody(p), poster[p].vendor)
  BY DEF OfVendor, CommentBody
<1>3. ASSUME NEW q \in OpId PROVE OpShows(q)'
  <2>1. OpShows(q)
    BY DEF ShownInv, RowsShow
  <2>2. ASSUME op[q].status = "remote_applied" PROVE Says(op[q].review, op[q])'
    <3>1. Says(op[q].review, op[q])
      BY <2>1, <2>2 DEF OpShows
    <3>2. op[q].review # i
      <4>1. SUFFICES ASSUME op[q].review = i PROVE FALSE
        OBVIOUS
      <4>2. op[q].vendor = op[o].vendor
        BY <1>1, <3>1, <4>1 DEF Says
      <4>3. q = o
        BY <1>1, <2>2, <4>2 DEF ShownInv, RowsShow, VendorsApart, Open
      <4>4. QED
        BY <1>1, <2>2, <4>3
    <3>3. QED
      BY <3>1, <3>2 DEF Says
  <2>3. QED
    BY <2>1, <2>2 DEF OpShows, OfVendor, Told
<1>4. VendorsApart'
  BY DEF ShownInv, RowsShow, VendorsApart
<1>5. ReviewsSay'
  <2>1. ASSUME NEW k \in DOMAIN review' PROVE OfVendor(review'[k].body, review'[k].vendor)
    <3>1. CASE k = i
      BY <1>2, <3>1 DEF OfVendor
    <3>2. CASE k # i
      BY <2>1, <3>2 DEF ShownInv, RowsShow, ReviewsSay, OfVendor
    <3>3. QED
      BY <3>1, <3>2
  <2>2. QED
    BY <2>1 DEF ReviewsSay, OfVendor
<1>6. CommentsSay'
  BY DEF ShownInv, RowsShow, CommentsSay
<1>7. AllShown'
  <2>1. ASSUME NEW f \in Finding, finding[f].status = "posted"
        PROVE  \E k \in DOMAIN review' : Told(review'[k].body, f)
    <3>1. PICK k \in DOMAIN review : Told(review[k].body, f)
      BY <2>1 DEF ShownInv, RowsShow, AllShown
    <3>2. CASE k # i
      BY <3>1, <3>2
    <3>3. CASE k = i
      <4>1. VendorOf[f] = poster[p].vendor
        <5>1. PICK t \in Text : <<f, t>> \in review[k].body
          BY <3>1 DEF Told
        <5>2. VendorOf[<<f, t>>[1]] = review[k].vendor
          BY <5>1 DEF ShownInv, RowsShow, ReviewsSay, OfVendor
        <5>3. QED
          BY <3>3, <5>2
      <4>2. Told(poster[p].shown, f)
        BY <2>1 DEF ShownInv, Carries, Holding
      <4>3. PICK t \in Text : <<f, t>> \in poster[p].shown
        BY <4>2 DEF Told
      <4>4. <<f, t>> \in CommentBody(p)
        BY <4>1, <4>3 DEF CommentBody
      <4>5. QED
        BY <4>4 DEF Told
    <3>4. QED
      BY <3>2, <3>3
  <2>2. QED
    BY <2>1 DEF AllShown, Told
<1>8. RowsShow'
  BY <1>3, <1>4, <1>5, <1>6, <1>7 DEF RowsShow
<1>9. CASE Leave(p)
  BY <1>8, <1>9, Ended
<1>10. CASE poster' = [poster EXCEPT ![p].pc = "mark", ![p].review = i]
  <2>1. poster'[p].shown = poster[p].shown /\ poster'[p].vendor = poster[p].vendor
    BY <1>10, RowFacts DEF PosterRow
  <2>2. Identity(p)' = Identity(p)
    BY <2>1 DEF Identity, CommentBody
  <2>3. Says(i, Identity(p))'
    BY <2>2 DEF Says, Identity
  <2>4. poster[p].pc \in WithOp /\ poster[p].pc # "idle"
    BY DEF Holding, WithOp, Chosen
  <2>5. QED
    BY <1>8, <1>10, <2>3, <2>4, ReviewSays
<1>11. QED
  BY <1>9, <1>10 DEF Answered

\* The previous review of the vendor is written over; if it is gone another is created,
\* or the operation is given up.
LEMMA UpdateShows ==
  ASSUME TypeInv, OnceInv, NEW p \in Poster, ShownInv(p), UpdateReview(p)
  PROVE  ShownInv(p)'
<1>1. poster[p].pc = "update" /\ UNCHANGED posted
  BY DEF UpdateReview
<1>2. PICK i \in DOMAIN review : i = posted[poster[p].prev].review
  BY <1>1, PrevDone
<1>3. CASE /\ review' = [review EXCEPT ![i].run = p[2], ![i].body = CommentBody(p)]
           /\ Answered(p, i) /\ UNCHANGED <<finding, op>>
  <2>1. poster[p].prev # NoRow
    BY <1>1, RowFields DEF TypeInv, PosterTyped, PosterOK
  <2>2. review[i].vendor = poster[p].vendor
    BY <1>1, <1>2, <2>1 DEF ShownInv, WorksOn, RowsShow, CommentsSay, Chosen
  <2>3. PICK body : body = CommentBody(p)
    OBVIOUS
  <2>4. /\ review'[i].body = body /\ review'[i].vendor = review[i].vendor
        /\ DOMAIN review' = DOMAIN review /\ \A k \in DOMAIN review : k # i => review'[k] = review[k]
    BY <1>2, <1>3, <2>3, RowFacts DEF ReviewRow
  <2>5. /\ DOMAIN review' = DOMAIN review \cup {i}
        /\ review'[i].body = CommentBody(p) /\ review'[i].vendor = poster[p].vendor
    BY <1>2, <2>2, <2>3, <2>4
  <2>6. poster[p].pc \in Holding
    BY <1>1 DEF Holding
  <2>7. QED
    BY <1>1, <1>3, <2>2, <2>4, <2>5, <2>6, ReviewWritten
<1>4. CASE GoTo(p, "create") /\ UNCHANGED <<finding, op, review>>
  <2>1. NothingPosted
    BY <1>4 DEF NothingPosted
  <2>2. \A q \in OpId : OpStays(q) /\ IdentityOf(op'[q]) = IdentityOf(op[q])
    BY <1>4, SameOps
  <2>3. poster[p].pc \in Chosen /\ poster[p].pc \in WithOp /\ "create" \in Chosen
    BY <1>1 DEF Chosen, WithOp
  <2>4. QED
    BY <1>1, <1>4, <2>1, <2>2, <2>3, SameReviews, WorksOnward
<1>5. CASE Leave(p) /\ AbortUnapplied(p) /\ UNCHANGED review
  <2>1. PICK o \in OpId : o = poster[p].op
    BY <1>1, HolderKnows DEF Holding
  <2>2. NothingPosted
    <3>1. \/ UNCHANGED finding
          \/ finding' = [f \in Finding |-> IF finding[f].op = o
                           THEN [finding[f] EXCEPT !.op = NoOp] ELSE finding[f]]
      BY <1>5, <2>1 DEF AbortUnapplied
    <3>2. QED
      BY <3>1, Rows DEF NothingPosted, FindingRow
  <2>3. \A q \in OpId : OpStays(q)
    <3>1. UNCHANGED op \/ op' = [op EXCEPT ![o] = NoOpRow]
      BY <1>5, <2>1 DEF AbortUnapplied
    <3>2. ASSUME NEW q \in OpId, UNCHANGED op \/ q # o PROVE OpStays(q)
      BY <3>1, <3>2, RowFacts DEF OpStays
    <3>3. op' = [op EXCEPT ![o] = NoOpRow] => op'[o].status = "none"
      BY RowFacts DEF NoOpRow
    <3>4. QED
      BY <3>1, <3>2, <3>3 DEF OpStays
  <2>4. RowsShow'
    BY <1>1, <1>5, <2>2, <2>3, SameReviews, RowsStay DEF ShownInv
  <2>5. QED
    BY <1>5, <2>4, Ended
<1>6. QED
  BY <1>2, <1>3, <1>4, <1>5 DEF UpdateReview

LEMMA CreateShows ==
  ASSUME TypeInv, OnceInv, NEW p \in Poster, ShownInv(p), CreateReview(p)
  PROVE  ShownInv(p)'
<1> DEFINE row == [state |-> "shown", run |-> p[2], vendor |-> poster[p].vendor,
                   body |-> CommentBody(p), born |-> Identity(p)]
           last == Len(review) + 1
<1>1. /\ poster[p].pc = "create" /\ UNCHANGED <<finding, op, posted>>
      /\ review' = Append(review, row) /\ Answered(p, last)
  BY DEF CreateReview, dbVars
<1>2. row.vendor = poster[p].vendor /\ row.body = CommentBody(p)
  OBVIOUS
<1>3. row \in ReviewRow
  <2>1. p[2] \in Run /\ CommentBody(p) \in Body /\ poster[p].vendor \in Vendor
    BY <1>1, CommentTyped DEF TypeInv, Poster, PosterTyped, PosterOK, Chosen
  <2>2. QED
    BY <2>1 DEF ReviewRow, Identity
<1> HIDE DEF row
<1>4. /\ DOMAIN review' = DOMAIN review \cup {last} /\ last \notin DOMAIN review
      /\ review'[last] = row /\ \A k \in DOMAIN review : review'[k] = review[k]
  <2>1. review \in Seq(ReviewRow) /\ Len(review) \in Nat /\ DOMAIN review = 1..Len(review)
    BY RowFacts DEF TypeInv, ReviewTyped
  <2>2. QED
    BY <1>1, <1>3, <2>1, AppendKeeps
<1>5. QED
  BY <1>1, <1>2, <1>4, ReviewWritten DEF Holding

LEMMA MarkShows ==
  ASSUME TypeInv, OnceInv, NEW p \in Poster, ShownInv(p), MarkRemote(p)
  PROVE  ShownInv(p)'
<1>1. poster[p].pc = "mark" /\ UNCHANGED <<finding, posted, review>> /\ NothingPosted
  BY DEF MarkRemote, NothingPosted
<1>2. CASE Leave(p) /\ UNCHANGED op
  <2>1. RowsShow'
    BY <1>1, <1>2, SameOps, SameReviews, RowsStay DEF ShownInv
  <2>2. QED
    BY <1>2, <2>1, Ended
<1>3. CASE Owned(p)
  <2>1. PICK o \in OpId : o = poster[p].op /\ IdentityOf(op[o]) = Identity(p)
    BY <1>1, HolderKnows DEF Holding
  <2>2. PICK i : i = poster[p].review
    OBVIOUS
  <2>3. PICK row : row = [op[o] EXCEPT !.status = "remote_applied", !.review = i, !.owner = None]
    OBVIOUS
  <2>4. op' = [op EXCEPT ![o] = row] /\ GoTo(p, "finalize")
    BY <1>3, <2>1, <2>2, <2>3 DEF MarkRemote
  <2>5. row.status = "remote_applied" /\ IdentityOf(row) = IdentityOf(op[o]) /\ row.new = op[o].new
        /\ row.review = i
    BY <2>3, RowFacts DEF OpRow, IdentityOf
  <2>6. op[o].status \in Open /\ row.status \in Open
    BY <1>3, <2>1, <2>5 DEF Owned, Open
  <2>7. Says(i, op[o])
    <3>1. Says(i, Identity(p))
      BY <1>1, <2>2 DEF ShownInv, WorksOn
    <3>2. Identity(p).body = op[o].body /\ Identity(p).vendor = op[o].vendor
      BY <2>1 DEF Identity, IdentityOf
    <3>3. QED
      BY <3>1, <3>2 DEF Says
  <2>8. \A q \in OpId : OpStays(q) /\ IdentityOf(op'[q]) = IdentityOf(op[q])
    BY <2>4, <2>5, <2>6, <2>7, OpWritten
  <2>9. poster[p].pc \in Chosen /\ poster[p].pc \in WithOp /\ "finalize" \in Chosen
    BY <1>1 DEF Chosen, WithOp
  <2>10. QED
    BY <1>1, <2>4, <2>8, <2>9, SameReviews, WorksOnward
<1>4. QED
  BY <1>1, <1>2, <1>3 DEF MarkRemote

\* What becomes posted is in the review of its operation; the request goes on with
\* comments that list it too.
LEMMA FinalizeShows ==
  ASSUME TypeInv, ReservationsAgree, OnceInv, NEW p \in Poster, ShownInv(p), Finalize(p)
  PROVE  ShownInv(p)'
<1>1. poster[p].pc = "finalize" /\ UNCHANGED review
  BY DEF Finalize
<1>2. PICK o \in OpId : o = poster[p].op
  BY <1>1 DEF TypeInv, PosterTyped, PosterOK, WithOp, Chosen
<1>3. CASE Leave(p) /\ UNCHANGED <<finding, op, posted>>
  <2>1. NothingPosted
    BY <1>3 DEF NothingPosted
  <2>2. RowsShow'
    BY <1>1, <1>3, <2>1, SameOps, SameReviews, RowsStay DEF ShownInv
  <2>3. QED
    BY <1>3, <2>2, Ended
<1>4. CASE StillReserved(o) /\ ~(Leave(p) /\ UNCHANGED <<finding, op, posted>>)
  <2> DEFINE new == [op |-> o, vendor |-> poster[p].vendor,
                     review |-> poster[p].review, current |-> TRUE]
             kept == [k \in DOMAIN posted |->
                        IF k = poster[p].prev THEN [posted[k] EXCEPT !.current = FALSE]
                        ELSE posted[k]]
             last == Len(posted) + 1
  <2>1. /\ op' = [op EXCEPT ![o].status = "succeeded", ![o].owner = None]
        /\ posted' = Append(kept, new)
        /\ finding' = [f \in Finding |-> IF f \in op[o].new
                         THEN [finding[f] EXCEPT !.status = "posted", !.op = NoOp]
                         ELSE finding[f]]
    BY <1>2, <1>4 DEF Finalize
  <2>2. op[o].status = "remote_applied" /\ op[o].review = poster[p].review
    <3>1. op[o].status \in Applied /\ op[o].review = poster[p].review
      BY <1>1, <1>2 DEF OnceInv, PosterOnce
    <3>2. op[o].new # {}
      BY <3>1 DEF OnceInv, RowsOnce, OpOnce, Applied
    <3>3. PICK f \in op[o].new : finding[f].op = o
      BY <1>4, <3>2 DEF StillReserved
    <3>4. f \in Finding /\ o # NoOp
      BY Rows DEF NoOp
    <3>5. op[o].status \in Open
      BY <3>3, <3>4 DEF ReservationsAgree
    <3>6. QED
      BY <3>1, <3>5 DEF Open, Applied
  <2>3. /\ op'[o].status = "succeeded" /\ op'[o].new = op[o].new
        /\ IdentityOf(op'[o]) = IdentityOf(op[o])
        /\ \A q \in OpId \ {o} : op'[q] = op[q]
    <3>1. PICK row : row = [op[o] EXCEPT !.status = "succeeded", !.owner = None]
      OBVIOUS
    <3>2. op' = [op EXCEPT ![o] = row]
      BY <2>1, <3>1
    <3>3. op'[o] = row /\ \A q \in OpId \ {o} : op'[q] = op[q]
      BY <3>2, RowFacts
    <3>4. op[o] \in OpRow
      BY RowFacts
    <3>5. row.status = "succeeded" /\ row.new = op[o].new /\ IdentityOf(row) = IdentityOf(op[o])
      BY <3>1, <3>4 DEF OpRow, IdentityOf
    <3>6. QED
      BY <3>3, <3>5
  <2>4. /\ Says(op[o].review, op[o]) /\ op[o].vendor = poster[p].vendor
        /\ op[o].body = CommentBody(p)
        /\ \A f \in op[o].new : Told(op[o].body, f)
        /\ op[o].new \subseteq poster[p].new
    <3>1. OpShows(o)
      BY DEF ShownInv, RowsShow
    <3>2. IdentityOf(op[o]) = Identity(p) /\ poster[p].pc # "idle"
      BY <1>1, <1>2 DEF ShownInv, WorksOn, WithOp, Chosen
    <3>3. op[o].vendor = poster[p].vendor /\ op[o].body = CommentBody(p)
      BY <3>2 DEF Identity, IdentityOf
    <3>4. op[o].new \subseteq poster[p].new
      BY <2>2, <3>2 DEF ShownInv, Carries, Open
    <3>5. QED
      BY <2>2, <3>1, <3>3, <3>4 DEF OpShows
  <2>5. /\ DOMAIN posted' = DOMAIN posted \cup {last}
        /\ posted'[last].vendor = poster[p].vendor /\ posted'[last].review = poster[p].review
        /\ \A k \in DOMAIN posted : /\ k # last /\ posted'[k].vendor = posted[k].vendor
                                    /\ posted'[k].review = posted[k].review
    <3>1. Len(posted) \in Nat /\ DOMAIN posted = 1..Len(posted)
      BY RowFacts
    <3>2. DOMAIN kept = 1..Len(posted) /\ Len(kept) = Len(posted)
      BY <3>1
    <3>3. \A k \in DOMAIN posted : kept[k].vendor = posted[k].vendor
                                   /\ kept[k].review = posted[k].review
      <4>1. \A r \in PostedRow : /\ [r EXCEPT !.current = FALSE].vendor = r.vendor
                                 /\ [r EXCEPT !.current = FALSE].review = r.review
        BY DEF PostedRow
      <4>2. QED
        BY <4>1, RowFacts
    <3>4. kept \in Seq(PostedRow)
      <4>1. \A k \in 1..Len(posted) : posted[k] \in PostedRow
        BY ElementOfSeq DEF TypeInv, PostedTyped
      <4>2. \A k \in 1..Len(posted) : kept[k] \in PostedRow
        BY <3>1, <4>1 DEF PostedRow
      <4>3. kept = [k \in 1..Len(posted) |-> kept[k]]
        BY <3>1
      <4> HIDE DEF kept
      <4>4. kept \in [1..Len(posted) -> PostedRow]
        BY <4>2, <4>3
      <4>5. QED
        BY <3>1, <4>4
    <3>5. new \in PostedRow
      <4>1. PosterOK(poster[p], Len(posted))
        BY DEF TypeInv, PosterTyped
      <4>2. poster[p].review \in 0..MaxReviews /\ poster[p].review # 0
        BY <1>1, <4>1, RowFields DEF PosterOK, Settled, NoReview
      <4>3. poster[p].vendor \in Vendor /\ poster[p].review \in 1..MaxReviews
        BY <1>1, <4>1, <4>2, Bounds DEF PosterOK, Chosen, WithOp
      <4>4. QED
        BY <4>3 DEF PostedRow
    <3>6. new.vendor = poster[p].vendor /\ new.review = poster[p].review
      OBVIOUS
    <3> HIDE DEF kept, new
    <3>7. DOMAIN Append(kept, new) = DOMAIN kept \cup {Len(kept) + 1}
          /\ Len(kept) + 1 \notin DOMAIN kept
          /\ Append(kept, new)[Len(kept) + 1] = new
          /\ \A k \in DOMAIN kept : Append(kept, new)[k] = kept[k]
      BY <3>4, <3>5, AppendKeeps
    <3>8. QED
      BY <2>1, <3>1, <3>2, <3>3, <3>6, <3>7
  <2> HIDE DEF kept, new, last
  <2>6. /\ \A f \in op[o].new : f \in Finding
        /\ \A f \in Finding : finding'[f].status = "posted" =>
             finding[f].status = "posted" \/ f \in op[o].new
    BY <2>1, Rows DEF FindingRow
  <2>7. ASSUME NEW q \in OpId PROVE OpShows(q)'
    <3>1. OpShows(q)
      BY DEF ShownInv, RowsShow
    <3>2. CASE q = o
      <4>1. op'[o].vendor = op[o].vendor /\ op'[o].body = op[o].body
        BY <2>3, SameIdentity
      <4>2. QED
        BY <2>2, <2>3, <3>1, <3>2, <4>1 DEF OpShows, OfVendor, Told
    <3>3. CASE q # o
      BY <1>1, <2>3, <3>1, <3>3 DEF OpShows, OfVendor, Told, Says
    <3>4. QED
      BY <3>2, <3>3
  <2>8. VendorsApart'
    BY <2>3 DEF ShownInv, RowsShow, VendorsApart, Open
  <2>9. ReviewsSay'
    BY <1>1 DEF ShownInv, RowsShow, ReviewsSay, OfVendor
  <2>10. CommentsSay'
    <3>1. poster[p].review \in DOMAIN review /\ review[poster[p].review].vendor = poster[p].vendor
      BY <2>2, <2>4 DEF Says
    <3>2. QED
      BY <1>1, <2>5, <3>1 DEF ShownInv, RowsShow, CommentsSay
  <2>11. AllShown'
    <3>1. ASSUME NEW f \in Finding, finding'[f].status = "posted"
          PROVE  \E i \in DOMAIN review : Told(review[i].body, f)
      <4>1. CASE finding[f].status = "posted"
        BY <4>1 DEF ShownInv, RowsShow, AllShown
      <4>2. CASE f \in op[o].new
        BY <2>4, <4>2 DEF Says
      <4>3. QED
        BY <2>6, <3>1, <4>1, <4>2
    <3>2. QED
      BY <1>1, <3>1 DEF AllShown, Told
  <2>12. RowsShow'
    BY <2>7, <2>8, <2>9, <2>10, <2>11 DEF RowsShow
  <2>13. CASE Leave(p)
    BY <2>12, <2>13, Ended
  <2>14. CASE poster'[p].pc = "check" /\ poster'[p].new = poster[p].new
              /\ poster'[p].shown = poster[p].shown
    <3>1. \A f \in op[o].new : Told(poster[p].shown, f)
      BY <2>4 DEF Told, CommentBody
    <3>2. Carries(poster[p])
      BY DEF ShownInv
    <3>3. poster[p].pc # "idle"
      BY <1>1
    <3>4. \A f \in Finding : finding'[f].status = "posted" => Told(poster[p].shown, f)
      BY <2>6, <3>1, <3>2, <3>3 DEF Carries
    <3>5. \A q \in OpId : op'[q].status \in Open =>
            op[q].status \in Open /\ op'[q].new = op[q].new
      BY <2>3 DEF Open
    <3>6. Carries(poster[p])'
      BY <2>14, <3>2, <3>3, <3>4, <3>5 DEF Carries, Told
    <3>7. WorksOn(p)'
      BY <2>14 DEF WorksOn, Chosen, WithOp
    <3>8. QED
      BY <2>12, <3>6, <3>7 DEF ShownInv
  <2>15. QED
    BY <1>1, <2>13, <2>14, NextComment
<1>5. QED
  BY <1>2, <1>3, <1>4 DEF Finalize

\* At first nothing is posted and nobody posts.
LEMMA ShownInit ==
  ASSUME Init, NEW p \in Poster
  PROVE  ShownInv(p)
<1>1. /\ \A o \in OpId : op[o].status = "none"
      /\ posted = <<>> /\ review = <<>> /\ poster[p].pc = "idle"
      /\ \A f \in Finding : finding[f].status = "pending"
  BY DEF Init, NoOpRow, IdlePoster
<1>2. DOMAIN posted = {} /\ DOMAIN review = {}
  BY <1>1
<1>3. RowsShow
  BY <1>1, <1>2 DEF RowsShow, OpShows, VendorsApart, ReviewsSay, CommentsSay, AllShown, Open
<1>4. QED
  BY <1>1, <1>3 DEF ShownInv, Carries, WorksOn, Chosen, WithOp

\* Every step keeps the invariant.
LEMMA ShownStep ==
  ASSUME NEW p, Alone(p), TypeInv, ReservationsAgree, OnceInv, ShownInv(p), [Next]_vars
  PROVE  ShownInv(p)'
<1>0. p \in Poster /\ \A q \in Poster : q = p
  BY DEF Alone
<1>1. ASSUME NEW f \in Finding, PatchFinding(f) PROVE ShownInv(p)'
  BY <1>0, <1>1, PatchShows
<1>2. CASE MoveHead \/ NewRun \/ UNCHANGED vars
  <2>1. UNCHANGED <<finding, op, posted, review, poster>>
    BY <1>2 DEF MoveHead, NewRun, dbVars, vars
  <2>2. NothingPosted /\ (poster[p].pc \in WithOp => poster[p].op \in OpId)
    BY <1>0, <2>1 DEF NothingPosted, TypeInv, PosterTyped, PosterOK
  <2>3. \A o \in OpId : OpStays(o) /\ IdentityOf(op'[o]) = IdentityOf(op[o])
    BY <2>1, SameOps
  <2>4. QED
    BY <1>0, <2>1, <2>2, <2>3, SameReviews, Undisturbed
<1>3. ASSUME NEW i \in DOMAIN review, RemoveReview(i) PROVE ShownInv(p)'
  BY <1>0, <1>3, RemoveShows
<1>4. ASSUME NEW o \in OpId, LockAges(o) PROVE ShownInv(p)'
  BY <1>0, <1>4, LockAgesShows
<1>5. CASE BuildComments(p)
  BY <1>5, BuildShows
<1>6. CASE Stop(p)
  <2>1. Leave(p) /\ UNCHANGED <<finding, op, posted, review>>
    BY <1>6 DEF Stop, dbVars
  <2>2. NothingPosted
    BY <2>1 DEF NothingPosted
  <2>3. RowsShow'
    BY <2>1, <2>2, SameOps, SameReviews, RowsStay DEF ShownInv
  <2>4. QED
    BY <1>0, <2>1, <2>3, Ended
<1>7. CASE PostStep(p)
  <2>1. CASE Prepare(p)
    BY <2>1, PrepareShows
  <2>2. CASE CheckRun(p) \/ CheckHead(p) \/ ClaimOp(p) \/ FindRemote(p)
    BY <1>0, <2>2, CheckRunShows, CheckHeadShows, ClaimShows, FindShows
  <2>3. CASE UpdateReview(p) \/ CreateReview(p) \/ MarkRemote(p) \/ Finalize(p)
    BY <1>0, <2>3, UpdateShows, CreateShows, MarkShows, FinalizeShows
  <2>4. QED
    BY <1>7, <2>1, <2>2, <2>3 DEF PostStep
<1>8. QED
  BY <1>0, <1>1, <1>2, <1>3, <1>4, <1>5, <1>6, <1>7 DEF Next

\* With one process and one run, the request of that run is the only one.
LEMMA OneRequest ==
  ASSUME NEW P, Proc = {P}, LastRun = 1
  PROVE  Alone(<<P, 1>>)
<1>1. Run = {1} /\ Poster = {<<P, 1>>}
  BY DEF Run, Poster
<1>2. \A f \in Finding : RunOf[f] = 1
  BY <1>1, PostAssumption
<1>3. QED
  BY <1>1, <1>2 DEF Alone

\* Re-posting a run keeps what was posted before: every posted finding is in some
\* review.  One process, one run: two requests for the same pull request may write
\* over each other's comment.
THEOREM PostedShown ==
  ASSUME NEW P, Proc = {P}, LastRun = 1
  PROVE  Spec => []PostedStaysShown
<1>1. PICK p : p = <<P, 1>>
  OBVIOUS
<1>2. Alone(p) /\ p \in Poster
  BY <1>1, OneRequest DEF Alone
<1>3. Init => ShownInv(p)
  BY <1>2, ShownInit
<1>4. TypeInv /\ ReservationsAgree /\ OnceInv /\ ShownInv(p) /\ [Next]_vars => ShownInv(p)'
  BY <1>2, ShownStep
<1>5. Init => TypeInv
  BY TypeInit
<1>6. TypeInv /\ [Next]_vars => TypeInv'
  BY TypeStep
<1>7. ShownInv(p) => PostedStaysShown
  BY DEF ShownInv, RowsShow, AllShown, Told, PostedStaysShown
<1>8. QED
  BY <1>3, <1>4, <1>5, <1>6, <1>7, Agreement, OnceAlways, PTL DEF Spec
=============================================================================
