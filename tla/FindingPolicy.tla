---------------------------- MODULE FindingPolicy ----------------------------
(***************************************************************************)
(* What happens to the findings of the vendors before they are stored:     *)
(* server/review/finding_policy.py (scope, duplicates, rollout decision),  *)
(* merge.py (consensus) and verify.py (debate).  A finding is a record;    *)
(* its key is what the vendor claimed where.                               *)
(***************************************************************************)
EXTENDS Integers, FiniteSets, SequencesExt, Sublist

CONSTANT Proximity  \* LINE_PROXIMITY
ASSUME PolicyAssumption == Proximity \in Nat

Indices(fs) == 1..Len(fs)
KeyOf(f) == <<f.vendor, f.path, f.line>>

---------------------------------------------------------------------------
(* Rollout: which policies are enforced                                   *)

\* resolve_policy_decision: requested, not killed, unlocked, attested by a
\* benchmark of this very runtime, and selected.
Decide(p, attested) ==
  LET requested == IF p.override = "none" THEN p.default ELSE p.override IN
  IF /\ requested = "enforce"
     /\ ~p.kill /\ p.unlocked /\ attested
     /\ p.override = "enforce" \/ p.canary
  THEN "enforce" ELSE "observe"

\* _benchmark_runtime_identity: known only for runs of a single vendor.
OneRuntime(vendors) == Cardinality(vendors) = 1

\* resolve_benchmark_attestation: the pinned report vouches for this runtime.
Attested(p, vendors) == OneRuntime(vendors) /\ vendors \subseteq p.attested

\* resolve_policy_snapshot; the report is named in the hashed configuration only
\* when it vouches for this runtime.
Snapshot(p, vendors) ==
  LET yes == Attested(p, vendors) IN
  [scope |-> Decide(p.scope, yes), dedupe |-> Decide(p.dedupe, yes),
   config |-> <<p.scope, p.dedupe, yes>>]

---------------------------------------------------------------------------
(* Scope and duplicates                                                   *)

\* Mutant: only findings in their own chunk are in scope.
ScopedOwnChunk(f, owner) ==
  [f EXCEPT !.owner = owner, !.eligible = (owner = f.source)]

\* A finding outside the added lines is never posted; inside it is, also when
\* another chunk owns the line.
Scoped(f, owner) == [f EXCEPT !.owner = owner, !.eligible = (owner # 0)]

\* apply_finding_scope; owners gives the chunk of every place.
ApplyScope(fs, owners, mode) ==
  LET all == [i \in Indices(fs) |-> Scoped(fs[i], owners[<<fs[i].path, fs[i].line>>])]
  IN IF mode = "enforce" THEN Only(all, {i \in Indices(all) : all[i].owner # 0}) ELSE all

Twins(fs, i) == {j \in Indices(fs) : KeyOf(fs[j]) = KeyOf(fs[i])}

\* Mutant: the last of them stays.
IsLast(fs, i) == \A j \in Twins(fs, i) : j <= i

IsFirst(fs, i) == \A j \in Twins(fs, i) : i <= j

\* Groups are numbered by their first member, from the number after base.
GroupNumber(fs, i, base) ==
  base + Cardinality({j \in Indices(fs) : /\ IsFirst(fs, j) /\ Cardinality(Twins(fs, j)) > 1
                                          /\ \E k \in Twins(fs, i) : j <= k /\ IsFirst(fs, k)})

\* group_duplicate_candidates
GroupDuplicates(fs, mode) ==
  [i \in Indices(fs) |->
     IF Cardinality(Twins(fs, i)) < 2 THEN fs[i]
     ELSE [fs[i] EXCEPT !.group = GroupNumber(fs, i, 0),
             !.eligible = @ /\ (mode = "enforce" => IsFirst(fs, i))]]

Highest(fs) ==
  IF \A i \in Indices(fs) : fs[i].group = 0 THEN 0
  ELSE CHOOSE n \in {fs[i].group : i \in Indices(fs)} :
         \A i \in Indices(fs) : fs[i].group <= n

\* _group_retry_duplicates: stored findings come first and keep their number; a
\* new number follows the highest stored one.
GroupRetried(old, new, mode) ==
  LET fs == old \o new
      isNew(i) == i > Len(old)
      fresh(i) == \E j \in Twins(fs, i) : isNew(j)
      firstNew(i) == isNew(i) /\ \A j \in Twins(fs, i) : isNew(j) => i <= j
      kept(i) == {fs[j].group : j \in {k \in Twins(fs, i) : ~isNew(k)}} \ {0}
      numbered == {i \in Indices(fs) : /\ firstNew(i) /\ kept(i) = {}
                                       /\ Cardinality(Twins(fs, i)) > 1}
      number(i) ==
        IF kept(i) # {} THEN CHOOSE g \in kept(i) : TRUE
        ELSE Highest(old) + Cardinality({j \in numbered :
                              \E k \in Twins(fs, i) : firstNew(k) /\ j <= k})
  IN [i \in Indices(fs) |->
        IF ~fresh(i) \/ Cardinality(Twins(fs, i)) < 2 THEN fs[i]
        ELSE [fs[i] EXCEPT !.group = number(i),
                !.eligible = @ /\ (mode = "enforce" => IsFirst(fs, i))]]

---------------------------------------------------------------------------
(* Consensus                                                              *)

\* Mutant: a finding joins a group only of its own vendor.
NearVendor(f, g) == f.path = g.path /\ f.line = g.line /\ f.vendor = g.vendor

Near(f, g) == /\ f.path = g.path
              /\ f.line - g.line \in -Proximity..Proximity

\* deterministic_merge compares with the first finding of a group only.
GroupStep(s, f) ==
  LET fits == {g \in Indices(s.heads) : Near(s.heads[g], f)}
      g == IF fits = {} THEN Len(s.heads) + 1 ELSE CHOOSE n \in fits : \A k \in fits : n <= k
  IN [heads |-> IF fits = {} THEN Append(s.heads, f) ELSE s.heads, of |-> Append(s.of, g)]

MergeGroups(fs) == FoldLeft(GroupStep, [heads |-> <<>>, of |-> <<>>], fs).of

Agreed(fs, of, i) ==
  \E j, k \in Indices(fs) : of[j] = of[i] /\ of[k] = of[i] /\ fs[j].vendor # fs[k].vendor

Tagged(fs) ==
  LET of == MergeGroups(fs) IN
  [i \in Indices(fs) |-> [fs[i] EXCEPT !.merged = of[i], !.consensus = Agreed(fs, of, i)]]

\* Stored group by group.
InGroupOrder(fs) ==
  FlattenSeq([g \in Indices(fs) |-> Only(fs, {i \in Indices(fs) : fs[i].merged = g})])

---------------------------------------------------------------------------
(* Debate over a serious finding of one vendor                            *)

\* _pick_verifier: another of the debaters if there is one.
Refuter(author, by) ==
  IF by \ {author} = {} THEN author ELSE CHOOSE v \in by \ {author} : TRUE

\* Two sides: the author is a debater as well as somebody else.
Independent(author, by) == author \in by /\ Refuter(author, by) # author

\* Mutant: what its author supports counts as confirmed.
VerdictSelf(author, by, first, second) ==
  CASE first = "error" -> "degraded"
    [] first = "stands" -> "confirmed"
    [] OTHER -> "refuted"

\* _debate and its translation in _verify_singles: the challenge of the refuter,
\* then the defence of the author, if the author is a debater.
Verdict(author, by, first, second) ==
  CASE first = "error" -> "degraded"
    [] first = "stands" -> IF Independent(author, by) THEN "confirmed" ELSE "supported_self"
    [] first = "falls" /\ Independent(author, by) /\ second = "stands" -> "contested"
    [] OTHER -> "refuted"

\* Who is asked about a finding.
Asked(author, by, first) ==
  {Refuter(author, by)} \cup IF first = "falls" /\ author \in by THEN {author} ELSE {}
=============================================================================
