----------------------- MODULE ReviewExecutionResults -----------------------
(***************************************************************************)
(* Proofs about the findings that ReviewExecution stores: what may be      *)
(* posted of a claim made twice, who agrees, who confirmed, and what the   *)
(* counters say, through debates, retries, decisions and posts.            *)
(***************************************************************************)
EXTENDS ReviewExecutionProofs

---------------------------------------------------------------------------
(* Duplicates and consensus of a list of findings                         *)

\* Another finding that claims the same.
Doubled(fs, i) == \E j \in 1..Len(fs) : j # i /\ KeyOf(fs[j]) = KeyOf(fs[i])

\* What scope and duplicates leave behind.
Deduped(fs, scope, dedupe) ==
  /\ \A i \in 1..Len(fs) :
       /\ scope = "enforce" => fs[i].owner # 0
       /\ fs[i].eligible <=> fs[i].owner # 0 /\ (dedupe = "enforce" => IsFirst(fs, i))
       /\ fs[i].group # 0 <=> Doubled(fs, i)
  /\ \A i, j \in 1..Len(fs) :
       /\ KeyOf(fs[i]) = KeyOf(fs[j]) => fs[i].group = fs[j].group
       /\ fs[i].group = fs[j].group /\ fs[i].group # 0 => KeyOf(fs[i]) = KeyOf(fs[j])

\* Another vendor names a line that is no further away than d.
Seconded(fs, i, d) ==
  \E j \in 1..Len(fs) : /\ fs[j].vendor # fs[i].vendor /\ fs[j].path = fs[i].path
                        /\ fs[i].line - fs[j].line \in -d..d

\* What consensus leaves behind.
Agreeing(fs) ==
  \A i \in 1..Len(fs) :
    /\ (\E j \in 1..Len(fs) : /\ fs[j].vendor # fs[i].vendor /\ fs[j].path = fs[i].path
                              /\ fs[j].line = fs[i].line) => fs[i].consensus
    /\ fs[i].consensus => Seconded(fs, i, 2 * Proximity)

\* Duplicates are merged with each other.
TwinGroups(fs) ==
  /\ \A i \in 1..Len(fs) : fs[i].merged \in 1..Len(fs)
  /\ \A i, j \in 1..Len(fs) : KeyOf(fs[i]) = KeyOf(fs[j]) => fs[i].merged = fs[j].merged

LEMMA TwinsMany ==
  ASSUME NEW fs \in Seq(Placed), NEW i \in 1..Len(fs)
  PROVE  /\ Cardinality(Twins(fs, i)) > 1 <=> Doubled(fs, i)
         /\ Cardinality(Twins(fs, i)) < 2 <=> ~Doubled(fs, i)
<1>1. PICK T : T = Twins(fs, i)
  OBVIOUS
<1>2. /\ i \in T /\ T \in SUBSET Indices(fs)
      /\ \A j : j \in T <=> j \in 1..Len(fs) /\ KeyOf(fs[j]) = KeyOf(fs[i])
  BY <1>1 DEF Twins, Indices
<1>3. IsFiniteSet(T) /\ Cardinality(T) \in Nat
  BY <1>2, SomeOf
<1>4. CASE Doubled(fs, i)
  <2>1. PICK j \in T : j # i
    BY <1>2, <1>4 DEF Doubled
  <2>2. {i, j} \subseteq T
    BY <1>2, <2>1
  <2>3. Cardinality({i, j}) = 2
    <3>1. IsFiniteSet({i}) /\ Cardinality({i}) = 1 /\ j \notin {i}
      BY <2>1, FS_Singleton
    <3>2. Cardinality({i} \cup {j}) = 2
      <4>1. PICK S : S = {i}
        OBVIOUS
      <4>2. IsFiniteSet(S) /\ Cardinality(S) = 1 /\ j \notin S
        BY <3>1, <4>1
      <4>3. Cardinality(S \cup {j}) = Cardinality(S) + 1
        BY <4>2, FS_AddElement
      <4>4. Cardinality(S \cup {j}) = 2
        BY <4>2, <4>3
      <4>5. QED
        BY <4>1, <4>4, Zenon
    <3>3. {i} \cup {j} = {i, j}
      OBVIOUS
    <3>4. QED
      BY <3>2, <3>3
  <2>4. Cardinality({i, j}) <= Cardinality(T)
    BY <1>3, <2>2, FS_Subset
  <2>5. QED
    BY <1>1, <1>3, <1>4, <2>3, <2>4
<1>5. CASE ~Doubled(fs, i)
  <2>1. T = {i}
    BY <1>2, <1>5 DEF Doubled
  <2>2. Cardinality(T) = 1
    BY <2>1, FS_Singleton
  <2>3. QED
    BY <1>1, <1>5, <2>2
<1>6. QED
  BY <1>4, <1>5

LEMMA FirstIs ==
  ASSUME NEW fs, NEW i
  PROVE  IsFirst(fs, i) <=> \A j \in 1..Len(fs) : KeyOf(fs[j]) = KeyOf(fs[i]) => i <= j
  BY DEF IsFirst, Twins, Indices

\* The lists differ in nothing that duplicates are about.
LEMMA DedupedSame ==
  ASSUME NEW fs, NEW out, NEW scope, NEW dedupe, Deduped(fs, scope, dedupe), Len(out) = Len(fs),
         \A i \in 1..Len(fs) : /\ KeyOf(out[i]) = KeyOf(fs[i]) /\ out[i].owner = fs[i].owner
                               /\ out[i].eligible = fs[i].eligible /\ out[i].group = fs[i].group
  PROVE  Deduped(out, scope, dedupe)
<1>1. \A i \in 1..Len(fs) : IsFirst(out, i) <=> IsFirst(fs, i)
  BY FirstIs
<1>2. \A i \in 1..Len(fs) : Doubled(out, i) <=> Doubled(fs, i)
  BY DEF Doubled
<1>3. QED
  BY <1>1, <1>2 DEF Deduped

LEMMA AgreeingSame ==
  ASSUME NEW fs, NEW out, Agreeing(fs), Len(out) = Len(fs),
         \A i \in 1..Len(fs) : SameClaim(out[i], fs[i]) /\ out[i].consensus = fs[i].consensus
  PROVE  Agreeing(out)
<1>1. \A i \in 1..Len(fs) : Seconded(fs, i, 2 * Proximity) => Seconded(out, i, 2 * Proximity)
  BY DEF Seconded, SameClaim
<1>2. QED
  BY <1>1 DEF Agreeing, SameClaim

\* Group by group, duplicates stay in their order.
LEMMA OrderKeeps ==
  ASSUME NEW fs \in Seq(Placed), TwinGroups(fs), NEW scope, NEW dedupe,
         Deduped(fs, scope, dedupe), Agreeing(fs)
  PROVE  LET out == InGroupOrder(fs) IN Deduped(out, scope, dedupe) /\ Agreeing(out)
<1>1. PICK out : out = InGroupOrder(fs)
  OBVIOUS
<1>2. out \in Seq(Placed) /\ \E pos \in [1..Len(out) -> Nat] : Regroups(out, fs, pos)
  BY <1>1, OrderPlaces
<1>3. PICK pos \in [1..Len(out) -> Nat] : Regroups(out, fs, pos)
  BY <1>2
<1>4. PICK m, n : m = Len(out) /\ n = Len(fs)
  OBVIOUS
<1>5. /\ \A k \in 1..m : pos[k] \in 1..n /\ out[k] = fs[pos[k]]
      /\ \A j, k \in 1..m : pos[j] = pos[k] => j = k
      /\ \A j, k \in 1..m : j < k /\ fs[pos[j]].merged = fs[pos[k]].merged => pos[j] < pos[k]
      /\ \A i \in 1..n : \E k \in 1..m : pos[k] = i
      /\ m \in Nat /\ n \in Nat
  BY <1>2, <1>3, <1>4 DEF Regroups, TwinGroups
<1>6. ASSUME NEW k \in 1..m PROVE IsFirst(out, k) <=> IsFirst(fs, pos[k])
  <2>1. ASSUME IsFirst(fs, pos[k]), NEW j \in 1..m, KeyOf(out[j]) = KeyOf(out[k]) PROVE k <= j
    <3>1. pos[k] <= pos[j]
      BY <1>4, <1>5, <2>1, FirstIs
    <3>2. fs[pos[j]].merged = fs[pos[k]].merged
      <4>1. /\ pos[j] \in 1..Len(fs) /\ pos[k] \in 1..Len(fs)
            /\ KeyOf(fs[pos[j]]) = KeyOf(fs[pos[k]])
        BY <1>4, <1>5, <2>1
      <4>2. QED
        BY <4>1 DEF TwinGroups
    <3>3. j < k => pos[j] < pos[k]
      BY <1>5, <3>2
    <3>4. pos[j] \in Nat /\ pos[k] \in Nat
      BY <1>5
    <3>5. QED
      BY <1>5, <3>1, <3>3, <3>4
  <2>2. ASSUME IsFirst(out, k), NEW i \in 1..n, KeyOf(fs[i]) = KeyOf(fs[pos[k]]) PROVE pos[k] <= i
    <3>1. PICK j \in 1..m : pos[j] = i
      BY <1>5
    <3>2. KeyOf(out[j]) = KeyOf(out[k])
      BY <1>5, <2>2, <3>1
    <3>3. k <= j
      BY <1>4, <2>2, <3>2, FirstIs
    <3>4. fs[pos[j]].merged = fs[pos[k]].merged
      BY <1>4, <1>5, <2>2, <3>1 DEF TwinGroups
    <3>5. k < j => pos[k] < pos[j]
      BY <1>5, <3>4
    <3>6. pos[j] \in Nat /\ pos[k] \in Nat
      BY <1>5
    <3>7. QED
      BY <1>5, <3>1, <3>3, <3>5, <3>6
  <2>3. QED
    BY <1>4, <2>1, <2>2, FirstIs
<1>7. ASSUME NEW k \in 1..m PROVE Doubled(out, k) <=> Doubled(fs, pos[k])
  <2>1. ASSUME Doubled(out, k) PROVE Doubled(fs, pos[k])
    BY <1>4, <1>5, <2>1 DEF Doubled
  <2>2. ASSUME Doubled(fs, pos[k]) PROVE Doubled(out, k)
    <3>1. PICK i \in 1..n : i # pos[k] /\ KeyOf(fs[i]) = KeyOf(fs[pos[k]])
      BY <1>4, <2>2 DEF Doubled
    <3>2. PICK j \in 1..m : pos[j] = i
      BY <1>5
    <3>3. QED
      BY <1>4, <1>5, <3>1, <3>2 DEF Doubled
  <2>3. QED
    BY <2>1, <2>2
<1>8. Deduped(out, scope, dedupe)
  <2>1. ASSUME NEW k \in 1..m
        PROVE  /\ scope = "enforce" => out[k].owner # 0
               /\ out[k].eligible <=> out[k].owner # 0 /\ (dedupe = "enforce" => IsFirst(out, k))
               /\ out[k].group # 0 <=> Doubled(out, k)
    <3>1. pos[k] \in 1..Len(fs) /\ out[k] = fs[pos[k]]
      BY <1>4, <1>5
    <3>2. QED
      BY <1>6, <1>7, <3>1 DEF Deduped
  <2>2. ASSUME NEW j \in 1..m, NEW k \in 1..m
        PROVE  /\ KeyOf(out[j]) = KeyOf(out[k]) => out[j].group = out[k].group
               /\ out[j].group = out[k].group /\ out[j].group # 0 => KeyOf(out[j]) = KeyOf(out[k])
    <3>1. /\ pos[j] \in 1..Len(fs) /\ out[j] = fs[pos[j]]
          /\ pos[k] \in 1..Len(fs) /\ out[k] = fs[pos[k]]
      BY <1>4, <1>5
    <3>2. PICK x, y : x = pos[j] /\ y = pos[k]
      OBVIOUS
    <3>3. /\ KeyOf(fs[x]) = KeyOf(fs[y]) => fs[x].group = fs[y].group
          /\ fs[x].group = fs[y].group /\ fs[x].group # 0 => KeyOf(fs[x]) = KeyOf(fs[y])
      <4>1. x \in 1..Len(fs) /\ y \in 1..Len(fs)
        BY <3>1, <3>2
      <4>2. QED
        BY <4>1 DEF Deduped
    <3>4. out[j] = fs[x] /\ out[k] = fs[y]
      BY <3>1, <3>2
    <3>5. QED
      BY <3>3, <3>4
  <2>3. QED
    BY <1>4, <2>1, <2>2 DEF Deduped
<1>9. Agreeing(out)
  <2>1. ASSUME NEW k \in 1..m
        PROVE  /\ (\E j \in 1..m : /\ out[j].vendor # out[k].vendor /\ out[j].path = out[k].path
                                   /\ out[j].line = out[k].line) => out[k].consensus
               /\ out[k].consensus => Seconded(out, k, 2 * Proximity)
    <3>1. pos[k] \in 1..Len(fs) /\ out[k] = fs[pos[k]]
      BY <1>4, <1>5
    <3>2. ASSUME NEW j \in 1..m, out[j].vendor # out[k].vendor, out[j].path = out[k].path,
                 out[j].line = out[k].line
          PROVE  out[k].consensus
      <4>1. pos[j] \in 1..Len(fs) /\ out[j] = fs[pos[j]]
        BY <1>4, <1>5
      <4>2. QED
        BY <3>1, <3>2, <4>1 DEF Agreeing
    <3>3. ASSUME out[k].consensus PROVE Seconded(out, k, 2 * Proximity)
      <4>1. Seconded(fs, pos[k], 2 * Proximity)
        BY <3>1, <3>3 DEF Agreeing
      <4>2. PICK i \in 1..n :
              /\ fs[i].vendor # fs[pos[k]].vendor /\ fs[i].path = fs[pos[k]].path
              /\ fs[pos[k]].line - fs[i].line \in -(2 * Proximity)..(2 * Proximity)
        BY <1>4, <4>1 DEF Seconded
      <4>3. PICK j \in 1..m : pos[j] = i
        BY <1>5
      <4>4. out[j] = fs[i]
        BY <1>5, <4>3
      <4>5. QED
        BY <1>4, <3>1, <4>2, <4>4 DEF Seconded
    <3>4. QED
      BY <3>2, <3>3
  <2>2. QED
    BY <1>4, <2>1 DEF Agreeing
<1>10. QED
  BY <1>1, <1>8, <1>9

---------------------------------------------------------------------------
(* Scope and duplicates of a review                                       *)

\* Findings of a known scope, nothing more.
InScope(f, scope) ==
  /\ scope = "enforce" => f.owner # 0
  /\ f.eligible <=> f.owner # 0
  /\ f.group = 0 /\ f.verify = "none" /\ f.status = "pending"

LEMMA ScopedIs ==
  ASSUME NEW f \in Placed, Raw(f), NEW n, NEW scope, scope = "enforce" => n # 0
  PROVE  InScope(Scoped(f, n), scope)
  BY DEF Scoped, InScope, Raw, Placed, FindingRow

LEMMA ScopeMarks ==
  ASSUME Base, NEW fs \in Seq(Placed), \A i \in 1..Len(fs) : Raw(fs[i]), NEW scope
  PROVE  LET out == ApplyScope(fs, ChunkOwner, scope) IN \A i \in 1..Len(out) : InScope(out[i], scope)
<1>1. PICK all : all = [i \in Indices(fs) |-> Scoped(fs[i], ChunkOwner[<<fs[i].path, fs[i].line>>])]
  OBVIOUS
<1>2. Len(fs) \in Nat /\ Indices(fs) = 1..Len(fs) /\ \A i \in 1..Len(fs) : fs[i] \in Placed
  BY DEF Indices
<1>3. ApplyScope(fs, ChunkOwner, scope) =
        IF scope = "enforce" THEN Only(all, {i \in Indices(all) : all[i].owner # 0}) ELSE all
  BY <1>1 DEF ApplyScope
<1>4. ASSUME NEW i \in Indices(fs), scope = "enforce" => all[i].owner # 0
      PROVE  InScope(all[i], scope)
  <2>1. PICK f, n : f = fs[i] /\ n = ChunkOwner[<<f.path, f.line>>]
    OBVIOUS
  <2>2. f \in Placed /\ Raw(f) /\ all[i] = Scoped(f, n)
    BY <1>1, <1>2, <2>1
  <2>3. all[i].owner = n
    BY <2>2 DEF Scoped, Placed, FindingRow
  <2>4. QED
    BY <1>4, <2>2, <2>3, ScopedIs
<1>5. all \in Seq({all[i] : i \in Indices(fs)}) /\ Len(all) = Len(fs)
  <2>1. PICK E : E = {all[i] : i \in Indices(fs)}
    OBVIOUS
  <2>2. \A i \in 1..Len(fs) : all[i] \in E
    BY <1>2, <2>1
  <2>3. all = [i \in 1..Len(fs) |-> all[i]]
    BY <1>1, <1>2
  <2>4. QED
    BY <1>2, <2>1, <2>2, <2>3
<1>6. CASE scope = "enforce"
  <2>1. PICK kept : kept = {i \in Indices(all) : all[i].owner # 0}
    OBVIOUS
  <2>2. PICK out : out = Only(all, kept)
    OBVIOUS
  <2>3. \E pos \in [1..Len(out) -> Nat] : Keeps(out, all, kept, pos)
    BY <1>5, <2>2, OnlyPlaces
  <2>4. PICK pos \in [1..Len(out) -> Nat] : Keeps(out, all, kept, pos)
    BY <2>3
  <2>5. ASSUME NEW i \in 1..Len(out) PROVE InScope(out[i], scope)
    <3>1. pos[i] \in 1..Len(all) /\ pos[i] \in kept /\ out[i] = all[pos[i]]
      BY <2>4 DEF Keeps
    <3>2. all[pos[i]].owner # 0 /\ pos[i] \in Indices(fs)
      BY <1>2, <1>5, <2>1, <3>1
    <3>3. QED
      BY <1>4, <3>1, <3>2
  <2>6. ApplyScope(fs, ChunkOwner, scope) = out
    BY <1>3, <1>6, <2>1, <2>2
  <2>7. QED
    BY <2>5, <2>6
<1>7. CASE scope # "enforce"
  <2>1. ApplyScope(fs, ChunkOwner, scope) = all
    BY <1>3, <1>7
  <2>2. QED
    BY <1>2, <1>4, <1>5, <1>7, <2>1
<1>8. QED
  BY <1>6, <1>7

\* Groups that are numbered by counting the chosen findings up to their own.
LEMMA Counting ==
  ASSUME NEW fs \in Seq(Placed), NEW N \in SUBSET Indices(fs), NEW a \in N, NEW b \in N
  PROVE  /\ Cardinality({j \in N : j <= a}) \in Nat
         /\ Cardinality({j \in N : j <= a}) >= 1
         /\ Cardinality({j \in N : j <= a}) = Cardinality({j \in N : j <= b}) => a = b
<1>1. PICK A, B : A = {j \in N : j <= a} /\ B = {j \in N : j <= b}
  OBVIOUS
<1>2. N \subseteq Nat
  BY DEF Indices
<1>3. /\ IsFiniteSet(A) /\ Cardinality(A) \in Nat
      /\ IsFiniteSet(B) /\ Cardinality(B) \in Nat
  BY <1>1, SomeOf
<1>4. a \in A /\ b \in B
  BY <1>1, <1>2
<1>5. Cardinality(A) >= 1
  <2>1. {a} \subseteq A
    BY <1>4
  <2>2. Cardinality({a}) = 1
    BY FS_Singleton
  <2>3. Cardinality({a}) <= Cardinality(A)
    BY <1>3, <2>1, FS_Subset
  <2>4. QED
    BY <1>3, <2>2, <2>3
<1>6. ASSUME Cardinality(A) = Cardinality(B) PROVE a = b
  <2>1. a \in Nat /\ b \in Nat
    BY <1>2
  <2>2. CASE a <= b
    <3>1. A \subseteq B
      <4>1. ASSUME NEW j \in A PROVE j \in B
        <5>1. j \in N /\ j <= a /\ j \in Nat
          BY <1>1, <1>2, <4>1
        <5>2. j <= b
          BY <2>1, <2>2, <5>1
        <5>3. QED
          BY <1>1, <5>1, <5>2
      <4>2. QED
        BY <4>1
    <3>2. A = B
      BY <1>3, <1>6, <3>1, FS_Subset
    <3>3. b <= a
      BY <1>1, <1>4, <3>2
    <3>4. QED
      BY <2>1, <2>2, <3>3
  <2>3. CASE b <= a
    <3>1. B \subseteq A
      <4>1. ASSUME NEW j \in B PROVE j \in A
        <5>1. j \in N /\ j <= b /\ j \in Nat
          BY <1>1, <1>2, <4>1
        <5>2. j <= a
          BY <2>1, <2>3, <5>1
        <5>3. QED
          BY <1>1, <5>1, <5>2
      <4>2. QED
        BY <4>1
    <3>2. A = B
      BY <1>3, <1>6, <3>1, FS_Subset
    <3>3. a <= b
      BY <1>1, <1>4, <3>2
    <3>4. QED
      BY <2>1, <2>3, <3>3
  <2>4. QED
    BY <2>1, <2>2, <2>3
<1>7. QED
  BY <1>1, <1>3, <1>5, <1>6

\* Every finding has a first among those that claim the same.
LEMMA FirstTwin ==
  ASSUME NEW fs \in Seq(Placed), NEW i \in 1..Len(fs)
  PROVE  \E a \in 1..Len(fs) : /\ KeyOf(fs[a]) = KeyOf(fs[i]) /\ IsFirst(fs, a)
                               /\ \A k \in Twins(fs, i) : IsFirst(fs, k) => k = a
<1>1. PICK T : T = Twins(fs, i)
  OBVIOUS
<1>2. \A j : j \in T <=> j \in 1..Len(fs) /\ KeyOf(fs[j]) = KeyOf(fs[i])
  BY <1>1 DEF Twins, Indices
<1>3. T \in SUBSET Nat /\ T # {}
  BY <1>2
<1>4. PICK a \in T : \A t \in T : a <= t
  BY <1>3, Least
<1>5. a \in 1..Len(fs) /\ KeyOf(fs[a]) = KeyOf(fs[i])
  BY <1>2, <1>4
<1>6. IsFirst(fs, a)
  BY <1>2, <1>4, <1>5, FirstIs
<1>7. ASSUME NEW k \in T, IsFirst(fs, k) PROVE k = a
  <2>1. k <= a
    BY <1>2, <1>5, <1>7, FirstIs
  <2>2. a <= k /\ a \in Nat /\ k \in Nat
    BY <1>3, <1>4
  <2>3. QED
    BY <2>1, <2>2
<1>8. QED
  BY <1>1, <1>5, <1>6, <1>7

\* The first ones of all that have duplicates.
Heads(fs) == {j \in Indices(fs) : IsFirst(fs, j) /\ Cardinality(Twins(fs, j)) > 1}

LEMMA HeadNumber ==
  ASSUME NEW fs \in Seq(Placed), NEW i \in 1..Len(fs), Doubled(fs, i)
  PROVE  \E a \in Heads(fs) : /\ KeyOf(fs[a]) = KeyOf(fs[i])
                              /\ GroupNumber(fs, i, 0) = Cardinality({j \in Heads(fs) : j <= a})
<1>1. PICK a \in 1..Len(fs) : /\ KeyOf(fs[a]) = KeyOf(fs[i]) /\ IsFirst(fs, a)
                              /\ \A k \in Twins(fs, i) : IsFirst(fs, k) => k = a
  BY FirstTwin
<1>2. Doubled(fs, a)
  BY <1>1 DEF Doubled
<1>3. a \in Heads(fs)
  BY <1>1, <1>2, TwinsMany DEF Heads, Indices
<1>4. a \in Twins(fs, i)
  BY <1>1 DEF Twins, Indices
<1>5. PICK S : S = {j \in Indices(fs) : /\ IsFirst(fs, j) /\ Cardinality(Twins(fs, j)) > 1
                                        /\ \E k \in Twins(fs, i) : j <= k /\ IsFirst(fs, k)}
  OBVIOUS
<1>6. S = {j \in Heads(fs) : j <= a}
  BY <1>1, <1>4, <1>5 DEF Heads
<1>7. GroupNumber(fs, i, 0) = 0 + Cardinality(S)
  BY <1>5 DEF GroupNumber
<1>8. Cardinality(S) \in Nat
  BY <1>5, SomeOf
<1>9. GroupNumber(fs, i, 0) = Cardinality({j \in Heads(fs) : j <= a})
  BY <1>6, <1>7, <1>8
<1>10. QED
  BY <1>1, <1>3, <1>9, Zenon

\* group_duplicate_candidates numbers every group apart from the others and leaves,
\* where that is enforced, only the first of it eligible.
LEMMA DuplicatesMark ==
  ASSUME NEW fs \in Seq(Placed), NEW scope, NEW mode, \A i \in 1..Len(fs) : InScope(fs[i], scope)
  PROVE  LET out == GroupDuplicates(fs, mode) IN
         /\ Len(out) = Len(fs) /\ Deduped(out, scope, mode)
         /\ \A i \in 1..Len(fs) : out[i].verify = "none" /\ out[i].status = "pending"
<1>1. PICK out : out = GroupDuplicates(fs, mode)
  OBVIOUS
<1>2. Len(fs) \in Nat /\ Indices(fs) = 1..Len(fs) /\ \A i \in 1..Len(fs) : fs[i] \in Placed
  BY DEF Indices
<1>3. out = [i \in Indices(fs) |->
               IF Cardinality(Twins(fs, i)) < 2 THEN fs[i]
               ELSE [fs[i] EXCEPT !.group = GroupNumber(fs, i, 0),
                       !.eligible = @ /\ (mode = "enforce" => IsFirst(fs, i))]]
  BY <1>1 DEF GroupDuplicates
<1>4. Len(out) = Len(fs)
  <2> DEFINE e(i) == IF Cardinality(Twins(fs, i)) < 2 THEN fs[i]
                     ELSE [fs[i] EXCEPT !.group = GroupNumber(fs, i, 0),
                             !.eligible = @ /\ (mode = "enforce" => IsFirst(fs, i))]
  <2>1. out = [i \in Indices(fs) |-> e(i)]
    BY <1>3
  <2> HIDE DEF e
  <2>2. QED
    BY <1>2, <2>1
<1>5. ASSUME NEW i \in 1..Len(fs)
      PROVE  /\ KeyOf(out[i]) = KeyOf(fs[i]) /\ out[i].owner = fs[i].owner
             /\ out[i].verify = "none" /\ out[i].status = "pending"
             /\ out[i].group = IF Doubled(fs, i) THEN GroupNumber(fs, i, 0) ELSE 0
             /\ out[i].eligible <=> out[i].owner # 0 /\ (mode = "enforce" => IsFirst(fs, i))
  <2>1. PICK f, g : f = fs[i] /\ g = GroupNumber(fs, i, 0)
    OBVIOUS
  <2>2. f \in Placed /\ InScope(f, scope)
    BY <1>2, <2>1
  <2>3. CASE Doubled(fs, i)
    <3>1. PICK e : e = (f.eligible /\ (mode = "enforce" => IsFirst(fs, i)))
      OBVIOUS
    <3>2. out[i] = [f EXCEPT !.group = g, !.eligible = e]
      BY <1>2, <1>3, <2>1, <2>3, <3>1, TwinsMany
    <3>3. /\ KeyOf(out[i]) = KeyOf(f) /\ out[i].owner = f.owner
          /\ out[i].verify = "none" /\ out[i].status = "pending"
          /\ out[i].group = g /\ out[i].eligible = e
      BY <2>2, <3>2 DEF Placed, FindingRow, KeyOf, InScope
    <3>4. QED
      BY <2>1, <2>2, <2>3, <3>1, <3>3 DEF InScope
  <2>4. CASE ~Doubled(fs, i)
    <3>1. out[i] = f
      BY <1>2, <1>3, <2>1, <2>4, TwinsMany
    <3>2. IsFirst(fs, i)
      <4>1. \A j \in 1..Len(fs) : KeyOf(fs[j]) = KeyOf(fs[i]) => j = i
        BY <2>4 DEF Doubled
      <4>2. QED
        BY <1>2, <4>1, FirstIs
    <3>3. QED
      BY <2>1, <2>2, <2>4, <3>1, <3>2 DEF InScope
  <2>5. QED
    BY <2>3, <2>4
<1>6. \A i \in 1..Len(fs) : /\ IsFirst(out, i) <=> IsFirst(fs, i)
                            /\ Doubled(out, i) <=> Doubled(fs, i)
  BY <1>4, <1>5, FirstIs DEF Doubled
<1>7. \A i \in 1..Len(fs) : Doubled(fs, i) =>
        \E a \in Heads(fs) : /\ KeyOf(fs[a]) = KeyOf(fs[i])
                             /\ out[i].group = Cardinality({j \in Heads(fs) : j <= a})
  BY <1>5, HeadNumber
<1>8. Heads(fs) \in SUBSET Indices(fs)
  BY DEF Heads
<1>9. ASSUME NEW i \in 1..Len(fs)
      PROVE  out[i].group # 0 <=> Doubled(fs, i)
  <2>1. CASE Doubled(fs, i)
    <3>1. PICK a \in Heads(fs) : out[i].group = Cardinality({j \in Heads(fs) : j <= a})
      BY <1>7, <2>1
    <3>2. Cardinality({j \in Heads(fs) : j <= a}) \in Nat
          /\ Cardinality({j \in Heads(fs) : j <= a}) >= 1
      BY <1>8, Counting
    <3>3. QED
      BY <2>1, <3>1, <3>2
  <2>2. CASE ~Doubled(fs, i)
    BY <1>5, <2>2
  <2>3. QED
    BY <2>1, <2>2
<1>10. ASSUME NEW i \in 1..Len(fs), NEW k \in 1..Len(fs), KeyOf(fs[i]) = KeyOf(fs[k])
       PROVE  out[i].group = out[k].group
  <2>1. Twins(fs, i) = Twins(fs, k)
    BY <1>10 DEF Twins
  <2>2. GroupNumber(fs, i, 0) = GroupNumber(fs, k, 0)
    BY <2>1 DEF GroupNumber
  <2>3. Doubled(fs, i) <=> Doubled(fs, k)
    BY <1>10 DEF Doubled
  <2>4. QED
    BY <1>5, <2>2, <2>3
<1>11. ASSUME NEW i \in 1..Len(fs), NEW k \in 1..Len(fs), out[i].group = out[k].group, out[i].group # 0
       PROVE  KeyOf(fs[i]) = KeyOf(fs[k])
  <2>1. Doubled(fs, i) /\ Doubled(fs, k)
    BY <1>9, <1>11
  <2>2. PICK a \in Heads(fs) : /\ KeyOf(fs[a]) = KeyOf(fs[i])
                               /\ out[i].group = Cardinality({j \in Heads(fs) : j <= a})
    BY <1>7, <2>1
  <2>3. PICK b \in Heads(fs) : /\ KeyOf(fs[b]) = KeyOf(fs[k])
                               /\ out[k].group = Cardinality({j \in Heads(fs) : j <= b})
    BY <1>7, <2>1
  <2>4. Cardinality({j \in Heads(fs) : j <= a}) = Cardinality({j \in Heads(fs) : j <= b})
    BY <1>11, <2>2, <2>3
  <2>5. a = b
    BY <1>8, <2>4, Counting
  <2>6. QED
    BY <2>2, <2>3, <2>5
<1>12. Deduped(out, scope, mode)
  BY <1>4, <1>5, <1>6, <1>9, <1>10, <1>11 DEF Deduped, InScope
<1>13. QED
  BY <1>1, <1>4, <1>5, <1>12

---------------------------------------------------------------------------
(* Duplicates of a retry                                                  *)

\* The first m findings are those already stored.
Joined(fs, old, m) ==
  /\ old \in Seq(Placed) /\ m = Len(old)
  /\ \E new \in Seq(Placed) : fs = old \o new

\* The numbers that stored findings of the same claim have.
LEMMA KeptIs ==
  ASSUME NEW fs, NEW old, NEW m, Joined(fs, old, m), NEW i
  PROVE  \A g : g \in KeptGroups(fs, m, i) <=>
           g # 0 /\ \E k \in 1..m : KeyOf(old[k]) = KeyOf(fs[i]) /\ old[k].group = g
<1>1. PICK new \in Seq(Placed) : fs = old \o new
  BY DEF Joined
<1>2. m \in Nat /\ Indices(fs) = 1..Len(fs) /\ Len(fs) = m + Len(new) /\ Len(new) \in Nat
      /\ \A k \in 1..m : fs[k] = old[k]
  BY <1>1 DEF Indices, Joined
<1>3. \A k : (k \in Indices(fs) /\ ~(k > m)) <=> k \in 1..m
  BY <1>2
<1>4. \A k : k \in {l \in Twins(fs, i) : ~(l > m)} <=> k \in 1..m /\ KeyOf(old[k]) = KeyOf(fs[i])
  BY <1>2, <1>3 DEF Twins
<1>5. PICK L : L = {l \in Twins(fs, i) : ~(l > m)}
  OBVIOUS
<1>6. KeptGroups(fs, m, i) = {fs[k].group : k \in L} \ {0}
  BY <1>5 DEF KeptGroups
<1>7. \A k : k \in L <=> k \in 1..m /\ KeyOf(old[k]) = KeyOf(fs[i])
  BY <1>4, <1>5
<1>8. QED
  BY <1>2, <1>6, <1>7

\* A new number: that of the first new finding of the same claim.
NumberedAs(g, fs, m, old, i) ==
  \E a \in NewHeads(fs, m) :
    /\ KeyOf(fs[a]) = KeyOf(fs[i])
    /\ g = Highest(old) + Cardinality({j \in NewHeads(fs, m) : j <= a})

LEMMA NewNumberIs ==
  ASSUME NEW old \in Seq(Placed), NEW fs \in Seq(Placed), NEW m \in Nat, NEW i \in 1..Len(fs),
         Fresh2(fs, m, i), Doubled(fs, i), KeptGroups(fs, m, i) = {}
  PROVE  NumberedAs(NewNumber(fs, m, old, i), fs, m, old, i)
<1>1. PICK T : T = {j \in Twins(fs, i) : j > m}
  OBVIOUS
<1>2. \A j : j \in T <=> j \in 1..Len(fs) /\ KeyOf(fs[j]) = KeyOf(fs[i]) /\ j > m
  BY <1>1 DEF Twins, Indices
<1>3. T # {} /\ T \in SUBSET Nat
  BY <1>1, <1>2 DEF Fresh2
<1>4. PICK a \in T : \A t \in T : a <= t
  BY <1>3, Least
<1>5. a \in 1..Len(fs) /\ KeyOf(fs[a]) = KeyOf(fs[i]) /\ a > m
  BY <1>2, <1>4
<1>6. Twins(fs, a) = Twins(fs, i) /\ a \in Twins(fs, i)
  BY <1>5 DEF Twins, Indices
<1>7. FirstNew(fs, m, a)
  BY <1>1, <1>4, <1>5, <1>6 DEF FirstNew
<1>8. a \in NewHeads(fs, m)
  <2>1. Doubled(fs, a)
    BY <1>5 DEF Doubled
  <2>2. Cardinality(Twins(fs, a)) > 1
    BY <1>5, <2>1, TwinsMany
  <2>3. KeptGroups(fs, m, a) = {}
    BY <1>6 DEF KeptGroups
  <2>4. QED
    BY <1>5, <1>7, <2>2, <2>3 DEF NewHeads, Indices
<1>9. ASSUME NEW k \in Twins(fs, i), FirstNew(fs, m, k) PROVE k = a
  <2>1. k \in T
    BY <1>1, <1>9 DEF FirstNew
  <2>2. a <= k
    BY <1>4, <2>1
  <2>3. a \in Twins(fs, k)
    BY <1>5, <1>9 DEF Twins, Indices
  <2>4. k <= a
    BY <1>5, <1>9, <2>3 DEF FirstNew
  <2>5. a \in Nat /\ k \in Nat
    BY <1>3, <2>1
  <2>6. QED
    BY <2>2, <2>4, <2>5
<1>10. PICK S : S = {j \in NewHeads(fs, m) : \E k \in Twins(fs, i) : FirstNew(fs, m, k) /\ j <= k}
  OBVIOUS
<1>11. S = {j \in NewHeads(fs, m) : j <= a}
  BY <1>6, <1>7, <1>9, <1>10
<1>12. NewNumber(fs, m, old, i) = Highest(old) + Cardinality(S)
  BY <1>10 DEF NewNumber
<1>13. NewNumber(fs, m, old, i) = Highest(old) + Cardinality({j \in NewHeads(fs, m) : j <= a})
  BY <1>11, <1>12
<1>14. QED
  BY <1>5, <1>8, <1>13, Zenon DEF NumberedAs

\* Among findings that are stored, those of the same claim have one number.
LEMMA KeptOne ==
  ASSUME NEW fs, NEW old, NEW m, Joined(fs, old, m),
         NEW scope, NEW mode, Deduped(old, scope, mode),
         NEW i \in 1..Len(fs), NEW k \in 1..Len(fs)
  PROVE  /\ KeyOf(fs[i]) = KeyOf(fs[k]) =>
              /\ KeptGroups(fs, m, i) = KeptGroups(fs, m, k)
              /\ \A g \in KeptGroups(fs, m, i), h \in KeptGroups(fs, m, k) : g = h
         /\ \A g \in KeptGroups(fs, m, i) : g \in KeptGroups(fs, m, k) => KeyOf(fs[i]) = KeyOf(fs[k])
         /\ \A g \in KeptGroups(fs, m, i) : g # 0 /\ g \in Nat /\ g <= Highest(old)
         /\ KeptGroups(fs, m, i) # {} => Doubled(fs, i)
         /\ i <= m /\ old[i].group # 0 => old[i].group \in KeptGroups(fs, m, i)
         /\ i <= m /\ KeptGroups(fs, m, i) # {} => old[i].group \in KeptGroups(fs, m, i)
<1>1. PICK new \in Seq(Placed) : fs = old \o new
  BY DEF Joined
<1>11. old \in Seq(Placed) /\ m = Len(old)
  BY DEF Joined
<1>2. /\ m \in Nat /\ Len(fs) = m + Len(new) /\ Len(new) \in Nat
      /\ \A n \in 1..m : fs[n] = old[n] /\ n \in 1..Len(fs)
      /\ i \in 1..Len(fs) /\ k \in 1..Len(fs)
  BY <1>1, <1>11
<1>3. PICK K, L : K = KeptGroups(fs, m, i) /\ L = KeptGroups(fs, m, k)
  OBVIOUS
<1>4. /\ \A g : g \in K <=> g # 0 /\ \E n \in 1..m : KeyOf(old[n]) = KeyOf(fs[i]) /\ old[n].group = g
      /\ \A g : g \in L <=> g # 0 /\ \E n \in 1..m : KeyOf(old[n]) = KeyOf(fs[k]) /\ old[n].group = g
  <2>1. \A g : g \in KeptGroups(fs, m, i) <=>
          g # 0 /\ \E n \in 1..m : KeyOf(old[n]) = KeyOf(fs[i]) /\ old[n].group = g
    BY KeptIs
  <2>2. \A g : g \in KeptGroups(fs, m, k) <=>
          g # 0 /\ \E n \in 1..m : KeyOf(old[n]) = KeyOf(fs[k]) /\ old[n].group = g
    BY KeptIs
  <2>3. QED
    BY <1>3, <2>1, <2>2
<1>5. \A n \in 1..m : /\ old[n].group # 0 <=> Doubled(old, n)
                      /\ \A o \in 1..m :
                           /\ KeyOf(old[n]) = KeyOf(old[o]) => old[n].group = old[o].group
                           /\ old[n].group = old[o].group /\ old[n].group # 0 =>
                                KeyOf(old[n]) = KeyOf(old[o])
  BY <1>11 DEF Deduped
<1>6. ASSUME KeyOf(fs[i]) = KeyOf(fs[k]) PROVE K = L /\ \A g \in K, h \in L : g = h
  <2>1. K = L
    BY <1>4, <1>6
  <2>2. ASSUME NEW g \in K, NEW h \in L PROVE g = h
    <3>1. PICK n \in 1..m : KeyOf(old[n]) = KeyOf(fs[i]) /\ old[n].group = g
      BY <1>4
    <3>2. PICK o \in 1..m : KeyOf(old[o]) = KeyOf(fs[k]) /\ old[o].group = h
      BY <1>4
    <3>3. QED
      BY <1>5, <1>6, <3>1, <3>2
  <2>3. QED
    BY <2>1, <2>2
<1>7. ASSUME NEW g \in K, g \in L PROVE KeyOf(fs[i]) = KeyOf(fs[k])
  <2>1. PICK n \in 1..m : KeyOf(old[n]) = KeyOf(fs[i]) /\ old[n].group = g
    BY <1>4
  <2>2. PICK o \in 1..m : KeyOf(old[o]) = KeyOf(fs[k]) /\ old[o].group = g
    BY <1>4, <1>7
  <2>3. g # 0
    BY <1>4
  <2>4. QED
    BY <1>5, <2>1, <2>2, <2>3
<1>8. ASSUME NEW g \in K PROVE g # 0 /\ g \in Nat /\ g <= Highest(old)
  <2>1. PICK n \in 1..m : old[n].group = g
    BY <1>4
  <2>2. old[n] \in Placed
    BY <1>11
  <2>3. old[n].group \in Nat
    BY <2>2 DEF Placed, FindingRow
  <2>4. g # 0
    BY <1>4
  <2>5. QED
    BY <1>11, <2>1, <2>3, <2>4, HighestIs
<1>9. ASSUME K # {} PROVE Doubled(fs, i)
  <2>1. PICK n \in 1..m : KeyOf(old[n]) = KeyOf(fs[i]) /\ old[n].group # 0
    BY <1>4, <1>9
  <2>2. Doubled(old, n)
    BY <1>5, <2>1
  <2>3. PICK o \in 1..m : o # n /\ KeyOf(old[o]) = KeyOf(old[n])
    BY <1>11, <2>2 DEF Doubled
  <2>4. /\ n \in 1..Len(fs) /\ o \in 1..Len(fs) /\ n # o
        /\ KeyOf(fs[n]) = KeyOf(fs[i]) /\ KeyOf(fs[o]) = KeyOf(fs[i])
    BY <1>2, <2>1, <2>3
  <2>5. QED
    BY <2>4 DEF Doubled
<1>10. ASSUME i <= m, old[i].group # 0 \/ K # {} PROVE old[i].group \in K
  <2>1. i \in 1..m
    BY <1>2, <1>10
  <2>2. KeyOf(old[i]) = KeyOf(fs[i])
    BY <1>2, <2>1
  <2>3. old[i].group # 0
    <3>1. CASE K # {}
      <4>1. PICK n \in 1..m : KeyOf(old[n]) = KeyOf(fs[i]) /\ old[n].group # 0
        BY <1>4, <3>1
      <4>2. QED
        BY <1>5, <2>1, <2>2, <4>1
    <3>2. QED
      BY <1>10, <3>1
  <2>4. QED
    BY <1>4, <2>1, <2>2, <2>3
<1>12. QED
  BY <1>3, <1>6, <1>7, <1>8, <1>9, <1>10

\* The number that a finding has after a retry: the one its claim has already, or a
\* new one.
RetriedGroup(g, fs, m, old, i) ==
  IF KeptGroups(fs, m, i) # {} THEN g \in KeptGroups(fs, m, i)
  ELSE IF Doubled(fs, i)
       THEN NumberedAs(g, fs, m, old, i)
       ELSE g = 0

LEMMA RetriedOne ==
  ASSUME NEW fs \in Seq(Placed), NEW old, NEW m, Joined(fs, old, m),
         NEW scope, NEW mode, Deduped(old, scope, mode),
         \A k \in 1..Len(fs) : k > m => InScope(fs[k], scope),
         NEW i \in 1..Len(fs), NEW g, RetriedAt(fs, m, old, mode, g, i)
  PROVE  /\ KeyOf(g) = KeyOf(fs[i]) /\ g.owner = fs[i].owner
         /\ g.verify = fs[i].verify /\ g.status = fs[i].status
         /\ RetriedGroup(g.group, fs, m, old, i)
         /\ g.eligible <=> g.owner # 0 /\ (mode = "enforce" => IsFirst(fs, i))
         /\ scope = "enforce" => g.owner # 0
<1>1. PICK new \in Seq(Placed) : fs = old \o new
  BY DEF Joined
<1>2. old \in Seq(Placed) /\ m = Len(old)
  BY DEF Joined
<1>3. /\ m \in Nat /\ Len(fs) = m + Len(new) /\ Len(new) \in Nat
      /\ \A n \in 1..m : fs[n] = old[n] /\ n \in 1..Len(fs)
      /\ i \in 1..m \/ i > m
  BY <1>1, <1>2
<1>4. PICK f : f = fs[i]
  OBVIOUS
<1>5. f \in Placed
  BY <1>4
<1>6. /\ KeptGroups(fs, m, i) # {} => Doubled(fs, i)
      /\ i <= m /\ old[i].group # 0 => old[i].group \in KeptGroups(fs, m, i)
      /\ i <= m /\ KeptGroups(fs, m, i) # {} => old[i].group \in KeptGroups(fs, m, i)
  BY KeptOne
<1>7. ASSUME i \in 1..m
      PROVE  /\ i <= m /\ f = old[i] /\ (scope = "enforce" => f.owner # 0)
             /\ f.eligible <=> f.owner # 0 /\ (mode = "enforce" => IsFirst(fs, i))
             /\ f.group # 0 <=> Doubled(old, i)
  <2>1. IsFirst(fs, i) <=> IsFirst(old, i)
    <3>1. ASSUME IsFirst(old, i), NEW j \in 1..Len(fs), KeyOf(fs[j]) = KeyOf(fs[i]) PROVE i <= j
      <4>1. CASE j \in 1..m
        BY <1>2, <1>3, <1>7, <3>1, <4>1, FirstIs
      <4>2. CASE j \notin 1..m
        BY <1>3, <1>7, <4>2
      <4>3. QED
        BY <4>1, <4>2
    <3>2. ASSUME IsFirst(fs, i), NEW j \in 1..m, KeyOf(old[j]) = KeyOf(old[i]) PROVE i <= j
      BY <1>3, <1>7, <3>2, FirstIs
    <3>3. QED
      BY <1>2, <3>1, <3>2, FirstIs
  <2>2. f = old[i] /\ i <= m
    BY <1>3, <1>4, <1>7
  <2>3. QED
    BY <1>2, <1>7, <2>1, <2>2 DEF Deduped
<1>8. ASSUME i > m PROVE InScope(f, scope) /\ Fresh2(fs, m, i)
  <2>1. i \in Twins(fs, i)
    BY DEF Twins, Indices
  <2>2. QED
    BY <1>4, <1>8, <2>1 DEF Fresh2
<1>9. /\ Cardinality(Twins(fs, i)) < 2 <=> ~Doubled(fs, i)
  BY TwinsMany
<1>10. ~Doubled(fs, i) => IsFirst(fs, i)
  <2>1. ASSUME ~Doubled(fs, i), NEW j \in 1..Len(fs), KeyOf(fs[j]) = KeyOf(fs[i]) PROVE i <= j
    <3>1. j = i
      BY <2>1 DEF Doubled
    <3>2. QED
      BY <1>3, <3>1
  <2>2. QED
    BY <2>1, FirstIs
<1>11. CASE ~Fresh2(fs, m, i) \/ ~Doubled(fs, i)
  <2>1. g = f
    BY <1>4, <1>9, <1>11 DEF RetriedAt
  <2>2. /\ scope = "enforce" => f.owner # 0
        /\ f.eligible <=> f.owner # 0 /\ (mode = "enforce" => IsFirst(fs, i))
    <3>1. CASE i \in 1..m
      BY <1>7, <3>1
    <3>2. CASE i > m
      BY <1>8, <1>10, <1>11, <3>2 DEF InScope
    <3>3. QED
      BY <1>3, <3>1, <3>2
  <2>3. RetriedGroup(f.group, fs, m, old, i)
    <3>1. CASE i > m
      <4>1. ~Doubled(fs, i) /\ f.group = 0
        BY <1>8, <1>11, <3>1 DEF InScope
      <4>2. QED
        BY <1>6, <4>1 DEF RetriedGroup
    <3>2. CASE i \in 1..m
      <4>1. CASE KeptGroups(fs, m, i) # {}
        BY <1>6, <1>7, <3>2, <4>1 DEF RetriedGroup
      <4>2. CASE KeptGroups(fs, m, i) = {}
        <5>1. f.group = 0 /\ ~Doubled(old, i)
          BY <1>6, <1>7, <3>2, <4>2
        <5>2. ~Doubled(fs, i)
          <6>1. ASSUME Doubled(fs, i) PROVE FALSE
            <7>1. PICK j \in 1..Len(fs) : j # i /\ KeyOf(fs[j]) = KeyOf(fs[i])
              BY <6>1 DEF Doubled
            <7>2. j \in 1..m
              <8>1. ~(j > m)
                BY <1>11, <6>1, <7>1 DEF Fresh2, Twins, Indices
              <8>2. QED
                BY <1>3, <8>1
            <7>3. QED
              BY <1>2, <1>3, <3>2, <5>1, <7>1, <7>2 DEF Doubled
          <6>2. QED
            BY <6>1
        <5>3. QED
          BY <4>2, <5>1, <5>2 DEF RetriedGroup
      <4>3. QED
        BY <4>1, <4>2
    <3>3. QED
      BY <1>3, <3>1, <3>2
  <2>4. QED
    BY <1>4, <2>1, <2>2, <2>3
<1>12. CASE Fresh2(fs, m, i) /\ Doubled(fs, i)
  <2>1. PICK n \in Nat :
          /\ KeptGroups(fs, m, i) # {} => n \in KeptGroups(fs, m, i)
          /\ KeptGroups(fs, m, i) = {} => n = NewNumber(fs, m, old, i)
          /\ g = [f EXCEPT !.group = n, !.eligible = @ /\ (mode = "enforce" => IsFirst(fs, i))]
    BY <1>4, <1>9, <1>12 DEF RetriedAt
  <2>2. PICK e : e = (f.eligible /\ (mode = "enforce" => IsFirst(fs, i)))
    OBVIOUS
  <2>3. g = [f EXCEPT !.group = n, !.eligible = e]
    BY <2>1, <2>2
  <2>4. /\ KeyOf(g) = KeyOf(f) /\ g.owner = f.owner /\ g.verify = f.verify /\ g.status = f.status
        /\ g.group = n /\ g.eligible = e
    BY <1>5, <2>3 DEF Placed, FindingRow, KeyOf
  <2>5. RetriedGroup(n, fs, m, old, i)
    <3>1. CASE KeptGroups(fs, m, i) # {}
      BY <2>1, <3>1 DEF RetriedGroup
    <3>2. CASE KeptGroups(fs, m, i) = {}
      <4>1. NumberedAs(NewNumber(fs, m, old, i), fs, m, old, i)
        BY <1>2, <1>3, <1>12, <3>2, NewNumberIs
      <4>2. QED
        BY <1>12, <2>1, <3>2, <4>1 DEF RetriedGroup
    <3>3. QED
      BY <3>1, <3>2
  <2>6. CASE i \in 1..m
    BY <1>4, <1>7, <2>2, <2>4, <2>5, <2>6
  <2>7. CASE i > m
    BY <1>4, <1>8, <2>2, <2>4, <2>5, <2>7 DEF InScope
  <2>8. QED
    BY <1>3, <2>6, <2>7
<1>13. QED
  BY <1>11, <1>12

\* New numbers follow the stored ones, one for each claim.
LEMMA NumberedOne ==
  ASSUME NEW old \in Seq(Placed), NEW fs \in Seq(Placed), NEW m \in Nat
  PROVE  \A i, k \in 1..Len(fs) : \A g, h :
           NumberedAs(g, fs, m, old, i) /\ NumberedAs(h, fs, m, old, k) =>
             /\ g \in Nat /\ g > Highest(old) /\ g # 0
             /\ KeyOf(fs[i]) = KeyOf(fs[k]) => g = h
             /\ g = h => KeyOf(fs[i]) = KeyOf(fs[k])
<1>0. SUFFICES ASSUME NEW i \in 1..Len(fs), NEW k \in 1..Len(fs), NEW g, NEW h,
                      NumberedAs(g, fs, m, old, i), NumberedAs(h, fs, m, old, k)
               PROVE  /\ g \in Nat /\ g > Highest(old) /\ g # 0
                      /\ KeyOf(fs[i]) = KeyOf(fs[k]) => g = h
                      /\ g = h => KeyOf(fs[i]) = KeyOf(fs[k])
  OBVIOUS
<1>1. PICK a \in NewHeads(fs, m) :
        /\ KeyOf(fs[a]) = KeyOf(fs[i])
        /\ g = Highest(old) + Cardinality({j \in NewHeads(fs, m) : j <= a})
  BY <1>0, Zenon DEF NumberedAs
<1>2. PICK b \in NewHeads(fs, m) :
        /\ KeyOf(fs[b]) = KeyOf(fs[k])
        /\ h = Highest(old) + Cardinality({j \in NewHeads(fs, m) : j <= b})
  BY <1>0, Zenon DEF NumberedAs
<1>3. PICK N : N = NewHeads(fs, m)
  OBVIOUS
<1>4. N \in SUBSET Indices(fs) /\ a \in N /\ b \in N
  BY <1>1, <1>2, <1>3 DEF NewHeads
<1>5. PICK A, B : A = Cardinality({j \in N : j <= a}) /\ B = Cardinality({j \in N : j <= b})
  OBVIOUS
<1>6. A \in Nat /\ A >= 1 /\ B \in Nat /\ (A = B => a = b)
  <2>1. A \in Nat /\ A >= 1 /\ (A = B => a = b)
    BY <1>4, <1>5, Counting
  <2>2. B \in Nat
    BY <1>4, <1>5, Counting
  <2>3. QED
    BY <2>1, <2>2
<1>7. g = Highest(old) + A /\ h = Highest(old) + B
  BY <1>1, <1>2, <1>3, <1>5
<1>8. Highest(old) \in Nat
  BY HighestIs
<1>9. ASSUME KeyOf(fs[i]) = KeyOf(fs[k]) PROVE a = b
  <2>1. a \in Nat /\ b \in Nat /\ a \in 1..Len(fs) /\ b \in 1..Len(fs)
    BY <1>4 DEF Indices
  <2>2. FirstNew(fs, m, a) /\ FirstNew(fs, m, b)
    BY <1>3, <1>4 DEF NewHeads
  <2>3. KeyOf(fs[a]) = KeyOf(fs[b])
    BY <1>1, <1>2, <1>9
  <2>4. a \in Twins(fs, b) /\ b \in Twins(fs, a)
    BY <2>1, <2>3 DEF Twins, Indices
  <2>5. a <= b /\ b <= a
    BY <2>2, <2>4 DEF FirstNew
  <2>6. QED
    BY <2>1, <2>5
<1>10. KeyOf(fs[i]) = KeyOf(fs[k]) => g = h
  BY <1>1, <1>2, <1>9
<1>11. g = h => KeyOf(fs[i]) = KeyOf(fs[k])
  BY <1>1, <1>2, <1>6, <1>7, <1>8
<1>12. QED
  BY <1>6, <1>7, <1>8, <1>10, <1>11

\* After a retry, too, a number stands for one claim that is made more than once.
LEMMA RetriedGroups ==
  ASSUME NEW fs \in Seq(Placed), NEW old, NEW m, Joined(fs, old, m),
         NEW scope, NEW mode, Deduped(old, scope, mode),
         NEW i \in 1..Len(fs), NEW k \in 1..Len(fs), NEW g, NEW h,
         RetriedGroup(g, fs, m, old, i), RetriedGroup(h, fs, m, old, k)
  PROVE  /\ g # 0 <=> Doubled(fs, i)
         /\ KeyOf(fs[i]) = KeyOf(fs[k]) => g = h
         /\ g = h /\ g # 0 => KeyOf(fs[i]) = KeyOf(fs[k])
<1>1. old \in Seq(Placed) /\ m \in Nat /\ Highest(old) \in Nat
  BY HighestIs DEF Joined
<1>2. PICK K, L : K = KeptGroups(fs, m, i) /\ L = KeptGroups(fs, m, k)
  OBVIOUS
<1>3. /\ KeyOf(fs[i]) = KeyOf(fs[k]) => K = L /\ \A x \in K, y \in L : x = y
      /\ \A x \in K : x \in L => KeyOf(fs[i]) = KeyOf(fs[k])
      /\ \A x \in K : x # 0 /\ x \in Nat /\ x <= Highest(old)
      /\ K # {} => Doubled(fs, i)
  BY <1>2, KeptOne
<1>4. \A x \in L : x # 0 /\ x \in Nat /\ x <= Highest(old)
  BY <1>2, KeptOne
<1>5. /\ K # {} => g \in K
      /\ K = {} /\ Doubled(fs, i) => NumberedAs(g, fs, m, old, i)
      /\ K = {} /\ ~Doubled(fs, i) => g = 0
      /\ L # {} => h \in L
      /\ L = {} /\ Doubled(fs, k) => NumberedAs(h, fs, m, old, k)
      /\ L = {} /\ ~Doubled(fs, k) => h = 0
  BY <1>2 DEF RetriedGroup
<1>55. ASSUME NumberedAs(g, fs, m, old, i), NumberedAs(h, fs, m, old, k)
       PROVE  /\ KeyOf(fs[i]) = KeyOf(fs[k]) => g = h
              /\ g = h => KeyOf(fs[i]) = KeyOf(fs[k])
  <2>1. \A x, y \in 1..Len(fs) : \A a, b :
          NumberedAs(a, fs, m, old, x) /\ NumberedAs(b, fs, m, old, y) =>
            /\ a \in Nat /\ a > Highest(old) /\ a # 0
            /\ KeyOf(fs[x]) = KeyOf(fs[y]) => a = b
            /\ a = b => KeyOf(fs[x]) = KeyOf(fs[y])
    BY <1>1, NumberedOne
  <2>2. QED
    BY <1>55, <2>1
<1>6. ASSUME K = {}, Doubled(fs, i) PROVE g \in Nat /\ g > Highest(old) /\ g # 0
  BY <1>1, <1>5, <1>6, NumberedOne
<1>7. ASSUME L = {}, Doubled(fs, k) PROVE h \in Nat /\ h > Highest(old) /\ h # 0
  BY <1>1, <1>5, <1>7, NumberedOne
<1>8. g # 0 <=> Doubled(fs, i)
  BY <1>3, <1>5, <1>6
<1>9. ASSUME KeyOf(fs[i]) = KeyOf(fs[k]) PROVE g = h
  <2>1. Doubled(fs, i) <=> Doubled(fs, k)
    <3>1. ASSUME NEW x \in 1..Len(fs), NEW y \in 1..Len(fs), KeyOf(fs[x]) = KeyOf(fs[y]), Doubled(fs, x)
          PROVE  Doubled(fs, y)
      <4>1. PICK z \in 1..Len(fs) : z # x /\ KeyOf(fs[z]) = KeyOf(fs[x])
        BY <3>1 DEF Doubled
      <4>2. z # y \/ x # y
        BY <4>1
      <4>3. QED
        BY <3>1, <4>1, <4>2 DEF Doubled
    <3>2. QED
      BY <1>9, <3>1
  <2>2. CASE K # {}
    BY <1>3, <1>5, <1>9, <2>2
  <2>3. CASE K = {} /\ Doubled(fs, i)
    <3>1. NumberedAs(g, fs, m, old, i) /\ NumberedAs(h, fs, m, old, k)
      BY <1>3, <1>5, <1>9, <2>1, <2>3
    <3>2. QED
      BY <1>9, <1>55, <3>1
  <2>4. CASE K = {} /\ ~Doubled(fs, i)
    BY <1>3, <1>5, <1>9, <2>1, <2>4
  <2>5. QED
    BY <2>2, <2>3, <2>4
<1>10. ASSUME g = h, g # 0 PROVE KeyOf(fs[i]) = KeyOf(fs[k])
  <2>1. CASE K # {} /\ L # {}
    BY <1>3, <1>5, <1>10, <2>1
  <2>2. CASE K # {} /\ L = {}
    <3>1. g <= Highest(old) /\ g \in Nat
      BY <1>3, <1>5, <2>2
    <3>2. Doubled(fs, k)
      BY <1>5, <1>10, <2>2
    <3>3. h > Highest(old)
      BY <1>7, <2>2, <3>2
    <3>4. QED
      BY <1>1, <1>10, <3>1, <3>3
  <2>3. CASE K = {} /\ L # {}
    <3>1. h <= Highest(old) /\ h \in Nat
      BY <1>4, <1>5, <2>3
    <3>2. Doubled(fs, i)
      BY <1>8, <1>10
    <3>3. g > Highest(old)
      BY <1>6, <2>3, <3>2
    <3>4. QED
      BY <1>1, <1>10, <3>1, <3>3
  <2>4. CASE K = {} /\ L = {}
    <3>1. NumberedAs(g, fs, m, old, i) /\ NumberedAs(h, fs, m, old, k)
      BY <1>5, <1>10, <2>4
    <3>2. QED
      BY <1>10, <1>55, <3>1
  <2>5. QED
    BY <2>1, <2>2, <2>3, <2>4
<1>11. QED
  BY <1>8, <1>9, <1>10

\* A list of stored and new findings, and what a retry makes of it.
NewInScope(fs, m, scope) == \A k \in 1..Len(fs) : k > m => InScope(fs[k], scope)
RetriedTo(out, fs, m, old, mode) ==
  Len(out) = Len(fs) /\ \A i \in 1..Len(fs) : RetriedAt(fs, m, old, mode, out[i], i)

\* What a retry does to scope, duplicates and verdicts.
LEMMA RetriedKeeps ==
  ASSUME NEW fs \in Seq(Placed), NEW old, NEW m, Joined(fs, old, m),
         NEW scope, NEW mode, Deduped(old, scope, mode),
         NewInScope(fs, m, scope), NEW out, RetriedTo(out, fs, m, old, mode)
  PROVE  /\ Deduped(out, scope, mode)
         /\ \A i \in 1..Len(fs) : out[i].verify = fs[i].verify
         /\ \A i \in 1..m : old[i].eligible => out[i].eligible
<1>1. ASSUME NEW i \in 1..Len(fs)
      PROVE  /\ KeyOf(out[i]) = KeyOf(fs[i]) /\ out[i].owner = fs[i].owner
             /\ out[i].verify = fs[i].verify /\ out[i].status = fs[i].status
             /\ RetriedGroup(out[i].group, fs, m, old, i)
             /\ out[i].eligible <=> out[i].owner # 0 /\ (mode = "enforce" => IsFirst(fs, i))
             /\ scope = "enforce" => out[i].owner # 0
  <2>1. PICK g : g = out[i]
    OBVIOUS
  <2>2. RetriedAt(fs, m, old, mode, g, i) /\ \A k \in 1..Len(fs) : k > m => InScope(fs[k], scope)
    BY <2>1 DEF RetriedTo, NewInScope
  <2>3. /\ KeyOf(g) = KeyOf(fs[i]) /\ g.owner = fs[i].owner
        /\ g.verify = fs[i].verify /\ g.status = fs[i].status
        /\ RetriedGroup(g.group, fs, m, old, i)
        /\ g.eligible <=> g.owner # 0 /\ (mode = "enforce" => IsFirst(fs, i))
        /\ scope = "enforce" => g.owner # 0
    BY <2>2, RetriedOne
  <2>4. QED
    BY <2>1, <2>3
<1>2. ASSUME NEW i \in 1..Len(fs)
      PROVE  (IsFirst(out, i) <=> IsFirst(fs, i)) /\ (Doubled(out, i) <=> Doubled(fs, i))
  <2>1. Twins(out, i) = Twins(fs, i)
    BY <1>1 DEF Twins, Indices, RetriedTo
  <2>2. QED
    BY <1>1, <2>1 DEF IsFirst, Doubled, RetriedTo
<1>3. ASSUME NEW i \in 1..Len(fs), NEW k \in 1..Len(fs)
      PROVE  /\ out[i].group # 0 <=> Doubled(out, i)
             /\ KeyOf(out[i]) = KeyOf(out[k]) => out[i].group = out[k].group
             /\ out[i].group = out[k].group /\ out[i].group # 0 => KeyOf(out[i]) = KeyOf(out[k])
  <2>1. PICK g, h : g = out[i].group /\ h = out[k].group
    OBVIOUS
  <2>2. RetriedGroup(g, fs, m, old, i) /\ RetriedGroup(h, fs, m, old, k)
    BY <1>1, <2>1
  <2>3. /\ g # 0 <=> Doubled(fs, i)
        /\ KeyOf(fs[i]) = KeyOf(fs[k]) => g = h
        /\ g = h /\ g # 0 => KeyOf(fs[i]) = KeyOf(fs[k])
    BY <2>2, RetriedGroups
  <2>4. QED
    BY <1>1, <1>2, <2>1, <2>3
<1>4. Deduped(out, scope, mode)
  BY <1>1, <1>2, <1>3 DEF Deduped, RetriedTo
<1>5. ASSUME NEW i \in 1..m, old[i].eligible PROVE out[i].eligible
  <2>1. PICK new \in Seq(Placed) : fs = old \o new
    BY DEF Joined
  <2>2. old \in Seq(Placed) /\ m = Len(old)
    BY DEF Joined
  <2>3. /\ i \in 1..Len(fs) /\ i <= m /\ m \in Nat /\ Len(fs) \in Nat
        /\ \A n \in 1..m : fs[n] = old[n] /\ n \in 1..Len(fs)
        /\ \A n \in 1..Len(fs) : n \in 1..m \/ n > m
    BY <2>1, <2>2
  <2>4. old[i].owner # 0 /\ (mode = "enforce" => IsFirst(old, i))
    BY <1>5, <2>2 DEF Deduped
  <2>5. IsFirst(old, i) => IsFirst(fs, i)
    <3>1. ASSUME IsFirst(old, i), NEW j \in 1..Len(fs), KeyOf(fs[j]) = KeyOf(fs[i]) PROVE i <= j
      <4>1. CASE j \in 1..m
        BY <2>2, <2>3, <3>1, <4>1, FirstIs
      <4>2. CASE j > m
        BY <2>3, <4>2
      <4>3. QED
        BY <2>3, <4>1, <4>2
    <3>2. QED
      BY <2>3, <3>1, FirstIs
  <2>6. QED
    BY <1>1, <2>3, <2>4, <2>5
<1>6. QED
  BY <1>1, <1>4, <1>5

---------------------------------------------------------------------------
(* What consensus and debate do to the findings of a review               *)

\* Findings of one place share their group, and those of a group are near its head.
LEMMA TaggedAgrees ==
  ASSUME NEW fs \in Seq(Placed), NEW out, out = Tagged(fs)
  PROVE  Agreeing(out) /\ TwinGroups(out)
<1>1. PICK s \in GroupState : MergeGroups(fs) = s.of /\ GroupsTo(s, fs, Len(fs))
  BY GroupsAll
<1>2. PICK of, n, h : of = s.of /\ n = Len(fs) /\ h = s.heads
  OBVIOUS
<1>3. /\ n \in Nat /\ h \in Seq(Placed) /\ Len(h) \in Nat /\ Len(h) <= n
      /\ \A i \in 1..n :
           /\ of[i] \in 1..Len(h) /\ Near(h[of[i]], fs[i])
           /\ \A k \in 1..Len(h) : Near(h[k], fs[i]) => of[i] <= k
  BY <1>1, <1>2 DEF GroupsTo, GroupState
<1>4. /\ Len(out) = n
      /\ \A i \in 1..n : /\ SameClaim(out[i], fs[i]) /\ out[i].merged = of[i]
                         /\ out[i].consensus <=> Agreed(fs, of, i)
  <2>1. Len(out) = n
    BY <1>2, DrawnTagged
  <2>2. ASSUME NEW i \in 1..n
        PROVE  /\ SameClaim(out[i], fs[i]) /\ out[i].merged = of[i]
               /\ out[i].consensus <=> Agreed(fs, of, i)
    <3>1. PICK f, g, b : f = fs[i] /\ g = of[i] /\ b = Agreed(fs, of, i)
      OBVIOUS
    <3>2. f \in Placed
      BY <1>2, <3>1
    <3>3. out[i] = [f EXCEPT !.merged = g, !.consensus = b]
      BY <1>1, <1>2, <3>1 DEF Tagged, Indices
    <3>4. SameClaim(out[i], f) /\ out[i].merged = g /\ out[i].consensus = b
      BY <3>2, <3>3 DEF SameClaim, Placed, FindingRow
    <3>5. QED
      BY <3>1, <3>4
  <2>3. QED
    BY <2>1, <2>2
<1>5. ASSUME NEW i \in 1..n, NEW j \in 1..n, fs[i].path = fs[j].path, fs[i].line = fs[j].line
      PROVE  of[i] = of[j]
  <2>1. Near(h[of[i]], fs[j]) /\ Near(h[of[j]], fs[i])
    BY <1>3, <1>5 DEF Near
  <2>2. of[i] <= of[j] /\ of[j] <= of[i]
    BY <1>3, <2>1
  <2>3. QED
    BY <1>3, <2>2
<1>6. ASSUME NEW i \in 1..n, NEW j \in 1..n, of[i] = of[j]
      PROVE  /\ fs[i].path = fs[j].path
             /\ fs[i].line - fs[j].line \in -(2 * Proximity)..(2 * Proximity)
  <2>1. PICK f, g, x : f = fs[i] /\ g = fs[j] /\ x = h[of[i]]
    OBVIOUS
  <2>2. Near(x, f) /\ Near(x, g)
    BY <1>3, <1>6, <2>1
  <2>3. f \in Placed /\ g \in Placed /\ x \in Placed
    BY <1>2, <1>3, <2>1
  <2>4. f.line \in Nat /\ g.line \in Nat /\ x.line \in Nat
    BY <2>3, ExecutionAssumption DEF Placed
  <2>5. x.line - f.line \in -Proximity..Proximity /\ x.line - g.line \in -Proximity..Proximity
        /\ x.path = f.path /\ x.path = g.path
    BY <2>2 DEF Near
  <2>6. PICK a, b, c, d : a = f.line /\ b = g.line /\ c = x.line /\ d = Proximity
    OBVIOUS
  <2>7. a \in Nat /\ b \in Nat /\ c \in Nat /\ d \in Nat /\ c - a \in -d..d /\ c - b \in -d..d
    BY <2>4, <2>5, <2>6, PolicyAssumption
  <2>8. a - b \in -(2 * d)..(2 * d)
    BY <2>7
  <2>9. QED
    BY <2>1, <2>5, <2>6, <2>8
<1>7. Agreeing(out)
  <2>1. ASSUME NEW i \in 1..n, NEW j \in 1..n, out[j].vendor # out[i].vendor,
               out[j].path = out[i].path, out[j].line = out[i].line
        PROVE  out[i].consensus
    <3>1. of[j] = of[i] /\ fs[j].vendor # fs[i].vendor
      BY <1>4, <1>5, <2>1 DEF SameClaim
    <3>2. Agreed(fs, of, i)
      BY <1>2, <3>1 DEF Agreed, Indices
    <3>3. QED
      BY <1>4, <3>2
  <2>2. ASSUME NEW i \in 1..n, out[i].consensus PROVE Seconded(out, i, 2 * Proximity)
    <3>1. Agreed(fs, of, i)
      BY <1>4, <2>2
    <3>2. PICK j \in 1..n, k \in 1..n : of[j] = of[i] /\ of[k] = of[i] /\ fs[j].vendor # fs[k].vendor
      BY <1>2, <3>1 DEF Agreed, Indices
    <3>3. PICK l \in {j, k} : fs[l].vendor # fs[i].vendor
      BY <3>2
    <3>4. /\ l \in 1..n /\ fs[l].path = fs[i].path
          /\ fs[i].line - fs[l].line \in -(2 * Proximity)..(2 * Proximity)
      BY <1>6, <3>2, <3>3
    <3>5. QED
      BY <1>4, <3>3, <3>4 DEF Seconded, SameClaim
  <2>3. QED
    BY <1>4, <2>1, <2>2 DEF Agreeing
<1>8. TwinGroups(out)
  <2>1. ASSUME NEW i \in 1..n PROVE out[i].merged \in 1..n
    BY <1>3, <1>4
  <2>2. ASSUME NEW i \in 1..n, NEW j \in 1..n, KeyOf(out[i]) = KeyOf(out[j])
        PROVE  out[i].merged = out[j].merged
    BY <1>4, <1>5, <2>2 DEF KeyOf, SameClaim
  <2>3. QED
    BY <1>4, <2>1, <2>2 DEF TwinGroups
<1>9. QED
  BY <1>7, <1>8

LEMMA TaggedDeduped ==
  ASSUME NEW fs \in Seq(Placed), NEW scope, NEW dedupe, Deduped(fs, scope, dedupe)
  PROVE  Deduped(Tagged(fs), scope, dedupe)
<1>1. PICK out : out = Tagged(fs)
  OBVIOUS
<1>2. Len(out) = Len(fs)
  BY <1>1, DrawnTagged
<1>3. ASSUME NEW i \in 1..Len(fs)
      PROVE  /\ KeyOf(out[i]) = KeyOf(fs[i]) /\ out[i].owner = fs[i].owner
             /\ out[i].eligible = fs[i].eligible /\ out[i].group = fs[i].group
  BY <1>1, TaggedStanding, TaggedClaims DEF SameStanding, SameClaim, KeyOf
<1>4. QED
  BY <1>1, <1>2, <1>3, DedupedSame

\* A verdict that needs two sides.
Sided(f, by) == f.verify \in {"confirmed", "contested"} => f.vendor \in by /\ by \ {f.vendor} # {}

LEMMA VerdictApart ==
  ASSUME NEW author, NEW by, NEW first, NEW second,
         Verdict(author, by, first, second) \in {"confirmed", "contested"}
  PROVE  author \in by /\ by \ {author} # {}
<1>1. Independent(author, by)
  BY DEF Verdict
<1>2. author \in by /\ Refuter(author, by) # author
  BY <1>1 DEF Independent
<1>3. QED
  BY <1>2 DEF Refuter

\* The debate changes verdicts, and drops tags that nobody asked for.
LEMMA DebatedOne ==
  ASSUME NEW fs \in Seq(Placed), NEW cfg, NEW by, NEW say, NEW i \in 1..Len(fs), NEW g,
         g = Debated(fs, cfg, by, say)[i], fs[i].verify = "none"
  PROVE  /\ SameClaim(g, fs[i]) /\ g.owner = fs[i].owner /\ g.eligible = fs[i].eligible
         /\ g.group = fs[i].group /\ Sided(g, by)
         /\ cfg.merge => g.merged = fs[i].merged /\ g.consensus = fs[i].consensus
<1>1. PICK x : x = fs[i]
  OBVIOUS
<1>2. x \in Placed
  BY <1>1
<1>3. PICK f : f = IF cfg.merge THEN x ELSE [x EXCEPT !.consensus = FALSE, !.merged = 0]
  OBVIOUS
<1>4. /\ f \in Placed /\ SameClaim(f, x) /\ f.owner = x.owner /\ f.eligible = x.eligible
      /\ f.group = x.group /\ f.verify = x.verify
      /\ cfg.merge => f.merged = x.merged /\ f.consensus = x.consensus
  <2>1. CASE cfg.merge
    BY <1>2, <1>3, <2>1 DEF SameClaim
  <2>2. CASE ~cfg.merge
    <3>1. f = [x EXCEPT !.consensus = FALSE, !.merged = 0]
      BY <1>3, <2>2
    <3>2. f \in Placed /\ SameClaim(f, x)
      BY <1>2, <3>1, PlacedMerged
    <3>3. f.owner = x.owner /\ f.eligible = x.eligible /\ f.group = x.group /\ f.verify = x.verify
      BY <1>2, <3>1 DEF Placed, FindingRow
    <3>4. QED
      BY <2>2, <3>2, <3>3
  <2>3. QED
    BY <2>1, <2>2
<1>5. PICK w : w = Verdict(f.vendor, by, say[i].first, say[i].second)
  OBVIOUS
<1>6. g = f \/ g = [f EXCEPT !.verify = w]
  BY <1>1, <1>3, <1>5 DEF Debated, Indices
<1>7. CASE g = f
  BY <1>1, <1>4, <1>7 DEF Sided, SameClaim
<1>8. CASE g = [f EXCEPT !.verify = w]
  <2>1. /\ g.vendor = f.vendor /\ g.source = f.source /\ g.path = f.path /\ g.line = f.line
        /\ g.owner = f.owner /\ g.eligible = f.eligible /\ g.group = f.group
        /\ g.merged = f.merged /\ g.consensus = f.consensus /\ g.verify = w
    BY <1>4, <1>8 DEF Placed, FindingRow
  <2>2. Sided(g, by)
    BY <1>5, <2>1, VerdictApart DEF Sided
  <2>3. QED
    BY <1>1, <1>4, <2>1, <2>2 DEF SameClaim
<1>9. QED
  BY <1>6, <1>7, <1>8

---------------------------------------------------------------------------
(* Combine, debate and retry, as functions of their findings              *)

LEMMA CombineMarks ==
  ASSUME Base, NEW fs \in Seq(Placed), \A i \in 1..Len(fs) : Raw(fs[i]), NEW scope, NEW mode,
         NEW tag, NEW mid, mid = GroupDuplicates(ApplyScope(fs, ChunkOwner, scope), mode),
         NEW out, out = IF tag THEN Tagged(mid) ELSE mid
  PROVE  /\ Deduped(out, scope, mode) /\ \A i \in 1..Len(out) : out[i].verify = "none"
         /\ tag => Agreeing(out) /\ TwinGroups(out)
<1>1. PICK sc : sc = ApplyScope(fs, ChunkOwner, scope)
  OBVIOUS
<1>2. sc \in Seq(Placed)
  BY <1>1, DrawnScope DEF Drawn
<1>3. \A i \in 1..Len(sc) : InScope(sc[i], scope)
  BY <1>1, ScopeMarks
<1>4. mid = GroupDuplicates(sc, mode)
  BY <1>1
<1>5. mid \in Seq(Placed) /\ Len(mid) = Len(sc)
  BY <1>2, <1>3, <1>4, DrawnDuplicates, DuplicatesMark DEF Drawn
<1>6. Deduped(mid, scope, mode) /\ \A i \in 1..Len(mid) : mid[i].verify = "none"
  BY <1>2, <1>3, <1>4, <1>5, DuplicatesMark
<1>7. CASE tag
  <2>1. out = Tagged(mid)
    BY <1>7
  <2>2. Len(out) = Len(mid) /\ \A i \in 1..Len(mid) : out[i].verify = mid[i].verify
    BY <1>5, <2>1, DrawnTagged, TaggedStanding DEF SameStanding
  <2>3. Deduped(out, scope, mode)
    BY <1>5, <1>6, <2>1, TaggedDeduped
  <2>4. Agreeing(out) /\ TwinGroups(out)
    BY <1>5, <2>1, TaggedAgrees
  <2>5. QED
    BY <1>6, <2>2, <2>3, <2>4
<1>8. CASE ~tag
  BY <1>6, <1>8
<1>9. QED
  BY <1>7, <1>8

LEMMA DebateMarks ==
  ASSUME NEW fs \in Seq(Placed), NEW scope, NEW mode, Deduped(fs, scope, mode),
         \A i \in 1..Len(fs) : fs[i].verify = "none", NEW cfg, NEW by, NEW say,
         cfg.merge => Agreeing(fs) /\ TwinGroups(fs),
         NEW mid, mid = Debated(fs, cfg, by, say),
         NEW out, out = IF cfg.merge THEN InGroupOrder(mid) ELSE mid
  PROVE  /\ Deduped(out, scope, mode) /\ (cfg.merge => Agreeing(out))
         /\ \A i \in 1..Len(out) : Sided(out[i], by)
<1>1. mid \in Seq(Placed) /\ Len(mid) = Len(fs)
  BY DrawnDebated
<1>2. ASSUME NEW i \in 1..Len(fs)
      PROVE  /\ SameClaim(mid[i], fs[i]) /\ mid[i].owner = fs[i].owner
             /\ mid[i].eligible = fs[i].eligible /\ mid[i].group = fs[i].group
             /\ Sided(mid[i], by) /\ KeyOf(mid[i]) = KeyOf(fs[i])
             /\ cfg.merge => mid[i].merged = fs[i].merged /\ mid[i].consensus = fs[i].consensus
  <2>1. PICK g : g = mid[i]
    OBVIOUS
  <2>2. g = Debated(fs, cfg, by, say)[i] /\ fs[i].verify = "none"
    BY <2>1
  <2>3. /\ SameClaim(g, fs[i]) /\ g.owner = fs[i].owner /\ g.eligible = fs[i].eligible
        /\ g.group = fs[i].group /\ Sided(g, by)
        /\ cfg.merge => g.merged = fs[i].merged /\ g.consensus = fs[i].consensus
    BY <2>2, DebatedOne
  <2>4. QED
    BY <2>1, <2>3 DEF SameClaim, KeyOf
<1>3. Deduped(mid, scope, mode)
  BY <1>1, <1>2, DedupedSame
<1>4. CASE cfg.merge
  <2>1. Agreeing(mid)
    BY <1>1, <1>2, <1>4, AgreeingSame
  <2>2. TwinGroups(mid)
    BY <1>1, <1>2, <1>4 DEF TwinGroups
  <2>3. out = InGroupOrder(mid)
    BY <1>4
  <2>4. Deduped(out, scope, mode) /\ Agreeing(out)
    BY <1>1, <1>3, <2>1, <2>2, <2>3, OrderKeeps
  <2>5. PICK pos \in [1..Len(out) -> Nat] : Regroups(out, mid, pos)
    BY <1>1, <2>3, OrderPlaces
  <2>6. ASSUME NEW k \in 1..Len(out) PROVE Sided(out[k], by)
    <3>1. pos[k] \in 1..Len(fs) /\ out[k] = mid[pos[k]]
      BY <1>1, <2>5 DEF Regroups
    <3>2. QED
      BY <1>2, <3>1
  <2>7. QED
    BY <2>4, <2>6
<1>5. CASE ~cfg.merge
  BY <1>1, <1>2, <1>3, <1>5
<1>6. QED
  BY <1>4, <1>5

\* Stored findings keep their verdicts and what may be posted; new ones have none.
LEMMA RetryMarks ==
  ASSUME NEW old \in Seq(Placed), NEW new \in Seq(Placed), NEW scope, NEW mode,
         Deduped(old, scope, mode), \A i \in 1..Len(new) : InScope(new[i], scope), NEW merge,
         NEW out, Joins(out, old, new, mode, merge)
  PROVE  /\ Deduped(out, scope, mode) /\ (merge => Agreeing(out))
         /\ \A i \in 1..Len(old) : out[i].verify = old[i].verify
                                   /\ (old[i].eligible => out[i].eligible)
         /\ \A i \in 1..Len(out) : i > Len(old) => out[i].verify = "none"
<1>1. PICK all, fs, m : all = GroupRetried(old, new, mode) /\ fs = old \o new /\ m = Len(old)
  OBVIOUS
<1>2. /\ fs \in Seq(Placed) /\ m \in Nat /\ Len(fs) = m + Len(new) /\ Len(new) \in Nat
      /\ \A i \in 1..m : fs[i] = old[i] /\ i \in 1..Len(fs)
      /\ \A i \in 1..Len(fs) : i > m => fs[i] = new[i - m] /\ i - m \in 1..Len(new)
  BY <1>1
<1>3. Joined(fs, old, m)
  BY <1>1 DEF Joined
<1>4. NewInScope(fs, m, scope)
  BY <1>2 DEF NewInScope
<1>5. all \in Seq(Placed) /\ Len(all) = Len(fs)
  BY <1>1, <1>2, RetriedPlaced
<1>6. RetriedTo(all, fs, m, old, mode)
  <2>1. \A i \in Indices(fs) : RetriedAt(fs, m, old, mode, all[i], i)
    BY <1>1, RetriedIs
  <2>2. QED
    BY <1>5, <2>1 DEF Indices, RetriedTo
<1>7. /\ Deduped(all, scope, mode)
      /\ \A i \in 1..Len(fs) : all[i].verify = fs[i].verify
      /\ \A i \in 1..m : old[i].eligible => all[i].eligible
  BY <1>2, <1>3, <1>4, <1>6, RetriedKeeps
<1>8. /\ Len(out) = Len(all) /\ Deduped(out, scope, mode) /\ (merge => Agreeing(out))
      /\ \A i \in 1..Len(all) : out[i].verify = all[i].verify /\ out[i].eligible = all[i].eligible
  <2>1. CASE merge
    <3>1. out = Tagged(all)
      BY <1>1, <2>1 DEF Joins
    <3>2. QED
      BY <1>5, <1>7, <3>1, TaggedDeduped, TaggedAgrees, TaggedStanding, DrawnTagged DEF SameStanding
  <2>2. CASE ~merge
    BY <1>1, <1>7, <2>2 DEF Joins
  <2>3. QED
    BY <2>1, <2>2
<1>9. \A k \in 1..Len(fs) : k > m => fs[k].verify = "none"
  BY <1>4 DEF NewInScope, InScope
<1>10. /\ \A i \in 1..m : out[i].verify = old[i].verify /\ (old[i].eligible => out[i].eligible)
       /\ \A i \in 1..Len(out) : i > m => out[i].verify = "none"
  BY <1>2, <1>5, <1>7, <1>8, <1>9
<1>11. QED
  BY <1>1, <1>8, <1>10

---------------------------------------------------------------------------
(* The marks of found and stored findings                                 *)

\* A review that works on the newest run marks what it found by the policy of that
\* run; what a retry found is not marked before it is stored.
FoundMarks(p) ==
  /\ lane[p].pc \in {"combine", "add"} => \A i \in 1..Len(lane[p].found) : Raw(lane[p].found[i])
  /\ lane[p].pc \in {"debate", "persist"} /\ Newest(p) /\ ~AllFailed(p) =>
       /\ Deduped(lane[p].found, run.policy.scope, run.policy.dedupe)
       /\ lane[p].cfg.merge => Agreeing(lane[p].found)
  /\ lane[p].pc = "debate" =>
       /\ ~AllFailed(p)
       /\ \A i \in 1..Len(lane[p].found) : lane[p].found[i].verify = "none"
       /\ lane[p].cfg.merge => TwinGroups(lane[p].found)
  /\ lane[p].pc = "persist" /\ Newest(p) /\ ~AllFailed(p) =>
       \A i \in 1..Len(lane[p].found) : Sided(lane[p].found[i], lane[p].by)

StoredMarks ==
  /\ Deduped(finding, run.policy.scope, run.policy.dedupe)
  /\ run.tagged => Agreeing(finding)

Marked == StoredMarks /\ \A p \in Proc : FoundMarks(p)

\* A step that leaves findings, policy and tags alone.
Calm ==
  /\ run'.id = run.id /\ run'.policy = run.policy /\ run'.tagged = run.tagged /\ finding' = finding

LEMMA CalmStored ==
  ASSUME StoredMarks, Calm
  PROVE  StoredMarks'
<1>1. PICK fs, scope, mode : fs = finding /\ scope = run.policy.scope /\ mode = run.policy.dedupe
  OBVIOUS
<1>2. finding' = fs /\ run'.policy.scope = scope /\ run'.policy.dedupe = mode
  BY <1>1 DEF Calm
<1>3. Deduped(fs, scope, mode) /\ (run.tagged => Agreeing(fs))
  BY <1>1 DEF StoredMarks
<1>4. QED
  BY <1>2, <1>3 DEF StoredMarks, Calm

\* Lanes that stay as they are, or have nothing that is marked.
LEMMA CalmLane ==
  ASSUME NEW p \in Proc, FoundMarks(p),
         lane'[p] = lane[p] \/ lane'[p].pc \notin Answering,
         Newest(p)' => Newest(p) /\ run'.policy = run.policy
  PROVE  FoundMarks(p)'
<1>1. CASE lane'[p].pc \notin Answering
  BY <1>1 DEF FoundMarks, Answering
<1>2. CASE lane'[p] = lane[p]
  <2>1. AllFailed(p)' <=> AllFailed(p)
    BY <1>2 DEF AllFailed
  <2>2. PICK l, c, d : l = lane[p] /\ c = run.policy /\ d = run'.policy
    OBVIOUS
  <2>3. lane'[p] = l /\ (Newest(p)' => Newest(p) /\ d = c)
    BY <1>2, <2>2
  <2>4. QED
    BY <2>1, <2>2, <2>3 DEF FoundMarks
<1>3. QED
  BY <1>1, <1>2

LEMMA CalmStep ==
  ASSUME Marked, Calm, \A p \in Proc : lane'[p] = lane[p] \/ lane'[p].pc \notin Answering
  PROVE  Marked'
<1>1. ASSUME NEW p \in Proc PROVE FoundMarks(p)'
  <2>1. Newest(p)' => Newest(p) \/ lane'[p].pc \notin Answering
    BY DEF Newest, Calm
  <2>2. CASE lane'[p].pc \notin Answering
    BY <2>2 DEF FoundMarks, Answering
  <2>3. CASE lane'[p] = lane[p]
    BY <2>3, CalmLane DEF Marked, Newest, Calm
  <2>4. QED
    BY <2>2, <2>3
<1>2. QED
  BY <1>1, CalmStored DEF Marked

\* One lane goes on.
LEMMA CalmGoes ==
  ASSUME Marked, Calm, NEW p \in Proc, FoundMarks(p)',
         \A q \in Proc : q # p => lane'[q] = lane[q]
  PROVE  Marked'
<1>1. ASSUME NEW q \in Proc, q # p PROVE FoundMarks(q)'
  BY <1>1, CalmLane DEF Marked, Newest, Calm
<1>2. QED
  BY <1>1, CalmStored DEF Marked

LEMMA SameCalm ==
  ASSUME run'.id = run.id, run'.policy = run.policy, run'.tagged = run.tagged, finding' = finding
  PROVE  Calm
  BY DEF Calm

LEMMA AskVendorsMarked ==
  ASSUME Base, Marked, NEW p \in Proc, AskVendors(p)
  PROVE  Marked'
<1>1. Calm
  BY SameCalm DEF AskVendors, dbVars
<1>2. /\ GoesOn(p, {"combine", "add"})
      /\ \E a : AskedFor(p, a) /\ lane'[p].found = Found(a)
  BY AskVendorsLane DEF Base, GoesOn, Moves
<1>3. PICK a : AskedFor(p, a) /\ lane'[p].found = Found(a)
  BY <1>2
<1>4. \A i \in 1..Len(Found(a)) : Raw(Found(a)[i])
  BY <1>3, FoundGood
<1>5. PICK fs : fs = Found(a)
  OBVIOUS
<1>6. lane'[p].found = fs /\ \A i \in 1..Len(fs) : Raw(fs[i])
  BY <1>3, <1>4, <1>5
<1>7. FoundMarks(p)'
  BY <1>2, <1>6 DEF FoundMarks, GoesOn, Moves, Raw
<1>8. QED
  BY <1>1, <1>2, <1>7, CalmGoes DEF GoesOn, Moves

LEMMA CombineMarked ==
  ASSUME Base, Control, Findings, Marked, NEW p \in Proc, Combine(p)
  PROVE  Marked'
<1>1. Calm /\ UNCHANGED run
  BY SameCalm DEF Combine, dbVars
<1>2. /\ lane[p].pc = "combine" /\ GoesOn(p, {"debate", "persist"})
      /\ lane'[p].answer = lane[p].answer
      /\ lane'[p].pc = "debate" => ~AllFailed(p) /\ Newest(p) /\ run.policy # None
                                   /\ lane'[p].found = Combined(p)
      /\ lane'[p].pc = "persist" => /\ AllFailed(p) \/ ~Newest(p) \/ run.policy = None
                                    /\ lane'[p].found = lane[p].found
  BY CombineLane DEF Base
<1>3. (AllFailed(p)' <=> AllFailed(p)) /\ (Newest(p)' <=> Newest(p)) /\ lane'[p].cfg = lane[p].cfg
  BY <1>1, <1>2 DEF AllFailed, Newest, GoesOn
<1>4. CASE lane'[p].pc = "persist"
  <2>1. Newest(p) => run.policy # None
    BY <1>2 DEF Control, WorkOK, Bound, Asking
  <2>2. AllFailed(p)' \/ ~Newest(p)'
    BY <1>2, <1>3, <1>4, <2>1
  <2>3. FoundMarks(p)'
    BY <1>4, <2>2 DEF FoundMarks
  <2>4. QED
    BY <1>1, <1>2, <2>3, CalmGoes DEF GoesOn, Moves
<1>5. CASE lane'[p].pc = "debate"
  <2>1. PICK fs, scope, mode, merge, tag :
          /\ fs = lane[p].found /\ scope = run.policy.scope /\ mode = run.policy.dedupe
          /\ merge = lane[p].cfg.merge /\ tag = (lane[p].cfg.merge \/ lane[p].cfg.verify)
    OBVIOUS
  <2>2. fs \in Seq(Placed)
    BY <1>2, <2>1 DEF Findings, FoundOK, Answering
  <2>3. \A i \in 1..Len(fs) : Raw(fs[i])
    BY <1>2, <2>1 DEF Marked, FoundMarks
  <2>4. PICK mid, out : /\ mid = GroupDuplicates(ApplyScope(fs, ChunkOwner, scope), mode)
                        /\ out = IF tag THEN Tagged(mid) ELSE mid
    OBVIOUS
  <2>5. lane'[p].found = out
    BY <1>2, <1>5, <2>1, <2>4 DEF Combined
  <2>6. /\ Deduped(out, scope, mode) /\ \A i \in 1..Len(out) : out[i].verify = "none"
        /\ tag => Agreeing(out) /\ TwinGroups(out)
    BY <2>2, <2>3, <2>4, CombineMarks
  <2>7. FoundMarks(p)'
    <3>1. /\ lane'[p].found = out /\ lane'[p].cfg.merge = merge /\ (merge => tag)
          /\ run'.policy.scope = scope /\ run'.policy.dedupe = mode /\ ~AllFailed(p)'
      BY <1>1, <1>2, <1>3, <1>5, <2>1, <2>5
    <3>2. QED
      BY <1>5, <2>6, <3>1 DEF FoundMarks
  <2>8. QED
    BY <1>1, <1>2, <2>7, CalmGoes DEF GoesOn, Moves
<1>6. QED
  BY <1>2, <1>4, <1>5 DEF GoesOn, Moves

LEMMA DebateMarked ==
  ASSUME Base, Findings, Marked, NEW p \in Proc, Debate(p)
  PROVE  Marked'
<1>1. Calm /\ UNCHANGED run
  BY SameCalm DEF Debate, dbVars
<1>2. /\ lane[p].pc = "debate" /\ GoesOn(p, {"persist"}) /\ lane'[p].answer = lane[p].answer
      /\ lane'[p].by = lane[p].by /\ \E say : lane'[p].found = Answered(p, say)
  BY DebateLane DEF Base
<1>3. (AllFailed(p)' <=> AllFailed(p)) /\ (Newest(p)' <=> Newest(p)) /\ lane'[p].cfg = lane[p].cfg
  BY <1>1, <1>2 DEF AllFailed, Newest, GoesOn
<1>4. PICK say : lane'[p].found = Answered(p, say)
  BY <1>2
<1>5. FoundMarks(p)'
  <2>1. CASE Newest(p)
    <3>1. PICK fs, scope, mode, cfg, by :
            /\ fs = lane[p].found /\ scope = run.policy.scope /\ mode = run.policy.dedupe
            /\ cfg = lane[p].cfg /\ by = lane[p].by
      OBVIOUS
    <3>2. fs \in Seq(Placed)
      BY <1>2, <3>1 DEF Findings, FoundOK, Answering
    <3>3. /\ Deduped(fs, scope, mode) /\ \A i \in 1..Len(fs) : fs[i].verify = "none"
          /\ cfg.merge => Agreeing(fs) /\ TwinGroups(fs)
      BY <1>2, <2>1, <3>1 DEF Marked, FoundMarks
    <3>4. PICK mid, out : /\ mid = Debated(fs, cfg, by, say)
                          /\ out = IF cfg.merge THEN InGroupOrder(mid) ELSE mid
      OBVIOUS
    <3>5. /\ Deduped(out, scope, mode) /\ (cfg.merge => Agreeing(out))
          /\ \A i \in 1..Len(out) : Sided(out[i], by)
      BY <3>2, <3>3, <3>4, DebateMarks
    <3>6. /\ lane'[p].found = out /\ lane'[p].cfg = cfg /\ lane'[p].by = by
          /\ run'.policy.scope = scope /\ run'.policy.dedupe = mode
      BY <1>1, <1>2, <1>3, <1>4, <3>1, <3>4 DEF Answered
    <3>7. QED
      BY <1>2, <3>5, <3>6 DEF FoundMarks, GoesOn, Moves
  <2>2. CASE ~Newest(p)
    BY <1>2, <1>3, <2>2 DEF FoundMarks, GoesOn, Moves
  <2>3. QED
    BY <2>1, <2>2
<1>6. QED
  BY <1>1, <1>2, <1>5, CalmGoes DEF GoesOn, Moves

\* A new run has no findings, and nobody else works on it.
LEMMA CreateRunMarked ==
  ASSUME Base, Control, Marked, NEW p \in Proc, CreateRun(p)
  PROVE  Marked'
<1>1. CASE Rests(p) /\ UNCHANGED dbVars
  BY <1>1, RestsIdle, SameCalm, CalmStep DEF dbVars, Base, Answering
<1>2. CASE /\ run' = [NoRun EXCEPT !.id = run.id + 1, !.status = "running", !.head = head]
           /\ finding' = <<>>
           /\ lane' = [lane EXCEPT ![p] = [@ EXCEPT !.pc = "created", !.run = run.id + 1,
                                                    !.cfg = setting]]
  <2>1. run.id \in Nat /\ run'.id = run.id + 1
    BY <1>2, SiteAssumption DEF Base, RunOK, EnvOK, NoRun
  <2>2. lane'[p].pc = "created" /\ \A q \in Proc : q # p => lane'[q] = lane[q]
    BY <1>2 DEF Base, LanesOK, LaneOK, LaneFields
  <2>3. StoredMarks'
    <3>1. run'.tagged = FALSE
      BY <1>2 DEF NoRun
    <3>2. Len(finding') = 0
      BY <1>2
    <3>3. QED
      BY <3>1, <3>2 DEF StoredMarks, Deduped
  <2>4. FoundMarks(p)'
    BY <2>2 DEF FoundMarks
  <2>5. ASSUME NEW q \in Proc, q # p PROVE FoundMarks(q)'
    <3>1. CASE lane[q].pc \in Answering
      <4>1. lane[q].run \in 1..run.id
        BY <3>1 DEF Control, WorkOK, Answering, Reviewing, Bound, Asking, Retrying
      <4>2. ~(Newest(q)')
        BY <2>1, <2>2, <2>5, <4>1 DEF Newest
      <4>3. QED
        BY <2>2, <2>5, <4>2, CalmLane DEF Marked
    <3>2. CASE lane[q].pc \notin Answering
      BY <2>2, <2>5, <3>2 DEF FoundMarks, Answering
    <3>3. QED
      BY <3>1, <3>2
  <2>6. QED
    BY <2>3, <2>4, <2>5 DEF Marked
<1>3. QED
  BY <1>1, <1>2 DEF CreateRun

\* A policy is bound before anything is found.
LEMMA BindPolicyMarked ==
  ASSUME Base, Control, Marked, NEW p \in Proc, BindPolicy(p)
  PROVE  Marked'
<1>1. /\ lane[p].pc = "bind" /\ GoesOn(p, {"rows"}) /\ Newest(p)
      /\ run'.id = run.id /\ run'.tagged = run.tagged /\ UNCHANGED <<row, finding>>
  BY BindPolicyLane DEF BindPolicy, PolicyOpen, Base, RunOK, RunFields
<1>2. finding = <<>>
  BY <1>1 DEF Control, WorkOK, Fresh, Reviewing
<1>3. StoredMarks'
  <2>1. finding' = <<>>
    BY <1>1, <1>2
  <2>2. Len(finding') = 0
    BY <2>1
  <2>3. run.tagged => Agreeing(finding)
    BY DEF Marked, StoredMarks
  <2>4. QED
    BY <1>1, <2>2, <2>3 DEF StoredMarks, Deduped, Agreeing
<1>4. FoundMarks(p)'
  BY <1>1 DEF FoundMarks, GoesOn, Moves
<1>5. ASSUME NEW q \in Proc, q # p PROVE FoundMarks(q)'
  <2>1. lane'[q] = lane[q] /\ (Newest(q)' <=> Newest(q))
    BY <1>1, <1>5 DEF GoesOn, Moves, Newest
  <2>2. CASE lane[q].pc \in Reviewing
    <3>1. ~Newest(q)
      BY <1>1, <1>5, <2>2 DEF Control, RunsApart, Newest, Reviewing
    <3>2. QED
      BY <2>1, <3>1, CalmLane DEF Marked
  <2>3. CASE lane[q].pc \notin Reviewing
    BY <2>1, <2>3 DEF Marked, FoundMarks, Reviewing, Bound, Asking
  <2>4. QED
    BY <2>2, <2>3
<1>6. QED
  BY <1>3, <1>4, <1>5 DEF Marked

LEMMA NeverNone ==
  ASSUME NEW ends
  PROVE  VendorStatus(ends) # "none"
  BY DEF VendorStatus

\* A review is stored as it was marked.
LEMMA PersistMarked ==
  ASSUME Base, Control, Findings, Marked, NEW p \in Proc,
         PersistAllFailed(p) \/ PersistStale(p) \/ Persist(p)
  PROVE  Marked'
<1>1. Rests(p) /\ lane[p].pc = "persist" /\ run'.id = run.id /\ run'.policy = run.policy
  BY DEF PersistAllFailed, PersistStale, Persist, Base, RunOK, RunFields
<1>2. lane'[p].pc = "idle" /\ \A q \in Proc : q # p => lane'[q] = lane[q]
  BY <1>1, RestsIdle DEF Base
<1>3. CASE ~Persist(p)
  <2>1. run'.tagged = run.tagged /\ finding' = finding
    BY <1>3 DEF PersistAllFailed, PersistStale, Base, RunOK, RunFields
  <2>2. Calm
    BY <1>1, <2>1 DEF Calm
  <2>3. QED
    BY <1>2, <2>2, CalmStep DEF Answering
<1>4. CASE Persist(p)
  <2>1. /\ ~AllFailed(p) /\ Newest(p) /\ finding' = finding \o lane[p].found
        /\ run'.tagged = lane[p].cfg.merge
    BY <1>4 DEF Persist, Base, RunOK, RunFields
  <2>2. finding = <<>>
    BY <1>1, <2>1 DEF Control, WorkOK, Fresh, Reviewing, Bound, Asking
  <2>3. PICK fs, scope, mode, cfg :
          /\ fs = lane[p].found /\ scope = run.policy.scope /\ mode = run.policy.dedupe
          /\ cfg = lane[p].cfg
    OBVIOUS
  <2>4. fs \in Seq(Placed)
    BY <1>1, <2>3 DEF Findings, FoundOK, Answering
  <2>5. finding' = fs
    BY <2>1, <2>2, <2>3, <2>4
  <2>6. Deduped(fs, scope, mode) /\ (cfg.merge => Agreeing(fs))
    BY <1>1, <2>1, <2>3 DEF Marked, FoundMarks
  <2>7. StoredMarks'
    <3>1. /\ run'.policy.scope = scope /\ run'.policy.dedupe = mode /\ run'.tagged = cfg.merge
      BY <1>1, <2>1, <2>3
    <3>2. QED
      BY <2>5, <2>6, <3>1 DEF StoredMarks
  <2>8. ASSUME NEW q \in Proc PROVE FoundMarks(q)'
    <3>1. lane'[q] = lane[q] \/ lane'[q].pc \notin Answering
      BY <1>2 DEF Answering
    <3>2. CASE lane'[q].pc \notin Answering
      BY <3>2 DEF FoundMarks, Answering
    <3>3. CASE lane'[q] = lane[q]
      BY <1>1, <3>3, CalmLane DEF Marked, Newest
    <3>4. QED
      BY <3>1, <3>2, <3>3
  <2>9. QED
    BY <2>7, <2>8 DEF Marked
<1>5. QED
  BY <1>3, <1>4

\* A retry adds to what is stored.
LEMMA RetryAddsMarked ==
  ASSUME Base, Findings, Marked, NEW p \in Proc, RetryAdds(p)
  PROVE  /\ Marked'
         /\ \A i \in 1..Len(finding) : finding[i].eligible => finding'[i].eligible
         /\ \A i \in 1..Len(finding') : i > Len(finding) => finding'[i].verify = "none"
<1>1. /\ lane[p].pc = "add" /\ Newest(p) /\ Rests(p)
      /\ row' = FinishedRows(p, lane[p].answer)
      /\ run'.id = run.id /\ run'.policy = run.policy /\ run'.tagged = lane[p].cfg.merge
  BY DEF RetryAdds, Base, RunOK, RunFields
<1>2. PICK found : /\ found = ApplyScope(lane[p].found, ChunkOwner, run.policy.scope)
                   /\ finding' = Again(p, found)
  BY DEF RetryAdds, Again
<1>3. PICK out, old, new, fs, scope, mode, merge :
        /\ out = finding' /\ old = finding /\ fs = lane[p].found
        /\ scope = run.policy.scope /\ mode = run.policy.dedupe /\ merge = lane[p].cfg.merge
        /\ new = ApplyScope(fs, ChunkOwner, scope)
  OBVIOUS
<1>4. old \in Seq(Placed) /\ fs \in Seq(Placed)
  BY <1>1, <1>3 DEF Findings, FoundOK, FindingOK, Answering
<1>5. new \in Seq(Placed)
  BY <1>3, <1>4, DrawnScope DEF Drawn
<1>6. /\ Deduped(old, scope, mode)
      /\ \A i \in 1..Len(fs) : Raw(fs[i])
  BY <1>1, <1>3 DEF Marked, StoredMarks, FoundMarks
<1>7. \A i \in 1..Len(new) : InScope(new[i], scope)
  BY <1>3, <1>4, <1>6, ScopeMarks
<1>8. Joins(out, old, new, mode, merge)
  BY <1>2, <1>3 DEF Again, Joins
<1>9. /\ Deduped(out, scope, mode) /\ (merge => Agreeing(out))
      /\ \A i \in 1..Len(old) : out[i].verify = old[i].verify
                                /\ (old[i].eligible => out[i].eligible)
      /\ \A i \in 1..Len(out) : i > Len(old) => out[i].verify = "none"
  BY <1>4, <1>5, <1>6, <1>7, <1>8, RetryMarks
<1>10. StoredMarks'
  <2>1. run'.policy.scope = scope /\ run'.policy.dedupe = mode /\ run'.tagged = merge
    BY <1>1, <1>3
  <2>2. QED
    BY <1>3, <1>9, <2>1 DEF StoredMarks
<1>11. ASSUME NEW q \in Proc PROVE FoundMarks(q)'
  <2>1. lane'[q] = lane[q] \/ lane'[q].pc = "idle"
    BY <1>1, RestsIdle DEF Base
  <2>2. CASE lane'[q].pc = "idle"
    BY <2>2 DEF FoundMarks
  <2>3. CASE lane'[q] = lane[q]
    BY <1>1, <2>3, CalmLane DEF Marked, Newest
  <2>4. QED
    BY <2>1, <2>2, <2>3
<1>12. QED
  BY <1>3, <1>9, <1>10, <1>11 DEF Marked

\* A decision or a post changes no mark.
LEMMA FindingChangesMarked ==
  ASSUME Base, Findings, Marked, FindingChanges
  PROVE  /\ Marked'
         /\ \A i \in 1..Len(finding) : finding[i].eligible => finding'[i].eligible
<1>1. Restated
  BY FindingChangesRestate DEF Findings, FindingOK
<1>2. UNCHANGED <<run, row, lane>>
  BY DEF FindingChanges
<1>3. PICK out, fs : out = finding' /\ fs = finding
  OBVIOUS
<1>4. fs \in Seq(Placed) /\ Len(out) = Len(fs)
  BY <1>1, <1>3 DEF Findings, FindingOK, Restated
<1>5. ASSUME NEW i \in 1..Len(fs)
      PROVE  /\ SameClaim(out[i], fs[i]) /\ KeyOf(out[i]) = KeyOf(fs[i])
             /\ out[i].owner = fs[i].owner /\ out[i].eligible = fs[i].eligible
             /\ out[i].group = fs[i].group /\ out[i].consensus = fs[i].consensus
             /\ out[i].verify = fs[i].verify
  <2>1. PICK f : f = fs[i]
    OBVIOUS
  <2>2. f \in Placed
    BY <1>4, <2>1
  <2>3. out[i] = f \/ \E s \in {"approved", "dismissed", "posted"} : out[i] = [f EXCEPT !.status = s]
    BY <1>1, <1>3, <2>1 DEF Restated
  <2>4. /\ SameClaim(out[i], f) /\ KeyOf(out[i]) = KeyOf(f)
        /\ out[i].owner = f.owner /\ out[i].eligible = f.eligible
        /\ out[i].group = f.group /\ out[i].consensus = f.consensus /\ out[i].verify = f.verify
    BY <2>2, <2>3 DEF SameClaim, KeyOf, Placed, FindingRow
  <2>5. QED
    BY <2>1, <2>4
<1>6. PICK scope, mode : scope = run.policy.scope /\ mode = run.policy.dedupe
  OBVIOUS
<1>7. Deduped(out, scope, mode)
  <2>1. Deduped(fs, scope, mode)
    BY <1>3, <1>6 DEF Marked, StoredMarks
  <2>2. QED
    BY <1>4, <1>5, <2>1, DedupedSame
<1>8. run.tagged => Agreeing(out)
  <2>1. run.tagged => Agreeing(fs)
    BY <1>3 DEF Marked, StoredMarks
  <2>2. QED
    BY <1>4, <1>5, <2>1, AgreeingSame
<1>9. StoredMarks'
  BY <1>2, <1>3, <1>6, <1>7, <1>8 DEF StoredMarks
<1>10. ASSUME NEW q \in Proc PROVE FoundMarks(q)'
  BY <1>2, CalmLane DEF Marked, Newest
<1>11. QED
  BY <1>3, <1>5, <1>9, <1>10 DEF Marked

LEMMA MarkedStep ==
  ASSUME Base, Owning, Control, History, Findings, Marked, Next
  PROVE  Marked'
<1> USE DEF Answering
<1>1. ASSUME Calm, NEW p \in Proc, Rests(p) PROVE Marked'
  BY <1>1, RestsIdle, CalmStep DEF Base
<1>2. ASSUME Calm, UNCHANGED lane PROVE Marked'
  BY <1>2, CalmStep
<1>3. ASSUME UNCHANGED dbVars PROVE Calm
  BY <1>3, SameCalm DEF dbVars
<1>4. ASSUME Calm, NEW p \in Proc, NEW pcs, GoesOn(p, pcs), pcs \cap Answering = {}
      PROVE  Marked'
  BY <1>4, CalmStep DEF GoesOn, Moves
<1>5. ASSUME NEW p \in Proc, Claim(p) PROVE Marked'
  <2>1. Calm
    BY <1>3, <1>5 DEF Claim
  <2>2. \A q \in Proc : lane'[q] = lane[q] \/ lane'[q].pc \in {"review", "start"}
    BY <1>5 DEF Claim, Base, LanesOK, IdleLane
  <2>3. QED
    BY <2>1, <2>2, CalmStep
<1>6. ASSUME NEW p \in Proc, Nothing(p) \/ ReviewFails(p) PROVE Marked'
  <2>1. Calm
    BY <1>6, SameCalm DEF Nothing, Closes, ReviewFails, RunFails, Base, RunOK, RunFields
  <2>2. QED
    BY <1>1, <1>6, <2>1 DEF Nothing, ReviewFails, RunFails
<1>7. ASSUME NEW p \in Proc, Prescreen(p) PROVE Marked'
  <2>1. Calm
    BY <1>3, <1>7 DEF Prescreen
  <2>2. QED
    BY <1>4, <1>7, <2>1, PrescreenLane DEF Base
<1>8. ASSUME NEW p \in Proc, StoreContexts(p) PROVE Marked'
  <2>1. Calm
    BY <1>8, SameCalm DEF StoreContexts, Base, RunOK, RunFields
  <2>2. QED
    BY <1>4, <1>8, <2>1, StoreContextsLane DEF Base
<1>9. ASSUME NEW p \in Proc, AddRows(p) PROVE Marked'
  <2>1. Calm
    BY <1>9, SameCalm DEF AddRows
  <2>2. QED
    BY <1>4, <1>9, <2>1, AddRowsLane DEF Base
<1>10. ASSUME NEW p \in Proc, RetryStart(p) PROVE Marked'
  <2>1. Calm
    BY <1>3, <1>10 DEF RetryStart
  <2>2. QED
    BY <1>1, <1>10, <2>1, RetryStartLane, CalmStep DEF Base, Moves
<1>11. ASSUME NEW p \in Proc, LeaseLost(p) \/ RetryRefused(p) \/ RetryFails(p) \/ RetryStale(p)
       PROVE  Marked'
  BY <1>1, <1>3, <1>11 DEF LeaseLost, RetryRefused, RetryFails, RetryStale
<1>12. ASSUME NEW p \in Proc, Timeout(p) PROVE Marked'
  <2>1. Calm
    BY <1>12, SameCalm DEF Timeout, Base, RunOK, RunFields
  <2>2. QED
    BY <1>1, <1>12, <2>1 DEF Timeout
<1>13. ASSUME NEW p \in Proc, Crash(p) PROVE Marked'
  BY <1>1, <1>3, <1>13 DEF Crash
<1>14. ASSUME NEW p \in Proc, LeaseExpires(p) PROVE Marked'
  BY <1>2, <1>3, <1>14 DEF LeaseExpires
<1>15. ASSUME Recover PROVE Marked'
  <2>1. Calm
    BY <1>15, SameCalm DEF Recover, Base, RunOK, RunFields
  <2>2. QED
    BY <1>2, <1>15, <2>1 DEF Recover
<1>16. ASSUME RequestRetry \/ RequestReview \/ SettingChanges \/ HeadMoves PROVE Marked'
  BY <1>2, <1>3, <1>16 DEF RequestRetry, RequestReview, SettingChanges, HeadMoves
<1>17. ASSUME ContextsExpire PROVE Marked'
  <2>1. Calm
    BY <1>17, SameCalm DEF ContextsExpire, Base, RunOK, RunFields
  <2>2. QED
    BY <1>2, <1>17, <2>1 DEF ContextsExpire
<1>18. QED
  BY <1>5, <1>6, <1>7, <1>8, <1>9, <1>10, <1>11, <1>12, <1>13, <1>14, <1>15, <1>16, <1>17,
     CreateRunMarked, BindPolicyMarked, AskVendorsMarked, CombineMarked, DebateMarked,
     PersistMarked, RetryAddsMarked, FindingChangesMarked DEF Next

LEMMA MarkedInit ==
  ASSUME Init
  PROVE  Marked
<1>1. Len(finding) = 0 /\ run.tagged = FALSE /\ \A p \in Proc : lane[p].pc = "idle"
  BY DEF Init, IdleLane, NoRun
<1>2. QED
  BY <1>1 DEF Marked, StoredMarks, FoundMarks, Deduped

LEMMA MarkedHold == Spec => []Marked
<1>1. Init => Marked
  BY MarkedInit
<1>2. Stored /\ Findings /\ Marked /\ [Next]_vars => Marked'
  <2>1. ASSUME Stored, Findings, Marked, Next PROVE Marked'
    BY <2>1, MarkedStep DEF Stored
  <2>2. ASSUME Marked, UNCHANGED vars PROVE Marked'
    BY <2>2, SameCalm, CalmStep DEF vars
  <2>3. QED
    BY <2>1, <2>2
<1>3. QED
  BY <1>1, <1>2, StoredHolds, FindingsHold, PTL DEF Spec

LEMMA OneEligibleHolds ==
  ASSUME Findings, Marked
  PROVE  OneEligiblePerDuplicate
<1>1. PICK fs, scope, mode : fs = finding /\ scope = run.policy.scope /\ mode = run.policy.dedupe
  OBVIOUS
<1>2. fs \in Seq(Placed) /\ Deduped(fs, scope, mode)
  BY <1>1 DEF Findings, FindingOK, Marked, StoredMarks
<1>3. ASSUME NEW i \in 1..Len(fs)
      PROVE  /\ scope = "enforce" => fs[i].owner # 0
             /\ fs[i].eligible <=> fs[i].owner # 0 /\ (mode = "enforce" => IsFirst(fs, i))
             /\ fs[i].group # 0 <=> Cardinality(Twins(fs, i)) > 1
             /\ \A j \in 1..Len(fs) : fs[i].group # 0 /\ fs[j].group = fs[i].group
                                        => KeyOf(fs[j]) = KeyOf(fs[i])
  <2>1. Cardinality(Twins(fs, i)) > 1 <=> Doubled(fs, i)
    BY <1>2, TwinsMany
  <2>2. QED
    BY <1>2, <2>1 DEF Deduped
<1>4. QED
  BY <1>1, <1>3 DEF OneEligiblePerDuplicate, Indices

\* Through scope, duplicates, debate, order, decisions, posts and any number of
\* retries: a finding may be posted exactly if it is on an added line and, where
\* duplicates are enforced, the first of its claim; a number stands for one claim
\* that is made more than once.
THEOREM OneEligible == Spec => []OneEligiblePerDuplicate
<1>1. Findings /\ Marked => OneEligiblePerDuplicate
  BY OneEligibleHolds
<1>2. QED
  BY <1>1, FindingsHold, MarkedHold, PTL

LEMMA ConsensusHolds ==
  ASSUME Marked
  PROVE  ConsensusAgrees
<1>1. PICK fs : fs = finding
  OBVIOUS
<1>2. run.tagged => Agreeing(fs)
  BY <1>1 DEF Marked, StoredMarks
<1>3. PICK d : d = 2 * Proximity
  OBVIOUS
<1>4. ASSUME run.tagged, NEW i \in 1..Len(fs), NEW others,
             others = {j \in 1..Len(fs) : /\ fs[j].vendor # fs[i].vendor /\ fs[j].path = fs[i].path}
      PROVE  /\ (\E j \in others : fs[j].line = fs[i].line) => fs[i].consensus
             /\ fs[i].consensus => \E j \in others : fs[i].line - fs[j].line \in -d..d
  <2>1. /\ (\E j \in 1..Len(fs) : /\ fs[j].vendor # fs[i].vendor /\ fs[j].path = fs[i].path
                                  /\ fs[j].line = fs[i].line) => fs[i].consensus
        /\ fs[i].consensus => Seconded(fs, i, d)
    BY <1>2, <1>3, <1>4 DEF Agreeing
  <2>2. ASSUME Seconded(fs, i, d) PROVE \E j \in others : fs[i].line - fs[j].line \in -d..d
    BY <1>4, <2>2 DEF Seconded
  <2>3. QED
    BY <1>4, <2>1, <2>2
<1>5. QED
  BY <1>1, <1>3, <1>4 DEF ConsensusAgrees, Indices

\* In a run that merges, vendors that name the same line agree, whichever of them
\* answered in a retry, and whoever agrees does so with a finding that is near.
THEOREM ConsensusTold == Spec => []ConsensusAgrees
<1>1. Marked => ConsensusAgrees
  BY ConsensusHolds
<1>2. QED
  BY <1>1, MarkedHold, PTL

\* Confirms, as ConfirmedIndependent asks, for one new finding.
ConfirmedFrom(i) ==
  \E p \in Proc :
    LET others == lane[p].by \ {finding'[i].vendor} IN
    /\ lane[p].pc = "persist" /\ lane'[p] = IdleLane
    /\ finding'[i].vendor \in lane[p].by /\ others # {}
    /\ \A v \in others \cap lane[p].cfg.on : row'[v].status # "none"
ConfirmedNow ==
  \A i \in Indices(finding') \ Indices(finding) :
    finding'[i].verify \in {"confirmed", "contested"} => ConfirmedFrom(i)

LEMMA PersistConfirms ==
  ASSUME Base, Control, Findings, Marked, NEW p \in Proc, Persist(p)
  PROVE  ConfirmedNow
<1>1. /\ lane[p].pc = "persist" /\ ~AllFailed(p) /\ Newest(p) /\ Rests(p)
      /\ finding' = finding \o lane[p].found /\ row' = FinishedRows(p, lane[p].answer)
  BY DEF Persist
<1>2. lane'[p] = IdleLane
  BY <1>1, RestsIdle DEF Base
<1>3. /\ finding = <<>>
      /\ \A v \in Vendor : row[v].status = "none" <=> v \notin lane[p].cfg.on
  BY <1>1 DEF Control, WorkOK, Fresh, Reviewing, Bound, Asking
<1>4. PICK fs : fs = lane[p].found
  OBVIOUS
<1>5. fs \in Seq(Placed) /\ \A i \in 1..Len(fs) : Sided(fs[i], lane[p].by)
  BY <1>1, <1>4 DEF Findings, FoundOK, Answering, Marked, FoundMarks
<1>6. finding' = fs
  BY <1>1, <1>3, <1>4, <1>5
<1>7. lane[p].cfg.on \subseteq Vendor
  <2>1. lane[p].cfg \in Settings /\ site \in Sites
    BY <1>1 DEF Base, EnvOK, LanesOK, LaneOK
  <2>2. QED
    BY <2>1, SiteAssumption DEF Settings, SettingOK
<1>8. ASSUME NEW v \in lane[p].cfg.on PROVE row'[v].status # "none"
  <2>1. v \in Vendor /\ row[v].status # "none"
    BY <1>3, <1>7
  <2>2. QED
    BY <1>1, <2>1, NeverNone DEF FinishedRows, Finished
<1>9. ASSUME NEW i \in 1..Len(fs), fs[i].verify \in {"confirmed", "contested"}
      PROVE  ConfirmedFrom(i)
  <2>1. fs[i].vendor \in lane[p].by /\ lane[p].by \ {fs[i].vendor} # {}
    BY <1>5, <1>9 DEF Sided
  <2>2. QED
    BY <1>1, <1>2, <1>6, <1>8, <2>1 DEF ConfirmedFrom
<1>10. QED
  BY <1>6, <1>9 DEF ConfirmedNow, Indices

LEMMA ConfirmedStep ==
  ASSUME Base, Owning, Control, History, Findings, Marked, Next
  PROVE  ConfirmedNow
<1>1. ASSUME Indices(finding') \subseteq Indices(finding) PROVE ConfirmedNow
  BY <1>1 DEF ConfirmedNow
<1>2. ASSUME NEW p \in Proc, CreateRun(p) PROVE ConfirmedNow
  <2>1. UNCHANGED finding \/ finding' = <<>>
    BY <1>2 DEF CreateRun, dbVars
  <2>2. QED
    BY <1>1, <2>1 DEF Indices
<1>3. ASSUME NEW p \in Proc, RetryAdds(p) PROVE ConfirmedNow
  <2>1. \A i \in 1..Len(finding') : i > Len(finding) => finding'[i].verify = "none"
    BY <1>3, RetryAddsMarked
  <2>2. Len(finding) \in Nat
    <3>1. finding \in Seq(Placed)
      BY DEF Findings, FindingOK
    <3>2. QED
      BY <3>1
  <2>3. QED
    BY <2>1, <2>2 DEF ConfirmedNow, Indices
<1>4. ASSUME FindingChanges PROVE ConfirmedNow
  <2>1. Len(finding') = Len(finding)
    BY <1>4, FindingChangesRestate DEF Findings, FindingOK, Restated
  <2>2. QED
    BY <1>1, <2>1 DEF Indices
<1>5. ASSUME UNCHANGED finding PROVE ConfirmedNow
  BY <1>1, <1>5 DEF Indices
<1>6. ASSUME NEW p \in Proc,
             \/ Claim(p) \/ Prescreen(p) \/ Nothing(p) \/ StoreContexts(p)
             \/ BindPolicy(p) \/ AddRows(p) \/ AskVendors(p) \/ Combine(p) \/ Debate(p)
             \/ LeaseLost(p) \/ PersistAllFailed(p) \/ PersistStale(p) \/ ReviewFails(p)
             \/ RetryRefused(p) \/ RetryStart(p) \/ RetryFails(p) \/ RetryStale(p)
             \/ Timeout(p) \/ Crash(p) \/ LeaseExpires(p)
      PROVE  ConfirmedNow
  BY <1>5, <1>6 DEF Claim, Prescreen, Nothing, Closes, StoreContexts, BindPolicy, AddRows, AskVendors,
       Combine, Debate, LeaseLost, PersistAllFailed, PersistStale, ReviewFails, RunFails,
       RetryRefused, RetryStart, RetryFails, RetryStale, Timeout, Crash, LeaseExpires, dbVars
<1>7. ASSUME Recover \/ RequestRetry \/ RequestReview \/ SettingChanges \/ ContextsExpire \/ HeadMoves
      PROVE  ConfirmedNow
  BY <1>5, <1>7 DEF Recover, RequestRetry, RequestReview, SettingChanges, ContextsExpire, HeadMoves,
       dbVars
<1>8. QED
  BY <1>2, <1>3, <1>4, <1>6, <1>7, PersistConfirms DEF Next

\* Nothing is stored as confirmed or contested unless the worker, when it took the
\* job, found the author enabled and another vendor that could be asked; that other
\* vendor has a row in the run unless the second read of the repository found it off.
THEOREM ConfirmedByOthers == Spec => ConfirmedIndependent
<1>1. Stored /\ Findings /\ Marked /\ [Next]_vars => [ConfirmedNow]_vars
  <2>1. ASSUME Stored, Findings, Marked, Next PROVE ConfirmedNow
    BY <2>1, ConfirmedStep DEF Stored
  <2>2. QED
    BY <2>1
<1>2. Spec => [][ConfirmedNow]_vars
  BY <1>1, StoredHolds, FindingsHold, MarkedHold, PTL DEF Spec
<1>3. ConfirmedNow <=>
        \A i \in Indices(finding') \ Indices(finding) :
          finding'[i].verify \in {"confirmed", "contested"} =>
            \E p \in Proc :
              LET others == lane[p].by \ {finding'[i].vendor} IN
              /\ lane[p].pc = "persist" /\ lane'[p] = IdleLane
              /\ finding'[i].vendor \in lane[p].by /\ others # {}
              /\ \A v \in others \cap lane[p].cfg.on : row'[v].status # "none"
  BY Zenon DEF ConfirmedNow, ConfirmedFrom
<1>4. QED
  BY <1>2, <1>3, PTL DEF ConfirmedIndependent

LEMMA EligibleStep ==
  ASSUME Stored, Findings, Marked, Next, run.id = run'.id
  PROVE  \A i \in Indices(finding) : finding[i].eligible => finding'[i].eligible
<1>1. Base /\ Control /\ run.id \in Nat
  BY SiteAssumption DEF Stored, Base, RunOK, EnvOK
<1>2. ASSUME UNCHANGED finding PROVE \A i \in Indices(finding) : finding[i].eligible => finding'[i].eligible
  BY <1>2
<1>3. ASSUME NEW p \in Proc, CreateRun(p)
      PROVE  \A i \in Indices(finding) : finding[i].eligible => finding'[i].eligible
  <2>1. run' # [NoRun EXCEPT !.id = run.id + 1, !.status = "running", !.head = head]
    <3>1. PICK r : r = [NoRun EXCEPT !.id = run.id + 1, !.status = "running", !.head = head]
      OBVIOUS
    <3>2. r.id = run.id + 1
      BY <3>1 DEF NoRun
    <3>3. r.id # run.id
      BY <1>1, <3>2
    <3>4. run'.id = run.id
      OBVIOUS
    <3>5. run' # r
      BY <3>3, <3>4
    <3>6. QED
      BY <3>1, <3>5
  <2>2. UNCHANGED finding
    BY <1>3, <2>1 DEF CreateRun, dbVars
  <2>3. QED
    BY <1>2, <2>2
<1>4. ASSUME NEW p \in Proc, Persist(p)
      PROVE  \A i \in Indices(finding) : finding[i].eligible => finding'[i].eligible
  <2>1. Newest(p) /\ lane[p].pc = "persist"
    BY <1>4 DEF Persist
  <2>2. finding = <<>>
    BY <1>1, <2>1 DEF Control, WorkOK, Fresh, Reviewing, Bound, Asking
  <2>3. Len(finding) = 0
    BY <2>2
  <2>4. QED
    BY <2>3 DEF Indices
<1>5. ASSUME NEW p \in Proc, RetryAdds(p)
      PROVE  \A i \in Indices(finding) : finding[i].eligible => finding'[i].eligible
  BY <1>1, <1>5, RetryAddsMarked DEF Indices
<1>6. ASSUME FindingChanges
      PROVE  \A i \in Indices(finding) : finding[i].eligible => finding'[i].eligible
  BY <1>1, <1>6, FindingChangesMarked DEF Indices
<1>7. ASSUME NEW p \in Proc,
             \/ Claim(p) \/ Prescreen(p) \/ Nothing(p) \/ StoreContexts(p)
             \/ BindPolicy(p) \/ AddRows(p) \/ AskVendors(p) \/ Combine(p) \/ Debate(p)
             \/ LeaseLost(p) \/ PersistAllFailed(p) \/ PersistStale(p) \/ ReviewFails(p)
             \/ RetryRefused(p) \/ RetryStart(p) \/ RetryFails(p) \/ RetryStale(p)
             \/ Timeout(p) \/ Crash(p) \/ LeaseExpires(p)
      PROVE  UNCHANGED finding
  BY <1>7 DEF Claim, Prescreen, Nothing, Closes, StoreContexts, BindPolicy, AddRows, AskVendors,
       Combine, Debate, LeaseLost, PersistAllFailed, PersistStale, ReviewFails, RunFails,
       RetryRefused, RetryStart, RetryFails, RetryStale, Timeout, Crash, LeaseExpires, dbVars
<1>8. ASSUME Recover \/ RequestRetry \/ RequestReview \/ SettingChanges \/ ContextsExpire \/ HeadMoves
      PROVE  UNCHANGED finding
  BY <1>8 DEF Recover, RequestRetry, RequestReview, SettingChanges, ContextsExpire, HeadMoves, dbVars
<1>9. QED
  BY <1>2, <1>3, <1>4, <1>5, <1>6, <1>7, <1>8 DEF Next

\* Nothing that happens to the findings of a run takes one away that could be posted.
THEOREM EligibleKept == Spec => EligibleStays
<1>1. Stored /\ Findings /\ Marked /\ [Next]_vars =>
        [run.id = run'.id => \A i \in Indices(finding) :
           finding[i].eligible => finding'[i].eligible]_vars
  BY EligibleStep
<1>2. QED
  BY <1>1, StoredHolds, FindingsHold, MarkedHold, PTL DEF Spec, EligibleStays

---------------------------------------------------------------------------
(* The counters                                                           *)

Kinds == {"pending", "approved", "dismissed", "posted", "postable"}

Is(f, k) == IF k = "postable" THEN Postable(f) ELSE f.status = k

Of(fs, k) == {i \in 1..Len(fs) : Is(fs[i], k)}

Counters == [total : Int, max : Int, pending : Int, approved : Int, dismissed : Int,
             posted : Int, postable : Int]

\* s counts fs.
Tallies(s, fs) ==
  /\ s \in Counters /\ s.total = Len(fs) /\ s.max = Len(fs)
  /\ \A k \in Kinds : s[k] = Cardinality(Of(fs, k))

\* s is what the counters t become when f comes (n = 1) or goes (n = -1).
CountedBy(s, t, f, n) ==
  /\ s \in Counters /\ s.total = t.total + n /\ s.max = t.max
  /\ \A k \in Kinds : s[k] = IF Is(f, k) THEN t[k] + n ELSE t[k]

LEMMA CountedParts ==
  ASSUME NEW t \in Counters, NEW f, NEW n \in {-1, 1}
  PROVE  CountedBy(Counted(t, f, n), t, f, n)
<1>1. PICK a, b, c, d, e :
        /\ a = n * One(f.status = "pending") /\ b = n * One(f.status = "approved")
        /\ c = n * One(f.status = "dismissed") /\ d = n * One(f.status = "posted")
        /\ e = n * One(Postable(f))
  OBVIOUS
<1>2. PICK s : s = Counted(t, f, n)
  OBVIOUS
<1>3. s = [t EXCEPT !.total = @ + n, !.pending = @ + a, !.approved = @ + b,
                    !.dismissed = @ + c, !.posted = @ + d, !.postable = @ + e]
  BY <1>1, <1>2 DEF Counted
<1>4. /\ a = IF f.status = "pending" THEN n ELSE 0
      /\ b = IF f.status = "approved" THEN n ELSE 0
      /\ c = IF f.status = "dismissed" THEN n ELSE 0
      /\ d = IF f.status = "posted" THEN n ELSE 0
      /\ e = IF Postable(f) THEN n ELSE 0
  BY <1>1 DEF One
<1>5. a \in Int /\ b \in Int /\ c \in Int /\ d \in Int /\ e \in Int
  BY <1>4
<1>6. /\ s \in Counters /\ s.total = t.total + n /\ s.max = t.max /\ s.pending = t.pending + a
      /\ s.approved = t.approved + b /\ s.dismissed = t.dismissed + c
      /\ s.posted = t.posted + d /\ s.postable = t.postable + e
  <2>1. /\ t.total \in Int /\ t.max \in Int /\ t.pending \in Int /\ t.approved \in Int
        /\ t.dismissed \in Int /\ t.posted \in Int /\ t.postable \in Int
        /\ t = [total |-> t.total, max |-> t.max, pending |-> t.pending, approved |-> t.approved,
                dismissed |-> t.dismissed, posted |-> t.posted, postable |-> t.postable]
    BY DEF Counters
  <2>2. s = [total |-> t.total + n, max |-> t.max, pending |-> t.pending + a,
             approved |-> t.approved + b, dismissed |-> t.dismissed + c,
             posted |-> t.posted + d, postable |-> t.postable + e]
    BY <1>3, <2>1
  <2>3. QED
    BY <1>5, <2>1, <2>2 DEF Counters
<1>7. ASSUME NEW k \in Kinds PROVE t[k] \in Int
  <2>1. /\ t.pending \in Int /\ t.approved \in Int /\ t.dismissed \in Int
        /\ t.posted \in Int /\ t.postable \in Int
    BY DEF Counters
  <2>2. CASE k = "pending"
    BY <2>1, <2>2
  <2>3. CASE k = "approved"
    BY <2>1, <2>3
  <2>4. CASE k = "dismissed"
    BY <2>1, <2>4
  <2>5. CASE k = "posted"
    BY <2>1, <2>5
  <2>6. CASE k = "postable"
    BY <2>1, <2>6
  <2>7. QED
    BY <2>2, <2>3, <2>4, <2>5, <2>6 DEF Kinds
<1>8. ASSUME NEW k \in Kinds PROVE s[k] = IF Is(f, k) THEN t[k] + n ELSE t[k]
  <2>1. CASE k = "pending"
    BY <1>4, <1>6, <1>7, <2>1 DEF Is
  <2>2. CASE k = "approved"
    BY <1>4, <1>6, <1>7, <2>2 DEF Is
  <2>3. CASE k = "dismissed"
    BY <1>4, <1>6, <1>7, <2>3 DEF Is
  <2>4. CASE k = "posted"
    BY <1>4, <1>6, <1>7, <2>4 DEF Is
  <2>5. CASE k = "postable"
    BY <1>4, <1>6, <1>7, <2>5 DEF Is
  <2>6. QED
    BY <2>1, <2>2, <2>3, <2>4, <2>5 DEF Kinds
<1>9. QED
  BY <1>2, <1>6, <1>8 DEF CountedBy

\* A place more or less.
LEMMA CountAt ==
  ASSUME NEW n \in Nat, NEW S \in SUBSET (1..n), NEW i
  PROVE  /\ Cardinality(S \ {i}) \in Nat
         /\ Cardinality(S) = IF i \in S THEN Cardinality(S \ {i}) + 1 ELSE Cardinality(S \ {i})
<1>1. IsFiniteSet(S)
  BY UpTo, FS_Subset
<1>2. PICK R : R = S \ {i}
  OBVIOUS
<1>3. IsFiniteSet(R) /\ i \notin R
  BY <1>1, <1>2, FS_Subset
<1>4. Cardinality(R) \in Nat
  BY <1>3, FS_CardinalityType
<1>5. CASE i \in S
  <2>1. S = R \cup {i}
    BY <1>2, <1>5
  <2>2. Cardinality(R \cup {i}) = Cardinality(R) + 1
    BY <1>3, FS_AddElement
  <2>3. QED
    BY <1>2, <1>4, <1>5, <2>1, <2>2
<1>6. CASE i \notin S
  <2>1. S = R
    BY <1>2, <1>6
  <2>2. QED
    BY <1>2, <1>4, <1>6, <2>1
<1>7. QED
  BY <1>5, <1>6

\* One more finding.
LEMMA TallyMore ==
  ASSUME NEW fs \in Seq(Placed), NEW f \in Placed, NEW t, Tallies(t, fs),
         NEW s, s = [Counted(t, f, 1) EXCEPT !.max = @ + 1]
  PROVE  Tallies(s, Append(fs, f))
<1>1. PICK n, gs : n = Len(fs) /\ gs = Append(fs, f)
  OBVIOUS
<1>2. /\ n \in Nat /\ Len(gs) = n + 1 /\ gs[n + 1] = f
      /\ \A i \in 1..n : gs[i] = fs[i]
  BY <1>1
<1>3. PICK c : c = Counted(t, f, 1)
  OBVIOUS
<1>4. CountedBy(c, t, f, 1)
  BY <1>3, CountedParts DEF Tallies
<1>5. s = [c EXCEPT !.max = @ + 1]
  BY <1>3
<1>6. /\ s \in Counters /\ s.total = c.total /\ s.max = c.max + 1
      /\ \A k \in Kinds : s[k] = c[k]
  <2>1. c \in Counters
    BY <1>4 DEF CountedBy
  <2>2. s = [total |-> c.total, max |-> c.max + 1, pending |-> c.pending, approved |-> c.approved,
             dismissed |-> c.dismissed, posted |-> c.posted, postable |-> c.postable]
    BY <1>5, <2>1 DEF Counters
  <2>3. c.max \in Int
    BY <2>1 DEF Counters
  <2>4. s \in Counters
    BY <2>1, <2>2, <2>3 DEF Counters
  <2>5. \A k \in Kinds : s[k] = c[k]
    BY <2>2 DEF Kinds
  <2>6. QED
    BY <2>2, <2>4, <2>5
<1>7. ASSUME NEW k \in Kinds PROVE s[k] = Cardinality(Of(gs, k))
  <2>1. PICK S, T : S = Of(gs, k) /\ T = Of(fs, k)
    OBVIOUS
  <2>2. S \in SUBSET (1..(n + 1)) /\ n + 1 \in Nat
    BY <1>2, <2>1 DEF Of
  <2>3. S \ {n + 1} = T
    BY <1>1, <1>2, <2>1 DEF Of
  <2>4. n + 1 \in S <=> Is(f, k)
    BY <1>2, <2>1 DEF Of
  <2>5. Cardinality(S) = IF n + 1 \in S THEN Cardinality(T) + 1 ELSE Cardinality(T)
    BY <2>2, <2>3, CountAt
  <2>6. t[k] = Cardinality(T)
    BY <2>1 DEF Tallies
  <2>7. s[k] = IF Is(f, k) THEN t[k] + 1 ELSE t[k]
    BY <1>4, <1>6 DEF CountedBy
  <2>8. QED
    BY <2>1, <2>4, <2>5, <2>6, <2>7
<1>8. s.total = n + 1 /\ s.max = n + 1
  BY <1>1, <1>4, <1>6 DEF CountedBy, Tallies
<1>9. QED
  BY <1>1, <1>2, <1>6, <1>7, <1>8 DEF Tallies

\* Another finding in the place of one.
LEMMA TallyOther ==
  ASSUME NEW fs \in Seq(Placed), NEW gs \in Seq(Placed), Len(gs) = Len(fs),
         NEW i \in 1..Len(fs), \A j \in 1..Len(fs) : j # i => gs[j] = fs[j],
         NEW t, Tallies(t, fs)
  PROVE  Tallies(Updated(t, fs[i], gs[i]), gs)
<1>1. PICK n, f, g : n = Len(fs) /\ f = fs[i] /\ g = gs[i]
  OBVIOUS
<1>2. PICK c, s : c = Counted(t, f, -1) /\ s = Counted(c, g, 1)
  OBVIOUS
<1>3. s = Updated(t, fs[i], gs[i])
  BY <1>1, <1>2 DEF Updated
<1>4. CountedBy(c, t, f, -1)
  BY <1>2, CountedParts DEF Tallies
<1>5. CountedBy(s, c, g, 1)
  BY <1>2, <1>4, CountedParts DEF CountedBy
<1>6. ASSUME NEW k \in Kinds PROVE s[k] = Cardinality(Of(gs, k))
  <2>1. PICK S, T, R : S = Of(fs, k) /\ T = Of(gs, k) /\ R = S \ {i}
    OBVIOUS
  <2>2. S \in SUBSET (1..n) /\ T \in SUBSET (1..n) /\ n \in Nat
    BY <1>1, <2>1 DEF Of
  <2>3. T \ {i} = R
    BY <2>1 DEF Of
  <2>4. (i \in S <=> Is(f, k)) /\ (i \in T <=> Is(g, k))
    BY <1>1, <2>1 DEF Of
  <2>5. /\ Cardinality(R) \in Nat
        /\ Cardinality(S) = IF i \in S THEN Cardinality(R) + 1 ELSE Cardinality(R)
    BY <2>1, <2>2, CountAt
  <2>6. Cardinality(T) = IF i \in T THEN Cardinality(R) + 1 ELSE Cardinality(R)
    BY <2>2, <2>3, CountAt
  <2>7. t[k] = Cardinality(S)
    BY <2>1 DEF Tallies
  <2>8. c[k] = IF Is(f, k) THEN t[k] + (-1) ELSE t[k]
    BY <1>4 DEF CountedBy
  <2>9. s[k] = IF Is(g, k) THEN c[k] + 1 ELSE c[k]
    BY <1>5 DEF CountedBy
  <2>10. c[k] = Cardinality(R)
    BY <2>4, <2>5, <2>7, <2>8
  <2>11. QED
    BY <2>1, <2>4, <2>6, <2>9, <2>10
<1>7. s \in Counters /\ s.total = n /\ s.max = n
  <2>1. /\ t.total = n /\ t.max = n /\ n \in Nat
        /\ c.total = t.total + (-1) /\ c.max = t.max
        /\ s.total = c.total + 1 /\ s.max = c.max /\ s \in Counters
    BY <1>1, <1>4, <1>5 DEF CountedBy, Tallies
  <2>2. QED
    BY <2>1
<1>8. QED
  BY <1>1, <1>3, <1>6, <1>7 DEF Tallies

\* The rows come one after the other.
Inserts(g, s, fs) ==
  /\ g[0] = s
  /\ \A k \in 1..Len(fs) : g[k] = [Counted(g[k-1], fs[k], 1) EXCEPT !.max = @ + 1]
  /\ Inserted(s, fs) = g[Len(fs)]

LEMMA InsertedRun ==
  ASSUME NEW fs \in Seq(Placed), NEW s \in Counters
  PROVE  \E g \in [0..Len(fs) -> Counters] : Inserts(g, s, fs)
<1> DEFINE n == Len(fs)
           step == [x \in Counters \X (1..n) |-> [Counted(x[1], fs[x[2]], 1) EXCEPT !.max = @ + 1]]
           Fold(it) == it = [t \in SUBSET DOMAIN fs |->
                               IF t = {} THEN s
                               ELSE [Counted(it[t \ {Max(t)}], fs[Max(t)], 1) EXCEPT !.max = @ + 1]]
<1>1. /\ n \in Nat /\ s \in Counters
      /\ \A x \in Counters, i \in 1..n : [Counted(x, fs[i], 1) EXCEPT !.max = @ + 1] \in Counters
      /\ DOMAIN fs = 1..n
  <2>1. ASSUME NEW x \in Counters, NEW i \in 1..n
        PROVE  [Counted(x, fs[i], 1) EXCEPT !.max = @ + 1] \in Counters
    <3>1. PICK c : c = Counted(x, fs[i], 1)
      OBVIOUS
    <3>2. c \in Counters
      BY <3>1, CountedParts DEF CountedBy
    <3>3. [c EXCEPT !.max = @ + 1] \in Counters
      <4>1. PICK m : m = c.max + 1
        OBVIOUS
      <4>2. m \in Int
        <5>1. c.max \in Int
          BY <3>2 DEF Counters
        <5>2. QED
          BY <4>1, <5>1
      <4>3. [c EXCEPT !.max = m] \in Counters
        BY <3>2, <4>2 DEF Counters
      <4>4. QED
        BY <4>1, <4>3
    <3>4. QED
      BY <3>1, <3>3
  <2>2. QED
    BY <2>1
<1>2. step \in [Counters \X (1..n) -> Counters]
  BY <1>1
<1>3. \A x \in Counters, k \in 1..n : step[<<x, k>>] = [Counted(x, fs[k], 1) EXCEPT !.max = @ + 1]
  OBVIOUS
<1>4. DOMAIN fs = 1..n
  BY <1>1
<1> HIDE DEF n, step
<1>5. PICK it0 \in [SUBSET (1..n) -> Counters] : Folds(it0, n, s, step)
  BY <1>1, <1>2, FoldExists
<1>6. \A t \in SUBSET (1..n) :
        it0[t] = IF t = {} THEN s ELSE step[<<it0[t \ {Max(t)}], Max(t)>>]
  BY <1>5, Zenon DEF Folds
<1>7. ASSUME NEW t \in SUBSET (1..n), t # {}
      PROVE  it0[t] = [Counted(it0[t \ {Max(t)}], fs[Max(t)], 1) EXCEPT !.max = @ + 1]
  <2>1. Max(t) \in 1..n /\ t \ {Max(t)} \in SUBSET (1..n)
    BY <1>1, <1>7, FoldPlace
  <2>2. it0[t \ {Max(t)}] \in Counters
    BY <1>5, <2>1
  <2>3. it0[t] = step[<<it0[t \ {Max(t)}], Max(t)>>]
    BY <1>6, <1>7
  <2>4. QED
    BY <1>3, <2>1, <2>2, <2>3
<1>8. Fold(it0)
  BY <1>4, <1>6, <1>7, Zenon
<1>9. PICK it : it = CHOOSE f : Fold(f)
  OBVIOUS
<1>10. Fold(it)
  BY <1>8, <1>9, Zenon
<1>11. Inserted(s, fs) = it[1..n]
  BY <1>4, <1>9, Zenon DEF Inserted, FoldLeft, MapThenFoldSet
<1>12. it[{}] = s
  BY <1>10, Zenon
<1>13. ASSUME NEW t \in SUBSET (1..n), t # {}, it[t \ {Max(t)}] \in Counters
       PROVE  it[t] = step[<<it[t \ {Max(t)}], Max(t)>>]
  <2>1. Max(t) \in 1..n
    BY <1>1, <1>13, FoldPlace
  <2>2. it[t] = [Counted(it[t \ {Max(t)}], fs[Max(t)], 1) EXCEPT !.max = @ + 1]
    BY <1>4, <1>10, <1>13, Zenon
  <2>3. QED
    BY <1>3, <1>13, <2>1, <2>2
<1>14. PICK g \in [0..n -> Counters] : FoldsTo(g, n, s, step, it[1..n])
  <2>1. Follows(it, n, Counters, s, step)
    BY <1>12, <1>13, Zenon DEF Follows
  <2>2. QED
    BY <1>1, <1>2, <2>1, FoldRuns
<1>15. ASSUME NEW k \in 1..n PROVE g[k] = [Counted(g[k-1], fs[k], 1) EXCEPT !.max = @ + 1]
  <2>1. k - 1 \in 0..n
    BY <1>1
  <2>2. g[k-1] \in Counters
    BY <2>1
  <2>3. g[k] = step[<<g[k-1], k>>]
    BY <1>14 DEF FoldsTo, Iterates
  <2>4. QED
    BY <1>3, <2>2, <2>3
<1>16. Inserts(g, s, fs)
  BY <1>11, <1>14, <1>15, Zenon DEF FoldsTo, Iterates, Inserts, n
<1>17. QED
  BY <1>16, Zenon DEF n


\* The rows change one after the other.
Updates(g, s, old, new, places) ==
  /\ g[0] = s
  /\ \A k \in 1..Len(places) :
       g[k] = (IF old[places[k]] = new[places[k]] THEN g[k-1]
               ELSE Updated(g[k-1], old[places[k]], new[places[k]]))
  /\ UpdatedAll(s, old, new) = g[Len(places)]

LEMMA UpdatedRun ==
  ASSUME NEW old \in Seq(Placed), NEW new, NEW s \in Counters
  PROVE  \E g \in [0..Len([i \in Indices(old) |-> i]) -> Counters] : Updates(g, s, old, new, [i \in Indices(old) |-> i])
<1> DEFINE n == Len([i \in Indices(old) |-> i])
           step == [x \in Counters \X (1..n) |-> (IF old[[i \in Indices(old) |-> i][x[2]]] = new[[i \in Indices(old) |-> i][x[2]]] THEN x[1] ELSE Updated(x[1], old[[i \in Indices(old) |-> i][x[2]]], new[[i \in Indices(old) |-> i][x[2]]]))]
           Fold(it) == it = [t \in SUBSET DOMAIN [i \in Indices(old) |-> i] |->
                               IF t = {} THEN s
                               ELSE (IF old[[i \in Indices(old) |-> i][Max(t)]] = new[[i \in Indices(old) |-> i][Max(t)]] THEN it[t \ {Max(t)}] ELSE Updated(it[t \ {Max(t)}], old[[i \in Indices(old) |-> i][Max(t)]], new[[i \in Indices(old) |-> i][Max(t)]]))]
<1>1. /\ n \in Nat /\ s \in Counters
      /\ \A x \in Counters, m \in 1..n :
           (IF old[[i \in Indices(old) |-> i][m]] = new[[i \in Indices(old) |-> i][m]] THEN x
            ELSE Updated(x, old[[i \in Indices(old) |-> i][m]], new[[i \in Indices(old) |-> i][m]])) \in Counters
      /\ DOMAIN [i \in Indices(old) |-> i] = 1..n
  <2>1. ASSUME NEW x \in Counters, NEW f, NEW h PROVE Updated(x, f, h) \in Counters
    BY CountedParts DEF CountedBy, Updated
  <2>2. n \in Nat /\ DOMAIN [i \in Indices(old) |-> i] = 1..n
    BY DEF Indices
  <2> HIDE DEF n
  <2>3. QED
    BY <2>1, <2>2
<1>2. step \in [Counters \X (1..n) -> Counters]
  BY <1>1
<1>3. \A x \in Counters, k \in 1..n : step[<<x, k>>] = (IF old[[i \in Indices(old) |-> i][k]] = new[[i \in Indices(old) |-> i][k]] THEN x ELSE Updated(x, old[[i \in Indices(old) |-> i][k]], new[[i \in Indices(old) |-> i][k]]))
  OBVIOUS
<1>4. DOMAIN [i \in Indices(old) |-> i] = 1..n
  BY <1>1
<1> HIDE DEF n, step
<1>5. PICK it0 \in [SUBSET (1..n) -> Counters] : Folds(it0, n, s, step)
  BY <1>1, <1>2, FoldExists
<1>6. \A t \in SUBSET (1..n) :
        it0[t] = IF t = {} THEN s ELSE step[<<it0[t \ {Max(t)}], Max(t)>>]
  BY <1>5, Zenon DEF Folds
<1>7. ASSUME NEW t \in SUBSET (1..n), t # {}
      PROVE  it0[t] = (IF old[[i \in Indices(old) |-> i][Max(t)]] = new[[i \in Indices(old) |-> i][Max(t)]] THEN it0[t \ {Max(t)}] ELSE Updated(it0[t \ {Max(t)}], old[[i \in Indices(old) |-> i][Max(t)]], new[[i \in Indices(old) |-> i][Max(t)]]))
  <2>1. Max(t) \in 1..n /\ t \ {Max(t)} \in SUBSET (1..n)
    BY <1>1, <1>7, FoldPlace
  <2>2. it0[t \ {Max(t)}] \in Counters
    BY <1>5, <2>1
  <2>3. it0[t] = step[<<it0[t \ {Max(t)}], Max(t)>>]
    BY <1>6, <1>7
  <2>4. QED
    BY <1>3, <2>1, <2>2, <2>3
<1>8. Fold(it0)
  BY <1>4, <1>6, <1>7, Zenon
<1>9. PICK it : it = CHOOSE f : Fold(f)
  OBVIOUS
<1>10. Fold(it)
  <2> HIDE DEF Fold
  <2>1. QED
    BY <1>8, <1>9, Zenon
<1>11. UpdatedAll(s, old, new) = it[1..n]
  BY <1>4, <1>9, Zenon DEF UpdatedAll, FoldLeft, MapThenFoldSet
<1>12. it[{}] = s
  BY <1>10, Zenon
<1>13. ASSUME NEW t \in SUBSET (1..n), t # {}, it[t \ {Max(t)}] \in Counters
       PROVE  it[t] = step[<<it[t \ {Max(t)}], Max(t)>>]
  <2>1. Max(t) \in 1..n
    BY <1>1, <1>13, FoldPlace
  <2>2. it[t] = (IF old[[i \in Indices(old) |-> i][Max(t)]] = new[[i \in Indices(old) |-> i][Max(t)]] THEN it[t \ {Max(t)}] ELSE Updated(it[t \ {Max(t)}], old[[i \in Indices(old) |-> i][Max(t)]], new[[i \in Indices(old) |-> i][Max(t)]]))
    BY <1>4, <1>10, <1>13, Zenon
  <2>3. QED
    BY <1>3, <1>13, <2>1, <2>2
<1>14. PICK g \in [0..n -> Counters] : FoldsTo(g, n, s, step, it[1..n])
  <2>1. Follows(it, n, Counters, s, step)
    BY <1>12, <1>13, Zenon DEF Follows
  <2>2. QED
    BY <1>1, <1>2, <2>1, FoldRuns
<1>15. ASSUME NEW k \in 1..n PROVE g[k] = (IF old[[i \in Indices(old) |-> i][k]] = new[[i \in Indices(old) |-> i][k]] THEN g[k-1] ELSE Updated(g[k-1], old[[i \in Indices(old) |-> i][k]], new[[i \in Indices(old) |-> i][k]]))
  <2>1. k - 1 \in 0..n
    BY <1>1
  <2>2. g[k-1] \in Counters
    BY <2>1
  <2>3. g[k] = step[<<g[k-1], k>>]
    BY <1>14 DEF FoldsTo, Iterates
  <2>4. QED
    BY <1>3, <2>2, <2>3
<1>16. Updates(g, s, old, new, [i \in Indices(old) |-> i])
  BY <1>11, <1>14, <1>15, Zenon DEF FoldsTo, Iterates, Updates, n
<1>17. QED
  BY <1>16, Zenon DEF n

\* Rows that come behind the others.
LEMMA InsertedTallies ==
  ASSUME NEW fs \in Seq(Placed), NEW new \in Seq(Placed), NEW s, Tallies(s, fs)
  PROVE  Tallies(Inserted(s, new), fs \o new)
<1>1. PICK n : n = Len(new)
  OBVIOUS
<1>2. PICK g \in [0..n -> Counters] : Inserts(g, s, new)
  <2>1. s \in Counters
    BY DEF Tallies
  <2>2. QED
    BY <1>1, <2>1, InsertedRun
<1>3. /\ g[0] = s /\ Inserted(s, new) = g[n] /\ n \in Nat
      /\ \A k \in 1..n : g[k] = [Counted(g[k-1], new[k], 1) EXCEPT !.max = @ + 1]
  BY <1>1, <1>2 DEF Inserts
<1> DEFINE P == {k \in 0..n : Tallies(g[k], fs \o SubSeq(new, 1, k))}
<1>4. 0 \in P
  <2>1. PICK hs : hs = fs \o SubSeq(new, 1, 0)
    OBVIOUS
  <2>2. hs = fs
    BY <2>1
  <2>3. Tallies(g[0], hs)
    BY <1>3, <2>2
  <2>4. 0 \in 0..n
    BY <1>3
  <2>5. QED
    BY <2>1, <2>3, <2>4
<1>5. ASSUME NEW k \in 1..n, k - 1 \in P PROVE k \in P
  <2>1. PICK t, hs, f : t = g[k-1] /\ hs = fs \o SubSeq(new, 1, k - 1) /\ f = new[k]
    OBVIOUS
  <2>2. hs \in Seq(Placed) /\ f \in Placed
    BY <1>1, <1>3, <2>1
  <2>3. Append(hs, f) = fs \o SubSeq(new, 1, k)
    <3>1. k \in 1..Len(new)
      BY <1>1
    <3>2. SubSeq(new, 1, k) = Append(SubSeq(new, 1, k - 1), new[k])
      BY <3>1
    <3>3. SubSeq(new, 1, k - 1) \in Seq(Placed) /\ new[k] \in Placed
      BY <3>1
    <3>4. ASSUME NEW ss \in Seq(Placed), NEW x \in Placed
          PROVE  Append(fs \o ss, x) = fs \o Append(ss, x)
      OBVIOUS
    <3>5. Append(fs \o SubSeq(new, 1, k - 1), new[k]) = fs \o Append(SubSeq(new, 1, k - 1), new[k])
      BY <3>3, <3>4
    <3>6. QED
      BY <2>1, <3>2, <3>5
  <2>4. Tallies(t, hs)
    BY <1>5, <2>1
  <2>5. g[k] = [Counted(t, f, 1) EXCEPT !.max = @ + 1]
    BY <1>3, <2>1
  <2>6. Tallies(g[k], Append(hs, f))
    BY <2>2, <2>4, <2>5, TallyMore
  <2>7. QED
    BY <1>3, <2>3, <2>6
<1> HIDE DEF P
<1>6. \A k \in 0..n : k \in P
  BY <1>3, <1>4, <1>5, Climb
<1>7. Tallies(g[n], fs \o SubSeq(new, 1, n))
  BY <1>3, <1>6 DEF P
<1>8. SubSeq(new, 1, n) = new
  BY <1>1
<1>9. QED
  BY <1>3, <1>7, <1>8

\* Rows that change where they are.
LEMMA UpdatedTallies ==
  ASSUME NEW old \in Seq(Placed), NEW new \in Seq(Placed), Len(new) = Len(old),
         NEW s, Tallies(s, old)
  PROVE  Tallies(UpdatedAll(s, old, new), new)
<1>1. PICK n, places : n = Len(old) /\ places = [i \in Indices(old) |-> i]
  OBVIOUS
<1>2. n \in Nat /\ Len(places) = n /\ \A k \in 1..n : places[k] = k
  BY <1>1 DEF Indices
<1>3. PICK g \in [0..n -> Counters] : Updates(g, s, old, new, places)
  <2>1. s \in Counters
    BY DEF Tallies
  <2>2. \E g \in [0..Len([i \in Indices(old) |-> i]) -> Counters] :
          Updates(g, s, old, new, [i \in Indices(old) |-> i])
    BY <2>1, UpdatedRun
  <2>3. QED
    BY <1>1, <1>2, <2>2
<1>4. /\ g[0] = s /\ UpdatedAll(s, old, new) = g[n]
      /\ \A k \in 1..n : g[k] = (IF old[k] = new[k] THEN g[k-1] ELSE Updated(g[k-1], old[k], new[k]))
  BY <1>2, <1>3 DEF Updates
<1> DEFINE mix(k) == [j \in 1..n |-> IF j <= k THEN new[j] ELSE old[j]]
           P == {k \in 0..n : Tallies(g[k], mix(k))}
<1>5. ASSUME NEW k \in 0..n PROVE mix(k) \in Seq(Placed) /\ Len(mix(k)) = n
  <2>1. \A j \in 1..n : new[j] \in Placed /\ old[j] \in Placed
    BY <1>1
  <2>2. QED
    BY <1>2, <2>1
<1>6. mix(0) = old /\ mix(n) = new
  <2>1. mix(0) = old
    BY <1>1, <1>2
  <2>2. mix(n) = new
    BY <1>1, <1>2
  <2>3. QED
    BY <2>1, <2>2
<1>7. 0 \in P
  <2>1. Tallies(g[0], mix(0)) /\ 0 \in 0..n
    <3> HIDE DEF mix
    <3>1. QED
      BY <1>2, <1>4, <1>6
  <2>2. QED
    BY <2>1
<1>8. ASSUME NEW k \in 1..n, k - 1 \in P PROVE k \in P
  <2>1. k - 1 \in 0..n /\ k \in 0..n
    BY <1>2
  <2>2. PICK a, b : a = mix(k - 1) /\ b = mix(k)
    OBVIOUS
  <2>3. /\ a \in Seq(Placed) /\ b \in Seq(Placed) /\ Len(a) = n /\ Len(b) = n
    BY <1>5, <2>1, <2>2
  <2>4. a[k] = old[k] /\ b[k] = new[k] /\ \A j \in 1..n : j # k => b[j] = a[j]
    BY <2>1, <2>2
  <2>5. Tallies(g[k-1], a)
    BY <1>8, <2>2
  <2> HIDE DEF mix
  <2>6. CASE old[k] = new[k]
    <3>1. \A j \in 1..n : b[j] = a[j]
      BY <2>4, <2>6
    <3>2. a = b
      BY <2>3, <3>1
    <3>3. g[k] = g[k-1]
      BY <1>4, <2>6
    <3>4. QED
      BY <2>1, <2>2, <2>5, <3>2, <3>3
  <2>7. CASE old[k] # new[k]
    <3>1. g[k] = Updated(g[k-1], a[k], b[k])
      BY <1>4, <2>4, <2>7
    <3>2. Tallies(Updated(g[k-1], a[k], b[k]), b)
      BY <2>3, <2>4, <2>5, TallyOther
    <3>3. QED
      BY <2>1, <2>2, <3>1, <3>2
  <2>8. QED
    BY <2>6, <2>7
<1>9. n \in P
  <2> HIDE DEF P
  <2>1. \A k \in 0..n : k \in P
    BY <1>2, <1>7, <1>8, Climb
  <2>2. QED
    BY <1>2, <2>1
<1>10. QED
  BY <1>4, <1>6, <1>9

LEMMA TallyNothing == Tallies(NoSummary, <<>>)
<1>1. ASSUME NEW k \in Kinds PROVE NoSummary[k] = Cardinality(Of(<<>>, k))
  <2>1. Of(<<>>, k) = {}
    BY DEF Of
  <2>2. NoSummary[k] = 0
    BY DEF NoSummary, Kinds
  <2>3. QED
    BY <2>1, <2>2, FS_EmptySet
<1>2. NoSummary \in Counters /\ NoSummary.total = 0 /\ NoSummary.max = 0
  BY DEF NoSummary, Counters
<1>3. QED
  BY <1>1, <1>2 DEF Tallies

LEMMA PersistTallies ==
  ASSUME Findings, Tallies(summary, finding), NEW p \in Proc, Persist(p)
  PROVE  Tallies(summary, finding)'
<1>1. finding \in Seq(Placed) /\ lane[p].found \in Seq(Placed)
  BY DEF Findings, FindingOK, FoundOK, Persist, Answering
<1>2. PICK fs, new, s : fs = finding /\ new = lane[p].found /\ s = summary
  OBVIOUS
<1>3. Tallies(Inserted(s, new), fs \o new)
  <2>1. fs \in Seq(Placed) /\ new \in Seq(Placed) /\ Tallies(s, fs)
    BY <1>1, <1>2
  <2>2. QED
    BY <2>1, InsertedTallies
<1>4. finding' = fs \o new /\ summary' = Inserted(s, new)
  BY <1>2 DEF Persist
<1>5. QED
  BY <1>3, <1>4

LEMMA InTwo ==
  ASSUME NEW out \in Seq(Placed), NEW n \in 0..Len(out)
  PROVE  SubSeq(out, 1, n) \o SubSeq(out, n + 1, Len(out)) = out
<1>1. 1 \in 1..Len(out)+1 /\ n \in 1-1..Len(out) /\ Len(out) \in n..Len(out)
  OBVIOUS
<1>2. SubSeq(out, 1, n) \o SubSeq(out, n + 1, Len(out)) = SubSeq(out, 1, Len(out))
  BY <1>1, ConcatAdjacentSubSeq
<1>3. SubSeq(out, 1, Len(out)) = out
  OBVIOUS
<1>4. QED
  BY <1>2, <1>3

LEMMA RetryAddsTallies ==
  ASSUME Base, Owning, Control, History, Findings, Tallies(summary, finding),
         NEW p \in Proc, RetryAdds(p)
  PROVE  Tallies(summary, finding)'
<1>1. lane[p].found \in Seq(Placed) /\ finding \in Seq(Placed)
  BY DEF Findings, FindingOK, FoundOK, RetryAdds, MayWrite, Answering
<1>2. PICK scoped : /\ scoped = ApplyScope(lane[p].found, ChunkOwner, run.policy.scope)
                    /\ finding' = Again(p, scoped)
  BY DEF RetryAdds, Again
<1>3. scoped \in Seq(Placed)
  BY <1>1, <1>2, DrawnScope DEF Drawn
<1>4. PICK out, old, mode, merge, s, n :
        /\ out = finding' /\ old = finding /\ mode = run.policy.dedupe /\ merge = lane[p].cfg.merge
        /\ s = summary /\ n = Len(finding)
  OBVIOUS
<1>5. old \in Seq(Placed) /\ Tallies(s, old) /\ n = Len(old) /\ n \in Nat
  BY <1>1, <1>4
<1>6. out \in Seq(Placed) /\ Len(out) = Len(old) + Len(scoped)
  <2>1. Joins(out, old, scoped, mode, merge)
    BY <1>2, <1>4 DEF Again, Joins
  <2>2. QED
    BY <1>3, <1>5, <2>1, AgainPlaced
<1>7. PICK a, b : a = SubSeq(out, 1, n) /\ b = SubSeq(out, n + 1, Len(out))
  OBVIOUS
<1>8. a \in Seq(Placed) /\ b \in Seq(Placed) /\ Len(a) = n
  <2>1. Len(scoped) \in Nat /\ n <= Len(out) /\ Len(out) \in Nat
    BY <1>3, <1>5, <1>6
  <2>2. QED
    BY <1>5, <1>6, <1>7, <2>1
<1>9. a \o b = out
  <2>1. n \in 0..Len(out)
    BY <1>3, <1>5, <1>6
  <2>2. QED
    BY <1>6, <1>7, <2>1, InTwo
<1>10. summary' = Inserted(UpdatedAll(s, old, a), b)
  BY <1>4, <1>7 DEF RetryAdds
<1>11. Tallies(UpdatedAll(s, old, a), a)
  BY <1>5, <1>8, UpdatedTallies
<1>12. Tallies(Inserted(UpdatedAll(s, old, a), b), a \o b)
  BY <1>8, <1>11, InsertedTallies
<1>13. QED
  BY <1>4, <1>9, <1>10, <1>12

LEMMA FindingChangesTallies ==
  ASSUME Findings, Tallies(summary, finding), FindingChanges
  PROVE  Tallies(summary, finding)'
<1>1. Restated
  BY FindingChangesRestate DEF Findings, FindingOK
<1>2. PICK old, new, s : old = finding /\ new = finding' /\ s = summary
  OBVIOUS
<1>3. /\ old \in Seq(Placed) /\ new \in Seq(Placed) /\ Len(new) = Len(old) /\ Tallies(s, old)
  BY <1>1, <1>2 DEF Restated, Findings, FindingOK
<1>4. CASE Post
  <2>1. summary' = UpdatedAll(s, old, new)
    BY <1>2, <1>4 DEF Post
  <2>2. Tallies(UpdatedAll(s, old, new), new)
    BY <1>3, UpdatedTallies
  <2>3. QED
    BY <1>2, <2>1, <2>2
<1>5. ASSUME NEW i \in Indices(finding), DecideFinding(i) PROVE Tallies(summary, finding)'
  <2>1. PICK st, f : /\ f = [finding[i] EXCEPT !.status = st]
                     /\ finding' = [finding EXCEPT ![i] = f]
                     /\ summary' = Updated(summary, finding[i], f)
    BY <1>5 DEF DecideFinding
  <2>2. /\ i \in 1..Len(old) /\ new = [old EXCEPT ![i] = f]
        /\ summary' = Updated(s, old[i], f)
    BY <1>2, <2>1 DEF Indices
  <2>3. new[i] = f /\ \A j \in 1..Len(old) : j # i => new[j] = old[j]
    BY <1>3, <2>2
  <2>4. Tallies(Updated(s, old[i], new[i]), new)
    BY <1>3, <2>2, <2>3, TallyOther
  <2>5. QED
    BY <1>2, <2>2, <2>3, <2>4
<1>6. QED
  BY <1>4, <1>5 DEF FindingChanges

LEMMA TallyStep ==
  ASSUME Base, Owning, Control, History, Findings, Tallies(summary, finding), Next
  PROVE  Tallies(summary, finding)'
<1>1. ASSUME UNCHANGED <<finding, summary>> PROVE Tallies(summary, finding)'
  BY <1>1
<1>2. ASSUME NEW p \in Proc, CreateRun(p) PROVE Tallies(summary, finding)'
  <2>1. CASE finding' = <<>> /\ summary' = NoSummary
    BY <2>1, TallyNothing
  <2>2. CASE UNCHANGED dbVars
    BY <1>1, <2>2 DEF dbVars
  <2>3. QED
    BY <1>2, <2>1, <2>2 DEF CreateRun
<1>3. ASSUME NEW p \in Proc,
             \/ Claim(p) \/ Prescreen(p) \/ Nothing(p) \/ StoreContexts(p)
             \/ BindPolicy(p) \/ AddRows(p) \/ AskVendors(p) \/ Combine(p) \/ Debate(p)
             \/ LeaseLost(p) \/ PersistAllFailed(p) \/ PersistStale(p) \/ ReviewFails(p)
             \/ RetryRefused(p) \/ RetryStart(p) \/ RetryFails(p) \/ RetryStale(p)
             \/ Timeout(p) \/ Crash(p) \/ LeaseExpires(p)
      PROVE  UNCHANGED <<finding, summary>>
  BY <1>3 DEF Claim, Prescreen, Nothing, Closes, StoreContexts, BindPolicy, AddRows, AskVendors,
       Combine, Debate, LeaseLost, PersistAllFailed, PersistStale, ReviewFails, RunFails,
       RetryRefused, RetryStart, RetryFails, RetryStale, Timeout, Crash, LeaseExpires, dbVars
<1>4. ASSUME Recover \/ RequestRetry \/ RequestReview \/ SettingChanges \/ ContextsExpire \/ HeadMoves
      PROVE  UNCHANGED <<finding, summary>>
  BY <1>4 DEF Recover, RequestRetry, RequestReview, SettingChanges, ContextsExpire, HeadMoves, dbVars
<1>5. QED
  BY <1>1, <1>2, <1>3, <1>4, PersistTallies, RetryAddsTallies, FindingChangesTallies DEF Next

LEMMA TallyMatches ==
  ASSUME Tallies(summary, finding)
  PROVE  SummaryMatches
<1>1. PICK s, fs : s = summary /\ fs = finding
  OBVIOUS
<1>2. s = [total |-> s.total, max |-> s.max, pending |-> s.pending, approved |-> s.approved,
           dismissed |-> s.dismissed, posted |-> s.posted, postable |-> s.postable]
  BY <1>1 DEF Tallies, Counters
<1>3. s.total = Len(fs) /\ s.max = Len(fs)
  BY <1>1 DEF Tallies
<1>4. /\ s.pending = Cardinality(Of(fs, "pending")) /\ s.approved = Cardinality(Of(fs, "approved"))
      /\ s.dismissed = Cardinality(Of(fs, "dismissed")) /\ s.posted = Cardinality(Of(fs, "posted"))
      /\ s.postable = Cardinality(Of(fs, "postable"))
  BY <1>1 DEF Tallies, Kinds
<1>5. /\ Of(fs, "pending") = {i \in Indices(fs) : fs[i].status = "pending"}
      /\ Of(fs, "approved") = {i \in Indices(fs) : fs[i].status = "approved"}
      /\ Of(fs, "dismissed") = {i \in Indices(fs) : fs[i].status = "dismissed"}
      /\ Of(fs, "posted") = {i \in Indices(fs) : fs[i].status = "posted"}
      /\ Of(fs, "postable") = {i \in Indices(fs) : Postable(fs[i])}
  BY DEF Of, Is, Indices
<1>6. s = [total |-> Len(fs), max |-> Len(fs),
           pending |-> Cardinality({i \in Indices(fs) : fs[i].status = "pending"}),
           approved |-> Cardinality({i \in Indices(fs) : fs[i].status = "approved"}),
           dismissed |-> Cardinality({i \in Indices(fs) : fs[i].status = "dismissed"}),
           posted |-> Cardinality({i \in Indices(fs) : fs[i].status = "posted"}),
           postable |-> Cardinality({i \in Indices(fs) : Postable(fs[i])})]
  BY <1>2, <1>3, <1>4, <1>5
<1>7. QED
  BY <1>1, <1>6, Zenon DEF SummaryMatches

\* The counters that the triggers keep are those of the findings, whatever sequence
\* of inserts, tags of a retry, decisions and posts led there.
THEOREM SummaryTold == Spec => []SummaryMatches
<1>1. Init => Tallies(summary, finding)
  BY TallyNothing DEF Init
<1>2. Stored /\ Findings /\ Tallies(summary, finding) /\ [Next]_vars => Tallies(summary, finding)'
  <2>1. ASSUME Stored, Findings, Tallies(summary, finding), Next PROVE Tallies(summary, finding)'
    BY <2>1, TallyStep DEF Stored
  <2>2. ASSUME Tallies(summary, finding), UNCHANGED vars PROVE Tallies(summary, finding)'
    BY <2>2 DEF vars, dbVars
  <2>3. QED
    BY <2>1, <2>2
<1>3. Tallies(summary, finding) => SummaryMatches
  BY TallyMatches
<1>4. QED
  BY <1>1, <1>2, <1>3, StoredHolds, FindingsHold, PTL DEF Spec

---------------------------------------------------------------------------
(* The context of a prompt                                                *)

LEMMA Insertion ==
  ASSUME NEW s \in Seq(ContextBlock), NEW b \in ContextBlock, NEW i \in 1..(Len(s) + 1)
  PROVE  InsertAt(s, i, b) \in Seq(ContextBlock)
<1>1. SubSeq(s, 1, i - 1) \in Seq(ContextBlock)
  OBVIOUS
<1>2. SubSeq(s, i, Len(s)) \in Seq(ContextBlock)
  OBVIOUS
<1>3. <<b>> \in Seq(ContextBlock)
  OBVIOUS
<1>4. SubSeq(s, 1, i - 1) \o <<b>> \o SubSeq(s, i, Len(s)) \in Seq(ContextBlock)
  BY <1>1, <1>2, <1>3
<1>5. QED
  BY <1>4 DEF InsertAt

\* Where a block is inserted.
Behind(s, b, files) == 1 + Cardinality({i \in 1..Len(s) : ~Before(b, s[i], files)})

LEMMA InsertedTyped ==
  ASSUME NEW s \in Seq(ContextBlock), NEW b \in ContextBlock, NEW files
  PROVE  InsertAt(s, Behind(s, b, files), b) \in Seq(ContextBlock)
<1>1. PICK T : T = {i \in 1..Len(s) : ~Before(b, s[i], files)}
  OBVIOUS
<1>2. Len(s) \in Nat /\ T \subseteq 1..Len(s)
  BY <1>1
<1>3. IsFiniteSet(1..Len(s)) /\ Cardinality(1..Len(s)) = Len(s)
  <2>1. PICK n \in Nat : n = Len(s)
    BY <1>2
  <2>2. IsFiniteSet(1..n) /\ Cardinality(1..n) = IF 1 <= n THEN n - 1 + 1 ELSE 0
    BY FS_Interval
  <2>3. Cardinality(1..n) = n
    BY <2>2
  <2>4. QED
    BY <2>1, <2>2, <2>3
<1>4. Cardinality(T) \in Nat /\ Cardinality(T) <= Len(s)
  <2>1. IsFiniteSet(T) /\ Cardinality(T) <= Cardinality(1..Len(s))
    BY <1>2, <1>3, FS_Subset
  <2>2. QED
    BY <1>3, <2>1, FS_CardinalityType
<1>5. 1 + Cardinality(T) \in 1..(Len(s) + 1)
  BY <1>2, <1>4
<1>6. Behind(s, b, files) = 1 + Cardinality(T)
  BY <1>1 DEF Behind
<1>7. QED
  BY <1>5, <1>6, Insertion

\* The blocks are inserted one after the other.
Inserting(g, blocks, files) ==
  /\ \A k \in 1..Len(blocks) : g[k] = InsertAt(g[k-1], Behind(g[k-1], blocks[k], files), blocks[k])
  /\ Ordered(blocks, files) = g[Len(blocks)]

LEMMA OrderedRun ==
  ASSUME NEW blocks \in Seq(ContextBlock), NEW files
  PROVE  \E g \in [0..Len(blocks) -> Seq(ContextBlock)] : Inserting(g, blocks, files)
<1> DEFINE n == Len(blocks)
           step == [x \in Seq(ContextBlock) \X (1..n) |-> InsertAt(x[1], Behind(x[1], blocks[x[2]], files), blocks[x[2]])]
           Fold(it) == it = [t \in SUBSET DOMAIN blocks |->
                               IF t = {} THEN <<>>
                               ELSE InsertAt(it[t \ {Max(t)}], Behind(it[t \ {Max(t)}], blocks[Max(t)], files), blocks[Max(t)])]
<1>1. /\ n \in Nat /\ <<>> \in Seq(ContextBlock)
      /\ \A x \in Seq(ContextBlock), i \in 1..n :
           InsertAt(x, Behind(x, blocks[i], files), blocks[i]) \in Seq(ContextBlock)
      /\ DOMAIN blocks = 1..n
  BY InsertedTyped
<1>2. step \in [Seq(ContextBlock) \X (1..n) -> Seq(ContextBlock)]
  BY <1>1
<1>3. \A x \in Seq(ContextBlock), k \in 1..n : step[<<x, k>>] = InsertAt(x, Behind(x, blocks[k], files), blocks[k])
  OBVIOUS
<1>4. DOMAIN blocks = 1..n
  BY <1>1
<1> HIDE DEF n, step
<1>5. PICK it0 \in [SUBSET (1..n) -> Seq(ContextBlock)] : Folds(it0, n, <<>>, step)
  BY <1>1, <1>2, FoldExists
<1>6. \A t \in SUBSET (1..n) :
        it0[t] = IF t = {} THEN <<>> ELSE step[<<it0[t \ {Max(t)}], Max(t)>>]
  BY <1>5, Zenon DEF Folds
<1>7. ASSUME NEW t \in SUBSET (1..n), t # {}
      PROVE  it0[t] = InsertAt(it0[t \ {Max(t)}], Behind(it0[t \ {Max(t)}], blocks[Max(t)], files), blocks[Max(t)])
  <2>1. Max(t) \in 1..n /\ t \ {Max(t)} \in SUBSET (1..n)
    BY <1>1, <1>7, FoldPlace
  <2>2. it0[t \ {Max(t)}] \in Seq(ContextBlock)
    BY <1>5, <2>1
  <2>3. it0[t] = step[<<it0[t \ {Max(t)}], Max(t)>>]
    BY <1>6, <1>7
  <2>4. QED
    BY <1>3, <2>1, <2>2, <2>3
<1>8. Fold(it0)
  BY <1>4, <1>6, <1>7, Zenon
<1>9. PICK it : it = CHOOSE f : Fold(f)
  OBVIOUS
<1>10. Fold(it)
  BY <1>8, <1>9, Zenon
<1>11. Ordered(blocks, files) = it[1..n]
  BY <1>4, <1>9, Zenon DEF Ordered, Behind, FoldLeft, MapThenFoldSet
<1>12. it[{}] = <<>>
  BY <1>10, Zenon
<1>13. ASSUME NEW t \in SUBSET (1..n), t # {}, it[t \ {Max(t)}] \in Seq(ContextBlock)
       PROVE  it[t] = step[<<it[t \ {Max(t)}], Max(t)>>]
  <2>1. Max(t) \in 1..n
    BY <1>1, <1>13, FoldPlace
  <2>2. it[t] = InsertAt(it[t \ {Max(t)}], Behind(it[t \ {Max(t)}], blocks[Max(t)], files), blocks[Max(t)])
    BY <1>4, <1>10, <1>13, Zenon
  <2>3. QED
    BY <1>3, <1>13, <2>1, <2>2
<1>14. PICK g \in [0..n -> Seq(ContextBlock)] : FoldsTo(g, n, <<>>, step, it[1..n])
  <2>1. Follows(it, n, Seq(ContextBlock), <<>>, step)
    BY <1>12, <1>13, Zenon DEF Follows
  <2>2. QED
    BY <1>1, <1>2, <2>1, FoldRuns
<1>15. ASSUME NEW k \in 1..n PROVE g[k] = InsertAt(g[k-1], Behind(g[k-1], blocks[k], files), blocks[k])
  <2>1. k - 1 \in 0..n
    BY <1>1
  <2>2. g[k-1] \in Seq(ContextBlock)
    BY <2>1
  <2>3. g[k] = step[<<g[k-1], k>>]
    BY <1>14 DEF FoldsTo, Iterates
  <2>4. QED
    BY <1>3, <2>2, <2>3
<1>16. Inserting(g, blocks, files)
  BY <1>11, <1>14, <1>15, Zenon DEF FoldsTo, Iterates, Inserting, n
<1>17. QED
  BY <1>16, Zenon DEF n


LEMMA OrderedTyped ==
  ASSUME NEW blocks \in Seq(ContextBlock), NEW files
  PROVE  Ordered(blocks, files) \in Seq(ContextBlock)
<1>1. PICK g \in [0..Len(blocks) -> Seq(ContextBlock)] : Inserting(g, blocks, files)
  BY OrderedRun
<1>2. Len(blocks) \in 0..Len(blocks)
  OBVIOUS
<1>3. QED
  BY <1>1, <1>2 DEF Inserting


\* The sizes are added one after the other.
SumsUp(g, blocks) ==
  /\ g[0] = 0
  /\ \A k \in 1..Len(blocks) : g[k] = g[k-1] + blocks[k].size
  /\ Size(blocks) = g[Len(blocks)]

LEMMA SizeRun ==
  ASSUME NEW blocks \in Seq(ContextBlock)
  PROVE  \E g \in [0..Len(blocks) -> Nat] : SumsUp(g, blocks)
<1> DEFINE n == Len(blocks)
           step == [x \in Nat \X (1..n) |-> x[1] + blocks[x[2]].size]
           Fold(it) == it = [t \in SUBSET DOMAIN blocks |->
                               IF t = {} THEN 0
                               ELSE it[t \ {Max(t)}] + blocks[Max(t)].size]
<1>1. /\ n \in Nat /\ 0 \in Nat
      /\ \A x \in Nat, i \in 1..n : x + blocks[i].size \in Nat
      /\ DOMAIN blocks = 1..n
  <2>1. \A i \in 1..n : blocks[i] \in ContextBlock
    OBVIOUS
  <2>2. \A b \in ContextBlock : b.size \in Nat
    BY DEF ContextBlock
  <2>3. QED
    BY <2>1, <2>2
<1>2. step \in [Nat \X (1..n) -> Nat]
  BY <1>1
<1>3. \A x \in Nat, k \in 1..n : step[<<x, k>>] = x + blocks[k].size
  OBVIOUS
<1>4. DOMAIN blocks = 1..n
  BY <1>1
<1> HIDE DEF n, step
<1>5. PICK it0 \in [SUBSET (1..n) -> Nat] : Folds(it0, n, 0, step)
  BY <1>1, <1>2, FoldExists
<1>6. \A t \in SUBSET (1..n) :
        it0[t] = IF t = {} THEN 0 ELSE step[<<it0[t \ {Max(t)}], Max(t)>>]
  BY <1>5, Zenon DEF Folds
<1>7. ASSUME NEW t \in SUBSET (1..n), t # {}
      PROVE  it0[t] = it0[t \ {Max(t)}] + blocks[Max(t)].size
  <2>1. Max(t) \in 1..n /\ t \ {Max(t)} \in SUBSET (1..n)
    BY <1>1, <1>7, FoldPlace
  <2>2. it0[t \ {Max(t)}] \in Nat
    BY <1>5, <2>1
  <2>3. it0[t] = step[<<it0[t \ {Max(t)}], Max(t)>>]
    BY <1>6, <1>7
  <2>4. QED
    BY <1>3, <2>1, <2>2, <2>3
<1>8. Fold(it0)
  BY <1>4, <1>6, <1>7, Zenon
<1>9. PICK it : it = CHOOSE f : Fold(f)
  OBVIOUS
<1>10. Fold(it)
  BY <1>8, <1>9, Zenon
<1>11. Size(blocks) = it[1..n]
  BY <1>4, <1>9, Zenon DEF Size, FoldLeft, MapThenFoldSet
<1>12. it[{}] = 0
  BY <1>10, Zenon
<1>13. ASSUME NEW t \in SUBSET (1..n), t # {}, it[t \ {Max(t)}] \in Nat
       PROVE  it[t] = step[<<it[t \ {Max(t)}], Max(t)>>]
  <2>1. Max(t) \in 1..n
    BY <1>1, <1>13, FoldPlace
  <2>2. it[t] = it[t \ {Max(t)}] + blocks[Max(t)].size
    BY <1>4, <1>10, <1>13, Zenon
  <2>3. QED
    BY <1>3, <1>13, <2>1, <2>2
<1>14. PICK g \in [0..n -> Nat] : FoldsTo(g, n, 0, step, it[1..n])
  <2>1. Follows(it, n, Nat, 0, step)
    BY <1>12, <1>13, Zenon DEF Follows
  <2>2. QED
    BY <1>1, <1>2, <2>1, FoldRuns
<1>15. ASSUME NEW k \in 1..n PROVE g[k] = g[k-1] + blocks[k].size
  <2>1. k - 1 \in 0..n
    BY <1>1
  <2>2. g[k-1] \in Nat
    BY <2>1
  <2>3. g[k] = step[<<g[k-1], k>>]
    BY <1>14 DEF FoldsTo, Iterates
  <2>4. QED
    BY <1>3, <2>2, <2>3
<1>16. SumsUp(g, blocks)
  BY <1>11, <1>14, <1>15, Zenon DEF FoldsTo, Iterates, SumsUp, n
<1>17. QED
  BY <1>16, Zenon DEF n


LEMMA SizeMore ==
  /\ Size(<<>>) = 0
  /\ \A s \in Seq(ContextBlock), b \in ContextBlock :
       Size(s) \in Nat /\ Size(Append(s, b)) = Size(s) + b.size
<1>1. Size(<<>>) = 0
  <2>1. PICK g \in [0..Len(<<>>) -> Nat] : SumsUp(g, <<>>)
    <3>1. <<>> \in Seq(ContextBlock)
      OBVIOUS
    <3>2. QED
      BY <3>1, SizeRun
  <2>2. QED
    BY <2>1 DEF SumsUp
<1>2. ASSUME NEW s \in Seq(ContextBlock), NEW b \in ContextBlock
      PROVE  Size(s) \in Nat /\ Size(Append(s, b)) = Size(s) + b.size
  <2>1. PICK n, l : n = Len(s) /\ l = Append(s, b)
    OBVIOUS
  <2>2. n \in Nat /\ l \in Seq(ContextBlock) /\ Len(l) = n + 1 /\ l[n + 1] = b
        /\ \A k \in 1..n : l[k] = s[k]
    BY <2>1
  <2>3. PICK g \in [0..n -> Nat] : SumsUp(g, s)
    BY <2>1, SizeRun
  <2>4. PICK h \in [0..Len(l) -> Nat] : SumsUp(h, l)
    BY <2>2, SizeRun
  <2>5. /\ g[0] = 0 /\ h[0] = 0 /\ Size(s) = g[n] /\ Size(l) = h[n + 1]
        /\ \A k \in 1..n : g[k] = g[k-1] + s[k].size
        /\ \A k \in 1..(n + 1) : h[k] = h[k-1] + l[k].size
    BY <2>1, <2>2, <2>3, <2>4 DEF SumsUp
  <2> DEFINE P == {k \in 0..n : g[k] = h[k]}
  <2>6. 0 \in P
    BY <2>2, <2>5
  <2>7. ASSUME NEW k \in 1..n, k - 1 \in P PROVE k \in P
    <3>1. g[k-1] = h[k-1] /\ k \in 0..n /\ k \in 1..(n + 1)
      BY <2>2, <2>7
    <3>2. g[k] = g[k-1] + s[k].size /\ h[k] = h[k-1] + l[k].size /\ l[k] = s[k]
      BY <2>2, <2>5, <3>1
    <3>3. QED
      BY <3>1, <3>2
  <2>8. \A k \in 0..n : k \in P
    <3> HIDE DEF P
    <3>1. QED
      BY <2>2, <2>6, <2>7, Climb
  <2>9. g[n] = h[n] /\ g[n] \in Nat
    BY <2>2, <2>3, <2>8
  <2>10. h[n + 1] = h[n] + b.size
    <3>1. n + 1 \in 1..(n + 1) /\ (n + 1) - 1 = n
      BY <2>2
    <3>2. QED
      BY <2>2, <2>5, <3>1
  <2>11. QED
    BY <2>1, <2>5, <2>9, <2>10
<1>3. QED
  BY <1>1, <1>2

\* What fits into a budget.
Within(budget) == {s \in Seq(ContextBlock) : Size(s) <= budget}

LEMMA ChosenWithin ==
  ASSUME NEW budget \in Nat, NEW chosen \in Within(budget), NEW b \in ContextBlock
  PROVE  (IF Fits(chosen, b, budget) THEN Append(chosen, b) ELSE chosen) \in Within(budget)
<1>1. CASE Fits(chosen, b, budget)
  <2>1. chosen \in Seq(ContextBlock) /\ Size(chosen) + b.size <= budget
    BY <1>1 DEF Fits, Within
  <2>2. Append(chosen, b) \in Seq(ContextBlock) /\ Size(Append(chosen, b)) <= budget
    BY <2>1, SizeMore
  <2>3. Append(chosen, b) \in Within(budget)
    BY <2>2 DEF Within
  <2>4. QED
    BY <1>1, <2>3
<1>2. CASE ~Fits(chosen, b, budget)
  BY <1>2
<1>3. QED
  BY <1>1, <1>2


\* The blocks that fit are taken one after the other.
Selects(g, blocks, files, budget) ==
  /\ g[0] = <<>>
  /\ Selected(blocks, files, budget) = g[Len(Ordered(blocks, files))]

LEMMA SelectedRun ==
  ASSUME NEW blocks \in Seq(ContextBlock), NEW files, NEW budget \in Nat
  PROVE  \E g \in [0..Len(Ordered(blocks, files)) -> Within(budget)] : Selects(g, blocks, files, budget)
<1> DEFINE n == Len(Ordered(blocks, files))
           step == [x \in Within(budget) \X (1..n) |-> (IF Fits(x[1], Ordered(blocks, files)[x[2]], budget) THEN Append(x[1], Ordered(blocks, files)[x[2]]) ELSE x[1])]
           Fold(it) == it = [t \in SUBSET DOMAIN Ordered(blocks, files) |->
                               IF t = {} THEN <<>>
                               ELSE (IF Fits(it[t \ {Max(t)}], Ordered(blocks, files)[Max(t)], budget) THEN Append(it[t \ {Max(t)}], Ordered(blocks, files)[Max(t)]) ELSE it[t \ {Max(t)}])]
<1>1. /\ n \in Nat /\ <<>> \in Within(budget)
      /\ \A x \in Within(budget), i \in 1..n :
           (IF Fits(x, Ordered(blocks, files)[i], budget) THEN Append(x, Ordered(blocks, files)[i]) ELSE x)
             \in Within(budget)
      /\ DOMAIN Ordered(blocks, files) = 1..n
  <2>1. Ordered(blocks, files) \in Seq(ContextBlock)
    BY OrderedTyped
  <2>2. n \in Nat /\ DOMAIN Ordered(blocks, files) = 1..n
        /\ \A i \in 1..n : Ordered(blocks, files)[i] \in ContextBlock
    BY <2>1
  <2>3. <<>> \in Within(budget)
    BY SizeMore DEF Within
  <2>4. QED
    BY <2>2, <2>3, ChosenWithin
<1>2. step \in [Within(budget) \X (1..n) -> Within(budget)]
  BY <1>1
<1>3. \A x \in Within(budget), k \in 1..n : step[<<x, k>>] = (IF Fits(x, Ordered(blocks, files)[k], budget) THEN Append(x, Ordered(blocks, files)[k]) ELSE x)
  OBVIOUS
<1>4. DOMAIN Ordered(blocks, files) = 1..n
  BY <1>1
<1> HIDE DEF n, step
<1>5. PICK it0 \in [SUBSET (1..n) -> Within(budget)] : Folds(it0, n, <<>>, step)
  BY <1>1, <1>2, FoldExists
<1>6. \A t \in SUBSET (1..n) :
        it0[t] = IF t = {} THEN <<>> ELSE step[<<it0[t \ {Max(t)}], Max(t)>>]
  BY <1>5, Zenon DEF Folds
<1>7. ASSUME NEW t \in SUBSET (1..n), t # {}
      PROVE  it0[t] = (IF Fits(it0[t \ {Max(t)}], Ordered(blocks, files)[Max(t)], budget) THEN Append(it0[t \ {Max(t)}], Ordered(blocks, files)[Max(t)]) ELSE it0[t \ {Max(t)}])
  <2>1. Max(t) \in 1..n /\ t \ {Max(t)} \in SUBSET (1..n)
    BY <1>1, <1>7, FoldPlace
  <2>2. it0[t \ {Max(t)}] \in Within(budget)
    BY <1>5, <2>1
  <2>3. it0[t] = step[<<it0[t \ {Max(t)}], Max(t)>>]
    BY <1>6, <1>7
  <2>4. QED
    BY <1>3, <2>1, <2>2, <2>3
<1>8. Fold(it0)
  BY <1>4, <1>6, <1>7, Zenon
<1>9. PICK it : it = CHOOSE f : Fold(f)
  OBVIOUS
<1>10. Fold(it)
  BY <1>8, <1>9, Zenon
<1>11. Selected(blocks, files, budget) = it[1..n]
  BY <1>4, <1>9, Zenon DEF Selected, FoldLeft, MapThenFoldSet
<1>12. it[{}] = <<>>
  BY <1>10, Zenon
<1>13. ASSUME NEW t \in SUBSET (1..n), t # {}, it[t \ {Max(t)}] \in Within(budget)
       PROVE  it[t] = step[<<it[t \ {Max(t)}], Max(t)>>]
  <2>1. Max(t) \in 1..n
    BY <1>1, <1>13, FoldPlace
  <2>2. it[t] = (IF Fits(it[t \ {Max(t)}], Ordered(blocks, files)[Max(t)], budget) THEN Append(it[t \ {Max(t)}], Ordered(blocks, files)[Max(t)]) ELSE it[t \ {Max(t)}])
    BY <1>4, <1>10, <1>13, Zenon
  <2>3. QED
    BY <1>3, <1>13, <2>1, <2>2
<1>14. PICK g \in [0..n -> Within(budget)] : FoldsTo(g, n, <<>>, step, it[1..n])
  <2>1. Follows(it, n, Within(budget), <<>>, step)
    BY <1>12, <1>13, Zenon DEF Follows
  <2>2. QED
    BY <1>1, <1>2, <2>1, FoldRuns
<1>15. ASSUME NEW k \in 1..n PROVE g[k] = (IF Fits(g[k-1], Ordered(blocks, files)[k], budget) THEN Append(g[k-1], Ordered(blocks, files)[k]) ELSE g[k-1])
  <2>1. k - 1 \in 0..n
    BY <1>1
  <2>2. g[k-1] \in Within(budget)
    BY <2>1
  <2>3. g[k] = step[<<g[k-1], k>>]
    BY <1>14 DEF FoldsTo, Iterates
  <2>4. QED
    BY <1>3, <2>2, <2>3
<1>16. Selects(g, blocks, files, budget)
  BY <1>11, <1>14, <1>15, Zenon DEF FoldsTo, Iterates, Selects, n
<1>17. QED
  BY <1>16, Zenon DEF n


\* No prompt carries more than its budget.
LEMMA SelectedWithin ==
  ASSUME NEW blocks \in Seq(ContextBlock), NEW files, NEW budget \in Nat
  PROVE  Size(Selected(blocks, files, budget)) \in Nat /\ Size(Selected(blocks, files, budget)) <= budget
<1>1. PICK g \in [0..Len(Ordered(blocks, files)) -> Within(budget)] : Selects(g, blocks, files, budget)
  BY SelectedRun
<1>2. Len(Ordered(blocks, files)) \in 0..Len(Ordered(blocks, files))
  BY OrderedTyped
<1>3. Selected(blocks, files, budget) \in Within(budget)
  BY <1>1, <1>2 DEF Selects
<1>4. QED
  BY <1>3, SizeMore DEF Within

LEMMA DividedUp ==
  ASSUME NEW k \in Nat \ {0}, NEW t \in Nat, NEW s \in Nat, s <= t \div k
  PROVE  k * s <= t
<1>1. PICK q : q = t \div k
  OBVIOUS
<1>2. q \in Nat /\ k * q <= t /\ s <= q
  BY <1>1
<1>3. PICK d \in Nat : q = s + d
  <2>1. q - s \in Nat /\ q = s + (q - s)
    BY <1>2
  <2>2. QED
    BY <2>1
<1>4. k * q = k * s + k * d
  BY <1>2, <1>3
<1>5. k * d \in Nat /\ k * s \in Nat /\ k * q \in Nat
  BY <1>2, <1>3
<1>6. QED
  BY <1>2, <1>4, <1>5

\* Lanes that have not been told a context yet.
Early == {"idle", "review", "created", "skip", "prepare", "start"}

\* What a lane tells its vendors fits the budget of every prompt.
ToldOK(l) ==
  /\ l.pc \in Early => l.told = None
  /\ l.told # None => \A c \in ChunkSet :
       Len(chunks) * Cardinality(l.cfg.on) * Size(l.told[c]) <= TotalLimit

Showable(bs) == \A i \in Indices(bs) : ~bs[i].secret

\* What is stored may be kept.
KeptOK(x) ==
  /\ Showable(x.text)
  /\ x.chunks # None => \A c \in ChunkSet : Showable(x.chunks[c])

Contexts == (\A p \in Proc : ToldOK(lane[p])) /\ KeptOK(run.contexts)

\* What becomes of a lane in every step but the one that gathers a context.
ToldStays(old, new) ==
  \/ new = old
  \/ new.told = None
  \/ new.told = old.told /\ new.cfg = old.cfg /\ (new.pc \in Early => old.pc \in Early)

LEMMA ToldMove ==
  ASSUME NEW p \in Proc, \A q \in Proc : q # p => lane'[q] = lane[q],
         lane'[p].told = lane[p].told,
         \/ lane[p].told = None
         \/ lane'[p].cfg = lane[p].cfg /\ (lane'[p].pc \in Early => lane[p].pc \in Early)
  PROVE  \A q \in Proc : ToldStays(lane[q], lane'[q])
  BY DEF ToldStays

LEMMA ToldRests ==
  ASSUME LanesOK, NEW p \in Proc, Rests(p)
  PROVE  \A q \in Proc : ToldStays(lane[q], lane'[q])
<1>1. lane'[p].told = None /\ \A q \in Proc : q # p => lane'[q] = lane[q]
  BY RestsIdle DEF IdleLane
<1>2. QED
  BY <1>1 DEF ToldStays

LEMMA ToldStaying ==
  ASSUME Base, Contexts, Next, \A p \in Proc : ~StoreContexts(p)
  PROVE  \A q \in Proc : ToldStays(lane[q], lane'[q])
<1> DEFINE Stays == \A q \in Proc : ToldStays(lane[q], lane'[q])
<1>1. ASSUME UNCHANGED lane PROVE Stays
  BY <1>1 DEF ToldStays
<1>2. ASSUME NEW p \in Proc, Claim(p) PROVE Stays
  <2>1. lane'[p].told = None /\ \A q \in Proc : q # p => lane'[q] = lane[q]
    BY <1>2 DEF Claim, Base, LanesOK, IdleLane
  <2>2. QED
    BY <2>1 DEF ToldStays
<1>3. ASSUME NEW p \in Proc, CreateRun(p) PROVE Stays
  <2>1. CASE Rests(p)
    BY <2>1, ToldRests DEF Base
  <2>2. CASE lane' = [lane EXCEPT ![p] = [@ EXCEPT !.pc = "created", !.run = run.id + 1,
                                                   !.cfg = setting]]
    <3>1. /\ \A q \in Proc : q # p => lane'[q] = lane[q]
          /\ lane'[p].told = lane[p].told
      BY <2>2 DEF Base, LanesOK, LaneOK, LaneFields
    <3>2. lane[p].told = None
      BY <1>3 DEF Contexts, ToldOK, CreateRun, Early
    <3>3. QED
      BY <3>1, <3>2, ToldMove
  <2>3. QED
    BY <1>3, <2>1, <2>2 DEF CreateRun
<1>4. ASSUME NEW p \in Proc, Prescreen(p) PROVE Stays
  <2>1. lane[p].pc = "created" /\ GoesOn(p, {"skip", "prepare"})
    BY <1>4, PrescreenLane DEF Base
  <2>2. \E pc \in {"skip", "prepare"} : lane' = [lane EXCEPT ![p].pc = pc]
    BY <1>4 DEF Prescreen, Goes
  <2>3. lane'[p].told = lane[p].told
    BY <2>2 DEF Base, LanesOK, LaneOK, LaneFields
  <2>4. lane[p].pc \in Early
    BY <2>1 DEF Early
  <2>5. QED
    BY <2>1, <2>3, <2>4, ToldMove DEF GoesOn, Moves
<1>5. ASSUME NEW p \in Proc, BindPolicy(p) \/ AddRows(p) \/ Combine(p) \/ Debate(p)
      PROVE  Stays
  <2>1. /\ \E pcs \in {{"rows"}, {"ask"}, {"debate", "persist"}, {"persist"}} : GoesOn(p, pcs)
        /\ lane'[p].told = lane[p].told
    BY <1>5, BindPolicyLane, AddRowsLane, CombineLane, DebateLane DEF Base
  <2>2. lane'[p].pc \in {"rows", "ask", "debate", "persist"}
    BY <2>1 DEF GoesOn, Moves
  <2>3. lane'[p].pc \notin Early
    BY <2>2 DEF Early
  <2>4. QED
    BY <2>1, <2>3, ToldMove DEF GoesOn, Moves
<1>6. ASSUME NEW p \in Proc, AskVendors(p) PROVE Stays
  <2>1. /\ GoesOn(p, {IF lane[p].pc = "ask" THEN "combine" ELSE "add"})
        /\ lane'[p].told = lane[p].told
    BY <1>6, AskVendorsLane DEF Base
  <2>2. lane'[p].pc \in {"combine", "add"}
    BY <2>1 DEF GoesOn, Moves
  <2>3. lane'[p].pc \notin Early
    BY <2>2 DEF Early
  <2>4. QED
    BY <2>1, <2>3, ToldMove DEF GoesOn, Moves
<1>7. ASSUME NEW p \in Proc, RetryStart(p) PROVE Stays
  <2>1. lane[p].pc = "start" /\ (Rests(p) \/ (Moves(p, {"ask again"}) /\ lane'[p].told = lane[p].told))
    BY <1>7, RetryStartLane DEF Base
  <2>2. lane[p].told = None
    BY <2>1 DEF Contexts, ToldOK, Early
  <2>3. QED
    BY <2>1, <2>2, ToldRests, ToldMove DEF Base, Moves
<1>8. ASSUME NEW p \in Proc,
             \/ Nothing(p) \/ LeaseLost(p) \/ PersistAllFailed(p) \/ PersistStale(p) \/ Persist(p)
             \/ ReviewFails(p) \/ RetryRefused(p) \/ RetryFails(p) \/ RetryStale(p)
             \/ RetryAdds(p) \/ Timeout(p) \/ Crash(p) \/ LeaseExpires(p)
      PROVE  Stays
  <2>1. Rests(p) \/ UNCHANGED lane
    BY <1>8 DEF Nothing, LeaseLost, PersistAllFailed, PersistStale, Persist, ReviewFails, RunFails,
       RetryRefused, RetryFails, RetryStale, RetryAdds, Timeout, Crash, LeaseExpires
  <2>2. QED
    BY <1>1, <2>1, ToldRests DEF Base
<1>9. ASSUME \/ Recover \/ RequestRetry \/ RequestReview \/ FindingChanges \/ SettingChanges
             \/ ContextsExpire \/ HeadMoves
      PROVE  Stays
  BY <1>1, <1>9 DEF Recover, RequestRetry, RequestReview, FindingChanges, SettingChanges,
     ContextsExpire, HeadMoves
<1> HIDE DEF Stays
<1>10. Stays
  BY <1>2, <1>3, <1>4, <1>5, <1>6, <1>7, <1>8, <1>9 DEF Next
<1>11. QED
  BY <1>10 DEF Stays

\* Nobody but the gathering writes a text into a run.
LEMMA KeptStaying ==
  ASSUME Base, Next, \A p \in Proc : ~StoreContexts(p)
  PROVE  run'.contexts = run.contexts \/ run'.contexts = NoContexts
<1>1. ASSUME UNCHANGED run PROVE run'.contexts = run.contexts
  BY <1>1
<1>2. ASSUME NEW p \in Proc, CreateRun(p)
      PROVE  run'.contexts = run.contexts \/ run'.contexts = NoContexts
  BY <1>2 DEF CreateRun, dbVars, NoRun
<1>3. ASSUME NEW p \in Proc,
             \/ Claim(p) \/ Prescreen(p) \/ AddRows(p) \/ AskVendors(p) \/ Combine(p)
             \/ Debate(p) \/ LeaseLost(p) \/ RetryRefused(p) \/ RetryStart(p) \/ RetryFails(p)
             \/ RetryStale(p) \/ Crash(p) \/ LeaseExpires(p)
      PROVE  UNCHANGED run
  BY <1>3 DEF Claim, Prescreen, AddRows, AskVendors, Combine, Debate, LeaseLost, RetryRefused,
     RetryStart, RetryFails, RetryStale, Crash, LeaseExpires, dbVars
<1>4. ASSUME NEW p \in Proc, Nothing(p) \/ ReviewFails(p) \/ BindPolicy(p)
      PROVE  run'.contexts = run.contexts
  BY <1>4 DEF Nothing, Closes, ReviewFails, RunFails, BindPolicy, Base, RunOK, RunFields
<1>5. ASSUME NEW p \in Proc,
             PersistAllFailed(p) \/ PersistStale(p) \/ Persist(p) \/ RetryAdds(p) \/ Timeout(p)
      PROVE  run'.contexts = run.contexts
  BY <1>5 DEF PersistAllFailed, PersistStale, Persist, RetryAdds, Timeout, Base, RunOK, RunFields
<1>6. ASSUME Recover PROVE run'.contexts = run.contexts
  BY <1>6 DEF Recover, Base, RunOK, RunFields
<1>7. ASSUME RequestRetry \/ RequestReview \/ FindingChanges \/ SettingChanges \/ HeadMoves
      PROVE  UNCHANGED run
  BY <1>7 DEF RequestRetry, RequestReview, FindingChanges, SettingChanges, HeadMoves, dbVars
<1>8. ASSUME ContextsExpire PROVE run'.contexts = NoContexts
  BY <1>8 DEF ContextsExpire, Base, RunOK, RunFields
<1>9. QED
  BY <1>1, <1>2, <1>3, <1>4, <1>5, <1>6, <1>7, <1>8 DEF Next

LEMMA KeepableShown ==
  ASSUME NEW bs
  PROVE  Showable(Keepable(bs))
<1>1. CASE MayKeep(bs)
  BY <1>1 DEF Showable, Keepable, MayKeep, Indices
<1>2. CASE ~MayKeep(bs)
  BY <1>2 DEF Showable, Keepable, Indices
<1>3. QED
  BY <1>1, <1>2

\* What was gathered are blocks, whichever sources are missing.
LEMMA GatheredBlocks ==
  ASSUME NEW sources \in Seq(Seq(ContextBlock)), NEW ok
  PROVE  Blocks(Gathered(sources, ok)) \in Seq(ContextBlock)
<1>1. PICK ss : ss = Gathered(sources, ok)
  OBVIOUS
<1>2. \A i \in 1..Len(sources) : (IF i \in ok THEN sources[i] ELSE <<>>) \in Seq(ContextBlock)
  OBVIOUS
<1>3. ss \in Seq(Seq(ContextBlock))
  BY <1>1, <1>2 DEF Gathered
<1>4. FlattenSeq(ss) \in Seq(ContextBlock)
  BY <1>3, FlattenPlaces
<1>5. QED
  BY <1>1, <1>4 DEF Blocks

\* The share of a prompt is enough for what its chunk is told.
LEMMA BudgetKept ==
  ASSUME NEW got \in Seq(ContextBlock), NEW files, NEW n \in Nat \ {0}, NEW m \in Nat \ {0}
  PROVE  n * m * Size(Selected(got, files, ContextBudget(n, m))) <= TotalLimit
<1>1. PICK k : k = n * m
  OBVIOUS
<1>2. k \in Nat \ {0}
  BY <1>1
<1>3. PICK budget : budget = ContextBudget(n, m)
  OBVIOUS
<1>4. budget = TotalLimit \div k /\ TotalLimit \in Nat
  BY <1>1, <1>3, ContextAssumption DEF ContextBudget
<1>5. budget \in Nat
  BY <1>2, <1>4
<1>6. PICK s : s = Size(Selected(got, files, budget))
  OBVIOUS
<1>7. s \in Nat /\ s <= budget
  BY <1>5, <1>6, SelectedWithin
<1>8. k * s <= TotalLimit
  BY <1>2, <1>4, <1>7, DividedUp
<1>9. QED
  BY <1>1, <1>3, <1>6, <1>8

LEMMA ChunksStay ==
  ASSUME Next
  PROVE  UNCHANGED chunks
<1>1. ASSUME NEW p \in Proc,
             \/ Claim(p) \/ CreateRun(p) \/ Prescreen(p) \/ Nothing(p) \/ StoreContexts(p)
             \/ BindPolicy(p) \/ AddRows(p) \/ AskVendors(p) \/ Combine(p) \/ Debate(p)
             \/ LeaseLost(p)
      PROVE  UNCHANGED chunks
  BY <1>1 DEF Claim, CreateRun, Prescreen, Nothing, StoreContexts, BindPolicy, AddRows, AskVendors,
     Combine, Debate, LeaseLost, envVars
<1>2. ASSUME NEW p \in Proc,
             \/ PersistAllFailed(p) \/ PersistStale(p) \/ Persist(p) \/ ReviewFails(p)
             \/ RetryRefused(p) \/ RetryStart(p) \/ RetryFails(p) \/ RetryStale(p)
             \/ RetryAdds(p) \/ Timeout(p) \/ Crash(p) \/ LeaseExpires(p)
      PROVE  UNCHANGED chunks
  BY <1>2 DEF PersistAllFailed, PersistStale, Persist, ReviewFails, RunFails, RetryRefused,
     RetryStart, RetryFails, RetryStale, RetryAdds, Timeout, Crash, LeaseExpires, envVars
<1>3. ASSUME \/ Recover \/ RequestRetry \/ RequestReview \/ FindingChanges \/ SettingChanges
             \/ ContextsExpire \/ HeadMoves
      PROVE  UNCHANGED chunks
  BY <1>3 DEF Recover, RequestRetry, RequestReview, FindingChanges, SettingChanges,
     ContextsExpire, HeadMoves, envVars
<1>4. QED
  BY <1>1, <1>2, <1>3 DEF Next

LEMMA ToldSettled ==
  ASSUME Contexts, UNCHANGED chunks, \A q \in Proc : ToldStays(lane[q], lane'[q])
  PROVE  \A q \in Proc : ToldOK(lane[q])'
<1> SUFFICES ASSUME NEW q \in Proc PROVE ToldOK(lane[q])'
  OBVIOUS
<1>1. ToldOK(lane[q]) /\ ToldStays(lane[q], lane'[q])
  BY DEF Contexts
<1>2. ChunkSet' = ChunkSet
  BY DEF ChunkSet
<1>3. CASE lane'[q] = lane[q]
  BY <1>1, <1>2, <1>3 DEF ToldOK
<1>4. CASE lane'[q].told = None
  BY <1>4 DEF ToldOK
<1>5. CASE /\ lane'[q].told = lane[q].told /\ lane'[q].cfg = lane[q].cfg
           /\ lane'[q].pc \in Early => lane[q].pc \in Early
  BY <1>1, <1>2, <1>5 DEF ToldOK
<1>6. QED
  BY <1>1, <1>3, <1>4, <1>5 DEF ToldStays

\* What a lane tells its vendors of what it gathered, and what the run keeps of it.
Telling(p, got) ==
  [c \in ChunkSet |-> Selected(got, PathsOf(c),
     ContextBudget(Len(chunks), Cardinality(lane[p].cfg.on)))]
Keeping(text, told) ==
  [text |-> Keepable(text), chunks |-> [c \in ChunkSet |-> Keepable(told[c])]]

LEMMA StoreContextsTexts ==
  ASSUME Base, NEW p \in Proc, StoreContexts(p)
  PROVE  \E got, told :
           /\ got \in Seq(ContextBlock)
           /\ told = Telling(p, got)
           /\ lane'[p].told = told
           /\ run'.contexts = run.contexts \/ \E text : run'.contexts = Keeping(text, told)
<1>1. PICK ok \in SUBSET (1..Len(site.sources)), late \in BOOLEAN :
        \E got \in {Blocks(Gathered(site.sources, ok))} :
        \E told \in {Telling(p, got)} :
          /\ run' = IF Newest(p)
                    THEN [run EXCEPT !.contexts =
                           [text |-> IF late THEN <<>> ELSE Keepable(got),
                            chunks |-> [c \in ChunkSet |-> Keepable(told[c])]]]
                    ELSE run
          /\ lane' = [lane EXCEPT ![p] = [@ EXCEPT !.pc = "bind", !.told = told]]
  BY Zenon DEF StoreContexts, Telling
<1>2. PICK got : got = Blocks(Gathered(site.sources, ok))
  OBVIOUS
<1>3. PICK told : told = Telling(p, got)
  OBVIOUS
<1>4. /\ run' = IF Newest(p)
                THEN [run EXCEPT !.contexts =
                       [text |-> IF late THEN <<>> ELSE Keepable(got),
                        chunks |-> [c \in ChunkSet |-> Keepable(told[c])]]]
                ELSE run
      /\ lane' = [lane EXCEPT ![p] = [@ EXCEPT !.pc = "bind", !.told = told]]
  BY <1>1, <1>2, <1>3, Zenon
<1>5. got \in Seq(ContextBlock)
  BY <1>2, GatheredBlocks, SiteAssumption DEF Base, EnvOK
<1>6. lane'[p].told = told
  BY <1>4 DEF Base, LanesOK, LaneOK, LaneFields
<1>7. PICK text : text = IF late THEN <<>> ELSE got
  OBVIOUS
<1>8. (IF late THEN <<>> ELSE Keepable(got)) = Keepable(text)
  BY <1>7 DEF Keepable
<1>9. PICK kept : kept = Keeping(text, told)
  OBVIOUS
<1>10. [text |-> IF late THEN <<>> ELSE Keepable(got),
        chunks |-> [c \in ChunkSet |-> Keepable(told[c])]] = kept
  BY <1>8, <1>9, Zenon DEF Keeping
<1>11. run' = IF Newest(p) THEN [run EXCEPT !.contexts = kept] ELSE run
  BY <1>4, <1>10, Zenon
<1>12. run'.contexts = run.contexts \/ run'.contexts = kept
  BY <1>11 DEF Base, RunOK, RunFields
<1>13. QED
  BY <1>3, <1>5, <1>6, <1>9, <1>12, Zenon

LEMMA StoreContextsTold ==
  ASSUME Base, Contexts, NEW p \in Proc, StoreContexts(p)
  PROVE  Contexts'
<1>1. PICK got, told :
        /\ got \in Seq(ContextBlock)
        /\ told = Telling(p, got)
        /\ lane'[p].told = told
        /\ run'.contexts = run.contexts \/ \E text : run'.contexts = Keeping(text, told)
  BY StoreContextsTexts
<1>2. /\ lane[p].pc = "prepare" /\ GoesOn(p, {"bind"}) /\ lane[p].cfg.on # {}
      /\ UNCHANGED chunks /\ ChunkSet' = ChunkSet
  BY StoreContextsLane DEF Base, StoreContexts, envVars, ChunkSet
<1>3. /\ \A q \in Proc : q # p => lane'[q] = lane[q]
      /\ lane'[p].pc = "bind" /\ lane'[p].cfg = lane[p].cfg
  BY <1>2 DEF GoesOn, Moves
<1>4. PICK m : m = Cardinality(lane[p].cfg.on)
  OBVIOUS
<1>5. m \in Nat \ {0}
  <2>1. lane[p].cfg.on \subseteq Vendor
    BY <1>2, SiteAssumption DEF Base, LanesOK, LaneOK, EnvOK, Settings, SettingOK
  <2>2. IsFiniteSet(Vendor)
    <3>1. Vendor = {"claude"} \cup {"codex"}
      BY DEF Vendor
    <3>2. QED
      BY <3>1, FS_Singleton, FS_Union
  <2>3. IsFiniteSet(lane[p].cfg.on)
    BY <2>1, <2>2, FS_Subset
  <2>4. QED
    BY <1>2, <1>4, <2>3, FS_CardinalityType, FS_EmptySet
<1>6. ASSUME NEW c \in ChunkSet PROVE Len(chunks) * m * Size(told[c]) <= TotalLimit
  <2>1. told[c] = Selected(got, PathsOf(c), ContextBudget(Len(chunks), m))
    BY <1>1, <1>4, Zenon DEF Telling
  <2>2. Len(chunks) \in Nat \ {0}
    BY ChunksCounted
  <2>3. QED
    BY <1>1, <1>5, <2>1, <2>2, BudgetKept
<1>7. ToldOK(lane[p])'
  BY <1>1, <1>2, <1>3, <1>4, <1>6 DEF ToldOK, Early
<1>8. ASSUME NEW q \in Proc, q # p PROVE ToldOK(lane[q])'
  BY <1>2, <1>3, <1>8 DEF ToldOK, Contexts
<1>9. KeptOK(run'.contexts)
  <2>1. CASE run'.contexts = run.contexts
    BY <2>1 DEF Contexts
  <2>2. CASE \E text : run'.contexts = Keeping(text, told)
    BY <2>2, KeepableShown DEF KeptOK, Keeping
  <2>3. QED
    BY <1>1, <2>1, <2>2
<1>10. KeptOK(run.contexts)'
  BY <1>2, <1>9 DEF KeptOK
<1>11. QED
  BY <1>7, <1>8, <1>10 DEF Contexts

LEMMA ContextsStep ==
  ASSUME Base, Contexts, Next
  PROVE  Contexts'
<1>1. CASE \E p \in Proc : StoreContexts(p)
  BY <1>1, StoreContextsTold
<1>2. CASE \A p \in Proc : ~StoreContexts(p)
  <2>1. UNCHANGED chunks /\ ChunkSet' = ChunkSet
    BY ChunksStay DEF ChunkSet
  <2>2. \A q \in Proc : ToldOK(lane[q])'
    BY <1>2, <2>1, ToldStaying, ToldSettled
  <2>3. KeptOK(NoContexts)
    BY DEF KeptOK, NoContexts, Showable, Indices
  <2>4. KeptOK(run'.contexts)
    BY <1>2, <2>3, KeptStaying DEF Contexts
  <2>5. KeptOK(run.contexts)'
    BY <2>1, <2>4 DEF KeptOK
  <2>6. QED
    BY <2>2, <2>5 DEF Contexts
<1>3. QED
  BY <1>1, <1>2

LEMMA ContextsSame ==
  ASSUME Contexts, UNCHANGED vars
  PROVE  Contexts'
<1>1. UNCHANGED <<lane, run, chunks>> /\ ChunkSet' = ChunkSet
  BY DEF vars, ChunkSet
<1>2. \A p \in Proc : ToldOK(lane[p])'
  BY <1>1 DEF Contexts, ToldOK
<1>3. KeptOK(run.contexts)'
  BY <1>1 DEF Contexts, KeptOK
<1>4. QED
  BY <1>2, <1>3 DEF Contexts

LEMMA ContextsInit ==
  ASSUME Init
  PROVE  Contexts
<1>1. \A p \in Proc : lane[p].told = None
  BY DEF Init, IdleLane
<1>2. run.contexts = NoContexts
  BY DEF Init, NoRun
<1>3. KeptOK(run.contexts)
  BY <1>2 DEF KeptOK, NoContexts, Showable, Indices
<1>4. QED
  BY <1>1, <1>3 DEF Contexts, ToldOK

\* Whatever the sources report, fail to report or report late: a run never keeps a
\* text with a block that must not be kept, and the context of a prompt stays within
\* its share of the limit (render_context_blocks, _render_and_store_chunk_contexts).
THEOREM ContextsKept == Spec => []ContextsWithheld
<1>1. Init => Contexts
  BY ContextsInit
<1>2. Base /\ Contexts /\ [Next]_vars => Contexts'
  BY ContextsStep, ContextsSame
<1>3. Contexts => ContextsWithheld
  <2>1. ASSUME Contexts PROVE ContextsWithheld
    <3>1. PICK stored, text : stored = run.contexts.chunks /\ text = run.contexts.text
      OBVIOUS
    <3>2. Showable(text) /\ (stored # None => \A c \in ChunkSet : Showable(stored[c]))
      BY <2>1, <3>1 DEF Contexts, KeptOK
    <3>3. \A bs \in {text} \cup {stored[c] : c \in IF stored = None THEN {} ELSE ChunkSet} : Showable(bs)
      BY <3>2
    <3>4. \A p \in Proc : lane[p].told # None => \A c \in ChunkSet :
            Len(chunks) * Cardinality(lane[p].cfg.on) * Size(lane[p].told[c]) <= TotalLimit
      BY <2>1, Zenon DEF Contexts, ToldOK
    <3>5. QED
      BY <3>1, <3>3, <3>4, Zenon DEF ContextsWithheld, Showable
  <2>2. QED
    BY <2>1
<1>4. QED
  BY <1>1, <1>2, <1>3, BaseHolds, PTL DEF Spec
=============================================================================
