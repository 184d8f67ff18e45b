-------------------------- MODULE DiffChunksProofs --------------------------
(***************************************************************************)
(* Proofs about DiffChunks for every diff: the chunker's assertions never  *)
(* end a review.  The loops of the code are folds and flattened sequences; *)
(* what these do is proved first, by looking at the least counterexample   *)
(* of a claim about a number of steps.                                     *)
(***************************************************************************)
EXTENDS DiffChunks, FiniteSetTheorems, NaturalsInduction, WellFoundedInduction, TLAPS

---------------------------------------------------------------------------
(* Steps one after the other                                              *)

\* A set of numbers has a least one.
LEMMA Least ==
  ASSUME NEW T \in SUBSET Nat, T # {}
  PROVE  \E m \in T : \A t \in T : m <= t
<1> DEFINE R == OpToRel(<, Nat)
<1>1. PICK m \in T : \A t \in T : ~(<<t, m>> \in R)
  BY NatLessThanWellFounded, WFMin
<1>2. R = {ss \in Nat \X Nat : ss[1] < ss[2]}
  BY Zenon DEF OpToRel
<1>3. ASSUME NEW t \in T, t < m PROVE FALSE
  <2>1. <<t, m>> \in Nat \X Nat
    OBVIOUS
  <2> HIDE DEF R
  <2>2. QED
    BY <1>1, <1>2, <1>3, <2>1
<1>4. \A t \in T : m <= t
  BY <1>3
<1>5. QED
  BY <1>4

\* What is true at first and kept by n steps is true after each of them.
LEMMA Climb ==
  ASSUME NEW n \in Nat, NEW P, 0 \in P, \A k \in 1..n : k - 1 \in P => k \in P
  PROVE  \A k \in 0..n : k \in P
<1> DEFINE Out == {k \in 0..n : k \notin P}
<1>1. ASSUME Out # {} PROVE FALSE
  <2>1. Out \in SUBSET Nat
    OBVIOUS
  <2> HIDE DEF Out
  <2>2. PICK m \in Out : \A t \in Out : m <= t
    BY <1>1, <2>1, Least
  <2>3. m \in 0..n /\ m \notin P
    BY DEF Out
  <2>4. m \in 1..n /\ m - 1 \in 0..n /\ ~(m <= m - 1)
    BY <2>3
  <2>5. m - 1 \in P
    BY <2>2, <2>4 DEF Out
  <2>6. QED
    BY <2>3, <2>4, <2>5
<1>2. QED
  BY <1>1

\* The largest number of a bounded set.
LEMMA Largest ==
  ASSUME NEW n \in Nat, NEW S \in SUBSET (0..n), S # {}
  PROVE  Max(S) \in S /\ \A y \in S : Max(S) >= y
<1> DEFINE T == {t \in 0..n : n - t \in S}
<1>1. \A y \in S : y \in Nat /\ y <= n
  OBVIOUS
<1>2. T \subseteq Nat
  OBVIOUS
<1>3. \A y \in S : n - y \in T
  <2>1. SUFFICES ASSUME NEW y \in S PROVE n - y \in T
    OBVIOUS
  <2>2. n - y \in 0..n /\ n - (n - y) = y
    BY <1>1
  <2>3. QED
    BY <2>2
<1>4. \A t \in T : t \in 0..n /\ n - t \in S
  OBVIOUS
<1> HIDE DEF T
<1>5. T # {}
  BY <1>3
<1>6. PICK m \in T : \A t \in T : m <= t
  BY <1>2, <1>5, Least
<1>7. n - m \in S /\ m \in 0..n
  BY <1>4
<1>8. \A y \in S : n - m >= y
  BY <1>1, <1>3, <1>6, <1>7
<1>9. \E z \in S : \A y \in S : z >= y
  BY <1>7, <1>8
<1>10. QED
  BY <1>9 DEF Max

LEMMA LargestIs ==
  ASSUME NEW n \in Nat, NEW S \in SUBSET (0..n), NEW x \in S, \A y \in S : x >= y
  PROVE  Max(S) = x
<1>1. Max(S) \in S /\ \A y \in S : Max(S) >= y
  BY Largest
<1>2. Max(S) \in 0..n /\ x \in 0..n
  BY <1>1
<1>3. Max(S) >= x /\ x >= Max(S)
  BY <1>1
<1>4. QED
  BY <1>2, <1>3

\* The last of the first k numbers, and the numbers before it.
LEMMA LastOfFirst ==
  ASSUME NEW k \in Nat, k # 0
  PROVE  1..k # {} /\ Max(1..k) = k /\ (1..k) \ {k} = 1..(k - 1)
<1>1. 1..k \in SUBSET (0..k) /\ k \in 1..k /\ \A y \in 1..k : k >= y
  OBVIOUS
<1>2. Max(1..k) = k
  BY <1>1, LargestIs
<1>3. (1..k) \ {k} = 1..(k - 1)
  OBVIOUS
<1>4. QED
  BY <1>1, <1>2, <1>3

\* g lists the results of n steps from b.
Iterates(g, n, b, step) == g[0] = b /\ \A k \in 1..n : g[k] = step[<<g[k-1], k>>]

\* A recursion over 0..n whose values stay in X has a solution.
LEMMA StepsExist ==
  ASSUME NEW n \in Nat, NEW X, NEW b \in X, NEW step \in [X \X (1..n) -> X]
  PROVE  \E g \in [0..n -> X] : Iterates(g, n, b, step)
<1> DEFINE Solves(g, m) == g[0] = b /\ \A k \in 1..m : g[k] = step[<<g[k-1], k>>]
           P == {m \in 0..n : \E g \in [0..m -> X] : Solves(g, m)}
<1>1. 0 \in P
  <2> DEFINE h == [i \in 0..0 |-> b]
  <2>1. h \in [0..0 -> X] /\ Solves(h, 0)
    OBVIOUS
  <2> HIDE DEF h
  <2>2. \E g \in [0..0 -> X] : Solves(g, 0)
    BY <2>1
  <2>3. QED
    BY <2>2
<1>2. ASSUME NEW m \in 1..n, m - 1 \in P PROVE m \in P
  <2>1. PICK g \in [0..m-1 -> X] : Solves(g, m - 1)
    BY <1>2
  <2>2. PICK y : y = step[<<g[m-1], m>>]
    OBVIOUS
  <2>3. y \in X
    BY <2>1, <2>2
  <2> DEFINE h == [i \in 0..m |-> IF i = m THEN y ELSE g[i]]
  <2>4. h \in [0..m -> X]
    BY <2>1, <2>3
  <2>5. h[0] = b
    BY <2>1
  <2>6. ASSUME NEW k \in 1..m PROVE h[k] = step[<<h[k-1], k>>]
    <3>1. h[k-1] = g[k-1]
      OBVIOUS
    <3>2. CASE k = m
      <4>1. h[m] = y /\ h[m-1] = g[m-1]
        OBVIOUS
      <4> HIDE DEF h
      <4>2. h[k] = y /\ h[k-1] = g[m-1]
        BY <3>2, <4>1
      <4>3. QED
        BY <2>2, <3>2, <4>2, Zenon
    <3>3. CASE k # m
      <4>1. k \in 1..(m - 1) /\ h[k] = g[k]
        BY <3>3
      <4> HIDE DEF h
      <4>2. QED
        BY <2>1, <3>1, <4>1
    <3>4. QED
      BY <3>2, <3>3
  <2> HIDE DEF h
  <2>7. Solves(h, m)
    BY <2>5, <2>6
  <2>8. QED
    BY <2>4, <2>7
<1>3. n \in P
  <2> HIDE DEF P
  <2>1. \A k \in 0..n : k \in P
    BY <1>1, <1>2, Climb
  <2>2. QED
    BY <2>1
<1>4. \E g \in [0..n -> X] : Solves(g, n)
  BY <1>3
<1>5. QED
  BY <1>4 DEF Iterates

\* it is the recursion of a fold over the sets of places of a sequence.
Folds(it, n, base, step) ==
  it = [t \in SUBSET (1..n) |->
          IF t = {} THEN base ELSE step[<<it[t \ {Max(t)}], Max(t)>>]]

\* A fold as the library writes it, a recursion over the sets of places, has a
\* solution; with a step that is a function on a set of values.
LEMMA FoldExists ==
  ASSUME NEW n \in Nat, NEW A, NEW base \in A, NEW step \in [A \X (1..n) -> A]
  PROVE  \E it \in [SUBSET (1..n) -> A] : Folds(it, n, base, step)
<1> DEFINE X == [SUBSET (1..n) -> A]
           b == [t \in SUBSET (1..n) |-> base]
           Up(f, k) == [t \in SUBSET (1..n) |-> IF k \in t THEN step[<<f[t \ {k}], k>>] ELSE f[t]]
           up == [x \in X \X (1..n) |-> Up(x[1], x[2])]
<1>1. b \in X
  OBVIOUS
<1>2. ASSUME NEW f \in X, NEW k \in 1..n PROVE Up(f, k) \in X
  <2>1. \A t \in SUBSET (1..n) : t \ {k} \in SUBSET (1..n)
    OBVIOUS
  <2>2. \A t \in SUBSET (1..n) : <<f[t \ {k}], k>> \in A \X (1..n)
    BY <2>1
  <2>3. \A t \in SUBSET (1..n) : step[<<f[t \ {k}], k>>] \in A
    BY <2>2
  <2>4. QED
    BY <2>3
<1> HIDE DEF X, b, Up
<1>3. up \in [X \X (1..n) -> X]
  BY <1>2
<1>4. \A f \in X, k \in 1..n : up[<<f, k>>] = Up(f, k)
  OBVIOUS
<1> HIDE DEF up
<1>5. PICK g \in [0..n -> X] : g[0] = b /\ \A k \in 1..n : g[k] = up[<<g[k-1], k>>]
  <2>1. PICK g \in [0..n -> X] : Iterates(g, n, b, up)
    BY <1>1, <1>3, StepsExist
  <2>2. QED
    BY <2>1 DEF Iterates
<1>6. \A k \in 0..n : g[k] \in X
  BY <1>5
<1>7. ASSUME NEW k \in 1..n
      PROVE  k - 1 \in 0..n /\ g[k] = Up(g[k-1], k)
  <2>1. k - 1 \in 0..n
    OBVIOUS
  <2>2. QED
    BY <1>4, <1>5, <1>6, <2>1
<1>8. ASSUME NEW k \in 1..n, NEW t \in SUBSET (1..n)
      PROVE  g[k][t] = IF k \in t THEN step[<<g[k-1][t \ {k}], k>>] ELSE g[k-1][t]
  <2>1. g[k] = [u \in SUBSET (1..n) |-> IF k \in u THEN step[<<g[k-1][u \ {k}], k>>] ELSE g[k-1][u]]
    BY <1>7, Zenon DEF Up
  <2>2. QED
    BY <2>1, Zenon
<1>9. ASSUME NEW t \in SUBSET (1..n), NEW m \in 0..n, \A k \in (m+1)..n : k \notin t
      PROVE  g[n][t] = g[m][t]
  <2> DEFINE P == {k \in 0..n : k >= m => g[k][t] = g[m][t]}
  <2>1. 0 \in P
    <3>1. 0 >= m => 0 = m
      OBVIOUS
    <3>2. QED
      BY <3>1
  <2>2. ASSUME NEW k \in 1..n, k - 1 \in P PROVE k \in P
    <3>1. CASE k = m
      BY <3>1
    <3>2. CASE k > m
      <4>1. k \in (m+1)..n /\ k - 1 >= m
        BY <3>2
      <4>2. k \notin t /\ g[k-1][t] = g[m][t]
        BY <1>9, <2>2, <4>1
      <4>3. g[k][t] = g[k-1][t]
        BY <1>8, <4>2
      <4>4. QED
        BY <4>2, <4>3
    <3>3. CASE k < m
      BY <3>3
    <3>4. QED
      BY <3>1, <3>2, <3>3
  <2>3. n \in P
    <3> HIDE DEF P
    <3>1. \A k \in 0..n : k \in P
      BY <2>1, <2>2, Climb
    <3>2. QED
      BY <3>1
  <2>4. QED
    BY <2>3
<1>10. g[n][{}] = base
  <2>1. g[n][{}] = g[0][{}]
    BY <1>9
  <2>2. QED
    BY <2>1, <1>5 DEF b
<1>11. ASSUME NEW t \in SUBSET (1..n), t # {}
       PROVE  g[n][t] = step[<<g[n][t \ {Max(t)}], Max(t)>>]
  <2>1. Max(t) \in t /\ \A y \in t : Max(t) >= y
    <3>1. t \in SUBSET (0..n)
      OBVIOUS
    <3>2. QED
      BY <3>1, <1>11, Largest
  <2>2. PICK m : m = Max(t)
    OBVIOUS
  <2>20. m \in t
    BY <2>1, <2>2, Zenon
  <2>21. m \in 1..n
    BY <2>20
  <2>3. m \in 1..n /\ m \in t /\ m - 1 \in 0..n /\ m \in 0..n
    BY <2>20, <2>21
  <2>4. \A k \in (m+1)..n : k \notin t
    BY <2>1, <2>2, <2>3
  <2>5. \A k \in ((m-1)+1)..n : k \notin t \ {m}
    BY <2>1, <2>2, <2>3
  <2>6. g[n][t] = g[m][t]
    BY <1>9, <2>3, <2>4
  <2>7. t \ {m} \in SUBSET (1..n)
    OBVIOUS
  <2>8. g[n][t \ {m}] = g[m-1][t \ {m}]
    BY <1>9, <2>3, <2>5, <2>7
  <2>9. g[m][t] = step[<<g[m-1][t \ {m}], m>>]
    BY <1>8, <2>3
  <2>10. QED
    BY <2>2, <2>6, <2>8, <2>9
<1>12. PICK it : it = g[n]
  OBVIOUS
<1>13. it \in [SUBSET (1..n) -> A]
  <2>1. n \in 0..n
    OBVIOUS
  <2>2. it \in X
    BY <1>6, <1>12, <2>1
  <2>3. QED
    BY <2>2, Zenon DEF X
<1>14. it = [t \in SUBSET (1..n) |->
               IF t = {} THEN base ELSE step[<<it[t \ {Max(t)}], Max(t)>>]]
  BY <1>10, <1>11, <1>12, <1>13
<1>15. QED
  BY <1>13, <1>14 DEF Folds

\* The largest place of a set of places, and the places before it.
LEMMA FoldPlace ==
  ASSUME NEW n \in Nat, NEW t \in SUBSET (1..n), t # {}
  PROVE  Max(t) \in 1..n /\ t \ {Max(t)} \in SUBSET (1..n)
<1>1. t \in SUBSET (0..n)
  OBVIOUS
<1>2. Max(t) \in t
  BY <1>1, Largest
<1>3. QED
  BY <1>2

\* it follows a fold's recursion as long as its values stay in A.
Follows(it, n, A, base, step) ==
  /\ it[{}] = base
  /\ \A t \in SUBSET (1..n) :
       t # {} /\ it[t \ {Max(t)}] \in A => it[t] = step[<<it[t \ {Max(t)}], Max(t)>>]

\* g lists the results of n steps and r is the last of them.
FoldsTo(g, n, base, step, r) == Iterates(g, n, base, step) /\ r = g[n]

\* Such a recursion, looked at along the first places.
LEMMA FoldRuns ==
  ASSUME NEW n \in Nat, NEW A, NEW base \in A, NEW step \in [A \X (1..n) -> A], NEW it,
         Follows(it, n, A, base, step)
  PROVE  \E g \in [0..n -> A] : FoldsTo(g, n, base, step, it[1..n])
<1> DEFINE P == {k \in 0..n : it[1..k] \in A}
           g == [k \in 0..n |-> it[1..k]]
<1>1. 1..0 = {} /\ 0 \in 0..n /\ n \in 0..n
  OBVIOUS
<1>2. ASSUME NEW k \in 1..n, it[1..(k-1)] \in A
      PROVE  it[1..k] = step[<<it[1..(k-1)], k>>] /\ it[1..k] \in A
  <2>1. k \in Nat /\ k # 0 /\ 1..k \in SUBSET (1..n)
    OBVIOUS
  <2>2. 1..k # {} /\ Max(1..k) = k /\ (1..k) \ {k} = 1..(k - 1)
    BY <2>1, LastOfFirst
  <2>3. PICK t : t = 1..k
    OBVIOUS
  <2>4. t # {} /\ Max(t) = k /\ t \ {Max(t)} = 1..(k - 1) /\ t \in SUBSET (1..n)
    BY <2>1, <2>2, <2>3
  <2>5. it[t] = step[<<it[1..(k-1)], k>>]
    BY <1>2, <2>4 DEF Follows
  <2>6. QED
    BY <1>2, <2>3, <2>5
<1>3. 0 \in P
  BY <1>1 DEF Follows
<1>4. ASSUME NEW k \in 1..n, k - 1 \in P PROVE k \in P
  <2>1. it[1..(k-1)] \in A /\ k \in 0..n
    BY <1>4
  <2>2. it[1..k] \in A
    BY <1>2, <2>1
  <2>3. QED
    BY <2>1, <2>2
<1>5. \A k \in 0..n : it[1..k] \in A
  <2>1. \A k \in 0..n : k \in P
    <3> HIDE DEF P
    <3>1. QED
      BY <1>3, <1>4, Climb
  <2>2. QED
    BY <2>1
<1>6. g \in [0..n -> A]
  BY <1>5
<1>7. g[0] = base
  BY <1>1 DEF Follows
<1>8. ASSUME NEW k \in 1..n PROVE g[k] = step[<<g[k-1], k>>]
  <2>1. k - 1 \in 0..n /\ k \in 0..n
    OBVIOUS
  <2>2. g[k] = it[1..k] /\ g[k-1] = it[1..(k-1)]
    BY <2>1
  <2> HIDE DEF g
  <2>3. QED
    BY <1>2, <1>5, <2>1, <2>2
<1>9. it[1..n] = g[n]
  BY <1>1
<1> HIDE DEF g
<1>10. Iterates(g, n, base, step)
  BY <1>7, <1>8 DEF Iterates
<1>11. QED
  BY <1>6, <1>9, <1>10 DEF FoldsTo

---------------------------------------------------------------------------
(* Flattened sequences                                                    *)

\* F is the first m sequences of ss one after the other: its element at j is the
\* one at col[j] of the sequence row[j], every element comes once and in order.
Flattens(F, ss, m, row, col) ==
  /\ \A j \in 1..Len(F) : /\ row[j] \in 1..m
                          /\ col[j] \in 1..Len(ss[row[j]])
                          /\ F[j] = ss[row[j]][col[j]]
  /\ \A i \in 1..m : \A k \in 1..Len(ss[i]) :
       \E j \in 1..Len(F) : row[j] = i /\ col[j] = k
  /\ \A j, k \in 1..Len(F) : j < k =>
       row[j] < row[k] \/ (row[j] = row[k] /\ col[j] < col[k])

\* One more sequence.
LEMMA FlattenMore ==
  ASSUME NEW E, NEW ss \in Seq(Seq(E)), NEW m \in 1..Len(ss), NEW F \in Seq(E),
         NEW row \in [1..Len(F) -> Nat], NEW col \in [1..Len(F) -> Nat],
         Flattens(F, ss, m - 1, row, col)
  PROVE  \E r \in [1..Len(F \o ss[m]) -> Nat], c \in [1..Len(F \o ss[m]) -> Nat] :
           Flattens(F \o ss[m], ss, m, r, c)
<1> DEFINE G == F \o ss[m]
           r == [j \in 1..Len(G) |-> IF j <= Len(F) THEN row[j] ELSE m]
           c == [j \in 1..Len(G) |-> IF j <= Len(F) THEN col[j] ELSE j - Len(F)]
<1>1. Len(F) \in Nat /\ Len(ss[m]) \in Nat /\ ss[m] \in Seq(E) /\ m \in Nat /\ m >= 1
  OBVIOUS
<1>2. Len(G) = Len(F) + Len(ss[m])
  BY <1>1
<1>3. /\ \A j \in 1..Len(F) : j \in 1..Len(G) /\ G[j] = F[j]
      /\ \A j \in 1..Len(G) : j > Len(F) =>
           /\ j - Len(F) \in 1..Len(ss[m])
           /\ G[j] = ss[m][j - Len(F)]
  BY <1>1, <1>2
<1>4. \A j \in 1..Len(G) : r[j] = IF j <= Len(F) THEN row[j] ELSE m
  OBVIOUS
<1>5. \A j \in 1..Len(G) : c[j] = IF j <= Len(F) THEN col[j] ELSE j - Len(F)
  OBVIOUS
<1> HIDE DEF G
<1>6. r \in [1..Len(G) -> Nat]
  BY <1>1, <1>2
<1>7. c \in [1..Len(G) -> Nat]
  <2>1. ASSUME NEW j \in 1..Len(G)
        PROVE  (IF j <= Len(F) THEN col[j] ELSE j - Len(F)) \in Nat
    <3>1. j \in Nat /\ j >= 1
      BY <1>1, <1>2
    <3>2. CASE j <= Len(F)
      <4>1. j \in 1..Len(F)
        BY <1>1, <3>1, <3>2
      <4>2. QED
        BY <3>2, <4>1
    <3>3. CASE ~(j <= Len(F))
      BY <1>1, <3>1, <3>3
    <3>4. QED
      BY <3>2, <3>3
  <2>2. QED
    BY <2>1
<1> HIDE DEF r, c
<1>8. ASSUME NEW j \in 1..Len(F)
      PROVE  row[j] \in 1..(m - 1) /\ col[j] \in 1..Len(ss[row[j]]) /\ F[j] = ss[row[j]][col[j]]
  BY DEF Flattens
<1>9. \A j \in 1..Len(F) : j \in 1..Len(G) /\ r[j] = row[j] /\ c[j] = col[j] /\ G[j] = F[j]
  BY <1>1, <1>3, <1>4, <1>5
<1>10. ASSUME NEW j \in 1..Len(G), j \notin 1..Len(F)
       PROVE  /\ r[j] = m /\ c[j] = j - Len(F) /\ j > Len(F)
              /\ c[j] \in 1..Len(ss[m]) /\ G[j] = ss[m][c[j]]
  <2>1. j > Len(F) /\ ~(j <= Len(F))
    BY <1>1, <1>2, <1>10
  <2>2. r[j] = m /\ c[j] = j - Len(F)
    BY <1>4, <1>5, <2>1
  <2>3. QED
    BY <1>3, <2>1, <2>2
<1>11. ASSUME NEW j \in 1..Len(G)
       PROVE  r[j] \in 1..m /\ c[j] \in 1..Len(ss[r[j]]) /\ G[j] = ss[r[j]][c[j]]
  <2>1. CASE j \in 1..Len(F)
    <3>1. row[j] \in 1..m
      BY <1>1, <1>8, <2>1
    <3>2. QED
      BY <1>8, <1>9, <2>1, <3>1
  <2>2. CASE j \notin 1..Len(F)
    <3>1. m \in 1..m
      BY <1>1
    <3>2. QED
      BY <1>10, <2>2, <3>1
  <2>3. QED
    BY <2>1, <2>2
<1>12. ASSUME NEW i \in 1..m, NEW k \in 1..Len(ss[i])
       PROVE  \E j \in 1..Len(G) : r[j] = i /\ c[j] = k
  <2>1. CASE i = m
    <3>1. k \in 1..Len(ss[m]) /\ Len(F) + k \in 1..Len(G) /\ Len(F) + k \notin 1..Len(F)
      BY <1>1, <1>2, <2>1
    <3>2. r[Len(F) + k] = m /\ c[Len(F) + k] = (Len(F) + k) - Len(F)
      BY <1>10, <3>1
    <3>3. c[Len(F) + k] = k
      BY <1>1, <3>1, <3>2
    <3>4. QED
      BY <2>1, <3>1, <3>2, <3>3
  <2>2. CASE i # m
    <3>1. i \in 1..(m - 1)
      BY <1>1, <2>2
    <3>2. PICK j \in 1..Len(F) : row[j] = i /\ col[j] = k
      BY <3>1 DEF Flattens
    <3>3. QED
      BY <1>9, <3>2
  <2>3. QED
    BY <2>1, <2>2
<1>13. ASSUME NEW j \in 1..Len(G), NEW k \in 1..Len(G), j < k
       PROVE  r[j] < r[k] \/ (r[j] = r[k] /\ c[j] < c[k])
  <2>1. CASE k \in 1..Len(F)
    <3>1. j \in 1..Len(F)
      BY <1>1, <1>13, <2>1
    <3>2. row[j] < row[k] \/ (row[j] = row[k] /\ col[j] < col[k])
      BY <1>13, <2>1, <3>1 DEF Flattens
    <3>3. QED
      BY <1>9, <2>1, <3>1, <3>2
  <2>2. CASE k \notin 1..Len(F) /\ j \in 1..Len(F)
    <3>1. r[j] \in 1..(m - 1) /\ r[k] = m
      BY <1>8, <1>9, <1>10, <2>2
    <3>2. QED
      BY <1>1, <3>1
  <2>3. CASE k \notin 1..Len(F) /\ j \notin 1..Len(F)
    <3>1. r[j] = r[k] /\ c[j] = j - Len(F) /\ c[k] = k - Len(F)
      BY <1>10, <2>3
    <3>2. j - Len(F) < k - Len(F)
      BY <1>1, <1>2, <1>13
    <3>3. QED
      BY <3>1, <3>2
  <2>4. QED
    BY <2>1, <2>2, <2>3
<1>14. Flattens(G, ss, m, r, c)
  BY <1>11, <1>12, <1>13 DEF Flattens
<1>15. \E rr \in [1..Len(G) -> Nat], cc \in [1..Len(G) -> Nat] : Flattens(G, ss, m, rr, cc)
  BY <1>6, <1>7, <1>14
<1>16. QED
  BY <1>15 DEF G

\* What FlattenSeq returns, for sequences of sequences.
LEMMA FlattenPlaces ==
  ASSUME NEW E, NEW ss \in Seq(Seq(E))
  PROVE  /\ FlattenSeq(ss) \in Seq(E)
         /\ \E row \in [1..Len(FlattenSeq(ss)) -> Nat], col \in [1..Len(FlattenSeq(ss)) -> Nat] :
              Flattens(FlattenSeq(ss), ss, Len(ss), row, col)
<1> DEFINE n == Len(ss)
           step == [x \in Seq(E) \X (1..n) |-> x[1] \o ss[x[2]]]
<1>1. n \in Nat /\ <<>> \in Seq(E) /\ \A i \in 1..n : ss[i] \in Seq(E)
  OBVIOUS
<1>2. step \in [Seq(E) \X (1..n) -> Seq(E)]
  BY <1>1
<1>3. \A f \in Seq(E), k \in 1..n : step[<<f, k>>] = f \o ss[k]
  OBVIOUS
<1>4. PICK g \in [0..n -> Seq(E)] : Iterates(g, n, <<>>, step)
  <2> HIDE DEF n, step
  <2>1. QED
    BY <1>1, <1>2, StepsExist
<1> HIDE DEF step
<1>5. g[0] = <<>>
  BY <1>4 DEF Iterates
<1>6. ASSUME NEW k \in 1..n
      PROVE  k - 1 \in 0..n /\ g[k-1] \in Seq(E) /\ g[k] \in Seq(E) /\ g[k] = g[k-1] \o ss[k]
  <2>1. k - 1 \in 0..n /\ k \in 0..n
    BY <1>1
  <2>2. g[k-1] \in Seq(E) /\ g[k] \in Seq(E)
    BY <1>4, <2>1
  <2>3. g[k] = step[<<g[k-1], k>>]
    BY <1>4 DEF Iterates
  <2>4. QED
    BY <1>3, <2>1, <2>2, <2>3
<1> DEFINE Flat(m) == \E row \in [1..Len(g[m]) -> Nat], col \in [1..Len(g[m]) -> Nat] :
                        Flattens(g[m], ss, m, row, col)
           Q == {m \in 0..n : Flat(m)}
<1>7. 0 \in Q
  <2>1. [i \in {} |-> 0] \in [1..Len(<<>>) -> Nat]
    OBVIOUS
  <2>2. Flattens(<<>>, ss, 0, [i \in {} |-> 0], [i \in {} |-> 0])
    BY DEF Flattens
  <2>3. \E row \in [1..Len(<<>>) -> Nat], col \in [1..Len(<<>>) -> Nat] :
          Flattens(<<>>, ss, 0, row, col)
    BY <2>1, <2>2
  <2>4. Flat(0)
    BY <1>5, <2>3
  <2>5. QED
    BY <1>1, <2>4
<1>8. ASSUME NEW m \in 1..n, m - 1 \in Q PROVE m \in Q
  <2>1. Flat(m - 1)
    BY <1>8
  <2>2. PICK row \in [1..Len(g[m-1]) -> Nat], col \in [1..Len(g[m-1]) -> Nat] :
          Flattens(g[m-1], ss, m - 1, row, col)
    BY <2>1
  <2>3. m \in 1..Len(ss) /\ g[m-1] \in Seq(E) /\ g[m] = g[m-1] \o ss[m]
    BY <1>6
  <2>4. \E r \in [1..Len(g[m-1] \o ss[m]) -> Nat], c \in [1..Len(g[m-1] \o ss[m]) -> Nat] :
          Flattens(g[m-1] \o ss[m], ss, m, r, c)
    BY <2>2, <2>3, FlattenMore
  <2>5. Flat(m)
    BY <2>3, <2>4
  <2>6. m \in 0..n
    BY <1>1
  <2> HIDE DEF Flat
  <2>7. QED
    BY <2>5, <2>6
<1>9. Flat(n)
  <2>1. \A m \in 0..n : m \in Q
    <3> HIDE DEF n, Q
    <3>1. QED
      BY <1>1, <1>7, <1>8, Climb
  <2>2. n \in 0..n
    BY <1>1
  <2>3. QED
    BY <2>1, <2>2
<1>10. g[n] = FlattenSeq(ss)
  <2>1. CASE n = 0
    <3>1. FlattenSeq(ss) = ss /\ ss = <<>>
      BY <2>1 DEF FlattenSeq
    <3>2. QED
      BY <1>5, <2>1, <3>1
  <2>2. CASE n # 0
    <3> DEFINE h == [i \in 1..n |-> g[i]]
               Flatten(it) == it = [i \in 1..Len(ss) |-> IF i = 1 THEN ss[i] ELSE it[i-1] \o ss[i]]
    <3>1. \A i \in 1..n : h[i] = g[i]
      OBVIOUS
    <3>2. \A i \in 1..n : h[i] = IF i = 1 THEN ss[i] ELSE h[i-1] \o ss[i]
      <4>1. SUFFICES ASSUME NEW i \in 1..n
                     PROVE  h[i] = IF i = 1 THEN ss[i] ELSE h[i-1] \o ss[i]
        OBVIOUS
      <4>2. CASE i = 1
        <5>1. 1 \in 1..n /\ 1 - 1 = 0
          BY <1>1, <4>2
        <5>2. g[1] = <<>> \o ss[1] /\ ss[1] \in Seq(E)
          BY <1>1, <1>5, <1>6, <5>1
        <5>3. <<>> \o ss[1] = ss[1]
          BY <5>2
        <5>4. QED
          BY <3>1, <4>2, <5>2, <5>3
      <4>3. CASE i # 1
        <5>1. i - 1 \in 1..n
          BY <1>1, <4>3
        <5>2. QED
          BY <1>6, <3>1, <4>3, <5>1
      <4>4. QED
        BY <4>2, <4>3
    <3>3. Flatten(h)
      <4>1. h = [i \in 1..n |-> h[i]]
        OBVIOUS
      <4> HIDE DEF h
      <4>2. QED
        BY <3>2, <4>1
    <3> HIDE DEF h
    <3>4. PICK it : it = CHOOSE f : Flatten(f)
      OBVIOUS
    <3>5. Flatten(it)
      BY <3>3, <3>4, Zenon
    <3>6. FlattenSeq(ss) = it[n]
      BY <2>2, <3>4, Zenon DEF FlattenSeq
    <3>7. \A i \in 1..n : it[i] = IF i = 1 THEN ss[i] ELSE it[i-1] \o ss[i]
      BY <3>5
    <3> DEFINE R == {m \in 0..n : m # 0 => it[m] = g[m]}
    <3>8. 0 \in R
      BY <1>1
    <3>9. ASSUME NEW m \in 1..n, m - 1 \in R PROVE m \in R
      <4>1. CASE m = 1
        BY <3>1, <3>2, <3>7, <4>1
      <4>2. CASE m # 1
        <5>1. m - 1 # 0
          BY <1>1, <4>2
        <5>2. it[m-1] = g[m-1]
          BY <3>9, <5>1
        <5>3. it[m] = it[m-1] \o ss[m]
          BY <3>7, <4>2
        <5>4. it[m] = g[m]
          BY <1>6, <5>2, <5>3
        <5>5. QED
          BY <1>1, <5>4
      <4>3. QED
        BY <4>1, <4>2
    <3>10. \A m \in 0..n : m \in R
      <4> HIDE DEF n, R
      <4>1. QED
        BY <1>1, <3>8, <3>9, Climb
    <3>11. n \in 0..n
      BY <1>1
    <3>12. it[n] = g[n]
      BY <2>2, <3>10, <3>11
    <3>13. QED
      BY <3>6, <3>12
  <2>3. QED
    BY <2>1, <2>2
<1>11. g[n] \in Seq(E)
  BY <1>1, <1>4
<1>12. QED
  BY <1>9, <1>10, <1>11

\* F is what Only keeps of s: pos lists the kept places in their order.
Keeps(F, s, kept, pos) ==
  /\ \A j \in 1..Len(F) : pos[j] \in 1..Len(s) /\ pos[j] \in kept /\ F[j] = s[pos[j]]
  /\ \A i \in 1..Len(s) : i \in kept => \E j \in 1..Len(F) : pos[j] = i
  /\ \A j, k \in 1..Len(F) : j < k => pos[j] < pos[k]

\* What Only returns.
LEMMA OnlyPlaces ==
  ASSUME NEW E, NEW s \in Seq(E), NEW kept
  PROVE  /\ Only(s, kept) \in Seq(E)
         /\ \E pos \in [1..Len(Only(s, kept)) -> Nat] : Keeps(Only(s, kept), s, kept, pos)
<1> DEFINE ss == [i \in 1..Len(s) |-> IF i \in kept THEN <<s[i]>> ELSE <<>>]
           F == Only(s, kept)
<1>1. \A i \in 1..Len(s) : ss[i] = IF i \in kept THEN <<s[i]>> ELSE <<>>
  OBVIOUS
<1>2. ss \in Seq(Seq(E)) /\ Len(ss) = Len(s)
  <2>1. \A i \in 1..Len(s) : s[i] \in E
    OBVIOUS
  <2>2. \A i \in 1..Len(s) : ss[i] \in Seq(E)
    BY <1>1, <2>1
  <2>3. Len(s) \in Nat
    OBVIOUS
  <2>4. QED
    BY <2>2, <2>3
<1>3. F = FlattenSeq(ss)
  BY DEF Only
<1> HIDE DEF ss, F
<1>4. F \in Seq(E) /\ Len(F) \in Nat
  <2>1. F \in Seq(E)
    BY <1>2, <1>3, FlattenPlaces
  <2>2. QED
    BY <2>1
<1>5. PICK row \in [1..Len(F) -> Nat], col \in [1..Len(F) -> Nat] :
        Flattens(F, ss, Len(s), row, col)
  BY <1>2, <1>3, FlattenPlaces
<1>6. ASSUME NEW j \in 1..Len(F)
      PROVE  row[j] \in 1..Len(s) /\ row[j] \in kept /\ F[j] = s[row[j]] /\ col[j] = 1
  <2>1. row[j] \in 1..Len(s) /\ col[j] \in 1..Len(ss[row[j]]) /\ F[j] = ss[row[j]][col[j]]
    BY <1>5 DEF Flattens
  <2>2. ss[row[j]] = IF row[j] \in kept THEN <<s[row[j]]>> ELSE <<>>
    BY <1>1, <2>1
  <2>3. row[j] \in kept
    BY <2>1, <2>2
  <2>4. QED
    BY <2>1, <2>2, <2>3
<1>7. ASSUME NEW i \in 1..Len(s), i \in kept
      PROVE  \E j \in 1..Len(F) : row[j] = i
  <2>1. ss[i] = <<s[i]>>
    BY <1>1, <1>7
  <2>2. 1 \in 1..Len(ss[i])
    BY <2>1
  <2>3. QED
    BY <1>5, <2>2 DEF Flattens
<1>8. ASSUME NEW j \in 1..Len(F), NEW k \in 1..Len(F), j < k
      PROVE  row[j] < row[k]
  <2>1. row[j] < row[k] \/ (row[j] = row[k] /\ col[j] < col[k])
    BY <1>5, <1>8 DEF Flattens
  <2>2. QED
    BY <1>6, <2>1
<1>9. Keeps(F, s, kept, row)
  BY <1>6, <1>7, <1>8 DEF Keeps
<1>10. QED
  BY <1>4, <1>5, <1>9 DEF F

---------------------------------------------------------------------------
(* Lines and their numbers                                                *)

Unit == [old : Nat, new : Nat, kind : STRING, size : Nat]

\* The size of a prompt is a number; that of no line and of one line are known.
LEMMA RenderedSizes ==
  ASSUME NEW us \in Seq(Unit)
  PROVE  /\ Rendered(us) \in Nat \ {0}
         /\ Len(us) = 0 => Rendered(us) = PrefixSize + HunkSize
         /\ Len(us) = 1 => Rendered(us) = PrefixSize + HunkSize + us[1].size
<1> DEFINE n == Len(us)
           A == Nat \ {0}
           step == [x \in A \X (1..n) |-> x[1] + us[x[2]].size]
           Fold(it) == it = [t \in SUBSET DOMAIN us |->
                               IF t = {} THEN PrefixSize + HunkSize
                               ELSE it[t \ {Max(t)}] + us[Max(t)].size]
<1>1. n \in Nat /\ PrefixSize + HunkSize \in A /\ \A i \in 1..n : us[i].size \in Nat
  <2>1. \A i \in 1..n : us[i] \in Unit
    OBVIOUS
  <2>2. \A u \in Unit : u.size \in Nat
    BY DEF Unit
  <2>3. QED
    BY ChunkAssumption, <2>1, <2>2
<1>2. step \in [A \X (1..n) -> A]
  BY <1>1
<1>3. \A x \in A, k \in 1..n : step[<<x, k>>] = x + us[k].size
  OBVIOUS
<1>4. DOMAIN us = 1..n
  OBVIOUS
<1> HIDE DEF n, step, A
<1>5. PICK it0 \in [SUBSET (1..n) -> A] : Folds(it0, n, PrefixSize + HunkSize, step)
  BY <1>1, <1>2, FoldExists
<1>6. \A t \in SUBSET (1..n) :
        it0[t] = IF t = {} THEN PrefixSize + HunkSize ELSE step[<<it0[t \ {Max(t)}], Max(t)>>]
  BY <1>5, Zenon DEF Folds
<1>7. ASSUME NEW t \in SUBSET (1..n), t # {}
      PROVE  it0[t] = it0[t \ {Max(t)}] + us[Max(t)].size
  <2>1. Max(t) \in 1..n /\ t \ {Max(t)} \in SUBSET (1..n)
    BY <1>1, <1>7, FoldPlace
  <2>2. QED
    BY <1>3, <1>5, <1>6, <1>7, <2>1
<1>8. Fold(it0)
  BY <1>4, <1>6, <1>7
<1>9. PICK it : it = CHOOSE f : Fold(f)
  OBVIOUS
<1>10. Fold(it)
  BY <1>8, <1>9, Zenon
<1>11. Rendered(us) = it[1..n]
  BY <1>4, <1>9, Zenon DEF Rendered, FoldLeft, MapThenFoldSet
<1>12. it[{}] = PrefixSize + HunkSize
  BY <1>10
<1>13. ASSUME NEW t \in SUBSET (1..n), t # {}, it[t \ {Max(t)}] \in A
       PROVE  it[t] = step[<<it[t \ {Max(t)}], Max(t)>>]
  <2>1. Max(t) \in 1..n
    BY <1>1, <1>13, FoldPlace
  <2>2. it[t] = it[t \ {Max(t)}] + us[Max(t)].size
    BY <1>4, <1>10, <1>13
  <2>3. QED
    BY <1>3, <1>13, <2>1, <2>2
<1>14. PICK g \in [0..n -> A] : FoldsTo(g, n, PrefixSize + HunkSize, step, it[1..n])
  <2>1. Follows(it, n, A, PrefixSize + HunkSize, step)
    BY <1>12, <1>13 DEF Follows
  <2>2. QED
    BY <1>1, <1>2, <2>1, FoldRuns
<1>15. /\ g[0] = PrefixSize + HunkSize
       /\ \A k \in 1..n : g[k - 1] \in A => g[k] = g[k - 1] + us[k].size
  BY <1>3, <1>14 DEF Iterates, FoldsTo
<1>16. Rendered(us) = g[n] /\ g[n] \in A /\ g[0] \in A
  BY <1>1, <1>11, <1>14 DEF FoldsTo
<1>17. n = 1 => 1 \in 1..n /\ g[1] = g[1 - 1] + us[1].size
  BY <1>15, <1>16
<1>18. QED
  BY <1>15, <1>16, <1>17 DEF n, A

Numbering == [old : Nat, new : Nat, out : Seq(Unit)]

Numbers(x, l) == [old |-> x.old, new |-> x.new, kind |-> l.kind, size |-> l.size]

LEMMA NumberedTyped ==
  ASSUME NEW x \in Numbering, NEW l \in DiffLine
  PROVE  /\ Numbered(x, l) \in Numbering
         /\ Numbers(x, l) \in Unit
         /\ Numbered(x, l).new = IF CountsNew(l.kind) THEN x.new + 1 ELSE x.new
         /\ Numbered(x, l).out = IF l.kind \in {"add", "del", "ctx"}
                                 THEN Append(x.out, Numbers(x, l)) ELSE x.out
<1>1. x.old \in Nat /\ x.new \in Nat /\ x.out \in Seq(Unit) /\ l.kind \in STRING /\ l.size \in Nat
  BY DEF Numbering, DiffLine
<1>2. Numbers(x, l) \in Unit
  BY <1>1 DEF Numbers, Unit
<1>3. Append(x.out, Numbers(x, l)) \in Seq(Unit)
  BY <1>1, <1>2
<1>4. PICK o, w, u :
        /\ o = x.old + (IF l.kind \in {"del", "ctx"} THEN 1 ELSE 0)
        /\ w = x.new + (IF CountsNew(l.kind) THEN 1 ELSE 0)
        /\ u = IF l.kind \in {"add", "del", "ctx"} THEN Append(x.out, Numbers(x, l)) ELSE x.out
  OBVIOUS
<1>5. o \in Nat /\ w \in Nat /\ u \in Seq(Unit)
  BY <1>1, <1>3, <1>4
<1>6. Numbered(x, l) = [old |-> o, new |-> w, out |-> u]
  BY <1>4, Zenon DEF Numbered, Numbers
<1>7. w = IF CountsNew(l.kind) THEN x.new + 1 ELSE x.new
  BY <1>1, <1>4
<1>8. QED
  BY <1>2, <1>4, <1>5, <1>6, <1>7 DEF Numbering
\* The lines of a hunk one after the other.
NumbersUnits(g, h) ==
  /\ g[0] = [old |-> h.old, new |-> h.new, out |-> <<>>]
  /\ \A k \in 1..Len(h.lines) : g[k] = Numbered(g[k-1], h.lines[k])
  /\ Units(h) = g[Len(h.lines)].out

LEMMA UnitsRun ==
  ASSUME NEW h \in DiffHunk
  PROVE  \E g \in [0..Len(h.lines) -> Numbering] : NumbersUnits(g, h)
<1> DEFINE n == Len(h.lines)
           step == [x \in Numbering \X (1..n) |-> Numbered(x[1], h.lines[x[2]])]
           Fold(it) == it = [t \in SUBSET DOMAIN h.lines |->
                               IF t = {} THEN [old |-> h.old, new |-> h.new, out |-> <<>>]
                               ELSE Numbered(it[t \ {Max(t)}], h.lines[Max(t)])]
<1>1. /\ n \in Nat /\ [old |-> h.old, new |-> h.new, out |-> <<>>] \in Numbering
      /\ \A x \in Numbering, i \in 1..n : Numbered(x, h.lines[i]) \in Numbering
      /\ DOMAIN h.lines = 1..n
  <2>1. h.old \in Nat /\ h.new \in Nat /\ h.lines \in Seq(DiffLine)
    BY DEF DiffHunk
  <2>2. \A i \in 1..n : h.lines[i] \in DiffLine
    BY <2>1
  <2>3. \A x \in Numbering, i \in 1..n : Numbered(x, h.lines[i]) \in Numbering
    BY <2>2, NumberedTyped
  <2>4. n \in Nat /\ DOMAIN h.lines = 1..n /\ <<>> \in Seq(Unit)
    BY <2>1
  <2>5. [old |-> h.old, new |-> h.new, out |-> <<>>] \in Numbering
    BY <2>1, <2>4 DEF Numbering
  <2>6. QED
    BY <2>3, <2>4, <2>5
<1>2. step \in [Numbering \X (1..n) -> Numbering]
  BY <1>1
<1>3. \A x \in Numbering, k \in 1..n : step[<<x, k>>] = Numbered(x, h.lines[k])
  OBVIOUS
<1>4. DOMAIN h.lines = 1..n
  BY <1>1
<1> HIDE DEF n, step
<1>5. PICK it0 \in [SUBSET (1..n) -> Numbering] : Folds(it0, n, [old |-> h.old, new |-> h.new, out |-> <<>>], step)
  BY <1>1, <1>2, FoldExists
<1>6. \A t \in SUBSET (1..n) :
        it0[t] = IF t = {} THEN [old |-> h.old, new |-> h.new, out |-> <<>>] ELSE step[<<it0[t \ {Max(t)}], Max(t)>>]
  BY <1>5, Zenon DEF Folds
<1>7. ASSUME NEW t \in SUBSET (1..n), t # {}
      PROVE  it0[t] = Numbered(it0[t \ {Max(t)}], h.lines[Max(t)])
  <2>1. Max(t) \in 1..n /\ t \ {Max(t)} \in SUBSET (1..n)
    BY <1>1, <1>7, FoldPlace
  <2>2. it0[t \ {Max(t)}] \in Numbering
    BY <1>5, <2>1
  <2>3. it0[t] = step[<<it0[t \ {Max(t)}], Max(t)>>]
    BY <1>6, <1>7
  <2>4. QED
    BY <1>3, <2>1, <2>2, <2>3
<1>8. Fold(it0)
  BY <1>4, <1>6, <1>7, Zenon
<1>9. PICK it : it = CHOOSE f : Fold(f)
  OBVIOUS
<1>10. Fold(it)
  BY <1>8, <1>9, Zenon
<1>11. Units(h) = it[1..n].out
  BY <1>4, <1>9, Zenon DEF Units, FoldLeft, MapThenFoldSet
<1>12. it[{}] = [old |-> h.old, new |-> h.new, out |-> <<>>]
  BY <1>10, Zenon
<1>13. ASSUME NEW t \in SUBSET (1..n), t # {}, it[t \ {Max(t)}] \in Numbering
       PROVE  it[t] = step[<<it[t \ {Max(t)}], Max(t)>>]
  <2>1. Max(t) \in 1..n
    BY <1>1, <1>13, FoldPlace
  <2>2. it[t] = Numbered(it[t \ {Max(t)}], h.lines[Max(t)])
    BY <1>4, <1>10, <1>13, Zenon
  <2>3. QED
    BY <1>3, <1>13, <2>1, <2>2
<1>14. PICK g \in [0..n -> Numbering] : FoldsTo(g, n, [old |-> h.old, new |-> h.new, out |-> <<>>], step, it[1..n])
  <2>1. Follows(it, n, Numbering, [old |-> h.old, new |-> h.new, out |-> <<>>], step)
    BY <1>12, <1>13, Zenon DEF Follows
  <2>2. QED
    BY <1>1, <1>2, <2>1, FoldRuns
<1>15. ASSUME NEW k \in 1..n PROVE g[k] = Numbered(g[k-1], h.lines[k])
  <2>1. k - 1 \in 0..n
    BY <1>1
  <2>2. g[k-1] \in Numbering
    BY <2>1
  <2>3. g[k] = step[<<g[k-1], k>>]
    BY <1>14 DEF FoldsTo, Iterates
  <2>4. QED
    BY <1>3, <2>2, <2>3
<1>16. NumbersUnits(g, h)
  BY <1>11, <1>14, <1>15, Zenon DEF FoldsTo, Iterates, NumbersUnits, n
<1>17. QED
  BY <1>16, Zenon DEF n

\* Counting the lines before a place.
LEMMA NewLinesStep ==
  ASSUME NEW h \in DiffHunk
  PROVE  /\ NewLines(h, 0) = 0
         /\ \A n \in Nat : NewLines(h, n) \in Nat
         /\ \A n \in Nat \ {0} : NewLines(h, n) =
              IF CountsNew(h.lines[n].kind) THEN NewLines(h, n - 1) + 1 ELSE NewLines(h, n - 1)
<1> DEFINE S(n) == {k \in 1..n : CountsNew(h.lines[k].kind)}
<1>1. \A n \in Nat : IsFiniteSet(S(n)) /\ Cardinality(S(n)) \in Nat
  <2>1. \A n \in Nat : IsFiniteSet(1..n)
    BY FS_Interval
  <2>2. \A n \in Nat : S(n) \subseteq 1..n
    OBVIOUS
  <2> HIDE DEF S
  <2>3. QED
    BY <2>1, <2>2, FS_Subset, FS_CardinalityType
<1>2. S(0) = {}
  OBVIOUS
<1>3. ASSUME NEW n \in Nat \ {0}
      PROVE  /\ S(n) = IF CountsNew(h.lines[n].kind) THEN S(n - 1) \cup {n} ELSE S(n - 1)
             /\ n \notin S(n - 1) /\ n - 1 \in Nat
  <2>1. 1..n = (1..(n-1)) \cup {n} /\ n \notin 1..(n-1)
    OBVIOUS
  <2>2. QED
    BY <2>1
<1>4. \A n : NewLines(h, n) = Cardinality(S(n))
  BY DEF NewLines
<1> HIDE DEF S
<1>5. \A n \in Nat \ {0} : NewLines(h, n) =
        IF CountsNew(h.lines[n].kind) THEN NewLines(h, n - 1) + 1 ELSE NewLines(h, n - 1)
  <2>1. SUFFICES ASSUME NEW n \in Nat \ {0}
                 PROVE  NewLines(h, n) = IF CountsNew(h.lines[n].kind)
                                         THEN NewLines(h, n - 1) + 1 ELSE NewLines(h, n - 1)
    OBVIOUS
  <2>2. CASE CountsNew(h.lines[n].kind)
    <3>1. S(n) = S(n - 1) \cup {n} /\ n \notin S(n - 1) /\ IsFiniteSet(S(n - 1))
      BY <1>1, <1>3, <2>2
    <3>2. Cardinality(S(n)) = Cardinality(S(n - 1)) + 1
      BY <3>1, FS_AddElement
    <3>3. QED
      BY <1>4, <2>2, <3>2
  <2>3. CASE ~CountsNew(h.lines[n].kind)
    BY <1>3, <1>4, <2>3
  <2>4. QED
    BY <2>2, <2>3
<1>6. NewLines(h, 0) = 0
  BY <1>2, <1>4, FS_EmptySet
<1>7. QED
  BY <1>1, <1>4, <1>5, <1>6

\* The places of the added lines among units, and their numbers.
Adds(us) == {i \in 1..Len(us) : us[i].kind = "add"}
Distinct(us) == \A i, j \in Adds(us) : i # j => us[i].new # us[j].new

\* The number a line of a hunk has on the new side.
NumberAt(h, q) == h.new + NewLines(h, q - 1)

\* us are the units of the first k lines of h.
UnitsTo(us, h, k) ==
  /\ \A j \in Adds(us) : /\ us[j].new >= h.new /\ us[j].new < h.new + NewLines(h, k)
                         /\ \E q \in 1..k : h.lines[q].kind = "add" /\ us[j].new = NumberAt(h, q)
  /\ \A q \in 1..k : h.lines[q].kind = "add" => \E j \in Adds(us) : us[j].new = NumberAt(h, q)
  /\ Distinct(us)

\* One more unit.
LEMMA AddsAppend ==
  ASSUME NEW us \in Seq(Unit), NEW u \in Unit
  PROVE  /\ \A i \in 1..Len(us) : Append(us, u)[i] = us[i]
         /\ Append(us, u)[Len(us) + 1] = u
         /\ Adds(Append(us, u)) = IF u.kind = "add" THEN Adds(us) \cup {Len(us) + 1} ELSE Adds(us)
<1>1. Len(us) \in Nat /\ Len(Append(us, u)) = Len(us) + 1
  OBVIOUS
<1>2. \A i \in 1..Len(us) : Append(us, u)[i] = us[i]
  OBVIOUS
<1>3. Append(us, u)[Len(us) + 1] = u
  OBVIOUS
<1>4. 1..(Len(us) + 1) = (1..Len(us)) \cup {Len(us) + 1}
  BY <1>1
<1>5. Adds(Append(us, u)) = IF u.kind = "add" THEN Adds(us) \cup {Len(us) + 1} ELSE Adds(us)
  <2> DEFINE vs == Append(us, u)
  <2>1. Adds(vs) = {i \in (1..Len(us)) \cup {Len(us) + 1} : vs[i].kind = "add"}
    BY <1>1, <1>4 DEF Adds
  <2>2. \A i \in 1..Len(us) : vs[i] = us[i]
    BY <1>2
  <2>3. vs[Len(us) + 1] = u
    BY <1>3
  <2> HIDE DEF vs
  <2>4. Adds(vs) = IF u.kind = "add" THEN Adds(us) \cup {Len(us) + 1} ELSE Adds(us)
    BY <2>1, <2>2, <2>3 DEF Adds
  <2>5. QED
    BY <2>4 DEF vs
<1>6. QED
  BY <1>2, <1>3, <1>5

\* One more line.
LEMMA UnitsToStep ==
  ASSUME NEW h \in DiffHunk, NEW k \in 1..Len(h.lines), NEW x \in Numbering,
         x.new = h.new + NewLines(h, k - 1), UnitsTo(x.out, h, k - 1)
  PROVE  /\ Numbered(x, h.lines[k]).new = h.new + NewLines(h, k)
         /\ UnitsTo(Numbered(x, h.lines[k]).out, h, k)
<1> DEFINE l == h.lines[k]
           u == Numbers(x, l)
           us == x.out
           vs == Numbered(x, l).out
<1>1. /\ l \in DiffLine /\ h.new \in Nat /\ k \in Nat \ {0} /\ k - 1 \in Nat
      /\ x.new \in Nat /\ us \in Seq(Unit) /\ Len(us) \in Nat
  BY DEF DiffHunk, Numbering
<1>2. /\ u \in Unit
      /\ Numbered(x, l).new = IF CountsNew(l.kind) THEN x.new + 1 ELSE x.new
      /\ vs = IF l.kind \in {"add", "del", "ctx"} THEN Append(us, u) ELSE us
  BY <1>1, NumberedTyped
<1>3. u.kind = l.kind /\ u.new = x.new
  BY DEF Numbers
<1>4. /\ NewLines(h, k) \in Nat /\ NewLines(h, k - 1) \in Nat
      /\ NewLines(h, k) = IF CountsNew(l.kind) THEN NewLines(h, k - 1) + 1 ELSE NewLines(h, k - 1)
  BY <1>1, NewLinesStep
<1>5. Numbered(x, l).new = h.new + NewLines(h, k)
  BY <1>1, <1>2, <1>4
<1>6. NumberAt(h, k) = x.new
  BY DEF NumberAt
<1>7. l.kind = "add" => CountsNew(l.kind)
  BY DEF CountsNew
<1>8. 1..k = (1..(k - 1)) \cup {k}
  BY <1>1
<1> DEFINE add == l.kind = "add"
<1>9. Adds(vs) = IF add THEN Adds(us) \cup {Len(us) + 1} ELSE Adds(us)
  <2> HIDE DEF us, vs, u, l
  <2>1. Adds(Append(us, u)) = IF add THEN Adds(us) \cup {Len(us) + 1} ELSE Adds(us)
    BY <1>1, <1>2, <1>3, AddsAppend
  <2>2. CASE vs = Append(us, u)
    BY <2>1, <2>2
  <2>3. CASE vs = us /\ ~add
    BY <2>3
  <2>4. QED
    BY <1>2, <2>2, <2>3
<1>10. /\ \A i \in 1..Len(us) : vs[i] = us[i]
       /\ add => vs[Len(us) + 1] = u
  <2> HIDE DEF us, vs, u, l
  <2>1. /\ \A i \in 1..Len(us) : Append(us, u)[i] = us[i]
        /\ Append(us, u)[Len(us) + 1] = u
    BY <1>1, <1>2, AddsAppend
  <2>2. CASE vs = Append(us, u)
    BY <2>1, <2>2
  <2>3. CASE vs = us /\ ~add
    BY <2>3
  <2>4. QED
    BY <1>2, <2>2, <2>3
<1>11. Adds(us) \subseteq 1..Len(us) /\ Len(us) + 1 \notin 1..Len(us)
  BY <1>1 DEF Adds
<1> HIDE DEF us, vs, u, l
<1>12. /\ \A j \in Adds(us) : /\ us[j].new >= h.new /\ us[j].new < x.new
                              /\ \E q \in 1..(k - 1) : h.lines[q].kind = "add" /\ us[j].new = NumberAt(h, q)
       /\ \A q \in 1..(k - 1) : h.lines[q].kind = "add" => \E j \in Adds(us) : us[j].new = NumberAt(h, q)
       /\ Distinct(us)
  BY DEF UnitsTo, us
<1>13. \A j \in Adds(us) : us[j].new \in Nat
  <2>1. \A j \in 1..Len(us) : us[j] \in Unit
    BY <1>1
  <2>2. QED
    BY <1>11, <2>1 DEF Unit
<1>14. ASSUME NEW j \in Adds(vs)
       PROVE  /\ vs[j].new >= h.new /\ vs[j].new < h.new + NewLines(h, k)
              /\ \E q \in 1..k : h.lines[q].kind = "add" /\ vs[j].new = NumberAt(h, q)
  <2>1. CASE j \in Adds(us)
    <3>1. vs[j] = us[j]
      BY <1>10, <1>11, <2>1
    <3>2. us[j].new >= h.new /\ us[j].new < h.new + NewLines(h, k)
      <4>1. us[j].new \in Nat /\ us[j].new >= h.new /\ us[j].new < x.new
        BY <1>12, <1>13, <2>1
      <4>2. x.new <= h.new + NewLines(h, k)
        BY <1>1, <1>4
      <4>3. h.new + NewLines(h, k) \in Nat /\ x.new \in Nat
        BY <1>1, <1>4
      <4>4. QED
        BY <4>1, <4>2, <4>3
    <3>3. QED
      BY <1>8, <1>12, <2>1, <3>1, <3>2
  <2>2. CASE j \notin Adds(us)
    <3>1. add /\ j = Len(us) + 1 /\ vs[j] = u
      BY <1>9, <1>10, <2>2
    <3>2. vs[j].new = x.new
      BY <1>3, <3>1
    <3>3. x.new >= h.new /\ x.new < h.new + NewLines(h, k)
      BY <1>1, <1>4, <1>7, <3>1
    <3>4. h.lines[k].kind = "add"
      BY <3>1 DEF l
    <3>5. QED
      BY <1>6, <1>8, <3>2, <3>3, <3>4
  <2>3. QED
    BY <2>1, <2>2
<1>15. ASSUME NEW q \in 1..k, h.lines[q].kind = "add"
       PROVE  \E j \in Adds(vs) : vs[j].new = NumberAt(h, q)
  <2>1. CASE q = k
    <3>1. add
      BY <1>15, <2>1 DEF l
    <3>2. Len(us) + 1 \in Adds(vs) /\ vs[Len(us) + 1].new = x.new
      BY <1>3, <1>9, <1>10, <3>1
    <3>3. QED
      BY <1>6, <2>1, <3>2
  <2>2. CASE q # k
    <3>1. q \in 1..(k - 1)
      BY <1>8, <2>2
    <3>2. PICK j \in Adds(us) : us[j].new = NumberAt(h, q)
      BY <1>12, <1>15, <3>1
    <3>3. QED
      BY <1>9, <1>10, <1>11, <3>2
  <2>3. QED
    BY <2>1, <2>2
<1>16. Distinct(vs)
  <2>1. SUFFICES ASSUME NEW i \in Adds(vs), NEW j \in Adds(vs), i # j PROVE vs[i].new # vs[j].new
    BY DEF Distinct
  <2>2. CASE i \in Adds(us) /\ j \in Adds(us)
    BY <1>10, <1>11, <1>12, <2>1, <2>2 DEF Distinct
  <2>3. ASSUME NEW a \in Adds(us), NEW b \in Adds(vs), b \notin Adds(us)
        PROVE  vs[a].new # vs[b].new
    <3>1. add /\ b = Len(us) + 1 /\ vs[b].new = x.new
      BY <1>3, <1>9, <1>10, <2>3
    <3>2. vs[a].new = us[a].new /\ us[a].new < x.new
      BY <1>10, <1>11, <1>12
    <3>3. QED
      BY <1>1, <1>13, <3>1, <3>2
  <2>4. CASE i \notin Adds(us) /\ j \notin Adds(us)
    BY <1>9, <2>1, <2>4
  <2>5. QED
    BY <2>2, <2>3, <2>4
<1>17. UnitsTo(vs, h, k)
  BY <1>14, <1>15, <1>16 DEF UnitsTo
<1>18. QED
  BY <1>5, <1>17 DEF vs, l

\* The units of a hunk carry the numbers of its added lines.
LEMMA UnitsNumbers ==
  ASSUME NEW h \in DiffHunk
  PROVE  Units(h) \in Seq(Unit) /\ UnitsTo(Units(h), h, Len(h.lines))
<1> DEFINE n == Len(h.lines)
<1>1. n \in Nat /\ h.new \in Nat
  <2>1. h.lines \in Seq(DiffLine) /\ h.new \in Nat
    BY DEF DiffHunk
  <2>2. QED
    BY <2>1
<1>2. PICK g \in [0..n -> Numbering] : NumbersUnits(g, h)
  BY UnitsRun
<1> DEFINE P == {k \in 0..n : g[k].new = h.new + NewLines(h, k) /\ UnitsTo(g[k].out, h, k)}
<1>3. 0 \in P
  <2>1. g[0].new = h.new /\ g[0].out = <<>>
    BY <1>2 DEF NumbersUnits
  <2>2. NewLines(h, 0) = 0
    BY NewLinesStep
  <2>3. Adds(<<>>) = {}
    BY DEF Adds
  <2>4. UnitsTo(<<>>, h, 0)
    BY <2>3 DEF UnitsTo, Distinct
  <2>5. g[0].new = h.new + NewLines(h, 0)
    BY <1>1, <2>1, <2>2
  <2>6. QED
    BY <1>1, <2>1, <2>4, <2>5
<1>4. ASSUME NEW k \in 1..n, k - 1 \in P PROVE k \in P
  <2>1. k - 1 \in 0..n /\ k \in 0..n
    BY <1>1
  <2>2. g[k - 1] \in Numbering
    BY <2>1
  <2>3. g[k] = Numbered(g[k - 1], h.lines[k])
    BY <1>2 DEF NumbersUnits
  <2>4. g[k - 1].new = h.new + NewLines(h, k - 1) /\ UnitsTo(g[k - 1].out, h, k - 1)
    BY <1>4
  <2>5. g[k].new = h.new + NewLines(h, k) /\ UnitsTo(g[k].out, h, k)
    BY <2>2, <2>3, <2>4, UnitsToStep
  <2>6. QED
    BY <2>1, <2>5
<1>5. UnitsTo(g[n].out, h, n)
  <2>1. \A k \in 0..n : k \in P
    <3> HIDE DEF n, P
    <3>1. QED
      BY <1>1, <1>3, <1>4, Climb
  <2>2. n \in 0..n
    BY <1>1
  <2>3. QED
    BY <2>1, <2>2
<1>6. Units(h) = g[n].out
  BY <1>2 DEF NumbersUnits
<1>7. g[n].out \in Seq(Unit)
  <2>1. g[n] \in Numbering
    BY <1>1
  <2>2. QED
    BY <2>1 DEF Numbering
<1>8. QED
  BY <1>5, <1>6, <1>7

\* us are the added lines of the hunks, each once.
UnitsOf(us, hunks) ==
  /\ \A i \in Adds(us) : \E k \in 1..Len(hunks) : \E q \in 1..Len(hunks[k].lines) :
       hunks[k].lines[q].kind = "add" /\ us[i].new = NumberAt(hunks[k], q)
  /\ \A k \in 1..Len(hunks) : \A q \in 1..Len(hunks[k].lines) :
       hunks[k].lines[q].kind = "add" => \E i \in Adds(us) : us[i].new = NumberAt(hunks[k], q)
  /\ Distinct(us)

LEMMA BlockUnitsNumbers ==
  ASSUME NEW block \in DiffBlock, HunksFollow(block.hunks)
  PROVE  BlockUnits(block) \in Seq(Unit) /\ UnitsOf(BlockUnits(block), block.hunks)
<1> DEFINE hs == block.hunks
           ss == [i \in 1..Len(hs) |-> Units(hs[i])]
           F == BlockUnits(block)
<1>1. hs \in Seq(DiffHunk) /\ Len(hs) \in Nat /\ \A i \in 1..Len(hs) : hs[i] \in DiffHunk
  <2>1. hs \in Seq(DiffHunk)
    BY DEF DiffBlock
  <2>2. QED
    BY <2>1
<1>2. \A i \in 1..Len(hs) : ss[i] = Units(hs[i])
  OBVIOUS
<1>3. \A i \in 1..Len(hs) : ss[i] \in Seq(Unit) /\ UnitsTo(ss[i], hs[i], Len(hs[i].lines))
  <2> HIDE DEF hs, ss
  <2>1. QED
    BY <1>1, <1>2, UnitsNumbers
<1>4. ss \in Seq(Seq(Unit)) /\ Len(ss) = Len(hs)
  <2> HIDE DEF hs
  <2>1. \A i \in 1..Len(hs) : Units(hs[i]) \in Seq(Unit)
    BY <1>2, <1>3
  <2>2. QED
    BY <1>1, <2>1
<1>5. F = FlattenSeq(ss)
  BY DEF BlockUnits
<1> HIDE DEF F, ss, hs
<1>6. F \in Seq(Unit) /\ Len(F) \in Nat
  <2>1. F \in Seq(Unit)
    BY <1>4, <1>5, FlattenPlaces
  <2>2. QED
    BY <2>1
<1>7. PICK row \in [1..Len(F) -> Nat], col \in [1..Len(F) -> Nat] : Flattens(F, ss, Len(hs), row, col)
  BY <1>4, <1>5, FlattenPlaces
<1>8. ASSUME NEW j \in Adds(F)
      PROVE  /\ j \in 1..Len(F) /\ row[j] \in 1..Len(hs)
             /\ col[j] \in Adds(ss[row[j]]) /\ F[j] = ss[row[j]][col[j]]
  BY <1>7 DEF Flattens, Adds
<1>9. ASSUME NEW i \in 1..Len(hs), NEW k \in Adds(ss[i])
      PROVE  \E j \in Adds(F) : row[j] = i /\ col[j] = k /\ F[j] = ss[i][k]
  <2>1. k \in 1..Len(ss[i]) /\ ss[i][k].kind = "add"
    BY DEF Adds
  <2>2. PICK j \in 1..Len(F) : row[j] = i /\ col[j] = k
    BY <1>7, <2>1 DEF Flattens
  <2>3. F[j] = ss[i][k]
    BY <1>7, <2>2 DEF Flattens
  <2>4. QED
    BY <2>1, <2>2, <2>3 DEF Adds
<1>10. ASSUME NEW i \in Adds(F)
       PROVE  \E k \in 1..Len(hs) : \E q \in 1..Len(hs[k].lines) :
                hs[k].lines[q].kind = "add" /\ F[i].new = NumberAt(hs[k], q)
  <2>1. PICK r, c : r = row[i] /\ c = col[i]
    OBVIOUS
  <2>2. r \in 1..Len(hs) /\ c \in Adds(ss[r]) /\ F[i] = ss[r][c]
    BY <1>8, <2>1
  <2>3. PICK q \in 1..Len(hs[r].lines) :
          hs[r].lines[q].kind = "add" /\ ss[r][c].new = NumberAt(hs[r], q)
    BY <1>3, <2>2 DEF UnitsTo
  <2>4. F[i].new = NumberAt(hs[r], q)
    BY <2>2, <2>3
  <2>5. QED
    BY <2>2, <2>3, <2>4
<1>11. ASSUME NEW k \in 1..Len(hs), NEW q \in 1..Len(hs[k].lines), hs[k].lines[q].kind = "add"
       PROVE  \E i \in Adds(F) : F[i].new = NumberAt(hs[k], q)
  <2>1. PICK c \in Adds(ss[k]) : ss[k][c].new = NumberAt(hs[k], q)
    BY <1>3, <1>11 DEF UnitsTo
  <2>2. PICK i \in Adds(F) : row[i] = k /\ col[i] = c /\ F[i] = ss[k][c]
    BY <1>9, Zenon
  <2>3. F[i].new = NumberAt(hs[k], q)
    BY <2>1, <2>2
  <2>4. QED
    BY <2>3
<1>12. \A j \in 1..Len(F) : F[j].new \in Nat
  <2>1. \A j \in 1..Len(F) : F[j] \in Unit
    BY <1>6
  <2>2. QED
    BY <2>1 DEF Unit
<1>13. ASSUME NEW i \in Adds(F), NEW j \in Adds(F), row[i] < row[j]
       PROVE  F[i].new < F[j].new
  <2>1. /\ F[i].new < hs[row[i]].new + NewLines(hs[row[i]], Len(hs[row[i]].lines))
        /\ F[j].new >= hs[row[j]].new
    BY <1>3, <1>8 DEF UnitsTo
  <2>2. hs[row[i]].new + NewLines(hs[row[i]], Len(hs[row[i]].lines)) <= hs[row[j]].new
    BY <1>8, <1>13 DEF HunksFollow, hs
  <2>3. \A k \in 1..Len(hs) : hs[k].new \in Nat /\ NewLines(hs[k], Len(hs[k].lines)) \in Nat
    <3>1. SUFFICES ASSUME NEW k \in 1..Len(hs) 
                   PROVE hs[k].new \in Nat /\ NewLines(hs[k], Len(hs[k].lines)) \in Nat
      OBVIOUS
    <3>2. hs[k] \in DiffHunk /\ hs[k].new \in Nat /\ Len(hs[k].lines) \in Nat
      BY <1>1 DEF DiffHunk
    <3>3. QED
      BY <3>2, NewLinesStep
  <2>4. /\ F[i].new \in Nat /\ F[j].new \in Nat /\ hs[row[j]].new \in Nat
        /\ hs[row[i]].new + NewLines(hs[row[i]], Len(hs[row[i]].lines)) \in Nat
    <3>1. row[i] \in 1..Len(hs) /\ row[j] \in 1..Len(hs) /\ i \in 1..Len(F) /\ j \in 1..Len(F)
      BY <1>8
    <3>2. hs[row[i]].new \in Nat /\ NewLines(hs[row[i]], Len(hs[row[i]].lines)) \in Nat
      BY <2>3, <3>1
    <3>3. F[i].new \in Nat /\ F[j].new \in Nat
      BY <1>12, <3>1, Zenon
    <3>4. hs[row[j]].new \in Nat
      BY <2>3, <3>1, Zenon
    <3>5. hs[row[i]].new + NewLines(hs[row[i]], Len(hs[row[i]].lines)) \in Nat
      BY <3>2
    <3>6. QED
      BY <3>3, <3>4, <3>5
  <2>5. PICK a \in Nat, b \in Nat, c \in Nat, d \in Nat :
          /\ a = F[i].new /\ c = hs[row[j]].new /\ d = F[j].new
          /\ b = hs[row[i]].new + NewLines(hs[row[i]], Len(hs[row[i]].lines))
    BY <2>4
  <2>6. a < b /\ b <= c /\ d >= c
    BY <2>1, <2>2, <2>5
  <2>7. a < d
    BY <2>6
  <2>8. QED
    BY <2>5, <2>7
<1>14. ASSUME NEW i \in Adds(F), NEW j \in Adds(F), i # j
       PROVE  F[i].new # F[j].new
  <2>1. CASE row[i] = row[j]
    <3>1. col[i] # col[j]
      <4>1. i \in 1..Len(F) /\ j \in 1..Len(F)
        BY <1>8
      <4>2. row[i] = row[j] /\ col[i] = col[j] => i = j
        BY <1>7, <4>1 DEF Flattens
      <4>3. QED
        BY <1>14, <2>1, <4>2
    <3>2. Distinct(ss[row[i]])
      BY <1>3, <1>8 DEF UnitsTo
    <3>3. /\ F[i] = ss[row[i]][col[i]] /\ F[j] = ss[row[i]][col[j]]
          /\ col[i] \in Adds(ss[row[i]]) /\ col[j] \in Adds(ss[row[i]])
      BY <1>8, <2>1
    <3>4. ss[row[i]][col[i]].new # ss[row[i]][col[j]].new
      BY <3>1, <3>2, <3>3 DEF Distinct
    <3>5. QED
      BY <3>3, <3>4
  <2>2. CASE row[i] # row[j]
    <3>1. row[i] < row[j] \/ row[j] < row[i]
      BY <1>8, <2>2
    <3>2. QED
      BY <1>8, <1>12, <1>13, <3>1
  <2>3. QED
    BY <2>1, <2>2
<1>15. UnitsOf(F, hs)
  BY <1>10, <1>11, <1>14 DEF UnitsOf, Distinct
<1>16. QED
  BY <1>6, <1>15 DEF F, hs

---------------------------------------------------------------------------
(* Cutting a block                                                        *)

CutState == [done : Seq(Seq(Unit)), cur : Seq(Unit)]

LEMMA TruncatedUnit ==
  ASSUME NEW u \in Unit
  PROVE  /\ Truncated(u) \in Unit /\ Truncated(u).kind = u.kind /\ Truncated(u).new = u.new
         /\ <<Truncated(u)>> \in Seq(Unit) /\ Rendered(<<Truncated(u)>>) <= Budget
<1>1. u.old \in Nat /\ u.new \in Nat /\ u.kind \in STRING /\ u.size \in Nat
  BY DEF Unit
<1>2. <<u>> \in Seq(Unit) /\ Len(<<u>>) = 1 /\ <<u>>[1] = u
  OBVIOUS
<1>3. Rendered(<<u>>) = PrefixSize + HunkSize + u.size
  BY <1>2, RenderedSizes
<1>4. CASE Rendered(<<u>>) > Budget
  <2> DEFINE w == [u EXCEPT !.size = Budget - PrefixSize - HunkSize]
  <2>1. Truncated(u) = w
    BY <1>4 DEF Truncated
  <2>2. Budget - PrefixSize - HunkSize \in Nat
    BY ChunkAssumption
  <2>3. w \in Unit /\ w.kind = u.kind /\ w.new = u.new /\ w.size = Budget - PrefixSize - HunkSize
    BY <1>1, <2>2 DEF Unit
  <2> HIDE DEF w
  <2>4. <<w>> \in Seq(Unit) /\ Len(<<w>>) = 1 /\ <<w>>[1] = w
    BY <2>3
  <2>5. Rendered(<<w>>) = PrefixSize + HunkSize + w.size
    BY <2>4, RenderedSizes
  <2>6. Rendered(<<w>>) = Budget
    BY <2>2, <2>3, <2>5, ChunkAssumption
  <2>7. QED
    BY <2>1, <2>3, <2>4, <2>6, ChunkAssumption
<1>5. CASE ~(Rendered(<<u>>) > Budget)
  <2>1. Truncated(u) = u
    BY <1>5 DEF Truncated
  <2>2. Rendered(<<u>>) \in Nat
    BY <1>2, RenderedSizes
  <2>3. QED
    BY <1>2, <1>5, <2>1, <2>2, ChunkAssumption
<1>6. QED
  BY <1>4, <1>5

LEMMA CutTyped ==
  ASSUME NEW s \in CutState, NEW u \in Unit
  PROVE  Cut(s, u) \in CutState
<1> DEFINE breaks == s.cur # <<>> /\ ~Contiguous(Last(s.cur), u)
           t == IF breaks THEN [done |-> Append(s.done, s.cur), cur |-> <<>>] ELSE s
<1>1. s.done \in Seq(Seq(Unit)) /\ s.cur \in Seq(Unit)
  BY DEF CutState
<1>2. Append(s.done, s.cur) \in Seq(Seq(Unit)) /\ <<>> \in Seq(Unit)
  BY <1>1
<1>3. t \in CutState
  BY <1>2 DEF CutState
<1> HIDE DEF t
<1>4. t.done \in Seq(Seq(Unit)) /\ t.cur \in Seq(Unit)
  BY <1>3 DEF CutState
<1>5. /\ Append(t.cur, u) \in Seq(Unit) /\ <<Truncated(u)>> \in Seq(Unit)
      /\ Append(t.done, t.cur) \in Seq(Seq(Unit))
  <2>1. <<Truncated(u)>> \in Seq(Unit)
    BY TruncatedUnit
  <2>2. Append(t.cur, u) \in Seq(Unit)
    BY <1>4
  <2>3. Append(t.done, t.cur) \in Seq(Seq(Unit))
    BY <1>4
  <2>4. QED
    BY <2>1, <2>2, <2>3
<1>6. Cut(s, u) = IF Rendered(Append(t.cur, u)) <= Budget THEN [t EXCEPT !.cur = Append(@, u)]
                  ELSE [done |-> IF t.cur = <<>> THEN t.done ELSE Append(t.done, t.cur),
                        cur |-> <<Truncated(u)>>]
  BY Zenon DEF Cut, t
<1>7. [t EXCEPT !.cur = Append(@, u)] \in CutState
  BY <1>3, <1>5 DEF CutState
<1>8. [done |-> IF t.cur = <<>> THEN t.done ELSE Append(t.done, t.cur),
       cur |-> <<Truncated(u)>>] \in CutState
  BY <1>4, <1>5 DEF CutState
<1>9. QED
  BY <1>6, <1>7, <1>8
\* The units of a block one after the other.
CutsUnits(g, us) ==
  /\ g[0] = [done |-> <<>>, cur |-> <<>>]
  /\ \A k \in 1..Len(us) : g[k] = Cut(g[k-1], us[k])
  /\ FoldLeft(Cut, [done |-> <<>>, cur |-> <<>>], us) = g[Len(us)]

LEMMA CutRun ==
  ASSUME NEW us \in Seq(Unit)
  PROVE  \E g \in [0..Len(us) -> CutState] : CutsUnits(g, us)
<1> DEFINE n == Len(us)
           step == [x \in CutState \X (1..n) |-> Cut(x[1], us[x[2]])]
           Fold(it) == it = [t \in SUBSET DOMAIN us |->
                               IF t = {} THEN [done |-> <<>>, cur |-> <<>>]
                               ELSE Cut(it[t \ {Max(t)}], us[Max(t)])]
<1>1. /\ n \in Nat /\ [done |-> <<>>, cur |-> <<>>] \in CutState
      /\ \A x \in CutState, i \in 1..n : Cut(x, us[i]) \in CutState
      /\ DOMAIN us = 1..n
  <2>1. \A i \in 1..n : us[i] \in Unit
    OBVIOUS
  <2>2. \A x \in CutState, i \in 1..n : Cut(x, us[i]) \in CutState
    BY <2>1, CutTyped
  <2>3. <<>> \in Seq(Unit) /\ <<>> \in Seq(Seq(Unit))
    OBVIOUS
  <2>4. QED
    BY <2>2, <2>3 DEF CutState
<1>2. step \in [CutState \X (1..n) -> CutState]
  BY <1>1
<1>3. \A x \in CutState, k \in 1..n : step[<<x, k>>] = Cut(x, us[k])
  OBVIOUS
<1>4. DOMAIN us = 1..n
  BY <1>1
<1> HIDE DEF n, step
<1>5. PICK it0 \in [SUBSET (1..n) -> CutState] : Folds(it0, n, [done |-> <<>>, cur |-> <<>>], step)
  BY <1>1, <1>2, FoldExists
<1>6. \A t \in SUBSET (1..n) :
        it0[t] = IF t = {} THEN [done |-> <<>>, cur |-> <<>>] ELSE step[<<it0[t \ {Max(t)}], Max(t)>>]
  BY <1>5, Zenon DEF Folds
<1>7. ASSUME NEW t \in SUBSET (1..n), t # {}
      PROVE  it0[t] = Cut(it0[t \ {Max(t)}], us[Max(t)])
  <2>1. Max(t) \in 1..n /\ t \ {Max(t)} \in SUBSET (1..n)
    BY <1>1, <1>7, FoldPlace
  <2>2. it0[t \ {Max(t)}] \in CutState
    BY <1>5, <2>1
  <2>3. it0[t] = step[<<it0[t \ {Max(t)}], Max(t)>>]
    BY <1>6, <1>7
  <2>4. QED
    BY <1>3, <2>1, <2>2, <2>3
<1>8. Fold(it0)
  BY <1>4, <1>6, <1>7, Zenon
<1>9. PICK it : it = CHOOSE f : Fold(f)
  OBVIOUS
<1>10. Fold(it)
  BY <1>8, <1>9, Zenon
<1>11. FoldLeft(Cut, [done |-> <<>>, cur |-> <<>>], us) = it[1..n]
  BY <1>4, <1>9, Zenon DEF FoldLeft, MapThenFoldSet
<1>12. it[{}] = [done |-> <<>>, cur |-> <<>>]
  BY <1>10, Zenon
<1>13. ASSUME NEW t \in SUBSET (1..n), t # {}, it[t \ {Max(t)}] \in CutState
       PROVE  it[t] = step[<<it[t \ {Max(t)}], Max(t)>>]
  <2>1. Max(t) \in 1..n
    BY <1>1, <1>13, FoldPlace
  <2>2. it[t] = Cut(it[t \ {Max(t)}], us[Max(t)])
    BY <1>4, <1>10, <1>13, Zenon
  <2>3. QED
    BY <1>3, <1>13, <2>1, <2>2
<1>14. PICK g \in [0..n -> CutState] : FoldsTo(g, n, [done |-> <<>>, cur |-> <<>>], step, it[1..n])
  <2>1. Follows(it, n, CutState, [done |-> <<>>, cur |-> <<>>], step)
    BY <1>12, <1>13, Zenon DEF Follows
  <2>2. QED
    BY <1>1, <1>2, <2>1, FoldRuns
<1>15. ASSUME NEW k \in 1..n PROVE g[k] = Cut(g[k-1], us[k])
  <2>1. k - 1 \in 0..n
    BY <1>1
  <2>2. g[k-1] \in CutState
    BY <2>1
  <2>3. g[k] = step[<<g[k-1], k>>]
    BY <1>14 DEF FoldsTo, Iterates
  <2>4. QED
    BY <1>3, <2>2, <2>3
<1>16. CutsUnits(g, us)
  BY <1>11, <1>14, <1>15, Zenon DEF FoldsTo, Iterates, CutsUnits, n
<1>17. QED
  BY <1>16, Zenon DEF n

\* The numbers of the added lines among units, and among the first k of them.
News(us) == {us[i].new : i \in Adds(us)}
NewsTo(us, k) == {us[i].new : i \in {j \in Adds(us) : j <= k}}

\* The pieces d and c hold the first k added lines of us, each once, and fit.
CutTo(d, c, us, k) ==
  /\ \A i \in 1..Len(d) : Rendered(d[i]) <= Budget
  /\ Rendered(c) <= Budget
  /\ \A i \in 1..Len(d) : News(d[i]) \subseteq NewsTo(us, k)
  /\ News(c) \subseteq NewsTo(us, k)
  /\ \A v \in NewsTo(us, k) : v \in News(c) \/ \E i \in 1..Len(d) : v \in News(d[i])
  /\ \A i \in 1..Len(d) : News(d[i]) \cap News(c) = {}
  /\ \A i, j \in 1..Len(d) : i # j => News(d[i]) \cap News(d[j]) = {}

LEMMA NewsOfFew ==
  /\ <<>> \in Seq(Unit) /\ News(<<>>) = {} /\ Rendered(<<>>) <= Budget
  /\ \A us \in Seq(Unit), u \in Unit :
       News(Append(us, u)) = News(us) \cup (IF u.kind = "add" THEN {u.new} ELSE {})
<1>1. <<>> \in Seq(Unit) /\ Len(<<>>) = 0 /\ Adds(<<>>) = {}
  BY DEF Adds
<1>2. News(<<>>) = {}
  BY <1>1, Zenon DEF News
<1>3. Rendered(<<>>) = PrefixSize + HunkSize
  BY <1>1, RenderedSizes
<1>4. Rendered(<<>>) <= Budget
  BY <1>3, ChunkAssumption
<1>5. ASSUME NEW us \in Seq(Unit), NEW u \in Unit
      PROVE  News(Append(us, u)) = News(us) \cup (IF u.kind = "add" THEN {u.new} ELSE {})
  <2> DEFINE vs == Append(us, u)
  <2>1. /\ \A i \in 1..Len(us) : vs[i] = us[i]
        /\ vs[Len(us) + 1] = u
        /\ Adds(vs) = IF u.kind = "add" THEN Adds(us) \cup {Len(us) + 1} ELSE Adds(us)
    BY AddsAppend
  <2>2. Adds(us) \subseteq 1..Len(us)
    BY DEF Adds
  <2> HIDE DEF vs
  <2>3. News(vs) = News(us) \cup (IF u.kind = "add" THEN {u.new} ELSE {})
    <3>1. CASE u.kind = "add"
      BY <2>1, <2>2, <3>1 DEF News
    <3>2. CASE u.kind # "add"
      BY <2>1, <2>2, <3>2 DEF News
    <3>3. QED
      BY <3>1, <3>2
  <2>4. QED
    BY <2>3 DEF vs
<1>6. QED
  BY <1>1, <1>2, <1>4, <1>5

\* The current piece is closed.
LEMMA CutClose ==
  ASSUME NEW d \in Seq(Seq(Unit)), NEW c \in Seq(Unit), NEW us, NEW k, CutTo(d, c, us, k)
  PROVE  Append(d, c) \in Seq(Seq(Unit)) /\ CutTo(Append(d, c), <<>>, us, k)
<1> DEFINE e == Append(d, c)
<1>1. /\ e \in Seq(Seq(Unit)) /\ Len(d) \in Nat /\ Len(e) = Len(d) + 1
      /\ \A i \in 1..Len(d) : e[i] = d[i]
      /\ e[Len(d) + 1] = c
  OBVIOUS
<1> HIDE DEF e
<1>2. \A i \in 1..Len(e) : i \in 1..Len(d) \/ i = Len(d) + 1
  BY <1>1
<1>3. Len(d) + 1 \in 1..Len(e) /\ \A i \in 1..Len(d) : i \in 1..Len(e)
  BY <1>1
<1>4. \A i \in 1..Len(e) : Rendered(e[i]) <= Budget
  BY <1>1, <1>2 DEF CutTo
<1>5. \A i \in 1..Len(e) : News(e[i]) \subseteq NewsTo(us, k)
  BY <1>1, <1>2 DEF CutTo
<1>6. \A v \in NewsTo(us, k) : \E i \in 1..Len(e) : v \in News(e[i])
  BY <1>1, <1>3 DEF CutTo
<1>7. \A i, j \in 1..Len(e) : i # j => News(e[i]) \cap News(e[j]) = {}
  BY <1>1, <1>2 DEF CutTo
<1>8. CutTo(e, <<>>, us, k)
  BY <1>4, <1>5, <1>6, <1>7, NewsOfFew DEF CutTo
<1>9. QED
  BY <1>1, <1>8 DEF e

\* One more line goes into the current piece.
LEMMA CutPut ==
  ASSUME NEW us \in Seq(Unit), Distinct(us), NEW k \in 1..Len(us),
         NEW d, NEW c, NEW b, CutTo(d, c, us, k - 1), Rendered(b) <= Budget,
         News(b) = News(c) \cup (IF us[k].kind = "add" THEN {us[k].new} ELSE {})
  PROVE  CutTo(d, b, us, k)
<1>1. k \in Nat /\ Len(us) \in Nat /\ Adds(us) \subseteq 1..Len(us)
  BY DEF Adds
<1>2. {j \in Adds(us) : j <= k} =
        {j \in Adds(us) : j <= k - 1} \cup (IF us[k].kind = "add" THEN {k} ELSE {})
  <2>1. \A j \in Adds(us) : j <= k <=> j <= k - 1 \/ j = k
    BY <1>1
  <2>2. k \in Adds(us) <=> us[k].kind = "add"
    BY DEF Adds
  <2>3. QED
    BY <2>1, <2>2
<1>3. NewsTo(us, k) = NewsTo(us, k - 1) \cup (IF us[k].kind = "add" THEN {us[k].new} ELSE {})
  <2>1. CASE us[k].kind = "add"
    BY <1>2, <2>1 DEF NewsTo
  <2>2. CASE us[k].kind # "add"
    BY <1>2, <2>2 DEF NewsTo
  <2>3. QED
    BY <2>1, <2>2
<1>4. us[k].kind = "add" => us[k].new \notin NewsTo(us, k - 1)
  <2>1. SUFFICES ASSUME us[k].kind = "add", us[k].new \in NewsTo(us, k - 1) PROVE FALSE
    OBVIOUS
  <2>2. PICK j \in Adds(us) : j <= k - 1 /\ us[k].new = us[j].new
    BY <2>1 DEF NewsTo
  <2>3. k \in Adds(us) /\ j # k
    BY <1>1, <2>1, <2>2 DEF Adds
  <2>4. QED
    BY <2>2, <2>3 DEF Distinct
<1>5. /\ \A i \in 1..Len(d) : News(d[i]) \subseteq NewsTo(us, k)
      /\ News(b) \subseteq NewsTo(us, k)
  BY <1>3 DEF CutTo
<1>6. \A v \in NewsTo(us, k) : v \in News(b) \/ \E i \in 1..Len(d) : v \in News(d[i])
  BY <1>3 DEF CutTo
<1>7. \A i \in 1..Len(d) : News(d[i]) \cap News(b) = {}
  BY <1>4 DEF CutTo
<1>8. QED
  BY <1>5, <1>6, <1>7 DEF CutTo

LEMMA CutStep ==
  ASSUME NEW us \in Seq(Unit), Distinct(us), NEW k \in 1..Len(us),
         NEW s \in CutState, CutTo(s.done, s.cur, us, k - 1)
  PROVE  CutTo(Cut(s, us[k]).done, Cut(s, us[k]).cur, us, k)
<1> DEFINE u == us[k]
           breaks == s.cur # <<>> /\ ~Contiguous(Last(s.cur), u)
           t == IF breaks THEN [done |-> Append(s.done, s.cur), cur |-> <<>>] ELSE s
           more == IF u.kind = "add" THEN {u.new} ELSE {}
<1>1. s.done \in Seq(Seq(Unit)) /\ s.cur \in Seq(Unit) /\ u \in Unit
  BY DEF CutState
<1>2. /\ t.done \in Seq(Seq(Unit)) /\ t.cur \in Seq(Unit)
      /\ CutTo(t.done, t.cur, us, k - 1)
  <2>1. CASE breaks
    <3>1. t.done = Append(s.done, s.cur) /\ t.cur = <<>>
      BY <2>1
    <3>2. Append(s.done, s.cur) \in Seq(Seq(Unit)) /\ CutTo(Append(s.done, s.cur), <<>>, us, k - 1)
      BY <1>1, CutClose
    <3>3. QED
      BY <3>1, <3>2, NewsOfFew
  <2>2. CASE ~breaks
    BY <1>1, <2>2
  <2>3. QED
    BY <2>1, <2>2
<1>3. Cut(s, u) = IF Rendered(Append(t.cur, u)) <= Budget THEN [t EXCEPT !.cur = Append(@, u)]
                  ELSE [done |-> IF t.cur = <<>> THEN t.done ELSE Append(t.done, t.cur),
                        cur |-> <<Truncated(u)>>]
  BY Zenon DEF Cut, t
<1>4. t \in CutState
  BY <1>1, <1>2 DEF CutState
<1> HIDE DEF t, u
<1>5. News(Append(t.cur, u)) = News(t.cur) \cup more
  BY <1>1, <1>2, NewsOfFew
<1>6. News(<<Truncated(u)>>) = more
  <2> DEFINE w == Truncated(u)
  <2>1. w \in Unit /\ w.kind = u.kind /\ w.new = u.new
    BY <1>1, TruncatedUnit
  <2> HIDE DEF w
  <2>2. Append(<<>>, w) = <<w>>
    OBVIOUS
  <2>3. News(Append(<<>>, w)) = News(<<>>) \cup (IF w.kind = "add" THEN {w.new} ELSE {})
    BY <2>1, NewsOfFew
  <2>4. News(<<w>>) = more
    BY <2>1, <2>2, <2>3, NewsOfFew
  <2>5. QED
    BY <2>4 DEF w
<1>7. CASE Rendered(Append(t.cur, u)) <= Budget
  <2>1. Cut(s, u).done = t.done /\ Cut(s, u).cur = Append(t.cur, u)
    BY <1>3, <1>4, <1>7 DEF CutState
  <2>2. CutTo(t.done, Append(t.cur, u), us, k)
    BY <1>2, <1>5, <1>7, CutPut DEF u
  <2>3. QED
    BY <2>1, <2>2 DEF u
<1>8. CASE ~(Rendered(Append(t.cur, u)) <= Budget) /\ t.cur = <<>>
  <2>1. Cut(s, u).done = t.done /\ Cut(s, u).cur = <<Truncated(u)>>
    BY <1>3, <1>8
  <2>2. Rendered(<<Truncated(u)>>) <= Budget
    BY <1>1, TruncatedUnit
  <2>3. News(<<Truncated(u)>>) = News(t.cur) \cup more
    BY <1>6, <1>8, NewsOfFew
  <2>4. CutTo(t.done, <<Truncated(u)>>, us, k)
    BY <1>2, <2>2, <2>3, CutPut DEF u
  <2>5. QED
    BY <2>1, <2>4 DEF u
<1>9. CASE ~(Rendered(Append(t.cur, u)) <= Budget) /\ t.cur # <<>>
  <2>1. Cut(s, u).done = Append(t.done, t.cur) /\ Cut(s, u).cur = <<Truncated(u)>>
    BY <1>3, <1>9
  <2>2. Rendered(<<Truncated(u)>>) <= Budget
    BY <1>1, TruncatedUnit
  <2>3. CutTo(Append(t.done, t.cur), <<>>, us, k - 1)
    BY <1>2, CutClose
  <2>4. News(<<Truncated(u)>>) = News(<<>>) \cup more
    BY <1>6, NewsOfFew
  <2>5. CutTo(Append(t.done, t.cur), <<Truncated(u)>>, us, k)
    BY <2>2, <2>3, <2>4, CutPut DEF u
  <2>6. QED
    BY <2>1, <2>5 DEF u
<1>10. QED
  BY <1>7, <1>8, <1>9

\* The whole block is cut.
LEMMA CutAll ==
  ASSUME NEW us \in Seq(Unit), Distinct(us), NEW s,
         s = FoldLeft(Cut, [done |-> <<>>, cur |-> <<>>], us)
  PROVE  s \in CutState /\ CutTo(s.done, s.cur, us, Len(us))
<1> DEFINE n == Len(us)
<1>1. n \in Nat
  OBVIOUS
<1>2. PICK g \in [0..n -> CutState] : CutsUnits(g, us)
  BY CutRun
<1> DEFINE P == {k \in 0..n : CutTo(g[k].done, g[k].cur, us, k)}
<1>3. 0 \in P
  <2>1. g[0].done = <<>> /\ g[0].cur = <<>>
    BY <1>2 DEF CutsUnits
  <2>2. NewsTo(us, 0) = {}
    <3>1. {j \in Adds(us) : j <= 0} = {}
      BY DEF Adds
    <3>2. QED
      BY <3>1, Zenon DEF NewsTo
  <2>3. CutTo(<<>>, <<>>, us, 0)
    BY <2>2, NewsOfFew DEF CutTo
  <2>4. QED
    BY <1>1, <2>1, <2>3
<1>4. ASSUME NEW k \in 1..n, k - 1 \in P PROVE k \in P
  <2>1. k - 1 \in 0..n /\ k \in 0..n
    BY <1>1
  <2>2. g[k - 1] \in CutState /\ CutTo(g[k - 1].done, g[k - 1].cur, us, k - 1)
    BY <1>4, <2>1
  <2>3. g[k] = Cut(g[k - 1], us[k])
    BY <1>2 DEF CutsUnits
  <2>4. CutTo(g[k].done, g[k].cur, us, k)
    BY <2>2, <2>3, CutStep
  <2>5. QED
    BY <2>1, <2>4
<1>5. \A k \in 0..n : k \in P
  <2> HIDE DEF n, P
  <2>1. QED
    BY <1>1, <1>3, <1>4, Climb
<1>6. n \in 0..n /\ s = g[n]
  BY <1>1, <1>2 DEF CutsUnits
<1>7. QED
  BY <1>5, <1>6

---------------------------------------------------------------------------
(* Pieces of a block                                                      *)

\* The size of a block and its hunks so far.
SizesLines(g, n0, h) ==
  /\ g[0] = n0 + HunkSize
  /\ \A k \in 1..Len(h.lines) : g[k] = g[k-1] + h.lines[k].size
  /\ SizeWith(n0, h) = g[Len(h.lines)]

LEMMA SizeWithRun ==
  ASSUME NEW n0 \in Nat \ {0}, NEW h \in DiffHunk
  PROVE  \E g \in [0..Len(h.lines) -> (Nat \ {0})] : SizesLines(g, n0, h)
<1> DEFINE n == Len(h.lines)
           step == [x \in (Nat \ {0}) \X (1..n) |-> x[1] + h.lines[x[2]].size]
           Fold(it) == it = [t \in SUBSET DOMAIN h.lines |->
                               IF t = {} THEN n0 + HunkSize
                               ELSE it[t \ {Max(t)}] + h.lines[Max(t)].size]
<1>1. /\ n \in Nat /\ n0 + HunkSize \in Nat \ {0}
      /\ \A i \in 1..n : h.lines[i].size \in Nat
      /\ DOMAIN h.lines = 1..n
  <2>1. h.lines \in Seq(DiffLine)
    BY DEF DiffHunk
  <2>2. \A i \in 1..n : h.lines[i] \in DiffLine
    BY <2>1
  <2>3. QED
    BY <2>1, <2>2, ChunkAssumption DEF DiffLine
<1>2. step \in [(Nat \ {0}) \X (1..n) -> (Nat \ {0})]
  BY <1>1
<1>3. \A x \in (Nat \ {0}), k \in 1..n : step[<<x, k>>] = x + h.lines[k].size
  OBVIOUS
<1>4. DOMAIN h.lines = 1..n
  BY <1>1
<1> HIDE DEF n, step
<1>5. PICK it0 \in [SUBSET (1..n) -> (Nat \ {0})] : Folds(it0, n, n0 + HunkSize, step)
  BY <1>1, <1>2, FoldExists
<1>6. \A t \in SUBSET (1..n) :
        it0[t] = IF t = {} THEN n0 + HunkSize ELSE step[<<it0[t \ {Max(t)}], Max(t)>>]
  BY <1>5, Zenon DEF Folds
<1>7. ASSUME NEW t \in SUBSET (1..n), t # {}
      PROVE  it0[t] = it0[t \ {Max(t)}] + h.lines[Max(t)].size
  <2>1. Max(t) \in 1..n /\ t \ {Max(t)} \in SUBSET (1..n)
    BY <1>1, <1>7, FoldPlace
  <2>2. it0[t \ {Max(t)}] \in (Nat \ {0})
    BY <1>5, <2>1
  <2>3. it0[t] = step[<<it0[t \ {Max(t)}], Max(t)>>]
    BY <1>6, <1>7
  <2>4. QED
    BY <1>3, <2>1, <2>2, <2>3
<1>8. Fold(it0)
  BY <1>4, <1>6, <1>7, Zenon
<1>9. PICK it : it = CHOOSE f : Fold(f)
  OBVIOUS
<1>10. Fold(it)
  BY <1>8, <1>9, Zenon
<1>11. SizeWith(n0, h) = it[1..n]
  BY <1>4, <1>9, Zenon DEF SizeWith, FoldLeft, MapThenFoldSet
<1>12. it[{}] = n0 + HunkSize
  BY <1>10, Zenon
<1>13. ASSUME NEW t \in SUBSET (1..n), t # {}, it[t \ {Max(t)}] \in (Nat \ {0})
       PROVE  it[t] = step[<<it[t \ {Max(t)}], Max(t)>>]
  <2>1. Max(t) \in 1..n
    BY <1>1, <1>13, FoldPlace
  <2>2. it[t] = it[t \ {Max(t)}] + h.lines[Max(t)].size
    BY <1>4, <1>10, <1>13, Zenon
  <2>3. QED
    BY <1>3, <1>13, <2>1, <2>2
<1>14. PICK g \in [0..n -> (Nat \ {0})] : FoldsTo(g, n, n0 + HunkSize, step, it[1..n])
  <2>1. Follows(it, n, (Nat \ {0}), n0 + HunkSize, step)
    BY <1>12, <1>13, Zenon DEF Follows
  <2>2. QED
    BY <1>1, <1>2, <2>1, FoldRuns
<1>15. ASSUME NEW k \in 1..n PROVE g[k] = g[k-1] + h.lines[k].size
  <2>1. k - 1 \in 0..n
    BY <1>1
  <2>2. g[k-1] \in (Nat \ {0})
    BY <2>1
  <2>3. g[k] = step[<<g[k-1], k>>]
    BY <1>14 DEF FoldsTo, Iterates
  <2>4. QED
    BY <1>3, <2>2, <2>3
<1>16. SizesLines(g, n0, h)
  BY <1>11, <1>14, <1>15, Zenon DEF FoldsTo, Iterates, SizesLines, n
<1>17. QED
  BY <1>16, Zenon DEF n

LEMMA SizeWithTyped ==
  ASSUME NEW n0 \in Nat \ {0}, NEW h \in DiffHunk
  PROVE  SizeWith(n0, h) \in Nat \ {0}
<1>1. PICK g \in [0..Len(h.lines) -> (Nat \ {0})] : SizesLines(g, n0, h)
  BY SizeWithRun
<1>2. h.lines \in Seq(DiffLine)
  BY DEF DiffHunk
<1>3. Len(h.lines) \in 0..Len(h.lines)
  BY <1>2
<1>4. QED
  BY <1>1, <1>3 DEF SizesLines
\* The hunks of a block one after the other.
SizesHunks(g, block) ==
  /\ g[0] = block.header
  /\ \A k \in 1..Len(block.hunks) : g[k] = SizeWith(g[k-1], block.hunks[k])
  /\ SizeOf(block) = g[Len(block.hunks)]

LEMMA SizeOfRun ==
  ASSUME NEW block \in DiffBlock
  PROVE  \E g \in [0..Len(block.hunks) -> (Nat \ {0})] : SizesHunks(g, block)
<1> DEFINE n == Len(block.hunks)
           step == [x \in (Nat \ {0}) \X (1..n) |-> SizeWith(x[1], block.hunks[x[2]])]
           Fold(it) == it = [t \in SUBSET DOMAIN block.hunks |->
                               IF t = {} THEN block.header
                               ELSE SizeWith(it[t \ {Max(t)}], block.hunks[Max(t)])]
<1>1. /\ n \in Nat /\ block.header \in Nat \ {0}
      /\ \A x \in Nat \ {0}, i \in 1..n : SizeWith(x, block.hunks[i]) \in Nat \ {0}
      /\ DOMAIN block.hunks = 1..n
  <2>1. block.hunks \in Seq(DiffHunk) /\ block.header \in Nat \ {0}
    BY DEF DiffBlock
  <2>2. \A i \in 1..n : block.hunks[i] \in DiffHunk
    BY <2>1
  <2>3. \A x \in Nat \ {0}, i \in 1..n : SizeWith(x, block.hunks[i]) \in Nat \ {0}
    BY <2>2, SizeWithTyped
  <2>4. QED
    BY <2>1, <2>3
<1>2. step \in [(Nat \ {0}) \X (1..n) -> (Nat \ {0})]
  BY <1>1
<1>3. \A x \in (Nat \ {0}), k \in 1..n : step[<<x, k>>] = SizeWith(x, block.hunks[k])
  OBVIOUS
<1>4. DOMAIN block.hunks = 1..n
  BY <1>1
<1> HIDE DEF n, step
<1>5. PICK it0 \in [SUBSET (1..n) -> (Nat \ {0})] : Folds(it0, n, block.header, step)
  BY <1>1, <1>2, FoldExists
<1>6. \A t \in SUBSET (1..n) :
        it0[t] = IF t = {} THEN block.header ELSE step[<<it0[t \ {Max(t)}], Max(t)>>]
  BY <1>5, Zenon DEF Folds
<1>7. ASSUME NEW t \in SUBSET (1..n), t # {}
      PROVE  it0[t] = SizeWith(it0[t \ {Max(t)}], block.hunks[Max(t)])
  <2>1. Max(t) \in 1..n /\ t \ {Max(t)} \in SUBSET (1..n)
    BY <1>1, <1>7, FoldPlace
  <2>2. it0[t \ {Max(t)}] \in (Nat \ {0})
    BY <1>5, <2>1
  <2>3. it0[t] = step[<<it0[t \ {Max(t)}], Max(t)>>]
    BY <1>6, <1>7
  <2>4. QED
    BY <1>3, <2>1, <2>2, <2>3
<1>8. Fold(it0)
  BY <1>4, <1>6, <1>7, Zenon
<1>9. PICK it : it = CHOOSE f : Fold(f)
  OBVIOUS
<1>10. Fold(it)
  BY <1>8, <1>9, Zenon
<1>11. SizeOf(block) = it[1..n]
  BY <1>4, <1>9, Zenon DEF SizeOf, FoldLeft, MapThenFoldSet
<1>12. it[{}] = block.header
  BY <1>10, Zenon
<1>13. ASSUME NEW t \in SUBSET (1..n), t # {}, it[t \ {Max(t)}] \in (Nat \ {0})
       PROVE  it[t] = step[<<it[t \ {Max(t)}], Max(t)>>]
  <2>1. Max(t) \in 1..n
    BY <1>1, <1>13, FoldPlace
  <2>2. it[t] = SizeWith(it[t \ {Max(t)}], block.hunks[Max(t)])
    BY <1>4, <1>10, <1>13, Zenon
  <2>3. QED
    BY <1>3, <1>13, <2>1, <2>2
<1>14. PICK g \in [0..n -> (Nat \ {0})] : FoldsTo(g, n, block.header, step, it[1..n])
  <2>1. Follows(it, n, (Nat \ {0}), block.header, step)
    BY <1>12, <1>13, Zenon DEF Follows
  <2>2. QED
    BY <1>1, <1>2, <2>1, FoldRuns
<1>15. ASSUME NEW k \in 1..n PROVE g[k] = SizeWith(g[k-1], block.hunks[k])
  <2>1. k - 1 \in 0..n
    BY <1>1
  <2>2. g[k-1] \in (Nat \ {0})
    BY <2>1
  <2>3. g[k] = step[<<g[k-1], k>>]
    BY <1>14 DEF FoldsTo, Iterates
  <2>4. QED
    BY <1>3, <2>2, <2>3
<1>16. SizesHunks(g, block)
  BY <1>11, <1>14, <1>15, Zenon DEF FoldsTo, Iterates, SizesHunks, n
<1>17. QED
  BY <1>16, Zenon DEF n

LEMMA SizeOfTyped ==
  ASSUME NEW block \in DiffBlock
  PROVE  SizeOf(block) \in Nat \ {0}
<1>1. PICK g \in [0..Len(block.hunks) -> (Nat \ {0})] : SizesHunks(g, block)
  BY SizeOfRun
<1>2. block.hunks \in Seq(DiffHunk)
  BY DEF DiffBlock
<1>3. Len(block.hunks) \in 0..Len(block.hunks)
  BY <1>2
<1>4. QED
  BY <1>1, <1>3 DEF SizesHunks

Piece == [size : Nat \ {0}, owned : SUBSET (STRING \X Nat)]

\* ps hold the lines in L, each once, and are not too long.
Covers(ps, L) ==
  /\ \A i \in 1..Len(ps) : ps[i].size <= Budget
  /\ \A i \in 1..Len(ps) : ps[i].owned \subseteq L
  /\ \A x \in L : \E i \in 1..Len(ps) : x \in ps[i].owned
  /\ \A i, j \in 1..Len(ps) : i # j => ps[i].owned \cap ps[j].owned = {}

LEMMA OwnedNews ==
  ASSUME NEW path \in STRING, NEW us \in Seq(Unit)
  PROVE  /\ Owned(path, us) \in SUBSET (STRING \X Nat)
         /\ \A x : x \in Owned(path, us) <=> path # "" /\ \E v \in News(us) : x = <<path, v>>
<1>1. Adds(us) \subseteq 1..Len(us)
  BY DEF Adds
<1>2. \A i \in 1..Len(us) : us[i].new \in Nat
  <2>1. \A i \in 1..Len(us) : us[i] \in Unit
    OBVIOUS
  <2>2. QED
    BY <2>1 DEF Unit
<1>3. CASE path = ""
  <2>1. {j \in 1..Len(us) : path # "" /\ us[j].kind = "add"} = {}
    BY <1>3
  <2>2. Owned(path, us) = {}
    BY <2>1 DEF Owned
  <2>3. QED
    BY <1>3, <2>2
<1>4. CASE path # ""
  <2>1. {j \in 1..Len(us) : path # "" /\ us[j].kind = "add"} = Adds(us)
    BY <1>4 DEF Adds
  <2>2. Owned(path, us) = {<<path, us[i].new>> : i \in Adds(us)}
    BY <2>1 DEF Owned
  <2>3. \A i \in Adds(us) : us[i].new \in Nat
    BY <1>1, <1>2
  <2>4. \A i \in Adds(us) : <<path, us[i].new>> \in STRING \X Nat
    BY <2>3
  <2>5. Owned(path, us) \subseteq STRING \X Nat
    BY <2>2, <2>4
  <2>6. \A x : x \in Owned(path, us) <=> \E v \in News(us) : x = <<path, v>>
    BY <2>2 DEF News
  <2>7. QED
    BY <1>4, <2>5, <2>6
<1>5. QED
  BY <1>3, <1>4

\* Cut pieces cover the lines of their block.
LEMMA CutCovers ==
  ASSUME NEW path \in STRING, NEW us \in Seq(Unit), NEW d \in Seq(Seq(Unit)), CutTo(d, <<>>, us, Len(us))
  PROVE  LET ps == [i \in 1..Len(d) |-> [size |-> Rendered(d[i]), owned |-> Owned(path, d[i])]]
         IN ps \in Seq(Piece) /\ Covers(ps, Owned(path, us))
<1> DEFINE ps == [i \in 1..Len(d) |-> [size |-> Rendered(d[i]), owned |-> Owned(path, d[i])]]
<1>1. Len(d) \in Nat /\ Len(us) \in Nat /\ \A i \in 1..Len(d) : d[i] \in Seq(Unit)
  OBVIOUS
<1>2. \A i \in 1..Len(d) : [size |-> Rendered(d[i]), owned |-> Owned(path, d[i])] \in Piece
  BY <1>1, OwnedNews, RenderedSizes DEF Piece
<1>3. /\ ps \in Seq(Piece) /\ Len(ps) = Len(d)
      /\ \A i \in 1..Len(d) : ps[i].size = Rendered(d[i]) /\ ps[i].owned = Owned(path, d[i])
  BY <1>1, <1>2
<1> HIDE DEF ps
<1>4. NewsTo(us, Len(us)) = News(us)
  <2>1. {j \in Adds(us) : j <= Len(us)} = Adds(us)
    BY <1>1 DEF Adds
  <2>2. QED
    BY <2>1 DEF News, NewsTo
<1>5. News(<<>>) = {}
  BY NewsOfFew
<1>6. \A i \in 1..Len(d) : \A x :
        x \in Owned(path, d[i]) <=> path # "" /\ \E v \in News(d[i]) : x = <<path, v>>
  BY <1>1, OwnedNews
<1>7. \A x : x \in Owned(path, us) <=> path # "" /\ \E v \in News(us) : x = <<path, v>>
  BY OwnedNews
<1>8. \A i \in 1..Len(ps) : ps[i].size <= Budget
  BY <1>3 DEF CutTo
<1>9. \A i \in 1..Len(ps) : ps[i].owned \subseteq Owned(path, us)
  <2>1. SUFFICES ASSUME NEW i \in 1..Len(d), NEW x, x \in Owned(path, d[i])
                 PROVE  x \in Owned(path, us)
    BY <1>3
  <2>2. PICK v \in News(d[i]) : path # "" /\ x = <<path, v>>
    BY <1>6, <2>1
  <2>3. v \in News(us)
    BY <1>4 DEF CutTo
  <2>4. QED
    BY <1>7, <2>2, <2>3
<1>10. \A x \in Owned(path, us) : \E i \in 1..Len(ps) : x \in ps[i].owned
  <2>1. SUFFICES ASSUME NEW x \in Owned(path, us) PROVE \E i \in 1..Len(ps) : x \in ps[i].owned
    OBVIOUS
  <2>2. PICK v \in News(us) : path # "" /\ x = <<path, v>>
    BY <1>7
  <2>3. PICK i \in 1..Len(d) : v \in News(d[i])
    BY <1>4, <1>5 DEF CutTo
  <2>4. x \in Owned(path, d[i])
    BY <1>6, <2>2, <2>3
  <2>5. QED
    BY <1>3, <2>4
<1>11. ASSUME NEW i \in 1..Len(d), NEW j \in 1..Len(d), i # j,
              NEW x, x \in Owned(path, d[i]), x \in Owned(path, d[j])
       PROVE  FALSE
  <2>1. PICK v \in News(d[i]) : x = <<path, v>>
    BY <1>6, <1>11
  <2>2. PICK w \in News(d[j]) : x = <<path, w>>
    BY <1>6, <1>11
  <2>3. v = w
    BY <2>1, <2>2
  <2>4. News(d[i]) \cap News(d[j]) = {}
    BY <1>11 DEF CutTo
  <2>5. QED
    BY <2>3, <2>4
<1>12. ASSUME NEW i \in 1..Len(ps), NEW j \in 1..Len(ps), i # j
       PROVE  ps[i].owned \cap ps[j].owned = {}
  <2>1. /\ i \in 1..Len(d) /\ j \in 1..Len(d)
        /\ ps[i].owned = Owned(path, d[i]) /\ ps[j].owned = Owned(path, d[j])
    BY <1>3
  <2>2. QED
    BY <1>11, <1>12, <2>1
<1>13. Covers(ps, Owned(path, us))
  BY <1>8, <1>9, <1>10, <1>12 DEF Covers
<1>14. QED
  BY <1>3, <1>13 DEF ps

\* An oversized block is split into pieces that own its added lines.
LEMMA SplitCovers ==
  ASSUME NEW block \in DiffBlock, HunksFollow(block.hunks)
  PROVE  SplitBlock(block) \in Seq(Piece) /\ Covers(SplitBlock(block), ChangedLines(block))
<1> DEFINE us == BlockUnits(block)
           s == FoldLeft(Cut, [done |-> <<>>, cur |-> <<>>], us)
           pieces == IF s.cur = <<>> THEN s.done ELSE Append(s.done, s.cur)
           ps == [i \in 1..Len(pieces) |->
                    [size |-> Rendered(pieces[i]), owned |-> Owned(block.path, pieces[i])]]
<1>1. us \in Seq(Unit) /\ Distinct(us) /\ block.path \in STRING
  BY BlockUnitsNumbers DEF UnitsOf, DiffBlock
<1>2. ChangedLines(block) = Owned(block.path, us)
  BY DEF ChangedLines
<1>3. SplitBlock(block) = IF us = <<>> THEN <<[size |-> Budget, owned |-> {}]>> ELSE ps
  BY Zenon DEF SplitBlock
<1> HIDE DEF us
<1>4. CASE us = <<>>
  <2> DEFINE one == <<[size |-> Budget, owned |-> {}]>>
  <2>1. SplitBlock(block) = one
    BY <1>3, <1>4, Zenon
  <2>2. News(<<>>) = {}
    BY NewsOfFew
  <2>3. ChangedLines(block) = {}
    BY <1>1, <1>2, <1>4, <2>2, OwnedNews
  <2>4. [size |-> Budget, owned |-> {}] \in Piece
    BY ChunkAssumption DEF Piece
  <2>5. one \in Seq(Piece) /\ Len(one) = 1 /\ one[1] = [size |-> Budget, owned |-> {}]
    BY <2>4
  <2> HIDE DEF one
  <2>6. one[1].size <= Budget /\ one[1].owned = {}
    BY <2>5, ChunkAssumption
  <2>7. \A i \in 1..Len(one) : i = 1
    BY <2>5
  <2>8. Covers(one, {})
    BY <2>6, <2>7 DEF Covers
  <2>9. QED
    BY <2>1, <2>3, <2>5, <2>8
<1>5. CASE us # <<>>
  <2> HIDE DEF s
  <2>1. s \in CutState /\ CutTo(s.done, s.cur, us, Len(us))
    BY <1>1, CutAll DEF s
  <2>2. s.done \in Seq(Seq(Unit)) /\ s.cur \in Seq(Unit)
    BY <2>1 DEF CutState
  <2>3. pieces \in Seq(Seq(Unit)) /\ CutTo(pieces, <<>>, us, Len(us))
    <3>1. CASE s.cur = <<>>
      BY <2>1, <2>2, <3>1
    <3>2. CASE s.cur # <<>>
      BY <2>1, <2>2, <3>2, CutClose
    <3>3. QED
      BY <3>1, <3>2
  <2> HIDE DEF pieces
  <2>4. ps \in Seq(Piece) /\ Covers(ps, Owned(block.path, us))
    BY <1>1, <2>3, CutCovers
  <2>5. SplitBlock(block) = ps
    BY <1>3, <1>5, Zenon
  <2>6. QED
    BY <1>2, <2>4, <2>5
<1>6. QED
  BY <1>4, <1>5

LEMMA PiecesCover ==
  ASSUME NEW block \in DiffBlock, HunksFollow(block.hunks)
  PROVE  Pieces(block) \in Seq(Piece) /\ Covers(Pieces(block), ChangedLines(block))
<1>1. CASE SizeOf(block) > Budget
  <2>1. Pieces(block) = SplitBlock(block)
    BY <1>1 DEF Pieces
  <2>2. QED
    BY <2>1, SplitCovers
<1>2. CASE ~(SizeOf(block) > Budget)
  <2> DEFINE p == [size |-> SizeOf(block), owned |-> ChangedLines(block)]
             one == <<p>>
  <2>1. Pieces(block) = one
    BY <1>2 DEF Pieces
  <2>2. ChangedLines(block) \in SUBSET (STRING \X Nat)
    <3>1. block.path \in STRING
      BY DEF DiffBlock
    <3>2. QED
      BY <3>1, BlockUnitsNumbers, OwnedNews DEF ChangedLines
  <2>3. SizeOf(block) \in Nat \ {0} /\ SizeOf(block) <= Budget
    BY <1>2, SizeOfTyped, ChunkAssumption
  <2>4. p \in Piece /\ p.size <= Budget /\ p.owned = ChangedLines(block)
    BY <2>2, <2>3 DEF Piece
  <2> HIDE DEF p
  <2>5. one \in Seq(Piece) /\ Len(one) = 1 /\ one[1] = p
    BY <2>4
  <2> HIDE DEF one
  <2>6. 1 \in 1..Len(one) /\ \A i \in 1..Len(one) : i = 1
    BY <2>5
  <2>7. Covers(one, ChangedLines(block))
    BY <2>4, <2>5, <2>6 DEF Covers
  <2>8. QED
    BY <2>1, <2>5, <2>7
<1>3. QED
  BY <1>1, <1>2

---------------------------------------------------------------------------
(* Packing the pieces of a diff                                           *)

LEMMA PathOfLine ==
  ASSUME NEW block \in DiffBlock, HunksFollow(block.hunks), NEW x \in ChangedLines(block)
  PROVE  x[1] = block.path /\ block.path # ""
<1>1. block.path \in STRING /\ BlockUnits(block) \in Seq(Unit)
  BY BlockUnitsNumbers DEF DiffBlock
<1>2. PICK v \in News(BlockUnits(block)) : block.path # "" /\ x = <<block.path, v>>
  <2>1. PICK us : us = BlockUnits(block)
    OBVIOUS
  <2>2. x \in Owned(block.path, us) /\ us \in Seq(Unit)
    BY <1>1, <2>1 DEF ChangedLines
  <2>3. PICK path : path = block.path
    OBVIOUS
  <2>4. path \in STRING /\ x \in Owned(path, us)
    BY <1>1, <2>2, <2>3
  <2>5. \A y : y \in Owned(path, us) <=> path # "" /\ \E v \in News(us) : y = <<path, v>>
    BY <2>2, <2>4, OwnedNews
  <2>6. path # "" /\ \E v \in News(us) : x = <<path, v>>
    BY <2>4, <2>5, Zenon
  <2>7. QED
    BY <2>1, <2>3, <2>6
<1>3. QED
  BY <1>2

AllPieces(diff) == FlattenSeq([i \in 1..Len(diff) |-> Pieces(diff[i])])
AllLines(diff) == UNION {ChangedLines(diff[i]) : i \in 1..Len(diff)}

LEMMA AllCover ==
  ASSUME NEW diff, WellFormed(diff)
  PROVE  AllPieces(diff) \in Seq(Piece) /\ Covers(AllPieces(diff), AllLines(diff))
<1> DEFINE ss == [i \in 1..Len(diff) |-> Pieces(diff[i])]
           F == AllPieces(diff)
           L == AllLines(diff)
<1>1. /\ diff \in Seq(DiffBlock) /\ Len(diff) \in Nat
      /\ \A i \in 1..Len(diff) : diff[i] \in DiffBlock /\ HunksFollow(diff[i].hunks)
  <2>1. diff \in Seq(DiffBlock)
    BY DEF WellFormed
  <2>2. \A i \in 1..Len(diff) : HunksFollow(diff[i].hunks)
    BY Zenon DEF WellFormed
  <2>3. QED
    BY <2>1, <2>2
<1>2. \A i \in 1..Len(diff) :
        Pieces(diff[i]) \in Seq(Piece) /\ Covers(Pieces(diff[i]), ChangedLines(diff[i]))
  BY <1>1, PiecesCover
<1>3. /\ ss \in Seq(Seq(Piece)) /\ Len(ss) = Len(diff)
      /\ \A i \in 1..Len(diff) : ss[i] = Pieces(diff[i])
  BY <1>1, <1>2
<1>4. F = FlattenSeq(ss)
  BY DEF AllPieces
<1> HIDE DEF ss, F, L
<1>5. F \in Seq(Piece) /\ Len(F) \in Nat
  <2>1. F \in Seq(Piece)
    BY <1>3, <1>4, FlattenPlaces
  <2>2. QED
    BY <2>1
<1>6. PICK row \in [1..Len(F) -> Nat], col \in [1..Len(F) -> Nat] :
        Flattens(F, ss, Len(diff), row, col)
  BY <1>3, <1>4, FlattenPlaces
<1>7. ASSUME NEW j \in 1..Len(F)
      PROVE  /\ row[j] \in 1..Len(diff) /\ col[j] \in 1..Len(Pieces(diff[row[j]]))
             /\ F[j] = Pieces(diff[row[j]])[col[j]]
  <2>1. row[j] \in 1..Len(diff) /\ col[j] \in 1..Len(ss[row[j]]) /\ F[j] = ss[row[j]][col[j]]
    BY <1>6 DEF Flattens
  <2>2. QED
    BY <1>3, <2>1
<1>8. ASSUME NEW j \in 1..Len(F)
      PROVE  F[j].size <= Budget /\ F[j].owned \subseteq ChangedLines(diff[row[j]])
  <2>1. PICK r, c : r = row[j] /\ c = col[j]
    OBVIOUS
  <2>2. r \in 1..Len(diff) /\ c \in 1..Len(Pieces(diff[r])) /\ F[j] = Pieces(diff[r])[c]
    BY <1>7, <2>1
  <2>3. Covers(Pieces(diff[r]), ChangedLines(diff[r]))
    BY <1>2, <2>2
  <2>4. Pieces(diff[r])[c].size <= Budget /\ Pieces(diff[r])[c].owned \subseteq ChangedLines(diff[r])
    BY <2>2, <2>3 DEF Covers
  <2>5. QED
    BY <2>1, <2>2, <2>4
<1>9. ASSUME NEW j \in 1..Len(F) PROVE F[j].owned \subseteq L
  BY <1>7, <1>8 DEF L, AllLines
<1>10. ASSUME NEW x \in L PROVE \E j \in 1..Len(F) : x \in F[j].owned
  <2>1. PICK i \in 1..Len(diff) : x \in ChangedLines(diff[i])
    BY DEF L, AllLines
  <2>2. PICK k \in 1..Len(Pieces(diff[i])) : x \in Pieces(diff[i])[k].owned
    BY <1>2, <2>1 DEF Covers
  <2>3. k \in 1..Len(ss[i])
    BY <1>3, <2>2
  <2>4. PICK j \in 1..Len(F) : row[j] = i /\ col[j] = k
    BY <1>6, <2>3 DEF Flattens
  <2>5. F[j] = Pieces(diff[i])[k]
    BY <1>7, <2>4
  <2>6. QED
    BY <2>2, <2>5
<1>11. ASSUME NEW i \in 1..Len(F), NEW j \in 1..Len(F), i # j
       PROVE  F[i].owned \cap F[j].owned = {}
  <2>1. CASE row[i] = row[j]
    <3>1. PICK r, c, e : r = row[i] /\ c = col[i] /\ e = col[j]
      OBVIOUS
    <3>2. /\ r \in 1..Len(diff)
          /\ c \in 1..Len(Pieces(diff[r])) /\ F[i] = Pieces(diff[r])[c]
          /\ e \in 1..Len(Pieces(diff[r])) /\ F[j] = Pieces(diff[r])[e]
      BY <1>7, <2>1, <3>1
    <3>3. c # e
      <4>1. i < j \/ j < i
        BY <1>5, <1>11
      <4>2. col[i] \in Nat /\ col[j] \in Nat /\ row[i] \in Nat /\ row[j] \in Nat
        OBVIOUS
      <4>3. col[i] < col[j] \/ col[j] < col[i]
        BY <1>6, <2>1, <4>1, <4>2 DEF Flattens
      <4>4. QED
        BY <3>1, <4>2, <4>3
    <3>4. Covers(Pieces(diff[r]), ChangedLines(diff[r]))
      BY <1>2, <3>2
    <3>5. QED
      BY <3>2, <3>3, <3>4 DEF Covers
  <2>2. CASE row[i] # row[j]
    <3>1. diff[row[i]].path # "" => diff[row[i]].path # diff[row[j]].path
      BY <1>7, <2>2 DEF WellFormed
    <3>2. \A x \in ChangedLines(diff[row[i]]) : x[1] = diff[row[i]].path /\ diff[row[i]].path # ""
      BY <1>1, <1>7, PathOfLine
    <3>3. \A x \in ChangedLines(diff[row[j]]) : x[1] = diff[row[j]].path
      BY <1>1, <1>7, PathOfLine
    <3>4. ChangedLines(diff[row[i]]) \cap ChangedLines(diff[row[j]]) = {}
      BY <3>1, <3>2, <3>3
    <3>5. QED
      BY <1>8, <3>4
  <2>3. QED
    BY <2>1, <2>2
<1>12. Covers(F, L)
  BY <1>8, <1>9, <1>10, <1>11 DEF Covers
<1>13. QED
  BY <1>5, <1>12 DEF F, L

OpenPiece == [size : Nat, owned : SUBSET (STRING \X Nat)]
PackState == [done : Seq(Piece), cur : OpenPiece]
NoPiece == [size |-> 0, owned |-> {}]

LEMMA PackTyped ==
  ASSUME NEW s \in PackState, NEW p \in Piece
  PROVE  /\ Pack(s, p) \in PackState
         /\ LET full == s.cur.size > 0 /\ s.cur.size + p.size > Budget
                base == IF full THEN NoPiece ELSE s.cur
                next == [size |-> base.size + p.size, owned |-> base.owned \cup p.owned]
                done == IF full THEN Append(s.done, s.cur) ELSE s.done
            IN /\ done \in Seq(Piece) /\ next \in Piece /\ base \in OpenPiece
               /\ Pack(s, p).done = IF next.size >= Budget THEN Append(done, next) ELSE done
               /\ Pack(s, p).cur = IF next.size >= Budget THEN NoPiece ELSE next
<1> DEFINE full == s.cur.size > 0 /\ s.cur.size + p.size > Budget
           base == IF full THEN NoPiece ELSE s.cur
           next == [size |-> base.size + p.size, owned |-> base.owned \cup p.owned]
           done == IF full THEN Append(s.done, s.cur) ELSE s.done
<1>1. s.done \in Seq(Piece) /\ s.cur \in OpenPiece /\ NoPiece \in OpenPiece
  BY DEF PackState, OpenPiece, NoPiece
<1>2. base \in OpenPiece
  BY <1>1
<1>3. done \in Seq(Piece)
  <2>1. s.cur.size > 0 => s.cur \in Piece
    BY <1>1 DEF OpenPiece, Piece
  <2>2. QED
    BY <1>1, <2>1
<1>4. Pack(s, p) = IF next.size >= Budget
                   THEN [done |-> Append(done, next), cur |-> NoPiece]
                   ELSE [done |-> done, cur |-> next]
  BY Zenon DEF Pack, NoPiece
<1> HIDE DEF base, done
<1>5. next \in Piece
  BY <1>2 DEF OpenPiece, Piece
<1>6. next \in OpenPiece
  BY <1>5 DEF OpenPiece, Piece
<1> HIDE DEF next
<1>7. Append(done, next) \in Seq(Piece)
  BY <1>3, <1>5
<1>8. Pack(s, p) \in PackState
  BY <1>1, <1>3, <1>4, <1>6, <1>7 DEF PackState
<1>9. /\ Pack(s, p).done = IF next.size >= Budget THEN Append(done, next) ELSE done
      /\ Pack(s, p).cur = IF next.size >= Budget THEN NoPiece ELSE next
  BY <1>4
<1>10. QED
  BY <1>2, <1>3, <1>5, <1>8, <1>9 DEF base, next, done
\* The pieces of a diff one after the other.
PacksPieces(g, all) ==
  /\ g[0] = [done |-> <<>>, cur |-> [size |-> 0, owned |-> {}]]
  /\ \A k \in 1..Len(all) : g[k] = Pack(g[k-1], all[k])
  /\ FoldLeft(Pack, [done |-> <<>>, cur |-> [size |-> 0, owned |-> {}]], all) = g[Len(all)]

LEMMA PackRun ==
  ASSUME NEW all \in Seq(Piece)
  PROVE  \E g \in [0..Len(all) -> PackState] : PacksPieces(g, all)
<1> DEFINE n == Len(all)
           step == [x \in PackState \X (1..n) |-> Pack(x[1], all[x[2]])]
           Fold(it) == it = [t \in SUBSET DOMAIN all |->
                               IF t = {} THEN [done |-> <<>>, cur |-> [size |-> 0, owned |-> {}]]
                               ELSE Pack(it[t \ {Max(t)}], all[Max(t)])]
<1>1. /\ n \in Nat /\ [done |-> <<>>, cur |-> [size |-> 0, owned |-> {}]] \in PackState
      /\ \A x \in PackState, i \in 1..n : Pack(x, all[i]) \in PackState
      /\ DOMAIN all = 1..n
  <2>1. \A i \in 1..n : all[i] \in Piece
    OBVIOUS
  <2>2. \A x \in PackState, i \in 1..n : Pack(x, all[i]) \in PackState
    BY <2>1, PackTyped
  <2>3. [size |-> 0, owned |-> {}] \in OpenPiece /\ <<>> \in Seq(Piece)
    BY DEF OpenPiece
  <2>4. QED
    BY <2>2, <2>3 DEF PackState
<1>2. step \in [PackState \X (1..n) -> PackState]
  BY <1>1
<1>3. \A x \in PackState, k \in 1..n : step[<<x, k>>] = Pack(x, all[k])
  OBVIOUS
<1>4. DOMAIN all = 1..n
  BY <1>1
<1> HIDE DEF n, step
<1>5. PICK it0 \in [SUBSET (1..n) -> PackState] : Folds(it0, n, [done |-> <<>>, cur |-> [size |-> 0, owned |-> {}]], step)
  BY <1>1, <1>2, FoldExists
<1>6. \A t \in SUBSET (1..n) :
        it0[t] = IF t = {} THEN [done |-> <<>>, cur |-> [size |-> 0, owned |-> {}]] ELSE step[<<it0[t \ {Max(t)}], Max(t)>>]
  BY <1>5, Zenon DEF Folds
<1>7. ASSUME NEW t \in SUBSET (1..n), t # {}
      PROVE  it0[t] = Pack(it0[t \ {Max(t)}], all[Max(t)])
  <2>1. Max(t) \in 1..n /\ t \ {Max(t)} \in SUBSET (1..n)
    BY <1>1, <1>7, FoldPlace
  <2>2. it0[t \ {Max(t)}] \in PackState
    BY <1>5, <2>1
  <2>3. it0[t] = step[<<it0[t \ {Max(t)}], Max(t)>>]
    BY <1>6, <1>7
  <2>4. QED
    BY <1>3, <2>1, <2>2, <2>3
<1>8. Fold(it0)
  BY <1>4, <1>6, <1>7, Zenon
<1>9. PICK it : it = CHOOSE f : Fold(f)
  OBVIOUS
<1>10. Fold(it)
  BY <1>8, <1>9, Zenon
<1>11. FoldLeft(Pack, [done |-> <<>>, cur |-> [size |-> 0, owned |-> {}]], all) = it[1..n]
  BY <1>4, <1>9, Zenon DEF FoldLeft, MapThenFoldSet
<1>12. it[{}] = [done |-> <<>>, cur |-> [size |-> 0, owned |-> {}]]
  BY <1>10, Zenon
<1>13. ASSUME NEW t \in SUBSET (1..n), t # {}, it[t \ {Max(t)}] \in PackState
       PROVE  it[t] = step[<<it[t \ {Max(t)}], Max(t)>>]
  <2>1. Max(t) \in 1..n
    BY <1>1, <1>13, FoldPlace
  <2>2. it[t] = Pack(it[t \ {Max(t)}], all[Max(t)])
    BY <1>4, <1>10, <1>13, Zenon
  <2>3. QED
    BY <1>3, <1>13, <2>1, <2>2
<1>14. PICK g \in [0..n -> PackState] : FoldsTo(g, n, [done |-> <<>>, cur |-> [size |-> 0, owned |-> {}]], step, it[1..n])
  <2>1. Follows(it, n, PackState, [done |-> <<>>, cur |-> [size |-> 0, owned |-> {}]], step)
    BY <1>12, <1>13, Zenon DEF Follows
  <2>2. QED
    BY <1>1, <1>2, <2>1, FoldRuns
<1>15. ASSUME NEW k \in 1..n PROVE g[k] = Pack(g[k-1], all[k])
  <2>1. k - 1 \in 0..n
    BY <1>1
  <2>2. g[k-1] \in PackState
    BY <2>1
  <2>3. g[k] = step[<<g[k-1], k>>]
    BY <1>14 DEF FoldsTo, Iterates
  <2>4. QED
    BY <1>3, <2>2, <2>3
<1>16. PacksPieces(g, all)
  BY <1>11, <1>14, <1>15, Zenon DEF FoldsTo, Iterates, PacksPieces, n
<1>17. QED
  BY <1>16, Zenon DEF n

OwnedTo(all, k) == UNION {all[i].owned : i \in 1..k}

\* The chunks d and c hold the lines of the first k pieces, each once, and fit.
PackTo(d, c, all, k) ==
  /\ c.size <= Budget
  /\ c.size = 0 => c.owned = {}
  /\ c.owned \subseteq OwnedTo(all, k)
  /\ \A i \in 1..Len(d) : d[i].size <= Budget /\ d[i].owned \subseteq OwnedTo(all, k)
  /\ \A x \in OwnedTo(all, k) : x \in c.owned \/ \E i \in 1..Len(d) : x \in d[i].owned
  /\ \A i \in 1..Len(d) : d[i].owned \cap c.owned = {}
  /\ \A i, j \in 1..Len(d) : i # j => d[i].owned \cap d[j].owned = {}

\* The current chunk is closed.
LEMMA PackClose ==
  ASSUME NEW d \in Seq(Piece), NEW c \in Piece, NEW all, NEW k, PackTo(d, c, all, k)
  PROVE  PackTo(Append(d, c), NoPiece, all, k)
<1> DEFINE e == Append(d, c)
<1>1. /\ Len(d) \in Nat /\ Len(e) = Len(d) + 1
      /\ \A i \in 1..Len(d) : e[i] = d[i]
      /\ e[Len(d) + 1] = c
  OBVIOUS
<1> HIDE DEF e
<1>2. \A i \in 1..Len(e) : i \in 1..Len(d) \/ i = Len(d) + 1
  BY <1>1
<1>3. Len(d) + 1 \in 1..Len(e) /\ \A i \in 1..Len(d) : i \in 1..Len(e)
  BY <1>1
<1>4. \A i \in 1..Len(e) : e[i].size <= Budget /\ e[i].owned \subseteq OwnedTo(all, k)
  BY <1>1, <1>2 DEF PackTo
<1>5. \A x \in OwnedTo(all, k) : \E i \in 1..Len(e) : x \in e[i].owned
  BY <1>1, <1>3 DEF PackTo
<1>6. \A i, j \in 1..Len(e) : i # j => e[i].owned \cap e[j].owned = {}
  BY <1>1, <1>2 DEF PackTo
<1>7. NoPiece.size = 0 /\ NoPiece.owned = {} /\ 0 <= Budget
  BY ChunkAssumption DEF NoPiece
<1>8. PackTo(e, NoPiece, all, k)
  BY <1>4, <1>5, <1>6, <1>7 DEF PackTo
<1>9. QED
  BY <1>8 DEF e

\* One more piece goes into the current chunk.
LEMMA PackPut ==
  ASSUME NEW all \in Seq(Piece), NEW L, Covers(all, L), NEW k \in 1..Len(all),
         NEW d, NEW c, NEW b \in Piece, PackTo(d, c, all, k - 1),
         b.size <= Budget, b.owned = c.owned \cup all[k].owned
  PROVE  PackTo(d, b, all, k)
<1>1. k \in Nat /\ Len(all) \in Nat /\ 1..k = (1..(k - 1)) \cup {k} /\ k \notin 1..(k - 1)
  OBVIOUS
<1>2. OwnedTo(all, k) = OwnedTo(all, k - 1) \cup all[k].owned
  BY <1>1 DEF OwnedTo
<1>3. OwnedTo(all, k - 1) \cap all[k].owned = {}
  <2>1. \A i \in 1..(k - 1) : all[i].owned \cap all[k].owned = {}
    BY <1>1 DEF Covers
  <2>2. QED
    BY <2>1 DEF OwnedTo
<1>4. b.size # 0
  BY DEF Piece
<1>5. /\ b.owned \subseteq OwnedTo(all, k)
      /\ \A i \in 1..Len(d) : d[i].size <= Budget /\ d[i].owned \subseteq OwnedTo(all, k)
  BY <1>2 DEF PackTo
<1>6. \A x \in OwnedTo(all, k) : x \in b.owned \/ \E i \in 1..Len(d) : x \in d[i].owned
  BY <1>2 DEF PackTo
<1>7. \A i \in 1..Len(d) : d[i].owned \cap b.owned = {}
  BY <1>3 DEF PackTo
<1>8. QED
  BY <1>4, <1>5, <1>6, <1>7 DEF PackTo

LEMMA PackStep ==
  ASSUME NEW all \in Seq(Piece), NEW L, Covers(all, L), NEW k \in 1..Len(all),
         NEW s \in PackState, PackTo(s.done, s.cur, all, k - 1)
  PROVE  PackTo(Pack(s, all[k]).done, Pack(s, all[k]).cur, all, k)
<1> DEFINE p == all[k]
           full == s.cur.size > 0 /\ s.cur.size + p.size > Budget
           base == IF full THEN NoPiece ELSE s.cur
           next == [size |-> base.size + p.size, owned |-> base.owned \cup p.owned]
           done == IF full THEN Append(s.done, s.cur) ELSE s.done
<1>1. p \in Piece /\ p.size \in Nat \ {0} /\ p.size <= Budget
  <2>1. p \in Piece
    OBVIOUS
  <2>2. p.size \in Nat \ {0}
    BY <2>1 DEF Piece
  <2>3. p.size <= Budget
    BY DEF Covers
  <2>4. QED
    BY <2>1, <2>2, <2>3
<1>2. /\ done \in Seq(Piece) /\ next \in Piece /\ base \in OpenPiece
      /\ Pack(s, p).done = IF next.size >= Budget THEN Append(done, next) ELSE done
      /\ Pack(s, p).cur = IF next.size >= Budget THEN NoPiece ELSE next
  BY <1>1, PackTyped
<1>3. s.done \in Seq(Piece) /\ s.cur \in OpenPiece /\ s.cur.size \in Nat
  BY DEF PackState, OpenPiece
<1>4. PackTo(done, base, all, k - 1) /\ base.size + p.size <= Budget
  <2>1. CASE full
    <3>1. s.cur \in Piece
      BY <1>3, <2>1 DEF OpenPiece, Piece
    <3>2. PackTo(Append(s.done, s.cur), NoPiece, all, k - 1)
      BY <1>3, <3>1, PackClose
    <3>3. NoPiece.size = 0
      BY DEF NoPiece
    <3>4. QED
      BY <1>1, <2>1, <3>2, <3>3
  <2>2. CASE ~full
    <3>1. base = s.cur /\ done = s.done
      BY <2>2
    <3>2. s.cur.size + p.size <= Budget
      BY <1>1, <1>3, <2>2, ChunkAssumption
    <3>3. QED
      BY <3>1, <3>2
  <2>3. QED
    BY <2>1, <2>2
<1>5. next.size = base.size + p.size /\ next.owned = base.owned \cup p.owned
  OBVIOUS
<1> HIDE DEF base, done, next, full
<1>6. PackTo(done, next, all, k)
  BY <1>2, <1>4, <1>5, PackPut DEF p
<1>7. CASE next.size >= Budget
  <2>1. PackTo(Append(done, next), NoPiece, all, k)
    BY <1>2, <1>6, PackClose
  <2>2. QED
    BY <1>2, <1>7, <2>1 DEF p
<1>8. CASE ~(next.size >= Budget)
  BY <1>2, <1>6, <1>8 DEF p
<1>9. QED
  BY <1>7, <1>8

\* For every well-formed diff the chunks own the added lines of the files whose
\* names _header_target reads, each once and no other line, and fit.
THEOREM ChunksCover ==
  ASSUME NEW diff, WellFormed(diff)
  PROVE  Chunks(diff) \in Seq(Piece) /\ Covers(Chunks(diff), AllLines(diff))
<1> DEFINE all == AllPieces(diff)
           n == Len(all)
           s == FoldLeft(Pack, [done |-> <<>>, cur |-> [size |-> 0, owned |-> {}]], all)
<1>1. all \in Seq(Piece) /\ Covers(all, AllLines(diff))
  BY AllCover
<1>2. Chunks(diff) = IF s.cur.size = 0 THEN s.done ELSE Append(s.done, s.cur)
  BY Zenon DEF Chunks, AllPieces
<1> HIDE DEF all
<1>3. n \in Nat
  BY <1>1
<1>4. PICK g \in [0..n -> PackState] : PacksPieces(g, all)
  BY <1>1, PackRun
<1> DEFINE P == {k \in 0..n : PackTo(g[k].done, g[k].cur, all, k)}
<1>5. 0 \in P
  <2>1. g[0].done = <<>> /\ g[0].cur = NoPiece
    BY <1>4 DEF PacksPieces, NoPiece
  <2>2. OwnedTo(all, 0) = {}
    BY DEF OwnedTo
  <2>3. NoPiece.size = 0 /\ NoPiece.owned = {} /\ 0 <= Budget
    BY ChunkAssumption DEF NoPiece
  <2>4. PackTo(<<>>, NoPiece, all, 0)
    BY <2>2, <2>3 DEF PackTo
  <2>5. QED
    BY <1>3, <2>1, <2>4
<1>6. ASSUME NEW k \in 1..n, k - 1 \in P PROVE k \in P
  <2>1. k - 1 \in 0..n /\ k \in 0..n
    BY <1>3
  <2>2. g[k - 1] \in PackState /\ PackTo(g[k - 1].done, g[k - 1].cur, all, k - 1)
    BY <1>6, <2>1
  <2>3. g[k] = Pack(g[k - 1], all[k])
    BY <1>4 DEF PacksPieces
  <2>4. PackTo(g[k].done, g[k].cur, all, k)
    BY <1>1, <2>2, <2>3, PackStep
  <2>5. QED
    BY <2>1, <2>4
<1>7. \A k \in 0..n : k \in P
  <2> HIDE DEF n, P
  <2>1. QED
    BY <1>3, <1>5, <1>6, Climb
<1>8. n \in 0..n /\ s = g[n]
  BY <1>3, <1>4 DEF PacksPieces
<1> HIDE DEF s
<1>9. s \in PackState /\ PackTo(s.done, s.cur, all, n)
  BY <1>7, <1>8
<1>10. s.done \in Seq(Piece) /\ s.cur \in OpenPiece
  BY <1>9 DEF PackState
<1>11. Chunks(diff) \in Seq(Piece) /\ \E c : c.owned = {} /\ PackTo(Chunks(diff), c, all, n)
  <2>1. CASE s.cur.size = 0
    <3>1. s.cur.owned = {}
      BY <1>9, <2>1 DEF PackTo
    <3>2. QED
      BY <1>2, <1>9, <1>10, <2>1, <3>1
  <2>2. CASE s.cur.size # 0
    <3>1. s.cur \in Piece
      BY <1>10, <2>2 DEF OpenPiece, Piece
    <3>2. PackTo(Append(s.done, s.cur), NoPiece, all, n) /\ Append(s.done, s.cur) \in Seq(Piece)
      BY <1>9, <1>10, <3>1, PackClose
    <3>3. NoPiece.owned = {}
      BY DEF NoPiece
    <3>4. QED
      BY <1>2, <2>2, <3>2, <3>3
  <2>3. QED
    BY <2>1, <2>2
<1>12. OwnedTo(all, n) = AllLines(diff)
  <2>1. OwnedTo(all, n) \subseteq AllLines(diff)
    BY <1>1 DEF Covers, OwnedTo
  <2>2. AllLines(diff) \subseteq OwnedTo(all, n)
    BY <1>1 DEF Covers, OwnedTo
  <2>3. QED
    BY <2>1, <2>2
<1>13. PICK c : c.owned = {} /\ PackTo(Chunks(diff), c, all, n)
  BY <1>11
<1>14. Covers(Chunks(diff), AllLines(diff))
  BY <1>12, <1>13 DEF PackTo, Covers
<1>15. QED
  BY <1>11, <1>14
=============================================================================
