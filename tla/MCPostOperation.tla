-------------------------- MODULE MCPostOperation --------------------------
(* Small instances of PostOperation for TLC. *)
EXTENDS PostOperation, TLC

CONSTANTS p1, p2, f1, f2, f3, c, x, va, vb, h1, h2

\* Two findings of one vendor in one run.
SameVendor == [f \in Finding |-> va]
SameRun    == [f \in Finding |-> 1]

\* A finding in the first run; in the second one of the same vendor and one of
\* another.
TwoRuns    == (f1 :> 1)  @@ (f2 :> 2)  @@ (f3 :> 2)
TwoVendors == (f1 :> va) @@ (f2 :> va) @@ (f3 :> vb)

\* Processes and commits are interchangeable where no liveness is checked.
Heads         == Permutations({h1, h2})
ProcsAndHeads == Permutations({p1, p2}) \cup Heads
=============================================================================
