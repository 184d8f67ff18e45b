--------------------------- MODULE MCReviewQueue ---------------------------
(* Small instances of ReviewQueue for TLC. *)
EXTENDS ReviewQueue, TLC

CONSTANTS p1, p2, w1, w2, pr1, a, b

Settings(Enabled, Auto, Vendor) ==
  [enabled : Enabled, auto : Auto, vendor : Vendor]

\* What an operator may switch between.
AlwaysAuto     == Settings({TRUE}, {TRUE}, {TRUE})
EnabledToggles == Settings(BOOLEAN, {TRUE}, {TRUE})
VendorToggles  == Settings({TRUE}, {TRUE}, BOOLEAN)

TwoProcs == Permutations({p1, p2})
=============================================================================
