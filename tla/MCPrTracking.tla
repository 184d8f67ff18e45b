---------------------------- MODULE MCPrTracking ----------------------------
(* Small instances of PrTracking for TLC. *)
EXTENDS PrTracking, TLC

CONSTANTS pa, pb, h1, h2, s1

Site(prs, n, bound) ==
  [prs |-> prs, limit |-> n, moves |-> bound, retention |-> FALSE,
   syncs |-> FALSE, removable |-> FALSE]

\* With room in the list and with none to spare; one feature at a time.
AllSites ==
  {Site({pa, pb}, 1, 2),
   [Site({pa}, 3, 2) EXCEPT !.retention = TRUE],
   [Site({pa}, 3, 2) EXCEPT !.syncs = TRUE],
   [Site({pa}, 3, 3) EXCEPT !.removable = TRUE]}
=============================================================================
