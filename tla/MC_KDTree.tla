------------------------------ MODULE MC_KDTree ------------------------------
(***************************************************************************)
(* The TLC instance of the KD-tree: points that share x, share y or        *)
(* coincide when one is stored twice, so that both dimensions have ties;   *)
(* queries at stored points, between them and outside their bounds.  The   *)
(* order of the points in a load is of no effect: one order of each bag.   *)
(***************************************************************************)
EXTENDS KDTree

MCPoint(x, y) == [x |-> x, y |-> y]

MCPoints == {MCPoint(0, 2), MCPoint(1, 0), MCPoint(1, 3), MCPoint(2, 2), MCPoint(3, 1)}

MCPrecedes(p, q) == p.x < q.x \/ (p.x = q.x /\ p.y <= q.y)

MCLoads ==
  {ps \in SeqOf(MCPoints, 4) : \A k \in 2..Len(ps) : MCPrecedes(ps[k - 1], ps[k])}

\* From the last one, some points are farther than Inf.
MCQueries == {MCPoint(x, y) : x \in {-1, 1, 2, 3}, y \in {-1, 1, 2, 4}} \cup {MCPoint(10, 4)}

MCRanges == {mbr_create(0, 0, 1, 1), mbr_create(1, 1, 3, 2), mbr_create(1, 0, 1, 3),
             mbr_create(2, 2, 2, 2), mbr_create(4, 0, 5, 3)}

MCRadii == 0..2
=============================================================================
