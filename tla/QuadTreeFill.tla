----------------------------- MODULE QuadTreeFill -----------------------------
(***************************************************************************)
(* Which of the items inserted one after another into an empty quadtree of *)
(* src/src/quadtree.c are left in it, without the tree's nodes: what       *)
(* SpatialIndex needs of the page quadtree that a build fills.  QuadTree   *)
(* has the nodes, and MC_QuadTree checks that the two agree.               *)
(*                                                                         *)
(* The node an item belongs to when every node is split is its home.  A    *)
(* node splits once when one item more than its capacity has come to it,   *)
(* and the items it holds then that fit in no child are gone; items that   *)
(* come later stay in it.                                                  *)
(*                                                                         *)
(* One level down every coordinate is doubled, so that the midpoints of    *)
(* qtnode_split, halves in the code, are integers.                         *)
(***************************************************************************)
EXTENDS Geometry, Sequences

CONSTANTS
  QT_CAPACITY,  \* the node capacity build_page_quadtree asks for: 8
  QT_MAX_DEPTH  \* 20

ASSUME FillAssumption == QT_CAPACITY \in Nat \ {0} /\ QT_MAX_DEPTH \in Nat \ {0}

Twice(m) == mbr_create(2 * m.min_x, 2 * m.min_y, 2 * m.max_x, 2 * m.max_y)

\* The children of a node with bounds b, in the code's order: NW, NE, SW, SE.
quadrants(b) ==
  LET t == Twice(b)
      mid_x == b.min_x + b.max_x
      mid_y == b.min_y + b.max_y
  IN << mbr_create(t.min_x, mid_y, mid_x, t.max_y),
        mbr_create(mid_x, mid_y, t.max_x, t.max_y),
        mbr_create(t.min_x, t.min_y, mid_x, mid_y),
        mbr_create(mid_x, t.min_y, t.max_x, mid_y) >>

\* A place is a node an item comes through: the quadrants on the way to it,
\* its bounds, and the item's rectangle in the same units.
Fitting(n) == {q \in 1..4 : mbr_contains_mbr(quadrants(n.box)[q], Twice(n.item))}

\* One step of the descent of qtnode_insert through nodes that are split.
Descend(n) ==
  IF Fitting(n) = {} THEN n
  ELSE [path |-> Append(n.path, Min(Fitting(n))),
        box |-> quadrants(n.box)[Min(Fitting(n))],
        item |-> Twice(n.item)]

home(root, m) ==
  LET at[d \in 0..QT_MAX_DEPTH] ==
        IF d = 0 THEN [path |-> <<>>, box |-> root, item |-> m] ELSE Descend(at[d - 1])
  IN at[QT_MAX_DEPTH]

-----------------------------------------------------------------------------
\* ext: the rectangles of the items, by their place in the order of insertion.

\* QT_ERR_BOUNDS outside the root.
Accepted(root, ext) == {s \in DOMAIN ext : mbr_intersects(root, ext[s])}

\* The items that come to the home of item s.
Sharing(root, ext, s) ==
  LET p == home(root, ext[s]).path
  IN {t \in Accepted(root, ext) :
        LET q == home(root, ext[t]).path IN Len(p) <= Len(q) /\ SubSeq(q, 1, Len(p)) = p}

\* Mutant: a node splits when it is full, before there is one item more.
Dropped_Early(root, ext) ==
  {s \in Accepted(root, ext) :
     /\ Len(home(root, ext[s]).path) < QT_MAX_DEPTH
     /\ Cardinality(Sharing(root, ext, s)) >= QT_CAPACITY
     /\ Cardinality({t \in Sharing(root, ext, s) : t < s}) < QT_CAPACITY}

\* The home of s splits, and s was in it.
Dropped(root, ext) ==
  {s \in Accepted(root, ext) :
     /\ Len(home(root, ext[s]).path) < QT_MAX_DEPTH
     /\ Cardinality(Sharing(root, ext, s)) > QT_CAPACITY
     /\ Cardinality({t \in Sharing(root, ext, s) : t < s}) < QT_CAPACITY}

Kept(root, ext) == Accepted(root, ext) \ Dropped(root, ext)
=============================================================================
