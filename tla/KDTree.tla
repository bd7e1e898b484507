-------------------------------- MODULE KDTree --------------------------------
(***************************************************************************)
(* The KD-tree of src/src/kdtree.c, from which SpatialIndex takes its      *)
(* blocks and its nearest neighbour.  A node is named by the sides on the  *)
(* way to it from the root.                                                *)
(*                                                                         *)
(* Of qsort only the order by coordinate is used: points with equal        *)
(* coordinates may end up in any order, so a bulk load has several         *)
(* outcomes.  Allocation failures and user data pointers are left out.     *)
(***************************************************************************)
EXTENDS Geometry, Sequences, SequencesExt

CONSTANTS
  Points,      \* points that are inserted
  Loads,       \* sequences of points that are bulk loaded
  Queries,     \* points that are asked about
  Ranges,      \* rectangles that are asked about
  Radii,       \* radii that are asked about
  MaxSize      \* bound: size

ASSUME KDTreeAssumption ==
  /\ Points \subseteq Point /\ Queries \subseteq Point /\ Ranges \subseteq MBR
  /\ Radii \subseteq Nat /\ MaxSize \in Nat /\ Loads \subseteq SeqOf(Points, MaxSize)

Left == 0
Right == 1
Side == {Left, Right}

Path == SeqOf(Side, MaxSize - 1)

KDNode ==
  [point : Points, object_id : 1..MaxSize, split_dim : {0, 1},
   bounds : MBR, subtree_size : 1..MaxSize]

VARIABLES
  root,        \* the nodes, by their path: a function
  size,
  bounds

vars == <<root, size, bounds>>

TypeOK ==
  /\ DOMAIN root \subseteq Path
  /\ \A n \in DOMAIN root : root[n] \in KDNode /\ (n # <<>> => Front(n) \in DOMAIN root)
  /\ size = Cardinality(DOMAIN root)
  /\ bounds \in MBR

Init == root = <<>> /\ size = 0 /\ bounds = mbr_empty

-----------------------------------------------------------------------------
\* Building.

Coordinate(p, dim) == IF dim = 0 THEN p.x ELSE p.y

kdnode_create(p, id, dim) ==
  [point |-> p, object_id |-> id, split_dim |-> dim,
   bounds |-> mbr_create(p.x, p.y, p.x, p.y), subtree_size |-> 1]

SideOf(node, p) ==
  IF Coordinate(p, node.split_dim) < Coordinate(node.point, node.split_dim) THEN Left ELSE Right

\* One step of the descent of insert_recursive, and where it falls off the tree.
Below(t, p, n) == IF n \in DOMAIN t THEN Append(n, SideOf(t[n], p)) ELSE n

FreePath(t, p) ==
  LET at[d \in 0..MaxSize] == IF d = 0 THEN <<>> ELSE Below(t, p, at[d - 1])
  IN at[MaxSize]

\* Mutant: the nodes passed on the way are not counted again.
insert_recursive_NotCounted(t, p, id) ==
  LET n == FreePath(t, p)
  IN [m \in DOMAIN t \cup {n} |->
        IF m = n THEN kdnode_create(p, id, Len(n) % 2)
        ELSE IF IsPrefix(m, n) THEN [t[m] EXCEPT !.bounds = mbr_expand_point(@, p)]
        ELSE t[m]]

insert_recursive(t, p, id) ==
  LET n == FreePath(t, p)
  IN [m \in DOMAIN t \cup {n} |->
        IF m = n THEN kdnode_create(p, id, Len(n) % 2)
        ELSE IF IsPrefix(m, n)
             THEN [t[m] EXCEPT !.bounds = mbr_expand_point(@, p), !.subtree_size = @ + 1]
        ELSE t[m]]

Expanded(b, n, t) == IF n \in DOMAIN t THEN mbr_expand_mbr(b, t[n].bounds) ELSE b
SizeAt(n, t) == IF n \in DOMAIN t THEN t[n].subtree_size ELSE 0

\* A new node at n, over its subtrees l and r.
kdnode_update_bounds(node, n, l, r) ==
  [node EXCEPT !.bounds = Expanded(Expanded(@, Append(n, Left), l), Append(n, Right), r),
               !.subtree_size = @ + SizeAt(Append(n, Left), l) + SizeAt(Append(n, Right), r)]

Over(node, n, l, r) ==
  [m \in {n} \cup DOMAIN l \cup DOMAIN r |->
     IF m \in DOMAIN l THEN l[m]
     ELSE IF m \in DOMAIN r THEN r[m] ELSE kdnode_update_bounds(node, n, l, r)]

\* The points es (indices of ps) as sorting them by dim can arrange them: the
\* one in the middle, those before it and those after it.
Medians(ps, es, dim) ==
  LET c(e) == Coordinate(ps[e], dim)
  IN {m \in [e : es, before : kSubset(Cardinality(es) \div 2, es), after : SUBSET es] :
        /\ m.e \notin m.before /\ m.after = es \ (m.before \cup {m.e})
        /\ \A l \in m.before : c(l) <= c(m.e)
        /\ \A r \in m.after : c(m.e) <= c(r)}

\* The trees over the points ps: built[es][n] are the subtrees at n of es.
build_tree_recursive(ps) ==
  LET built[es \in SUBSET DOMAIN ps] ==
        [n \in Seq(Side) |->
           IF es = {} THEN {<<>>}
           ELSE UNION {{Over(kdnode_create(ps[m.e], m.e, Len(n) % 2), n, l, r) :
                          l \in built[m.before][Append(n, Left)],
                          r \in built[m.after][Append(n, Right)]} :
                         m \in Medians(ps, es, Len(n) % 2)}]
  IN built[DOMAIN ps][<<>>]

\* The loop of kdtree_bulk_load over its points.
BoundsOf(ps) ==
  LET upTo[k \in 0..Len(ps)] ==
        IF k = 0 THEN mbr_empty ELSE mbr_expand_point(upTo[k - 1], ps[k])
  IN upTo[Len(ps)]

-----------------------------------------------------------------------------
\* Mutant: the rectangle of the tree is left to the next bulk load.
kdtree_insert_NoExpand(p) ==
  /\ size < MaxSize
  /\ root' = insert_recursive(root, p, size + 1)
  /\ size' = size + 1 /\ UNCHANGED bounds

kdtree_insert(p) ==
  /\ size < MaxSize
  /\ root' = insert_recursive(root, p, size + 1)
  /\ bounds' = mbr_expand_point(bounds, p)
  /\ size' = size + 1

\* Replaces the tree; no points leave it as it is.
kdtree_bulk_load(ps) ==
  /\ ps # <<>>
  /\ root' \in build_tree_recursive(ps)
  /\ size' = Len(ps) /\ bounds' = BoundsOf(ps)

kdtree_free == root' = <<>> /\ size' = 0 /\ bounds' = mbr_empty

Next ==
  \/ \E p \in Points : kdtree_insert(p)
  \/ \E ps \in Loads : kdtree_bulk_load(ps)
  \/ kdtree_free

Spec == Init /\ [][Next]_vars

-----------------------------------------------------------------------------
\* Queries.

point_distance_sq(a, b) == (a.x - b.x) * (a.x - b.x) + (a.y - b.y) * (a.y - b.y)

\* Mutant: the far side first, then the near one if it may hold a nearer point.
NearSide_Far(diff) == IF diff < 0 THEN Right ELSE Left

NearSide(diff) == IF diff < 0 THEN Left ELSE Right

NNState == [node : Path, dist_sq : Nat]

\* The search below n; best is the nearest point so far and its distance.
nearest_recursive(q) ==
  LET search[n \in Seq(Side)] ==
        [best \in NNState |->
           IF n \notin DOMAIN root THEN best
           ELSE LET here == point_distance_sq(q, root[n].point)
                    found == IF here < best.dist_sq THEN [node |-> n, dist_sq |-> here] ELSE best
                    dim == root[n].split_dim
                    diff == Coordinate(q, dim) - Coordinate(root[n].point, dim)
                    near == search[Append(n, NearSide(diff))][found]
                IN IF diff * diff < near.dist_sq
                   THEN search[Append(n, 1 - NearSide(diff))][near]
                   ELSE near]
  IN search[<<>>]

\* Inf stands for DBL_MAX here as well: no distance below it, no point but the root's.
kdtree_nearest(q) == nearest_recursive(q)[[node |-> <<>>, dist_sq |-> Inf]].node

mbr_contains_point(m, p) ==
  p.x >= m.min_x /\ p.x <= m.max_x /\ p.y >= m.min_y /\ p.y <= m.max_y

\* The search ends at a node whose bounds miss the range.
kdtree_range_query(r) ==
  {n \in DOMAIN root :
     /\ \A k \in 0..Len(n) : mbr_intersects(root[SubSeq(n, 1, k)].bounds, r)
     /\ mbr_contains_point(r, root[n].point)}

\* The range query for the square around q, then the distance.
kdtree_radius_query(q, radius) ==
  {n \in kdtree_range_query(mbr_create(q.x - radius, q.y - radius, q.x + radius, q.y + radius)) :
     point_distance_sq(q, root[n].point) <= radius * radius}

\* kdtree_k_nearest selects the k nearest of the points in the tree's bounds.
Candidates == kdtree_range_query(bounds)

IsBlock(n, max) ==
  root[n].subtree_size <= max \/ \A s \in Side : Append(n, s) \notin DOMAIN root

\* Mutant: the search goes on below a block.
kdtree_partition_NoReturn(max) == {n \in DOMAIN root : IsBlock(n, max)}

\* The nodes whose bounds kdtree_partition returns: the topmost that are small
\* enough or leaves.  The split points above them are in no block.
kdtree_partition(max) ==
  {n \in DOMAIN root :
     IsBlock(n, max) /\ \A k \in 0..(Len(n) - 1) : ~ IsBlock(SubSeq(n, 1, k), max)}

-----------------------------------------------------------------------------
\* Properties.

Beneath(n) == {m \in DOMAIN root : IsPrefix(n, m)}

(***************************************************************************)
(* The bounds and subtree_size that insert_recursive keeps up on its way   *)
(* back, and that kdnode_update_bounds computes in a bulk load, are those  *)
(* of the points below each node; those of the tree are the root's.        *)
(* The types hold with it.                                                 *)
(***************************************************************************)
BoundsExact ==
  /\ TypeOK
  /\ \A n \in DOMAIN root :
       /\ root[n].bounds = Hull({PointGeom(root[m].point).mbr : m \in Beneath(n)})
       /\ root[n].subtree_size = Cardinality(Beneath(n))
  /\ bounds = IF root = <<>> THEN mbr_empty ELSE root[<<>>].bounds

(***************************************************************************)
(* No stored point is nearer than the one kdtree_nearest returns, unless   *)
(* the square of its distance is DBL_MAX or more: the side the search      *)
(* prunes holds no nearer point, also when a bulk load left points equal   *)
(* to the split coordinate on the left (nearest_recursive).                *)
(***************************************************************************)
NearestExact ==
  root # <<>> =>
    \A q \in Queries :
      LET nearest == root[kdtree_nearest(q)].point
      IN \A n \in DOMAIN root :
           LET dist_sq == point_distance_sq(q, root[n].point)
           IN dist_sq < Inf => point_distance_sq(q, nearest) <= dist_sq

(***************************************************************************)
(* A range query finds every stored point of its range, a radius query     *)
(* every stored point of its disc, and the range query from whose result   *)
(* kdtree_k_nearest selects finds every stored point.                      *)
(***************************************************************************)
QueriesComplete ==
  /\ \A r \in Ranges :
       kdtree_range_query(r) = {n \in DOMAIN root : mbr_contains_point(r, root[n].point)}
  /\ \A q \in Queries, radius \in Radii :
       kdtree_radius_query(q, radius)
         = {n \in DOMAIN root : point_distance_sq(q, root[n].point) <= radius * radius}
  /\ Candidates = DOMAIN root

SharesArea(a, b) ==
  /\ a.max_x > b.min_x /\ a.min_x < b.max_x
  /\ a.max_y > b.min_y /\ a.min_y < b.max_y

(***************************************************************************)
(* The blocks of a partition share no area, at most an edge: every block   *)
(* lies on its side of each split above it, in trees grown by insertion as *)
(* in those of a bulk load (kdtree_partition, collect_leaf_bounds).        *)
(***************************************************************************)
BlocksApart ==
  \A max \in 1..MaxSize : \A a, b \in kdtree_partition(max) :
    a # b => ~ SharesArea(root[a].bounds, root[b].bounds)
=============================================================================
