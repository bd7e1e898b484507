------------------------------- MODULE QuadTree -------------------------------
(***************************************************************************)
(* The page quadtree of src/src/quadtree.c, node by node; SpatialIndex has *)
(* the items left in it (QuadTreeFill).  A node is named by the quadrants  *)
(* on the way to it from the root; it is a leaf while it has no children.  *)
(*                                                                         *)
(* The root's sides are multiples of 2^max_depth, so that every midpoint   *)
(* is a grid point.  Of an item its centroid and data pointer are left     *)
(* out: no search for a region or an identifier reads them.                *)
(***************************************************************************)
EXTENDS Geometry, Sequences, SequencesExt

CONSTANTS
  Bounds,         \* the rectangle of the root
  node_capacity,
  max_depth,
  Ids,            \* item identifiers
  Boxes,          \* item rectangles
  MaxItems        \* bound: total_items

ASSUME QuadTreeAssumption ==
  /\ Bounds \in MBR /\ ~ mbr_is_empty(Bounds)
  /\ (Bounds.max_x - Bounds.min_x) % 2^max_depth = 0
  /\ (Bounds.max_y - Bounds.min_y) % 2^max_depth = 0
  /\ node_capacity \in Nat \ {0} /\ max_depth \in Nat \ {0}
  /\ Boxes \subseteq MBR /\ MaxItems \in Nat

Quadrant == 1..4
NW == 1  NE == 2  SW == 3  SE == 4

Node == SeqOf(Quadrant, max_depth)
Item == [id : Ids, bounds : Boxes]

VARIABLES
  nodes,       \* the nodes that exist
  items,       \* node->items
  total_items

vars == <<nodes, items, total_items>>

TypeOK ==
  /\ nodes \subseteq Node /\ <<>> \in nodes
  /\ \A n \in nodes \ {<<>>} :
       Front(n) \in nodes /\ \A q \in Quadrant : Append(Front(n), q) \in nodes
  /\ items \in [Node -> Seq(Item)]
  /\ \A n \in Node \ nodes : items[n] = <<>>
  /\ total_items \in 0..MaxItems

Init == nodes = {<<>>} /\ items = [n \in Node |-> <<>>] /\ total_items = 0

-----------------------------------------------------------------------------
\* A tree is a record of nodes and items, so that an insertion can split
\* node after node before it is done.
Tree == [nodes |-> nodes, items |-> items]

Becomes(t) == nodes' = t.nodes /\ items' = t.items

qtnode_quadrant_bounds(b, q) ==
  LET mid_x == (b.min_x + b.max_x) \div 2
      mid_y == (b.min_y + b.max_y) \div 2
  IN CASE q = NW -> mbr_create(b.min_x, mid_y, mid_x, b.max_y)
       [] q = NE -> mbr_create(mid_x, mid_y, b.max_x, b.max_y)
       [] q = SW -> mbr_create(b.min_x, b.min_y, mid_x, mid_y)
       [] q = SE -> mbr_create(mid_x, b.min_y, b.max_x, mid_y)

BoundsOf[n \in Node \cup [1..(max_depth + 1) -> Quadrant]] ==
  IF n = <<>> THEN Bounds ELSE qtnode_quadrant_bounds(BoundsOf[Front(n)], Last(n))

is_leaf(t, n) == Append(n, NW) \notin t.nodes

\* Mutant: a child that the item only touches will do.
Fitting_Touching(n, b) == {q \in Quadrant : mbr_intersects(BoundsOf[Append(n, q)], b)}

\* The quadrants of n that contain b; the code takes the first of them.
Fitting(n, b) == {q \in Quadrant : mbr_contains_mbr(BoundsOf[Append(n, q)], b)}

\* The items that a split of n hands to quadrant q.
MovedTo(n, q) == {i \in Item : Fitting(n, i.bounds) # {} /\ Min(Fitting(n, i.bounds)) = q}

\* The members of s that are in K, in their order: the loop of qtnode_split.
Chosen(s, K) ==
  LET upTo[k \in 0..Len(s)] ==
        IF k = 0 THEN <<>>
        ELSE IF s[k] \in K THEN Append(upTo[k - 1], s[k]) ELSE upTo[k - 1]
  IN upTo[Len(s)]

\* Mutant: the last item of the node is not redistributed.
qtnode_split_SkipsLast(t, n) ==
  [nodes |-> t.nodes \cup {Append(n, q) : q \in Quadrant},
   items |-> [m \in Node |->
                IF m = n THEN <<>>
                ELSE IF m # <<>> /\ Front(m) = n
                     THEN Chosen(Front(t.items[n]), MovedTo(n, Last(m)))
                ELSE t.items[m]]]

\* Items that no child contains are in no child, and the node is emptied.
qtnode_split(t, n) ==
  [nodes |-> t.nodes \cup {Append(n, q) : q \in Quadrant},
   items |-> [m \in Node |->
                IF m = n THEN <<>>
                ELSE IF m # <<>> /\ Front(m) = n
                     THEN Chosen(t.items[n], MovedTo(n, Last(m)))
                ELSE t.items[m]]]

\* One step of the descent of qtnode_insert.
Below(t, b, n) ==
  IF is_leaf(t, n) \/ Fitting(n, b) = {} THEN n ELSE Append(n, Min(Fitting(n, b)))

\* The node the descent ends at.
target(t, b) ==
  LET at[d \in 0..max_depth] == IF d = 0 THEN <<>> ELSE Below(t, b, at[d - 1])
  IN at[max_depth]

\* Mutant: a node splits when it is one over its capacity.
MustSplit_OffByOne(t, n) == is_leaf(t, n) /\ Len(t.items[n]) > node_capacity /\ Len(n) < max_depth

MustSplit(t, n) == is_leaf(t, n) /\ Len(t.items[n]) >= node_capacity /\ Len(n) < max_depth

\* The descent, and the split of the full leaf where it ends.
SplitOnWay(t, b) == LET n == target(t, b) IN IF MustSplit(t, n) THEN qtnode_split(t, n) ELSE t

\* A full leaf splits and the item is inserted again, down to max_depth.
qtnode_insert(t, i) ==
  LET after[d \in 0..max_depth] == IF d = 0 THEN t ELSE SplitOnWay(after[d - 1], i.bounds)
      s == after[max_depth]
  IN [s EXCEPT !.items[target(s, i.bounds)] = Append(@, i)]

-----------------------------------------------------------------------------
\* Depth-first order: a node before its children, the children in order.
Precedes(m, n) ==
  \/ IsStrictPrefix(m, n)
  \/ \E k \in DOMAIN m \cap DOMAIN n :
       SubSeq(m, 1, k - 1) = SubSeq(n, 1, k - 1) /\ m[k] < n[k]

HoldersOf(t, id) == {n \in t.nodes : \E k \in DOMAIN t.items[n] : t.items[n][k].id = id}

\* qtnode_find: the node and place of the first item with an identifier.
FirstHolder(t, id) == CHOOSE n \in HoldersOf(t, id) : \A m \in HoldersOf(t, id) \ {n} : Precedes(n, m)
FirstPlace(s, id) == Min({k \in DOMAIN s : s[k].id = id})

qtnode_remove(t, id) ==
  LET n == FirstHolder(t, id)
  IN [t EXCEPT !.items[n] = RemoveAt(@, FirstPlace(@, id))]

-----------------------------------------------------------------------------
\* QT_ERR_BOUNDS outside the root.
quadtree_insert(id, b) ==
  /\ mbr_intersects(Bounds, b) /\ total_items < MaxItems
  /\ Becomes(qtnode_insert(Tree, [id |-> id, bounds |-> b]))
  /\ total_items' = total_items + 1

quadtree_remove(id) ==
  /\ HoldersOf(Tree, id) # {}
  /\ Becomes(qtnode_remove(Tree, id))
  /\ total_items' = total_items - 1

\* Mutant: the item comes back without being counted.
quadtree_update_NotCounted(id, b) ==
  /\ HoldersOf(Tree, id) # {}
  /\ LET t == qtnode_remove(Tree, id)
     IN Becomes(IF mbr_intersects(Bounds, b)
                THEN qtnode_insert(t, [id |-> id, bounds |-> b]) ELSE t)
  /\ total_items' = total_items - 1

\* quadtree_update removes first: new bounds outside the root lose the item.
quadtree_update(id, b) ==
  /\ HoldersOf(Tree, id) # {}
  /\ LET t == qtnode_remove(Tree, id)
     IN IF mbr_intersects(Bounds, b)
        THEN Becomes(qtnode_insert(t, [id |-> id, bounds |-> b])) /\ UNCHANGED total_items
        ELSE Becomes(t) /\ total_items' = total_items - 1

\* quadtree_free, then quadtree_init with the same bounds.
quadtree_clear ==
  /\ nodes' = {<<>>} /\ items' = [n \in Node |-> <<>>] /\ total_items' = 0

Next ==
  \/ \E id \in Ids, b \in Boxes : quadtree_insert(id, b) \/ quadtree_update(id, b)
  \/ \E id \in Ids : quadtree_remove(id)
  \/ quadtree_clear

Spec == Init /\ [][Next]_vars

-----------------------------------------------------------------------------
\* Queries.

Places(t) == UNION {{<<n, k>> : k \in DOMAIN t.items[n]} : n \in t.nodes}

BoundsAt(a) == items[a[1]][a[2]].bounds

\* The nodes whose ancestors, and they themselves, meet the region.
Visited(r) ==
  {n \in nodes : \A k \in 0..Len(n) : mbr_intersects(BoundsOf[SubSeq(n, 1, k)], r)}

qtnode_query_range(r) == {a \in Places(Tree) : a[1] \in Visited(r) /\ mbr_intersects(BoundsAt(a), r)}

\* By containment of the point, in nodes as in items.
qtnode_query_point(x, y) ==
  LET at == mbr_create(x, y, x, y)
  IN {a \in Places(Tree) :
        /\ \A k \in 0..Len(a[1]) : mbr_contains_mbr(BoundsOf[SubSeq(a[1], 1, k)], at)
        /\ mbr_contains_mbr(BoundsAt(a), at)}

-----------------------------------------------------------------------------
\* Properties.

(***************************************************************************)
(* A query for a region that meets the root returns every stored item that *)
(* meets the region, items that stick out of the root or span quadrants    *)
(* included: descent by containment and search by intersection agree.  So  *)
(* does a point query inside the root, also for a point on the border      *)
(* between quadrants (qtnode_insert, qtnode_split, qtnode_query_range,     *)
(* qtnode_query_point).                                                    *)
(***************************************************************************)
RangeComplete(r) ==
  mbr_intersects(Bounds, r) =>
    qtnode_query_range(r) = {a \in Places(Tree) : mbr_intersects(BoundsAt(a), r)}

PointComplete(x, y) ==
  mbr_contains_mbr(Bounds, mbr_create(x, y, x, y)) =>
    qtnode_query_point(x, y)
      = {a \in Places(Tree) : mbr_contains_mbr(BoundsAt(a), mbr_create(x, y, x, y))}

RangeQueriesComplete ==
  \A r \in Boxes : RangeComplete(r) /\ PointComplete(r.min_x, r.min_y)

(***************************************************************************)
(* Items lie as deep as they fit: inside their node, unless it is the      *)
(* root, and inside no child of an inner node; and a leaf above max_depth  *)
(* is never over its capacity (quadtree.h, node_capacity), so that a split *)
(* finds room in the children for all it moves (qtnode_split).             *)
(* The types hold with it.                                                 *)
(***************************************************************************)
ItemsPlaced ==
  /\ TypeOK
  /\ \A a \in Places(Tree) :
       /\ a[1] # <<>> => mbr_contains_mbr(BoundsOf[a[1]], BoundsAt(a))
       /\ ~ is_leaf(Tree, a[1]) => Fitting(a[1], BoundsAt(a)) = {}
  /\ \A n \in nodes : is_leaf(Tree, n) /\ Len(n) < max_depth => Len(items[n]) <= node_capacity

(***************************************************************************)
(* total_items is never below the number of stored items, so that no       *)
(* removal wraps the size_t below zero (quadtree_remove).                  *)
(***************************************************************************)
CountNotShort == Cardinality(Places(Tree)) <= total_items

Stored(t) == {t.items[a[1]][a[2]] : a \in Places(t)}

\* The nodes that one insertion splits.
Split(t, u) == {n \in u.nodes : ~ is_leaf(u, n) /\ is_leaf(t, n)}

(***************************************************************************)
(* An insertion loses no stored item but those of the nodes it splits that *)
(* fit in none of their children (quadtree_insert, qtnode_split).          *)
(***************************************************************************)
InsertLosesOnlySpanning ==
  [][total_items' > total_items =>
       \A a \in Places(Tree) :
         \/ items[a[1]][a[2]] \in Stored(Tree')
         \/ \E n \in Split(Tree, Tree') : IsPrefix(a[1], n) /\ Fitting(n, BoundsAt(a)) = {}]_vars

=============================================================================
