----------------------------- MODULE MC_QuadTree -----------------------------
(***************************************************************************)
(* TLC instance of the quadtree: an 8 by 8 root with nodes of two items    *)
(* and two levels below it; small items in opposite corners, one across a  *)
(* midline of a child, one across the centre, one on a quadrant border,    *)
(* one that sticks out of the root and one outside it.                     *)
(*                                                                         *)
(* A behaviour either takes any step of the quadtree or fills an empty one *)
(* as build_page_quadtree does, and remembers what was handed over: what   *)
(* is left in the nodes is then what QuadTreeFill says.                    *)
(***************************************************************************)
EXTENDS QuadTree

VARIABLES
  filling,   \* whether this behaviour is a build of the page quadtree
  inserted   \* the items it has handed over, in order

Fill == INSTANCE QuadTreeFill WITH QT_CAPACITY <- node_capacity, QT_MAX_DEPTH <- max_depth

MCInit == Init /\ filling \in BOOLEAN /\ inserted = <<>>

\* build_page_quadtree hands over one page; that it fails is ignored.
InsertPage(id, b) ==
  /\ filling /\ Len(inserted) < MaxItems
  /\ inserted' = Append(inserted, [id |-> id, bounds |-> b])
  /\ IF mbr_intersects(Bounds, b) THEN quadtree_insert(id, b) ELSE UNCHANGED vars
  /\ UNCHANGED filling

AnyStep == ~ filling /\ Next /\ UNCHANGED <<filling, inserted>>

MCNext == AnyStep \/ \E id \in Ids, b \in Boxes : InsertPage(id, b)

MCSpec == MCInit /\ [][MCNext]_<<vars, filling, inserted>>

(***************************************************************************)
(* The closed form of QuadTreeFill and the insertions with their cascading *)
(* splits leave the same items in the tree, each as often (qtnode_insert,  *)
(* qtnode_split).                                                          *)
(***************************************************************************)
FillAgrees ==
  LET left == Fill!Kept(Bounds, [s \in DOMAIN inserted |-> inserted[s].bounds])
  IN filling =>
       \A i \in Item : Cardinality({a \in Places(Tree) : items[a[1]][a[2]] = i})
                         = Cardinality({s \in left : inserted[s] = i})

MCBounds == mbr_create(0, 0, 8, 8)

MCBoxes == {mbr_create(1, 1, 1, 1), mbr_create(3, 1, 3, 3), mbr_create(7, 7, 8, 8),
            mbr_create(3, 3, 5, 5), mbr_create(4, 1, 4, 2), mbr_create(7, 1, 9, 1),
            mbr_create(9, 9, 9, 9)}
=============================================================================
