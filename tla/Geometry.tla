------------------------------ MODULE Geometry ------------------------------
(***************************************************************************)
(* Points and minimum bounding rectangles of src/src/geometry.c, over a    *)
(* bounded integer grid.                                                   *)
(*                                                                         *)
(* The doubles of the code are integers in -Inf .. Inf, where Inf stands   *)
(* for DBL_MAX: the code only compares, adds and averages coordinates, and *)
(* averages are kept unevaluated (see Pages!MeanDistance).  Operators bear *)
(* the names of the C functions they translate.                            *)
(***************************************************************************)
EXTENDS Integers, FiniteSets, FiniteSetsExt

CONSTANT Inf  \* DBL_MAX

ASSUME InfAssumption == Inf \in Nat \ {0}

Coord == (-Inf)..Inf
Point == [x : Coord, y : Coord]
MBR == [min_x : Coord, min_y : Coord, max_x : Coord, max_y : Coord]

Origin == [x |-> 0, y |-> 0]

mbr_create(x1, y1, x2, y2) ==
  [min_x |-> x1, min_y |-> y1, max_x |-> x2, max_y |-> y2]

mbr_empty == mbr_create(Inf, Inf, -Inf, -Inf)

mbr_is_empty(m) == m.min_x > m.max_x \/ m.min_y > m.max_y

Lower(a, b) == IF b < a THEN b ELSE a
Upper(a, b) == IF b > a THEN b ELSE a

mbr_expand_point(m, p) ==
  mbr_create(Lower(m.min_x, p.x), Lower(m.min_y, p.y),
             Upper(m.max_x, p.x), Upper(m.max_y, p.y))

\* An empty rectangle expands nothing.
mbr_expand_mbr(m, o) ==
  IF mbr_is_empty(o) THEN m
  ELSE mbr_create(Lower(m.min_x, o.min_x), Lower(m.min_y, o.min_y),
                  Upper(m.max_x, o.max_x), Upper(m.max_y, o.max_y))

\* Closed rectangles: touching edges intersect, an empty one never does.
mbr_intersects(a, b) ==
  /\ ~ mbr_is_empty(a) /\ ~ mbr_is_empty(b)
  /\ a.max_x >= b.min_x /\ a.min_x <= b.max_x
  /\ a.max_y >= b.min_y /\ a.min_y <= b.max_y

mbr_contains_mbr(a, b) ==
  /\ ~ mbr_is_empty(a) /\ ~ mbr_is_empty(b)
  /\ b.min_x >= a.min_x /\ b.max_x <= a.max_x
  /\ b.min_y >= a.min_y /\ b.max_y <= a.max_y

mbr_area(m) ==
  IF mbr_is_empty(m) THEN 0 ELSE (m.max_x - m.min_x) * (m.max_y - m.min_y)

(***************************************************************************)
(* The loops that start from mbr_empty() and expand by each rectangle of a *)
(* collection (page_update_derived, track_update_derived) compute the      *)
(* smallest rectangle around the non-empty ones.                           *)
(***************************************************************************)
Hull(rects) ==
  LET solid == {m \in rects : ~ mbr_is_empty(m)}
  IN IF solid = {} THEN mbr_empty
     ELSE mbr_create(Min({m.min_x : m \in solid}), Min({m.min_y : m \in solid}),
                     Max({m.max_x : m \in solid}), Max({m.max_y : m \in solid}))

\* The stored geometry of an object: its kind, and what
\* spatial_object_update_derived computes from its vertices.
Geom == [kind : {"POINT", "SHAPE"}, mbr : MBR, centroid : Point]

PointGeom(p) ==
  [kind |-> "POINT", mbr |-> mbr_create(p.x, p.y, p.x, p.y), centroid |-> p]

\* A linestring or polygon without vertices: its derived fields keep the
\* values the init functions gave them.
NoVertices == [kind |-> "SHAPE", mbr |-> mbr_empty, centroid |-> Origin]

SpatialObject == [id : Nat, geom : Geom, mbr : MBR, centroid : Point]

\* spatial_object_init_*, with an identifier (0: not assigned).
spatial_object_init(id, g) ==
  [id |-> id, geom |-> g, mbr |-> g.mbr, centroid |-> g.centroid]

\* GEOM_ERR_EMPTY_GEOM leaves centroid and mbr as they are.
spatial_object_update_derived(o) ==
  IF mbr_is_empty(o.geom.mbr) THEN o
  ELSE [o EXCEPT !.mbr = o.geom.mbr, !.centroid = o.geom.centroid]

\* The bytes left by spatial_object_free and by calloc.
ZeroObject == spatial_object_init(0, PointGeom(Origin))
=============================================================================
