------------------------------- MODULE Shapes -------------------------------
(***************************************************************************)
(* Linestrings, polygons and spatial objects of src/src/geometry.c with    *)
(* their vertices, from which Geometry keeps only rectangle and centroid.  *)
(*                                                                         *)
(* Vertices are sequences of points.  The segments of a linestring are     *)
(* axis-parallel, so that their lengths are integers; centroids are        *)
(* fractions [x, y, den] for the point (x / den, y / den), and areas are   *)
(* taken twice.  The arrays grow when they are full: capacities are left   *)
(* out, and so is the failure of malloc.                                   *)
(***************************************************************************)
EXTENDS Geometry, Sequences, SequencesExt

\* A point as a fraction.
Whole(p) == [x |-> p.x, y |-> p.y, den |-> 1]

SameFraction(a, b) == a.x * b.den = b.x * a.den /\ a.y * b.den = b.y * a.den

SumOver(f(_), n) == SumFunction([i \in 1..n |-> f(i)])

Abs(n) == IF n < 0 THEN -n ELSE n
Sign(n) == IF n < 0 THEN -1 ELSE 1

-----------------------------------------------------------------------------
\* Linestrings.

\* point_distance, along an axis.
point_distance(p, q) == Abs(q.x - p.x) + Abs(q.y - p.y)

linestring_length(points) ==
  IF Len(points) < 2 THEN 0
  ELSE SumOver(LAMBDA i : point_distance(points[i], points[i + 1]), Len(points) - 1)

\* The midpoints of the segments weighted by their lengths; of no points.
linestring_centroid(points) ==
  LET seg(i) == point_distance(points[i], points[i + 1])
      total == linestring_length(points)
  IN IF total = 0 THEN Whole(points[1])
     ELSE [x |-> SumOver(LAMBDA i : (points[i].x + points[i + 1].x) * seg(i), Len(points) - 1),
           y |-> SumOver(LAMBDA i : (points[i].y + points[i + 1].y) * seg(i), Len(points) - 1),
           den |-> 2 * total]

\* linestring_mbr, polygon_mbr: the loop from mbr_empty().
vertices_mbr(points) ==
  FoldLeft(mbr_expand_point, mbr_empty, points)

-----------------------------------------------------------------------------
\* Rings and polygons.

NextOf(ring, i) == ring[(i % Len(ring)) + 1]

Cross(ring, i) ==
  ring[i].x * NextOf(ring, i).y - NextOf(ring, i).x * ring[i].y

\* ring_signed_area, twice: positive when counter-clockwise.
ring_signed_area(ring) ==
  IF Len(ring) < 3 THEN 0 ELSE SumOver(LAMBDA i : Cross(ring, i), Len(ring))

\* Mutant: the area is taken without its sign.
ring_centroid_Unsigned(ring) ==
  LET n == Len(ring)
      area == ring_signed_area(ring)
      moment(coord(_)) == SumOver(LAMBDA i : (coord(ring[i]) + coord(NextOf(ring, i))) * Cross(ring, i), n)
  IN IF area = 0
     THEN [x |-> SumOver(LAMBDA i : ring[i].x, n), y |-> SumOver(LAMBDA i : ring[i].y, n), den |-> n]
     ELSE [x |-> moment(LAMBDA p : p.x), y |-> moment(LAMBDA p : p.y), den |-> 3 * Abs(area)]

\* ring_centroid, of at least three points: their mean when they have no area.
ring_centroid(ring) ==
  LET n == Len(ring)
      area == ring_signed_area(ring)
      moment(coord(_)) == SumOver(LAMBDA i : (coord(ring[i]) + coord(NextOf(ring, i))) * Cross(ring, i), n)
  IN IF area = 0
     THEN [x |-> SumOver(LAMBDA i : ring[i].x, n), y |-> SumOver(LAMBDA i : ring[i].y, n), den |-> n]
     ELSE [x |-> moment(LAMBDA p : p.x), y |-> moment(LAMBDA p : p.y), den |-> 3 * area]

\* Twice the area: the exterior without its holes, which are assumed to lie
\* inside and apart.
polygon_area(exterior, holes) ==
  IF Len(exterior) < 3 THEN 0
  ELSE Abs(ring_signed_area(exterior))
         - SumOver(LAMBDA h : Abs(ring_signed_area(holes[h])), Len(holes))

polygon_is_clockwise(exterior) == ring_signed_area(exterior) < 0

-----------------------------------------------------------------------------
\* Objects.

\* points: the point, the vertices of the line, or the exterior ring.
Shape == [type : {"GEOM_POINT", "GEOM_LINESTRING", "GEOM_POLYGON"},
          points : Seq(Point), holes : Seq(Seq(Point))]

PointShape(p) == [type |-> "GEOM_POINT", points |-> <<p>>, holes |-> <<>>]
LineShape(points) == [type |-> "GEOM_LINESTRING", points |-> points, holes |-> <<>>]
PolygonShape(ring, holes) == [type |-> "GEOM_POLYGON", points |-> ring, holes |-> holes]

\* The errors after which spatial_object_update_derived returns early: no
\* vertices, or a polygon with fewer than three.
HasNoCentroid(shape) ==
  Len(shape.points) < (IF shape.type = "GEOM_POLYGON" THEN 3 ELSE 1)

\* An object whose vertices have been added one by one, after
\* spatial_object_update_derived: the values of the init functions stay when
\* it returns early.
Derive(shape) ==
  [shape |-> shape, id |-> 0,
   centroid |-> IF HasNoCentroid(shape) THEN Whole(Origin)
                ELSE IF shape.type = "GEOM_POLYGON" THEN ring_centroid(shape.points)
                ELSE linestring_centroid(shape.points),
   mbr |-> IF HasNoCentroid(shape) THEN mbr_empty ELSE vertices_mbr(shape.points)]

-----------------------------------------------------------------------------
(***************************************************************************)
(* References the results are compared with.  Pick: twice the area of a    *)
(* simple lattice polygon is 2 * inner + border - 2.  Fan: the centroid is *)
(* the mean of the centroids of the triangles from the first vertex,       *)
(* weighted by their signed areas.                                         *)
(***************************************************************************)
Between(a, b, c) == (a <= b /\ b <= c) \/ (c <= b /\ b <= a)

Turn(p, q, r) == (q.x - p.x) * (r.y - p.y) - (r.x - p.x) * (q.y - p.y)

OnSegment(p, q, r) == Turn(p, q, r) = 0 /\ Between(p.x, r.x, q.x) /\ Between(p.y, r.y, q.y)

Meet(p, q, r, s) ==
  \/ Turn(p, q, r) * Turn(p, q, s) < 0 /\ Turn(r, s, p) * Turn(r, s, q) < 0
  \/ OnSegment(p, q, r) \/ OnSegment(p, q, s) \/ OnSegment(r, s, p) \/ OnSegment(r, s, q)

\* No two edges meet but neighbours, and these only in their common vertex.
IsSimple(ring) ==
  LET n == Len(ring)
  IN /\ n >= 3 /\ IsInjective(ring)
     /\ \A i, j \in 1..n :
          LET p == ring[i]  q == NextOf(ring, i)  r == ring[j]  s == NextOf(ring, j)
          IN \/ i = j
             \/ q = r /\ ~ OnSegment(r, s, p) /\ ~ OnSegment(p, q, s)
             \/ s = p /\ ~ OnSegment(p, q, r) /\ ~ OnSegment(r, s, q)
             \/ q # r /\ s # p /\ ~ Meet(p, q, r, s)

Lattice(m) == {[x |-> x, y |-> y] : x \in m.min_x..m.max_x, y \in m.min_y..m.max_y}

OnBorder(ring, p) == \E i \in DOMAIN ring : OnSegment(ring[i], NextOf(ring, i), p)

\* A ray to the right of p crosses an odd number of edges.
IsInside(ring, p) ==
  /\ ~ OnBorder(ring, p)
  /\ Cardinality({i \in DOMAIN ring :
       LET a == ring[i]  b == NextOf(ring, i)
       IN \/ a.y <= p.y /\ p.y < b.y /\ Turn(a, b, p) > 0
          \/ b.y <= p.y /\ p.y < a.y /\ Turn(a, b, p) < 0}) % 2 = 1

PickArea(ring) ==
  LET grid == Lattice(vertices_mbr(ring))
  IN 2 * Cardinality({p \in grid : IsInside(ring, p)})
       + Cardinality({p \in grid : OnBorder(ring, p)}) - 2

FanCentroid(ring) ==
  LET n == Len(ring)
      weight(i) == Turn(ring[1], ring[i], ring[i + 1])
      sum(coord(_)) == SumOver(LAMBDA k :
        (coord(ring[1]) + coord(ring[k + 1]) + coord(ring[k + 2])) * weight(k + 1), n - 2)
  IN [x |-> sum(LAMBDA p : p.x), y |-> sum(LAMBDA p : p.y),
      den |-> 3 * SumOver(LAMBDA k : weight(k + 1), n - 2)]

Inside(c, m) ==
  /\ m.min_x * Abs(c.den) <= c.x * Sign(c.den) /\ c.x * Sign(c.den) <= m.max_x * Abs(c.den)
  /\ m.min_y * Abs(c.den) <= c.y * Sign(c.den) /\ c.y * Sign(c.den) <= m.max_y * Abs(c.den)
=============================================================================
