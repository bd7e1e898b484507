--------------------------- MODULE MC_SpatialIndex ---------------------------
(***************************************************************************)
(* TLC instances of the spatial index: a rectangle, a point far from it,   *)
(* and a polygon without vertices.  Tracks have three slots: one page,     *)
(* entered twice, and half of another.  The nodes of the page quadtree     *)
(* hold one page, so that the second splits the root; the rectangle spans  *)
(* its quadrants.                                                          *)
(***************************************************************************)
EXTENDS SpatialIndexProps, TLC

PointB == PointGeom([x |-> 6, y |-> 3])
Box == [kind |-> "SHAPE", mbr |-> mbr_create(0, 0, 2, 4), centroid |-> [x |-> 1, y |-> 2]]

MCTwoGeoms == {PointB, Box}
MCOneGeom == {Box}
\* Its centroid ties with that of a page read from a hole in the file.
MCOriginGeom == {[kind |-> "SHAPE", mbr |-> mbr_create(-1, -2, 1, 2), centroid |-> Origin]}
MCDegenerateGeoms == {Box, NoVertices}

\* The file names are interchangeable.
PathSymmetry == Permutations(Path)

\* A point of the box, the far point, everything, and a gap between them.
MCRegions == {mbr_create(2, 4, 2, 4), mbr_create(6, 3, 6, 3),
              mbr_create(-9, -9, 9, 9), mbr_create(3, 0, 5, 9)}
=============================================================================
