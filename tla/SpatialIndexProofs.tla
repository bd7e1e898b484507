-------------------------- MODULE SpatialIndexProofs --------------------------
(***************************************************************************)
(* What the index promises, for every value of the constants and every     *)
(* sequence of calls.                                                      *)
(*                                                                         *)
(* First the operators of Geometry, Pages and DiskManager: their types,    *)
(* and that the extent a page recomputes contains the rectangle of every   *)
(* object on it; then each operation of the manager: it keeps its types,   *)
(* the extents that cover their pages' objects and the tracks that list    *)
(* pages which exist, in memory and in the files it writes.  Then the      *)
(* index: IInv (SpatialIndexProps) is inductive, one lemma per action, and *)
(* range queries are complete.                                             *)
(*                                                                         *)
(* The second half is about the rest of the promises: the allocation tree  *)
(* and the block tree agree with the pages, pages verify, slots of the     *)
(* file are not shared and clean pages are in them, the bounds cover the   *)
(* objects, adjacency queries miss only what a split lost, tracks list     *)
(* their own pages, and a session implements ObjectStore.  The steps are   *)
(* sorted by their shape first: those that take an object out of a page or *)
(* put one in (ObjectShape), those that keep the pages, load more of them, *)
(* free them or start anew (NextShape).  Each invariant is then kept by    *)
(* each shape.  Spec is any sequence of calls; ApiSpec leaves out          *)
(* spatial_index_clear and loads over a filled index; SessionSpec leaves   *)
(* out files.                                                              *)
(***************************************************************************)
EXTENDS SpatialIndexProps, BasicLemmas, FiniteSetTheorems

-----------------------------------------------------------------------------
\* Minima and maxima of sets of coordinates.

\* Min picks the least of a non-empty set of coordinates.
LEMMA MinCoord ==
  ASSUME NEW S, S \subseteq Coord, S # {}
  PROVE  Min(S) \in S /\ \A y \in S : Min(S) <= y
<1>1. PICK x \in S : \A y \in S : x <= y
  <2> DEFINE T == {n \in Nat : n - Inf \in S}
  <2>1. \A c \in S : c + Inf \in Nat /\ (c + Inf) - Inf = c
    BY InfAssumption DEF Coord
  <2>2. T # {}
    BY <2>1, InfAssumption
  <2>3. PICK n \in T : \A m \in T : n <= m
    BY <2>2, LeastNatural
  <2>4. \A c \in S : n <= c + Inf
    BY <2>1, <2>3, InfAssumption
  <2>5. \A c \in S : n - Inf <= c
    BY <2>4, InfAssumption DEF Coord
  <2> QED BY <2>3, <2>5
<1> QED BY <1>1 DEF Min

\* Max picks the greatest.
LEMMA MaxCoord ==
  ASSUME NEW S, S \subseteq Coord, S # {}
  PROVE  Max(S) \in S /\ \A y \in S : Max(S) >= y
<1>1. PICK x \in S : \A y \in S : x >= y
  <2> DEFINE T == {n \in Nat : Inf - n \in S}
  <2>1. \A c \in S : Inf - c \in Nat /\ Inf - (Inf - c) = c
    BY InfAssumption DEF Coord
  <2>2. T # {}
    BY <2>1, InfAssumption
  <2>3. PICK n \in T : \A m \in T : n <= m
    BY <2>2, LeastNatural
  <2>4. \A c \in S : n <= Inf - c
    BY <2>1, <2>3, InfAssumption
  <2>5. \A c \in S : Inf - n >= c
    BY <2>4, InfAssumption DEF Coord
  <2> QED BY <2>3, <2>5
<1> QED BY <1>1 DEF Max

-----------------------------------------------------------------------------
\* Rectangles.

\* mbr_empty, and the results of the expand functions, are rectangles.
LEMMA EmptyIsMBR == mbr_empty \in MBR /\ mbr_is_empty(mbr_empty)
  BY InfAssumption DEF mbr_empty, mbr_create, MBR, Coord, mbr_is_empty

\* Expanding a rectangle by another gives a rectangle.
LEMMA ExpandMBR ==
  ASSUME NEW m \in MBR, NEW o \in MBR
  PROVE  mbr_expand_mbr(m, o) \in MBR
  BY InfAssumption DEF mbr_expand_mbr, mbr_create, MBR, Coord, Lower, Upper

\* Expanding a rectangle by a point gives a rectangle.
LEMMA ExpandPoint ==
  ASSUME NEW m \in MBR, NEW p \in Point
  PROVE  mbr_expand_point(m, p) \in MBR
  BY InfAssumption DEF mbr_expand_point, mbr_create, MBR, Point, Coord, Lower, Upper

\* The hull of rectangles is a rectangle around each non-empty one of them.
LEMMA HullCovers ==
  ASSUME NEW M, M \subseteq MBR
  PROVE  /\ Hull(M) \in MBR
         /\ \A m \in M : ~ mbr_is_empty(m) => mbr_contains_mbr(Hull(M), m)
<1> DEFINE solid == {m \in M : ~ mbr_is_empty(m)}
<1>1. CASE solid = {}
  BY <1>1, EmptyIsMBR DEF Hull
<1>2. CASE solid # {}
  <2> DEFINE X1 == {m.min_x : m \in solid}
             Y1 == {m.min_y : m \in solid}
             X2 == {m.max_x : m \in solid}
             Y2 == {m.max_y : m \in solid}
  <2>1. /\ X1 \subseteq Coord /\ X1 # {} /\ Y1 \subseteq Coord /\ Y1 # {}
        /\ X2 \subseteq Coord /\ X2 # {} /\ Y2 \subseteq Coord /\ Y2 # {}
    BY <1>2 DEF MBR
  <2>2. Hull(M) = mbr_create(Min(X1), Min(Y1), Max(X2), Max(Y2))
    BY <1>2 DEF Hull
  <2>3. /\ Min(X1) \in Coord /\ Min(Y1) \in Coord /\ Max(X2) \in Coord /\ Max(Y2) \in Coord
        /\ \A m \in solid : /\ Min(X1) <= m.min_x /\ Min(Y1) <= m.min_y
                            /\ Max(X2) >= m.max_x /\ Max(Y2) >= m.max_y
    <3>1. Min(X1) \in X1 /\ \A y \in X1 : Min(X1) <= y
      BY <2>1, MinCoord
    <3>2. Min(Y1) \in Y1 /\ \A y \in Y1 : Min(Y1) <= y
      BY <2>1, MinCoord
    <3>3. Max(X2) \in X2 /\ \A y \in X2 : Max(X2) >= y
      BY <2>1, MaxCoord
    <3>4. Max(Y2) \in Y2 /\ \A y \in Y2 : Max(Y2) >= y
      BY <2>1, MaxCoord
    <3> HIDE DEF solid
    <3> QED BY <3>1, <3>2, <3>3, <3>4, <2>1
  <2>4. /\ Hull(M).min_x = Min(X1) /\ Hull(M).min_y = Min(Y1)
        /\ Hull(M).max_x = Max(X2) /\ Hull(M).max_y = Max(Y2)
    BY <2>2 DEF mbr_create
  <2>5. Hull(M) \in MBR
    BY <2>2, <2>3 DEF mbr_create, MBR
  <2>6. ASSUME NEW m \in M, ~ mbr_is_empty(m)
        PROVE  mbr_contains_mbr(Hull(M), m)
    <3>1. m \in solid /\ m \in MBR
      BY <2>6
    <3>2. /\ Min(X1) <= m.min_x /\ Min(Y1) <= m.min_y
          /\ Max(X2) >= m.max_x /\ Max(Y2) >= m.max_y
      BY <2>3, <3>1
    <3> HIDE DEF solid, X1, Y1, X2, Y2
    <3>3. /\ Hull(M).min_x <= m.min_x /\ Hull(M).min_y <= m.min_y
          /\ Hull(M).max_x >= m.max_x /\ Hull(M).max_y >= m.max_y
      BY <2>4, <3>2
    <3> QED BY <3>1, <3>3, <2>5, <2>6, InfAssumption DEF mbr_contains_mbr, mbr_is_empty, MBR, Coord
  <2> QED BY <2>5, <2>6
<1> QED BY <1>1, <1>2

\* A rectangle that meets r makes every rectangle around it meet r.
LEMMA ContainedIntersects ==
  ASSUME NEW a \in MBR, NEW b \in MBR, NEW r \in MBR,
         mbr_contains_mbr(a, b), mbr_intersects(b, r)
  PROVE  mbr_intersects(a, r)
  BY InfAssumption DEF mbr_contains_mbr, mbr_intersects, mbr_is_empty, MBR, Coord

-----------------------------------------------------------------------------
\* Objects.

\* The derived fields of an object are recomputed from its geometry.
LEMMA ObjectTypes ==
  /\ ZeroObject \in SpatialObject
  /\ NoVertices \in Geom /\ PointGeom(Origin) \in Geom
  /\ \A id \in Nat, g \in Geom :
       /\ spatial_object_init(id, g) \in SpatialObject
       /\ spatial_object_update_derived(spatial_object_init(id, g)) \in SpatialObject
<1>1. Origin \in Point
  BY InfAssumption DEF Origin, Point, Coord
<1>2. NoVertices \in Geom
  BY <1>1, EmptyIsMBR DEF NoVertices, Geom
<1>3. PointGeom(Origin) \in Geom
  BY <1>1 DEF PointGeom, Origin, Geom, MBR, mbr_create, Point
<1>4. ASSUME NEW id \in Nat, NEW g \in Geom
      PROVE  spatial_object_init(id, g) \in SpatialObject
  BY DEF spatial_object_init, SpatialObject, Geom
<1>5. ASSUME NEW o \in SpatialObject
      PROVE  spatial_object_update_derived(o) \in SpatialObject
  BY DEF spatial_object_update_derived, SpatialObject, Geom
<1> QED BY <1>2, <1>3, <1>4, <1>5 DEF ZeroObject

-----------------------------------------------------------------------------
\* Pages.

Checksum == [words : SUBSET Nat, ids : SUBSET Nat, centroids : SUBSET Point]

\* page_checksum has the type of the checksum field.
LEMMA ChecksumType ==
  ASSUME NEW p \in Page
  PROVE  page_checksum(p) \in Checksum
<1>1. OddOccurrences(<<p.page_id, p.track_id, p.object_count>>) \subseteq Nat
  <2>1. \A k \in 1..3 : <<p.page_id, p.track_id, p.object_count>>[k] \in Nat
    BY PageAssumption DEF Page
  <2>2. DOMAIN <<p.page_id, p.track_id, p.object_count>> = 1..3
    OBVIOUS
  <2> QED BY <2>1, <2>2 DEF OddOccurrences
<1>2. \A i \in Live(p) : p.objects[i] \in SpatialObject
  BY DEF Live, Page
<1>3. OddOccurrences([i \in Live(p) |-> p.objects[i].id]) \subseteq Nat
  BY <1>2 DEF OddOccurrences, SpatialObject
<1>4. OddOccurrences([i \in Live(p) |-> p.objects[i].centroid]) \subseteq Point
  BY <1>2 DEF OddOccurrences, SpatialObject
<1> QED BY <1>1, <1>3, <1>4 DEF page_checksum, Checksum

\* The checksum covers the header's words and the identifiers and centroids
\* of the objects on the page, and nothing else.
LEMMA ChecksumInputs ==
  ASSUME NEW p, NEW q, q.page_id = p.page_id, q.track_id = p.track_id,
         q.object_count = p.object_count,
         \A i \in Live(p) : /\ q.objects[i].id = p.objects[i].id
                            /\ q.objects[i].centroid = p.objects[i].centroid
  PROVE  page_checksum(q) = page_checksum(p)
<1>1. Live(q) = Live(p)
  BY DEF Live
<1>2. [i \in Live(q) |-> q.objects[i].id] = [i \in Live(p) |-> p.objects[i].id]
  BY <1>1
<1>3. [i \in Live(q) |-> q.objects[i].centroid] = [i \in Live(p) |-> p.objects[i].centroid]
  BY <1>1
<1> QED BY <1>2, <1>3 DEF page_checksum

\* A page that is created, or read from a hole of the file, holds nothing.
LEMMA PageCreate ==
  ASSUME NEW id \in Nat, NEW track \in Nat
  PROVE  /\ page_create(id, track) \in Page /\ Live(page_create(id, track)) = {}
         /\ HolePage \in Page /\ Live(HolePage) = {}
<1>1. Origin \in Point /\ <<Origin>> \in Seq(Point)
  BY InfAssumption DEF Origin, Point, Coord
<1>2. NoChecksum \in Checksum
  BY DEF NoChecksum, Checksum
<1>3. ASSUME NEW i \in Nat, NEW t \in Nat
      PROVE  page_create(i, t) \in Page /\ Live(page_create(i, t)) = {}
  BY <1>1, <1>2, ObjectTypes, EmptyIsMBR, PageAssumption
     DEF page_create, Page, Live, Slot, Checksum
<1>4. mbr_create(0, 0, 0, 0) \in MBR
  BY InfAssumption DEF mbr_create, MBR, Coord
<1>5. HolePage \in Page /\ Live(HolePage) = {}
  <2>1. page_create(0, 0) \in Page /\ Live(page_create(0, 0)) = {}
    BY <1>3
  <2> QED BY <2>1, <1>4 DEF HolePage, Page, Live
<1> QED BY <1>3, <1>5

\* page_update_derived leaves an extent around every object of the page.
\* Only the derived fields change, and the checksum fits them.
LEMMA UpdateDerived ==
  ASSUME NEW p \in Page
  PROVE  LET u == page_update_derived(p)
         IN /\ u \in Page /\ ExtentCovers(u) /\ page_verify(u)
            /\ u.object_count = p.object_count /\ u.objects = p.objects
            /\ u.page_id = p.page_id /\ u.track_id = p.track_id /\ u.dirty = p.dirty
            /\ u.extent = Hull({p.objects[i].mbr : i \in Live(p)})
<1> DEFINE M == {p.objects[i].mbr : i \in Live(p)}
           c == IF p.object_count = 0 THEN p.centroid
                ELSE [i \in 1..p.object_count |-> p.objects[i].centroid]
           q == [p EXCEPT !.extent = Hull(M), !.centroid = c]
           u == page_update_derived(p)
<1>1. \A i \in Live(p) : p.objects[i] \in SpatialObject
  BY DEF Live, Page
<1>2. M \subseteq MBR
  BY <1>1 DEF SpatialObject
<1>3. Hull(M) \in MBR /\ \A m \in M : ~ mbr_is_empty(m) => mbr_contains_mbr(Hull(M), m)
  BY <1>2, HullCovers
<1>4. c \in Seq(Point)
  <2>1. CASE p.object_count = 0
    BY <2>1 DEF Page
  <2>2. CASE p.object_count # 0
    <3>1. p.object_count \in Nat /\ \A i \in 1..p.object_count : i \in Live(p)
      BY PageAssumption DEF Page, Live, Slot
    <3>2. \A i \in 1..p.object_count : p.objects[i].centroid \in Point
      BY <3>1, <1>1 DEF SpatialObject
    <3>3. [i \in 1..p.object_count |-> p.objects[i].centroid] \in [1..p.object_count -> Point]
      BY <3>2
    <3>4. [i \in 1..p.object_count |-> p.objects[i].centroid] \in Seq(Point)
      BY <3>1, <3>3, SeqDef
    <3> QED BY <2>2, <3>4
  <2> QED BY <2>1, <2>2
<1> HIDE DEF M, c
<1>5. q \in Page /\ q.page_id = p.page_id /\ q.track_id = p.track_id /\ q.dirty = p.dirty
      /\ q.extent = Hull(M) /\ q.objects = p.objects /\ q.object_count = p.object_count
  BY <1>3, <1>4 DEF Page
<1>6. u = [q EXCEPT !.checksum = page_checksum(q)]
  BY DEF page_update_derived, M, c
<1>7. page_checksum(q) \in Checksum
  BY <1>5, ChecksumType
<1> HIDE DEF u, q
<1>8. u \in Page /\ u.extent = Hull(M) /\ u.objects = p.objects /\ u.object_count = p.object_count
      /\ u.page_id = p.page_id /\ u.track_id = p.track_id /\ u.dirty = p.dirty
      /\ u.checksum = page_checksum(q)
  BY <1>5, <1>6, <1>7 DEF Page, Checksum
<1>9. ExtentCovers(u)
  BY <1>3, <1>8 DEF ExtentCovers, Live, M
<1>10. page_checksum(u) = page_checksum(q)
  BY <1>5, <1>8, ChecksumInputs
<1> QED BY <1>8, <1>9, <1>10 DEF u, M, page_verify

\* page_add_object on a page that is not full gives a page.
LEMMA AddObject ==
  ASSUME NEW p \in Page, ~ page_is_full(p), NEW o \in SpatialObject
  PROVE  LET q == page_add_object(p, o)
             n == p.object_count + 1
         IN /\ q \in Page /\ n \in Slot /\ q.object_count = n
            /\ q.objects = [p.objects EXCEPT ![n] = o]
            /\ q.page_id = p.page_id /\ q.track_id = p.track_id /\ q.dirty = TRUE
<1>1. p.object_count + 1 \in Slot /\ p.object_count + 1 \in 0..MAX_OBJECTS_PER_PAGE
  BY PageAssumption DEF Page, page_is_full, Slot
<1>2. mbr_expand_mbr(p.extent, o.mbr) \in MBR
  BY ExpandMBR DEF Page, SpatialObject
<1>3. (p.full \/ p.object_count + 1 >= MAX_OBJECTS_PER_PAGE) \in BOOLEAN
  OBVIOUS
<1> DEFINE n == p.object_count + 1
           full == p.full \/ n >= MAX_OBJECTS_PER_PAGE
           extent == mbr_expand_mbr(p.extent, o.mbr)
           os == [p.objects EXCEPT ![n] = o]
           q == page_add_object(p, o)
<1>4. os \in [Slot -> SpatialObject]
  BY <1>1 DEF Page
<1>5. q = [p EXCEPT !.objects = os, !.object_count = n, !.dirty = TRUE, !.full = full,
                    !.extent = extent]
  BY DEF page_add_object
<1> HIDE DEF n, full, extent, os, q
<1>6. /\ q \in Page /\ q.object_count = n /\ q.objects = os
      /\ q.page_id = p.page_id /\ q.track_id = p.track_id /\ q.dirty = TRUE
  BY <1>1, <1>2, <1>3, <1>4, <1>5 DEF Page, n, full, extent
<1> QED BY <1>1, <1>6 DEF n, os, q

\* The page an insert leaves: the object is in the first free slot.
Inserted(p, o) == page_update_derived(page_add_object(p, o))

LEMMA InsertedPage ==
  ASSUME NEW p \in Page, ~ page_is_full(p), NEW o \in SpatialObject
  PROVE  LET q == Inserted(p, o)
             n == p.object_count + 1
         IN /\ q \in Page /\ ExtentCovers(q) /\ page_verify(q)
            /\ n \in Slot /\ q.object_count = n /\ Live(q) = Live(p) \cup {n}
            /\ q.objects = [p.objects EXCEPT ![n] = o]
            /\ q.page_id = p.page_id /\ q.track_id = p.track_id /\ q.dirty = TRUE
            /\ q.extent = Hull({q.objects[i].mbr : i \in Live(q)})
<1> DEFINE a == page_add_object(p, o)
           q == page_update_derived(a)
           n == p.object_count + 1
<1>1. /\ a \in Page /\ n \in Slot /\ a.object_count = n /\ a.objects = [p.objects EXCEPT ![n] = o]
      /\ a.page_id = p.page_id /\ a.track_id = p.track_id /\ a.dirty = TRUE
  BY AddObject
<1> HIDE DEF a
<1>2. /\ q \in Page /\ ExtentCovers(q) /\ page_verify(q)
      /\ q.object_count = a.object_count /\ q.objects = a.objects
      /\ q.page_id = a.page_id /\ q.track_id = a.track_id /\ q.dirty = a.dirty
      /\ q.extent = Hull({a.objects[i].mbr : i \in Live(a)})
  BY <1>1, UpdateDerived
<1> HIDE DEF q
<1>3. Live(q) = Live(p) \cup {n} /\ Live(q) = Live(a)
  BY <1>1, <1>2, PageAssumption DEF Live, Page, Slot
<1>4. q = Inserted(p, o)
  BY DEF Inserted, q, a
<1>5. q.extent = Hull({q.objects[i].mbr : i \in Live(q)})
  BY <1>2, <1>3
<1>6. /\ q \in Page /\ ExtentCovers(q) /\ page_verify(q)
      /\ n \in Slot /\ q.object_count = n
      /\ q.objects = [p.objects EXCEPT ![n] = o]
      /\ q.page_id = p.page_id /\ q.track_id = p.track_id /\ q.dirty = TRUE
  BY <1>1, <1>2
<1> QED BY <1>3, <1>4, <1>5, <1>6

\* page_remove_object takes out the first object with the identifier and
\* returns a page whose extent covers the others.
LEMMA PageRemoves ==
  ASSUME NEW p \in Page, NEW id, SlotsOf(p, id) # {}
  PROVE  LET q == page_remove_object(p, id)
             i == Min(SlotsOf(p, id))
         IN /\ q \in Page /\ ExtentCovers(q) /\ page_verify(q)
            /\ i \in Live(p) /\ p.objects[i].id = id
            /\ q.object_count = p.object_count - 1 /\ q.objects = ShiftedSlots(p, i)
            /\ q.page_id = p.page_id /\ q.track_id = p.track_id /\ q.dirty = TRUE
            /\ q.extent = Hull({q.objects[j].mbr : j \in Live(q)})
<1> DEFINE i == Min(SlotsOf(p, id))
           q == [p EXCEPT !.objects = ShiftedSlots(p, i),
                          !.object_count = @ - 1, !.dirty = TRUE, !.full = FALSE]
<1>1. i \in Slot /\ i <= p.object_count /\ i \in Live(p) /\ p.objects[i].id = id
  BY MinIndex DEF SlotsOf, Live, Slot
<1> HIDE DEF i
<1>2. p.object_count - 1 \in 0..MAX_OBJECTS_PER_PAGE
  BY <1>1, PageAssumption DEF Page, Slot
<1>3. ShiftedSlots(p, i) \in [Slot -> SpatialObject]
  <2>1. \A j \in Slot : j < p.object_count => j + 1 \in Slot
    BY PageAssumption DEF Page, Slot
  <2> QED BY <2>1, ObjectTypes DEF ShiftedSlots, Page
<1> DEFINE os == ShiftedSlots(p, i)
<1> HIDE DEF os
<1>4. /\ q \in Page /\ q.object_count = p.object_count - 1 /\ q.objects = os
      /\ q.page_id = p.page_id /\ q.track_id = p.track_id /\ q.dirty = TRUE
  BY <1>2, <1>3 DEF Page, os
<1>5. page_remove_object(p, id) = page_update_derived(q)
  BY DEF page_remove_object, i
<1> DEFINE u == page_remove_object(p, id)
<1> HIDE DEF q
<1>6. /\ u \in Page /\ ExtentCovers(u) /\ page_verify(u)
      /\ u.object_count = q.object_count /\ u.objects = q.objects
      /\ u.page_id = q.page_id /\ u.track_id = q.track_id /\ u.dirty = q.dirty
      /\ u.extent = Hull({q.objects[j].mbr : j \in Live(q)})
  BY <1>4, <1>5, UpdateDerived
<1> HIDE DEF u
<1>7. Live(u) = Live(q)
  BY <1>6 DEF Live
<1> QED BY <1>1, <1>4, <1>6, <1>7 DEF u, i, os

\* A page comes back from its image with the extent and rectangles it had,
\* and verifies when the page did.
LEMMA Serialize ==
  ASSUME NEW p \in Page
  PROVE  LET q == page_serialize(p)
         IN /\ q \in Page
            /\ ExtentCovers(p) => ExtentCovers(q)
            /\ page_verify(p) => page_verify(q)
            /\ q.page_id = p.page_id /\ q.dirty = p.dirty
            /\ q.object_count = p.object_count
<1> DEFINE image(o) == [o EXCEPT !.geom = IF @.kind = "POINT" THEN PointGeom(Origin)
                                           ELSE NoVertices]
           os == [i \in Slot |-> IF i \in Live(p) THEN image(p.objects[i]) ELSE ZeroObject]
<1>1. ASSUME NEW o \in SpatialObject
      PROVE  /\ image(o) \in SpatialObject /\ image(o).mbr = o.mbr
             /\ image(o).id = o.id /\ image(o).centroid = o.centroid
  BY ObjectTypes DEF SpatialObject
<1>2. \A i \in Slot : p.objects[i] \in SpatialObject
  BY DEF Page
<1>3. page_serialize(p) = [p EXCEPT !.objects = os]
  BY DEF page_serialize
<1> HIDE DEF image
<1>4. os \in [Slot -> SpatialObject]
  BY <1>1, <1>2, ObjectTypes
<1>5. \A i \in Live(p) : /\ os[i].mbr = p.objects[i].mbr /\ os[i].id = p.objects[i].id
                         /\ os[i].centroid = p.objects[i].centroid
  BY <1>1, <1>2 DEF Live
<1> HIDE DEF os
<1> DEFINE q == page_serialize(p)
<1>6. /\ q \in Page /\ q.objects = os /\ q.object_count = p.object_count /\ q.extent = p.extent
      /\ q.page_id = p.page_id /\ q.track_id = p.track_id /\ q.dirty = p.dirty
      /\ q.checksum = p.checksum
  BY <1>3, <1>4 DEF Page
<1> HIDE DEF q
<1>7. ExtentCovers(p) => ExtentCovers(q)
  BY <1>5, <1>6 DEF ExtentCovers, Live
<1>8. page_checksum(q) = page_checksum(p)
  BY <1>5, <1>6, ChecksumInputs
<1> QED BY <1>6, <1>7, <1>8 DEF page_verify, q

-----------------------------------------------------------------------------
\* Tracks.

\* A new track is well typed and empty.
LEMMA TrackCreate == track_create \in Track /\ Len(track_create.pages) = 0
                     /\ track_has_space(track_create)
  BY EmptyIsMBR, PageAssumption DEF track_create, Track, track_has_space

\* A track only lists pages that exist, with the hull of their extents.
LEMMA TrackAddPage ==
  ASSUME NEW t \in Track, NEW s \in Nat, NEW content,
         content[s] \in Page,
         \A k \in DOMAIN t.pages : content[t.pages[k]] \in Page
  PROVE  /\ track_add_page(t, s, content) \in Track
         /\ \A k \in DOMAIN track_add_page(t, s, content).pages :
              /\ content[track_add_page(t, s, content).pages[k]] \in Page
              /\ \/ track_add_page(t, s, content).pages[k] = s
                 \/ \E j \in DOMAIN t.pages : track_add_page(t, s, content).pages[k] = t.pages[j]
<1> DEFINE ps == Append(t.pages, s)
           M == {content[ps[k]].extent : k \in DOMAIN ps}
<1>1. CASE ~ track_has_space(t)
  BY <1>1 DEF track_add_page
<1>2. CASE track_has_space(t)
  <2>1. t.pages \in Seq(Nat)
    BY DEF Track
  <2>2. /\ ps \in Seq(Nat)
        /\ \A k \in DOMAIN ps : ps[k] = s \/ (k \in DOMAIN t.pages /\ ps[k] = t.pages[k])
    BY <2>1
  <2> HIDE DEF ps
  <2>3. \A k \in DOMAIN ps : content[ps[k]] \in Page
    BY <2>2
  <2>4. M \subseteq MBR
    BY <2>3 DEF Page
  <2>5. Hull(M) \in MBR
    BY <2>4, HullCovers
  <2>6. track_add_page(t, s, content) = [pages |-> ps, extent |-> Hull(M)]
    BY <1>2 DEF track_add_page, ps
  <2> QED BY <2>2, <2>3, <2>5, <2>6 DEF Track
<1> QED BY <1>1, <1>2

-----------------------------------------------------------------------------
\* What holds of a manager and of a file.
Sound(d) == d \in Manager /\ ExtentsCover(d) /\ TracksListPages(d)

SoundFile(f) == f \in File /\ ImagesCover(f)

\* The entries of the pages that hold objects.
PageEntries(d) == {[page |-> s, point |-> d.pages[s].centroid] : s \in NonEmpty(d)}

-----------------------------------------------------------------------------

\* The pages and tracks a manager holds have their types.
LEMMA SerialPages ==
  ASSUME NEW d \in Manager
  PROVE  /\ \A s \in Serials(d) : s \in 1..MaxPages /\ d.pages[s] \in Page
         /\ \A t \in Tracks(d) : t \in 1..MaxTracks /\ d.tracks[t] \in Track
  BY DEF Manager, Serials, Tracks

\* disk_manager_init makes a sound manager.
LEMMA InitSound == Sound(disk_manager_init)
<1> DEFINE d == disk_manager_init
<1>1. mbr_create(0, 0, 0, 0) \in MBR
  BY InfAssumption DEF mbr_create, MBR, Coord
<1>2. d \in Manager
  BY <1>1 DEF disk_manager_init, Manager, Header
<1>3. Serials(d) = {} /\ Tracks(d) = {}
  BY DEF disk_manager_init, Serials, Tracks
<1> QED BY <1>2, <1>3 DEF Sound, ExtentsCover, TracksListPages

\* Rebuilding the allocation tree touches nothing else.
LEMMA RebuildSound ==
  ASSUME NEW d, Sound(d)
  PROVE  LET e == disk_manager_rebuild_allocation_tree(d)
         IN /\ Sound(e) /\ e.pages = d.pages /\ e.is_open = d.is_open /\ e.path = d.path
            /\ e.tracks = d.tracks /\ e.next_page_id = d.next_page_id
            /\ e.next_track_id = d.next_track_id /\ e.allocation_tree = PageEntries(d)
            /\ \A n \in e.allocation_tree : n.page \in Serials(e)
<1> DEFINE e == disk_manager_rebuild_allocation_tree(d)
           tree == {[page |-> s, point |-> d.pages[s].centroid] : s \in NonEmpty(d)}
<1>1. d \in Manager /\ ExtentsCover(d) /\ TracksListPages(d)
  BY DEF Sound
<1>2. tree \in SUBSET [page : 1..MaxPages, point : Seq(Point)]
  BY <1>1, SerialPages DEF NonEmpty, Page
<1>3. e = [d EXCEPT !.allocation_tree = tree]
  BY DEF disk_manager_rebuild_allocation_tree
<1>8. tree = PageEntries(d)
  BY DEF PageEntries
<1> HIDE DEF tree
<1>4. e \in Manager /\ e.pages = d.pages /\ e.tracks = d.tracks /\ e.allocation_tree = tree
      /\ e.is_open = d.is_open /\ e.path = d.path
      /\ e.next_page_id = d.next_page_id /\ e.next_track_id = d.next_track_id
  BY <1>1, <1>2, <1>3 DEF Manager
<1>5. Sound(e)
  BY <1>1, <1>4 DEF Sound, ExtentsCover, TracksListPages, Serials, Tracks
<1>6. \A n \in tree : n.page \in Serials(d)
  BY DEF tree, NonEmpty
<1>7. Serials(e) = Serials(d)
  BY <1>4 DEF Serials
<1> QED BY <1>4, <1>5, <1>6, <1>7, <1>8

\* A page may be replaced by one whose extent covers its objects.
LEMMA ReplacePageSound ==
  ASSUME NEW d, Sound(d), NEW s \in Serials(d), NEW p \in Page, ExtentCovers(p)
  PROVE  LET e == [d EXCEPT !.pages[s] = p]
         IN /\ Sound(e) /\ e.is_open = d.is_open /\ e.path = d.path
            /\ e.pages = [d.pages EXCEPT ![s] = p] /\ e.tracks = d.tracks
            /\ e.next_page_id = d.next_page_id /\ e.next_track_id = d.next_track_id
<1> DEFINE e == [d EXCEPT !.pages[s] = p]
<1>1. d \in Manager /\ ExtentsCover(d) /\ TracksListPages(d)
  BY DEF Sound
<1>2. s \in 1..MaxPages /\ p # Null
  BY NullAssumption DEF Serials
<1>3. e \in Manager /\ e.pages = [d.pages EXCEPT ![s] = p] /\ e.tracks = d.tracks
      /\ e.is_open = d.is_open /\ e.path = d.path
      /\ e.next_page_id = d.next_page_id /\ e.next_track_id = d.next_track_id
  BY <1>1, <1>2 DEF Manager
<1>4. Serials(e) = Serials(d) /\ Tracks(e) = Tracks(d)
  BY <1>1, <1>2, <1>3 DEF Serials, Tracks, Manager
<1>5. ExtentsCover(e)
  BY <1>1, <1>2, <1>3, <1>4 DEF ExtentsCover, Manager
<1>6. TracksListPages(e)
  BY <1>1, <1>3, <1>4 DEF TracksListPages
<1> QED BY <1>3, <1>5, <1>6 DEF Sound

-----------------------------------------------------------------------------
\* Allocation.

\* A product of naturals is a natural.
LEMMA ProductOfNats ==
  ASSUME NEW a \in Nat, NEW b \in Nat
  PROVE  a * b \in Nat
  OBVIOUS

\* A product of naturals grows with its factors: areas do not shrink.
LEMMA ProductGrows ==
  ASSUME NEW a \in Nat, NEW b \in Nat, NEW c \in Nat, NEW d \in Nat, a <= c, b <= d
  PROVE  a * b \in Nat /\ c * d \in Nat /\ a * b <= c * d
<1>1. PICK x \in Nat : c = a + x
  <2>1. c - a \in Nat /\ c = a + (c - a)
    OBVIOUS
  <2> QED BY <2>1
<1>2. PICK y \in Nat : d = b + y
  <2>1. d - b \in Nat /\ d = b + (d - b)
    OBVIOUS
  <2> QED BY <2>1
<1>3. (a + x) * (b + y) = a * b + (a * y + x * b + x * y)
  OBVIOUS
<1>4. a * y \in Nat /\ x * b \in Nat /\ x * y \in Nat /\ a * b \in Nat
  BY ProductOfNats
<1> QED BY <1>1, <1>2, <1>3, <1>4

\* Expanding a rectangle never makes it smaller.
LEMMA ExpansionNat ==
  ASSUME NEW t \in Track, NEW c \in Point
  PROVE  Expansion(t, c) \in Nat
<1> DEFINE m == t.extent
           n == mbr_expand_point(m, c)
<1>1. m \in MBR /\ n \in MBR
  BY ExpandPoint DEF Track
<1>2. /\ n.min_x <= m.min_x /\ n.min_y <= m.min_y /\ n.max_x >= m.max_x /\ n.max_y >= m.max_y
      /\ n.min_x <= n.max_x /\ n.min_y <= n.max_y
  BY <1>1, InfAssumption DEF mbr_expand_point, mbr_create, Lower, Upper, MBR, Point, Coord
<1> HIDE DEF n, m
<1>3. /\ n.min_x \in Int /\ n.min_y \in Int /\ n.max_x \in Int /\ n.max_y \in Int
      /\ m.min_x \in Int /\ m.min_y \in Int /\ m.max_x \in Int /\ m.max_y \in Int
  BY <1>1, InfAssumption DEF MBR, Coord
<1>4. n.max_x - n.min_x \in Nat /\ n.max_y - n.min_y \in Nat
  BY <1>2, <1>3
<1>5. ~ mbr_is_empty(n)
  BY <1>2, <1>3 DEF mbr_is_empty
<1>6. CASE mbr_is_empty(m)
  <2>1. mbr_area(m) = 0 /\ mbr_area(n) = (n.max_x - n.min_x) * (n.max_y - n.min_y)
    BY <1>5, <1>6 DEF mbr_area
  <2>2. mbr_area(n) \in Nat
    BY <2>1, <1>4, ProductOfNats
  <2> QED BY <2>1, <2>2 DEF Expansion, m, n
<1>7. CASE ~ mbr_is_empty(m)
  <2>1. /\ m.max_x - m.min_x \in Nat /\ m.max_y - m.min_y \in Nat
        /\ m.max_x - m.min_x <= n.max_x - n.min_x /\ m.max_y - m.min_y <= n.max_y - n.min_y
    BY <1>2, <1>3, <1>7 DEF mbr_is_empty
  <2>2. /\ mbr_area(m) = (m.max_x - m.min_x) * (m.max_y - m.min_y)
        /\ mbr_area(n) = (n.max_x - n.min_x) * (n.max_y - n.min_y)
    BY <1>5, <1>7 DEF mbr_area
  <2>3. mbr_area(m) \in Nat /\ mbr_area(n) \in Nat /\ mbr_area(m) <= mbr_area(n)
    BY <2>1, <2>2, <1>4, ProductGrows
  <2> QED BY <2>3 DEF Expansion, m, n
<1> QED BY <1>6, <1>7

\* The best track is one of those with room, when there is one.
LEMMA BestTrack ==
  ASSUME NEW d \in Manager, NEW c \in Point, WithSpace(d) # {}
  PROVE  disk_manager_find_best_track(d, c) \in WithSpace(d)
<1> DEFINE W == WithSpace(d)
           E == {Expansion(d.tracks[t], c) : t \in W}
<1>1. \A t \in W : t \in Nat /\ d.tracks[t] \in Track
  BY SerialPages DEF WithSpace
<1>2. \A t \in W : Expansion(d.tracks[t], c) \in Nat
  BY <1>1, ExpansionNat
<1>3. E \subseteq Nat /\ E # {}
  BY <1>2
<1>4. PICK e \in E : \A f \in E : e <= f
  BY <1>3, LeastNatural
<1> DEFINE B == {t \in W : Expansion(d.tracks[t], c) = e}
<1>5. B \subseteq Nat /\ B # {}
  BY <1>1, <1>4
<1>6. PICK t \in B : \A u \in B : t <= u
  BY <1>5, LeastNatural
<1>7. \A u \in W : LET et == Expansion(d.tracks[t], c)
                       eu == Expansion(d.tracks[u], c)
                   IN et < eu \/ (et = eu /\ t <= u)
  BY <1>1, <1>2, <1>4, <1>6
<1> QED BY <1>6, <1>7 DEF disk_manager_find_best_track

\* disk_manager_create_track keeps the manager sound.
LEMMA CreateTrackSound ==
  ASSUME NEW d, Sound(d), d.next_track_id <= MaxTracks
  PROVE  LET e == disk_manager_create_track(d)
         IN /\ Sound(e) /\ e.pages = d.pages /\ e.next_page_id = d.next_page_id
            /\ WithSpace(e) # {} /\ e.is_open = d.is_open /\ e.path = d.path
            /\ d.next_track_id \in 1..MaxTracks /\ e.next_track_id = d.next_track_id + 1
            /\ e.tracks = [d.tracks EXCEPT ![d.next_track_id] = track_create]
<1> DEFINE e == disk_manager_create_track(d)
           n == d.next_track_id
<1>1. d \in Manager /\ ExtentsCover(d) /\ TracksListPages(d)
  BY DEF Sound
<1>2. n \in 1..MaxTracks /\ n + 1 \in Nat \ {0}
  BY <1>1, BoundAssumption DEF Manager
<1>3. track_create # Null
  BY TrackCreate, NullAssumption
<1>4. e = [d EXCEPT !.tracks[n] = track_create, !.next_track_id = n + 1]
  BY DEF disk_manager_create_track
<1> HIDE DEF n
<1> DEFINE ts == [d.tracks EXCEPT ![n] = track_create]
<1>9. d.tracks \in [1..MaxTracks -> Track \cup {Null}]
  BY <1>1 DEF Manager
<1>12. ts \in [1..MaxTracks -> Track \cup {Null}] /\ ts[n] = track_create
  BY <1>2, <1>9, TrackCreate
<1>13. e = [d EXCEPT !.tracks = ts, !.next_track_id = n + 1]
  BY <1>4
<1> HIDE DEF ts, e
<1>5. e \in Manager /\ e.pages = d.pages /\ e.tracks = ts
      /\ e.next_page_id = d.next_page_id /\ e.is_open = d.is_open /\ e.path = d.path
      /\ e.next_track_id = n + 1
  BY <1>1, <1>2, <1>12, <1>13 DEF Manager
<1>6. Serials(e) = Serials(d)
  BY <1>5 DEF Serials
<1>7. ExtentsCover(e)
  BY <1>1, <1>5, <1>6 DEF ExtentsCover
<1>8. DOMAIN track_create.pages = {}
  BY DEF track_create
<1>10. TracksListPages(e)
  BY <1>1, <1>2, <1>5, <1>6, <1>8, <1>9 DEF TracksListPages, Tracks, ts
<1>11. n \in WithSpace(e)
  BY <1>2, <1>3, <1>5, <1>12, TrackCreate DEF WithSpace, Tracks
<1> QED BY <1>2, <1>5, <1>7, <1>10, <1>11 DEF Sound, e, ts, n

\* The manager whose tracks an allocation chooses from.
WithRoom(d) == IF WithSpace(d) = {} THEN disk_manager_create_track(d) ELSE d

\* The page put into the pool, and the pages with it.
NewPageOn(s, tid, c) == [page_create(s, tid) EXCEPT !.centroid = <<c>>]

PagesWithNew(d, c) ==
  [d.pages EXCEPT ![d.next_page_id] =
     NewPageOn(d.next_page_id, disk_manager_find_best_track(WithRoom(d), c), c)]

\* A track a serial is added to twice.
AddedTwice(t, s, content) == track_add_page(track_add_page(t, s, content), s, content)

\* Manager e is d with a page put, twice, on the best track with room.
PlacesPage(d, e, c) ==
  LET tid == disk_manager_find_best_track(WithRoom(d), c)
  IN /\ tid \in WithSpace(WithRoom(d)) /\ tid \in Nat
     /\ e.next_track_id = WithRoom(d).next_track_id
     /\ e.tracks = [WithRoom(d).tracks EXCEPT
                      ![tid] = AddedTwice(@, d.next_page_id, PagesWithNew(d, c))]

\* Allocation adds one empty page, on a track that exists.
LEMMA AllocPageSound ==
  ASSUME NEW d, Sound(d), NEW c \in Point, CanAllocPage(d)
  PROVE  LET e == disk_manager_alloc_page(d, c)
         IN /\ Sound(e)
            /\ d.next_page_id \in Serials(e) /\ Live(e.pages[d.next_page_id]) = {}
            /\ e.pages[d.next_page_id].object_count = 0
            /\ e.is_open = d.is_open /\ e.path = d.path
            /\ d.next_page_id \in 1..MaxPages /\ e.next_page_id = d.next_page_id + 1
            /\ e.pages = PagesWithNew(d, c)
            /\ Sound(WithRoom(d)) /\ PlacesPage(d, e, c)
<1> DEFINE a == WithRoom(d)
           tid == disk_manager_find_best_track(a, c)
           s == d.next_page_id
           page == NewPageOn(s, tid, c)
           pages == [a.pages EXCEPT ![s] = page]
           once == track_add_page(a.tracks[tid], s, pages)
           twice == track_add_page(once, s, pages)
           h == [page_count |-> a.header.page_count + 1,
                 bounds |-> mbr_expand_point(a.header.bounds, c)]
           tree == a.allocation_tree \cup {[page |-> s, point |-> <<c>>]}
           e == disk_manager_alloc_page(d, c)
<1>1. Sound(a) /\ a.pages = d.pages /\ a.next_page_id = s /\ WithSpace(a) # {}
      /\ a.is_open = d.is_open /\ a.path = d.path
  <2>1. CASE WithSpace(d) = {}
    BY <2>1, CreateTrackSound DEF CanAllocPage, WithRoom
  <2>2. CASE WithSpace(d) # {}
    BY <2>2 DEF WithRoom
  <2> QED BY <2>1, <2>2
<1> HIDE DEF a
<1>2. a \in Manager /\ ExtentsCover(a) /\ TracksListPages(a)
  BY <1>1 DEF Sound
<1>3. tid \in WithSpace(a) /\ tid \in 1..MaxTracks /\ tid \in Nat /\ a.tracks[tid] \in Track
  BY <1>1, <1>2, BestTrack, SerialPages, BoundAssumption DEF WithSpace
<1> HIDE DEF tid
<1>4. s \in 1..MaxPages /\ s \in Nat /\ s + 1 \in Nat \ {0}
  BY <1>1, <1>2, BoundAssumption DEF CanAllocPage, Manager
<1> HIDE DEF s
<1>16. pages = PagesWithNew(d, c)
  BY <1>1 DEF PagesWithNew, a, s, tid
<1>5. page \in Page /\ Live(page) = {} /\ page # Null /\ page.object_count = 0
  <2>1. page_create(s, tid) \in Page /\ Live(page_create(s, tid)) = {}
    BY <1>3, <1>4, PageCreate
  <2>2. <<c>> \in Seq(Point)
    OBVIOUS
  <2>3. page \in Page /\ page.object_count = page_create(s, tid).object_count
    BY <2>1, <2>2 DEF Page, NewPageOn
  <2>4. page_create(s, tid).object_count = 0
    BY DEF page_create
  <2> QED BY <2>1, <2>3, <2>4, NullAssumption DEF Live
<1> HIDE DEF page
<1>6. /\ pages \in [1..MaxPages -> Page \cup {Null}] /\ pages[s] = page
      /\ \A i \in 1..MaxPages : i # s => pages[i] = a.pages[i]
      /\ \A i \in Serials(a) : pages[i] \in Page
  BY <1>2, <1>4, <1>5, SerialPages DEF Manager
<1> HIDE DEF pages
<1>7. \A t \in Tracks(a) : \A k \in DOMAIN a.tracks[t].pages : pages[a.tracks[t].pages[k]] \in Page
  BY <1>2, <1>6 DEF TracksListPages
<1>8. /\ once \in Track
      /\ \A k \in DOMAIN once.pages :
           /\ pages[once.pages[k]] \in Page
           /\ once.pages[k] = s \/ \E j \in DOMAIN a.tracks[tid].pages : once.pages[k] = a.tracks[tid].pages[j]
  <2>1. /\ a.tracks[tid] \in Track /\ pages[s] \in Page
        /\ \A k \in DOMAIN a.tracks[tid].pages : pages[a.tracks[tid].pages[k]] \in Page
    BY <1>3, <1>5, <1>6, <1>7 DEF WithSpace
  <2> QED BY <2>1, <1>4, TrackAddPage
<1>17. twice = AddedTwice(a.tracks[tid], s, pages)
  BY DEF AddedTwice
<1> HIDE DEF once
<1>9. /\ twice \in Track
      /\ \A k \in DOMAIN twice.pages :
           /\ pages[twice.pages[k]] \in Page
           /\ twice.pages[k] = s \/ \E j \in DOMAIN once.pages : twice.pages[k] = once.pages[j]
  <2>1. /\ once \in Track /\ pages[s] \in Page
        /\ \A k \in DOMAIN once.pages : pages[once.pages[k]] \in Page
    BY <1>5, <1>6, <1>8
  <2> QED BY <2>1, <1>4, TrackAddPage
<1> HIDE DEF twice
<1>10. h \in Header /\ tree \in SUBSET [page : 1..MaxPages, point : Seq(Point)]
  <2>1. a.header.page_count \in Nat /\ a.header.bounds \in MBR
    BY <1>2 DEF Manager, Header
  <2>2. h \in Header
    BY <2>1, ExpandPoint DEF Header
  <2>3. <<c>> \in Seq(Point)
    OBVIOUS
  <2>4. a.allocation_tree \in SUBSET [page : 1..MaxPages, point : Seq(Point)]
    BY <1>2 DEF Manager
  <2>5. [page |-> s, point |-> <<c>>] \in [page : 1..MaxPages, point : Seq(Point)]
    BY <1>4, <2>3
  <2> QED BY <2>2, <2>4, <2>5
<1> HIDE DEF h, tree
<1>11. e = [a EXCEPT !.pages = pages, !.next_page_id = s + 1, !.tracks[tid] = twice,
                     !.allocation_tree = tree, !.header = h]
  BY DEF e, disk_manager_alloc_page, WithRoom, NewPageOn, a, tid, s, page, pages, once, twice, h, tree
<1> HIDE DEF e
<1>12. e \in Manager /\ e.pages = pages /\ e.tracks = [a.tracks EXCEPT ![tid] = twice]
       /\ e.is_open = a.is_open /\ e.path = a.path
       /\ e.next_page_id = s + 1 /\ e.next_track_id = a.next_track_id
  BY <1>2, <1>3, <1>4, <1>6, <1>9, <1>10, <1>11 DEF Manager
<1>13. Serials(e) = Serials(a) \cup {s}
  BY <1>4, <1>5, <1>6, <1>12 DEF Serials
<1>14. ExtentsCover(e)
  BY <1>2, <1>5, <1>6, <1>12, <1>13 DEF ExtentsCover, ExtentCovers, Serials
<1>15. TracksListPages(e)
  <2>1. \A t \in Tracks(e) : t # tid => t \in Tracks(a) /\ e.tracks[t] = a.tracks[t]
    BY <1>2, <1>12 DEF Tracks, Manager
  <2>2. e.tracks[tid] = twice
    BY <1>2, <1>3, <1>12 DEF Manager
  <2>3. \A k \in DOMAIN twice.pages : twice.pages[k] \in Serials(a) \cup {s}
    BY <1>2, <1>3, <1>8, <1>9 DEF TracksListPages, WithSpace
  <2> QED BY <1>2, <1>13, <2>1, <2>2, <2>3 DEF TracksListPages
<1>18. a.tracks \in [1..MaxTracks -> Track \cup {Null}]
  BY <1>2 DEF Manager
<1>19. e.tracks = [a.tracks EXCEPT ![tid] = AddedTwice(@, s, PagesWithNew(d, c))]
  BY <1>12, <1>16, <1>17, <1>18
<1>20. PlacesPage(d, e, c)
  BY <1>3, <1>12, <1>19 DEF PlacesPage, s, tid, a
<1> QED BY <1>1, <1>4, <1>5, <1>6, <1>12, <1>13, <1>14, <1>15, <1>16, <1>20
        DEF Sound, e, s, a

-----------------------------------------------------------------------------
\* Files.

\* The number of pages is a natural.
LEMMA SerialCount ==
  ASSUME NEW d
  PROVE  Cardinality(Serials(d)) \in Nat
<1>1. IsFiniteSet(1..MaxPages)
  BY BoundAssumption, FS_Interval
<1>2. IsFiniteSet(Serials(d))
  BY <1>1, FS_Subset DEF Serials
<1> QED BY <1>2, FS_CardinalityType

\* Sync clears DIRTY and counts the pages.
LEMMA SyncSound ==
  ASSUME NEW d, Sound(d)
  PROVE  LET e == disk_manager_sync(d)
         IN /\ Sound(e) /\ Serials(e) = Serials(d) /\ e.allocation_tree = d.allocation_tree
            /\ e.header \in Header /\ e.is_open = d.is_open /\ e.path = d.path
            /\ e.next_page_id = d.next_page_id
            /\ e.tracks = d.tracks /\ e.next_track_id = d.next_track_id
            /\ e.header.page_count = Cardinality(Serials(d))
            /\ \A s \in Serials(d) : e.pages[s] = [d.pages[s] EXCEPT !.dirty = FALSE]
<1> DEFINE e == disk_manager_sync(d)
           clean(s) == [d.pages[s] EXCEPT !.dirty = FALSE]
           pages == [s \in 1..MaxPages |-> IF s \in Serials(d) THEN clean(s) ELSE Null]
           n == Cardinality(Serials(d))
           h == [d.header EXCEPT !.page_count = n]
<1>1. d \in Manager /\ ExtentsCover(d) /\ TracksListPages(d)
  BY DEF Sound
<1>2. n \in Nat
  BY SerialCount
<1> HIDE DEF n
<1>3. h \in Header /\ h.page_count = n
  BY <1>1, <1>2 DEF Manager, Header
<1>4. ASSUME NEW s \in Serials(d)
      PROVE  /\ clean(s) \in Page /\ clean(s).extent = d.pages[s].extent
             /\ clean(s).objects = d.pages[s].objects
             /\ clean(s).object_count = d.pages[s].object_count
  BY <1>1, SerialPages DEF Page
<1> HIDE DEF clean
<1>5. pages \in [1..MaxPages -> Page \cup {Null}]
  BY <1>4
<1>6. \A s \in Serials(d) : pages[s] = clean(s) /\ ExtentCovers(clean(s))
  BY <1>1, <1>4 DEF ExtentsCover, ExtentCovers, Live, Serials
<1>7. e = [d EXCEPT !.pages = pages, !.header = h]
  BY DEF disk_manager_sync, clean, n
<1>8. {s \in 1..MaxPages : pages[s] # Null} = Serials(d)
  BY <1>4, NullAssumption DEF Serials
<1> HIDE DEF pages, h, e
<1>9. /\ e \in Manager /\ e.pages = pages /\ e.tracks = d.tracks
      /\ e.allocation_tree = d.allocation_tree /\ e.is_open = d.is_open /\ e.path = d.path
      /\ e.next_page_id = d.next_page_id /\ e.header = h /\ e.next_track_id = d.next_track_id
  BY <1>1, <1>3, <1>5, <1>7 DEF Manager
<1>10. Serials(e) = Serials(d) /\ Tracks(e) = Tracks(d)
  BY <1>8, <1>9 DEF Serials, Tracks
<1>11. ExtentsCover(e)
  BY <1>6, <1>9, <1>10 DEF ExtentsCover
<1>12. TracksListPages(e)
  BY <1>1, <1>9, <1>10 DEF TracksListPages
<1> QED BY <1>3, <1>6, <1>9, <1>10, <1>11, <1>12 DEF Sound, e, n, clean

\* What sync writes are images of pages whose extents cover their objects.
LEMMA SyncedFileSound ==
  ASSUME NEW d, Sound(d), NEW f, SoundFile(f)
  PROVE  SoundFile(SyncedFile(d, f))
<1> DEFINE image(i) == page_serialize(d.pages[Max(DirtyAt(d, i))])
           h == disk_manager_sync(d).header
           images == [i \in 1..MaxPages |-> IF DirtyAt(d, i) = {} THEN f.images[i] ELSE image(i)]
           g == [header |-> h, images |-> images]
<1>1. d \in Manager /\ ExtentsCover(d)
  BY DEF Sound
<1>2. ASSUME NEW i \in 1..MaxPages, DirtyAt(d, i) # {}
      PROVE  image(i) \in Page /\ ExtentCovers(image(i))
  <2>1. DirtyAt(d, i) \subseteq Serials(d) /\ Serials(d) \subseteq 1..MaxPages
    BY DEF DirtyAt, DirtyPages, Serials
  <2>2. Max(DirtyAt(d, i)) \in DirtyAt(d, i)
    BY <1>2, <2>1, BoundAssumption, MaxIndex
  <2>3. d.pages[Max(DirtyAt(d, i))] \in Page /\ ExtentCovers(d.pages[Max(DirtyAt(d, i))])
    BY <1>1, <2>1, <2>2, SerialPages DEF ExtentsCover
  <2> QED BY <2>3, Serialize
<1> HIDE DEF image
<1>3. f.images \in [1..MaxPages -> Page \cup {Null}] /\ ImagesCover(f)
  BY DEF SoundFile, File
<1>4. images \in [1..MaxPages -> Page \cup {Null}]
  BY <1>2, <1>3
<1>5. \A i \in 1..MaxPages : images[i] # Null => ExtentCovers(images[i])
  BY <1>2, <1>3 DEF ImagesCover
<1>6. h \in Header
  BY SyncSound
<1>7. SyncedFile(d, f) = g
  BY DEF SyncedFile, image
<1> HIDE DEF images, h
<1>8. g \in File /\ g.images = images
  BY <1>4, <1>6 DEF File
<1> QED BY <1>5, <1>7, <1>8 DEF SoundFile, ImagesCover

\* disk_manager_close keeps the manager sound, and no file open.
LEMMA CloseSound ==
  ASSUME NEW d, Sound(d)
  PROVE  LET e == disk_manager_close(d)
         IN /\ Sound(e) /\ ~ e.is_open /\ Serials(e) = Serials(d)
            /\ e.next_page_id = d.next_page_id /\ e.allocation_tree = d.allocation_tree
            /\ e.tracks = d.tracks /\ e.next_track_id = d.next_track_id
            /\ \/ ~ d.is_open /\ e = d
               \/ /\ d.is_open
                  /\ \A s \in Serials(d) : e.pages[s] = [d.pages[s] EXCEPT !.dirty = FALSE]
<1>1. CASE ~ d.is_open
  BY <1>1 DEF disk_manager_close
<1>2. CASE d.is_open
  <2> DEFINE a == disk_manager_sync(d)
             e == [a EXCEPT !.is_open = FALSE]
  <2>1. /\ Sound(a) /\ Serials(a) = Serials(d) /\ a.next_page_id = d.next_page_id
        /\ a.allocation_tree = d.allocation_tree
        /\ a.tracks = d.tracks /\ a.next_track_id = d.next_track_id
        /\ \A s \in Serials(d) : a.pages[s] = [d.pages[s] EXCEPT !.dirty = FALSE]
    BY SyncSound
  <2>2. disk_manager_close(d) = e
    BY <1>2 DEF disk_manager_close
  <2> HIDE DEF a
  <2>3. /\ e \in Manager /\ e.pages = a.pages /\ e.tracks = a.tracks /\ ~ e.is_open
        /\ e.next_page_id = a.next_page_id /\ e.allocation_tree = a.allocation_tree
        /\ e.next_track_id = a.next_track_id
    BY <2>1 DEF Sound, Manager
  <2>4. Sound(e) /\ Serials(e) = Serials(a)
    BY <2>1, <2>3 DEF Sound, ExtentsCover, TracksListPages, Serials, Tracks
  <2> QED BY <1>2, <2>1, <2>2, <2>3, <2>4
<1> QED BY <1>1, <1>2

\* Creating a file leaves pages and tracks as closing the old one did.
LEMMA CreateSound ==
  ASSUME NEW d, Sound(d), NEW p \in Path
  PROVE  LET e == disk_manager_create(d, p)
             a == disk_manager_close(d)
         IN /\ Sound(e) /\ e.is_open /\ e.path = p
            /\ e.pages = a.pages /\ e.tracks = a.tracks /\ e.allocation_tree = a.allocation_tree
            /\ e.next_page_id = a.next_page_id /\ e.next_track_id = a.next_track_id
<1> DEFINE a == disk_manager_close(d)
           e == disk_manager_create(d, p)
<1>1. Sound(a)
  BY CloseSound
<1>2. EmptyHeader \in Header
  BY EmptyIsMBR DEF EmptyHeader, Header
<1>3. e = [a EXCEPT !.header = EmptyHeader, !.is_open = TRUE, !.path = p]
  BY DEF disk_manager_create
<1> HIDE DEF a, e
<1>4. e \in Manager /\ e.pages = a.pages /\ e.tracks = a.tracks /\ e.is_open /\ e.path = p
      /\ e.allocation_tree = a.allocation_tree
      /\ e.next_page_id = a.next_page_id /\ e.next_track_id = a.next_track_id
  BY <1>1, <1>2, <1>3 DEF Sound, Manager
<1>5. Sound(e)
  BY <1>1, <1>4 DEF Sound, ExtentsCover, TracksListPages, Serials, Tracks
<1> QED BY <1>4, <1>5 DEF e, a

\* Opening a file adds its pages after those the pool holds.
LEMMA OpenSound ==
  ASSUME NEW d, Sound(d), NEW p \in Path, NEW f, SoundFile(f), CanOpen(d, f)
  PROVE  LET e == disk_manager_open(d, p, f)
             a == disk_manager_close(d)
             base == d.next_page_id - 1
             n == f.header.page_count
             loaded == (base + 1)..(base + n)
         IN /\ Sound(e) /\ e.is_open /\ e.path = p
            /\ base \in Nat /\ n \in Nat /\ base + n <= MaxPages
            /\ e.next_page_id = d.next_page_id + n
            /\ e.tracks = a.tracks /\ e.next_track_id = a.next_track_id
            /\ Serials(e) = Serials(a) \cup loaded
            /\ \A s \in loaded : e.pages[s] = PageImage(f, s - base)
            /\ \A s \in Serials(a) \ loaded : e.pages[s] = a.pages[s]
            /\ e.allocation_tree =
                 a.allocation_tree \cup {[page |-> s, point |-> e.pages[s].centroid] :
                                           s \in {t \in loaded : e.pages[t].object_count > 0}}
<1> DEFINE a == disk_manager_close(d)
           base == a.next_page_id - 1
           n == f.header.page_count
           loaded == (base + 1)..(base + n)
           pages == [s \in 1..MaxPages |->
                       IF s \in loaded THEN PageImage(f, s - base) ELSE a.pages[s]]
           filled == {s \in loaded : pages[s].object_count > 0}
           tree == a.allocation_tree \cup {[page |-> s, point |-> pages[s].centroid] : s \in filled}
           e == disk_manager_open(d, p, f)
<1>1. Sound(a) /\ a.next_page_id = d.next_page_id
  BY CloseSound
<1> HIDE DEF a
<1>2. a \in Manager /\ ExtentsCover(a) /\ TracksListPages(a)
  BY <1>1 DEF Sound
<1>3. /\ n \in Nat /\ base \in Nat /\ base + n <= MaxPages /\ a.next_page_id + n \in Nat \ {0}
      /\ f.header \in Header
  BY <1>1, <1>2, BoundAssumption DEF SoundFile, File, Header, Manager, CanOpen
<1> HIDE DEF n, base
<1>4. \A s \in loaded : s \in 1..MaxPages /\ s - base \in 1..MaxPages
  BY <1>3, BoundAssumption
<1> HIDE DEF loaded
<1>5. ASSUME NEW i \in 1..MaxPages
      PROVE  PageImage(f, i) \in Page /\ ExtentCovers(PageImage(f, i))
  <2>1. f.images[i] \in Page \cup {Null} /\ ImagesCover(f)
    BY DEF SoundFile, File
  <2>2. HolePage \in Page /\ ExtentCovers(HolePage)
    BY PageCreate DEF ExtentCovers
  <2> QED BY <2>1, <2>2 DEF PageImage, ImagesCover
<1>6. /\ pages \in [1..MaxPages -> Page \cup {Null}]
      /\ \A s \in loaded : pages[s] \in Page /\ ExtentCovers(pages[s])
      /\ \A s \in 1..MaxPages : s \notin loaded => pages[s] = a.pages[s]
  BY <1>2, <1>4, <1>5 DEF Manager
<1> HIDE DEF pages
<1>7. tree \in SUBSET [page : 1..MaxPages, point : Seq(Point)]
  <2>1. \A s \in filled : pages[s].centroid \in Seq(Point)
    BY <1>6 DEF Page
  <2>2. a.allocation_tree \in SUBSET [page : 1..MaxPages, point : Seq(Point)]
    BY <1>2 DEF Manager
  <2> QED BY <1>4, <2>1, <2>2
<1> HIDE DEF filled, tree
<1>8. e = [a EXCEPT !.header = f.header, !.is_open = TRUE, !.path = p, !.pages = pages,
                    !.next_page_id = a.next_page_id + n, !.allocation_tree = tree]
  BY DEF disk_manager_open, a, base, n, loaded, pages, filled, tree
<1> HIDE DEF e
<1>9. e \in Manager /\ e.pages = pages /\ e.tracks = a.tracks /\ e.is_open /\ e.path = p
      /\ e.next_page_id = a.next_page_id + n /\ e.next_track_id = a.next_track_id
      /\ e.allocation_tree = tree
  BY <1>2, <1>3, <1>6, <1>7, <1>8 DEF Manager
<1>10. Serials(e) = Serials(a) \cup loaded /\ Tracks(e) = Tracks(a)
  BY <1>4, <1>6, <1>9, NullAssumption DEF Serials, Tracks
<1>11. ExtentsCover(e)
  BY <1>2, <1>6, <1>9, <1>10 DEF ExtentsCover, Serials
<1>12. TracksListPages(e)
  BY <1>2, <1>9, <1>10 DEF TracksListPages
<1>13. \A s \in loaded : pages[s] = PageImage(f, s - base)
  BY <1>4 DEF pages
<1>14. tree = a.allocation_tree \cup {[page |-> s, point |-> e.pages[s].centroid] :
                                        s \in {t \in loaded : e.pages[t].object_count > 0}}
  BY <1>9 DEF tree, filled
<1>15. \A s \in Serials(a) \ loaded : e.pages[s] = a.pages[s]
  BY <1>6, <1>9 DEF Serials
<1>16. Sound(e)
  BY <1>9, <1>11, <1>12 DEF Sound
<1> QED BY <1>1, <1>3, <1>9, <1>10, <1>13, <1>14, <1>15, <1>16 DEF e, a, base, n, loaded

-----------------------------------------------------------------------------
\* What a call leaves behind, by the part of the state it touches.

\* The invariant gives each of its parts, in the terms of the manager lemmas.
LEMMA InvParts ==
  ASSUME IInv
  PROVE  /\ Sound(dm)
         /\ \A p \in Path : disk[p] # Null => SoundFile(disk[p])
         /\ dm.is_open => dm.path \in Path /\ SoundFile(disk[dm.path])
  BY DEF IInv, TypeOK, Sound, FilesCover, OpenFileExists, SoundFile

IndexTypes ==
  /\ bounds \in MBR /\ block_tree \in SUBSET BlockEntry /\ block_count \in Nat
  /\ page_tree \in PageTree \cup {Null} /\ is_built \in BOOLEAN
  /\ next_object_id \in Nat \ {0}

DiskSound ==
  /\ disk \in [Path -> File \cup {Null}]
  /\ \A p \in Path : disk[p] # Null => SoundFile(disk[p])

\* The parts give the invariant.
LEMMA InvFromParts ==
  ASSUME Sound(dm), DiskSound, IndexTypes,
         dm.is_open => dm.path \in Path /\ disk[dm.path] # Null
  PROVE  IInv
  BY DEF IInv, TypeOK, Sound, DiskSound, IndexTypes, FilesCover, OpenFileExists, SoundFile

\* The invariant gives the parts.
LEMMA PartsFromInv ==
  ASSUME IInv
  PROVE  Sound(dm) /\ DiskSound /\ IndexTypes
  BY DEF IInv, TypeOK, Sound, DiskSound, IndexTypes, FilesCover, SoundFile

\* spatial_index_init leaves a sound index.
LEMMA FreshIndex ==
  ASSUME NEW d, NEW bs, NEW bt, NEW bc, NEW pt, NEW built, NEW nid,
         InitIndex(d, bs, bt, bc, pt, built, nid)
  PROVE  /\ Sound(d) /\ ~ d.is_open /\ bs \in MBR /\ bt \in SUBSET BlockEntry /\ bc \in Nat
         /\ pt \in PageTree \cup {Null} /\ built \in BOOLEAN /\ nid \in Nat \ {0}
<1>1. ~ disk_manager_init.is_open
  BY DEF disk_manager_init
<1>2. d = disk_manager_init
  BY DEF InitIndex
<1>3. Sound(d) /\ ~ d.is_open
  BY <1>1, <1>2, InitSound
<1>4. bs = mbr_empty /\ bt = {} /\ bc = 0 /\ pt = Null /\ built = FALSE /\ nid = 1
  BY DEF InitIndex
<1>5. bs \in MBR /\ bt \in SUBSET BlockEntry /\ bc \in Nat /\ nid \in Nat \ {0}
  BY <1>4, EmptyIsMBR
<1>6. pt \in PageTree \cup {Null} /\ built \in BOOLEAN
  BY <1>4
<1> QED BY <1>3, <1>5, <1>6

\* The invariant holds initially.
LEMMA InitInv == Init => IInv
<1> SUFFICES ASSUME Init PROVE IInv
  OBVIOUS
<1>1. Sound(dm) /\ ~ dm.is_open /\ IndexTypes
  BY FreshIndex DEF Init, IndexTypes
<1>2. DiskSound
  BY DEF Init, DiskSound
<1> QED BY <1>1, <1>2, InvFromParts

-----------------------------------------------------------------------------
\* Insert, remove, update.

\* Page s is one that an insert may follow the allocation tree to.
Reached(d, s) == (\E n \in d.allocation_tree : n.page = s) \/ ~ NoDanglingPages(d)

\* Manager e is d with object o inserted on page s, whose content was q: a
\* page with room that the allocation tree points to, or a new one.
OntoListedPage(d, e, s, q) ==
  /\ s \in Serials(d) /\ q = d.pages[s] /\ Reached(d, s)
  /\ e.next_page_id = d.next_page_id
  /\ e.tracks = d.tracks /\ e.next_track_id = d.next_track_id

OntoNewPage(d, e, s, q, c) ==
  LET a == disk_manager_alloc_page(d, c)
  IN /\ CanAllocPage(d)
     /\ s = d.next_page_id /\ q = a.pages[s] /\ q.object_count = 0 /\ q.page_id = s
     /\ e.next_page_id = d.next_page_id + 1
     /\ e.tracks = a.tracks /\ e.next_track_id = a.next_track_id

Inserts(d, e, o, s, q) ==
  /\ s \in 1..MaxPages /\ q \in Page /\ ~ page_is_full(q)
  /\ e.pages = [d.pages EXCEPT ![s] = Inserted(q, o)]
  /\ e.allocation_tree = PageEntries(e)
  /\ OntoListedPage(d, e, s, q) \/ OntoNewPage(d, e, s, q, o.centroid)

\* Manager e is d after an insert that put its object into a freed page.
Misses(d, e) ==
  /\ ~ NoDanglingPages(d)
  /\ e.pages = d.pages /\ e.next_page_id = d.next_page_id
  /\ e.tracks = d.tracks /\ e.next_track_id = d.next_track_id
  /\ e.allocation_tree = PageEntries(e)

\* Only an entry to a freed page leads to a page that is not in the tree.
LEMMA InsertTargets ==
  ASSUME NEW d, NEW c, NEW target \in get_page_for_insert(d, c), target # NewPage
  PROVE  \/ target = FreedPage /\ ~ NoDanglingPages(d)
         \/ /\ target \in Serials(d) /\ ~ page_is_full(d.pages[target])
            /\ target # FreedPage /\ Reached(d, target)
<1>1. PICK s \in kdtree_nearest(d.allocation_tree, c) : target \in PageOrNew(d, s)
  BY DEF get_page_for_insert
<1>2. PICK n \in d.allocation_tree : n.page = s
  BY DEF kdtree_nearest
<1>3. FreedPage \notin Serials(d)
  BY BoundAssumption DEF FreedPage, Serials
<1>4. CASE s \in Serials(d)
  <2>1. target = s /\ ~ page_is_full(d.pages[s])
    BY <1>1, <1>4 DEF PageOrNew
  <2> QED BY <1>2, <1>3, <1>4, <2>1 DEF Reached
<1>5. CASE s \notin Serials(d)
  <2>1. ~ NoDanglingPages(d)
    BY <1>2, <1>5 DEF NoDanglingPages
  <2>2. target = FreedPage \/ (target \in Serials(d) /\ ~ page_is_full(d.pages[target]))
    BY <1>1, <1>5 DEF PageOrNew
  <2> QED BY <1>3, <2>1, <2>2 DEF Reached
<1> QED BY <1>4, <1>5

\* An insert that does not miss lands on a page with room, or on a new one.
LEMMA InsertPageSound ==
  ASSUME NEW d, Sound(d), NEW o \in SpatialObject,
         NEW target \in get_page_for_insert(d, o.centroid),
         target = NewPage => CanAllocPage(d), target # FreedPage
  PROVE  LET e == InsertInto(d, o, target)
         IN /\ Sound(e) /\ e.is_open = d.is_open /\ e.path = d.path
            /\ \E s, q : Inserts(d, e, o, s, q)
<1> DEFINE s == IF target = NewPage THEN d.next_page_id ELSE target
           a == IF target = NewPage THEN disk_manager_alloc_page(d, o.centroid) ELSE d
           p == page_update_derived(page_add_object(a.pages[s], o))
           b == [a EXCEPT !.pages[s] = p]
<1>1. o.centroid \in Point
  BY DEF SpatialObject
<1>2. /\ Sound(a) /\ s \in Serials(a) /\ ~ page_is_full(a.pages[s])
      /\ a.is_open = d.is_open /\ a.path = d.path
      /\ \E r : a.pages = [d.pages EXCEPT ![s] = r]
      /\ \/ OntoListedPage(d, a, s, a.pages[s])
         \/ OntoNewPage(d, a, s, a.pages[s], o.centroid)
  <2>1. CASE target = NewPage
    <3> DEFINE f == disk_manager_alloc_page(d, o.centroid)
               n == d.next_page_id
    <3>1. /\ Sound(f) /\ n \in Serials(f) /\ f.pages[n].object_count = 0
          /\ f.is_open = d.is_open /\ f.path = d.path
          /\ n \in 1..MaxPages /\ f.next_page_id = n + 1
          /\ f.pages = PagesWithNew(d, o.centroid)
      BY <1>1, <2>1, AllocPageSound
    <3>2. a = f /\ s = n
      BY <2>1
    <3> HIDE DEF f, n
    <3>3. /\ Sound(a) /\ s \in Serials(a) /\ a.pages[s].object_count = 0
          /\ a.is_open = d.is_open /\ a.path = d.path
          /\ s \in 1..MaxPages /\ a.next_page_id = d.next_page_id + 1
          /\ a.pages = PagesWithNew(d, o.centroid) /\ s = d.next_page_id
          /\ a = disk_manager_alloc_page(d, o.centroid)
      BY <3>1, <3>2, Zenon DEF f, n
    <3> DEFINE tid == disk_manager_find_best_track(WithRoom(d), o.centroid)
               new == NewPageOn(s, tid, o.centroid)
    <3>4. a.pages = [d.pages EXCEPT ![s] = new] /\ d.pages \in [1..MaxPages -> Page \cup {Null}]
      BY <3>3 DEF PagesWithNew, Sound, Manager
    <3>5. new.page_id = s
      BY DEF NewPageOn, page_create
    <3> HIDE DEF new, a, s
    <3>6. a.pages[s].page_id = s
      BY <3>3, <3>4, <3>5
    <3>7. OntoNewPage(d, a, s, a.pages[s], o.centroid)
      BY <2>1, <3>3, <3>6 DEF OntoNewPage
    <3>8. ~ page_is_full(a.pages[s])
      BY <3>3, PageAssumption DEF page_is_full
    <3>9. \E r : a.pages = [d.pages EXCEPT ![s] = r]
      BY <3>4
    <3> QED BY <3>3, <3>7, <3>8, <3>9
  <2>2. CASE target # NewPage
    <3>1. target \in Serials(d) /\ ~ page_is_full(d.pages[target]) /\ Reached(d, target)
      BY <2>2, InsertTargets
    <3>4. a = d /\ s = target /\ s \in Serials(d)
      BY <2>2, <3>1
    <3>5. a.pages = [d.pages EXCEPT ![s] = d.pages[s]]
      BY <3>4 DEF Sound, Manager
    <3> HIDE DEF a, s
    <3> QED BY <3>1, <3>4, <3>5 DEF OntoListedPage
  <2> QED BY <2>1, <2>2
<1> HIDE DEF a, s
<1>3. a.pages[s] \in Page
  BY <1>2, SerialPages DEF Sound
<1>4. p \in Page /\ ExtentCovers(p) /\ p = Inserted(a.pages[s], o)
  BY <1>2, <1>3, InsertedPage DEF Inserted
<1> HIDE DEF p
<1>5. /\ Sound(b) /\ b.is_open = a.is_open /\ b.path = a.path
      /\ b.pages = [a.pages EXCEPT ![s] = p] /\ b.tracks = a.tracks
      /\ b.next_page_id = a.next_page_id /\ b.next_track_id = a.next_track_id
  BY <1>2, <1>4, ReplacePageSound
<1>6. InsertInto(d, o, target) = disk_manager_rebuild_allocation_tree(b)
  BY DEF InsertInto, a, s, p
<1> HIDE DEF b
<1> DEFINE e == disk_manager_rebuild_allocation_tree(b)
<1>7. /\ Sound(e) /\ e.is_open = d.is_open /\ e.path = d.path
      /\ e.pages = b.pages /\ e.tracks = b.tracks /\ e.next_page_id = b.next_page_id
      /\ e.next_track_id = b.next_track_id /\ e.allocation_tree = PageEntries(b)
  BY <1>2, <1>5, RebuildSound
<1> HIDE DEF e
<1>8. e.pages = [d.pages EXCEPT ![s] = Inserted(a.pages[s], o)]
  <2>1. PICK r : a.pages = [d.pages EXCEPT ![s] = r]
    BY <1>2
  <2> QED BY <1>4, <1>5, <1>7, <2>1
<1>9. PageEntries(b) = PageEntries(e)
  BY <1>7 DEF PageEntries, NonEmpty, Serials
<1>10. Inserts(d, e, o, s, a.pages[s])
  <2>1. s \in 1..MaxPages
    BY <1>2 DEF Serials
  <2>2. OntoListedPage(d, a, s, a.pages[s]) => OntoListedPage(d, e, s, a.pages[s])
    BY <1>5, <1>7 DEF OntoListedPage
  <2>3. OntoNewPage(d, a, s, a.pages[s], o.centroid) => OntoNewPage(d, e, s, a.pages[s], o.centroid)
    BY <1>5, <1>7 DEF OntoNewPage
  <2> QED BY <1>2, <1>3, <1>7, <1>8, <1>9, <2>1, <2>2, <2>3 DEF Inserts
<1> QED BY <1>6, <1>7, <1>10 DEF e

\* An insert puts its object on a page, or into freed memory.
LEMMA InsertIntoSound ==
  ASSUME NEW d, Sound(d), NEW o \in SpatialObject,
         NEW target \in get_page_for_insert(d, o.centroid),
         target = NewPage => CanAllocPage(d)
  PROVE  LET e == InsertInto(d, o, target)
         IN /\ Sound(e) /\ e.is_open = d.is_open /\ e.path = d.path
            /\ (\E s, q : Inserts(d, e, o, s, q)) \/ Misses(d, e)
<1>1. CASE target # FreedPage
  BY <1>1, InsertPageSound
<1>2. CASE target = FreedPage
  <2> DEFINE e == disk_manager_rebuild_allocation_tree(d)
  <2>1. FreedPage # NewPage
    BY BoundAssumption DEF FreedPage, NewPage
  <2>2. ~ NoDanglingPages(d)
    BY <1>2, <2>1, InsertTargets
  <2>3. InsertInto(d, o, target) = e
    BY <1>2 DEF InsertInto
  <2>4. /\ Sound(e) /\ e.is_open = d.is_open /\ e.path = d.path
        /\ e.pages = d.pages /\ e.tracks = d.tracks /\ e.next_page_id = d.next_page_id
        /\ e.next_track_id = d.next_track_id /\ e.allocation_tree = PageEntries(d)
    BY RebuildSound
  <2> HIDE DEF e
  <2>5. PageEntries(d) = PageEntries(e)
    BY <2>4 DEF PageEntries, NonEmpty, Serials
  <2>6. Misses(d, e)
    BY <2>2, <2>4, <2>5 DEF Misses
  <2> QED BY <2>3, <2>4, <2>6
<1> QED BY <1>1, <1>2

\* Manager e is d with an object named id taken from page s.
Removes(d, e, id, s) ==
  /\ s \in Serials(d) /\ SlotsOf(d.pages[s], id) # {}
  /\ e.pages = [d.pages EXCEPT ![s] = page_remove_object(d.pages[s], id)]
  /\ e.allocation_tree = PageEntries(e)
  /\ e.next_page_id = d.next_page_id
  /\ e.tracks = d.tracks /\ e.next_track_id = d.next_track_id

\* A remove recomputes the page it took the object from.
LEMMA RemoveFromSound ==
  ASSUME NEW d, Sound(d), NEW id, HoldersOf(d, id) # {}
  PROVE  LET e == RemoveFrom(d, id)
         IN /\ Sound(e) /\ NoDanglingPages(e) /\ e.is_open = d.is_open /\ e.path = d.path
            /\ \E s : Removes(d, e, id, s)
<1> DEFINE s == Min(HoldersOf(d, id))
           p == page_remove_object(d.pages[s], id)
           b == [d EXCEPT !.pages[s] = p]
<1>1. s \in Serials(d) /\ SlotsOf(d.pages[s], id) # {}
  <2>1. HoldersOf(d, id) \subseteq Nat
    BY BoundAssumption DEF HoldersOf, Serials
  <2>2. s \in HoldersOf(d, id)
    BY <2>1, MinIndex
  <2> QED BY <2>2 DEF HoldersOf
<1> HIDE DEF s
<1>2. d.pages[s] \in Page
  BY <1>1, SerialPages DEF Sound
<1>3. p \in Page /\ ExtentCovers(p)
  BY <1>1, <1>2, PageRemoves
<1> HIDE DEF p
<1>4. /\ Sound(b) /\ b.is_open = d.is_open /\ b.path = d.path
      /\ b.pages = [d.pages EXCEPT ![s] = p] /\ b.tracks = d.tracks
      /\ b.next_page_id = d.next_page_id /\ b.next_track_id = d.next_track_id
  BY <1>1, <1>3, ReplacePageSound
<1>5. RemoveFrom(d, id) = disk_manager_rebuild_allocation_tree(b)
  BY DEF RemoveFrom, s, p
<1> HIDE DEF b
<1> DEFINE e == disk_manager_rebuild_allocation_tree(b)
<1>6. /\ Sound(e) /\ e.is_open = d.is_open /\ e.path = d.path
      /\ e.pages = b.pages /\ e.tracks = b.tracks /\ e.next_page_id = b.next_page_id
      /\ e.next_track_id = b.next_track_id /\ e.allocation_tree = PageEntries(b)
      /\ \A n \in e.allocation_tree : n.page \in Serials(e)
  BY <1>4, RebuildSound
<1> HIDE DEF e
<1>7. PageEntries(b) = PageEntries(e)
  BY <1>6 DEF PageEntries, NonEmpty, Serials
<1>8. Removes(d, e, id, s)
  BY <1>1, <1>4, <1>6, <1>7 DEF Removes, p
<1> QED BY <1>5, <1>6, <1>8 DEF NoDanglingPages, e

\* Inserting an object leaves a sound manager and well-typed bounds.
LEMMA InsertObjectSound ==
  ASSUME NEW d, Sound(d), NEW id \in Nat, NEW g \in Geom,
         bounds \in MBR, InsertObject(d, spatial_object_init(id, g))
  PROVE  LET u == spatial_object_update_derived(spatial_object_init(id, g))
         IN /\ Sound(dm') /\ dm'.is_open = d.is_open /\ dm'.path = d.path
            /\ bounds' \in MBR /\ is_built' \in BOOLEAN
            /\ u \in SpatialObject
            /\ (\E s, q : Inserts(d, dm', u, s, q)) \/ Misses(d, dm')
            /\ bounds' = mbr_expand_mbr(bounds, u.mbr) /\ is_built' = FALSE
<1> DEFINE u == spatial_object_update_derived(spatial_object_init(id, g))
<1>1. u \in SpatialObject
  BY ObjectTypes
<1> HIDE DEF u
<1>2. PICK target \in get_page_for_insert(d, u.centroid) :
        /\ target = NewPage => CanAllocPage(d)
        /\ dm' = InsertInto(d, u, target)
        /\ bounds' = mbr_expand_mbr(bounds, u.mbr)
        /\ is_built' = FALSE
  BY DEF InsertObject, u
<1>3. u.mbr \in MBR
  BY <1>1 DEF SpatialObject
<1>4. /\ Sound(dm') /\ dm'.is_open = d.is_open /\ dm'.path = d.path
      /\ (\E s, q : Inserts(d, dm', u, s, q)) \/ Misses(d, dm')
  BY <1>1, <1>2, InsertIntoSound
<1>5. bounds' \in MBR
  BY <1>2, <1>3, ExpandMBR
<1> QED BY <1>1, <1>2, <1>4, <1>5 DEF u

-----------------------------------------------------------------------------
\* Build.

\* The live slots are finitely many pairs of a serial and a slot.
LEMMA LiveSlotsFinite ==
  ASSUME NEW d
  PROVE  Cardinality(LiveSlots(d)) \in Nat /\ LiveSlots(d) \subseteq Serials(d) \X Slot
<1>1. IsFiniteSet(1..MaxPages) /\ IsFiniteSet(Slot)
  BY BoundAssumption, PageAssumption, FS_Interval DEF Slot
<1>2. IsFiniteSet((1..MaxPages) \X Slot)
  BY <1>1, FS_Product
<1>3. LiveSlots(d) \subseteq Serials(d) \X Slot
  BY DEF LiveSlots, Live
<1>4. LiveSlots(d) \subseteq (1..MaxPages) \X Slot
  BY <1>3 DEF Serials
<1>5. IsFiniteSet(LiveSlots(d))
  BY <1>2, <1>4, FS_Subset
<1> QED BY <1>3, <1>5, FS_CardinalityType

\* build_page_quadtree returns a page tree, or none.
LEMMA QuadtreeType ==
  ASSUME NEW d, Sound(d), NEW root \in MBR
  PROVE  build_page_quadtree(d, root) \in PageTree \cup {Null}
<1> DEFINE items == {[page |-> s, extent |-> d.pages[s].extent] : s \in Kept(root, PageExtents(d))}
<1>1. \A s \in NonEmpty(d) : s \in 1..MaxPages /\ d.pages[s].extent \in MBR
  BY SerialPages DEF Sound, NonEmpty, Page
<1>2. Kept(root, PageExtents(d)) \subseteq NonEmpty(d)
  BY DEF Kept, Accepted, PageExtents
<1>3. items \in SUBSET [page : 1..MaxPages, extent : MBR]
  BY <1>1, <1>2
<1> HIDE DEF items
<1>4. [bounds |-> root, items |-> items] \in PageTree
  BY <1>3 DEF PageTree
<1> QED BY <1>4 DEF build_page_quadtree, items

\* BlockTreeOf is a set of block entries.
LEMMA BlockTreeType ==
  ASSUME NEW d, Sound(d)
  PROVE  BlockTreeOf(d) \in SUBSET BlockEntry
<1>1. ASSUME NEW a \in LiveSlots(d)
      PROVE  a[1] \in 1..MaxPages /\ a[2] \in Slot /\ ObjectAt(d, a).centroid \in Point
  <2>1. a[1] \in Serials(d) /\ a[2] \in Slot
    BY LiveSlotsFinite
  <2>2. d.pages[a[1]] \in Page /\ a[1] \in 1..MaxPages
    BY <2>1, SerialPages DEF Sound
  <2> QED BY <2>1, <2>2 DEF ObjectAt, Page, SpatialObject
<1> QED BY <1>1 DEF BlockTreeOf, BlockEntry

\* New tracks are empty, so every listed page still exists.
LEMMA CreateBlocksSound ==
  ASSUME NEW d, Sound(d), NEW n \in Nat, d.next_track_id + n <= MaxTracks + 1
  PROVE  LET e == create_blocks(d, n)
         IN /\ Sound(e) /\ e.is_open = d.is_open /\ e.path = d.path
            /\ e.pages = d.pages /\ e.next_page_id = d.next_page_id
            /\ e.allocation_tree = d.allocation_tree /\ e.next_track_id = d.next_track_id + n
            /\ \A t \in 1..MaxTracks :
                 e.tracks[t] = IF t \in d.next_track_id..(d.next_track_id + n - 1)
                               THEN track_create ELSE d.tracks[t]
<1> DEFINE ts == [t \in 1..MaxTracks |->
                    IF t \in d.next_track_id..(d.next_track_id + n - 1)
                    THEN track_create ELSE d.tracks[t]]
           e == create_blocks(d, n)
<1>1. d \in Manager /\ ExtentsCover(d) /\ TracksListPages(d)
  BY DEF Sound
<1>2. ts \in [1..MaxTracks -> Track \cup {Null}]
  BY <1>1, TrackCreate DEF Manager
<1>3. e = [d EXCEPT !.tracks = ts, !.next_track_id = d.next_track_id + n]
  BY DEF create_blocks
<1>4. \A t \in 1..MaxTracks : ts[t] = track_create \/ ts[t] = d.tracks[t]
  OBVIOUS
<1> HIDE DEF ts, e
<1>5. d.next_track_id + n \in Nat \ {0}
  BY <1>1 DEF Manager
<1>6. /\ e \in Manager /\ e.pages = d.pages /\ e.tracks = ts /\ e.is_open = d.is_open /\ e.path = d.path
      /\ e.next_page_id = d.next_page_id /\ e.allocation_tree = d.allocation_tree
      /\ e.next_track_id = d.next_track_id + n
  BY <1>1, <1>2, <1>3, <1>5 DEF Manager
<1>7. DOMAIN track_create.pages = {}
  BY DEF track_create
<1>8. ExtentsCover(e) /\ TracksListPages(e)
  BY <1>1, <1>4, <1>6, <1>7 DEF ExtentsCover, TracksListPages, Serials, Tracks
<1> QED BY <1>6, <1>8 DEF Sound, e, ts

\* Building keeps the manager sound and the trees well typed.
LEMMA BuildFromSound ==
  ASSUME NEW d, Sound(d), NEW b \in MBR, IndexTypes, BuildFrom(d, b)
  PROVE  /\ Sound(dm') /\ dm'.is_open = d.is_open /\ dm'.path = d.path
         /\ block_tree' \in SUBSET BlockEntry /\ block_count' \in Nat
         /\ page_tree' \in PageTree \cup {Null} /\ is_built' \in BOOLEAN
         /\ dm'.pages = d.pages /\ dm'.next_page_id = d.next_page_id
         /\ dm'.allocation_tree = d.allocation_tree
         /\ dm' = d \/ \E n \in Nat : dm' = create_blocks(d, n) /\ d.next_track_id + n <= MaxTracks + 1
         /\ LiveSlots(d) # {} => block_tree' = BlockTreeOf(d) /\ page_tree' = build_page_quadtree(d, b)
<1>1. CASE LiveSlots(d) = {}
  BY <1>1 DEF BuildFrom, IndexTypes
<1>2. CASE LiveSlots(d) # {}
  <2>1. PICK n \in BlockCounts(Cardinality(LiveSlots(d))) :
          /\ d.next_track_id + n <= MaxTracks + 1
          /\ dm' = create_blocks(d, n)
          /\ block_tree' = BlockTreeOf(d)
          /\ block_count' = n
          /\ page_tree' = build_page_quadtree(d, b)
          /\ is_built' = TRUE
    BY <1>2 DEF BuildFrom
  <2>2. n \in Nat
    BY LiveSlotsFinite DEF BlockCounts
  <2>3. block_tree' \in SUBSET BlockEntry /\ page_tree' \in PageTree \cup {Null}
    BY <2>1, BlockTreeType, QuadtreeType
  <2> QED BY <2>1, <2>2, <2>3, CreateBlocksSound
<1> QED BY <1>1, <1>2

-----------------------------------------------------------------------------
\* Files.

\* Closing the open file leaves every file covering its objects.
LEMMA ClosedFilesSound ==
  ASSUME Sound(dm), DiskSound, dm.is_open => dm.path \in Path /\ disk[dm.path] # Null
  PROVE  LET fs == ClosedFiles(dm, disk)
         IN /\ fs \in [Path -> File \cup {Null}]
            /\ \A p \in Path : fs[p] # Null => SoundFile(fs[p])
<1>1. CASE ~ dm.is_open
  BY <1>1 DEF ClosedFiles, DiskSound
<1>2. CASE dm.is_open
  <2> DEFINE f == SyncedFile(dm, disk[dm.path])
  <2>1. SoundFile(f)
    BY <1>2, SyncedFileSound DEF DiskSound
  <2>2. ClosedFiles(dm, disk) = [disk EXCEPT ![dm.path] = f]
    BY <1>2 DEF ClosedFiles
  <2> HIDE DEF f
  <2>3. f \in File
    BY <2>1 DEF SoundFile
  <2> QED BY <1>2, <2>1, <2>2, <2>3 DEF DiskSound
<1> QED BY <1>1, <1>2

-----------------------------------------------------------------------------
\* One lemma per group of calls.

\* Geometries and identifiers the caller uses are well typed.
LEMMA GeomsAndIds ==
  /\ \A g \in Geoms : g \in Geom
  /\ \A id \in Ids : id \in Nat
  /\ \A id \in ExplicitIds : id \in Nat
  BY IndexAssumption DEF Ids

\* What a call must leave in the manager, on disk and in the trees.
LEMMA InvAfter ==
  ASSUME Sound(dm'), disk' \in [Path -> File \cup {Null}],
         \A p \in Path : disk'[p] # Null => SoundFile(disk'[p]),
         dm'.is_open => dm'.path \in Path /\ disk'[dm'.path] # Null,
         bounds' \in MBR, block_tree' \in SUBSET BlockEntry, block_count' \in Nat,
         page_tree' \in PageTree \cup {Null}, is_built' \in BOOLEAN,
         next_object_id' \in Nat \ {0}
  PROVE  IInv'
<1>1. dm' \in Manager /\ ExtentsCover(dm)' /\ TracksListPages(dm)'
  BY DEF Sound, ExtentsCover, TracksListPages
<1>2. TypeOK'
  BY <1>1 DEF TypeOK
<1>3. FilesCover' /\ OpenFileExists'
  BY DEF FilesCover, OpenFileExists, SoundFile
<1> QED BY <1>1, <1>2, <1>3 DEF IInv

\* Insert, InsertWithId, RemoveObject and Update preserve the invariant.
LEMMA ObjectStep ==
  ASSUME IInv, ObjectNext
  PROVE  IInv'
<1>1. Sound(dm) /\ DiskSound /\ IndexTypes
  BY PartsFromInv
<1>2. dm.is_open => dm.path \in Path /\ disk[dm.path] # Null
  BY DEF IInv, OpenFileExists
<1>3. ASSUME Sound(dm'), dm'.is_open = dm.is_open, dm'.path = dm.path, disk' = disk,
             bounds' \in MBR, is_built' \in BOOLEAN, next_object_id' \in Nat \ {0},
             UNCHANGED <<block_tree, block_count, page_tree>>
      PROVE  IInv'
  BY <1>1, <1>2, <1>3, InvAfter DEF IndexTypes, DiskSound
<1>4. ASSUME NEW g \in Geoms, Insert(g) PROVE IInv'
  <2>1. next_object_id \in Nat /\ next_object_id' \in Nat \ {0} /\ bounds \in MBR
    BY <1>1, <1>4 DEF Insert, IndexTypes
  <2>2. /\ InsertObject(dm, spatial_object_init(next_object_id, g))
        /\ UNCHANGED <<disk, block_tree, block_count, page_tree>>
    BY <1>4 DEF Insert
  <2>3. /\ Sound(dm') /\ dm'.is_open = dm.is_open /\ dm'.path = dm.path
        /\ bounds' \in MBR /\ is_built' \in BOOLEAN
    BY <1>1, <2>1, <2>2, GeomsAndIds, InsertObjectSound
  <2> QED BY <1>3, <2>1, <2>2, <2>3
<1>5. ASSUME NEW id \in ExplicitIds, NEW g \in Geoms, InsertWithId(id, g) PROVE IInv'
  <2>1. /\ InsertObject(dm, spatial_object_init(id, g))
        /\ UNCHANGED <<disk, block_tree, block_count, page_tree, next_object_id>>
    BY <1>5 DEF InsertWithId
  <2>2. bounds \in MBR /\ next_object_id' \in Nat \ {0}
    BY <1>1, <2>1 DEF IndexTypes
  <2>3. /\ Sound(dm') /\ dm'.is_open = dm.is_open /\ dm'.path = dm.path
        /\ bounds' \in MBR /\ is_built' \in BOOLEAN
    BY <1>1, <2>1, <2>2, GeomsAndIds, InsertObjectSound
  <2> QED BY <1>3, <2>1, <2>2, <2>3
<1>6. ASSUME NEW id \in Ids, RemoveObject(id) PROVE IInv'
  <2>1. /\ HoldersOf(dm, id) # {} /\ dm' = RemoveFrom(dm, id) /\ is_built' = FALSE
        /\ UNCHANGED <<disk, bounds, block_tree, block_count, page_tree, next_object_id>>
    BY <1>6 DEF RemoveObject
  <2>2. Sound(dm') /\ dm'.is_open = dm.is_open /\ dm'.path = dm.path
    BY <1>1, <2>1, RemoveFromSound
  <2>3. bounds' \in MBR /\ is_built' \in BOOLEAN /\ next_object_id' \in Nat \ {0}
    BY <1>1, <2>1 DEF IndexTypes
  <2> QED BY <1>3, <2>1, <2>2, <2>3
<1>7. ASSUME NEW id \in Ids, NEW g \in Geoms, Update(id, g) PROVE IInv'
  <2> DEFINE d == RemoveFrom(dm, id)
  <2>1. /\ HoldersOf(dm, id) # {} /\ InsertObject(d, spatial_object_init(id, g))
        /\ UNCHANGED <<disk, block_tree, block_count, page_tree, next_object_id>>
    BY <1>7 DEF Update
  <2>2. Sound(d) /\ NoDanglingPages(d) /\ d.is_open = dm.is_open /\ d.path = dm.path
    BY <1>1, <2>1, RemoveFromSound
  <2> HIDE DEF d
  <2>3. bounds \in MBR /\ next_object_id' \in Nat \ {0}
    BY <1>1, <2>1 DEF IndexTypes
  <2>4. /\ Sound(dm') /\ dm'.is_open = d.is_open /\ dm'.path = d.path
        /\ bounds' \in MBR /\ is_built' \in BOOLEAN
    BY <2>1, <2>2, <2>3, GeomsAndIds, InsertObjectSound
  <2> QED BY <1>3, <2>1, <2>2, <2>3, <2>4
<1> QED BY <1>4, <1>5, <1>6, <1>7 DEF ObjectNext

\* Build and FindAdjacentPages preserve the invariant.
LEMMA SessionStep ==
  ASSUME IInv, Build \/ FindAdjacentPages
  PROVE  IInv'
<1>1. Sound(dm) /\ DiskSound /\ IndexTypes
  BY PartsFromInv
<1>2. dm.is_open => dm.path \in Path /\ disk[dm.path] # Null
  BY DEF IInv, OpenFileExists
<1>3. CASE Build
  <2>1. BuildFrom(dm, bounds) /\ UNCHANGED <<disk, bounds, next_object_id>>
    BY <1>3 DEF Build
  <2>2. /\ Sound(dm') /\ dm'.is_open = dm.is_open /\ dm'.path = dm.path
        /\ block_tree' \in SUBSET BlockEntry /\ block_count' \in Nat
        /\ page_tree' \in PageTree \cup {Null} /\ is_built' \in BOOLEAN
    BY <1>1, <2>1, BuildFromSound DEF IndexTypes
  <2> QED BY <1>1, <1>2, <2>1, <2>2, InvAfter DEF IndexTypes, DiskSound
<1>4. CASE FindAdjacentPages
  <2>1. page_tree' \in PageTree \cup {Null}
    BY <1>1, <1>4, QuadtreeType DEF FindAdjacentPages, IndexTypes
  <2>2. UNCHANGED <<dm, disk, bounds, block_tree, block_count, is_built, next_object_id>>
    BY <1>4 DEF FindAdjacentPages
  <2> QED BY <1>1, <1>2, <2>1, <2>2, InvAfter DEF IndexTypes, DiskSound
<1> QED BY <1>3, <1>4

\* Save preserves the invariant.
LEMMA SaveStep ==
  ASSUME IInv, NEW p \in Path, Save(p)
  PROVE  IInv'
<1> DEFINE c == disk_manager_create(dm, p)
           fs == CreatedFiles(dm, disk, p)
           blank == [header |-> EmptyHeader, images |-> [i \in 1..MaxPages |-> Null]]
           f == SyncedFile(c, fs[p])
<1>1. Sound(dm) /\ DiskSound /\ IndexTypes
  BY PartsFromInv
<1>2. dm.is_open => dm.path \in Path /\ disk[dm.path] # Null
  BY DEF IInv, OpenFileExists
<1>3. Sound(c) /\ c.is_open /\ c.path = p
  BY <1>1, CreateSound
<1>4. EmptyHeader \in Header
  BY EmptyIsMBR DEF EmptyHeader, Header
<1>5. SoundFile(blank)
  BY <1>4 DEF SoundFile, File, ImagesCover
<1>6. fs = [ClosedFiles(dm, disk) EXCEPT ![p] = blank]
  BY DEF CreatedFiles
<1> HIDE DEF c, blank, fs
<1>7. /\ fs \in [Path -> File \cup {Null}] /\ fs[p] = blank
      /\ \A q \in Path : fs[q] # Null => SoundFile(fs[q])
  BY <1>1, <1>2, <1>5, <1>6, ClosedFilesSound DEF SoundFile
<1>8. SoundFile(f)
  BY <1>3, <1>5, <1>7, SyncedFileSound
<1>9. dm' = disk_manager_sync(c) /\ disk' = [fs EXCEPT ![p] = f]
      /\ UNCHANGED <<bounds, block_tree, block_count, page_tree, is_built, next_object_id>>
  BY DEF Save, c, fs
<1> HIDE DEF f
<1>10. Sound(dm') /\ dm'.path = p
  BY <1>3, <1>9, SyncSound
<1>11. f \in File /\ f # Null
  BY <1>8, NullAssumption DEF SoundFile
<1>12. /\ disk' \in [Path -> File \cup {Null}]
       /\ \A q \in Path : disk'[q] # Null => SoundFile(disk'[q])
       /\ disk'[p] # Null
  BY <1>7, <1>8, <1>9, <1>11
<1> QED BY <1>1, <1>9, <1>10, <1>12, InvAfter DEF IndexTypes

\* Sync preserves the invariant.
LEMMA SyncStep ==
  ASSUME IInv, Sync
  PROVE  IInv'
<1>1. Sound(dm) /\ DiskSound /\ IndexTypes
  BY PartsFromInv
<1>2. dm.is_open /\ dm.path \in Path /\ disk[dm.path] # Null
  BY DEF IInv, OpenFileExists, Sync
<1> DEFINE f == SyncedFile(dm, disk[dm.path])
<1>3. SoundFile(f)
  BY <1>1, <1>2, SyncedFileSound DEF DiskSound
<1>4. dm' = disk_manager_sync(dm) /\ disk' = [disk EXCEPT ![dm.path] = f]
      /\ UNCHANGED <<bounds, block_tree, block_count, page_tree, is_built, next_object_id>>
  BY DEF Sync
<1> HIDE DEF f
<1>5. Sound(dm') /\ dm'.path = dm.path
  BY <1>1, <1>4, SyncSound
<1>6. f \in File /\ f # Null
  BY <1>3, NullAssumption DEF SoundFile
<1>7. /\ disk' \in [Path -> File \cup {Null}]
      /\ \A q \in Path : disk'[q] # Null => SoundFile(disk'[q])
      /\ disk'[dm.path] # Null
  BY <1>1, <1>2, <1>3, <1>4, <1>6 DEF DiskSound
<1> QED BY <1>1, <1>2, <1>4, <1>5, <1>7, InvAfter DEF IndexTypes

\* A load, into a fresh index or over what an index holds.
LEMMA LoadStep ==
  ASSUME IInv, NEW p \in Path, UrbisLoad(p) \/ Reload(p)
  PROVE  IInv'
<1>1. Sound(dm) /\ DiskSound /\ IndexTypes
  BY PartsFromInv
<1>2. dm.is_open => dm.path \in Path /\ disk[dm.path] # Null
  BY DEF IInv, OpenFileExists
<1>3. PICK fs : /\ fs \in [Path -> File \cup {Null}] /\ \A q \in Path : fs[q] # Null => SoundFile(fs[q])
                /\ CanOpen(dm, fs[p]) /\ bounds' = fs[p].header.bounds
                /\ BuildFrom(disk_manager_open(dm, p, fs[p]), fs[p].header.bounds)
                /\ disk' = fs /\ UNCHANGED next_object_id
  <2>1. CASE UrbisLoad(p)
    <3>1. /\ CanOpen(dm, disk[p]) /\ bounds' = disk[p].header.bounds
          /\ BuildFrom(disk_manager_open(dm, p, disk[p]), disk[p].header.bounds)
          /\ disk' = disk /\ UNCHANGED next_object_id
      BY <2>1 DEF UrbisLoad
    <3> QED BY <1>1, <3>1, Zenon DEF DiskSound
  <2>2. CASE Reload(p)
    <3> DEFINE gs == ClosedFiles(dm, disk)
    <3>1. /\ CanOpen(dm, gs[p]) /\ bounds' = gs[p].header.bounds
          /\ BuildFrom(disk_manager_open(dm, p, gs[p]), gs[p].header.bounds)
          /\ disk' = gs /\ UNCHANGED next_object_id
      BY <2>2 DEF Reload
    <3>2. gs \in [Path -> File \cup {Null}] /\ \A q \in Path : gs[q] # Null => SoundFile(gs[q])
      BY <1>1, <1>2, ClosedFilesSound
    <3> HIDE DEF gs
    <3> QED BY <3>1, <3>2, Zenon
  <2> QED BY <2>1, <2>2
<1> DEFINE d == disk_manager_open(dm, p, fs[p])
<1>4. fs[p] # Null /\ SoundFile(fs[p]) /\ fs[p].header.bounds \in MBR
  BY <1>3 DEF CanOpen, SoundFile, File, Header
<1>5. Sound(d) /\ d.is_open /\ d.path = p
  BY <1>1, <1>3, <1>4, OpenSound
<1> HIDE DEF d
<1>6. BuildFrom(d, fs[p].header.bounds)
  BY <1>3 DEF d
<1>7. /\ Sound(dm') /\ dm'.path = p
      /\ block_tree' \in SUBSET BlockEntry /\ block_count' \in Nat
      /\ page_tree' \in PageTree \cup {Null} /\ is_built' \in BOOLEAN
  BY <1>1, <1>4, <1>5, <1>6, BuildFromSound
<1> QED BY <1>1, <1>3, <1>4, <1>7, InvAfter DEF IndexTypes

\* A load from a missing file preserves the invariant.
LEMMA ReloadFailsStep ==
  ASSUME IInv, NEW p \in Path, ReloadFails(p)
  PROVE  IInv'
<1>1. Sound(dm) /\ DiskSound /\ IndexTypes
  BY PartsFromInv
<1>2. dm.is_open => dm.path \in Path /\ disk[dm.path] # Null
  BY DEF IInv, OpenFileExists
<1>3. dm' = disk_manager_close(dm) /\ disk' = ClosedFiles(dm, disk)
      /\ UNCHANGED <<bounds, block_tree, block_count, page_tree, is_built, next_object_id>>
  BY DEF ReloadFails
<1>4. Sound(dm') /\ ~ dm'.is_open
  BY <1>1, <1>3, CloseSound
<1>5. disk' \in [Path -> File \cup {Null}] /\ \A q \in Path : disk'[q] # Null => SoundFile(disk'[q])
  BY <1>1, <1>2, <1>3, ClosedFilesSound
<1> QED BY <1>1, <1>3, <1>4, <1>5, InvAfter DEF IndexTypes

\* Restart and Crash preserve the invariant.
LEMMA RestartStep ==
  ASSUME IInv, Restart \/ Crash
  PROVE  IInv'
<1>1. Sound(dm) /\ DiskSound
  BY PartsFromInv
<1>2. dm.is_open => dm.path \in Path /\ disk[dm.path] # Null
  BY DEF IInv, OpenFileExists
<1>3. InitIndex(dm', bounds', block_tree', block_count', page_tree', is_built', next_object_id')
  BY DEF Restart, Crash
<1>4. disk' = ClosedFiles(dm, disk) \/ disk' = disk
  BY DEF Restart, Crash
<1>5. disk' \in [Path -> File \cup {Null}] /\ \A q \in Path : disk'[q] # Null => SoundFile(disk'[q])
  BY <1>1, <1>2, <1>4, ClosedFilesSound DEF DiskSound
<1>6. /\ Sound(dm') /\ ~ dm'.is_open /\ bounds' \in MBR
      /\ block_tree' \in SUBSET BlockEntry /\ block_count' \in Nat
      /\ page_tree' \in PageTree \cup {Null} /\ is_built' \in BOOLEAN
      /\ next_object_id' \in Nat \ {0}
  BY <1>3, FreshIndex
<1> QED BY <1>5, <1>6, InvAfter

\* Clear preserves the invariant.
LEMMA ClearStep ==
  ASSUME IInv, Clear
  PROVE  IInv'
<1> DEFINE ps == [s \in 1..MaxPages |-> Null]
           ts == [t \in 1..MaxTracks |-> Null]
<1>1. Sound(dm) /\ DiskSound /\ IndexTypes
  BY PartsFromInv
<1>2. dm.is_open => dm.path \in Path /\ disk[dm.path] # Null
  BY DEF IInv, OpenFileExists
<1>3. /\ dm' = [dm EXCEPT !.pages = ps, !.tracks = ts]
      /\ block_tree' = {} /\ block_count' = 0
      /\ page_tree' = IF page_tree = Null THEN Null ELSE [page_tree EXCEPT !.items = {}]
      /\ bounds' = mbr_empty /\ is_built' = FALSE
      /\ UNCHANGED <<disk, next_object_id>>
  BY DEF Clear
<1>4. ps \in [1..MaxPages -> Page \cup {Null}] /\ ts \in [1..MaxTracks -> Track \cup {Null}]
  OBVIOUS
<1>5. Serials(dm') = {} /\ Tracks(dm') = {} /\ dm' \in Manager
      /\ dm'.is_open = dm.is_open /\ dm'.path = dm.path
  BY <1>1, <1>3, <1>4 DEF Sound, Manager, Serials, Tracks
<1>6. Sound(dm')
  BY <1>5 DEF Sound, ExtentsCover, TracksListPages
<1>7. page_tree' \in PageTree \cup {Null}
  BY <1>1, <1>3 DEF IndexTypes, PageTree
<1>8. block_tree' \in SUBSET BlockEntry /\ block_count' \in Nat /\ is_built' \in BOOLEAN
  BY <1>3
<1> QED BY <1>1, <1>2, <1>3, <1>5, <1>6, <1>7, <1>8, EmptyIsMBR, InvAfter DEF IndexTypes, DiskSound

\* Every step preserves the invariant.
LEMMA NextInv == IInv /\ [Next]_vars => IInv'
<1> SUFFICES ASSUME IInv, [Next]_vars PROVE IInv'
  OBVIOUS
<1>1. CASE ObjectNext
  BY <1>1, ObjectStep
<1>2. CASE Build \/ FindAdjacentPages
  BY <1>2, SessionStep
<1>3. ASSUME NEW p \in Path, Save(p) PROVE IInv'
  BY <1>3, SaveStep
<1>4. ASSUME NEW p \in Path, UrbisLoad(p) \/ Reload(p) PROVE IInv'
  BY <1>4, LoadStep
<1>5. CASE Sync
  BY <1>5, SyncStep
<1>6. CASE Restart \/ Crash
  BY <1>6, RestartStep
<1>7. ASSUME NEW p \in Path, ReloadFails(p) PROVE IInv'
  BY <1>7, ReloadFailsStep
<1>8. CASE Clear
  BY <1>8, ClearStep
<1>9. CASE UNCHANGED vars
  BY <1>9 DEF vars, IInv, TypeOK, FilesCover, OpenFileExists, ExtentsCover, TracksListPages
<1> QED BY <1>1, <1>2, <1>3, <1>4, <1>5, <1>6, <1>7, <1>8, <1>9
        DEF Next, ApiNext, SessionNext, FileNext

-----------------------------------------------------------------------------
(***************************************************************************)
(* The inductive invariant holds of every reachable state: whatever the    *)
(* order of inserts, removes, updates, builds, saves, loads, crashes and   *)
(* clears, page extents cover their objects in memory and on disk.         *)
(***************************************************************************)
THEOREM InvHolds == Spec => []IInv
  BY InitInv, NextInv, PTL DEF Spec

(***************************************************************************)
(* Every variable of the index keeps its type (spatial_index.c).           *)
(***************************************************************************)
THEOREM TypeCorrect == Spec => []TypeOK
<1>1. IInv => TypeOK
  BY DEF IInv
<1> QED BY <1>1, InvHolds, PTL

(***************************************************************************)
(* A range query returns exactly the stored objects whose rectangle meets  *)
(* the region: pruning by page extents loses none of them                  *)
(* (spatial_index_query_range).                                            *)
(***************************************************************************)
THEOREM RangeQueriesComplete == Spec => []RangeQueryComplete
<1>1. ASSUME IInv PROVE RangeQueryComplete
  <2>1. Sound(dm)
    BY <1>1, PartsFromInv
  <2>2. ASSUME NEW r \in Regions, NEW a \in LiveSlots(dm), mbr_intersects(ObjectAt(dm, a).mbr, r)
        PROVE  mbr_intersects(dm.pages[a[1]].extent, r)
    <3>1. PICK s \in Serials(dm) : \E i \in Live(dm.pages[s]) : a = <<s, i>>
      BY DEF LiveSlots
    <3>2. PICK i \in Live(dm.pages[s]) : a = <<s, i>>
      BY <3>1
    <3> DEFINE m == dm.pages[s].objects[i].mbr
    <3>3. mbr_intersects(m, r)
      BY <2>2, <3>2 DEF ObjectAt
    <3>4. ~ mbr_is_empty(m)
      BY <3>3 DEF mbr_intersects
    <3>5. dm.pages[s] \in Page /\ ExtentCovers(dm.pages[s])
      BY <2>1, <3>2, SerialPages DEF Sound, ExtentsCover
    <3>6. mbr_contains_mbr(dm.pages[s].extent, m)
      BY <3>2, <3>4, <3>5 DEF ExtentCovers
    <3>7. m \in MBR /\ dm.pages[s].extent \in MBR /\ r \in MBR
      BY <3>2, <3>5, RegionAssumption DEF Page, Live, SpatialObject
    <3> HIDE DEF m
    <3>8. mbr_intersects(dm.pages[s].extent, r)
      BY <3>3, <3>6, <3>7, ContainedIntersects
    <3> QED BY <3>2, <3>8
  <2> QED BY <2>2 DEF RangeQueryComplete, query_range
<1> QED BY <1>1, InvHolds, PTL

-----------------------------------------------------------------------------
\* The shape of a step.

\* Every call that changes objects takes one out, puts one in, or does the
\* first and then the second.
TakesOut(d, e) == e = d \/ \E id \in Ids : \E s : Removes(d, e, id, s)

\* An object is inserted, or put into a freed page; the bounds grow by its
\* rectangle.
PutsIn(d, e) ==
  \/ e = d /\ bounds' = bounds
  \/ \E o \in SpatialObject :
       /\ (\E s, q : Inserts(d, e, o, s, q)) \/ Misses(d, e)
       /\ bounds' = mbr_expand_mbr(bounds, o.mbr)

\* Insert, remove and update, by what they take out and put in.
LEMMA ObjectShape ==
  ASSUME IInv, ObjectNext
  PROVE  /\ \E d : Sound(d) /\ TakesOut(dm, d) /\ PutsIn(d, dm')
         /\ Sound(dm') /\ dm'.is_open = dm.is_open /\ dm'.path = dm.path
         /\ is_built' = FALSE /\ UNCHANGED <<disk, block_tree, page_tree>>
<1>1. Sound(dm) /\ IndexTypes
  BY PartsFromInv
<1>2. bounds \in MBR /\ next_object_id \in Nat
  BY <1>1 DEF IndexTypes
<1>3. ASSUME NEW g \in Geoms, Insert(g)
      PROVE  /\ PutsIn(dm, dm') /\ Sound(dm') /\ dm'.is_open = dm.is_open /\ dm'.path = dm.path
             /\ is_built' = FALSE /\ UNCHANGED <<disk, block_tree, page_tree>>
  <2>1. /\ InsertObject(dm, spatial_object_init(next_object_id, g))
        /\ UNCHANGED <<disk, block_tree, page_tree>>
    BY <1>3 DEF Insert
  <2> QED BY <1>1, <1>2, <2>1, GeomsAndIds, InsertObjectSound DEF PutsIn
<1>4. ASSUME NEW id \in ExplicitIds, NEW g \in Geoms, InsertWithId(id, g)
      PROVE  /\ PutsIn(dm, dm') /\ Sound(dm') /\ dm'.is_open = dm.is_open /\ dm'.path = dm.path
             /\ is_built' = FALSE /\ UNCHANGED <<disk, block_tree, page_tree>>
  <2>1. /\ InsertObject(dm, spatial_object_init(id, g))
        /\ UNCHANGED <<disk, block_tree, page_tree>>
    BY <1>4 DEF InsertWithId
  <2> QED BY <1>1, <1>2, <2>1, GeomsAndIds, InsertObjectSound DEF PutsIn
<1>5. ASSUME NEW id \in Ids, RemoveObject(id)
      PROVE  /\ TakesOut(dm, dm') /\ PutsIn(dm', dm')
             /\ Sound(dm') /\ dm'.is_open = dm.is_open /\ dm'.path = dm.path
             /\ is_built' = FALSE /\ UNCHANGED <<disk, block_tree, page_tree>>
  <2>1. /\ HoldersOf(dm, id) # {} /\ dm' = RemoveFrom(dm, id) /\ bounds' = bounds
        /\ is_built' = FALSE /\ UNCHANGED <<disk, block_tree, page_tree>>
    BY <1>5 DEF RemoveObject
  <2>2. /\ Sound(dm') /\ dm'.is_open = dm.is_open /\ dm'.path = dm.path
        /\ \E s : Removes(dm, dm', id, s)
    BY <1>1, <2>1, RemoveFromSound
  <2> QED BY <2>1, <2>2 DEF TakesOut, PutsIn
<1>6. ASSUME NEW id \in Ids, NEW g \in Geoms, Update(id, g)
      PROVE  LET d == RemoveFrom(dm, id)
             IN /\ Sound(d) /\ TakesOut(dm, d) /\ PutsIn(d, dm')
                /\ Sound(dm') /\ dm'.is_open = dm.is_open /\ dm'.path = dm.path
                /\ is_built' = FALSE /\ UNCHANGED <<disk, block_tree, page_tree>>
  <2> DEFINE d == RemoveFrom(dm, id)
  <2>1. /\ HoldersOf(dm, id) # {} /\ InsertObject(d, spatial_object_init(id, g))
        /\ UNCHANGED <<disk, block_tree, page_tree>>
    BY <1>6 DEF Update
  <2>2. /\ Sound(d) /\ NoDanglingPages(d) /\ d.is_open = dm.is_open /\ d.path = dm.path
        /\ \E s : Removes(dm, d, id, s)
    BY <1>1, <2>1, RemoveFromSound
  <2>3. TakesOut(dm, d)
    BY <2>2 DEF TakesOut
  <2> HIDE DEF d
  <2>4. /\ PutsIn(d, dm') /\ Sound(dm') /\ dm'.is_open = d.is_open /\ dm'.path = d.path
        /\ is_built' = FALSE
    BY <1>2, <2>1, <2>2, GeomsAndIds, InsertObjectSound DEF PutsIn
  <2> QED BY <2>1, <2>2, <2>3, <2>4 DEF d
<1>7. TakesOut(dm, dm)
  BY DEF TakesOut
<1> QED BY <1>1, <1>3, <1>4, <1>5, <1>6, <1>7 DEF ObjectNext

\* Manager e holds what d does; DIRTY flags may have been cleared.
Keeps(d, e) ==
  /\ Serials(e) = Serials(d)
  /\ \A s \in Serials(d) : e.pages[s] = d.pages[s] \/ e.pages[s] = [d.pages[s] EXCEPT !.dirty = FALSE]
  /\ e.next_page_id = d.next_page_id /\ e.allocation_tree = d.allocation_tree

\* Manager e is d with the pages of file f appended.
Opens(d, e, f) ==
  LET base == d.next_page_id - 1
      n == f.header.page_count
      loaded == (base + 1)..(base + n)
  IN /\ base \in Nat /\ n \in Nat /\ base + n <= MaxPages
     /\ e.next_page_id = d.next_page_id + n
     /\ Serials(e) = Serials(d) \cup loaded
     /\ \A s \in loaded : e.pages[s] = PageImage(f, s - base)
     /\ \A s \in Serials(d) \ loaded : e.pages[s] = d.pages[s]
     /\ e.allocation_tree =
          d.allocation_tree \cup {[page |-> s, point |-> e.pages[s].centroid] :
                                    s \in {t \in loaded : e.pages[t].object_count > 0}}

\* A page whose DIRTY flag is cleared is otherwise the same.
LEMMA CleanedPage ==
  ASSUME NEW p \in Page
  PROVE  LET q == [p EXCEPT !.dirty = FALSE]
         IN /\ q \in Page /\ q.object_count = p.object_count /\ q.objects = p.objects
            /\ q.centroid = p.centroid /\ q.extent = p.extent /\ q.page_id = p.page_id
            /\ q.track_id = p.track_id /\ q.checksum = p.checksum /\ q.dirty = FALSE
            /\ [q EXCEPT !.dirty = FALSE] = q
  BY DEF Page

\* What a manager that keeps its pages still has.
LEMMA KeptPages ==
  ASSUME NEW d, NEW e, Sound(d), Keeps(d, e)
  PROVE  /\ \A s \in Serials(d) :
              /\ e.pages[s].object_count = d.pages[s].object_count
              /\ e.pages[s].objects = d.pages[s].objects
              /\ e.pages[s].centroid = d.pages[s].centroid
              /\ e.pages[s].extent = d.pages[s].extent
              /\ e.pages[s].page_id = d.pages[s].page_id
              /\ e.pages[s].track_id = d.pages[s].track_id
              /\ e.pages[s].checksum = d.pages[s].checksum
         /\ NonEmpty(e) = NonEmpty(d) /\ PageEntries(e) = PageEntries(d)
         /\ LiveSlots(e) = LiveSlots(d)
         /\ \A a \in LiveSlots(d) : ObjectAt(e, a) = ObjectAt(d, a)
         /\ BlockTreeOf(e) = BlockTreeOf(d)
<1>1. ASSUME NEW s \in Serials(d)
      PROVE  /\ e.pages[s].object_count = d.pages[s].object_count
             /\ e.pages[s].objects = d.pages[s].objects
             /\ e.pages[s].centroid = d.pages[s].centroid
             /\ e.pages[s].extent = d.pages[s].extent
             /\ e.pages[s].page_id = d.pages[s].page_id
             /\ e.pages[s].track_id = d.pages[s].track_id
             /\ e.pages[s].checksum = d.pages[s].checksum
  <2>1. d.pages[s] \in Page
    BY SerialPages DEF Sound
  <2>2. e.pages[s] = d.pages[s] \/ e.pages[s] = [d.pages[s] EXCEPT !.dirty = FALSE]
    BY DEF Keeps
  <2> QED BY <2>1, <2>2, CleanedPage
<1>2. Serials(e) = Serials(d)
  BY DEF Keeps
<1>3. NonEmpty(e) = NonEmpty(d)
  BY <1>1, <1>2 DEF NonEmpty
<1>4. PageEntries(e) = PageEntries(d)
  <2>1. \A s \in NonEmpty(d) : e.pages[s].centroid = d.pages[s].centroid
    BY <1>1 DEF NonEmpty
  <2> QED BY <1>3, <2>1 DEF PageEntries
<1>5. \A s \in Serials(d) : Live(e.pages[s]) = Live(d.pages[s])
  BY <1>1 DEF Live
<1>6. LiveSlots(e) = LiveSlots(d)
  BY <1>2, <1>5 DEF LiveSlots
<1>7. \A a \in LiveSlots(d) : ObjectAt(e, a) = ObjectAt(d, a)
  BY <1>1, LiveSlotsFinite DEF ObjectAt
<1>8. BlockTreeOf(e) = BlockTreeOf(d)
  BY <1>6, <1>7 DEF BlockTreeOf
<1> QED BY <1>1, <1>3, <1>4, <1>6, <1>7, <1>8

\* Two calls that keep the pages, one after the other.
LEMMA KeepsTransitive ==
  ASSUME NEW d, NEW e, NEW f, Sound(d), Keeps(d, e), Keeps(e, f)
  PROVE  Keeps(d, f)
<1>1. ASSUME NEW s \in Serials(d)
      PROVE  f.pages[s] = d.pages[s] \/ f.pages[s] = [d.pages[s] EXCEPT !.dirty = FALSE]
  <2>1. d.pages[s] \in Page
    BY SerialPages DEF Sound
  <2>2. e.pages[s] = d.pages[s] \/ e.pages[s] = [d.pages[s] EXCEPT !.dirty = FALSE]
    BY DEF Keeps
  <2>3. f.pages[s] = e.pages[s] \/ f.pages[s] = [e.pages[s] EXCEPT !.dirty = FALSE]
    BY DEF Keeps
  <2> QED BY <2>1, <2>2, <2>3, CleanedPage
<1> QED BY <1>1 DEF Keeps

\* Sync, close and create keep the pages; open appends those of the file.
LEMMA FileCallsKeep ==
  ASSUME NEW d, Sound(d)
  PROVE  /\ Keeps(d, d)
         /\ Keeps(d, disk_manager_sync(d)) /\ Keeps(d, disk_manager_close(d))
         /\ \A p \in Path : Keeps(d, disk_manager_create(d, p))
<1>1. Keeps(d, d)
  BY DEF Keeps
<1>2. Keeps(d, disk_manager_sync(d))
  BY SyncSound DEF Keeps
<1>3. Keeps(d, disk_manager_close(d))
  BY CloseSound DEF Keeps
<1>4. ASSUME NEW p \in Path PROVE Keeps(d, disk_manager_create(d, p))
  <2> DEFINE a == disk_manager_close(d)
             e == disk_manager_create(d, p)
  <2>1. /\ e.pages = a.pages /\ e.allocation_tree = a.allocation_tree
        /\ e.next_page_id = a.next_page_id
    BY CreateSound
  <2>2. Keeps(a, e)
    BY <2>1 DEF Keeps, Serials
  <2> HIDE DEF a, e
  <2>3. Keeps(d, a)
    BY <1>3 DEF a
  <2>4. Keeps(d, e)
    BY <2>2, <2>3, KeepsTransitive
  <2> QED BY <2>4 DEF e
<1> QED BY <1>1, <1>2, <1>3, <1>4

\* An open closes the file, which keeps the pages, and appends.
LEMMA OpenOpens ==
  ASSUME NEW d, Sound(d), NEW p \in Path, NEW f, SoundFile(f), CanOpen(d, f)
  PROVE  /\ Keeps(d, disk_manager_close(d))
         /\ Opens(disk_manager_close(d), disk_manager_open(d, p, f), f)
<1>1. Keeps(d, disk_manager_close(d))
  BY FileCallsKeep
<1>2. disk_manager_close(d).next_page_id = d.next_page_id
  BY CloseSound
<1>3. Opens(disk_manager_close(d), disk_manager_open(d, p, f), f)
  BY <1>2, OpenSound DEF Opens
<1> QED BY <1>1, <1>3

\* A manager with the same pages, next_page_id and tree.
LEMMA SamePagesKeep ==
  ASSUME NEW d, NEW e, e.pages = d.pages, e.next_page_id = d.next_page_id,
         e.allocation_tree = d.allocation_tree
  PROVE  Keeps(d, e) /\ LiveSlots(e) = LiveSlots(d) /\ BlockTreeOf(e) = BlockTreeOf(d)
  BY DEF Keeps, Serials, LiveSlots, BlockTreeOf, ObjectAt

\* The other calls, by what they do to the manager and to the trees.
BlockTreeCurrent == LiveSlots(dm) # {} => block_tree = BlockTreeOf(dm)

PageTreeCurrent == LiveSlots(dm) # {} => page_tree = build_page_quadtree(dm, bounds)

\* The pages stay; a tree stays as it is, or is built anew.
KeepingStep ==
  /\ Keeps(dm, dm')
  /\ \/ UNCHANGED <<is_built, block_tree, page_tree, bounds>>
     \/ UNCHANGED <<is_built, block_tree>> /\ PageTreeCurrent'
     \/ BlockTreeCurrent' /\ PageTreeCurrent'

\* The open file is closed, the pages of a file are appended, and the trees
\* built.
LoadingStep ==
  /\ BlockTreeCurrent' /\ PageTreeCurrent'
  /\ \E p, a, b :
       /\ p \in Path /\ disk'[p] # Null /\ SoundFile(disk'[p])
       /\ Sound(a) /\ Sound(b)
       /\ Keeps(dm, a) /\ Opens(a, b, disk'[p]) /\ Keeps(b, dm')

\* The index is new.
ResettingStep == dm' = disk_manager_init /\ is_built' = FALSE

\* Every page and track is freed, and nothing else of the manager.
ClearingStep ==
  /\ Serials(dm') = {} /\ Tracks(dm') = {} /\ dm'.next_page_id = dm.next_page_id
  /\ dm'.allocation_tree = dm.allocation_tree /\ is_built' = FALSE

\* The quadtree of the same pages and bounds.
LEMMA SameQuadtree ==
  ASSUME NEW d, NEW e, NEW root, Serials(e) = Serials(d), NonEmpty(e) = NonEmpty(d),
         \A s \in NonEmpty(d) : e.pages[s].extent = d.pages[s].extent
  PROVE  build_page_quadtree(e, root) = build_page_quadtree(d, root)
<1>1. PageExtents(e) = PageExtents(d)
  BY DEF PageExtents
<1>2. Kept(root, PageExtents(d)) \subseteq NonEmpty(d)
  BY DEF Kept, Accepted, PageExtents
<1> DEFINE kept == Kept(root, PageExtents(d))
<1>3. Kept(root, PageExtents(e)) = kept
  BY <1>1
<1>4. kept \subseteq NonEmpty(d)
  BY <1>2
<1> HIDE DEF kept
<1> DEFINE after == {[page |-> s, extent |-> e.pages[s].extent] : s \in kept}
           before == {[page |-> s, extent |-> d.pages[s].extent] : s \in kept}
<1>5. after = before
  BY <1>4
<1>6. build_page_quadtree(d, root) = IF Serials(d) = {} THEN Null ELSE [bounds |-> root, items |-> before]
  BY DEF build_page_quadtree, kept
<1>7. build_page_quadtree(e, root) = IF Serials(e) = {} THEN Null ELSE [bounds |-> root, items |-> after]
  BY <1>3, Zenon DEF build_page_quadtree
<1> HIDE DEF before, after
<1> QED BY <1>5, <1>6, <1>7

\* A manager that keeps its pages has the same quadtree.
LEMMA KeptQuadtree ==
  ASSUME NEW d, NEW e, Sound(d), Keeps(d, e), NEW root
  PROVE  build_page_quadtree(e, root) = build_page_quadtree(d, root)
<1>1. NonEmpty(e) = NonEmpty(d) /\ Serials(e) = Serials(d)
  BY KeptPages DEF Keeps
<1>2. \A s \in NonEmpty(d) : e.pages[s].extent = d.pages[s].extent
  BY KeptPages DEF NonEmpty
<1> QED BY <1>1, <1>2, SameQuadtree

\* Building keeps the pages, and leaves trees of them.
LEMMA BuildShape ==
  ASSUME NEW d, Sound(d), NEW b \in MBR, IndexTypes, BuildFrom(d, b), bounds' = b
  PROVE  Keeps(d, dm') /\ BlockTreeCurrent' /\ PageTreeCurrent'
<1>1. /\ dm'.pages = d.pages /\ dm'.next_page_id = d.next_page_id
      /\ dm'.allocation_tree = d.allocation_tree
      /\ LiveSlots(d) # {} => block_tree' = BlockTreeOf(d) /\ page_tree' = build_page_quadtree(d, b)
  BY BuildFromSound
<1>2. Keeps(d, dm') /\ LiveSlots(dm') = LiveSlots(d) /\ BlockTreeOf(dm') = BlockTreeOf(d)
  BY <1>1, SamePagesKeep
<1>3. build_page_quadtree(dm', b) = build_page_quadtree(d, b)
  BY <1>2, KeptQuadtree
<1>4. LiveSlots(dm') # {} => block_tree' = BlockTreeOf(dm') /\ page_tree' = build_page_quadtree(dm', bounds')
  BY <1>1, <1>2, <1>3
<1>5. LiveSlots(dm)' = LiveSlots(dm') /\ BlockTreeOf(dm)' = BlockTreeOf(dm')
  BY DEF LiveSlots, BlockTreeOf, ObjectAt, Live, Serials
<1>6. build_page_quadtree(dm, bounds)' = build_page_quadtree(dm', bounds')
  OBVIOUS
<1>7. BlockTreeCurrent'
  BY <1>4, <1>5 DEF BlockTreeCurrent
<1>8. PageTreeCurrent'
  BY <1>4, <1>5, <1>6 DEF PageTreeCurrent
<1> QED BY <1>2, <1>7, <1>8

\* A load, by its shape.
LEMMA LoadShape ==
  ASSUME IInv, NEW p \in Path, UrbisLoad(p) \/ Reload(p)
  PROVE  LoadingStep
<1>1. Sound(dm) /\ DiskSound /\ IndexTypes
  BY PartsFromInv
<1>2. dm.is_open => dm.path \in Path /\ disk[dm.path] # Null
  BY DEF IInv, OpenFileExists
<1>3. PICK fs : /\ \A q \in Path : fs[q] # Null => SoundFile(fs[q])
                /\ CanOpen(dm, fs[p])
                /\ BuildFrom(disk_manager_open(dm, p, fs[p]), fs[p].header.bounds)
                /\ disk' = fs /\ bounds' = fs[p].header.bounds
  <2>1. CASE UrbisLoad(p)
    <3>1. /\ CanOpen(dm, disk[p])
          /\ BuildFrom(disk_manager_open(dm, p, disk[p]), disk[p].header.bounds)
          /\ disk' = disk /\ bounds' = disk[p].header.bounds
      BY <2>1 DEF UrbisLoad
    <3> QED BY <1>1, <3>1, Zenon DEF DiskSound
  <2>2. CASE Reload(p)
    <3> DEFINE gs == ClosedFiles(dm, disk)
    <3>1. /\ CanOpen(dm, gs[p])
          /\ BuildFrom(disk_manager_open(dm, p, gs[p]), gs[p].header.bounds)
          /\ disk' = gs /\ bounds' = gs[p].header.bounds
      BY <2>2 DEF Reload
    <3>2. \A q \in Path : gs[q] # Null => SoundFile(gs[q])
      BY <1>1, <1>2, ClosedFilesSound
    <3> HIDE DEF gs
    <3> QED BY <3>1, <3>2, Zenon
  <2> QED BY <2>1, <2>2
<1>4. fs[p] # Null /\ SoundFile(fs[p]) /\ fs[p].header.bounds \in MBR
  BY <1>3 DEF CanOpen, SoundFile, File, Header
<1> DEFINE a == disk_manager_close(dm)
           b == disk_manager_open(dm, p, fs[p])
<1>5. Sound(a) /\ Sound(b) /\ Keeps(dm, a) /\ Opens(a, b, fs[p])
  BY <1>1, <1>3, <1>4, CloseSound, OpenSound, OpenOpens
<1>6. BuildFrom(b, fs[p].header.bounds) /\ bounds' = fs[p].header.bounds
  BY <1>3
<1> HIDE DEF a, b
<1>7. Keeps(b, dm') /\ BlockTreeCurrent' /\ PageTreeCurrent'
  BY <1>1, <1>4, <1>5, <1>6, BuildShape
<1>8. disk'[p] # Null /\ SoundFile(disk'[p]) /\ Opens(a, b, disk'[p])
  BY <1>3, <1>4, <1>5
<1> QED BY <1>5, <1>7, <1>8 DEF LoadingStep

\* A call of urbis.h has one of four shapes.
LEMMA ApiShape ==
  ASSUME IInv, [ApiNext]_vars
  PROVE  ObjectNext \/ KeepingStep \/ LoadingStep \/ ResettingStep
<1>1. Sound(dm) /\ DiskSound /\ IndexTypes
  BY PartsFromInv
<1>2. CASE Build
  <2>1. BuildFrom(dm, bounds) /\ bounds \in MBR /\ bounds' = bounds
    BY <1>1, <1>2 DEF Build, IndexTypes
  <2> QED BY <1>1, <2>1, BuildShape DEF KeepingStep
<1>3. Keeps(dm, dm)
  BY <1>1, FileCallsKeep
<1>4. CASE FindAdjacentPages
  <2>1. page_tree' = build_page_quadtree(dm, bounds) /\ UNCHANGED <<dm, bounds, is_built, block_tree>>
    BY <1>4 DEF FindAdjacentPages
  <2>2. build_page_quadtree(dm, bounds)' = build_page_quadtree(dm', bounds')
    OBVIOUS
  <2>3. PageTreeCurrent'
    BY <2>1, <2>2 DEF PageTreeCurrent
  <2> QED BY <1>3, <2>1, <2>3 DEF KeepingStep
<1>5. CASE UNCHANGED vars
  BY <1>3, <1>5 DEF KeepingStep, vars
<1>6. ASSUME NEW p \in Path, Save(p) PROVE KeepingStep
  <2> DEFINE c == disk_manager_create(dm, p)
  <2>1. dm' = disk_manager_sync(c) /\ UNCHANGED <<is_built, block_tree, page_tree, bounds>>
    BY <1>6 DEF Save
  <2>2. Sound(c) /\ Keeps(dm, c)
    BY <1>1, CreateSound, FileCallsKeep
  <2> HIDE DEF c
  <2>3. Keeps(c, dm')
    BY <2>1, <2>2, FileCallsKeep
  <2>4. Keeps(dm, dm')
    BY <1>1, <2>2, <2>3, KeepsTransitive
  <2> QED BY <2>1, <2>4 DEF KeepingStep
<1>7. CASE Sync
  <2>1. dm' = disk_manager_sync(dm) /\ UNCHANGED <<is_built, block_tree, page_tree, bounds>>
    BY <1>7 DEF Sync
  <2> QED BY <1>1, <2>1, FileCallsKeep DEF KeepingStep
<1>8. CASE Restart \/ Crash
  BY <1>8 DEF Restart, Crash, InitIndex, ResettingStep
<1> QED BY <1>2, <1>4, <1>5, <1>6, <1>7, <1>8, LoadShape DEF ApiNext, SessionNext, FileNext

\* Every step has one of five shapes.
LEMMA NextShape ==
  ASSUME IInv, [Next]_vars
  PROVE  ObjectNext \/ KeepingStep \/ LoadingStep \/ ResettingStep \/ ClearingStep
<1>1. Sound(dm)
  BY PartsFromInv
<1>2. ASSUME NEW p \in Path, ReloadFails(p) PROVE KeepingStep
  <2>1. dm' = disk_manager_close(dm) /\ UNCHANGED <<is_built, block_tree, page_tree, bounds>>
    BY <1>2 DEF ReloadFails
  <2> QED BY <1>1, <2>1, FileCallsKeep DEF KeepingStep
<1>3. CASE Clear
  <2> DEFINE ps == [s \in 1..MaxPages |-> Null]
             ts == [t \in 1..MaxTracks |-> Null]
  <2>1. dm' = [dm EXCEPT !.pages = ps, !.tracks = ts] /\ is_built' = FALSE
    BY <1>3 DEF Clear
  <2>2. dm'.pages = ps /\ dm'.tracks = ts /\ dm'.next_page_id = dm.next_page_id
        /\ dm'.allocation_tree = dm.allocation_tree
    BY <1>1, <2>1 DEF Sound, Manager
  <2>3. Serials(dm') = {} /\ Tracks(dm') = {}
    BY <2>2 DEF Serials, Tracks
  <2> QED BY <2>1, <2>2, <2>3 DEF ClearingStep
<1>4. CASE [ApiNext]_vars
  BY <1>4, ApiShape
<1> QED BY <1>2, <1>3, <1>4, LoadShape DEF Next

-----------------------------------------------------------------------------
\* Allocation.

\* Serials and entries of the allocation tree are below next_page_id, and
\* the entries of pages that exist are those of the pages with objects.
Allocation(d) ==
  /\ \A s \in Serials(d) : s < d.next_page_id
  /\ \A n \in d.allocation_tree : n.page < d.next_page_id
  /\ {n \in d.allocation_tree : n.page \in Serials(d)} = PageEntries(d)

\* After a rebuild only the bound on the serials is left to show.
LEMMA RebuiltAllocation ==
  ASSUME NEW d, d.allocation_tree = PageEntries(d), \A s \in Serials(d) : s < d.next_page_id
  PROVE  Allocation(d)
<1>1. \A n \in PageEntries(d) : n.page \in Serials(d)
  BY DEF PageEntries, NonEmpty
<1> QED BY <1>1 DEF Allocation

\* Manager e has page p at s and the pages of d elsewhere.
HasPage(d, e, s, p) ==
  /\ Serials(e) = Serials(d) \cup {s} /\ e.pages[s] = p
  /\ \A t \in Serials(d) : t # s => e.pages[t] = d.pages[t]

\* Writing one page leaves the others.
LEMMA ReplacedSerials ==
  ASSUME NEW d, NEW e, NEW s, NEW p, s \in 1..MaxPages, p \in Page,
         e.pages = [d.pages EXCEPT ![s] = p], Sound(d)
  PROVE  HasPage(d, e, s, p)
<1>1. d.pages \in [1..MaxPages -> Page \cup {Null}] /\ p # Null
  BY NullAssumption DEF Sound, Manager
<1>2. e.pages[s] = p /\ \A t \in 1..MaxPages : t # s => e.pages[t] = d.pages[t]
  BY <1>1
<1> QED BY <1>1, <1>2 DEF Serials, HasPage

\* The pages after an insert.
LEMMA InsertsPages ==
  ASSUME NEW d, Sound(d), NEW e, NEW o \in SpatialObject, NEW s, NEW q, Inserts(d, e, o, s, q)
  PROVE  /\ Inserted(q, o) \in Page /\ s \in 1..MaxPages
         /\ Serials(e) = Serials(d) \cup {s} /\ e.pages[s] = Inserted(q, o)
         /\ \A t \in Serials(d) : t # s => e.pages[t] = d.pages[t]
         /\ e.next_page_id >= d.next_page_id
         /\ s < e.next_page_id \/ s \in Serials(d)
<1>1. /\ s \in 1..MaxPages /\ q \in Page /\ ~ page_is_full(q)
      /\ e.pages = [d.pages EXCEPT ![s] = Inserted(q, o)]
  BY DEF Inserts
<1>2. Inserted(q, o) \in Page
  BY <1>1, InsertedPage
<1>3. d.next_page_id \in Nat
  BY DEF Sound, Manager
<1>4. e.next_page_id >= d.next_page_id /\ (s < e.next_page_id \/ s \in Serials(d))
  BY <1>3 DEF Inserts, OntoListedPage, OntoNewPage
<1> DEFINE p == Inserted(q, o)
<1> HIDE DEF p
<1>5. HasPage(d, e, s, p)
  <2>1. e.pages = [d.pages EXCEPT ![s] = p] /\ p \in Page
    BY <1>1, <1>2 DEF p
  <2> QED BY <1>1, <2>1, ReplacedSerials
<1> QED BY <1>1, <1>2, <1>4, <1>5 DEF p, HasPage

\* The pages after a remove.
LEMMA RemovesPages ==
  ASSUME NEW d, Sound(d), NEW e, NEW id, NEW s, Removes(d, e, id, s)
  PROVE  /\ page_remove_object(d.pages[s], id) \in Page /\ d.pages[s] \in Page
         /\ s \in Serials(d) /\ SlotsOf(d.pages[s], id) # {}
         /\ Serials(e) = Serials(d) /\ e.pages[s] = page_remove_object(d.pages[s], id)
         /\ \A t \in Serials(d) : t # s => e.pages[t] = d.pages[t]
         /\ e.next_page_id = d.next_page_id
<1>1. /\ s \in Serials(d) /\ SlotsOf(d.pages[s], id) # {}
      /\ e.pages = [d.pages EXCEPT ![s] = page_remove_object(d.pages[s], id)]
      /\ e.next_page_id = d.next_page_id
  BY DEF Removes
<1>2. s \in 1..MaxPages /\ d.pages[s] \in Page
  BY <1>1, SerialPages DEF Sound
<1>3. page_remove_object(d.pages[s], id) \in Page
  BY <1>1, <1>2, PageRemoves
<1>4. HasPage(d, e, s, page_remove_object(d.pages[s], id))
  BY <1>1, <1>2, <1>3, ReplacedSerials
<1> QED BY <1>1, <1>2, <1>3, <1>4 DEF HasPage

\* Insert and remove rebuild the tree.
LEMMA InsertsAllocation ==
  ASSUME NEW d, Sound(d), Allocation(d), NEW e, NEW o \in SpatialObject, NEW s, NEW q, Inserts(d, e, o, s, q)
  PROVE  Allocation(e)
<1>1. /\ Serials(e) = Serials(d) \cup {s} /\ e.next_page_id >= d.next_page_id
      /\ s < e.next_page_id \/ s \in Serials(d)
  BY InsertsPages
<1>2. e.next_page_id \in Nat /\ d.next_page_id \in Nat
  BY DEF Inserts, OntoListedPage, OntoNewPage, Sound, Manager
<1>3. \A t \in Serials(e) : t < e.next_page_id
  BY <1>1, <1>2, BoundAssumption DEF Allocation, Serials
<1> QED BY <1>3, RebuiltAllocation DEF Inserts

\* So does a remove.
LEMMA RemovesAllocation ==
  ASSUME NEW d, Sound(d), Allocation(d), NEW e, NEW id, NEW s, Removes(d, e, id, s)
  PROVE  Allocation(e)
<1>1. Serials(e) = Serials(d) /\ e.next_page_id = d.next_page_id
  BY RemovesPages
<1>2. \A t \in Serials(e) : t < e.next_page_id
  BY <1>1 DEF Allocation
<1> QED BY <1>2, RebuiltAllocation DEF Removes

\* The tree is as exact as before where pages and tree are kept.
LEMMA KeepsAllocation ==
  ASSUME NEW d, NEW e, Sound(d), Allocation(d), Keeps(d, e)
  PROVE  Allocation(e)
<1>1. PageEntries(e) = PageEntries(d)
  BY KeptPages
<1> QED BY <1>1 DEF Keeps, Allocation

\* The pages a load appends are numbered past every entry of the tree.
LEMMA OpensAllocation ==
  ASSUME NEW d, NEW e, NEW f, Sound(d), Sound(e), Allocation(d), Opens(d, e, f)
  PROVE  Allocation(e)
<1> DEFINE base == d.next_page_id - 1
           n == f.header.page_count
           loaded == (base + 1)..(base + n)
           filled == {t \in loaded : e.pages[t].object_count > 0}
           new == {[page |-> s, point |-> e.pages[s].centroid] : s \in filled}
<1>1. /\ base \in Nat /\ n \in Nat /\ e.next_page_id = d.next_page_id + n
      /\ Serials(e) = Serials(d) \cup loaded
      /\ \A s \in Serials(d) \ loaded : e.pages[s] = d.pages[s]
      /\ e.allocation_tree = d.allocation_tree \cup new
  BY DEF Opens
<1>2. d.next_page_id \in Nat /\ d.allocation_tree \in SUBSET [page : 1..MaxPages, point : Seq(Point)]
  BY DEF Sound, Manager
<1>3. \A s \in Serials(d) : s \in Nat /\ s < d.next_page_id /\ s \notin loaded
  BY <1>1, <1>2, BoundAssumption DEF Allocation, Serials
<1>4. \A m \in d.allocation_tree : m.page \in Nat /\ m.page < d.next_page_id /\ m.page \notin loaded
  BY <1>1, <1>2, BoundAssumption DEF Allocation
<1>5. \A s \in loaded : s < e.next_page_id
  BY <1>1, <1>2
<1>6. \A m \in new : m.page \in loaded
  OBVIOUS
<1>7. \A s \in Serials(e) : s < e.next_page_id
  BY <1>1, <1>2, <1>3, <1>5
<1>8. \A m \in e.allocation_tree : m.page < e.next_page_id
  BY <1>1, <1>2, <1>4, <1>5, <1>6
<1>9. PageEntries(e) = PageEntries(d) \cup new
  <2> HIDE DEF loaded
  <2>1. NonEmpty(e) = NonEmpty(d) \cup filled
    BY <1>1, <1>3 DEF NonEmpty
  <2>2. \A s \in NonEmpty(d) : e.pages[s].centroid = d.pages[s].centroid
    BY <1>1, <1>3 DEF NonEmpty
  <2> HIDE DEF filled
  <2> QED BY <2>1, <2>2 DEF PageEntries
<1>10. {m \in e.allocation_tree : m.page \in Serials(e)}
         = {m \in d.allocation_tree : m.page \in Serials(d)} \cup new
  <2> HIDE DEF new, loaded
  <2> QED BY <1>1, <1>4, <1>6
<1> QED BY <1>7, <1>8, <1>9, <1>10 DEF Allocation

\* A new manager has an empty tree.
LEMMA InitAllocation == Allocation(disk_manager_init)
<1>1. Serials(disk_manager_init) = {} /\ disk_manager_init.allocation_tree = {}
  BY DEF disk_manager_init, Serials
<1> QED BY <1>1 DEF Allocation, PageEntries, NonEmpty

\* And an insert into a freed page.
LEMMA MissesAllocation ==
  ASSUME NEW d, Allocation(d), NEW e, Misses(d, e)
  PROVE  Allocation(e)
<1>1. Serials(e) = Serials(d) /\ e.next_page_id = d.next_page_id
  BY DEF Misses, Serials
<1>2. \A t \in Serials(e) : t < e.next_page_id
  BY <1>1 DEF Allocation
<1> QED BY <1>2, RebuiltAllocation DEF Misses

\* The calls that change objects rebuild it, an update twice.
LEMMA ObjectAllocation ==
  ASSUME NEW d, Sound(dm), Sound(d), Allocation(dm), TakesOut(dm, d), PutsIn(d, dm')
  PROVE  Allocation(d) /\ Allocation(dm')
<1>1. Allocation(d)
  BY RemovesAllocation DEF TakesOut
<1>2. Allocation(dm')
  BY <1>1, InsertsAllocation, MissesAllocation DEF PutsIn
<1> QED BY <1>1, <1>2

\* Every call keeps the allocation tree exact.
LEMMA NextAllocation ==
  ASSUME IInv, Allocation(dm), [Next]_vars
  PROVE  Allocation(dm')
<1>1. Sound(dm)
  BY PartsFromInv
<1>2. CASE ObjectNext
  BY <1>1, <1>2, ObjectShape, ObjectAllocation
<1>3. CASE KeepingStep
  BY <1>1, <1>3, KeepsAllocation DEF KeepingStep
<1>4. CASE LoadingStep
  BY <1>1, <1>4, KeepsAllocation, OpensAllocation DEF LoadingStep
<1>5. CASE ResettingStep
  BY <1>5, InitAllocation DEF ResettingStep
<1>6. CASE ClearingStep
  BY <1>6 DEF ClearingStep, Allocation, PageEntries, NonEmpty
<1> QED BY <1>2, <1>3, <1>4, <1>5, <1>6, NextShape

\* A rebuilt tree has no entry to a freed page, and one without such entries
\* gets none but by Clear.
LEMMA RebuiltNoDangling ==
  ASSUME NEW d, d.allocation_tree = PageEntries(d)
  PROVE  NoDanglingPages(d)
  BY DEF NoDanglingPages, PageEntries, NonEmpty

\* Where pages and tree are kept.
LEMMA KeepsNoDangling ==
  ASSUME NEW d, NEW e, NoDanglingPages(d), Keeps(d, e)
  PROVE  NoDanglingPages(e)
  BY DEF NoDanglingPages, Keeps

\* And where pages are appended.
LEMMA OpensNoDangling ==
  ASSUME NEW d, NEW e, NEW f, NoDanglingPages(d), Opens(d, e, f)
  PROVE  NoDanglingPages(e)
<1> DEFINE loaded == (d.next_page_id - 1 + 1)..(d.next_page_id - 1 + f.header.page_count)
           new == {[page |-> s, point |-> e.pages[s].centroid] : s \in {t \in loaded : e.pages[t].object_count > 0}}
<1>1. Serials(e) = Serials(d) \cup loaded /\ e.allocation_tree = d.allocation_tree \cup new
  BY DEF Opens
<1>2. \A n \in new : n.page \in loaded
  OBVIOUS
<1> HIDE DEF new, loaded
<1> QED BY <1>1, <1>2 DEF NoDanglingPages

\* Between the two halves of an update too.
LEMMA ObjectNoDangling ==
  ASSUME NEW d, NoDanglingPages(dm), TakesOut(dm, d), PutsIn(d, dm')
  PROVE  NoDanglingPages(d) /\ NoDanglingPages(dm')
<1>1. NoDanglingPages(d)
  BY RebuiltNoDangling DEF TakesOut, Removes
<1>2. NoDanglingPages(dm')
  BY <1>1, RebuiltNoDangling DEF PutsIn, Inserts, Misses
<1> QED BY <1>1, <1>2

\* No call of urbis.h leaves an entry to a freed page.
LEMMA ApiNoDangling ==
  ASSUME IInv, NoDanglingPages(dm), [ApiNext]_vars
  PROVE  NoDanglingPages(dm')
<1>1. CASE ObjectNext
  BY <1>1, ObjectShape, ObjectNoDangling
<1>2. CASE KeepingStep
  BY <1>2, KeepsNoDangling DEF KeepingStep
<1>3. CASE LoadingStep
  BY <1>3, KeepsNoDangling, OpensNoDangling DEF LoadingStep
<1>4. CASE ResettingStep
  BY <1>4 DEF ResettingStep, NoDanglingPages, disk_manager_init
<1> QED BY <1>1, <1>2, <1>3, <1>4, ApiShape

\* What a step does to the pages that are empty.
EmptyStay(d, e) ==
  \A s \in Serials(d) \cap Serials(e) : d.pages[s].object_count = 0 => e.pages[s].object_count = 0

\* A remove leaves the page it takes an object from with one object less, and
\* an insert goes to a page the tree lists, which has objects, or to a new one.
LEMMA RemovesFromNonEmpty ==
  ASSUME NEW d, Sound(d), NEW e, NEW id, NEW s, Removes(d, e, id, s)
  PROVE  s \in NonEmpty(d) /\ EmptyStay(d, e) /\ Serials(e) = Serials(d)
<1>1. /\ d.pages[s] \in Page /\ s \in Serials(d) /\ SlotsOf(d.pages[s], id) # {}
      /\ Serials(e) = Serials(d)
      /\ \A t \in Serials(d) : t # s => e.pages[t] = d.pages[t]
  BY RemovesPages
<1>2. d.pages[s].object_count > 0
  BY <1>1, PageAssumption DEF SlotsOf, Live, Slot, Page
<1> QED BY <1>1, <1>2 DEF NonEmpty, EmptyStay

\* The page an insert goes to had objects, or did not exist.
LEMMA InsertsOnNonEmpty ==
  ASSUME NEW d, Sound(d), Allocation(d), NoDanglingPages(d), NEW e,
         NEW o \in SpatialObject, NEW s, NEW q, Inserts(d, e, o, s, q)
  PROVE  /\ s \in NonEmpty(d) \/ (s = d.next_page_id /\ s \notin Serials(d))
         /\ EmptyStay(d, e)
<1>1. s \in NonEmpty(d) \/ (s = d.next_page_id /\ s \notin Serials(d))
  <2>1. CASE OntoListedPage(d, e, s, q)
    <3>1. s \in Serials(d) /\ \E n \in d.allocation_tree : n.page = s
      BY <2>1 DEF OntoListedPage, Reached
    <3>2. \E n \in PageEntries(d) : n.page = s
      BY <3>1 DEF Allocation
    <3> QED BY <3>2 DEF PageEntries
  <2>2. CASE OntoNewPage(d, e, s, q, o.centroid)
    <3>1. s = d.next_page_id /\ d.next_page_id \in Nat
      BY <2>2 DEF OntoNewPage, Sound, Manager
    <3> QED BY <3>1 DEF Allocation
  <2> QED BY <2>1, <2>2 DEF Inserts
<1>2. /\ Serials(e) = Serials(d) \cup {s}
      /\ \A t \in Serials(d) : t # s => e.pages[t] = d.pages[t]
  BY InsertsPages
<1> QED BY <1>1, <1>2 DEF EmptyStay, NonEmpty

\* An empty page is left alone by every call of urbis.h.
LEMMA ApiEmptyStay ==
  ASSUME IInv, Allocation(dm), NoDanglingPages(dm), [ApiNext]_vars
  PROVE  EmptyStay(dm, dm')
<1>1. Sound(dm)
  BY PartsFromInv
<1>2. CASE ObjectNext
  <2>1. PICK d : Sound(d) /\ TakesOut(dm, d) /\ PutsIn(d, dm')
    BY <1>2, ObjectShape
  <2>2. Allocation(d) /\ NoDanglingPages(d)
    BY <1>1, <2>1, ObjectAllocation, ObjectNoDangling
  <2>3. EmptyStay(dm, d) /\ Serials(d) = Serials(dm)
    <3>1. CASE d = dm
      BY <3>1 DEF EmptyStay
    <3>2. CASE \E id \in Ids : \E s : Removes(dm, d, id, s)
      BY <1>1, <3>2, RemovesFromNonEmpty
    <3> QED BY <2>1, <3>1, <3>2 DEF TakesOut
  <2>4. EmptyStay(d, dm')
    <3>1. CASE dm' = d
      BY <3>1 DEF EmptyStay
    <3>2. CASE \E o \in SpatialObject : \E s, q : Inserts(d, dm', o, s, q)
      BY <2>1, <2>2, <3>2, InsertsOnNonEmpty
    <3> QED BY <2>1, <2>2, <3>1, <3>2 DEF PutsIn, Misses
  <2> QED BY <2>3, <2>4 DEF EmptyStay
<1>3. CASE KeepingStep
  BY <1>1, <1>3, KeptPages DEF KeepingStep, EmptyStay
<1>4. CASE LoadingStep
  <2>1. PICK p, a, b : /\ Sound(a) /\ Sound(b) /\ Keeps(dm, a)
                       /\ Opens(a, b, disk'[p]) /\ Keeps(b, dm')
    BY <1>4 DEF LoadingStep
  <2>2. /\ Serials(a) = Serials(dm) /\ Serials(dm') = Serials(b)
        /\ \A s \in Serials(dm) : a.pages[s].object_count = dm.pages[s].object_count
        /\ \A s \in Serials(b) : dm'.pages[s].object_count = b.pages[s].object_count
    BY <1>1, <2>1, KeptPages DEF Keeps
  <2>3. \A s \in Serials(a) : s \in Serials(b) /\ b.pages[s] = a.pages[s]
    <3> DEFINE loaded == (a.next_page_id - 1 + 1)..(a.next_page_id - 1 + disk'[p].header.page_count)
    <3>1. /\ Serials(b) = Serials(a) \cup loaded
          /\ \A s \in Serials(a) \ loaded : b.pages[s] = a.pages[s]
      BY <2>1 DEF Opens
    <3>2. Allocation(a)
      BY <1>1, <2>1, KeepsAllocation
    <3>3. a.next_page_id \in Nat
      BY <2>1 DEF Sound, Manager
    <3>4. \A s \in Serials(a) : s \in Nat /\ s < a.next_page_id
      BY <3>2, BoundAssumption DEF Allocation, Serials
    <3>5. \A s \in loaded : s >= a.next_page_id
      BY <3>3
    <3> QED BY <3>1, <3>3, <3>4, <3>5
  <2> QED BY <2>2, <2>3 DEF EmptyStay
<1>5. CASE ResettingStep
  <2>1. Serials(dm') = {}
    BY <1>5 DEF ResettingStep, disk_manager_init, Serials
  <2> QED BY <2>1 DEF EmptyStay
<1> QED BY <1>2, <1>3, <1>4, <1>5, ApiShape

\* The allocation tree is exact in every reachable state.
LEMMA AllocationHolds == Spec => []Allocation(dm)
<1>1. Init => Allocation(dm)
  BY InitAllocation DEF Init, InitIndex
<1>2. IInv /\ Allocation(dm) /\ [Next]_vars => Allocation(dm)'
  <2> SUFFICES ASSUME IInv, Allocation(dm), [Next]_vars PROVE Allocation(dm)'
    OBVIOUS
  <2>1. Allocation(dm')
    BY NextAllocation
  <2> QED BY <2>1 DEF Allocation, PageEntries, NonEmpty, Serials
<1> QED BY <1>1, <1>2, InvHolds, PTL DEF Spec

\* A history of calls of urbis.h is one of all calls.
LEMMA ApiIsSpec == ApiSpec => Spec
<1>1. [ApiNext]_vars => [Next]_vars
  BY DEF Next
<1> QED BY <1>1, PTL DEF ApiSpec, Spec

\* In such a history no entry points to a freed page.
LEMMA NoDanglingHolds == ApiSpec => []NoDanglingPages(dm)
<1>1. Init => NoDanglingPages(dm)
  BY DEF Init, InitIndex, disk_manager_init, NoDanglingPages
<1>2. IInv /\ NoDanglingPages(dm) /\ [ApiNext]_vars => NoDanglingPages(dm)'
  <2> SUFFICES ASSUME IInv, NoDanglingPages(dm), [ApiNext]_vars PROVE NoDanglingPages(dm)'
    OBVIOUS
  <2>1. NoDanglingPages(dm')
    BY ApiNoDangling
  <2> QED BY <2>1 DEF NoDanglingPages, Serials
<1> QED BY <1>1, <1>2, ApiIsSpec, InvHolds, PTL DEF ApiSpec

(***************************************************************************)
(* Between calls of urbis.h the allocation tree is exactly the list of the *)
(* pages with objects, at their centroids: no entry is missing, none       *)
(* points to an emptied page or is out of date, and none points to a page  *)
(* that does not exist, which get_page_for_insert would follow             *)
(* (disk_manager_rebuild_allocation_tree, disk_manager_open).  After       *)
(* spatial_index_clear it is not: InsertAddsOneObjectHolds.                *)
(***************************************************************************)
THEOREM AllocationTreeExactHolds == ApiSpec => []AllocationTreeExact
<1>1. Allocation(dm) /\ NoDanglingPages(dm) => AllocationTreeExact
  BY DEF Allocation, NoDanglingPages, AllocationTreeExact, TreeExact, PageEntries
<1> QED BY <1>1, AllocationHolds, NoDanglingHolds, ApiIsSpec, PTL

(***************************************************************************)
(* A page that lost its last object never gets one again, so inserts and   *)
(* removes in turn use up the pool (get_page_for_insert).                  *)
(***************************************************************************)
THEOREM EmptyPagesStayEmptyHolds == ApiSpec => EmptyPagesStayEmpty
<1>1. IInv /\ Allocation(dm) /\ NoDanglingPages(dm) /\ [ApiNext]_vars
        => [\A s \in Serials(dm) \cap Serials(dm') :
              dm.pages[s].object_count = 0 /\ dm'.next_page_id >= dm.next_page_id
                => dm'.pages[s].object_count = 0]_vars
  BY ApiEmptyStay DEF EmptyStay
<1> QED BY <1>1, InvHolds, AllocationHolds, NoDanglingHolds, ApiIsSpec, PTL DEF ApiSpec, EmptyPagesStayEmpty

-----------------------------------------------------------------------------
\* The block tree.

\* A call leaves the index unbuilt, or the block tree current.
LEMMA NextBlockTree ==
  ASSUME IInv, [Next]_vars, BuiltBlockTreeExact
  PROVE  BuiltBlockTreeExact'
<1>1. Sound(dm)
  BY PartsFromInv
<1>2. CASE ObjectNext
  BY <1>2, ObjectShape DEF BuiltBlockTreeExact
<1>3. CASE KeepingStep
  <2>1. CASE UNCHANGED <<is_built, block_tree>>
    <3>1. LiveSlots(dm') = LiveSlots(dm) /\ BlockTreeOf(dm') = BlockTreeOf(dm)
      BY <1>1, <1>3, KeptPages DEF KeepingStep
    <3>2. LiveSlots(dm)' = LiveSlots(dm') /\ BlockTreeOf(dm)' = BlockTreeOf(dm')
      BY DEF LiveSlots, BlockTreeOf, ObjectAt, Live, Serials
    <3> QED BY <2>1, <3>1, <3>2 DEF BuiltBlockTreeExact
  <2>2. CASE BlockTreeCurrent'
    BY <2>2 DEF BlockTreeCurrent, BuiltBlockTreeExact
  <2> QED BY <1>3, <2>1, <2>2 DEF KeepingStep
<1>4. CASE LoadingStep
  BY <1>4 DEF LoadingStep, BlockTreeCurrent, BuiltBlockTreeExact
<1>5. CASE ResettingStep \/ ClearingStep
  BY <1>5 DEF ResettingStep, ClearingStep, BuiltBlockTreeExact
<1> QED BY <1>2, <1>3, <1>4, <1>5, NextShape

(***************************************************************************)
(* A built index with objects has a block tree with one current entry per  *)
(* object, also after loads over a filled index (spatial_index_build).     *)
(***************************************************************************)
THEOREM BuiltBlockTreeExactHolds == Spec => []BuiltBlockTreeExact
<1>1. Init => BuiltBlockTreeExact
  BY DEF Init, InitIndex, BuiltBlockTreeExact
<1>2. IInv /\ [Next]_vars /\ BuiltBlockTreeExact => BuiltBlockTreeExact'
  BY NextBlockTree
<1> QED BY <1>1, <1>2, InvHolds, PTL DEF Spec

-----------------------------------------------------------------------------
\* Checksums.

\* Every page matches its checksum, or was read from a hole.
Verified(d) == \A s \in Serials(d) : page_verify(d.pages[s]) \/ d.pages[s] = HolePage

\* Every image does, and is in the slot of its number.
VerifiedFile(f) ==
  \A i \in 1..MaxPages : f.images[i] # Null =>
    page_verify(f.images[i]) /\ f.images[i].page_id = i /\ f.images[i].dirty

\* And so for every file.
VerifiedDisk(fs) == \A p \in Path : fs[p] # Null => VerifiedFile(fs[p])

\* The checksum does not depend on DIRTY.
LEMMA KeepsVerified ==
  ASSUME NEW d, NEW e, Sound(d), Verified(d), Keeps(d, e)
  PROVE  Verified(e)
<1>1. ASSUME NEW s \in Serials(d) PROVE page_verify(e.pages[s]) \/ e.pages[s] = HolePage
  <2>1. CASE page_verify(d.pages[s])
    <3>1. /\ e.pages[s].object_count = d.pages[s].object_count
          /\ e.pages[s].objects = d.pages[s].objects
          /\ e.pages[s].page_id = d.pages[s].page_id
          /\ e.pages[s].track_id = d.pages[s].track_id
          /\ e.pages[s].checksum = d.pages[s].checksum
      BY KeptPages
    <3>2. page_checksum(e.pages[s]) = page_checksum(d.pages[s])
      BY <3>1, ChecksumInputs
    <3> QED BY <2>1, <3>1, <3>2 DEF page_verify
  <2>2. CASE d.pages[s] = HolePage
    <3>1. HolePage \in Page /\ HolePage.dirty = FALSE
      BY PageCreate DEF HolePage, page_create
    <3>2. [HolePage EXCEPT !.dirty = FALSE] = HolePage
      BY <3>1 DEF Page
    <3> QED BY <2>2, <3>2 DEF Keeps
  <2> QED BY <2>1, <2>2 DEF Verified
<1> QED BY <1>1 DEF Verified, Keeps

\* What a load appends is a verified image, or a hole.
LEMMA OpensVerified ==
  ASSUME NEW d, NEW e, NEW f, Verified(d), VerifiedFile(f), Opens(d, e, f), d.next_page_id \in Nat
  PROVE  Verified(e)
<1> DEFINE base == d.next_page_id - 1
           n == f.header.page_count
           loaded == (base + 1)..(base + n)
<1>1. /\ base \in Nat /\ n \in Nat /\ base + n <= MaxPages
      /\ Serials(e) = Serials(d) \cup loaded
      /\ \A s \in loaded : e.pages[s] = PageImage(f, s - base)
      /\ \A s \in Serials(d) \ loaded : e.pages[s] = d.pages[s]
  BY DEF Opens
<1>2. \A s \in loaded : s - base \in 1..MaxPages
  BY <1>1, BoundAssumption
<1>3. \A i \in 1..MaxPages : page_verify(PageImage(f, i)) \/ PageImage(f, i) = HolePage
  BY DEF PageImage, VerifiedFile
<1> HIDE DEF loaded, base
<1> QED BY <1>1, <1>2, <1>3 DEF Verified

\* An insert or a remove ends by recomputing the checksum.
LEMMA ObjectVerified ==
  ASSUME NEW d, Sound(dm), Sound(d), Verified(dm), TakesOut(dm, d), PutsIn(d, dm')
  PROVE  Verified(dm')
<1>1. Verified(d)
  <2>1. ASSUME NEW id, NEW s, Removes(dm, d, id, s) PROVE Verified(d)
    <3>1. /\ dm.pages[s] \in Page /\ SlotsOf(dm.pages[s], id) # {} /\ Serials(d) = Serials(dm)
          /\ d.pages[s] = page_remove_object(dm.pages[s], id)
          /\ \A t \in Serials(dm) : t # s => d.pages[t] = dm.pages[t]
      BY <2>1, RemovesPages
    <3>2. page_verify(d.pages[s])
      BY <3>1, PageRemoves
    <3> QED BY <3>1, <3>2 DEF Verified
  <2> QED BY <2>1 DEF TakesOut
<1>2. ASSUME NEW o \in SpatialObject, NEW s, NEW q, Inserts(d, dm', o, s, q) PROVE Verified(dm')
  <2>1. /\ Serials(dm') = Serials(d) \cup {s} /\ dm'.pages[s] = Inserted(q, o)
        /\ \A t \in Serials(d) : t # s => dm'.pages[t] = d.pages[t]
    BY <1>2, InsertsPages
  <2>2. page_verify(Inserted(q, o))
    BY <1>2, InsertedPage DEF Inserts
  <2>3. page_verify(dm'.pages[s])
    BY <2>1, <2>2
  <2> QED BY <1>1, <2>1, <2>3 DEF Verified
<1>3. Misses(d, dm') => Verified(dm')
  BY <1>1 DEF Misses, Verified, Serials
<1> QED BY <1>1, <1>2, <1>3 DEF PutsIn

\* Files change by a sync of the open one, or by a save.
LEMMA DiskShape ==
  ASSUME IInv, [Next]_vars
  PROVE  \/ disk' = disk
         \/ disk' = ClosedFiles(dm, disk)
         \/ \E p \in Path : Save(p)
<1>1. Sync => disk' = ClosedFiles(dm, disk)
  BY DEF Sync, ClosedFiles
<1>2. ObjectNext => disk' = disk
  BY DEF ObjectNext, Insert, InsertWithId, RemoveObject, Update
<1>3. Build \/ FindAdjacentPages \/ Crash \/ Clear \/ UNCHANGED vars => disk' = disk
  BY DEF Build, FindAdjacentPages, Crash, Clear, vars
<1>4. \A p \in Path : UrbisLoad(p) => disk' = disk
  BY DEF UrbisLoad
<1>5. \A p \in Path : Reload(p) \/ ReloadFails(p) => disk' = ClosedFiles(dm, disk)
  BY DEF Reload, ReloadFails
<1>6. Restart => disk' = ClosedFiles(dm, disk)
  BY DEF Restart
<1> QED BY <1>1, <1>2, <1>3, <1>4, <1>5, <1>6 DEF Next, ApiNext, SessionNext, FileNext

\* A slot is written from the dirty page that claims it.
LEMMA SyncedImages ==
  ASSUME NEW d, NEW f, NEW i \in 1..MaxPages
  PROVE  \/ DirtyAt(d, i) = {} /\ SyncedFile(d, f).images[i] = f.images[i]
         \/ \E s \in DirtyAt(d, i) : SyncedFile(d, f).images[i] = page_serialize(d.pages[s])
<1>1. CASE DirtyAt(d, i) = {}
  BY <1>1 DEF SyncedFile
<1>2. CASE DirtyAt(d, i) # {}
  <2>1. DirtyAt(d, i) \subseteq 1..MaxPages
    BY DEF DirtyAt, DirtyPages, Serials
  <2>2. Max(DirtyAt(d, i)) \in DirtyAt(d, i)
    BY <1>2, <2>1, BoundAssumption, MaxIndex
  <2>3. SyncedFile(d, f).images[i] = page_serialize(d.pages[Max(DirtyAt(d, i))])
    BY <1>2 DEF SyncedFile
  <2> QED BY <2>2, <2>3
<1> QED BY <1>1, <1>2

\* A sync writes pages that verify.
LEMMA SyncVerifiedFile ==
  ASSUME NEW d, Sound(d), Verified(d), NEW f, VerifiedFile(f)
  PROVE  VerifiedFile(SyncedFile(d, f))
<1> DEFINE g == SyncedFile(d, f)
<1>1. ASSUME NEW i \in 1..MaxPages, NEW s \in DirtyAt(d, i), g.images[i] = page_serialize(d.pages[s])
      PROVE  page_verify(g.images[i]) /\ g.images[i].page_id = i /\ g.images[i].dirty
  <2>1. s \in Serials(d) /\ d.pages[s].dirty /\ d.pages[s].page_id = i
    BY DEF DirtyAt, DirtyPages
  <2>2. d.pages[s] \in Page
    BY <2>1, SerialPages DEF Sound
  <2>3. HolePage.dirty = FALSE
    BY DEF HolePage, page_create
  <2>4. page_verify(d.pages[s])
    BY <2>1, <2>3 DEF Verified
  <2>5. /\ page_verify(page_serialize(d.pages[s])) /\ page_serialize(d.pages[s]).page_id = i
        /\ page_serialize(d.pages[s]).dirty
    BY <2>1, <2>2, <2>4, Serialize
  <2> QED BY <1>1, <2>5
<1> HIDE DEF g
<1>2. ASSUME NEW i \in 1..MaxPages, g.images[i] # Null
      PROVE  page_verify(g.images[i]) /\ g.images[i].page_id = i /\ g.images[i].dirty
  <2>1. \/ g.images[i] = f.images[i]
        \/ \E s \in DirtyAt(d, i) : g.images[i] = page_serialize(d.pages[s])
    BY SyncedImages DEF g
  <2> QED BY <1>1, <1>2, <2>1 DEF VerifiedFile
<1> QED BY <1>2 DEF VerifiedFile, g

\* So does a close.
LEMMA ClosedVerified ==
  ASSUME NEW fs \in [Path -> File \cup {Null}], VerifiedDisk(fs), NEW d, Sound(d), Verified(d),
         d.is_open => d.path \in Path /\ fs[d.path] # Null
  PROVE  VerifiedDisk(ClosedFiles(d, fs)) /\ DOMAIN ClosedFiles(d, fs) = Path
<1>1. CASE ~ d.is_open
  BY <1>1 DEF ClosedFiles
<1>2. CASE d.is_open
  <2> DEFINE g == SyncedFile(d, fs[d.path])
  <2>1. VerifiedFile(g)
    BY <1>2, SyncVerifiedFile DEF VerifiedDisk
  <2>2. ClosedFiles(d, fs) = [fs EXCEPT ![d.path] = g]
    BY <1>2 DEF ClosedFiles
  <2> HIDE DEF g
  <2> QED BY <1>2, <2>1, <2>2 DEF VerifiedDisk
<1> QED BY <1>1, <1>2

\* A save writes every page to a new file.
LEMMA SaveVerified ==
  ASSUME IInv, Verified(dm), VerifiedDisk(disk), NEW p \in Path, Save(p)
  PROVE  VerifiedDisk(disk')
<1> DEFINE c == disk_manager_create(dm, p)
           fs == CreatedFiles(dm, disk, p)
           gs == ClosedFiles(dm, disk)
           blank == [header |-> EmptyHeader, images |-> [i \in 1..MaxPages |-> Null]]
           f == SyncedFile(c, fs[p])
<1>1. Sound(dm) /\ DiskSound /\ (dm.is_open => dm.path \in Path /\ disk[dm.path] # Null)
  BY PartsFromInv DEF IInv, OpenFileExists
<1>2. VerifiedDisk(gs) /\ DOMAIN gs = Path
  BY <1>1, ClosedVerified DEF DiskSound
<1>3. VerifiedFile(blank)
  BY DEF VerifiedFile
<1>4. fs = [gs EXCEPT ![p] = blank]
  BY DEF CreatedFiles
<1>5. Sound(c) /\ Verified(c)
  BY <1>1, CreateSound, FileCallsKeep, KeepsVerified
<1>6. disk' = [fs EXCEPT ![p] = f]
  BY DEF Save
<1> HIDE DEF gs, blank, c, fs
<1>7. fs[p] = blank
  BY <1>2, <1>4
<1>8. VerifiedFile(f)
  BY <1>3, <1>5, <1>7, SyncVerifiedFile
<1> HIDE DEF f
<1>9. \A q \in Path : disk'[q] = IF q = p THEN f ELSE gs[q]
  BY <1>2, <1>4, <1>6
<1> QED BY <1>2, <1>8, <1>9 DEF VerifiedDisk

\* Every call leaves verified pages and files.
LEMMA NextVerified ==
  ASSUME IInv, Verified(dm), VerifiedDisk(disk), [Next]_vars
  PROVE  Verified(dm') /\ VerifiedDisk(disk')
<1>1. Sound(dm) /\ DiskSound /\ (dm.is_open => dm.path \in Path /\ disk[dm.path] # Null)
  BY PartsFromInv DEF IInv, OpenFileExists
<1>2. VerifiedDisk(disk')
  <2>1. VerifiedDisk(ClosedFiles(dm, disk))
    BY <1>1, ClosedVerified DEF DiskSound
  <2> QED BY <2>1, DiskShape, SaveVerified
<1>3. CASE ObjectNext
  BY <1>1, <1>2, <1>3, ObjectShape, ObjectVerified
<1>4. CASE KeepingStep
  BY <1>1, <1>2, <1>4, KeepsVerified DEF KeepingStep
<1>5. CASE LoadingStep
  <2>1. PICK p, a, b : /\ p \in Path /\ disk'[p] # Null /\ Sound(a) /\ Sound(b)
                       /\ Keeps(dm, a) /\ Opens(a, b, disk'[p]) /\ Keeps(b, dm')
    BY <1>5 DEF LoadingStep
  <2>2. Verified(a) /\ VerifiedFile(disk'[p]) /\ a.next_page_id \in Nat
    BY <1>1, <1>2, <2>1, KeepsVerified DEF VerifiedDisk, Sound, Manager
  <2>3. Verified(b)
    BY <2>1, <2>2, OpensVerified
  <2> QED BY <1>2, <2>1, <2>3, KeepsVerified
<1>6. CASE ResettingStep
  <2>1. Serials(dm') = {}
    BY <1>6 DEF ResettingStep, disk_manager_init, Serials
  <2> QED BY <1>2, <2>1 DEF Verified
<1>7. CASE ClearingStep
  BY <1>2, <1>7 DEF ClearingStep, Verified
<1> QED BY <1>3, <1>4, <1>5, <1>6, <1>7, NextShape

\* Pages and files are verified in every reachable state.
LEMMA VerifiedHolds == Spec => [](Verified(dm) /\ VerifiedDisk(disk))
<1>1. Init => Verified(dm) /\ VerifiedDisk(disk)
  BY DEF Init, InitIndex, disk_manager_init, Verified, VerifiedDisk, Serials
<1>2. IInv /\ (Verified(dm) /\ VerifiedDisk(disk)) /\ [Next]_vars => (Verified(dm) /\ VerifiedDisk(disk))'
  <2> SUFFICES ASSUME IInv, Verified(dm), VerifiedDisk(disk), [Next]_vars
               PROVE  (Verified(dm) /\ VerifiedDisk(disk))'
    OBVIOUS
  <2>1. Verified(dm') /\ VerifiedDisk(disk')
    BY NextVerified
  <2> QED BY <2>1 DEF Verified, VerifiedDisk, VerifiedFile, Serials, page_verify, page_checksum, Live, OddOccurrences
<1> QED BY <1>1, <1>2, InvHolds, PTL DEF Spec

(***************************************************************************)
(* Pages and images verify between calls, also those a load appended or a  *)
(* sync wrote (page_update_derived, page_verify).                          *)
(***************************************************************************)
THEOREM ChecksumsFreshHolds == Spec => []ChecksumsFresh
<1>1. Verified(dm) /\ VerifiedDisk(disk) => ChecksumsFresh
  BY DEF Verified, VerifiedDisk, VerifiedFile, ChecksumsFresh
<1> QED BY <1>1, VerifiedHolds, PTL

-----------------------------------------------------------------------------
\* Pages and their files.

\* Serials are used without gaps; a page claims the slot of its serial, or,
\* read from a hole, none, and then it is clean and empty.
Claims(d, s) ==
  \/ d.pages[s].page_id = s
  \/ d.pages[s].page_id = 0 /\ ~ d.pages[s].dirty /\ d.pages[s].object_count = 0

Numbered(d) ==
  /\ \A s \in 1..MaxPages : s \in Serials(d) <=> s < d.next_page_id
  /\ \A s \in Serials(d) : Claims(d, s)

\* A clean page is in the slot it claims, when anything is.
CleanImages(d, f) ==
  \A s \in Serials(d) \ DirtyPages(d) :
    \/ d.pages[s].page_id = s /\ (f.images[s] # Null => OnDisk(d, s, f))
    \/ d.pages[s].page_id = 0 /\ f.images[s] = Null

\* ... and the file's header counts it.
CleanSaved(d, f) ==
  /\ CleanImages(d, f)
  /\ \A s \in Serials(d) \ DirtyPages(d) : s <= f.header.page_count

\* At most one dirty page claims a slot.
LEMMA NumberedDirtyAt ==
  ASSUME NEW d, Numbered(d), NEW s \in Serials(d)
  PROVE  DirtyAt(d, s) = IF s \in DirtyPages(d) THEN {s} ELSE {}
<1>1. s \in Nat /\ s # 0
  BY BoundAssumption DEF Serials
<1>2. \A t \in DirtyPages(d) : d.pages[t].page_id = t
  BY DEF Numbered, Claims, DirtyPages
<1> QED BY <1>1, <1>2 DEF DirtyAt

\* The number of pages is one less than the next serial.
LEMMA NumberedCount ==
  ASSUME NEW d, Sound(d), Numbered(d)
  PROVE  \A s \in Serials(d) : s <= Cardinality(Serials(d))
<1> SUFFICES ASSUME NEW s \in Serials(d) PROVE s <= Cardinality(Serials(d))
  OBVIOUS
<1>1. s \in Nat /\ s \in 1..MaxPages /\ s < d.next_page_id /\ d.next_page_id \in Nat
  BY BoundAssumption DEF Serials, Numbered, Sound, Manager
<1>2. 1..s \subseteq Serials(d)
  BY <1>1, BoundAssumption DEF Numbered
<1>3. IsFiniteSet(Serials(d))
  <2>1. IsFiniteSet(1..MaxPages)
    BY BoundAssumption, FS_Interval
  <2> QED BY <2>1, FS_Subset DEF Serials
<1>4. Cardinality(1..s) <= Cardinality(Serials(d))
  BY <1>2, <1>3, FS_Subset
<1>5. Cardinality(1..s) = s
  BY <1>1, FS_Interval
<1> QED BY <1>4, <1>5

\* After a sync every page is clean, and in its slot when it was dirty.
LEMMA SyncSaves ==
  ASSUME NEW d, Sound(d), Numbered(d), NEW f, CleanImages(d, f)
  PROVE  CleanSaved(disk_manager_sync(d), SyncedFile(d, f))
<1> DEFINE e == disk_manager_sync(d)
           g == SyncedFile(d, f)
<1>1. /\ Serials(e) = Serials(d) /\ e.header.page_count = Cardinality(Serials(d))
      /\ \A s \in Serials(d) : e.pages[s] = [d.pages[s] EXCEPT !.dirty = FALSE]
  BY SyncSound
<1>2. g.header = e.header
  BY DEF SyncedFile
<1>3. ASSUME NEW s \in Serials(d)
      PROVE  \/ e.pages[s].page_id = s /\ (g.images[s] # Null => OnDisk(e, s, g))
             \/ e.pages[s].page_id = 0 /\ g.images[s] = Null
  <2> DEFINE p == d.pages[s]
             q == e.pages[s]
  <2>1. p \in Page /\ s \in 1..MaxPages /\ Claims(d, s)
    BY SerialPages DEF Sound, Numbered
  <2>2. q = [p EXCEPT !.dirty = FALSE] /\ q.page_id = p.page_id
    BY <1>1, <2>1, CleanedPage
  <2>3. CASE s \in DirtyPages(d)
    <3>1. DirtyAt(d, s) = {s} /\ p.dirty /\ p.page_id = s
      BY <2>1, <2>3, NumberedDirtyAt DEF DirtyPages, Claims
    <3>2. g.images[s] = page_serialize(p)
      BY <2>1, <3>1, SyncedImages
    <3>3. [q EXCEPT !.dirty = TRUE] = p
      BY <2>1, <2>2, <3>1 DEF Page
    <3>4. OnDisk(e, s, g)
      BY <2>1, <2>2, <3>1, <3>2, <3>3 DEF OnDisk
    <3> QED BY <2>2, <3>1, <3>4
  <2>4. CASE s \notin DirtyPages(d)
    <3>1. g.images[s] = f.images[s]
      BY <2>1, <2>4, NumberedDirtyAt, SyncedImages
    <3>2. ~ p.dirty
      BY <2>4 DEF DirtyPages
    <3>3. q = p
      BY <2>1, <2>2, <3>2 DEF Page
    <3>4. OnDisk(d, s, f) /\ p.page_id = s => OnDisk(e, s, g)
      BY <3>1, <3>3 DEF OnDisk
    <3>5. \/ p.page_id = s /\ (f.images[s] # Null => OnDisk(d, s, f))
          \/ p.page_id = 0 /\ f.images[s] = Null
      BY <2>4 DEF CleanImages
    <3> QED BY <3>1, <3>3, <3>4, <3>5
  <2> QED BY <2>3, <2>4
<1>4. CleanImages(e, g)
  BY <1>1, <1>3 DEF CleanImages
<1>5. \A s \in Serials(e) : s <= g.header.page_count
  BY <1>1, <1>2, NumberedCount
<1> QED BY <1>4, <1>5 DEF CleanSaved

\* Clearing DIRTY flags leaves the claims.
LEMMA KeepsNumbered ==
  ASSUME NEW d, NEW e, Sound(d), Numbered(d), Keeps(d, e)
  PROVE  Numbered(e)
<1>1. ASSUME NEW s \in Serials(d) PROVE Claims(e, s)
  <2>1. e.pages[s].page_id = d.pages[s].page_id /\ e.pages[s].object_count = d.pages[s].object_count
    BY KeptPages
  <2>2. d.pages[s] \in Page
    BY SerialPages DEF Sound
  <2>3. ~ d.pages[s].dirty => ~ e.pages[s].dirty
    BY <2>2, CleanedPage DEF Keeps
  <2> QED BY <2>1, <2>3 DEF Numbered, Claims
<1> QED BY <1>1 DEF Numbered, Keeps

\* Objects come and go on pages that claim their slot, and dirty them.
LEMMA RemovesFiles ==
  ASSUME NEW d, Sound(d), Numbered(d), NEW e, NEW id, NEW s, Removes(d, e, id, s)
  PROVE  /\ Numbered(e)
         /\ \A f : CleanSaved(d, f) => CleanSaved(e, f)
<1>1. /\ d.pages[s] \in Page /\ s \in Serials(d) /\ SlotsOf(d.pages[s], id) # {}
      /\ Serials(e) = Serials(d) /\ e.pages[s] = page_remove_object(d.pages[s], id)
      /\ \A t \in Serials(d) : t # s => e.pages[t] = d.pages[t]
      /\ e.next_page_id = d.next_page_id
  BY RemovesPages
<1>2. d.pages[s].page_id = s
  BY RemovesFromNonEmpty DEF NonEmpty, Numbered, Claims
<1>3. e.pages[s].page_id = s /\ e.pages[s].dirty = TRUE
  <2> DEFINE p == page_remove_object(d.pages[s], id)
  <2>1. p.page_id = d.pages[s].page_id /\ p.dirty = TRUE
    BY <1>1, PageRemoves
  <2> HIDE DEF p
  <2>2. e.pages[s] = p
    BY <1>1 DEF p
  <2> QED BY <1>2, <2>1, <2>2, Zenon
<1>4. \A t \in Serials(e) : Claims(e, t)
  BY <1>1, <1>3 DEF Numbered, Claims
<1>5. Numbered(e)
  BY <1>1, <1>4 DEF Numbered
<1>6. \A t \in Serials(e) \ DirtyPages(e) : /\ t \in Serials(d) \ DirtyPages(d)
                                           /\ e.pages[t] = d.pages[t]
  BY <1>1, <1>3 DEF DirtyPages
<1> QED BY <1>5, <1>6 DEF CleanSaved, CleanImages, OnDisk

\* An insert, likewise.
LEMMA InsertsFiles ==
  ASSUME NEW d, Sound(d), Numbered(d), Allocation(d), NoDanglingPages(d),
         NEW e, NEW o \in SpatialObject, NEW s, NEW q, Inserts(d, e, o, s, q)
  PROVE  /\ Numbered(e)
         /\ \A f : CleanSaved(d, f) => CleanSaved(e, f)
<1>1. /\ s \in 1..MaxPages /\ Serials(e) = Serials(d) \cup {s} /\ e.pages[s] = Inserted(q, o)
      /\ \A t \in Serials(d) : t # s => e.pages[t] = d.pages[t]
  BY InsertsPages
<1>2. /\ q.page_id = s
      /\ \/ s \in Serials(d) /\ e.next_page_id = d.next_page_id
         \/ s = d.next_page_id /\ e.next_page_id = d.next_page_id + 1
  <2>1. CASE OntoListedPage(d, e, s, q)
    <3>1. s \in NonEmpty(d)
      <4>1. s \in Serials(d) /\ \E n \in d.allocation_tree : n.page = s
        BY <2>1 DEF OntoListedPage, Reached
      <4>2. \E n \in PageEntries(d) : n.page = s
        BY <4>1 DEF Allocation
      <4> QED BY <4>2 DEF PageEntries
    <3>2. q = d.pages[s] /\ e.next_page_id = d.next_page_id
      BY <2>1 DEF OntoListedPage
    <3> QED BY <3>1, <3>2 DEF NonEmpty, Numbered, Claims
  <2>2. CASE OntoNewPage(d, e, s, q, o.centroid)
    BY <2>2 DEF OntoNewPage
  <2> QED BY <2>1, <2>2 DEF Inserts
<1>3. e.pages[s].page_id = s /\ e.pages[s].dirty = TRUE
  <2>1. Inserted(q, o).page_id = q.page_id /\ Inserted(q, o).dirty = TRUE
    BY InsertedPage DEF Inserts
  <2> QED BY <1>1, <1>2, <2>1, Zenon
<1>4. \A t \in Serials(e) : Claims(e, t)
  BY <1>1, <1>3 DEF Numbered, Claims
<1>5. d.next_page_id \in Nat /\ \A t \in 1..MaxPages : t \in Nat
  BY BoundAssumption DEF Sound, Manager
<1>6. \A t \in 1..MaxPages : t \in Serials(e) <=> t < e.next_page_id
  BY <1>1, <1>2, <1>5 DEF Numbered
<1>7. \A t \in Serials(e) \ DirtyPages(e) : /\ t \in Serials(d) \ DirtyPages(d)
                                           /\ e.pages[t] = d.pages[t]
  BY <1>1, <1>3 DEF DirtyPages
<1> QED BY <1>4, <1>6, <1>7 DEF Numbered, CleanSaved, CleanImages, OnDisk

\* What the pages claim, and what the open file has of them.
FileInv == Numbered(dm) /\ (dm.is_open => CleanSaved(dm, disk[dm.path]))

\* Only the pages matter.
LEMMA SamePagesSaved ==
  ASSUME NEW d, NEW e, e.pages = d.pages, e.next_page_id = d.next_page_id
  PROVE  /\ Numbered(d) => Numbered(e)
         /\ \A f : CleanSaved(d, f) => CleanSaved(e, f)
<1>1. Serials(e) = Serials(d)
  BY DEF Serials
<1>2. DirtyPages(e) = DirtyPages(d)
  BY <1>1 DEF DirtyPages
<1>3. \A s \in Serials(d) : Claims(e, s) <=> Claims(d, s)
  BY DEF Claims
<1>4. \A s, f : OnDisk(e, s, f) <=> OnDisk(d, s, f)
  BY DEF OnDisk
<1> QED BY <1>1, <1>2, <1>3, <1>4 DEF Numbered, CleanSaved, CleanImages

\* The calls that change objects keep the claims and what is saved.
LEMMA ObjectFiles ==
  ASSUME NEW d, Sound(dm), Sound(d), Allocation(dm), NoDanglingPages(dm), Numbered(dm),
         TakesOut(dm, d), PutsIn(d, dm')
  PROVE  /\ Numbered(dm')
         /\ \A f : CleanSaved(dm, f) => CleanSaved(dm', f)
<1>1. /\ Numbered(d) /\ Allocation(d) /\ NoDanglingPages(d)
      /\ \A f : CleanSaved(dm, f) => CleanSaved(d, f)
  <2>1. CASE d = dm
    BY <2>1
  <2>2. CASE \E id \in Ids : \E s : Removes(dm, d, id, s)
    BY <2>2, RemovesFiles, RemovesAllocation, ObjectNoDangling
  <2> QED BY <2>1, <2>2 DEF TakesOut
<1>2. /\ Numbered(dm')
      /\ \A f : CleanSaved(d, f) => CleanSaved(dm', f)
  <2>1. CASE dm' = d
    BY <1>1, <2>1
  <2>2. CASE \E o \in SpatialObject : \E s, q : Inserts(d, dm', o, s, q)
    BY <1>1, <2>2, InsertsFiles
  <2> QED BY <1>1, <2>1, <2>2 DEF PutsIn, Misses
<1> QED BY <1>1, <1>2

\* A load into a fresh index takes page s from slot s; the images are of
\* dirty pages, so what is clean was read from a hole.
LEMMA UrbisLoadFiles ==
  ASSUME IInv, VerifiedDisk(disk), Numbered(dm), NEW p \in Path, UrbisLoad(p)
  PROVE  Numbered(dm') /\ dm'.is_open /\ CleanSaved(dm', disk'[dm'.path])
<1> DEFINE f == disk[p]
           b == disk_manager_open(dm, p, f)
<1>1. Sound(dm) /\ DiskSound /\ IndexTypes
  BY PartsFromInv
<1>2. /\ ~ dm.is_open /\ dm.next_page_id = 1 /\ CanOpen(dm, f)
      /\ BuildFrom(b, f.header.bounds) /\ disk' = disk
  BY DEF UrbisLoad
<1>3. f # Null /\ SoundFile(f) /\ VerifiedFile(f)
  BY <1>1, <1>2 DEF CanOpen, DiskSound, VerifiedDisk
<1>4. f.header.bounds \in MBR
  BY <1>3 DEF SoundFile, File, Header
<1>5. disk_manager_close(dm) = dm
  BY <1>2 DEF disk_manager_close
<1> HIDE DEF f
<1>6. Sound(b) /\ b.is_open /\ b.path = p /\ Opens(dm, b, f)
  BY <1>1, <1>2, <1>3, <1>5, OpenSound, OpenOpens
<1> HIDE DEF b
<1>7. /\ dm'.is_open /\ dm'.path = p /\ dm'.pages = b.pages /\ dm'.next_page_id = b.next_page_id
  BY <1>1, <1>2, <1>4, <1>6, BuildFromSound
<1>8. Serials(dm) = {}
  BY <1>2, BoundAssumption DEF Numbered, Serials
<1>9. f.header.page_count \in Nat
  BY <1>6 DEF Opens
<1>10. /\ Serials(b) = 1..f.header.page_count /\ b.next_page_id = 1 + f.header.page_count
       /\ f.header.page_count <= MaxPages
       /\ \A s \in Serials(b) : b.pages[s] = PageImage(f, s)
  <2> DEFINE n == f.header.page_count
             base == dm.next_page_id - 1
  <2>1. /\ base + n <= MaxPages /\ b.next_page_id = dm.next_page_id + n
        /\ Serials(b) = Serials(dm) \cup ((base + 1)..(base + n))
        /\ \A s \in (base + 1)..(base + n) : b.pages[s] = PageImage(f, s - base)
    BY <1>6 DEF Opens
  <2>2. base = 0 /\ base + 1 = 1 /\ base + n = n
    BY <1>2, <1>9
  <2>3. Serials(b) = 1..n /\ \A s \in 1..n : b.pages[s] = PageImage(f, s - 0)
    BY <1>8, <2>1, <2>2
  <2>4. \A s \in 1..n : s - 0 = s
    BY <1>9
  <2> QED BY <1>2, <2>1, <2>2, <2>3, <2>4
<1>11. ASSUME NEW s \in Serials(b)
       PROVE  \/ f.images[s] # Null /\ b.pages[s].page_id = s /\ b.pages[s].dirty
              \/ f.images[s] = Null /\ b.pages[s] = HolePage
  <2>1. s \in 1..MaxPages
    BY DEF Serials
  <2> QED BY <1>3, <1>10, <2>1 DEF PageImage, VerifiedFile
<1>12. HolePage.page_id = 0 /\ ~ HolePage.dirty /\ HolePage.object_count = 0
  BY DEF HolePage, page_create
<1>13. Numbered(b)
  <2>1. \A s \in 1..MaxPages : s \in Serials(b) <=> s < b.next_page_id
    BY <1>9, <1>10, BoundAssumption
  <2>2. \A s \in Serials(b) : Claims(b, s)
    BY <1>11, <1>12 DEF Claims
  <2> QED BY <2>1, <2>2 DEF Numbered
<1>14. CleanSaved(b, f)
  <2>1. \A s \in Serials(b) \ DirtyPages(b) : f.images[s] = Null /\ b.pages[s].page_id = 0
    BY <1>11, <1>12 DEF DirtyPages
  <2>2. \A s \in Serials(b) : s <= f.header.page_count
    BY <1>9, <1>10
  <2> QED BY <2>1, <2>2 DEF CleanSaved, CleanImages
<1> QED BY <1>2, <1>7, <1>13, <1>14, SamePagesSaved DEF f

\* A save leaves every clean page in a file that counts it.
LEMMA SaveFiles ==
  ASSUME IInv, Numbered(dm), NEW p \in Path, Save(p)
  PROVE  Numbered(dm') /\ CleanSaved(dm', disk'[dm'.path])
<1> DEFINE c == disk_manager_create(dm, p)
           fs == CreatedFiles(dm, disk, p)
           gs == ClosedFiles(dm, disk)
           blank == [header |-> EmptyHeader, images |-> [i \in 1..MaxPages |-> Null]]
           f == SyncedFile(c, fs[p])
<1>1. Sound(dm) /\ DiskSound /\ (dm.is_open => dm.path \in Path /\ disk[dm.path] # Null)
  BY PartsFromInv DEF IInv, OpenFileExists
<1>2. DOMAIN gs = Path
  BY <1>1, ClosedFilesSound
<1>3. Sound(c) /\ c.path = p /\ Numbered(c)
  BY <1>1, CreateSound, FileCallsKeep, KeepsNumbered
<1>4. \A s \in Serials(c) : blank.images[s] = Null /\ Claims(c, s)
  BY <1>3 DEF Serials, Numbered
<1>5. CleanImages(c, blank)
  BY <1>4 DEF CleanImages, Claims
<1>6. fs = [gs EXCEPT ![p] = blank]
  BY DEF CreatedFiles
<1>7. dm' = disk_manager_sync(c) /\ disk' = [fs EXCEPT ![p] = f]
  BY DEF Save
<1> HIDE DEF c, gs, fs, blank
<1>8. fs[p] = blank /\ DOMAIN fs = Path
  BY <1>2, <1>6
<1>9. CleanSaved(disk_manager_sync(c), f)
  BY <1>3, <1>5, <1>8, SyncSaves
<1> HIDE DEF f
<1>10. disk'[p] = f
  BY <1>7, <1>8
<1>11. dm'.path = p /\ Numbered(dm')
  BY <1>3, <1>7, SyncSound, FileCallsKeep, KeepsNumbered
<1> QED BY <1>7, <1>9, <1>10, <1>11

\* So does a sync of the open file.
LEMMA SyncFiles ==
  ASSUME IInv, Numbered(dm), Sync, CleanSaved(dm, disk[dm.path])
  PROVE  Numbered(dm') /\ CleanSaved(dm', disk'[dm'.path])
<1> DEFINE f == SyncedFile(dm, disk[dm.path])
<1>1. Sound(dm) /\ DiskSound /\ dm.path \in Path
  BY PartsFromInv DEF IInv, OpenFileExists, Sync
<1>2. dm' = disk_manager_sync(dm) /\ disk' = [disk EXCEPT ![dm.path] = f]
  BY DEF Sync
<1>3. CleanSaved(disk_manager_sync(dm), f)
  BY <1>1, SyncSaves DEF CleanSaved
<1> HIDE DEF f
<1>4. disk'[dm.path] = f
  BY <1>1, <1>2 DEF DiskSound
<1>5. dm'.path = dm.path /\ Numbered(dm')
  BY <1>1, <1>2, SyncSound, FileCallsKeep, KeepsNumbered
<1> QED BY <1>2, <1>3, <1>4, <1>5

\* A new index has no page, and no file open.
LEMMA InitNumbered == Numbered(disk_manager_init) /\ ~ disk_manager_init.is_open
<1>1. Serials(disk_manager_init) = {} /\ disk_manager_init.next_page_id = 1
      /\ ~ disk_manager_init.is_open
  BY DEF disk_manager_init, Serials
<1> QED BY <1>1, BoundAssumption DEF Numbered

\* Every call of urbis.h keeps the claims and what is saved.
LEMMA ApiFiles ==
  ASSUME IInv, Allocation(dm), NoDanglingPages(dm), VerifiedDisk(disk), FileInv, [ApiNext]_vars
  PROVE  Numbered(dm') /\ (dm'.is_open => CleanSaved(dm', disk'[dm'.path]))
<1>1. Sound(dm) /\ DiskSound /\ IndexTypes
  BY PartsFromInv
<1>2. CASE ObjectNext
  <2>1. PICK d : Sound(d) /\ TakesOut(dm, d) /\ PutsIn(d, dm')
    BY <1>2, ObjectShape
  <2>2. dm'.is_open = dm.is_open /\ dm'.path = dm.path /\ disk' = disk
    BY <1>2, ObjectShape
  <2> QED BY <1>1, <2>1, <2>2, ObjectFiles DEF FileInv
<1>3. CASE Build
  <2>1. BuildFrom(dm, bounds) /\ bounds \in MBR /\ disk' = disk
    BY <1>1, <1>3 DEF Build, IndexTypes
  <2>2. /\ dm'.pages = dm.pages /\ dm'.next_page_id = dm.next_page_id
        /\ dm'.is_open = dm.is_open /\ dm'.path = dm.path
    BY <1>1, <2>1, BuildFromSound
  <2> QED BY <2>1, <2>2, SamePagesSaved DEF FileInv
<1>4. CASE FindAdjacentPages \/ UNCHANGED vars
  <2>1. dm' = dm /\ disk' = disk
    BY <1>4 DEF FindAdjacentPages, vars
  <2> QED BY <2>1 DEF FileInv
<1>5. ASSUME NEW p \in Path, Save(p)
      PROVE  Numbered(dm') /\ CleanSaved(dm', disk'[dm'.path])
  BY <1>5, SaveFiles DEF FileInv
<1>6. ASSUME NEW p \in Path, UrbisLoad(p)
      PROVE  Numbered(dm') /\ CleanSaved(dm', disk'[dm'.path])
  BY <1>6, UrbisLoadFiles DEF FileInv
<1>7. CASE Sync
  BY <1>7, SyncFiles DEF FileInv, Sync
<1>8. CASE Restart \/ Crash
  BY <1>8, InitNumbered DEF Restart, Crash, InitIndex
<1> QED BY <1>2, <1>3, <1>4, <1>5, <1>6, <1>7, <1>8 DEF ApiNext, SessionNext, FileNext

\* Claims and saved pages are sound in every state urbis.h reaches.
LEMMA FileInvHolds == ApiSpec => []FileInv
<1>1. Init => FileInv
  BY InitNumbered DEF Init, InitIndex, FileInv
<1>2. /\ IInv /\ Allocation(dm) /\ NoDanglingPages(dm) /\ (Verified(dm) /\ VerifiedDisk(disk))
      /\ FileInv /\ [ApiNext]_vars
      => FileInv'
  <2> SUFFICES ASSUME IInv, Allocation(dm), NoDanglingPages(dm), VerifiedDisk(disk), FileInv, [ApiNext]_vars
               PROVE  FileInv'
    OBVIOUS
  <2>1. Numbered(dm') /\ (dm'.is_open => CleanSaved(dm', disk'[dm'.path]))
    BY ApiFiles
  <2> QED BY <2>1 DEF FileInv, Numbered, Claims, CleanSaved, CleanImages, OnDisk, Serials, DirtyPages
<1> QED BY <1>1, <1>2, ApiIsSpec, InvHolds, AllocationHolds, NoDanglingHolds, VerifiedHolds, PTL DEF ApiSpec

(***************************************************************************)
(* No two pages of an index claim one slot of its file, and no hole is     *)
(* dirty, after any loads, saves, crashes and restarts (page_pool_alloc).  *)
(***************************************************************************)
THEOREM PageSlotsDistinctHolds == ApiSpec => []PageSlotsDistinct
<1>1. ASSUME FileInv PROVE PageSlotsDistinct
  <2>1. \A s \in Serials(dm) : dm.pages[s].page_id = s \/ dm.pages[s].page_id = 0
    BY <1>1 DEF FileInv, Numbered, Claims
  <2>2. \A s \in DirtyPages(dm) : dm.pages[s].page_id = s /\ s # 0
    BY <1>1, BoundAssumption DEF FileInv, Numbered, Claims, DirtyPages, Serials
  <2> QED BY <2>1, <2>2 DEF PageSlotsDistinct
<1> QED BY <1>1, FileInvHolds, PTL

(***************************************************************************)
(* While the open file has an image for each page it counts, a page that   *)
(* is not dirty reads back as it is in memory (disk_manager_sync).         *)
(***************************************************************************)
THEOREM CleanPagesOnDiskHolds == ApiSpec => []CleanPagesOnDisk
<1>1. ASSUME FileInv PROVE CleanPagesOnDisk
  <2> SUFFICES ASSUME dm.is_open, Complete(disk[dm.path]), NEW s \in Serials(dm) \ DirtyPages(dm)
               PROVE  OnDisk(dm, s, disk[dm.path])
    BY DEF CleanPagesOnDisk
  <2> DEFINE f == disk[dm.path]
  <2>1. CleanImages(dm, f) /\ s <= f.header.page_count
    BY <1>1 DEF FileInv, CleanSaved
  <2>2. s \in 1..f.header.page_count
    BY <2>1, BoundAssumption DEF Serials
  <2> QED BY <2>1, <2>2 DEF Complete, CleanImages
<1> QED BY <1>1, FileInvHolds, PTL

-----------------------------------------------------------------------------
\* Which objects a session holds.

\* Removing brings nothing new, inserting only the object inserted.
LEMMA RemovesObjects ==
  ASSUME NEW d, Sound(d), NEW e, NEW id, NEW s, Removes(d, e, id, s)
  PROVE  \A a \in LiveSlots(e) : \E b \in LiveSlots(d) : ObjectAt(e, a) = ObjectAt(d, b)
<1> DEFINE p == d.pages[s]
           q == page_remove_object(p, id)
           i == Min(SlotsOf(p, id))
<1>1. /\ p \in Page /\ s \in Serials(d) /\ SlotsOf(p, id) # {}
      /\ Serials(e) = Serials(d) /\ e.pages[s] = q
      /\ \A t \in Serials(d) : t # s => e.pages[t] = d.pages[t]
  BY RemovesPages
<1>2. /\ q.object_count = p.object_count - 1 /\ q.objects = ShiftedSlots(p, i)
      /\ i \in Live(p)
  BY <1>1, PageRemoves
<1> HIDE DEF q, i
<1>3. ASSUME NEW j \in Live(q)
      PROVE  \E k \in Live(p) : q.objects[j] = p.objects[k]
  <2>1. j \in Slot /\ j < p.object_count /\ p.object_count \in 0..MAX_OBJECTS_PER_PAGE
    BY <1>1, <1>2, PageAssumption DEF Live, Page, Slot
  <2>2. j + 1 \in Live(p) /\ j \in Live(p)
    BY <2>1, PageAssumption DEF Live, Slot
  <2>3. i \in Slot
    BY <1>2 DEF Live
  <2>4. CASE j >= i
    BY <1>2, <2>1, <2>2, <2>4 DEF ShiftedSlots
  <2>5. CASE ~ (j >= i)
    <3>1. j # i
      BY <2>1, <2>3, <2>5 DEF Slot
    <3>2. q.objects[j] = p.objects[j]
      BY <1>2, <2>1, <2>5, <3>1 DEF ShiftedSlots
    <3> QED BY <2>2, <3>2
  <2> QED BY <2>4, <2>5
<1>4. ASSUME NEW a \in LiveSlots(e)
      PROVE  \E b \in LiveSlots(d) : ObjectAt(e, a) = ObjectAt(d, b)
  <2>a. PICK t \in Serials(e) : \E j \in Live(e.pages[t]) : a = <<t, j>>
    BY DEF LiveSlots
  <2>b. PICK j \in Live(e.pages[t]) : a = <<t, j>>
    BY <2>a
  <2>1. t \in Serials(e) /\ j \in Live(e.pages[t]) /\ a = <<t, j>>
    BY <2>b
  <2>2. CASE t = s
    <3>1. PICK k \in Live(p) : q.objects[j] = p.objects[k]
      BY <1>1, <1>3, <2>1, <2>2
    <3>2. <<s, k>> \in LiveSlots(d)
      BY <1>1, <3>1 DEF LiveSlots
    <3>3. ObjectAt(e, a) = ObjectAt(d, <<s, k>>)
      BY <1>1, <2>1, <2>2, <3>1 DEF ObjectAt
    <3> QED BY <3>2, <3>3
  <2>3. CASE t # s
    <3>1. t \in Serials(d) /\ e.pages[t] = d.pages[t]
      BY <1>1, <2>1, <2>3
    <3>2. a \in LiveSlots(d) /\ ObjectAt(e, a) = ObjectAt(d, a)
      BY <2>1, <3>1 DEF LiveSlots, ObjectAt
    <3> QED BY <3>2
  <2> QED BY <2>2, <2>3
<1> QED BY <1>4

\* Nothing but the object inserted is new.
LEMMA InsertsObjects ==
  ASSUME NEW d, Sound(d), NEW e, NEW o \in SpatialObject, NEW s, NEW q, Inserts(d, e, o, s, q)
  PROVE  \A a \in LiveSlots(e) :
           ObjectAt(e, a) = o \/ \E b \in LiveSlots(d) : ObjectAt(e, a) = ObjectAt(d, b)
<1> DEFINE r == Inserted(q, o)
           n == q.object_count + 1
<1>1. /\ s \in 1..MaxPages /\ Serials(e) = Serials(d) \cup {s} /\ e.pages[s] = r
      /\ \A t \in Serials(d) : t # s => e.pages[t] = d.pages[t]
  BY InsertsPages
<1>2. /\ q \in Page /\ n \in Slot /\ Live(r) = Live(q) \cup {n}
      /\ r.objects = [q.objects EXCEPT ![n] = o]
  BY InsertedPage DEF Inserts
<1>3. Live(q) = {} \/ (s \in Serials(d) /\ q = d.pages[s])
  BY <1>2 DEF Inserts, OntoListedPage, OntoNewPage, Live, Slot
<1> HIDE DEF r
<1>4. ASSUME NEW j \in Live(r)
      PROVE  r.objects[j] = o \/ (j \in Live(q) /\ r.objects[j] = q.objects[j])
  <2>1. q.objects \in [Slot -> SpatialObject] /\ n \notin Live(q)
    BY <1>2, PageAssumption DEF Page, Live
  <2> HIDE DEF n
  <2> QED BY <1>2, <2>1 DEF Live
<1>5. ASSUME NEW a \in LiveSlots(e)
      PROVE  ObjectAt(e, a) = o \/ \E b \in LiveSlots(d) : ObjectAt(e, a) = ObjectAt(d, b)
  <2>a. PICK t \in Serials(e) : \E j \in Live(e.pages[t]) : a = <<t, j>>
    BY DEF LiveSlots
  <2>b. PICK j \in Live(e.pages[t]) : a = <<t, j>>
    BY <2>a
  <2>1. t \in Serials(e) /\ j \in Live(e.pages[t]) /\ a = <<t, j>>
    BY <2>b
  <2>2. CASE t = s
    <3>1. ObjectAt(e, a) = r.objects[j] /\ j \in Live(r)
      BY <1>1, <2>1, <2>2 DEF ObjectAt
    <3>2. CASE r.objects[j] = o
      BY <3>1, <3>2
    <3>3. CASE j \in Live(q) /\ r.objects[j] = q.objects[j]
      <4>1. s \in Serials(d) /\ q = d.pages[s]
        BY <1>3, <3>3
      <4>2. <<s, j>> \in LiveSlots(d)
        BY <3>3, <4>1 DEF LiveSlots
      <4>3. ObjectAt(e, a) = ObjectAt(d, <<s, j>>)
        BY <3>1, <3>3, <4>1 DEF ObjectAt
      <4> QED BY <4>2, <4>3
    <3> QED BY <1>4, <3>1, <3>2, <3>3
  <2>3. CASE t # s
    <3>1. t \in Serials(d) /\ e.pages[t] = d.pages[t]
      BY <1>1, <2>1, <2>3
    <3>2. a \in LiveSlots(d) /\ ObjectAt(e, a) = ObjectAt(d, a)
      BY <2>1, <3>1 DEF LiveSlots, ObjectAt
    <3> QED BY <3>2
  <2> QED BY <2>2, <2>3
<1> QED BY <1>5

-----------------------------------------------------------------------------
\* The bounds, the extents and the page quadtree.

\* A rectangle contains the hull of what it contains.
LEMMA HullWithin ==
  ASSUME NEW M, M \subseteq MBR, NEW b \in MBR,
         \A m \in M : ~ mbr_is_empty(m) => mbr_contains_mbr(b, m),
         ~ mbr_is_empty(Hull(M))
  PROVE  mbr_contains_mbr(b, Hull(M))
<1> DEFINE solid == {m \in M : ~ mbr_is_empty(m)}
           X1 == {m.min_x : m \in solid}
           Y1 == {m.min_y : m \in solid}
           X2 == {m.max_x : m \in solid}
           Y2 == {m.max_y : m \in solid}
<1>1. solid # {}
  BY EmptyIsMBR DEF Hull
<1>2. /\ X1 \subseteq Coord /\ X1 # {} /\ Y1 \subseteq Coord /\ Y1 # {}
      /\ X2 \subseteq Coord /\ X2 # {} /\ Y2 \subseteq Coord /\ Y2 # {}
  BY <1>1 DEF MBR
<1>3. Hull(M) = mbr_create(Min(X1), Min(Y1), Max(X2), Max(Y2))
  BY <1>1 DEF Hull
<1>4. Min(X1) \in X1 /\ Min(Y1) \in Y1 /\ Max(X2) \in X2 /\ Max(Y2) \in Y2
  <2>1. Min(X1) \in X1
    BY <1>2, MinCoord
  <2>2. Min(Y1) \in Y1
    BY <1>2, MinCoord
  <2>3. Max(X2) \in X2
    BY <1>2, MaxCoord
  <2>4. Max(Y2) \in Y2
    BY <1>2, MaxCoord
  <2> QED BY <2>1, <2>2, <2>3, <2>4
<1>5. \A m \in solid : mbr_contains_mbr(b, m)
  OBVIOUS
<1>6. /\ Min(X1) >= b.min_x /\ Min(Y1) >= b.min_y
      /\ Max(X2) <= b.max_x /\ Max(Y2) <= b.max_y /\ ~ mbr_is_empty(b)
  BY <1>1, <1>4, <1>5 DEF mbr_contains_mbr
<1>7. /\ Hull(M).min_x = Min(X1) /\ Hull(M).min_y = Min(Y1)
      /\ Hull(M).max_x = Max(X2) /\ Hull(M).max_y = Max(Y2)
  BY <1>3 DEF mbr_create
<1> QED BY <1>6, <1>7 DEF mbr_contains_mbr

\* Expanding a rectangle loses nothing, and gains the other.
LEMMA ExpandContains ==
  ASSUME NEW b \in MBR, NEW m \in MBR
  PROVE  /\ ~ mbr_is_empty(m) => mbr_contains_mbr(mbr_expand_mbr(b, m), m)
         /\ \A x \in MBR : mbr_contains_mbr(b, x) => mbr_contains_mbr(mbr_expand_mbr(b, m), x)
  BY InfAssumption
     DEF mbr_expand_mbr, mbr_create, mbr_contains_mbr, mbr_is_empty, MBR, Coord, Lower, Upper

\* Bounds b contain every object's rectangle.
BoundsCover(d, b) ==
  \A a \in LiveSlots(d) :
    ~ mbr_is_empty(ObjectAt(d, a).mbr) => mbr_contains_mbr(b, ObjectAt(d, a).mbr)

\* A page's extent is the hull of its objects, no more.
ExtentExact(p) == p.extent = Hull({p.objects[i].mbr : i \in Live(p)})

\* And so for every page.
ExtentsExact(d) == \A s \in Serials(d) : ExtentExact(d.pages[s])

\* Both ways to rewrite a page leave its extent exact.
LEMMA RewrittenExtents ==
  /\ \A p \in Page : \A id : SlotsOf(p, id) # {} => ExtentExact(page_remove_object(p, id))
  /\ \A p \in Page, o \in SpatialObject : ~ page_is_full(p) => ExtentExact(Inserted(p, o))
<1>1. ASSUME NEW p \in Page, NEW id, SlotsOf(p, id) # {}
      PROVE  ExtentExact(page_remove_object(p, id))
  <2> DEFINE q == page_remove_object(p, id)
  <2>1. q.extent = Hull({q.objects[j].mbr : j \in Live(q)})
    BY <1>1, PageRemoves
  <2> HIDE DEF q
  <2>2. ExtentExact(q)
    BY <2>1 DEF ExtentExact
  <2> QED BY <2>2 DEF q
<1>2. ASSUME NEW p \in Page, NEW o \in SpatialObject, ~ page_is_full(p)
      PROVE  ExtentExact(Inserted(p, o))
  <2> DEFINE q == Inserted(p, o)
  <2>1. q.extent = Hull({q.objects[j].mbr : j \in Live(q)})
    BY <1>2, InsertedPage
  <2> HIDE DEF q
  <2>2. ExtentExact(q)
    BY <2>1 DEF ExtentExact
  <2> QED BY <2>2 DEF q
<1> QED BY <1>1, <1>2

\* A live slot holds an object with a rectangle.
LEMMA LiveObjects ==
  ASSUME NEW d, Sound(d), NEW a \in LiveSlots(d)
  PROVE  ObjectAt(d, a) \in SpatialObject /\ ObjectAt(d, a).mbr \in MBR
<1>1. a[1] \in Serials(d) /\ a[2] \in Slot
  BY LiveSlotsFinite
<1>2. d.pages[a[1]] \in Page
  BY <1>1, SerialPages DEF Sound
<1> QED BY <1>1, <1>2 DEF ObjectAt, Page, SpatialObject

\* The calls that change objects keep bounds and extents in step.
LEMMA ObjectBounds ==
  ASSUME NEW d, Sound(dm), Sound(d), bounds \in MBR, TakesOut(dm, d), PutsIn(d, dm')
  PROVE  /\ BoundsCover(dm, bounds) => BoundsCover(dm', bounds')
         /\ ExtentsExact(dm) => ExtentsExact(dm')
<1>1. /\ BoundsCover(dm, bounds) => BoundsCover(d, bounds)
      /\ ExtentsExact(dm) => ExtentsExact(d)
  <2>1. ASSUME NEW id, NEW s, Removes(dm, d, id, s)
        PROVE  /\ BoundsCover(dm, bounds) => BoundsCover(d, bounds)
               /\ ExtentsExact(dm) => ExtentsExact(d)
    <3>1. BoundsCover(dm, bounds) => BoundsCover(d, bounds)
      BY <2>1, RemovesObjects DEF BoundsCover
    <3>2. /\ dm.pages[s] \in Page /\ SlotsOf(dm.pages[s], id) # {} /\ Serials(d) = Serials(dm)
          /\ d.pages[s] = page_remove_object(dm.pages[s], id)
          /\ \A t \in Serials(dm) : t # s => d.pages[t] = dm.pages[t]
      BY <2>1, RemovesPages
    <3>3. ExtentExact(d.pages[s])
      BY <3>2, RewrittenExtents
    <3> QED BY <3>1, <3>2, <3>3 DEF ExtentsExact
  <2> QED BY <2>1 DEF TakesOut
<1>2. ASSUME NEW o \in SpatialObject, NEW s, NEW q, Inserts(d, dm', o, s, q),
             bounds' = mbr_expand_mbr(bounds, o.mbr)
      PROVE  /\ BoundsCover(d, bounds) => BoundsCover(dm', bounds')
             /\ ExtentsExact(d) => ExtentsExact(dm')
  <2>1. o.mbr \in MBR
    BY DEF SpatialObject
  <2>2. ASSUME BoundsCover(d, bounds), NEW a \in LiveSlots(dm'), ~ mbr_is_empty(ObjectAt(dm', a).mbr)
        PROVE  mbr_contains_mbr(bounds', ObjectAt(dm', a).mbr)
    <3>1. CASE ObjectAt(dm', a) = o
      BY <1>2, <2>1, <2>2, <3>1, ExpandContains
    <3>2. CASE \E b \in LiveSlots(d) : ObjectAt(dm', a) = ObjectAt(d, b)
      <4>1. PICK b \in LiveSlots(d) : ObjectAt(dm', a) = ObjectAt(d, b)
        BY <3>2
      <4>2. mbr_contains_mbr(bounds, ObjectAt(d, b).mbr) /\ ObjectAt(d, b).mbr \in MBR
        BY <2>2, <4>1, LiveObjects DEF BoundsCover
      <4> QED BY <1>2, <2>1, <4>1, <4>2, ExpandContains
    <3> QED BY <1>2, <3>1, <3>2, InsertsObjects
  <2>3. /\ Serials(dm') = Serials(d) \cup {s} /\ dm'.pages[s] = Inserted(q, o)
        /\ \A t \in Serials(d) : t # s => dm'.pages[t] = d.pages[t]
    BY <1>2, InsertsPages
  <2>4. ExtentExact(dm'.pages[s])
    BY <1>2, <2>3, RewrittenExtents DEF Inserts
  <2> QED BY <2>2, <2>3, <2>4 DEF BoundsCover, ExtentsExact
<1>3. ASSUME NEW o \in SpatialObject, Misses(d, dm'), bounds' = mbr_expand_mbr(bounds, o.mbr)
      PROVE  /\ BoundsCover(d, bounds) => BoundsCover(dm', bounds')
             /\ ExtentsExact(d) => ExtentsExact(dm')
  <2>1. /\ Serials(dm') = Serials(d) /\ LiveSlots(dm') = LiveSlots(d) /\ dm'.pages = d.pages
        /\ \A a : ObjectAt(dm', a) = ObjectAt(d, a)
    BY <1>3 DEF Misses, Serials, LiveSlots, ObjectAt
  <2>2. o.mbr \in MBR
    BY DEF SpatialObject
  <2>3. BoundsCover(d, bounds) => BoundsCover(dm', bounds')
    BY <1>3, <2>1, <2>2, LiveObjects, ExpandContains DEF BoundsCover
  <2> QED BY <2>1, <2>3 DEF ExtentsExact
<1> QED BY <1>1, <1>2, <1>3 DEF PutsIn

-----------------------------------------------------------------------------
\* A session: one index in memory.

\* A session is a history of calls of urbis.h, and so of all calls.
LEMMA SessionIsApi == SessionSpec => ApiSpec
<1>1. [SessionNext]_vars => [ApiNext]_vars
  BY DEF ApiNext
<1> QED BY <1>1, PTL DEF SessionSpec, ApiSpec

LEMMA SessionIsSpec == SessionSpec => Spec
  BY SessionIsApi, ApiIsSpec, PTL

\* What a session keeps of bounds and extents.
SessionInv == BoundsCover(dm, bounds) /\ ExtentsExact(dm)

\* The empty index has nothing to cover.
LEMMA InitSession == Init => SessionInv
<1> SUFFICES ASSUME Init PROVE SessionInv
  OBVIOUS
<1>1. dm = disk_manager_init
  BY DEF Init, InitIndex
<1>2. Serials(dm) = {}
  BY <1>1 DEF disk_manager_init, Serials
<1> QED BY <1>2 DEF SessionInv, BoundsCover, ExtentsExact, LiveSlots

\* Building and querying leave the pages and the bounds alone.
LEMMA BuildSession ==
  ASSUME IInv, SessionInv, Build \/ FindAdjacentPages \/ UNCHANGED vars
  PROVE  SessionInv'
<1>1. Sound(dm) /\ IndexTypes
  BY PartsFromInv
<1>2. dm'.pages = dm.pages /\ bounds' = bounds
  <2>1. CASE Build
    <3>1. BuildFrom(dm, bounds) /\ bounds' = bounds /\ bounds \in MBR
      BY <1>1, <2>1 DEF Build, IndexTypes
    <3> QED BY <1>1, <3>1, BuildFromSound
  <2>2. CASE FindAdjacentPages \/ UNCHANGED vars
    BY <2>2 DEF FindAdjacentPages, vars
  <2> QED BY <2>1, <2>2
<1> DEFINE e == dm'
<1>3. /\ Serials(e) = Serials(dm) /\ LiveSlots(e) = LiveSlots(dm)
      /\ \A a : ObjectAt(e, a) = ObjectAt(dm, a)
  BY <1>2 DEF Serials, LiveSlots, ObjectAt
<1>4. BoundsCover(e, bounds') /\ ExtentsExact(e)
  BY <1>2, <1>3 DEF SessionInv, BoundsCover, ExtentsExact
<1> QED BY <1>4
        DEF SessionInv, BoundsCover, ExtentsExact, ExtentExact, LiveSlots, Live, Serials, ObjectAt

\* The calls that change objects keep them too.
LEMMA ObjectSession ==
  ASSUME IInv, SessionInv, ObjectNext
  PROVE  SessionInv'
<1>1. Sound(dm) /\ bounds \in MBR
  BY PartsFromInv DEF IndexTypes
<1>2. PICK d : Sound(d) /\ TakesOut(dm, d) /\ PutsIn(d, dm')
  BY ObjectShape
<1> DEFINE e == dm'
<1>3. BoundsCover(e, bounds') /\ ExtentsExact(e)
  BY <1>1, <1>2, ObjectBounds DEF SessionInv
<1> QED BY <1>3
        DEF SessionInv, BoundsCover, ExtentsExact, ExtentExact, LiveSlots, Live, Serials, ObjectAt

\* Bounds and extents are sound in every state of a session.
LEMMA SessionInvHolds == SessionSpec => []SessionInv
<1>1. IInv /\ SessionInv /\ [SessionNext]_vars => SessionInv'
  BY BuildSession, ObjectSession DEF SessionNext
<1>2. SessionSpec => Init /\ [][SessionNext]_vars
  BY DEF SessionSpec
<1> QED BY <1>1, <1>2, InitSession, SessionIsSpec, InvHolds, PTL

\* A page with objects has one in slot 1, and a rectangle.
LEMMA NonEmptyPages ==
  ASSUME Sound(dm), NEW s \in NonEmpty(dm)
  PROVE  /\ s \in Serials(dm) /\ dm.pages[s] \in Page /\ dm.pages[s].extent \in MBR
         /\ <<s, 1>> \in LiveSlots(dm)
<1>1. s \in Serials(dm) /\ dm.pages[s] \in Page /\ dm.pages[s].object_count > 0
  BY SerialPages DEF NonEmpty, Sound
<1>2. 1 \in Live(dm.pages[s])
  BY <1>1, PageAssumption DEF Live, Slot, Page
<1>3. dm.pages[s].extent \in MBR
  BY <1>1 DEF Page
<1>4. <<s, 1>> \in LiveSlots(dm)
  BY <1>1, <1>2 DEF LiveSlots
<1> QED BY <1>1, <1>3, <1>4

\* In a session its extent lies in the bounds.
LEMMA ExtentsInBounds ==
  ASSUME Sound(dm), bounds \in MBR, SessionInv, NEW s \in NonEmpty(dm),
         ~ mbr_is_empty(dm.pages[s].extent)
  PROVE  mbr_contains_mbr(bounds, dm.pages[s].extent)
<1> DEFINE p == dm.pages[s]
           M == {p.objects[i].mbr : i \in Live(p)}
<1>1. s \in Serials(dm) /\ p \in Page
  BY NonEmptyPages
<1>2. p.extent = Hull(M)
  BY <1>1 DEF SessionInv, ExtentsExact, ExtentExact
<1>3. \A i \in Live(p) : <<s, i>> \in LiveSlots(dm) /\ ObjectAt(dm, <<s, i>>) = p.objects[i]
  BY <1>1 DEF LiveSlots, ObjectAt
<1>4. M \subseteq MBR
  BY <1>1 DEF Live, Page, SpatialObject
<1>5. \A m \in M : ~ mbr_is_empty(m) => mbr_contains_mbr(bounds, m)
  BY <1>3 DEF SessionInv, BoundsCover
<1> HIDE DEF M
<1> QED BY <1>2, <1>4, <1>5, HullWithin

(***************************************************************************)
(* The bounds of the index contain every object of a session and the       *)
(* extent of every page with objects: the bounds grow by each object's     *)
(* rectangle, and a remove shrinks the extent of its page                  *)
(* (spatial_index_insert, page_update_derived).                            *)
(***************************************************************************)
THEOREM BoundsCoverObjectsHolds == SessionSpec => []BoundsCoverObjects
<1>1. ASSUME IInv, SessionInv PROVE BoundsCoverObjects
  <2>1. Sound(dm) /\ bounds \in MBR
    BY <1>1, PartsFromInv DEF IndexTypes
  <2>2. \A s \in NonEmpty(dm) :
          ~ mbr_is_empty(dm.pages[s].extent) => mbr_contains_mbr(bounds, dm.pages[s].extent)
    BY <1>1, <2>1, ExtentsInBounds
  <2> QED BY <1>1, <2>2 DEF SessionInv, BoundsCover, BoundsCoverObjects
<1> QED BY <1>1, SessionInvHolds, SessionIsSpec, InvHolds, PTL

-----------------------------------------------------------------------------
\* The page quadtree.

\* Rectangles whose corners may be anywhere: those of nodes are scaled.
Box == [min_x : Int, min_y : Int, max_x : Int, max_y : Int]

Place == [path : Seq(1..4), box : Box, item : Box]

\* A descent goes down one node, or has ended.
LEMMA DescendPlace ==
  ASSUME NEW n \in Place
  PROVE  /\ Descend(n) \in Place
         /\ Fitting(n) = {} => Descend(n) = n
         /\ Fitting(n) # {} => Len(Descend(n).path) = Len(n.path) + 1
<1>1. CASE Fitting(n) = {}
  BY <1>1 DEF Descend
<1>2. CASE Fitting(n) # {}
  <2> DEFINE q == Min(Fitting(n))
  <2>1. q \in 1..4
    <3>1. Fitting(n) \subseteq 1..4 /\ Fitting(n) \subseteq Nat
      BY DEF Fitting
    <3>2. q \in Fitting(n)
      BY <1>2, <3>1, MinIndex
    <3> QED BY <3>1, <3>2
  <2> HIDE DEF q
  <2>2. n.path \in Seq(1..4) /\ n.box \in Box /\ n.item \in Box
    BY DEF Place
  <2>3. quadrants(n.box)[q] \in Box
    <3> DEFINE b == n.box
               t == Twice(b)
               mid_x == b.min_x + b.max_x
               mid_y == b.min_y + b.max_y
    <3>1. /\ t.min_x \in Int /\ t.min_y \in Int /\ t.max_x \in Int /\ t.max_y \in Int
          /\ mid_x \in Int /\ mid_y \in Int
      <4>1. b.min_x \in Int /\ b.min_y \in Int /\ b.max_x \in Int /\ b.max_y \in Int
        BY <2>2 DEF Box
      <4>2. mid_x \in Int /\ mid_y \in Int
        BY <4>1
      <4>3. /\ t.min_x = 2 * b.min_x /\ t.min_y = 2 * b.min_y
            /\ t.max_x = 2 * b.max_x /\ t.max_y = 2 * b.max_y
        BY DEF Twice, mbr_create
      <4> QED BY <4>1, <4>2, <4>3
    <3>2. quadrants(b) = << mbr_create(t.min_x, mid_y, mid_x, t.max_y),
                            mbr_create(mid_x, mid_y, t.max_x, t.max_y),
                            mbr_create(t.min_x, t.min_y, mid_x, mid_y),
                            mbr_create(mid_x, t.min_y, t.max_x, mid_y) >>
      BY DEF quadrants
    <3> HIDE DEF t, mid_x, mid_y
    <3>3. \A x1, y1, x2, y2 \in Int : mbr_create(x1, y1, x2, y2) \in Box
      BY DEF mbr_create, Box
    <3>4. q = 1 \/ q = 2 \/ q = 3 \/ q = 4
      BY <2>1
    <3> QED BY <3>1, <3>2, <3>3, <3>4
  <2>4. Twice(n.item) \in Box
    BY <2>2 DEF Twice, mbr_create, Box
  <2>5. Append(n.path, q) \in Seq(1..4) /\ Len(Append(n.path, q)) = Len(n.path) + 1
    BY <2>1, <2>2
  <2>6. Descend(n) = [path |-> Append(n.path, q), box |-> quadrants(n.box)[q], item |-> Twice(n.item)]
    BY <1>2 DEF Descend, q
  <2>7. Descend(n).path = Append(n.path, q)
    BY <2>6
  <2>8. Descend(n) \in Place
    BY <2>3, <2>4, <2>5, <2>6 DEF Place
  <2> QED BY <1>2, <2>5, <2>7, <2>8
<1> QED BY <1>1, <1>2

\* The home of an item is at the greatest depth, or the item fits in none of
\* its children: the descent ends nowhere else.
LEMMA HomeEnds ==
  ASSUME NEW root \in MBR, NEW m \in MBR
  PROVE  Len(home(root, m).path) = QT_MAX_DEPTH \/ Fitting(home(root, m)) = {}
<1> DEFINE N == QT_MAX_DEPTH
           x == [path |-> <<>>, box |-> root, item |-> m]
           G == [d \in 1..N |-> [n \in Place |-> Descend(n)]]
           Rule(f) == f = [d \in 0..N |-> IF d = 0 THEN x ELSE Descend(f[d - 1])]
           at == CHOOSE f : Rule(f)
<1>1. N \in Nat
  BY FillAssumption
<1>2. x \in Place /\ x.path = <<>>
  BY DEF Place, Box, MBR, Coord
<1>3. home(root, m) = at[N]
  BY DEF home
<1> HIDE DEF N, x
<1>4. \A d \in 1..N : \A n \in Place : G[d][n] = Descend(n) /\ G[d][n] \in Place
  BY DescendPlace
<1> HIDE DEF G
<1>5. PICK f : IsRun(f, Place, x, N, G)
  <2>1. \A d \in 1..N : \A y \in Place : G[d][y] \in Place
    BY <1>4
  <2> DEFINE S == Place
  <2> HIDE DEF S
  <2>2. \E f : IsRun(f, S, x, N, G)
    BY <1>1, <1>2, <2>1, Iterated DEF S
  <2> QED BY <2>2 DEF S
<1>6. /\ f \in [0..N -> Place] /\ f[0] = x
      /\ \A d \in 1..N : f[d] = G[d][f[d - 1]]
  BY <1>5 DEF IsRun
<1>7. \A d \in 1..N : f[d - 1] \in Place
  BY <1>1, <1>6
<1>8. \A d \in 1..N : f[d] = Descend(f[d - 1])
  BY <1>4, <1>6, <1>7
<1>9. Rule(f)
  <2>1. \A d \in 0..N : f[d] = IF d = 0 THEN x ELSE Descend(f[d - 1])
    BY <1>1, <1>6, <1>8
  <2> QED BY <1>6, <2>1
<1>10. Rule(at)
  BY <1>9, Zenon
<1>11. at[0] = x /\ \A d \in 1..N : at[d] = Descend(at[d - 1])
  <2> DEFINE r(d) == IF d = 0 THEN x ELSE Descend(at[d - 1])
  <2> HIDE DEF at
  <2>1. at = [d \in 0..N |-> r(d)]
    BY <1>10
  <2>2. \A d \in 0..N : at[d] = r(d)
    <3> HIDE DEF r
    <3> QED BY <2>1
  <2> QED BY <1>1, <2>2
<1> HIDE DEF at
<1> DEFINE Ended(n, d) == n \in Place /\ (Len(n.path) = d \/ Fitting(n) = {})
           T == {d \in Nat : d <= N => Ended(at[d], d)}
<1>12. 0 \in T
  BY <1>2, <1>11
<1>13. ASSUME NEW d \in Nat, d \in T PROVE d + 1 \in T
  <2> SUFFICES ASSUME d + 1 <= N PROVE Ended(at[d + 1], d + 1)
    OBVIOUS
  <2>1. Ended(at[d], d)
    BY <1>1, <1>13
  <2>2. d + 1 \in 1..N /\ (d + 1) - 1 = d
    BY <1>1
  <2>3. at[d + 1] = Descend(at[d])
    BY <1>11, <2>2
  <2> QED BY <2>1, <2>3, DescendPlace
<1>14. N \in T
  <2>1. Nat \subseteq T
    <3> HIDE DEF T
    <3> QED BY <1>12, <1>13, InductiveSet
  <2> QED BY <1>1, <2>1
<1>15. Len(at[N].path) = N \/ Fitting(at[N]) = {}
  BY <1>1, <1>14
<1> QED BY <1>3, <1>15 DEF N, at, x

\* The quadtree of a built index is of its pages and bounds.
BuiltPageTree == is_built => PageTreeCurrent

\* A call leaves the index unbuilt, or the quadtree current.
LEMMA NextPageTree ==
  ASSUME IInv, [Next]_vars, BuiltPageTree
  PROVE  BuiltPageTree'
<1>1. Sound(dm)
  BY PartsFromInv
<1>2. CASE ObjectNext
  BY <1>2, ObjectShape DEF BuiltPageTree
<1>3. CASE KeepingStep
  <2>1. CASE UNCHANGED <<is_built, block_tree, page_tree, bounds>>
    <3>1. LiveSlots(dm') = LiveSlots(dm)
      BY <1>1, <1>3, KeptPages DEF KeepingStep
    <3>2. build_page_quadtree(dm', bounds) = build_page_quadtree(dm, bounds)
      BY <1>1, <1>3, KeptQuadtree DEF KeepingStep
    <3>3. LiveSlots(dm)' = LiveSlots(dm')
      BY DEF LiveSlots, Live, Serials
    <3>4. build_page_quadtree(dm, bounds)' = build_page_quadtree(dm', bounds')
      OBVIOUS
    <3> QED BY <2>1, <3>1, <3>2, <3>3, <3>4 DEF BuiltPageTree, PageTreeCurrent
  <2>2. CASE PageTreeCurrent'
    BY <2>2 DEF BuiltPageTree
  <2> QED BY <1>3, <2>1, <2>2 DEF KeepingStep
<1>4. CASE LoadingStep
  BY <1>4 DEF LoadingStep, BuiltPageTree
<1>5. CASE ResettingStep \/ ClearingStep
  BY <1>5 DEF ResettingStep, ClearingStep, BuiltPageTree
<1> QED BY <1>2, <1>3, <1>4, <1>5, NextShape

\* It is current in every reachable state.
LEMMA BuiltPageTreeHolds == Spec => []BuiltPageTree
<1>1. Init => BuiltPageTree
  BY DEF Init, InitIndex, BuiltPageTree
<1>2. IInv /\ [Next]_vars /\ BuiltPageTree => BuiltPageTree'
  BY NextPageTree
<1> QED BY <1>1, <1>2, InvHolds, PTL DEF Spec

\* Rectangles that meet a region are not empty.
LEMMA MeetsItself ==
  ASSUME NEW m \in MBR, NEW r \in MBR, mbr_intersects(m, r)
  PROVE  mbr_intersects(m, m)
  BY InfAssumption DEF mbr_intersects, mbr_is_empty, MBR, Coord

\* What a current quadtree answers: pages that meet the region, and of them
\* all that the splits have left in it.
LEMMA CurrentFinds ==
  ASSUME IInv, PageTreeCurrent, LiveSlots(dm) # {}, NEW r \in Regions
  PROVE  /\ \A s \in find_adjacent_pages(page_tree, r) : mbr_intersects(dm.pages[s].extent, r)
         /\ \A s \in Kept(bounds, PageExtents(dm)) :
              mbr_intersects(bounds, r) /\ mbr_intersects(dm.pages[s].extent, r)
                => s \in find_adjacent_pages(page_tree, r)
<1> DEFINE kept == Kept(bounds, PageExtents(dm))
           items == {[page |-> s, extent |-> dm.pages[s].extent] : s \in kept}
<1>1. Sound(dm) /\ bounds \in MBR
  BY PartsFromInv DEF IndexTypes
<1>2. Serials(dm) # {}
  BY LiveSlotsFinite
<1>3. page_tree = [bounds |-> bounds, items |-> items]
  BY <1>2 DEF PageTreeCurrent, build_page_quadtree
<1>4. page_tree # Null
  <2>1. build_page_quadtree(dm, bounds) \in PageTree \cup {Null}
    BY <1>1, QuadtreeType
  <2>2. kept \subseteq NonEmpty(dm)
    BY DEF Kept, Accepted, PageExtents
  <2> HIDE DEF kept
  <2>3. \A s \in kept : s \in 1..MaxPages /\ dm.pages[s].extent \in MBR
    BY <1>1, <2>2, NonEmptyPages DEF Serials
  <2>4. items \in SUBSET [page : 1..MaxPages, extent : MBR]
    BY <2>3
  <2> HIDE DEF items
  <2>5. page_tree \in PageTree
    BY <1>1, <1>3, <2>4 DEF PageTree
  <2> QED BY <2>5, TreeAssumption
<1> HIDE DEF kept
<1>5. \A i \in items : i.page \in kept /\ i.extent = dm.pages[i.page].extent
  OBVIOUS
<1>6. ASSUME NEW s \in kept PROVE \E i \in items : i.page = s /\ i.extent = dm.pages[s].extent
  <2> DEFINE i == [page |-> s, extent |-> dm.pages[s].extent]
  <2>1. i \in items /\ i.page = s /\ i.extent = dm.pages[s].extent
    OBVIOUS
  <2> QED BY <2>1
<1> HIDE DEF items
<1>7. page_tree.bounds = bounds /\ page_tree.items = items
  BY <1>3
<1>8. ASSUME NEW s \in find_adjacent_pages(page_tree, r)
      PROVE  mbr_intersects(dm.pages[s].extent, r)
  <2>1. PICK i \in page_tree.items : i.page = s /\ mbr_intersects(i.extent, r)
    BY DEF find_adjacent_pages
  <2> QED BY <1>5, <1>7, <2>1
<1>9. ASSUME NEW s \in kept, mbr_intersects(bounds, r), mbr_intersects(dm.pages[s].extent, r)
      PROVE  s \in find_adjacent_pages(page_tree, r)
  <2>1. PICK i \in items : i.page = s /\ i.extent = dm.pages[s].extent
    BY <1>6
  <2>2. s \in {j.page : j \in {k \in page_tree.items : mbr_intersects(k.extent, r)}}
    BY <1>7, <1>9, <2>1
  <2> QED BY <1>4, <1>7, <1>9, <2>2 DEF find_adjacent_pages
<1> QED BY <1>8, <1>9 DEF kept

(***************************************************************************)
(* Whatever calls came before, an adjacency query of a built index returns *)
(* every object that meets the region but those of pages it misses, and it *)
(* misses a page inside the bounds of the index only when a split has      *)
(* dropped it: more pages than a node holds came to the node whose         *)
(* midlines the page crosses.  The argument holds for every node capacity  *)
(* and every number of pages (build_page_quadtree, qtnode_split,           *)
(* urbis_index_query_adjacent).                                            *)
(***************************************************************************)
THEOREM AdjacentCompleteHolds == Spec => []AdjacentComplete
<1>1. ASSUME IInv, BuiltPageTree PROVE AdjacentComplete
  <2>1. Sound(dm) /\ bounds \in MBR
    BY <1>1, PartsFromInv DEF IndexTypes
  <2> SUFFICES ASSUME is_built, NEW r \in Regions
               PROVE  /\ query_adjacent(page_tree, r) = {a \in query_range(r) : a[1] \notin MissedPages(r)}
                      /\ \A s \in MissedPages(r) :
                           LostInSplit(s) \/ ~ mbr_contains_mbr(bounds, dm.pages[s].extent)
    BY DEF AdjacentComplete
  <2>2. PageTreeCurrent /\ r \in MBR
    BY <1>1, RegionAssumption DEF BuiltPageTree
  <2>3. \A s \in NonEmpty(dm) : dm.pages[s].extent \in MBR /\ LiveSlots(dm) # {}
    BY <2>1, NonEmptyPages
  <2> DEFINE found == find_adjacent_pages(page_tree, r)
             meeting == {s \in NonEmpty(dm) : mbr_intersects(dm.pages[s].extent, r)}
  <2>4. MissedPages(r) = meeting \ found
    BY DEF MissedPages
  <2>5. query_adjacent(page_tree, r) = {a \in query_range(r) : a[1] \notin MissedPages(r)}
    <3>1. ASSUME NEW a \in LiveSlots(dm)
          PROVE  a[1] \in found <=> mbr_intersects(dm.pages[a[1]].extent, r) /\ a[1] \notin MissedPages(r)
      <4>1. a[1] \in NonEmpty(dm)
        <5>1. PICK s \in Serials(dm) : \E i \in Live(dm.pages[s]) : a = <<s, i>>
          BY DEF LiveSlots
        <5>2. PICK i \in Live(dm.pages[s]) : a = <<s, i>>
          BY <5>1
        <5>3. dm.pages[s].object_count \in Nat
          BY <2>1, SerialPages, PageAssumption DEF Sound, Page
        <5> QED BY <5>2, <5>3 DEF Live, Slot, NonEmpty
      <4>2. a[1] \in found => mbr_intersects(dm.pages[a[1]].extent, r)
        BY <1>1, <2>2, CurrentFinds
      <4> HIDE DEF found
      <4> QED BY <2>4, <4>1, <4>2
    <3> HIDE DEF found
    <3>2. query_adjacent(page_tree, r)
          = {a \in LiveSlots(dm) : a[1] \in found /\ mbr_intersects(ObjectAt(dm, a).mbr, r)}
      BY DEF query_adjacent, found
    <3> QED BY <3>1, <3>2 DEF query_range
  <2>6. ASSUME NEW s \in MissedPages(r), mbr_contains_mbr(bounds, dm.pages[s].extent)
        PROVE  LostInSplit(s)
    <3> DEFINE x == dm.pages[s].extent
               ext == PageExtents(dm)
    <3>1. s \in NonEmpty(dm) /\ mbr_intersects(x, r) /\ s \notin found
      BY <2>4
    <3>2. x \in MBR /\ LiveSlots(dm) # {}
      BY <2>3, <3>1
    <3>3. mbr_intersects(bounds, r) /\ mbr_intersects(bounds, x)
      <4>1. mbr_intersects(x, x)
        BY <2>2, <3>1, <3>2, MeetsItself
      <4> HIDE DEF x
      <4> QED BY <2>1, <2>2, <2>6, <3>1, <3>2, <4>1, ContainedIntersects DEF x
    <3>4. s \in DOMAIN ext /\ ext[s] = x
      BY <3>1 DEF PageExtents
    <3>5. s \in Accepted(bounds, ext)
      BY <3>3, <3>4 DEF Accepted
    <3>6. s \notin Kept(bounds, ext)
      BY <1>1, <2>2, <3>1, <3>2, <3>3, CurrentFinds
    <3>7. s \in Dropped(bounds, ext)
      BY <3>5, <3>6 DEF Kept
    <3>8. /\ Len(home(bounds, ext[s]).path) < QT_MAX_DEPTH
          /\ Cardinality(Sharing(bounds, ext, s)) > QT_CAPACITY
      BY <3>7 DEF Dropped
    <3> HIDE DEF x, ext
    <3>9. Len(home(bounds, x).path) < QT_MAX_DEPTH
      BY <3>4, <3>8
    <3>10. Fitting(home(bounds, x)) = {}
      BY <2>1, <3>2, <3>9, HomeEnds, FillAssumption
    <3> QED BY <3>8, <3>10 DEF LostInSplit, x, ext
  <2> QED BY <2>5, <2>6
<1> QED BY <1>1, BuiltPageTreeHolds, InvHolds, PTL

-----------------------------------------------------------------------------
\* Pages and the tracks that list them.

\* Track t lists page s.
Lists(t, s) == \E k \in DOMAIN t.pages : t.pages[k] = s

\* Tracks are not too long and list exactly the pages that name them; no page
\* names a track to come.
OnTracks(d) ==
  /\ \A t \in Tracks(d) : t < d.next_track_id /\ Len(d.tracks[t].pages) <= PAGES_PER_TRACK
  /\ \A s \in Serials(d) : d.pages[s].track_id < d.next_track_id
  /\ \A s \in Serials(d) : \A t \in Tracks(d) : Lists(d.tracks[t], s) <=> t = d.pages[s].track_id

\* Adding a page to a track with room makes it list that page too.
LEMMA AddedPage ==
  ASSUME NEW t, t.pages \in Seq(Nat), Len(t.pages) <= PAGES_PER_TRACK, NEW s \in Nat, NEW content
  PROVE  LET u == track_add_page(t, s, content)
         IN /\ u.pages \in Seq(Nat) /\ Len(u.pages) <= PAGES_PER_TRACK
            /\ \A x : Lists(u, x) => x = s \/ Lists(t, x)
            /\ \A x : Lists(t, x) => Lists(u, x)
            /\ track_has_space(t) => Lists(u, s)
<1> DEFINE u == track_add_page(t, s, content)
           ps == Append(t.pages, s)
<1>1. CASE ~ track_has_space(t)
  BY <1>1 DEF track_add_page
<1>2. CASE track_has_space(t)
  <2>1. u.pages = ps
    BY <1>2 DEF track_add_page
  <2>2. /\ ps \in Seq(Nat) /\ Len(ps) = Len(t.pages) + 1 /\ Len(ps) \in DOMAIN ps /\ ps[Len(ps)] = s
        /\ \A k \in DOMAIN ps : ps[k] = s \/ (k \in DOMAIN t.pages /\ ps[k] = t.pages[k])
        /\ \A k \in DOMAIN t.pages : k \in DOMAIN ps /\ ps[k] = t.pages[k]
    OBVIOUS
  <2>3. Len(t.pages) < PAGES_PER_TRACK /\ Len(t.pages) \in Nat /\ PAGES_PER_TRACK \in Nat
    BY <1>2, PageAssumption DEF track_has_space
  <2> HIDE DEF u, ps
  <2>4. \A x : Lists(u, x) => x = s \/ Lists(t, x)
    BY <2>1, <2>2 DEF Lists
  <2>5. \A x : Lists(t, x) => Lists(u, x)
    BY <2>1, <2>2 DEF Lists
  <2>6. Lists(u, s)
    BY <2>1, <2>2 DEF Lists
  <2>7. u.pages \in Seq(Nat) /\ Len(u.pages) <= PAGES_PER_TRACK
    BY <2>1, <2>2, <2>3
  <2> QED BY <2>4, <2>5, <2>6, <2>7 DEF u
<1> QED BY <1>1, <1>2

\* The second addition of a page adds no other page to the list.
LEMMA AddedTwiceLists ==
  ASSUME NEW t, t.pages \in Seq(Nat), Len(t.pages) <= PAGES_PER_TRACK, track_has_space(t),
         NEW s \in Nat, NEW content
  PROVE  LET v == AddedTwice(t, s, content)
         IN /\ Len(v.pages) <= PAGES_PER_TRACK
            /\ \A x : Lists(v, x) <=> x = s \/ Lists(t, x)
<1> DEFINE u == track_add_page(t, s, content)
           v == track_add_page(u, s, content)
<1>1. /\ u.pages \in Seq(Nat) /\ Len(u.pages) <= PAGES_PER_TRACK
      /\ \A x : Lists(u, x) => x = s \/ Lists(t, x)
      /\ \A x : Lists(t, x) => Lists(u, x)
      /\ Lists(u, s)
  BY AddedPage
<1> HIDE DEF u
<1>2. /\ Len(v.pages) <= PAGES_PER_TRACK
      /\ \A x : Lists(v, x) => x = s \/ Lists(u, x)
      /\ \A x : Lists(u, x) => Lists(v, x)
  BY <1>1, AddedPage
<1> HIDE DEF v
<1>3. v = AddedTwice(t, s, content)
  BY DEF u, v, AddedTwice
<1> QED BY <1>1, <1>2, <1>3

\* New tracks list nothing, and no page has their number.
LEMMA FreshTracks ==
  ASSUME NEW d, Sound(d), OnTracks(d), NEW e, NEW n \in Nat,
         Serials(e) = Serials(d),
         \A s \in Serials(d) : e.pages[s].track_id = d.pages[s].track_id,
         e.next_track_id = d.next_track_id + n,
         \A t \in 1..MaxTracks :
           e.tracks[t] = IF t \in d.next_track_id..(d.next_track_id + n - 1)
                         THEN track_create ELSE d.tracks[t]
  PROVE  OnTracks(e)
<1>1. d.next_track_id \in Nat
  BY DEF Sound, Manager
<1>2. \A s \in Serials(d) : d.pages[s].track_id \in Nat
  BY SerialPages DEF Sound, Page
<1>3. Len(track_create.pages) = 0 /\ \A x : ~ Lists(track_create, x)
  BY DEF track_create, Lists
<1>4. ASSUME NEW t \in Tracks(e)
      PROVE  /\ t \in Nat
             /\ \/ t \in d.next_track_id..(d.next_track_id + n - 1) /\ e.tracks[t] = track_create
                \/ t \in Tracks(d) /\ e.tracks[t] = d.tracks[t]
  BY BoundAssumption DEF Tracks
<1>5. \A t \in Tracks(e) : t < e.next_track_id /\ Len(e.tracks[t].pages) <= PAGES_PER_TRACK
  BY <1>1, <1>3, <1>4, PageAssumption DEF OnTracks
<1>6. \A s \in Serials(e) : e.pages[s].track_id < e.next_track_id
  BY <1>1, <1>2 DEF OnTracks
<1>7. \A s \in Serials(e) : \A t \in Tracks(e) : Lists(e.tracks[t], s) <=> t = e.pages[s].track_id
  BY <1>1, <1>2, <1>3, <1>4 DEF OnTracks
<1> QED BY <1>5, <1>6, <1>7 DEF OnTracks

\* The same tracks, and pages that still name them.
LEMMA SameTracks ==
  ASSUME NEW d, OnTracks(d), NEW e, Serials(e) = Serials(d),
         \A s \in Serials(d) : e.pages[s].track_id = d.pages[s].track_id,
         e.next_track_id = d.next_track_id, e.tracks = d.tracks
  PROVE  OnTracks(e)
  BY DEF OnTracks, Tracks

\* The track chosen for a new page.
LEMMA RoomOnTracks ==
  ASSUME NEW d, Sound(d), OnTracks(d), CanAllocPage(d)
  PROVE  OnTracks(WithRoom(d)) /\ WithRoom(d).pages = d.pages
<1>1. CASE WithSpace(d) # {}
  BY <1>1 DEF WithRoom
<1>2. CASE WithSpace(d) = {}
  <2> DEFINE e == disk_manager_create_track(d)
  <2>1. /\ e.pages = d.pages /\ d.next_track_id \in 1..MaxTracks
        /\ e.next_track_id = d.next_track_id + 1
        /\ e.tracks = [d.tracks EXCEPT ![d.next_track_id] = track_create]
    BY <1>2, CreateTrackSound DEF CanAllocPage
  <2> HIDE DEF e
  <2>2. d.tracks \in [1..MaxTracks -> Track \cup {Null}]
    BY DEF Sound, Manager
  <2>3. \A t \in 1..MaxTracks :
           e.tracks[t] = IF t \in d.next_track_id..(d.next_track_id + 1 - 1)
                         THEN track_create ELSE d.tracks[t]
    <3>1. d.next_track_id..(d.next_track_id + 1 - 1) = {d.next_track_id}
      BY <2>1, BoundAssumption
    <3>2. \A t \in 1..MaxTracks : e.tracks[t] = IF t = d.next_track_id THEN track_create ELSE d.tracks[t]
      BY <2>1, <2>2
    <3> QED BY <3>1, <3>2
  <2>4. Serials(e) = Serials(d)
    BY <2>1 DEF Serials
  <2>5. OnTracks(e)
    BY <2>1, <2>3, <2>4, FreshTracks
  <2>6. WithRoom(d) = e
    BY <1>2 DEF WithRoom, e
  <2> QED BY <2>1, <2>5, <2>6
<1> QED BY <1>1, <1>2

\* Neither way to rewrite a page changes the track it names.
LEMMA RewrittenTracks ==
  /\ \A p \in Page : \A id : SlotsOf(p, id) # {} => page_remove_object(p, id).track_id = p.track_id
  /\ \A p \in Page, o \in SpatialObject : ~ page_is_full(p) => Inserted(p, o).track_id = p.track_id
<1>1. ASSUME NEW p \in Page, NEW id, SlotsOf(p, id) # {}
      PROVE  page_remove_object(p, id).track_id = p.track_id
  BY <1>1, PageRemoves
<1>2. ASSUME NEW p \in Page, NEW o \in SpatialObject, ~ page_is_full(p)
      PROVE  Inserted(p, o).track_id = p.track_id
  BY <1>2, InsertedPage
<1> QED BY <1>1, <1>2

\* An insert lists a new page on the track the page names, only.
LEMMA InsertsOnTracks ==
  ASSUME NEW d, Sound(d), Allocation(d), OnTracks(d),
         NEW e, NEW o \in SpatialObject, NEW s, NEW q, Inserts(d, e, o, s, q)
  PROVE  OnTracks(e)
<1>1. /\ s \in 1..MaxPages /\ Serials(e) = Serials(d) \cup {s} /\ e.pages[s] = Inserted(q, o)
      /\ \A t \in Serials(d) : t # s => e.pages[t] = d.pages[t]
  BY InsertsPages
<1>2. e.pages[s].track_id = q.track_id
  BY <1>1, RewrittenTracks DEF Inserts
<1>3. CASE OntoListedPage(d, e, s, q)
  <2>1. s \in Serials(d) /\ q = d.pages[s] /\ e.next_track_id = d.next_track_id /\ e.tracks = d.tracks
    BY <1>3 DEF OntoListedPage
  <2>2. Serials(e) = Serials(d) /\ \A t \in Serials(d) : e.pages[t].track_id = d.pages[t].track_id
    BY <1>1, <1>2, <2>1
  <2> QED BY <2>1, <2>2, SameTracks
<1>4. CASE OntoNewPage(d, e, s, q, o.centroid)
  <2> DEFINE c == o.centroid
             a == disk_manager_alloc_page(d, c)
             w == WithRoom(d)
             tid == disk_manager_find_best_track(w, c)
             content == PagesWithNew(d, c)
  <2>1. c \in Point
    BY DEF SpatialObject
  <2>2. /\ CanAllocPage(d) /\ s = d.next_page_id /\ q = a.pages[s]
        /\ e.tracks = a.tracks /\ e.next_track_id = a.next_track_id
    BY <1>4 DEF OntoNewPage
  <2>3. /\ a.pages = content /\ Sound(w) /\ a.next_track_id = w.next_track_id
        /\ tid \in WithSpace(w) /\ tid \in Nat
        /\ a.tracks = [w.tracks EXCEPT ![tid] = AddedTwice(@, s, content)]
    <3>1. Sound(w) /\ a.pages = content /\ PlacesPage(d, a, c)
      BY <2>1, <2>2, AllocPageSound
    <3> HIDE DEF a
    <3>2. /\ tid \in WithSpace(w) /\ tid \in Nat /\ a.next_track_id = w.next_track_id
          /\ a.tracks = [w.tracks EXCEPT ![tid] = AddedTwice(@, d.next_page_id, content)]
      BY <3>1, Zenon DEF PlacesPage
    <3> HIDE DEF w, tid, content
    <3> QED BY <2>2, <3>1, <3>2
  <2>4. q.track_id = tid
    <3>1. content = [d.pages EXCEPT ![s] = NewPageOn(s, tid, c)]
      BY <2>2 DEF PagesWithNew
    <3>2. d.pages \in [1..MaxPages -> Page \cup {Null}]
      BY DEF Sound, Manager
    <3>3. q = NewPageOn(s, tid, c)
      BY <1>1, <2>2, <2>3, <3>1, <3>2
    <3> QED BY <3>3 DEF NewPageOn, page_create
  <2>5. OnTracks(w) /\ w.pages = d.pages
    BY <2>2, RoomOnTracks
  <2> HIDE DEF a, w, tid, content
  <2>6. w \in Manager /\ TracksListPages(w) /\ Serials(w) = Serials(d) /\ s \in Nat /\ s \notin Serials(d)
    BY <1>1, <2>2, <2>3, <2>5 DEF Sound, Serials, Allocation
  <2>7. tid \in Tracks(w) /\ w.tracks[tid] \in Track /\ track_has_space(w.tracks[tid])
    BY <2>3, <2>6, SerialPages DEF WithSpace
  <2> DEFINE old == w.tracks[tid]
             new == AddedTwice(old, s, content)
  <2>8. /\ Len(new.pages) <= PAGES_PER_TRACK
        /\ \A x : Lists(new, x) <=> x = s \/ Lists(old, x)
    <3>1. old.pages \in Seq(Nat) /\ Len(old.pages) <= PAGES_PER_TRACK
      BY <2>5, <2>7 DEF Track, OnTracks
    <3> QED BY <2>6, <2>7, <3>1, AddedTwiceLists
  <2> HIDE DEF new
  <2>9. /\ e.tracks[tid] = new
        /\ \A t \in 1..MaxTracks : t # tid => e.tracks[t] = w.tracks[t]
    BY <2>2, <2>3, <2>6, <2>7 DEF Manager, Tracks, new
  <2>10. \A t \in Tracks(e) : t \in Tracks(w) /\ (t # tid => e.tracks[t] = w.tracks[t])
    BY <2>7, <2>9 DEF Tracks
  <2>11. \A t \in Tracks(w) : ~ Lists(w.tracks[t], s)
    BY <2>6 DEF TracksListPages, Lists
  <2>12. \A t \in Tracks(e) : \A x : Lists(e.tracks[t], x) <=> (t = tid /\ x = s) \/ Lists(w.tracks[t], x)
    BY <2>8, <2>9, <2>10
  <2>13. \A t \in Tracks(e) : t < e.next_track_id /\ Len(e.tracks[t].pages) <= PAGES_PER_TRACK
    BY <2>2, <2>3, <2>5, <2>8, <2>9, <2>10 DEF OnTracks
  <2>14. \A x \in Serials(d) : e.pages[x].track_id = w.pages[x].track_id
    BY <1>1, <2>5, <2>6
  <2>15. e.pages[s].track_id = tid /\ tid < e.next_track_id
    BY <1>2, <2>2, <2>3, <2>4, <2>5, <2>7 DEF OnTracks
  <2>16. \A x \in Serials(e) : e.pages[x].track_id < e.next_track_id
    BY <1>1, <2>2, <2>3, <2>5, <2>6, <2>14, <2>15 DEF OnTracks
  <2>17. \A x \in Serials(e) : \A t \in Tracks(e) : Lists(e.tracks[t], x) <=> t = e.pages[x].track_id
    <3>1. ASSUME NEW x \in Serials(d), NEW t \in Tracks(e)
          PROVE  Lists(e.tracks[t], x) <=> t = e.pages[x].track_id
      <4>1. x # s /\ t \in Tracks(w) /\ x \in Serials(w)
        BY <2>6, <2>10
      <4> QED BY <2>5, <2>12, <2>14, <4>1 DEF OnTracks
    <3>2. ASSUME NEW t \in Tracks(e)
          PROVE  Lists(e.tracks[t], s) <=> t = e.pages[s].track_id
      BY <2>10, <2>11, <2>12, <2>15
    <3> QED BY <1>1, <3>1, <3>2
  <2> QED BY <2>13, <2>16, <2>17 DEF OnTracks
<1> QED BY <1>3, <1>4 DEF Inserts

\* A remove leaves tracks and their pages alone.
LEMMA RemovesOnTracks ==
  ASSUME NEW d, Sound(d), OnTracks(d), NEW e, NEW id, NEW s, Removes(d, e, id, s)
  PROVE  OnTracks(e)
<1>1. /\ d.pages[s] \in Page /\ SlotsOf(d.pages[s], id) # {} /\ Serials(e) = Serials(d)
      /\ e.pages[s] = page_remove_object(d.pages[s], id)
      /\ \A t \in Serials(d) : t # s => e.pages[t] = d.pages[t]
  BY RemovesPages
<1>2. e.pages[s].track_id = d.pages[s].track_id
  BY <1>1, RewrittenTracks
<1>3. \A t \in Serials(d) : e.pages[t].track_id = d.pages[t].track_id
  BY <1>1, <1>2
<1>4. e.next_track_id = d.next_track_id /\ e.tracks = d.tracks
  BY DEF Removes
<1> QED BY <1>1, <1>3, <1>4, SameTracks

\* The calls that change objects keep pages on their tracks.
LEMMA ObjectOnTracks ==
  ASSUME IInv, Allocation(dm), OnTracks(dm), ObjectNext
  PROVE  OnTracks(dm')
<1>1. Sound(dm)
  BY PartsFromInv
<1>2. PICK d : Sound(d) /\ TakesOut(dm, d) /\ PutsIn(d, dm')
  BY ObjectShape
<1>3. Allocation(d)
  BY <1>1, <1>2, ObjectAllocation
<1>4. OnTracks(d)
  BY <1>1, <1>2, RemovesOnTracks DEF TakesOut
<1>5. ASSUME Misses(d, dm') PROVE OnTracks(dm')
  <2>1. Serials(dm') = Serials(d)
    BY <1>5 DEF Misses, Serials
  <2> QED BY <1>4, <1>5, <2>1, SameTracks DEF Misses
<1> QED BY <1>2, <1>3, <1>4, <1>5, InsertsOnTracks DEF PutsIn

\* A build only makes new tracks.
LEMMA BuildOnTracks ==
  ASSUME IInv, OnTracks(dm), Build \/ FindAdjacentPages \/ UNCHANGED vars
  PROVE  OnTracks(dm')
<1>1. Sound(dm) /\ IndexTypes
  BY PartsFromInv
<1>2. CASE Build
  <2>1. BuildFrom(dm, bounds) /\ bounds \in MBR
    BY <1>1, <1>2 DEF Build, IndexTypes
  <2>2. dm' = dm \/ \E n \in Nat : dm' = create_blocks(dm, n) /\ dm.next_track_id + n <= MaxTracks + 1
    BY <1>1, <2>1, BuildFromSound
  <2>3. ASSUME NEW n \in Nat, dm' = create_blocks(dm, n), dm.next_track_id + n <= MaxTracks + 1
        PROVE  OnTracks(dm')
    <3> DEFINE e == create_blocks(dm, n)
    <3>1. /\ e.pages = dm.pages /\ e.next_track_id = dm.next_track_id + n
          /\ \A t \in 1..MaxTracks :
               e.tracks[t] = IF t \in dm.next_track_id..(dm.next_track_id + n - 1)
                             THEN track_create ELSE dm.tracks[t]
      BY <1>1, <2>3, CreateBlocksSound
    <3> HIDE DEF e
    <3>2. Serials(e) = Serials(dm)
      BY <3>1 DEF Serials
    <3>3. OnTracks(e)
      BY <1>1, <3>1, <3>2, FreshTracks
    <3> QED BY <2>3, <3>3 DEF e
  <2> QED BY <2>2, <2>3
<1>3. CASE FindAdjacentPages \/ UNCHANGED vars
  BY <1>3 DEF FindAdjacentPages, vars
<1> QED BY <1>2, <1>3

\* What a session keeps of pages and tracks.
TrackInv == Allocation(dm) /\ OnTracks(dm)

\* The empty index has no track.
LEMMA InitTracks == Init => TrackInv
<1> SUFFICES ASSUME Init PROVE TrackInv
  OBVIOUS
<1>1. dm = disk_manager_init
  BY DEF Init, InitIndex
<1>2. Serials(dm) = {} /\ Tracks(dm) = {}
  BY <1>1 DEF disk_manager_init, Serials, Tracks
<1> QED BY <1>1, <1>2, InitAllocation DEF TrackInv, OnTracks

\* Every call of a session keeps pages on their tracks.
LEMMA SessionTracks ==
  ASSUME IInv, TrackInv, [SessionNext]_vars
  PROVE  TrackInv'
<1>1. Allocation(dm') /\ OnTracks(dm')
  BY NextAllocation, ObjectOnTracks, BuildOnTracks DEF TrackInv, SessionNext, Next, ApiNext
<1> QED BY <1>1
        DEF TrackInv, Allocation, OnTracks, Serials, Tracks, Lists, PageEntries, NonEmpty

\* Pages are on their tracks in every state of a session.
LEMMA TrackInvHolds == SessionSpec => []TrackInv
<1>1. IInv /\ TrackInv /\ [SessionNext]_vars => TrackInv'
  BY SessionTracks
<1>2. SessionSpec => Init /\ [][SessionNext]_vars
  BY DEF SessionSpec
<1> QED BY <1>1, <1>2, InitTracks, SessionIsSpec, InvHolds, PTL

(***************************************************************************)
(* A page is listed by the track it names and by no other, and no track is *)
(* too long, although an allocation adds the page to its track twice       *)
(* (page_pool_alloc, disk_manager_alloc_page).                             *)
(***************************************************************************)
THEOREM PagesOnTheirTracksHolds == SessionSpec => []PagesOnTheirTracks
<1>1. TrackInv => PagesOnTheirTracks
  BY DEF TrackInv, OnTracks, Lists, PagesOnTheirTracks
<1> QED BY <1>1, TrackInvHolds, PTL

-----------------------------------------------------------------------------
\* The stored objects as a bag.

\* How many of its arguments function f maps to r, and the bag of its values.
Copies(f, r) == Cardinality({a \in DOMAIN f : f[a] = r})

BagOf(f) == [r \in {f[a] : a \in DOMAIN f} |-> Copies(f, r)]

\* A finite function takes a value as often as there are arguments for it.
LEMMA CopiesCount ==
  ASSUME NEW f, IsFiniteSet(DOMAIN f)
  PROVE  \A r : Copies(f, r) \in Nat /\ (r \in DOMAIN BagOf(f) <=> Copies(f, r) > 0)
<1>1. ASSUME NEW r
      PROVE  Copies(f, r) \in Nat /\ (r \in DOMAIN BagOf(f) <=> Copies(f, r) > 0)
  <2> DEFINE A == {a \in DOMAIN f : f[a] = r}
  <2>1. IsFiniteSet(A)
    BY FS_Subset
  <2>2. Cardinality(A) \in Nat /\ (Cardinality(A) = 0 <=> A = {})
    BY <2>1, FS_CardinalityType, FS_EmptySet
  <2>3. r \in DOMAIN BagOf(f) <=> A # {}
    BY DEF BagOf
  <2> QED BY <2>2, <2>3 DEF Copies
<1> QED BY <1>1

\* Function g is f with one more argument, c.
Extends(g, f, c) ==
  /\ c \notin DOMAIN f /\ DOMAIN g = DOMAIN f \cup {c}
  /\ \A a \in DOMAIN f : g[a] = f[a]

\* One more argument is one more copy of its value.
LEMMA CopiesAdded ==
  ASSUME NEW f, IsFiniteSet(DOMAIN f), NEW g, NEW c, Extends(g, f, c)
  PROVE  /\ IsFiniteSet(DOMAIN g)
         /\ \A r : Copies(g, r) = Copies(f, r) + (IF r = g[c] THEN 1 ELSE 0)
<1>1. IsFiniteSet(DOMAIN g)
  BY FS_AddElement DEF Extends
<1>2. ASSUME NEW r
      PROVE  Copies(g, r) = Copies(f, r) + (IF r = g[c] THEN 1 ELSE 0)
  <2> DEFINE A == {a \in DOMAIN f : f[a] = r}
             B == {a \in DOMAIN g : g[a] = r}
  <2>1. IsFiniteSet(A) /\ c \notin A
    BY FS_Subset DEF Extends
  <2>2. Cardinality(A) \in Nat
    BY <2>1, FS_CardinalityType
  <2>3. B = IF r = g[c] THEN A \cup {c} ELSE A
    BY DEF Extends
  <2> HIDE DEF A, B
  <2>4. Cardinality(A \cup {c}) = Cardinality(A) + 1
    BY <2>1, FS_AddElement
  <2>5. Cardinality(B) = Cardinality(A) + (IF r = g[c] THEN 1 ELSE 0)
    BY <2>2, <2>3, <2>4
  <2> QED BY <2>5 DEF Copies, A, B
<1> QED BY <1>1, <1>2

\* Adding a copy of r to the bag of f gives the bag of g, and taking it out
\* of the bag of g gives the bag of f.
LEMMA BagAdded ==
  ASSUME NEW f, IsFiniteSet(DOMAIN f), NEW g, NEW c, Extends(g, f, c)
  PROVE  /\ IsFiniteSet(DOMAIN g)
         /\ g[c] \in DOMAIN BagOf(g)
         /\ BagOf(g) = BagOf(f) (+) SetToBag({g[c]})
         /\ BagOf(f) = BagOf(g) (-) SetToBag({g[c]})
<1> DEFINE r == g[c]
           F == BagOf(f)
           G == BagOf(g)
           S == {x \in DOMAIN G : (IF x \in {r} THEN G[x] - 1 ELSE G[x]) > 0}
<1>1. /\ IsFiniteSet(DOMAIN g)
      /\ \A x : Copies(g, x) = Copies(f, x) + (IF x = r THEN 1 ELSE 0)
  BY CopiesAdded
<1>2. /\ \A x : Copies(f, x) \in Nat /\ (x \in DOMAIN F <=> Copies(f, x) > 0)
      /\ \A x : Copies(g, x) \in Nat /\ (x \in DOMAIN G <=> Copies(g, x) > 0)
  BY <1>1, CopiesCount
<1>3. /\ F = [x \in DOMAIN F |-> Copies(f, x)]
      /\ G = [x \in DOMAIN G |-> Copies(g, x)]
  BY DEF BagOf
<1>4. /\ \A x \in DOMAIN F : F[x] = Copies(f, x)
      /\ \A x \in DOMAIN G : G[x] = Copies(g, x)
  BY DEF BagOf
<1> HIDE DEF F, G, r
<1>5. DOMAIN G = DOMAIN F \cup {r} /\ r \in DOMAIN G
  BY <1>1, <1>2
<1>6. \A x \in DOMAIN G : Copies(g, x) = (IF x \in DOMAIN F THEN F[x] ELSE 0) + (IF x \in {r} THEN 1 ELSE 0)
  BY <1>1, <1>2, <1>4
<1>7. G = F (+) SetToBag({r})
  <2>1. F (+) SetToBag({r}) =
          [x \in DOMAIN G |-> (IF x \in DOMAIN F THEN F[x] ELSE 0) + (IF x \in {r} THEN 1 ELSE 0)]
    BY <1>5 DEF (+), SetToBag
  <2> QED BY <1>3, <1>6, <2>1
<1>8. S = DOMAIN F
  BY <1>1, <1>2, <1>4
<1>9. \A x \in DOMAIN F : Copies(f, x) = IF x \in {r} THEN G[x] - 1 ELSE G[x]
  BY <1>1, <1>2, <1>4
<1>10. F = G (-) SetToBag({r})
  <2>1. G (-) SetToBag({r}) = [x \in S |-> IF x \in {r} THEN G[x] - 1 ELSE G[x]]
    BY DEF (-), SetToBag
  <2> HIDE DEF S
  <2> QED BY <1>3, <1>8, <1>9, <2>1
<1> QED BY <1>1, <1>5, <1>7, <1>10 DEF F, G, r

\* Renaming the arguments keeps the bag.
LEMMA BagRenamed ==
  ASSUME NEW f, IsFiniteSet(DOMAIN f), NEW g, NEW h \in Bijection(DOMAIN f, DOMAIN g),
         \A a \in DOMAIN f : g[h[a]] = f[a]
  PROVE  BagOf(g) = BagOf(f)
<1>1. /\ h \in [DOMAIN f -> DOMAIN g]
      /\ \A a, b \in DOMAIN f : h[a] = h[b] => a = b
      /\ \A b \in DOMAIN g : \E a \in DOMAIN f : h[a] = b
  BY DEF Bijection, Injection, Surjection, IsInjective
<1>2. ASSUME NEW r
      PROVE  Copies(g, r) = Copies(f, r)
  <2> DEFINE A == {a \in DOMAIN f : f[a] = r}
             B == {b \in DOMAIN g : g[b] = r}
             k == [a \in A |-> h[a]]
  <2>1. k \in [A -> B]
    BY <1>1
  <2>2. (\A a, b \in A : k[a] = k[b] => a = b) /\ (\A b \in B : \E a \in A : k[a] = b)
    BY <1>1
  <2>3. k \in Bijection(A, B)
    <3> HIDE DEF A, B, k
    <3> QED BY <2>1, <2>2 DEF Bijection, Injection, Surjection, IsInjective
  <2>4. IsFiniteSet(A)
    BY FS_Subset
  <2>5. Cardinality(B) = Cardinality(A)
    <3> HIDE DEF A, B, k
    <3> QED BY <2>3, <2>4, FS_Bijection DEF ExistsBijection
  <2> QED BY <2>5 DEF Copies
<1>3. {g[b] : b \in DOMAIN g} = {f[a] : a \in DOMAIN f}
  BY <1>1
<1> QED BY <1>2, <1>3 DEF BagOf

-----------------------------------------------------------------------------
\* The session implements the store.

\* What is stored of the object in a slot, and of all objects.
Rec(o) == [id |-> o.id, shape |-> StoredShape(o)]

Recs(d) == [a \in LiveSlots(d) |-> Rec(ObjectAt(d, a))]

\* StoredObjects is a bag in this sense.
LEMMA StoredBag == StoredObjects = BagOf(Recs(dm))
<1>1. /\ DOMAIN Recs(dm) = LiveSlots(dm)
      /\ \A a \in LiveSlots(dm) : Recs(dm)[a] = Rec(ObjectAt(dm, a))
  BY DEF Recs
<1>2. {Recs(dm)[a] : a \in LiveSlots(dm)} = {Rec(ObjectAt(dm, a)) : a \in LiveSlots(dm)}
  BY <1>1
<1>3. \A r : {a \in LiveSlots(dm) : Recs(dm)[a] = r} = {a \in LiveSlots(dm) : Rec(ObjectAt(dm, a)) = r}
  BY <1>1
<1> QED BY <1>1, <1>2, <1>3 DEF StoredObjects, BagOf, Copies, Rec

\* The bag is read from the pages alone.
LEMMA RecsOfPages ==
  ASSUME NEW d, NEW e, e.pages = d.pages
  PROVE  Recs(e) = Recs(d)
  BY DEF Recs, LiveSlots, ObjectAt, Serials

\* There are finitely many slots, each a page and a place on it.
LEMMA SlotPairs ==
  ASSUME NEW d
  PROVE  /\ IsFiniteSet(DOMAIN Recs(d))
         /\ \A a \in LiveSlots(d) : /\ a = <<a[1], a[2]>>
                                    /\ a[1] \in Serials(d) /\ a[2] \in Live(d.pages[a[1]])
         /\ \A t \in Serials(d) : \A j \in Live(d.pages[t]) : <<t, j>> \in LiveSlots(d)
<1>1. IsFiniteSet(1..MaxPages) /\ IsFiniteSet(Slot)
  BY BoundAssumption, PageAssumption, FS_Interval DEF Slot
<1>2. IsFiniteSet((1..MaxPages) \X Slot)
  BY <1>1, FS_Product
<1>3. LiveSlots(d) \subseteq (1..MaxPages) \X Slot
  BY LiveSlotsFinite DEF Serials
<1>4. IsFiniteSet(LiveSlots(d))
  BY <1>2, <1>3, FS_Subset
<1>5. DOMAIN Recs(d) = LiveSlots(d)
  BY DEF Recs
<1>6. ASSUME NEW a \in LiveSlots(d)
      PROVE  a = <<a[1], a[2]>> /\ a[1] \in Serials(d) /\ a[2] \in Live(d.pages[a[1]])
  <2>1. PICK t \in Serials(d) : \E j \in Live(d.pages[t]) : a = <<t, j>>
    BY DEF LiveSlots
  <2>2. PICK j \in Live(d.pages[t]) : a = <<t, j>>
    BY <2>1
  <2> QED BY <2>2
<1>7. \A t \in Serials(d) : \A j \in Live(d.pages[t]) : <<t, j>> \in LiveSlots(d)
  BY DEF LiveSlots
<1> QED BY <1>4, <1>5, <1>6, <1>7

\* An insert takes one slot more, which was free: a page with room has the
\* next one, and a new page has a number no page has.
LEMMA InsertedSlot ==
  ASSUME NEW d, Sound(d), Allocation(d), NEW e, NEW o \in SpatialObject, NEW s, NEW q, Inserts(d, e, o, s, q)
  PROVE  \E c : /\ Extends(Recs(e), Recs(d), c) /\ Recs(e)[c] = Rec(o)
                /\ c \notin LiveSlots(d) /\ LiveSlots(e) = LiveSlots(d) \cup {c}
                /\ \A a \in LiveSlots(d) : ObjectAt(e, a) = ObjectAt(d, a)
<1> DEFINE r == Inserted(q, o)
           n == q.object_count + 1
           c == <<s, n>>
<1>1. /\ Serials(e) = Serials(d) \cup {s} /\ e.pages[s] = r
      /\ \A t \in Serials(d) : t # s => e.pages[t] = d.pages[t]
  BY InsertsPages
<1>2. /\ q \in Page /\ n \in Slot /\ Live(r) = Live(q) \cup {n}
      /\ r.objects = [q.objects EXCEPT ![n] = o]
  BY InsertedPage DEF Inserts
<1>3. \/ s \in Serials(d) /\ q = d.pages[s]
      \/ s \notin Serials(d) /\ Live(q) = {}
  <2>1. CASE OntoListedPage(d, e, s, q)
    BY <2>1 DEF OntoListedPage
  <2>2. CASE OntoNewPage(d, e, s, q, o.centroid)
    <3>1. s = d.next_page_id /\ q.object_count = 0 /\ d.next_page_id \in Nat
      BY <2>2 DEF OntoNewPage, Sound, Manager
    <3>2. s \notin Serials(d)
      BY <3>1 DEF Allocation
    <3> QED BY <3>1, <3>2 DEF Live, Slot
  <2> QED BY <2>1, <2>2 DEF Inserts
<1>4. /\ n \notin Live(q) /\ r.objects[n] = o
      /\ \A j \in Live(q) : r.objects[j] = q.objects[j]
  <2>1. q.objects \in [Slot -> SpatialObject] /\ n \notin Live(q)
    BY <1>2, PageAssumption DEF Page, Live
  <2> HIDE DEF n
  <2> QED BY <1>2, <2>1 DEF Live
<1> HIDE DEF r, n
<1>5. ASSUME NEW a \in LiveSlots(d)
      PROVE  a # c /\ a \in LiveSlots(e) /\ ObjectAt(e, a) = ObjectAt(d, a)
  <2>1. a = <<a[1], a[2]>> /\ a[1] \in Serials(d) /\ a[2] \in Live(d.pages[a[1]])
    BY SlotPairs
  <2>2. CASE a[1] = s
    <3>1. q = d.pages[s] /\ a[2] \in Live(q)
      BY <1>3, <2>1, <2>2
    <3>2. a[2] # n /\ a[2] \in Live(r) /\ r.objects[a[2]] = q.objects[a[2]]
      BY <1>2, <1>4, <3>1
    <3>3. a \in LiveSlots(e)
      BY <1>1, <2>1, <2>2, <3>2, SlotPairs
    <3> QED BY <1>1, <2>1, <2>2, <3>1, <3>2, <3>3 DEF ObjectAt
  <2>3. CASE a[1] # s
    <3>1. a[1] \in Serials(e) /\ e.pages[a[1]] = d.pages[a[1]]
      BY <1>1, <2>1, <2>3
    <3>2. a \in LiveSlots(e)
      BY <2>1, <3>1, SlotPairs
    <3> QED BY <2>1, <2>3, <3>1, <3>2 DEF ObjectAt
  <2> QED BY <2>2, <2>3
<1>6. c \in LiveSlots(e) /\ ObjectAt(e, c) = o
  BY <1>1, <1>2, <1>4, SlotPairs DEF ObjectAt
<1>7. ASSUME NEW a \in LiveSlots(e), a # c
      PROVE  a \in LiveSlots(d)
  <2>1. a = <<a[1], a[2]>> /\ a[1] \in Serials(e) /\ a[2] \in Live(e.pages[a[1]])
    BY SlotPairs
  <2>2. CASE a[1] = s
    <3>1. a[2] \in Live(q)
      BY <1>1, <1>2, <1>7, <2>1, <2>2
    <3>2. s \in Serials(d) /\ a[2] \in Live(d.pages[s])
      BY <1>3, <3>1
    <3> QED BY <2>1, <2>2, <3>2, SlotPairs
  <2>3. CASE a[1] # s
    BY <1>1, <2>1, <2>3, SlotPairs
  <2> QED BY <2>2, <2>3
<1> HIDE DEF c
<1>8. c \notin LiveSlots(d) /\ LiveSlots(e) = LiveSlots(d) \cup {c}
  BY <1>5, <1>6, <1>7
<1>9. Extends(Recs(e), Recs(d), c) /\ Recs(e)[c] = Rec(o)
  BY <1>5, <1>6, <1>8 DEF Extends, Recs
<1> QED BY <1>5, <1>8, <1>9

\* A remove takes slot i of page s; the objects above it move down by one.
LEMMA RemovedSlot ==
  ASSUME NEW d, Sound(d), NEW e, NEW id, NEW s, Removes(d, e, id, s)
  PROVE  \E c \in LiveSlots(d) :
           /\ Recs(d)[c].id = id
           /\ \E h \in Bijection(LiveSlots(e), LiveSlots(d) \ {c}) :
                \A a \in LiveSlots(e) : Recs(d)[h[a]] = Recs(e)[a]
<1> DEFINE p == d.pages[s]
           q == page_remove_object(p, id)
           i == Min(SlotsOf(p, id))
           c == <<s, i>>
           up(a) == IF a[1] = s /\ a[2] >= i THEN <<s, a[2] + 1>> ELSE a
           h == [a \in LiveSlots(e) |-> up(a)]
<1>1. /\ p \in Page /\ s \in Serials(d) /\ SlotsOf(p, id) # {}
      /\ Serials(e) = Serials(d) /\ e.pages[s] = q
      /\ \A t \in Serials(d) : t # s => e.pages[t] = d.pages[t]
  BY RemovesPages
<1> HIDE DEF p
<1>2. /\ q.object_count = p.object_count - 1 /\ q.objects = ShiftedSlots(p, i)
      /\ i \in Live(p) /\ p.objects[i].id = id
  BY <1>1, PageRemoves
<1>a. /\ p.object_count \in 0..MAX_OBJECTS_PER_PAGE
      /\ Live(p) = 1..p.object_count /\ Live(q) = 1..(p.object_count - 1)
  BY <1>1, <1>2, PageAssumption DEF Page, Live, Slot
<1> HIDE DEF q, i
<1>3. c \in LiveSlots(d) /\ Recs(d)[c].id = id
  <2>1. c \in LiveSlots(d)
    BY <1>1, <1>2, SlotPairs DEF p
  <2>2. ObjectAt(d, c) = p.objects[i]
    BY DEF ObjectAt, p
  <2> QED BY <1>2, <2>1, <2>2 DEF Recs, Rec
<1>4. ASSUME NEW a \in LiveSlots(e)
      PROVE  up(a) \in LiveSlots(d) \ {c} /\ ObjectAt(d, up(a)) = ObjectAt(e, a)
  <2>1. a = <<a[1], a[2]>> /\ a[1] \in Serials(d) /\ a[2] \in Live(e.pages[a[1]])
    BY <1>1, SlotPairs
  <2>2. CASE a[1] = s /\ a[2] >= i
    <3>1. /\ a[2] + 1 \in Live(p) /\ a[2] + 1 # i /\ a[2] \in Slot
          /\ a[2] < p.object_count
      BY <1>1, <1>2, <1>a, <2>1, <2>2 DEF Live, Slot
    <3>2. q.objects[a[2]] = p.objects[a[2] + 1]
      BY <1>2, <2>2, <3>1 DEF ShiftedSlots
    <3>3. up(a) = <<s, a[2] + 1>>
      BY <2>2
    <3> HIDE DEF up
    <3>4. up(a) \in LiveSlots(d) /\ up(a) # c
      BY <1>1, <3>1, <3>3, SlotPairs DEF p
    <3> QED BY <1>1, <2>2, <3>2, <3>3, <3>4 DEF ObjectAt, p
  <2>3. CASE a[1] = s /\ ~ (a[2] >= i)
    <3>1. a[2] \in Live(p) /\ a[2] # i /\ a[2] \in Slot
      BY <1>1, <1>2, <1>a, <2>1, <2>3 DEF Live, Slot
    <3>2. q.objects[a[2]] = p.objects[a[2]]
      BY <1>2, <2>3, <3>1 DEF ShiftedSlots
    <3>3. up(a) = a
      BY <2>3
    <3> HIDE DEF up
    <3>4. up(a) \in LiveSlots(d) /\ up(a) # c
      BY <1>1, <2>1, <2>3, <3>1, <3>3, SlotPairs DEF p
    <3> QED BY <1>1, <2>3, <3>2, <3>3, <3>4 DEF ObjectAt, p
  <2>4. CASE a[1] # s
    <3>1. up(a) = a /\ e.pages[a[1]] = d.pages[a[1]]
      BY <1>1, <2>1, <2>4
    <3> HIDE DEF up
    <3>2. up(a) \in LiveSlots(d) /\ up(a) # c
      BY <2>1, <2>4, <3>1, SlotPairs
    <3> QED BY <3>1, <3>2 DEF ObjectAt
  <2> QED BY <2>2, <2>3, <2>4
<1>5. ASSUME NEW a \in LiveSlots(e), NEW b \in LiveSlots(e), up(a) = up(b)
      PROVE  a = b
  <2>1. /\ a = <<a[1], a[2]>> /\ a[2] \in Slot /\ b = <<b[1], b[2]>> /\ b[2] \in Slot
        /\ i \in Slot
    BY <1>2, SlotPairs DEF Live
  <2>2. a[2] \in Nat /\ b[2] \in Nat /\ i \in Nat
    BY <2>1 DEF Slot
  <2> QED BY <1>5, <2>1, <2>2
<1>6. ASSUME NEW b \in LiveSlots(d) \ {c}
      PROVE  \E a \in LiveSlots(e) : up(a) = b
  <2>1. b = <<b[1], b[2]>> /\ b[1] \in Serials(d) /\ b[2] \in Live(d.pages[b[1]])
    BY SlotPairs
  <2>2. CASE b[1] = s /\ b[2] > i
    <3>1. b[2] - 1 \in Live(q) /\ b[2] - 1 >= i /\ b[2] - 1 + 1 = b[2]
      BY <1>2, <1>a, <2>1, <2>2 DEF p
    <3>2. <<s, b[2] - 1>> \in LiveSlots(e)
      BY <1>1, <3>1, SlotPairs
    <3>3. up(<<s, b[2] - 1>>) = <<s, b[2]>>
      BY <3>1
    <3> QED BY <2>1, <2>2, <3>2, <3>3
  <2>3. CASE b[1] = s /\ ~ (b[2] > i)
    <3>1. b[2] # i
      BY <1>6, <2>1, <2>3
    <3>2. b[2] \in Live(q) /\ ~ (b[2] >= i)
      BY <1>2, <1>a, <2>1, <2>3, <3>1 DEF p
    <3>3. b \in LiveSlots(e)
      BY <1>1, <2>1, <2>3, <3>2, SlotPairs
    <3> QED BY <3>2, <3>3
  <2>4. CASE b[1] # s
    <3>1. b \in LiveSlots(e)
      BY <1>1, <2>1, <2>4, SlotPairs
    <3> QED BY <2>4, <3>1
  <2> QED BY <2>2, <2>3, <2>4
<1>7. /\ h \in [LiveSlots(e) -> LiveSlots(d) \ {c}]
      /\ \A a \in LiveSlots(e) : h[a] = up(a)
  <2> HIDE DEF up
  <2> QED BY <1>4
<1> HIDE DEF h, up, c
<1>8. h \in Bijection(LiveSlots(e), LiveSlots(d) \ {c})
  BY <1>5, <1>6, <1>7 DEF Bijection, Injection, Surjection, IsInjective
<1>9. \A a \in LiveSlots(e) : Recs(d)[h[a]] = Recs(e)[a]
  BY <1>4, <1>7 DEF Recs
<1> QED BY <1>3, <1>8, <1>9

\* The bag of a manager's objects.
Bag(d) == BagOf(Recs(d))

\* An insert adds the object's record to the bag.
LEMMA InsertsBag ==
  ASSUME NEW d, Sound(d), Allocation(d), NEW e, NEW o \in SpatialObject, NEW s, NEW q, Inserts(d, e, o, s, q)
  PROVE  Bag(e) = Bag(d) (+) SetToBag({Rec(o)})
<1>1. PICK c : Extends(Recs(e), Recs(d), c) /\ Recs(e)[c] = Rec(o)
  BY InsertedSlot
<1>2. Bag(e) = Bag(d) (+) SetToBag({Recs(e)[c]})
  BY <1>1, SlotPairs, BagAdded DEF Bag
<1> QED BY <1>1, <1>2

\* A remove takes the record of an object with the identifier out of it.
LEMMA RemovesBag ==
  ASSUME NEW d, Sound(d), NEW e, NEW id, NEW s, Removes(d, e, id, s)
  PROVE  \E r \in DOMAIN Bag(d) : r.id = id /\ Bag(e) = Bag(d) (-) SetToBag({r})
<1>1. PICK c \in LiveSlots(d) :
        /\ Recs(d)[c].id = id
        /\ \E h \in Bijection(LiveSlots(e), LiveSlots(d) \ {c}) :
             \A a \in LiveSlots(e) : Recs(d)[h[a]] = Recs(e)[a]
  BY RemovedSlot
<1>2. PICK h \in Bijection(LiveSlots(e), LiveSlots(d) \ {c}) :
        \A a \in LiveSlots(e) : Recs(d)[h[a]] = Recs(e)[a]
  BY <1>1
<1> DEFINE f == [a \in LiveSlots(d) \ {c} |-> Recs(d)[a]]
<1>3. DOMAIN f = LiveSlots(d) \ {c} /\ DOMAIN Recs(e) = LiveSlots(e) /\ DOMAIN Recs(d) = LiveSlots(d)
  BY DEF Recs
<1>4. IsFiniteSet(DOMAIN f) /\ IsFiniteSet(DOMAIN Recs(e))
  BY <1>3, SlotPairs, FS_Subset
<1>5. Extends(Recs(d), f, c)
  BY <1>3 DEF Extends
<1>6. \A a \in DOMAIN Recs(e) : f[h[a]] = Recs(e)[a]
  BY <1>2, <1>3 DEF Bijection, Injection
<1> HIDE DEF f
<1>7. Recs(d)[c] \in DOMAIN Bag(d) /\ BagOf(f) = Bag(d) (-) SetToBag({Recs(d)[c]})
  BY <1>4, <1>5, BagAdded DEF Bag
<1>8. BagOf(f) = BagOf(Recs(e))
  BY <1>2, <1>3, <1>4, <1>6, BagRenamed
<1> QED BY <1>1, <1>7, <1>8 DEF Bag

\* The object that insert stores for identifier id and geometry g.
Made(id, g) == spatial_object_update_derived(spatial_object_init(id, g))

\* Its record is one of the store's: recomputing the derived fields gives
\* what the init functions gave.
LEMMA MadeRecord ==
  ASSUME NEW id \in Nat, NEW g \in Geom
  PROVE  /\ Made(id, g) \in SpatialObject
         /\ Rec(Made(id, g)) = [id |-> id, shape |-> StoredShape(spatial_object_init(0, g))]
<1>1. Made(id, g) \in SpatialObject
  BY ObjectTypes DEF Made
<1>2. Made(id, g).id = id /\ Made(id, g).mbr = g.mbr /\ Made(id, g).centroid = g.centroid
  BY DEF Made, spatial_object_init, spatial_object_update_derived
<1> HIDE DEF Made
<1>3. /\ spatial_object_init(0, g).mbr = g.mbr /\ spatial_object_init(0, g).centroid = g.centroid
  BY DEF spatial_object_init
<1> QED BY <1>1, <1>2, <1>3 DEF Rec, StoredShape

\* Inserting from manager d adds what was made.
LEMMA MadeInserted ==
  ASSUME NEW d, Sound(d), NoDanglingPages(d), Allocation(d), bounds \in MBR,
         NEW id \in Nat, NEW g \in Geoms, InsertObject(d, spatial_object_init(id, g))
  PROVE  Bag(dm') = Bag(d) (+) SetToBag({[id |-> id, shape |-> StoredShape(spatial_object_init(0, g))]})
<1>1. g \in Geom
  BY GeomsAndIds
<1>2. Made(id, g) \in SpatialObject /\ \E s, q : Inserts(d, dm', Made(id, g), s, q)
  BY <1>1, InsertObjectSound, MadeRecord DEF Made, Misses
<1>3. Bag(dm') = Bag(d) (+) SetToBag({Rec(Made(id, g))})
  BY <1>2, InsertsBag
<1> QED BY <1>1, <1>3, MadeRecord

\* The bag after a step is that of the manager after it.
LEMMA StoredNext == StoredObjects = Bag(dm) /\ StoredObjects' = Bag(dm')
<1>1. StoredObjects = Bag(dm)
  BY StoredBag DEF Bag
<1>2. (StoredObjects = Bag(dm))'
  BY <1>1, PTL
<1>3. Bag(dm)' = Bag(dm')
  BY DEF Bag, BagOf, Copies, Recs, LiveSlots, ObjectAt, Rec, StoredShape, Serials, Live
<1> QED BY <1>1, <1>2, <1>3

\* An object enters the store, leaves it, or takes another's place.
LEMMA ObjectsStored ==
  ASSUME IInv, Allocation(dm), NoDanglingPages(dm), ObjectNext
  PROVE  Store!Next
<1>1. Sound(dm) /\ bounds \in MBR /\ next_object_id \in Nat \ {0}
  BY PartsFromInv DEF IndexTypes
<1>2. ASSUME NEW id \in Ids, NEW g \in Geoms, InsertObject(dm, spatial_object_init(id, g))
      PROVE  Store!Next
  <2> DEFINE x == StoredShape(spatial_object_init(0, g))
             r == [id |-> id, shape |-> x]
  <2>1. StoredObjects' = StoredObjects (+) SetToBag({r})
    BY <1>1, <1>2, GeomsAndIds, MadeInserted, StoredNext
  <2>2. x \in {StoredShape(spatial_object_init(0, h)) : h \in Geoms}
    OBVIOUS
  <2> HIDE DEF x
  <2>3. Store!Add(r)
    BY <2>1 DEF Store!Add, Store!One, Store!SetToBag, Store!(+), SetToBag, (+)
  <2> QED BY <2>2, <2>3 DEF Store!Next
<1>3. ASSUME NEW g \in Geoms, Insert(g)
      PROVE  Store!Next
  <2>1. next_object_id \in Ids
    BY <1>1, <1>3, IndexAssumption DEF Insert, Ids
  <2> QED BY <1>2, <1>3, <2>1 DEF Insert
<1>4. ASSUME NEW id \in ExplicitIds, NEW g \in Geoms, InsertWithId(id, g)
      PROVE  Store!Next
  BY <1>2, <1>4 DEF InsertWithId, Ids
<1>5. ASSUME NEW id \in Ids, RemoveObject(id)
      PROVE  Store!Next
  <2>1. HoldersOf(dm, id) # {} /\ dm' = RemoveFrom(dm, id)
    BY <1>5 DEF RemoveObject
  <2>2. PICK s : Removes(dm, dm', id, s)
    BY <1>1, <2>1, RemoveFromSound
  <2>3. PICK r \in DOMAIN StoredObjects : StoredObjects' = StoredObjects (-) SetToBag({r})
    BY <1>1, <2>2, RemovesBag, StoredNext
  <2>4. Store!Delete(r)
    BY <2>3 DEF Store!Delete, Store!One, Store!SetToBag, Store!(-), Store!BagIn, Store!BagToSet, SetToBag, (-)
  <2> QED BY <2>3, <2>4 DEF Store!Next, Store!BagToSet
<1>6. ASSUME NEW id \in Ids, NEW g \in Geoms, Update(id, g)
      PROVE  Store!Next
  <2> DEFINE d == RemoveFrom(dm, id)
             x == StoredShape(spatial_object_init(0, g))
  <2>1. HoldersOf(dm, id) # {} /\ InsertObject(d, spatial_object_init(id, g))
    BY <1>6 DEF Update
  <2>2. Sound(d) /\ NoDanglingPages(d) /\ \E s : Removes(dm, d, id, s)
    BY <1>1, <2>1, RemoveFromSound
  <2>3. x \in {StoredShape(spatial_object_init(0, h)) : h \in Geoms}
    OBVIOUS
  <2> HIDE DEF d
  <2>4. PICK s : Removes(dm, d, id, s)
    BY <2>2
  <2>5. Allocation(d)
    BY <1>1, <2>4, RemovesAllocation
  <2>6. PICK r \in DOMAIN StoredObjects : r.id = id /\ Bag(d) = StoredObjects (-) SetToBag({r})
    BY <1>1, <2>4, RemovesBag, StoredNext
  <2>7. Bag(dm') = Bag(d) (+) SetToBag({[id |-> id, shape |-> x]})
    BY <1>1, <2>1, <2>2, <2>5, GeomsAndIds, MadeInserted
  <2> HIDE DEF x
  <2>8. StoredObjects' = (StoredObjects (-) SetToBag({r})) (+) SetToBag({[id |-> r.id, shape |-> x]})
    BY <2>6, <2>7, StoredNext
  <2>9. Store!Replace(r, x)
    BY <2>6, <2>8 DEF Store!Replace, Store!One, Store!SetToBag, Store!(-), Store!(+), Store!BagIn,
                      Store!BagToSet, SetToBag, (-), (+)
  <2> QED BY <2>3, <2>6, <2>9 DEF Store!Next, Store!BagToSet
<1> QED BY <1>3, <1>4, <1>5, <1>6 DEF ObjectNext

\* Building and querying move no object, and a fresh index holds none.
LEMMA SessionStore ==
  ASSUME IInv, Allocation(dm), NoDanglingPages(dm), [SessionNext]_vars
  PROVE  [Store!Next]_StoredObjects
<1>1. CASE ObjectNext
  BY <1>1, ObjectsStored
<1>2. ASSUME dm'.pages = dm.pages
      PROVE  StoredObjects' = StoredObjects
  BY <1>2, RecsOfPages, StoredNext DEF Bag
<1>3. CASE Build
  <2>1. dm'.pages = dm.pages
    BY <1>3, PartsFromInv, BuildFromSound DEF Build, IndexTypes
  <2> QED BY <1>2, <2>1
<1>4. CASE FindAdjacentPages
  BY <1>2, <1>4 DEF FindAdjacentPages
<1>5. CASE UNCHANGED vars
  BY <1>2, <1>5 DEF vars
<1> QED BY <1>1, <1>3, <1>4, <1>5 DEF SessionNext

\* A fresh index holds no object.
LEMMA InitStore == Init => Store!Init
<1> SUFFICES ASSUME Init PROVE Store!Init
  OBVIOUS
<1>1. Serials(dm) = {}
  BY DEF Init, InitIndex, disk_manager_init, Serials
<1>2. LiveSlots(dm) = {}
  BY <1>1 DEF LiveSlots
<1>3. StoredObjects = [r \in {} |-> 1]
  BY <1>2 DEF StoredObjects
<1> QED BY <1>3 DEF Store!Init, Store!EmptyBag, Store!SetToBag

(***************************************************************************)
(* Inserts, removes and updates act on the stored objects as on a bag,     *)
(* whatever page they fall on and however slots are shifted; building and  *)
(* querying change nothing.                                                *)
(***************************************************************************)
THEOREM SessionIsStore == SessionSpec => StoreSpec
<1>1. IInv /\ TrackInv /\ NoDanglingPages(dm) /\ [SessionNext]_vars => [Store!Next]_StoredObjects
  BY SessionStore DEF TrackInv
<1>2. SessionSpec => Init /\ [][SessionNext]_vars
  BY DEF SessionSpec
<1> QED BY <1>1, <1>2, InitStore, SessionIsApi, SessionIsSpec, InvHolds, TrackInvHolds, NoDanglingHolds, PTL
        DEF StoreSpec, Store!Spec

-----------------------------------------------------------------------------
\* What an insert may follow after spatial_index_clear.

\* Only Insert hands out an identifier.
LEMMA RaisedByInsert ==
  ASSUME IInv, [Next]_vars, next_object_id' > next_object_id
  PROVE  \E g \in Geoms : Insert(g)
<1>1. next_object_id \in Nat \ {0}
  BY PartsFromInv DEF IndexTypes
<1>2. next_object_id' # next_object_id /\ next_object_id' # 1
  BY <1>1
<1>3. ~ (Restart \/ Crash)
  BY <1>2 DEF Restart, Crash, InitIndex
<1>4. ~ (Build \/ FindAdjacentPages \/ Sync \/ Clear \/ UNCHANGED vars)
  BY <1>2 DEF Build, FindAdjacentPages, Sync, Clear, vars
<1>5. \A p \in Path : ~ (Save(p) \/ UrbisLoad(p) \/ Reload(p) \/ ReloadFails(p))
  BY <1>2 DEF Save, UrbisLoad, Reload, ReloadFails
<1>6. /\ \A id \in ExplicitIds, g \in Geoms : ~ InsertWithId(id, g)
      /\ \A id \in Ids : ~ RemoveObject(id)
      /\ \A id \in Ids, g \in Geoms : ~ Update(id, g)
  BY <1>2 DEF InsertWithId, RemoveObject, Update
<1> QED BY <1>3, <1>4, <1>5, <1>6 DEF Next, ApiNext, SessionNext, FileNext, ObjectNext

\* An insert changes no stored object, leaves an exact tree, and stores its
\* object unless it followed an entry to a freed page.
LEMMA InsertAdds ==
  ASSUME IInv, Allocation(dm), NEW g \in Geoms, Insert(g)
  PROVE  /\ \A a \in LiveSlots(dm) : a \in LiveSlots(dm') /\ ObjectAt(dm', a) = ObjectAt(dm, a)
         /\ TreeExact(dm')
         /\ NoDanglingPages(dm) => Cardinality(LiveSlots(dm') \ LiveSlots(dm)) = 1
<1>1. Sound(dm) /\ bounds \in MBR /\ next_object_id \in Nat /\ g \in Geom
  BY PartsFromInv, GeomsAndIds DEF IndexTypes
<1>2. InsertObject(dm, spatial_object_init(next_object_id, g))
  BY DEF Insert
<1> DEFINE o == spatial_object_update_derived(spatial_object_init(next_object_id, g))
<1>3. o \in SpatialObject /\ ((\E s, q : Inserts(dm, dm', o, s, q)) \/ Misses(dm, dm'))
  BY <1>1, <1>2, InsertObjectSound
<1> HIDE DEF o
<1>4. ASSUME NEW s, NEW q, Inserts(dm, dm', o, s, q)
      PROVE  /\ \A a \in LiveSlots(dm) : a \in LiveSlots(dm') /\ ObjectAt(dm', a) = ObjectAt(dm, a)
             /\ TreeExact(dm') /\ Cardinality(LiveSlots(dm') \ LiveSlots(dm)) = 1
  <2>1. PICK c : /\ c \notin LiveSlots(dm) /\ LiveSlots(dm') = LiveSlots(dm) \cup {c}
                 /\ \A a \in LiveSlots(dm) : ObjectAt(dm', a) = ObjectAt(dm, a)
    BY <1>1, <1>3, <1>4, InsertedSlot
  <2>2. LiveSlots(dm') \ LiveSlots(dm) = {c}
    BY <2>1
  <2>3. TreeExact(dm')
    BY <1>4 DEF Inserts, TreeExact, PageEntries
  <2> QED BY <2>1, <2>2, <2>3, FS_Singleton
<1>5. ASSUME Misses(dm, dm')
      PROVE  /\ \A a \in LiveSlots(dm) : a \in LiveSlots(dm') /\ ObjectAt(dm', a) = ObjectAt(dm, a)
             /\ TreeExact(dm') /\ ~ NoDanglingPages(dm)
  <2>1. LiveSlots(dm') = LiveSlots(dm) /\ \A a : ObjectAt(dm', a) = ObjectAt(dm, a)
    BY <1>5 DEF Misses, LiveSlots, Serials, ObjectAt
  <2> QED BY <1>5, <2>1 DEF Misses, TreeExact, PageEntries
<1> QED BY <1>3, <1>4, <1>5

(***************************************************************************)
(* Also after spatial_index_clear, whose freed pages the allocation tree   *)
(* still lists, an insert changes no stored object and leaves an exact     *)
(* tree; when no entry leads to a freed page it stores one object, in a    *)
(* slot that was free (get_page_for_insert, spatial_index_insert).  What   *)
(* a write to freed memory does outside the pages is not modelled.         *)
(***************************************************************************)
THEOREM InsertAddsOneObjectHolds == Spec => InsertAddsOneObject
<1>1. IInv /\ Allocation(dm) /\ [Next]_vars
        => [next_object_id' > next_object_id =>
              /\ \A a \in LiveSlots(dm) : a \in LiveSlots(dm') /\ ObjectAt(dm', a) = ObjectAt(dm, a)
              /\ TreeExact(dm')
              /\ NoDanglingPages(dm) => Cardinality(LiveSlots(dm') \ LiveSlots(dm)) = 1]_vars
  BY RaisedByInsert, InsertAdds
<1> QED BY <1>1, InvHolds, AllocationHolds, PTL DEF Spec, InsertAddsOneObject
=============================================================================
