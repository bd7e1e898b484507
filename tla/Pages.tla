-------------------------------- MODULE Pages --------------------------------
(***************************************************************************)
(* Pages and tracks of src/src/page.c, as operators on page and track      *)
(* records.  A page keeps its whole slot array, the slots above            *)
(* object_count too: page_remove_object shifts with memmove and leaves the *)
(* old bytes of the last slot in place, and pointers into the array        *)
(* survive in the block tree (SpatialIndex).                               *)
(***************************************************************************)
EXTENDS Geometry, Sequences

CONSTANTS MAX_OBJECTS_PER_PAGE, PAGES_PER_TRACK

ASSUME PageAssumption ==
  /\ MAX_OBJECTS_PER_PAGE \in Nat \ {0}
  /\ PAGES_PER_TRACK \in Nat \ {0}

Slot == 1..MAX_OBJECTS_PER_PAGE

Page ==
  [page_id : Nat, track_id : Nat, object_count : 0..MAX_OBJECTS_PER_PAGE,
   dirty : BOOLEAN, full : BOOLEAN, extent : MBR,
   centroid : Seq(Point),  \* the points whose mean it is
   checksum : [words : SUBSET Nat, ids : SUBSET Nat, centroids : SUBSET Point],
   objects : [Slot -> SpatialObject]]

\* The slots that hold an object.
Live(p) == {i \in Slot : i <= p.object_count}

(***************************************************************************)
(* page_checksum XORs one hash per header word, object id and object       *)
(* centroid.  Equal 32-bit words cancel each other, and so do equal ids    *)
(* and equal centroids; what is left are the values that occur an odd      *)
(* number of times.                                                        *)
(***************************************************************************)
OddOccurrences(f) ==
  {v \in {f[k] : k \in DOMAIN f} :
     Cardinality({k \in DOMAIN f : f[k] = v}) % 2 = 1}

page_checksum(p) ==
  [words |-> OddOccurrences(<<p.page_id, p.track_id, p.object_count>>),
   ids |-> OddOccurrences([i \in Live(p) |-> p.objects[i].id]),
   centroids |-> OddOccurrences([i \in Live(p) |-> p.objects[i].centroid])]

NoChecksum == [words |-> {}, ids |-> {}, centroids |-> {}]

page_verify(p) == p.checksum = page_checksum(p)

page_create(id, track) ==
  [page_id |-> id, track_id |-> track, object_count |-> 0,
   dirty |-> FALSE, full |-> FALSE, extent |-> mbr_empty,
   centroid |-> <<Origin>>, checksum |-> NoChecksum,
   objects |-> [i \in Slot |-> ZeroObject]]

page_is_full(p) == p.object_count >= MAX_OBJECTS_PER_PAGE

\* Called on a page that is not full.
page_add_object(p, o) ==
  LET n == p.object_count + 1
  IN [p EXCEPT !.objects[n] = o, !.object_count = n, !.dirty = TRUE,
               !.full = @ \/ n >= MAX_OBJECTS_PER_PAGE,
               !.extent = mbr_expand_mbr(@, o.mbr)]

page_update_derived(p) ==
  LET q == [p EXCEPT !.extent = Hull({p.objects[i].mbr : i \in Live(p)}),
                     !.centroid = IF p.object_count = 0 THEN @
                                  ELSE [i \in 1..p.object_count |-> p.objects[i].centroid]]
  IN [q EXCEPT !.checksum = page_checksum(q)]

SlotsOf(p, id) == {i \in Live(p) : p.objects[i].id = id}

\* Mutant: memmove starts one slot late.
ShiftedSlots_OffByOne(p, i) ==
  [j \in Slot |->
     IF j > i /\ j < p.object_count THEN p.objects[j + 1]
     ELSE IF j = i THEN ZeroObject ELSE p.objects[j]]

\* memmove over the freed slot: the last slot keeps its bytes, zeroed when
\* it is the one that was freed.
ShiftedSlots(p, i) ==
  [j \in Slot |->
     IF j >= i /\ j < p.object_count THEN p.objects[j + 1]
     ELSE IF j = i THEN ZeroObject ELSE p.objects[j]]

\* Mutant: the derived fields are left as they were.
page_remove_object_Stale(p, id) ==
  [p EXCEPT !.objects = ShiftedSlots(p, Min(SlotsOf(p, id))),
            !.object_count = @ - 1, !.dirty = TRUE, !.full = FALSE]

\* Called on a page that holds id: the first object with it goes.
page_remove_object(p, id) ==
  page_update_derived(
    [p EXCEPT !.objects = ShiftedSlots(p, Min(SlotsOf(p, id))),
              !.object_count = @ - 1, !.dirty = TRUE, !.full = FALSE])

\* Mutant: the extent is not part of the image.
page_serialize_NoExtent(p) ==
  [p EXCEPT !.extent = mbr_empty, !.objects =
     [i \in Slot |->
        IF i \in Live(p)
        THEN [p.objects[i] EXCEPT !.geom = IF @.kind = "POINT" THEN PointGeom(Origin)
                                           ELSE NoVertices]
        ELSE ZeroObject]]

(***************************************************************************)
(* What page_deserialize puts into a freshly allocated page from the       *)
(* buffer of page_serialize: the header as it was, the id, type, centroid  *)
(* and mbr of each object.  Vertices are not written: a point reads back   *)
(* at the origin, a linestring or polygon without vertices.  The header is *)
(* copied before the caller clears DIRTY.                                  *)
(***************************************************************************)
page_serialize(p) ==
  [p EXCEPT !.objects =
     [i \in Slot |->
        IF i \in Live(p)
        THEN [p.objects[i] EXCEPT !.geom = IF @.kind = "POINT" THEN PointGeom(Origin)
                                           ELSE NoVertices]
        ELSE ZeroObject]]

\* The page read from a region of the file nobody wrote: all zero bytes.
HolePage ==
  [page_create(0, 0) EXCEPT !.extent = mbr_create(0, 0, 0, 0)]

\* What a page owes to the queries that prune by its extent.
ExtentCovers(p) ==
  \A i \in Live(p) : ~ mbr_is_empty(p.objects[i].mbr)
                       => mbr_contains_mbr(p.extent, p.objects[i].mbr)

-----------------------------------------------------------------------------
\* Tracks.  A page pointer is the page's serial number (DiskManager).
Track == [pages : Seq(Nat), extent : MBR]

track_create == [pages |-> <<>>, extent |-> mbr_empty]

\* Mutant: one page too many.
track_has_space_OffByOne(t) == Len(t.pages) <= PAGES_PER_TRACK

track_has_space(t) == Len(t.pages) < PAGES_PER_TRACK

\* content: the pages by serial.  PAGE_ERR_FULL leaves the track alone.
track_add_page(t, serial, content) ==
  IF ~ track_has_space(t) THEN t
  ELSE LET ps == Append(t.pages, serial)
       IN [pages |-> ps, extent |-> Hull({content[ps[k]].extent : k \in DOMAIN ps})]

-----------------------------------------------------------------------------
\* The squared distance from c to the mean of the points of s, as a
\* fraction: <<numerator, denominator>>.
MeanDistance(c, s) ==
  LET n == Len(s)
      dx == n * c.x - MapThenSumSet(LAMBDA i : s[i].x, DOMAIN s)
      dy == n * c.y - MapThenSumSet(LAMBDA i : s[i].y, DOMAIN s)
  IN <<dx * dx + dy * dy, n * n>>

AtMost(f, g) == f[1] * g[2] <= g[1] * f[2]
=============================================================================
