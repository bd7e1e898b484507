----------------------------- MODULE SpatialIndex -----------------------------
(***************************************************************************)
(* The spatial index of src/src/spatial_index.c over its disk manager and  *)
(* the files it saves to, as driven by a caller of urbis.h and             *)
(* spatial_index.h.  One action is one call; the library is sequential.    *)
(*                                                                         *)
(* Three structures describe the same objects: the pages (changed by every *)
(* insert and remove), the block tree and the page quadtree (rebuilt only  *)
(* by build).  What relates them, and what relates memory to the files, is *)
(* what the properties are about.                                          *)
(*                                                                         *)
(* Not modelled: failures of malloc and of I/O; the inner shape of the     *)
(* trees (a nearest search is exact up to ties; QuadTreeFill has what the  *)
(* splits of the page quadtree leave in it).                               *)
(***************************************************************************)
EXTENDS DiskManager, QuadTreeFill

CONSTANTS
  Geoms,        \* the geometries the caller inserts
  ExplicitIds,  \* identifiers the caller may choose itself (GeoJSON "id")
  MaxId,        \* bound: identifiers handed out by the index
  BLOCK_SIZE    \* config.block_size

ASSUME IndexAssumption ==
  /\ Geoms \subseteq Geom
  /\ ExplicitIds \subseteq Nat \ {0}
  /\ MaxId \in Nat /\ BLOCK_SIZE \in Nat \ {0}

VARIABLES
  dm,              \* idx->disk
  disk,            \* the files, by path
  bounds,          \* idx->bounds
  block_tree,      \* the pointers &page->objects[j] and the points they were loaded with
  block_count,     \* idx->block_count
  page_tree,       \* the page quadtree: its root bounds and items, or Null
  is_built,        \* idx->is_built
  next_object_id   \* idx->next_object_id

vars == <<dm, disk, bounds, block_tree, block_count, page_tree, is_built, next_object_id>>

BlockEntry == [page : 1..MaxPages, slot : Slot, point : Point]
PageTree == [bounds : MBR, items : SUBSET [page : 1..MaxPages, extent : MBR]]

ASSUME TreeAssumption == Null \notin PageTree

TypeOK ==
  /\ dm \in Manager
  /\ disk \in [Path -> File \cup {Null}]
  /\ bounds \in MBR
  /\ block_tree \in SUBSET BlockEntry
  /\ block_count \in Nat
  /\ page_tree \in PageTree \cup {Null}
  /\ is_built \in BOOLEAN
  /\ next_object_id \in Nat \ {0}

\* spatial_index_init.
InitIndex(d, bs, bt, bc, pt, built, nid) ==
  /\ d = disk_manager_init /\ bs = mbr_empty /\ bt = {} /\ bc = 0
  /\ pt = Null /\ built = FALSE /\ nid = 1

Init ==
  /\ InitIndex(dm, bounds, block_tree, block_count, page_tree, is_built, next_object_id)
  /\ disk = [p \in Path |-> Null]

-----------------------------------------------------------------------------
\* Insert, remove, update.

NewPage == 0

\* Memory of a page that Clear freed, in use for nothing else.
FreedPage == MaxPages + 1

\* Where an insert goes that the allocation tree sends to page s: there when
\* it has room, else to a new page.  To follow a pointer to a freed page is
\* undefined: it may read as full, as one with room, or be a page loaded since.
PageOrNew(d, s) ==
  IF s \in Serials(d) THEN {IF page_is_full(d.pages[s]) THEN NewPage ELSE s}
  ELSE {NewPage, FreedPage} \cup {t \in Serials(d) : ~ page_is_full(d.pages[t])}

\* The pages an object with centroid c may go to.
get_page_for_insert(d, c) ==
  IF d.allocation_tree = {} THEN {NewPage}
  ELSE UNION {PageOrNew(d, s) : s \in kdtree_nearest(d.allocation_tree, c)}

\* Mutant: the allocation tree is not rebuilt.
InsertInto_NoRebuild(d, o, target) ==
  LET s == IF target = NewPage THEN d.next_page_id ELSE target
      e == IF target = NewPage THEN disk_manager_alloc_page(d, o.centroid) ELSE d
  IN IF target = FreedPage THEN d
     ELSE [e EXCEPT !.pages[s] = page_update_derived(page_add_object(@, o))]

\* The body of spatial_index_insert once the page is known: an object put
\* into freed memory is in no page.
InsertInto(d, o, target) ==
  LET s == IF target = NewPage THEN d.next_page_id ELSE target
      e == IF target = NewPage THEN disk_manager_alloc_page(d, o.centroid) ELSE d
  IN disk_manager_rebuild_allocation_tree(
       IF target = FreedPage THEN d
       ELSE [e EXCEPT !.pages[s] = page_update_derived(page_add_object(@, o))])

HoldersOf(d, id) == {s \in Serials(d) : SlotsOf(d.pages[s], id) # {}}

\* The body of spatial_index_remove: the first page that holds id.
RemoveFrom(d, id) ==
  disk_manager_rebuild_allocation_tree(
    [d EXCEPT !.pages[Min(HoldersOf(d, id))] = page_remove_object(@, id)])

\* Mutant: the index grows by the object's centroid, not by its rectangle.
InsertObject_ByCentroid(d, o) ==
  LET u == spatial_object_update_derived(o)
  IN \E target \in get_page_for_insert(d, u.centroid) :
       /\ target = NewPage => CanAllocPage(d)
       /\ dm' = InsertInto(d, u, target)
       /\ bounds' = mbr_expand_point(bounds, u.centroid)
       /\ is_built' = FALSE

\* spatial_index_insert on manager d: o's derived fields are recomputed first.
InsertObject(d, o) ==
  LET u == spatial_object_update_derived(o)
  IN \E target \in get_page_for_insert(d, u.centroid) :
       /\ target = NewPage => CanAllocPage(d)
       /\ dm' = InsertInto(d, u, target)
       /\ bounds' = mbr_expand_mbr(bounds, u.mbr)
       /\ is_built' = FALSE

Insert(g) ==
  /\ next_object_id <= MaxId
  /\ InsertObject(dm, spatial_object_init(next_object_id, g))
  /\ next_object_id' = next_object_id + 1
  /\ UNCHANGED <<disk, block_tree, block_count, page_tree>>

\* An identifier chosen by the caller is neither checked nor counted.
InsertWithId(id, g) ==
  /\ InsertObject(dm, spatial_object_init(id, g))
  /\ UNCHANGED <<disk, block_tree, block_count, page_tree, next_object_id>>

\* Mutant: the index still claims to be built.
RemoveObject_StaysBuilt(id) ==
  /\ HoldersOf(dm, id) # {}
  /\ dm' = RemoveFrom(dm, id)
  /\ UNCHANGED <<disk, bounds, block_tree, block_count, page_tree, is_built, next_object_id>>

RemoveObject(id) ==
  /\ HoldersOf(dm, id) # {}
  /\ dm' = RemoveFrom(dm, id)
  /\ is_built' = FALSE
  /\ UNCHANGED <<disk, bounds, block_tree, block_count, page_tree, next_object_id>>

\* remove, then insert of the new object under the old identifier.
Update(id, g) ==
  /\ HoldersOf(dm, id) # {}
  /\ InsertObject(RemoveFrom(dm, id), spatial_object_init(id, g))
  /\ UNCHANGED <<disk, block_tree, block_count, page_tree, next_object_id>>

-----------------------------------------------------------------------------
\* Build and the structures it makes.

LiveSlots(d) == UNION {{<<s, i>> : i \in Live(d.pages[s])} : s \in Serials(d)}

ObjectAt(d, a) == d.pages[a[1]].objects[a[2]]

BlockTreeOf(d) ==
  {[page |-> a[1], slot |-> a[2], point |-> ObjectAt(d, a).centroid] : a \in LiveSlots(d)}

\* kdtree_partition: one block unless the tree is larger than a block.
BlockCounts(total) == IF total <= BLOCK_SIZE THEN {1} ELSE 1..total

\* create_block makes a track of its own for each block, at every build.
create_blocks(d, n) ==
  [d EXCEPT !.tracks = [t \in 1..MaxTracks |->
                          IF t \in d.next_track_id..(d.next_track_id + n - 1)
                          THEN track_create ELSE d.tracks[t]],
            !.next_track_id = @ + n]

PageExtents(d) == [s \in NonEmpty(d) |-> d.pages[s].extent]

\* Every page with objects is inserted, in the order of the pool; that an
\* insertion fails outside the root bounds is ignored.
build_page_quadtree(d, root) ==
  IF Serials(d) = {} THEN Null
  ELSE [bounds |-> root,
        items |-> {[page |-> s, extent |-> d.pages[s].extent] : s \in Kept(root, PageExtents(d))}]

\* spatial_index_build on manager d and bounds b.  An empty index is marked
\* built and keeps its old trees.
BuildFrom(d, b) ==
  IF LiveSlots(d) = {}
  THEN /\ dm' = d /\ is_built' = TRUE
       /\ UNCHANGED <<block_tree, block_count, page_tree>>
  ELSE \E n \in BlockCounts(Cardinality(LiveSlots(d))) :
         /\ d.next_track_id + n <= MaxTracks + 1
         /\ dm' = create_blocks(d, n)
         /\ block_tree' = BlockTreeOf(d)
         /\ block_count' = n
         /\ page_tree' = build_page_quadtree(d, b)
         /\ is_built' = TRUE

\* spatial_index_build, and spatial_index_optimize, which only calls it.
Build ==
  /\ BuildFrom(dm, bounds)
  /\ UNCHANGED <<disk, bounds, next_object_id>>

\* The first adjacency query of an index never built makes the quadtree.
FindAdjacentPages ==
  /\ page_tree = Null
  /\ page_tree' = build_page_quadtree(dm, bounds)
  /\ UNCHANGED <<dm, disk, bounds, block_tree, block_count, is_built, next_object_id>>

-----------------------------------------------------------------------------
\* Queries: what each returns in the current state.

\* spatial_index_query_range: pages by extent, then objects by rectangle.
\* spatial_index_query_point asks for the rectangle of one point.
query_range(r) ==
  {a \in LiveSlots(dm) : /\ mbr_intersects(dm.pages[a[1]].extent, r)
                         /\ mbr_intersects(ObjectAt(dm, a).mbr, r)}

\* quadtree_find_adjacent_to_region on the tree t: closed rectangles on the
\* integer grid touch exactly when they intersect.
find_adjacent_pages(t, r) ==
  IF t = Null \/ ~ mbr_intersects(t.bounds, r) THEN {}
  ELSE {i.page : i \in {j \in t.items : mbr_intersects(j.extent, r)}}

\* urbis_index_query_adjacent: the objects of those pages that meet r.
query_adjacent(t, r) ==
  {a \in LiveSlots(dm) : a[1] \in find_adjacent_pages(t, r) /\ mbr_intersects(ObjectAt(dm, a).mbr, r)}

-----------------------------------------------------------------------------
\* Persistence.

\* spatial_index_save: disk_manager_create, then disk_manager_sync.
Save(p) ==
  LET created == disk_manager_create(dm, p)
      fs == CreatedFiles(dm, disk, p)
  IN /\ dm' = disk_manager_sync(created)
     /\ disk' = [fs EXCEPT ![p] = SyncedFile(created, @)]
     /\ UNCHANGED <<bounds, block_tree, block_count, page_tree, is_built, next_object_id>>

\* urbis_index_sync; URBIS_ERR_IO when no file is open.
Sync ==
  /\ dm.is_open
  /\ dm' = disk_manager_sync(dm)
  /\ disk' = [disk EXCEPT ![dm.path] = SyncedFile(dm, @)]
  /\ UNCHANGED <<bounds, block_tree, block_count, page_tree, is_built, next_object_id>>

\* urbis_index_load on a fresh index; then build.
UrbisLoad(p) ==
  /\ ~ dm.is_open /\ dm.next_page_id = 1 /\ dm.next_track_id = 1
  /\ CanOpen(dm, disk[p])
  /\ bounds' = disk[p].header.bounds
  /\ BuildFrom(disk_manager_open(dm, p, disk[p]), disk[p].header.bounds)
  /\ UNCHANGED <<disk, next_object_id>>

\* spatial_index_load on an index that already has pages or a file.
Reload(p) ==
  LET fs == ClosedFiles(dm, disk)
  IN /\ CanOpen(dm, fs[p])
     /\ bounds' = fs[p].header.bounds
     /\ BuildFrom(disk_manager_open(dm, p, fs[p]), fs[p].header.bounds)
     /\ disk' = fs
     /\ UNCHANGED next_object_id

\* A load from a path that does not exist closes the open file first.
ReloadFails(p) ==
  /\ disk[p] = Null
  /\ dm' = disk_manager_close(dm)
  /\ disk' = ClosedFiles(dm, disk)
  /\ UNCHANGED <<bounds, block_tree, block_count, page_tree, is_built, next_object_id>>

\* urbis_index_destroy (which closes the file), then urbis_index_create.
Restart ==
  /\ disk' = ClosedFiles(dm, disk)
  /\ InitIndex(dm', bounds', block_tree', block_count', page_tree', is_built', next_object_id')

\* The process dies and is started again: memory goes, the files stay.
Crash ==
  /\ InitIndex(dm', bounds', block_tree', block_count', page_tree', is_built', next_object_id')
  /\ UNCHANGED disk

\* Mutant: the tracks are not reset.
Clear_KeepsTracks ==
  /\ dm' = [dm EXCEPT !.pages = [s \in 1..MaxPages |-> Null]]
  /\ block_tree' = {} /\ block_count' = 0
  /\ page_tree' = IF page_tree = Null THEN Null ELSE [page_tree EXCEPT !.items = {}]
  /\ bounds' = mbr_empty /\ is_built' = FALSE
  /\ UNCHANGED <<disk, next_object_id>>

\* spatial_index_clear frees every page and track.  The allocation tree,
\* the header, next_page_id and next_track_id stay as they are.
Clear ==
  /\ dm' = [dm EXCEPT !.pages = [s \in 1..MaxPages |-> Null],
                      !.tracks = [t \in 1..MaxTracks |-> Null]]
  /\ block_tree' = {} /\ block_count' = 0
  /\ page_tree' = IF page_tree = Null THEN Null ELSE [page_tree EXCEPT !.items = {}]
  /\ bounds' = mbr_empty /\ is_built' = FALSE
  /\ UNCHANGED <<disk, next_object_id>>

-----------------------------------------------------------------------------
Ids == ExplicitIds \cup 1..MaxId

\* The calls that change the stored objects.
ObjectNext ==
  \/ \E g \in Geoms : Insert(g)
  \/ \E id \in ExplicitIds, g \in Geoms : InsertWithId(id, g)
  \/ \E id \in Ids : RemoveObject(id)
  \/ \E id \in Ids, g \in Geoms : Update(id, g)

\* One index in memory: what the objects and the trees go through.
SessionNext ==
  \/ ObjectNext
  \/ Build
  \/ FindAdjacentPages

\* The objects and their files.
FileNext ==
  \/ ObjectNext
  \/ \E p \in Path : Save(p) \/ UrbisLoad(p)
  \/ Sync
  \/ Restart
  \/ Crash

\* An index with its files, as a caller of urbis.h (and of
\* spatial_index_update) drives it.
ApiNext == SessionNext \/ FileNext

\* All of spatial_index.h.
Next ==
  \/ ApiNext
  \/ \E p \in Path : Reload(p) \/ ReloadFails(p)
  \/ Clear

ObjectSpec == Init /\ [][ObjectNext]_vars
SessionSpec == Init /\ [][SessionNext]_vars
FileSpec == Init /\ [][FileNext]_vars
ApiSpec == Init /\ [][ApiNext]_vars
Spec == Init /\ [][Next]_vars
=============================================================================
