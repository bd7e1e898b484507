-------------------------- MODULE SpatialIndexProps --------------------------
(***************************************************************************)
(* The properties of the spatial index, and the abstract store it          *)
(* implements.                                                             *)
(***************************************************************************)
EXTENDS SpatialIndex, Bags

CONSTANT Regions  \* the rectangles queries ask for

ASSUME RegionAssumption == Regions \subseteq MBR

-----------------------------------------------------------------------------
(***************************************************************************)
(* The invariant range queries rest on, whatever is called (Reload and     *)
(* Clear included): every page's extent contains its objects' rectangles,  *)
(* in memory and in every file that a load may read it back from, tracks   *)
(* only list pages that exist, and an open file can be written.            *)
(***************************************************************************)
FilesCover == \A p \in Path : disk[p] # Null => ImagesCover(disk[p])

OpenFileExists == dm.is_open => dm.path \in Path /\ disk[dm.path] # Null

IInv ==
  /\ TypeOK
  /\ ExtentsCover(dm) /\ TracksListPages(dm)
  /\ FilesCover /\ OpenFileExists

-----------------------------------------------------------------------------
\* Queries answer for the objects that are stored.

(***************************************************************************)
(* A range query prunes by page extents; the extents, recomputed by insert *)
(* and remove and read back from files, must never hide a stored object    *)
(* (spatial_index_query_range, page_update_derived).                       *)
(***************************************************************************)
RangeQueryComplete ==
  \A r \in Regions :
    query_range(r) = {a \in LiveSlots(dm) : mbr_intersects(ObjectAt(dm, a).mbr, r)}

(***************************************************************************)
(* While is_built is set on an index with objects, the block tree that k-NN *)
(* searches has exactly one pointer per stored object, with its current    *)
(* centroid (spatial_index_build against insert, remove and load).         *)
(***************************************************************************)
BuiltBlockTreeExact ==
  is_built /\ LiveSlots(dm) # {} => block_tree = BlockTreeOf(dm)

\* The pages that meet r and that an adjacency query does not find.
MissedPages(r) ==
  {s \in NonEmpty(dm) : mbr_intersects(dm.pages[s].extent, r)} \ find_adjacent_pages(page_tree, r)

\* Page s fits in no child of its node in the page quadtree, which more pages
\* than the node's capacity come to.
LostInSplit(s) ==
  /\ Fitting(home(bounds, dm.pages[s].extent)) = {}
  /\ Cardinality(Sharing(bounds, PageExtents(dm), s)) > QT_CAPACITY

(***************************************************************************)
(* While is_built is set, an adjacency query returns every object that     *)
(* meets the region but those of missed pages, and it misses a page only   *)
(* for one of two reasons: a split of the quadtree has dropped it, which   *)
(* takes more pages than a node holds, or it is not inside idx->bounds,    *)
(* which happens after a load alone (BoundsCoverObjects).  The trees are   *)
(* never older than the objects (build_page_quadtree, qtnode_split,        *)
(* idx->bounds, urbis_index_query_adjacent).                               *)
(***************************************************************************)
AdjacentComplete ==
  is_built => \A r \in Regions :
    /\ query_adjacent(page_tree, r) = {a \in query_range(r) : a[1] \notin MissedPages(r)}
    /\ \A s \in MissedPages(r) :
         LostInSplit(s) \/ ~ mbr_contains_mbr(bounds, dm.pages[s].extent)

(***************************************************************************)
(* "Get spatial bounds of all data" (urbis_index_bounds in urbis.h): the   *)
(* bounds contain every stored object, and the extent of every page with   *)
(* objects, in which no removed object is left.                            *)
(***************************************************************************)
BoundsCoverObjects ==
  /\ \A a \in LiveSlots(dm) :
       LET m == ObjectAt(dm, a).mbr IN ~ mbr_is_empty(m) => mbr_contains_mbr(bounds, m)
  /\ \A s \in NonEmpty(dm) :
       LET m == dm.pages[s].extent IN ~ mbr_is_empty(m) => mbr_contains_mbr(bounds, m)

-----------------------------------------------------------------------------
\* Allocation.

\* The allocation tree lists the pages with objects, at their centroids.
TreeExact(d) ==
  d.allocation_tree = {[page |-> s, point |-> d.pages[s].centroid] : s \in NonEmpty(d)}

(***************************************************************************)
(* Between calls of urbis.h (Clear, which it does not have, is another     *)
(* matter: see InsertAddsOneObject) the allocation tree holds exactly the  *)
(* pages with objects, at their current centroids, loaded pages included   *)
(* (disk_manager_rebuild_allocation_tree, disk_manager_open).              *)
(***************************************************************************)
AllocationTreeExact == TreeExact(dm)

\* No entry of the allocation tree points to a page that Clear freed.
NoDanglingPages(d) == \A e \in d.allocation_tree : e.page \in Serials(d)

(***************************************************************************)
(* Clear leaves the freed pages in the allocation tree, and the next       *)
(* insert may follow one of them.  What it may lose is its own object: it  *)
(* changes no stored object, and it leaves an exact tree, so that only one *)
(* insert is lost.  Without entries to freed pages the object is stored    *)
(* (spatial_index_clear, get_page_for_insert, spatial_index_insert).       *)
(***************************************************************************)
InsertAddsOneObject ==
  [][next_object_id' > next_object_id =>
       /\ \A a \in LiveSlots(dm) : a \in LiveSlots(dm') /\ ObjectAt(dm', a) = ObjectAt(dm, a)
       /\ TreeExact(dm')
       /\ NoDanglingPages(dm) => Cardinality(LiveSlots(dm') \ LiveSlots(dm)) = 1]_vars

(***************************************************************************)
(* A page that lost its last object never gets another one: only pages     *)
(* with objects are in the allocation tree, and nothing frees a page.  An  *)
(* insert/remove cycle therefore grows the pool (get_page_for_insert).     *)
(***************************************************************************)
EmptyPagesStayEmpty ==
  [][\A s \in Serials(dm) \cap Serials(dm') :
       dm.pages[s].object_count = 0 /\ dm'.next_page_id >= dm.next_page_id
         => dm'.pages[s].object_count = 0]_vars

(***************************************************************************)
(* Every page of a session is listed by the track its header names, by no  *)
(* other track, and no track exceeds its capacity, although each page is   *)
(* added to its track twice (page_pool_alloc, disk_manager_alloc_page).    *)
(***************************************************************************)
PagesOnTheirTracks ==
  /\ \A t \in Tracks(dm) : Len(dm.tracks[t].pages) <= PAGES_PER_TRACK
  /\ \A s \in Serials(dm) : \A t \in Tracks(dm) :
       (\E k \in DOMAIN dm.tracks[t].pages : dm.tracks[t].pages[k] = s)
         <=> t = dm.pages[s].track_id

-----------------------------------------------------------------------------
\* Integrity and persistence.

(***************************************************************************)
(* Every page verifies against its checksum between calls, in memory and   *)
(* in every file, so disk_manager_validate accepts any index that was not  *)
(* loaded from a file with holes (page_update_derived, page_verify).       *)
(***************************************************************************)
ChecksumsFresh ==
  /\ \A s \in Serials(dm) : page_verify(dm.pages[s]) \/ dm.pages[s] = HolePage
  /\ \A p \in Path : disk[p] # Null =>
       \A i \in 1..MaxPages : disk[p].images[i] # Null =>
         page_verify(disk[p].images[i]) /\ disk[p].images[i].page_id = i

(***************************************************************************)
(* Two pages of an index never claim the same slot of its file, also when  *)
(* pages are allocated after a load, and a hole (page_id 0, which would be *)
(* written before the data area) is never dirty (disk_manager_open,        *)
(* page_pool_alloc, page_file_offset).                                     *)
(***************************************************************************)
PageSlotsDistinct ==
  /\ \A s, t \in Serials(dm) :
       dm.pages[s].page_id = dm.pages[t].page_id /\ dm.pages[s].page_id # 0 => s = t
  /\ \A s \in DirtyPages(dm) : dm.pages[s].page_id # 0

Complete(file) == \A i \in 1..file.header.page_count : file.images[i] # Null

OnDisk(d, s, file) ==
  LET i == d.pages[s].page_id
  IN i \in 1..MaxPages /\ file.images[i] = page_serialize([d.pages[s] EXCEPT !.dirty = TRUE])

(***************************************************************************)
(* While the open file has an image for each page its header counts, every *)
(* page that is not dirty reads back from it as it is in memory: what a    *)
(* crash loses is the dirty pages (disk_manager_sync, disk_manager_open).  *)
(***************************************************************************)
CleanPagesOnDisk ==
  dm.is_open /\ Complete(disk[dm.path])
    => \A s \in Serials(dm) \ DirtyPages(dm) : OnDisk(dm, s, disk[dm.path])

(***************************************************************************)
(* "PAGE_STATUS_DIRTY: Page has unsaved modifications" (page.h): a page of *)
(* an index with an open file that is not dirty has been saved to it.      *)
(***************************************************************************)
CleanMeansSaved ==
  dm.is_open => \A s \in Serials(dm) \ DirtyPages(dm) : OnDisk(dm, s, disk[dm.path])

-----------------------------------------------------------------------------
\* The session implements a bag of objects.

StoredShape(o) == [mbr |-> o.mbr, centroid |-> o.centroid]

StoredObjects ==
  LET rec(a) == [id |-> ObjectAt(dm, a).id, shape |-> StoredShape(ObjectAt(dm, a))]
  IN [o \in {rec(a) : a \in LiveSlots(dm)} |-> Cardinality({a \in LiveSlots(dm) : rec(a) = o})]

Store == INSTANCE ObjectStore
  WITH store <- StoredObjects, Id <- Ids,
       Shape <- {StoredShape(spatial_object_init(0, g)) : g \in Geoms}

(***************************************************************************)
(* Inserts, removes and updates act on the stored objects as on a bag,     *)
(* whatever page they fall on and however slots are shifted; building and  *)
(* querying change nothing (spatial_index_insert, remove, update, build).  *)
(***************************************************************************)
StoreSpec == Store!Spec
=============================================================================
