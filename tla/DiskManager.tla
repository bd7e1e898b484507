----------------------------- MODULE DiskManager -----------------------------
(***************************************************************************)
(* The page pool of src/src/page.c and the disk manager of                 *)
(* src/src/disk_manager.c, as operators on the manager's record and on the *)
(* files it writes.  SpatialIndex owns one manager and composes these      *)
(* operators into its handlers.                                            *)
(*                                                                         *)
(* A page is named by its serial: the value of next_page_id when the pool  *)
(* allocated it.  Serials are never reused, so a pointer to a freed page   *)
(* is a serial whose page is Null.  The header's page_id is data: it       *)
(* equals the serial until a page is read from a file.  The pool's array   *)
(* is always in serial order.                                              *)
(***************************************************************************)
EXTENDS Pages

CONSTANTS
  Path,        \* file names
  MaxPages,    \* bound: pages one manager ever allocates
  MaxTracks,   \* bound: tracks one manager ever creates
  Null         \* no page, no track, no file

ASSUME BoundAssumption == MaxPages \in Nat /\ MaxTracks \in Nat

Header == [page_count : Nat, bounds : MBR]

\* A file: its header, and the page written at each page slot, if any.
File == [header : Header, images : [1..MaxPages -> Page \cup {Null}]]

ASSUME NullAssumption == Null \notin Page /\ Null \notin Track /\ Null \notin File

Manager ==
  [pages : [1..MaxPages -> Page \cup {Null}], next_page_id : Nat \ {0},
   tracks : [1..MaxTracks -> Track \cup {Null}], next_track_id : Nat \ {0},
   allocation_tree : SUBSET [page : 1..MaxPages, point : Seq(Point)],
   header : Header, is_open : BOOLEAN, path : Path \cup {Null}]

disk_manager_init ==
  [pages |-> [s \in 1..MaxPages |-> Null], next_page_id |-> 1,
   tracks |-> [t \in 1..MaxTracks |-> Null], next_track_id |-> 1,
   allocation_tree |-> {},
   header |-> [page_count |-> 0, bounds |-> mbr_create(0, 0, 0, 0)],
   is_open |-> FALSE, path |-> Null]

Serials(d) == {s \in 1..MaxPages : d.pages[s] # Null}
Tracks(d) == {t \in 1..MaxTracks : d.tracks[t] # Null}
NonEmpty(d) == {s \in Serials(d) : d.pages[s].object_count > 0}

\* What holds of a manager and of a file between calls.
ExtentsCover(d) == \A s \in Serials(d) : ExtentCovers(d.pages[s])

TracksListPages(d) ==
  \A t \in Tracks(d) : \A k \in DOMAIN d.tracks[t].pages : d.tracks[t].pages[k] \in Serials(d)

ImagesCover(file) == \A i \in 1..MaxPages : file.images[i] # Null => ExtentCovers(file.images[i])

-----------------------------------------------------------------------------
\* Allocation.

\* Called with next_track_id <= MaxTracks.
disk_manager_create_track(d) ==
  [d EXCEPT !.tracks[d.next_track_id] = track_create, !.next_track_id = @ + 1]

\* ALLOC_BEST_FIT, the default: the first track with room whose area grows least.
WithSpace(d) == {t \in Tracks(d) : track_has_space(d.tracks[t])}

Expansion(t, c) == mbr_area(mbr_expand_point(t.extent, c)) - mbr_area(t.extent)

disk_manager_find_best_track(d, c) ==
  CHOOSE t \in WithSpace(d) : \A u \in WithSpace(d) :
    LET et == Expansion(d.tracks[t], c)
        eu == Expansion(d.tracks[u], c)
    IN et < eu \/ (et = eu /\ t <= u)

CanAllocPage(d) ==
  d.next_page_id <= MaxPages /\ (WithSpace(d) # {} \/ d.next_track_id <= MaxTracks)

(***************************************************************************)
(* page_pool_alloc puts the new page into the track, and                   *)
(* disk_manager_alloc_page puts it there a second time.                    *)
(***************************************************************************)
disk_manager_alloc_page(d, c) ==
  LET e == IF WithSpace(d) = {} THEN disk_manager_create_track(d) ELSE d
      tid == disk_manager_find_best_track(e, c)
      s == d.next_page_id
      pages == [e.pages EXCEPT ![s] = [page_create(s, tid) EXCEPT !.centroid = <<c>>]]
      once == track_add_page(e.tracks[tid], s, pages)
  IN [e EXCEPT !.pages = pages, !.next_page_id = s + 1,
               !.tracks[tid] = track_add_page(once, s, pages),
               !.allocation_tree = @ \cup {[page |-> s, point |-> <<c>>]},
               !.header = [page_count |-> @.page_count + 1,
                           bounds |-> mbr_expand_point(@.bounds, c)]]

disk_manager_rebuild_allocation_tree(d) ==
  [d EXCEPT !.allocation_tree =
     {[page |-> s, point |-> d.pages[s].centroid] : s \in NonEmpty(d)}]

\* The pages a nearest search may return: ties are broken by the tree's shape.
kdtree_nearest(tree, c) ==
  {e.page : e \in {n \in tree : \A o \in tree :
                     AtMost(MeanDistance(c, n.point), MeanDistance(c, o.point))}}

-----------------------------------------------------------------------------
\* Files.

\* Mutant: an emptied page is not worth a write.
DirtyPages_NonEmpty(d) == {s \in NonEmpty(d) : d.pages[s].dirty}

DirtyPages(d) == {s \in Serials(d) : d.pages[s].dirty}

EmptyHeader == [page_count |-> 0, bounds |-> mbr_empty]

disk_manager_sync(d) ==
  [d EXCEPT !.pages = [s \in 1..MaxPages |-> IF s \in Serials(d)
                                             THEN [d.pages[s] EXCEPT !.dirty = FALSE]
                                             ELSE Null],
            !.header.page_count = Cardinality(Serials(d))]

\* The dirty pages that go to slot i of the file.
DirtyAt(d, i) == {s \in DirtyPages(d) : d.pages[s].page_id = i}

\* The file after disk_manager_sync: dirty pages written in place, of two
\* with one page_id the later in the pool last.
SyncedFile(d, file) ==
  [header |-> disk_manager_sync(d).header,
   images |-> [i \in 1..MaxPages |-> IF DirtyAt(d, i) = {} THEN file.images[i]
                                     ELSE page_serialize(d.pages[Max(DirtyAt(d, i))])]]

\* disk_manager_close syncs first; a manager with no open file does nothing.
disk_manager_close(d) ==
  IF d.is_open THEN [disk_manager_sync(d) EXCEPT !.is_open = FALSE] ELSE d

ClosedFiles(d, fs) ==
  IF d.is_open THEN [fs EXCEPT ![d.path] = SyncedFile(d, @)] ELSE fs

\* fopen "w+b" truncates; create leaves the pool and the DIRTY flags alone.
disk_manager_create(d, p) ==
  [disk_manager_close(d) EXCEPT !.header = EmptyHeader, !.is_open = TRUE, !.path = p]

CreatedFiles(d, fs, p) ==
  [ClosedFiles(d, fs) EXCEPT
     ![p] = [header |-> EmptyHeader, images |-> [i \in 1..MaxPages |-> Null]]]

\* read_page_from_disk: a slot past the end, or skipped over, reads as zeros.
PageImage(file, i) == IF file.images[i] = Null THEN HolePage ELSE file.images[i]

CanOpen(d, file) == file # Null /\ d.next_page_id + file.header.page_count <= MaxPages + 1

\* Mutant: empty pages and holes enter the allocation tree.
disk_manager_open_AllPages(d, p, file) ==
  LET e == disk_manager_close(d)
      base == e.next_page_id - 1
      loaded == (base + 1)..(base + file.header.page_count)
      pages == [s \in 1..MaxPages |->
                  IF s \in loaded THEN PageImage(file, s - base) ELSE e.pages[s]]
  IN [e EXCEPT !.header = file.header, !.is_open = TRUE, !.path = p,
               !.pages = pages, !.next_page_id = @ + file.header.page_count,
               !.allocation_tree = @ \cup {[page |-> s, point |-> pages[s].centroid] : s \in loaded}]

(***************************************************************************)
(* disk_manager_open, on the file as disk_manager_close left it: pages     *)
(* 1 .. header.page_count are allocated after whatever the pool already    *)
(* holds, no track is rebuilt, the allocation tree only gains entries.     *)
(***************************************************************************)
disk_manager_open(d, p, file) ==
  LET e == disk_manager_close(d)
      base == e.next_page_id - 1
      loaded == (base + 1)..(base + file.header.page_count)
      pages == [s \in 1..MaxPages |->
                  IF s \in loaded THEN PageImage(file, s - base) ELSE e.pages[s]]
      filled == {s \in loaded : pages[s].object_count > 0}
  IN [e EXCEPT !.header = file.header, !.is_open = TRUE, !.path = p,
               !.pages = pages, !.next_page_id = @ + file.header.page_count,
               !.allocation_tree = @ \cup {[page |-> s, point |-> pages[s].centroid] : s \in filled}]
=============================================================================
