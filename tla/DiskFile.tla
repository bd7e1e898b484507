------------------------------ MODULE DiskFile ------------------------------
(***************************************************************************)
(* The disk manager of src/src/disk_manager.c called directly, with its    *)
(* writes one by one: a crash may come between any two of them, a write or *)
(* a read may fail, and pages may be freed.  (The module DiskManager takes *)
(* a sync as one step that succeeds, which is how the index uses it.)      *)
(*                                                                         *)
(* A page's content is the set of objects put into it; centroids, extents  *)
(* and objects that leave a page are in DiskManager and SpatialIndex.  A   *)
(* page is named by its serial, the value of next_page_id when it was      *)
(* allocated.  stdio keeps the order of the writes of one file, so that    *)
(* what a crash leaves in the file is what some prefix of them wrote: the  *)
(* buffer itself needs no variable.                                        *)
(***************************************************************************)
EXTENDS Integers, FiniteSets, FiniteSetsExt, Sequences, SequencesExt

CONSTANTS
  Configs,          \* the configurations looked at
  PAGES_PER_TRACK,
  MaxPages,         \* bound: pages a manager ever allocates
  MaxObjects,       \* bound: objects ever inserted
  MaxFaults,        \* bound: reads and writes that fail
  MaxFrees,         \* bound: pages freed
  MaxRestarts,      \* bound: times the file is opened again
  Null

\* ALLOC_NEAREST_TRACK and ALLOC_BEST_FIT choose among the tracks with
\* space by centroid: "by_place" stands for both, with any choice.
Config == [strategy : {"by_place", "sequential", "new_track"}, sync_on_write : BOOLEAN]

ASSUME FileAssumption ==
  /\ Configs \subseteq Config
  /\ PAGES_PER_TRACK \in Nat \ {0}
  /\ {MaxPages, MaxObjects, MaxFaults, MaxFrees, MaxRestarts} \subseteq Nat

Serial == 1..MaxPages
Object == 1..MaxObjects

Page == [page_id : 0..MaxPages, track_id : Nat, objects : SUBSET Object, dirty : BOOLEAN]

ASSUME NullAssumption == Null \notin Page

VARIABLES
  config,     \* of the manager; never changes
  up,         \* a manager exists and has the file open
  pages,      \* the pool, by serial
  next_page_id,
  tracks,     \* the page pointers of each track
  tree,       \* the pages in the allocation tree
  syncing,    \* where disk_manager_sync is, "idle" outside; "leave": close called it
  page_count, \* in the header on disk
  images,     \* the page last written at each slot
  inserted,   \* how many objects were ever inserted
  faults, frees, restarts,
  lost,       \* objects whose page lost its DIRTY flag without reaching the file
  hidden,     \* objects of a page that could not be read
  blank,      \* pages that had nothing to be found when the header was written
  durable     \* objects the file holds as far as the caller can know

manager == <<pages, next_page_id, tracks, tree>>
file == <<page_count, images>>
counters == <<inserted, faults, frees, restarts>>
ghosts == <<lost, hidden, blank, durable>>
vars == <<config, up, manager, syncing, file, counters, ghosts>>

Pool == {s \in Serial : pages[s] # Null}

TypeOK ==
  /\ config \in Configs /\ up \in BOOLEAN
  /\ pages \in [Serial -> Page \cup {Null}] /\ next_page_id \in 1..(MaxPages + 1)
  /\ tracks \in Seq(Seq(Serial)) /\ tree \subseteq Serial
  /\ syncing \in [pc : {"idle", "pages"}, leave : BOOLEAN]
  /\ page_count \in 0..MaxPages /\ images \in [Serial -> Page \cup {Null}]
  /\ inserted \in 0..MaxObjects /\ faults \in 0..MaxFaults
  /\ frees \in 0..MaxFrees /\ restarts \in 0..MaxRestarts
  /\ lost \subseteq Object /\ hidden \subseteq Object /\ blank \subseteq Serial
  /\ durable \subseteq Object

NoPages == [s \in Serial |-> Null]
Idle == [pc |-> "idle", leave |-> FALSE]

\* disk_manager_init and disk_manager_create.
Init ==
  /\ config \in Configs /\ up = TRUE
  /\ pages = NoPages /\ next_page_id = 1 /\ tracks = <<>> /\ tree = {}
  /\ syncing = Idle
  /\ page_count = 0 /\ images = NoPages
  /\ inserted = 0 /\ faults = 0 /\ frees = 0 /\ restarts = 0
  /\ lost = {} /\ hidden = {} /\ blank = {} /\ durable = {}

Ready == up /\ syncing = Idle

-----------------------------------------------------------------------------
\* Allocation.

has_space(t) == Len(tracks[t]) < PAGES_PER_TRACK

\* The tracks disk_manager_find_best_track may return; none: a new track.
find_best_track ==
  CASE config.strategy = "by_place" -> {t \in DOMAIN tracks : has_space(t)}
    [] config.strategy = "sequential" -> {t \in {Len(tracks)} \ {0} : has_space(t)}
    [] OTHER -> {}

\* page_pool_alloc enters the page into its track, disk_manager_alloc_page
\* enters it again; a full track refuses.
Entered(track, s) == SubSeq(track \o <<s, s>>, 1, Min({Len(track) + 2, PAGES_PER_TRACK}))

AllocPage ==
  LET s == next_page_id
      found == find_best_track
  IN /\ Ready /\ s <= MaxPages
     /\ \E t \in IF found = {} THEN {Len(tracks) + 1} ELSE found :
          /\ tracks' = IF t > Len(tracks) THEN Append(tracks, Entered(<<>>, s))
                       ELSE [tracks EXCEPT ![t] = Entered(@, s)]
          /\ pages' = [pages EXCEPT ![s] = [page_id |-> s, track_id |-> t,
                                            objects |-> {}, dirty |-> FALSE]]
     /\ next_page_id' = s + 1 /\ tree' = tree \cup {s}
     /\ UNCHANGED <<config, up, syncing, file, counters, ghosts>>

\* Mutant: the page stays in its track.
RemoveEntry_None(track, s) == {track}

\* track_remove_page takes out the first entry whose page has the identifier
\* of s.  Entries of freed pages are read too, and may hold anything.
RemoveEntry(track, s) ==
  LET own == {k \in DOMAIN track : track[k] = s}
      freed == {k \in DOMAIN track : pages[track[k]] = Null}
      hits == {k \in freed : \A j \in own : k < j} \cup (IF own = {} THEN {} ELSE {Min(own)})
  IN {RemoveAt(track, k) : k \in hits} \cup (IF own = {} THEN {track} ELSE {})

\* Mutant: the allocation tree is not rebuilt.
FreePage_TreeKept(s) ==
  /\ Ready /\ s \in Pool /\ frees < MaxFrees
  /\ \A q \in Pool : pages[q].page_id = pages[s].page_id => s <= q
  /\ pages' = [pages EXCEPT ![s] = Null]
  /\ IF pages[s].track_id \in DOMAIN tracks
     THEN \E rest \in RemoveEntry(tracks[pages[s].track_id], s) :
            tracks' = [tracks EXCEPT ![pages[s].track_id] = rest]
     ELSE tracks' = tracks
  /\ tree' = tree
  /\ frees' = frees + 1
  /\ UNCHANGED <<config, up, next_page_id, syncing, file, inserted, faults, restarts, ghosts>>

\* disk_manager_free_page, on the first page with its identifier.
FreePage(s) ==
  /\ Ready /\ s \in Pool /\ frees < MaxFrees
  /\ \A q \in Pool : pages[q].page_id = pages[s].page_id => s <= q
  /\ pages' = [pages EXCEPT ![s] = Null]
  /\ IF pages[s].track_id \in DOMAIN tracks
     THEN \E rest \in RemoveEntry(tracks[pages[s].track_id], s) :
            tracks' = [tracks EXCEPT ![pages[s].track_id] = rest]
     ELSE tracks' = tracks
  /\ tree' = {q \in Pool \ {s} : pages[q].objects # {}}
  /\ frees' = frees + 1
  /\ UNCHANGED <<config, up, next_page_id, syncing, file, inserted, faults, restarts, ghosts>>

-----------------------------------------------------------------------------
\* Changes to a page, and writes of a single page.

\* page_add_object on a page the caller got from the manager.
AddObject(s) ==
  /\ Ready /\ s \in Pool /\ inserted < MaxObjects
  /\ inserted' = inserted + 1
  /\ pages' = [pages EXCEPT ![s].objects = @ \cup {inserted + 1}, ![s].dirty = TRUE]
  /\ UNCHANGED <<config, up, next_page_id, tracks, tree, syncing, file, faults, frees, restarts, ghosts>>

\* The file after write_page_to_disk: the flags are those of the moment.  A
\* page with identifier 0 goes to no slot that is ever read.
Written(page) == IF page.page_id = 0 THEN images ELSE [images EXCEPT ![page.page_id] = page]

\* disk_manager_write_page.
WritePage(s) ==
  LET page == [pages[s] EXCEPT !.dirty = TRUE]
      counted == page.page_id \in 1..page_count
  IN /\ Ready /\ s \in Pool
     /\ pages' = [pages EXCEPT ![s] = page]
     /\ \/ /\ ~ config.sync_on_write
           /\ UNCHANGED <<images, faults, lost, durable>>
        \/ /\ config.sync_on_write
           /\ images' = Written(page)
           /\ lost' = IF page.page_id = 0 THEN lost ELSE lost \ page.objects
           /\ durable' = IF counted THEN durable \cup page.objects ELSE durable
           /\ UNCHANGED faults
        \/ /\ config.sync_on_write /\ faults < MaxFaults
           /\ faults' = faults + 1
           /\ UNCHANGED <<images, lost, durable>>
     /\ UNCHANGED <<config, up, next_page_id, tracks, tree, syncing, page_count,
                    inserted, frees, restarts, hidden, blank>>

\* page_cache_flush: "In a real implementation, write to disk here".
Flush ==
  LET dirty == {s \in Pool : pages[s].dirty}
  IN /\ Ready /\ dirty # {}
     /\ pages' = [s \in Serial |-> IF s \in dirty THEN [pages[s] EXCEPT !.dirty = FALSE] ELSE pages[s]]
     /\ lost' = lost \cup UNION {pages[s].objects : s \in dirty}
     /\ UNCHANGED <<config, up, next_page_id, tracks, tree, syncing, file, counters, hidden, blank, durable>>

-----------------------------------------------------------------------------
\* disk_manager_sync and disk_manager_close, write by write.

DirtyPages == {s \in Pool : pages[s].dirty}

SyncBegin(leave) ==
  /\ Ready
  /\ syncing' = [pc |-> "pages", leave |-> leave]
  /\ UNCHANGED <<config, up, manager, file, counters, ghosts>>

\* Mutant: the flag is cleared, the page is not written.
SyncPage_FlagOnly ==
  LET s == Min(DirtyPages)
  IN /\ up /\ syncing.pc = "pages" /\ DirtyPages # {}
     /\ pages' = [pages EXCEPT ![s].dirty = FALSE]
     /\ UNCHANGED <<config, up, next_page_id, tracks, tree, syncing, file, counters, ghosts>>

\* The next dirty page.  The result of write_page_to_disk is not looked at.
SyncPage ==
  LET s == Min(DirtyPages)
  IN /\ up /\ syncing.pc = "pages" /\ DirtyPages # {}
     /\ pages' = [pages EXCEPT ![s].dirty = FALSE]
     /\ \/ /\ images' = Written(pages[s])
           /\ lost' = IF pages[s].page_id = 0 THEN lost \cup pages[s].objects
                      ELSE lost \ pages[s].objects
           /\ UNCHANGED faults
        \/ /\ faults < MaxFaults
           /\ faults' = faults + 1
           /\ lost' = lost \cup pages[s].objects
           /\ UNCHANGED images
     /\ UNCHANGED <<config, up, next_page_id, tracks, tree, syncing, page_count,
                    inserted, frees, restarts, hidden, blank, durable>>

\* The memory of the manager after close and free, or after a crash.
Gone ==
  /\ up' = FALSE /\ syncing' = Idle
  /\ pages' = NoPages /\ next_page_id' = 1 /\ tracks' = <<>> /\ tree' = {}

EndSync ==
  IF syncing.leave THEN Gone
  ELSE /\ syncing' = Idle
       /\ UNCHANGED <<up, manager>>

InMemory == UNION {pages[s].objects : s \in Pool}

\* Mutant: the header goes first.
SyncHeader_First ==
  /\ up /\ syncing.pc = "pages" /\ DirtyPages # {} /\ page_count # Cardinality(Pool)
  /\ page_count' = Cardinality(Pool)
  /\ blank' = {s \in Pool : pages[s].objects \subseteq lost}
  /\ UNCHANGED <<config, up, manager, syncing, images, counters, lost, hidden, durable>>

\* The header, when no page is dirty any more: its page_count is the number
\* of pages in the pool.  Its result is not looked at either.
SyncHeader ==
  /\ up /\ syncing.pc = "pages" /\ DirtyPages = {}
  /\ \/ /\ page_count' = Cardinality(Pool)
        /\ blank' = {s \in Pool : pages[s].objects \subseteq lost}
        /\ durable' = durable \cup (InMemory \ lost)
        /\ UNCHANGED faults
     \/ /\ faults < MaxFaults
        /\ faults' = faults + 1
        /\ UNCHANGED <<page_count, blank, durable>>
  /\ EndSync
  /\ UNCHANGED <<config, images, inserted, frees, restarts, lost, hidden>>

-----------------------------------------------------------------------------
\* Crash and open.

Crash == up /\ Gone /\ UNCHANGED <<config, file, counters, ghosts>>

\* page_pool_alloc(pool, 0), then read_page_from_disk into it.
EmptyPage(i) == [page_id |-> i, track_id |-> 0, objects |-> {}, dirty |-> FALSE]
HolePage == EmptyPage(0)

\* disk_manager_open by a fresh manager.  A page that cannot be read stays
\* empty; a slot nobody wrote reads as zeros.
Open ==
  /\ ~ up /\ restarts < MaxRestarts
  /\ \E bad \in SUBSET (1..page_count) :
       /\ faults + Cardinality(bad) <= MaxFaults
       /\ faults' = faults + Cardinality(bad)
       /\ pages' = [s \in Serial |->
            IF s > page_count THEN Null
            ELSE IF s \in bad THEN EmptyPage(s)
            ELSE IF images[s] = Null THEN HolePage ELSE images[s]]
       /\ tree' = {s \in 1..page_count : s \notin bad /\ images[s] # Null /\ images[s].objects # {}}
       /\ hidden' = hidden \cup UNION {images[i].objects : i \in {j \in bad : images[j] # Null}}
  /\ up' = TRUE /\ next_page_id' = page_count + 1
  /\ restarts' = restarts + 1 /\ lost' = {}
  /\ UNCHANGED <<config, tracks, syncing, file, inserted, frees, blank, durable>>

-----------------------------------------------------------------------------
Next ==
  \/ AllocPage \/ Flush \/ SyncPage \/ SyncHeader \/ Crash \/ Open
  \/ \E s \in Serial : AddObject(s) \/ WritePage(s) \/ FreePage(s)
  \/ \E leave \in BOOLEAN : SyncBegin(leave)

Spec == Init /\ [][Next]_vars

-----------------------------------------------------------------------------
\* Properties.

\* What an open would find.
OnFile == UNION {images[i].objects : i \in {j \in 1..page_count : images[j] # Null}}

(***************************************************************************)
(* "Sync all changes to disk" (disk_manager.h): once a sync has returned,  *)
(* whatever crashes, later syncs that stop half-way and further changes    *)
(* follow, the next open finds every object it covered.  Three things      *)
(* break this in the code and are left out: objects whose write failed     *)
(* without anybody noticing (lost), objects of a page that an open could   *)
(* not read and a later sync overwrote (hidden), and files with a freed    *)
(* page, of which open reads page_count slots from the first.              *)
(***************************************************************************)
SyncedObjectsSurvive == frees = 0 => durable \ hidden \subseteq OnFile

(***************************************************************************)
(* The header is written after the pages: it never counts a slot that has  *)
(* no image, not even after a crash in the middle of a sync, except for    *)
(* pages that had nothing to be written, or whose write failed.            *)
(***************************************************************************)
HolesWereBlank ==
  frees = 0 => \A i \in 1..page_count : images[i] = Null => i \in blank

(***************************************************************************)
(* The allocation tree points to pages of the pool only: free_page         *)
(* rebuilds it, and open enters no page that is not there.                 *)
(* The types hold with it.                                                 *)
(***************************************************************************)
AllocationTreeInPool == TypeOK /\ tree \subseteq Pool

\* The entries of the tracks sq, and those that point to one of the pages in S.
Entries(sq) == UNION {{t} \X DOMAIN sq[t] : t \in DOMAIN sq}
EntriesTo(sq, S) == {e \in Entries(sq) : sq[e[1]][e[2]] \in S}

(***************************************************************************)
(* "Remove from track" (page.c): a page is entered twice and removed once, *)
(* so that each page freed leaves a pointer to freed memory in its track,  *)
(* but never more than one.                                                *)
(***************************************************************************)
OneDanglingPerFree == Cardinality(EntriesTo(tracks, Serial \ Pool)) <= frees
=============================================================================
