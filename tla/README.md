# A TLA+ model of Urbis

Urbis is a disk-aware spatial index: a C library that stores points,
linestrings and polygons on pages, groups pages into tracks, finds pages with a
KD-tree and a quadtree, saves them to a file, reads GeoJSON and WKT, and is
served over gRPC by a Go program. The modules in this directory model the
library and the server, TLC checks them on small instances, and TLAPS proves for
every value of the constants what range queries rest on, what a crash leaves in
the file, that the page cache is a least-recently-used cache, that the quadtree
finds what it holds, what the server's requests may count on, and that its
shutdown cuts none of them.

Paths below are those of the repository (`src/page.c`, `api/...`); in
`PROJECT.json` they carry the prefix `src/`.

## 1. Inventory

| Part | Source | State it keeps | Operations |
|---|---|---|---|
| Geometry | `src/geometry.c` | none | rectangles; lengths, areas, centroids; derived fields of an object |
| Pages and tracks | `src/page.c` | slot array, extent, centroid, checksum, flags; a track's page list and extent | add, remove, recompute, serialize, checksum |
| Page pool | `src/page.c` | pages, tracks, the next identifiers | allocate, free, look up |
| Page cache | `src/page.c` | list in order of use, hash table, count | get, evict, pin, unpin, flush |
| Disk manager | `src/disk_manager.c` | pool, cache, allocation tree, file header, open file | allocate or free a page, allocate a track, write a page, create, open, sync, close |
| Spatial index | `src/spatial_index.c`, `src/urbis.c` | disk manager, block tree, page quadtree, bounds, `is_built`, `next_object_id` | insert, remove, update, build, queries, save, load, clear |
| KD-tree | `src/kdtree.c` | nodes with bounds and subtree size | insert, bulk load, nearest, k-nearest, range, radius, partition |
| Quadtree | `src/quadtree.c` | nodes with items, `total_items` | insert, split, remove, update, clear, range and point queries |
| Parser | `src/parser.c` | position in a text | JSON values, GeoJSON and WKT to objects and back |
| gRPC service, bindings | `api/internal/service`, `api/pkg/urbis` | a `sync.Map` of names to handles; a handle's C pointer | one handler per request |
| Server process | `api/cmd/server/main.go` | main goroutine, signal goroutine, deadline | serve, graceful stop, forced stop |
| Command line | `src/urbis_cli.c` | none | wrappers over `urbis.h` |

How they interact. `urbis.h` is a thin layer over the spatial index, which owns
one disk manager. The disk manager owns the pool and the cache and keeps an
allocation KD-tree: a copy of the centroids of the pages that hold objects, with
pointers to those pages. The block KD-tree holds pointers into the slot arrays
of the pages, the quadtree pointers to pages with a copy of their extents. So
four structures describe the same objects, and only the pages are changed by
every call: the allocation tree is rebuilt by most of them, the block tree and
the quadtree only by `spatial_index_build`. A loading call parses its whole text
into features first and then inserts them one by one. The server runs each request on a
goroutine of its own, looks the index up in the map and calls the library
directly; the library has no locks.

What is hard here:

* stale copies: extents, centroids, checksums and three trees that some calls
  recompute and others do not, and pointers into arrays that `memmove` shifts;
* what is on disk: one DIRTY flag per page for whichever file is open, a file
  whose slots follow `page_id`, slots nobody wrote, crashes between two writes,
  writes that fail without anybody looking;
* pointers: a cache in which the list and the hash chains share `next`;
* limits: full pages, full tracks (each page is entered twice), full leaves;
* ties and borders: equal coordinates in a KD-tree, items on quadrant borders,
  objects without vertices;
* texts: two loops over one string with different bounds, features and rings that
  are skipped one by one, a failure in the middle of a load;
* signs and degenerate shapes: orientation, closed rings, rings without area;
* interleavings: check-then-store and close-then-delete on the server, two
  library calls in one index, the finalizer; a signal before the server serves, a
  deadline that passes while requests run.

What makes each part correct: a page's derived fields describe its objects; the
pool, the tracks and the allocation tree agree; queries return exactly what is
stored; a page that is not dirty is in the file; the cache is an LRU cache and
its calls return; the trees find what they hold; the server never loses the
pointer to an index it allocated, and clients with separate indexes do not
disturb each other; what a sync has put on disk stays there; a load stores
exactly the valid features of its text; a shutdown cuts no request. The full list, with lines, is `hazards` in `PROJECT.json`.

## 2. Modules

| Module | Models | Uses |
|---|---|---|
| `Geometry` | points, rectangles, objects without their vertices, as operators | |
| `Pages` | pages and tracks, as operators on records | `Geometry` |
| `DiskManager` | pool, allocation, files, as operators on a manager record | `Pages` |
| `QuadTreeFill` | which of the items put one after another into an empty quadtree are left in it | `Geometry` |
| `SpatialIndex` | the state machine: one action per call | `DiskManager`, `QuadTreeFill` |
| `ObjectStore` | abstract: a bag of objects | |
| `SpatialIndexProps` | the properties, the inductive invariant, the refinement | `SpatialIndex`, `ObjectStore` |
| `DiskFile` | the disk manager write by write, with faults and crashes | |
| `LruCache` | abstract: a least-recently-used cache | |
| `PageCache` | the cache, reference by reference | `LruCache` |
| `Shapes` | lines, rings and polygons with their vertices, and references for area and centroid | `Geometry` |
| `JsonParser` | the JSON parser, and a grammar it is compared with | |
| `GeoJson` | values to features and collections, export | `JsonParser`, `Shapes` |
| `Wkt` | WKT, export | `GeoJson` |
| `Loader` | the loading and inserting calls, feature by feature | `Wkt` |
| `KDTree` | the KD-tree, node by node | `Geometry` |
| `QuadTree` | the quadtree, node by node | `Geometry` |
| `UrbisServer` | the service, the handles and the garbage collector | |
| `ServerShutdown` | the server process: signals, the deadline, requests in progress | |
| `BasicLemmas` | lemmas on numbers, on paths in a tree and on repeated steps that several proofs need | |
| `SpatialIndexProofs` | proofs about the index: the operators of pages and manager and the invariant of types and extents; then the other properties and the store | `BasicLemmas` |
| `DiskFileProofs`, `PageCacheProofs`, `QuadTreeProofs`, `KDTreeProofs` | proofs about the file, the cache and the two trees | `BasicLemmas` |
| `UrbisServerProofs`, `ServerShutdownProofs` | proofs about the service and the process | |
| `MC_*` | instances for TLC; `MC_QuadTree` also fills the quadtree beside `QuadTreeFill` | |

Operators bear the names of the C functions they translate. A definition marked
`Mutant` is a variant of the one after it with a plausible mistake; it is not
part of the model and shows that a property would notice that mistake.

### How the state corresponds to the code

* Coordinates are integers in `-Inf..Inf`; `Inf` stands for `DBL_MAX`. The code
  only compares, adds and averages them. A page's centroid is kept as the
  sequence of points whose mean it is, and distances to it are compared as
  fractions, so no rounding is modelled.
* `dm` is the `DiskManager` struct with its `PagePool`. A page is named by the
  value of `next_page_id` at its allocation; a pointer to a page is that number,
  which is never reused, so that a dangling pointer can be told from a good one.
  `header.page_id` is data: it differs from the number for pages read from a file.
* A page keeps its whole slot array, the bytes left above `object_count`
  included.
* `disk` maps paths to files: a header and the page written at each slot. A page
  read back has lost its vertices (`page_serialize` writes id, type, centroid and
  rectangle), and a slot that was never written reads as zeros (`HolePage`).
* The checksum is the set of values that occur an odd number of times, which is
  what an XOR of hashes distinguishes.
* `block_tree` is a set of pointers (page, slot) with the points they were
  loaded with; `page_tree` is the quadtree's root rectangle and items. The
  shapes of both trees are in `KDTree` and `QuadTree`, whose properties justify
  the abstraction: a nearest search is exact up to ties (`NearestExact`), a
  range search is exact (`QueriesComplete`, `RangeQueriesComplete`). Inserting is
  not: with more pages than a node holds (`QT_CAPACITY`, 8 in
  `build_page_quadtree`) it splits and drops pages across a midline. Which items a
  sequence of insertions leaves is said by `Kept` in `QuadTreeFill`, in closed
  form: the node an item ends at does not depend on the others (`home`), it splits
  once when one item more than its capacity has come to it, and what it holds then
  and fits in no child is gone. The run `quadtree` compares this with `QuadTree`.
* An insert may follow an entry of the allocation tree to a page that `Clear`
  freed. What it reads there is undefined: the model takes every outcome
  (`PageOrNew`) - the page seems full and a new one is made, the object goes into
  freed memory, or the memory is by then a page that was loaded since.
* In `PageCache` every `PageRef` is a record with `next` and `prev`. The
  iterations of `page_cache_evict` are steps, because the loop need not end.
* `DiskFile` and `DiskManager` model the same file from two sides. `DiskManager`
  has the geometry of pages and takes a sync as one step that succeeds;
  `DiskFile` reduces a page to the set of objects put into it and takes every
  `write_page_to_disk` and `write_header` as a step of its own. Between the
  steps a crash may come, and each may fail. stdio keeps the order of writes to
  one file, so what a crash leaves is what a prefix of the writes wrote.
* In `JsonParser` and `Wkt` a text is a sequence of symbols; a symbol is one
  character, or a run the parser never looks into: a number that `strtod` reads
  in one call, a literal, plain characters of a string. Each operator returns
  error, value and position, as the C functions do through `ParserState`.
* In `Shapes` a centroid is a fraction and an area is taken twice, so nothing is
  rounded. Segments of lines are axis-parallel: their lengths are integers.
* In `ServerShutdown` main and the signal goroutine have program counters, the
  signal channel holds one signal, and a request may hang.
* In `UrbisServer` a goroutine has a program counter. Operations on the
  `sync.Map` are atomic; a call into the library is entered (where it reads
  `ptr`) and returns (where it takes effect), so two may overlap.

### Actions

`SpatialIndex`: `Insert` (the `urbis_index_insert_*` calls), `InsertWithId`
(features that bring an identifier), `RemoveObject`, `Update`, `Build` (also
`optimize`), `FindAdjacentPages` (the first adjacency query makes the quadtree),
`Save`, `Sync`, `UrbisLoad` (load into a fresh index), `Reload` (load into a used
one), `ReloadFails`, `Restart` (destroy and create), `Crash`, `Clear`. Queries
are operators on the state. The specifications differ in the calls: `SessionSpec`
(one index in memory), `FileSpec` (objects and files), `ApiSpec` (both, so all of
`urbis.h`), and `Spec` (all of `spatial_index.h`, with `Clear` and loads into a used
index); `ObjectSpec` has the object calls only.

`DiskFile`: `AllocPage`, `FreePage`, `AddObject`, `WritePage`, `Flush`
(`page_cache_flush`), `SyncBegin`, `SyncPage` and `SyncHeader` (the loop and the
end of `disk_manager_sync`, which `close` calls too), `Crash`, `Open`.

`Loader`: `LoadGeojson`, `LoadWkt`, `Insert`, `Validate` up to the first
insertion; `InsertNext` and `InsertFails` for each object; `Finish`.

`ServerShutdown`: `Serve`, `ServeReturns`, `ServeFails`; `ReceiveSignal`,
`GracefulStopBegins`, `GracefulStopReturns`, `CheckDeadline`, `ForceStop`; and
the environment: `Signal`, `Expire`, `StartRequest`, `EndRequest`, `HangRequest`.
What grpc-go does is taken from how `main.go` relies on it.

## 3. Runs

| Run | Expect | What it shows |
|---|---|---|
| `session` | pass | after every sequence of inserts, removes, updates and builds: a built index has an exact block tree; the bounds cover the objects and the extents of the pages; pages are on the track they name although each is entered twice; the index implements `ObjectStore` |
| `files` | pass | with two files, restarts and crashes: checksums are fresh in memory and on disk, no two pages claim one slot, holes are never written, as long as the open file is complete a page that is not dirty reads back as it is in memory, and the allocation tree lists exactly the pages with objects |
| `full` | pass | with every call and with objects without vertices: the inductive invariant, exact range queries; adjacency queries miss only pages that a split dropped or that are not inside the bounds; an insert harms no stored object and leaves an exact allocation tree, also after `Clear` |
| `disk_crash` | pass | objects a returned sync covered are found by every later open, whatever crashes and stops half-way; the header never counts a slot that should have been written and was not; the allocation tree points into the pool; a freed page leaves at most one dangling pointer in its track |
| `cache_lru` | pass | the list stays well formed, the table never dangles, evictions end while nothing is pinned, and the cache implements `LruCache` |
| `loader` | pass | the parser reads an object exactly where the text begins with one of the grammar, and reads what it says; a load stores every valid feature in order with its vertices, holes and identifier, up to the insertion that fails; identifiers the index gives are distinct; areas and centroids agree with Pick's theorem and with triangulation |
| `server` | pass | for requests that share names: the map only offers open indexes, but for the window between `Close` and `Delete`; every C index can still be freed. For clients with a name each: calls do not meet in an index, load counts are right, an index leaves the map only by the destroy that looked it up |
| `shutdown` | pass | no request is cut by the end of the process after a signal, nor by `Stop`; a signal ends the process unless a request hangs |
| `quadtree` | pass | queries find all that is stored; items lie as deep as they fit; leaves above the depth limit are never over capacity; the counter is never short; an insertion loses only items that a split cannot place; an empty quadtree that is filled holds exactly the items that `QuadTreeFill` says |
| `kdtree` | pass | bounds and sizes are exact after insertions and bulk loads with ties; nearest, k-nearest, range and radius queries are exact; blocks share no area |
| `resave` | violation | the second save of an index writes only pages changed since the first |
| `load_bounds` | violation | after a load an object sticks out of the bounds of the index |

Each type invariant is part of one of the properties of its module, which says so.

### Bounds, and why they are enough

* `session`: pages of two objects, up to two pages, three tracks of three
  slots, identifiers 1 and 2 handed out and identifier 1 also chosen by the
  caller. Two geometries, a rectangle and a point far from it. This gives full
  and emptied pages, shifted slots, a track that is full after the second entry
  of a page, a second track, duplicate identifiers, updates that move an object
  to another page, and builds between all of them.
* `files`: pages of one object, three pages, two interchangeable files: saves to
  a second file, holes, a load followed by allocations and further saves. The
  one geometry is centred on the origin, where the centroid of a hole ties with it.
* `full`: one file, two pages of one object; a rectangle and a geometry without
  vertices. `BLOCK_SIZE = 1` makes several blocks.
* All three: a page quadtree with one place to a node (`QT_CAPACITY = 1`) and two
  levels below the root, so that the second page splits it, as the ninth does in
  the code, and a rectangle across the middle is dropped. `load_bounds` and
  `resave` are small instances of the same model.
* `disk_crash`: two pages on tracks of four entries, two objects, one fault, one
  freed page, two restarts; the default strategy, the sequential one with
  `sync_on_write`, and a new track per page. A sync that stops after the first
  of two pages, a second sync over a file from the first, a failed write
  followed by a crash, an open that cannot read a page and a sync after it.
* `cache_lru`: capacity 3, so a table of 6 entries; pages 1 and 7 collide. Four
  pages over three places make every position of the list the victim.
* `loader`: two calls from a list of documents, WKT texts and inserted objects,
  one insertion that fails. Cases in which one call shows everything are made
  in a call of their own (`LoneDocuments`, `LoneShapes`, `Texts`): all
  collections of up to three of nine features, valid and invalid; every ring of
  three or four corners and every axis-parallel line of up to three vertices on
  a 3 by 3 grid; every text of up to four symbols, a short document with up to
  two symbols changed, and three longer ones with one changed. The alphabet has
  every symbol that the parser treats in a way of its own.
* `server`: two goroutines, two names, shared or one each, three handles
  (create, overwrite, create again), up to two objects in an index.
* `shutdown`: two requests, three signals: one received, one that waits in the
  channel, one dropped.
* `quadtree`: depth 2 and leaves of two items on an 8 by 8 square, up to four
  items: a split that cascades, items across the centre, across the midline of a
  child, on a border, out of the root, outside it. A behaviour takes any steps, or
  fills the empty tree and remembers in which order (`filling`, `inserted`).
* `kdtree`: up to four points from five that share coordinates, loaded in every
  combination with every outcome of the sort; depth 4 by insertion. Queries
  from inside and around the points, and from one place so far off that some
  squared distances reach `Inf`; radii from 0 to 2.

Counters (`MaxPages`, `MaxTracks`, `MaxId`, `MaxItems`, `MaxSize`, `MaxHandles`,
`MaxObjects`, `MaxCount`, `MaxFaults`, `MaxFrees`, `MaxRestarts`, `MaxCalls`,
`MaxFailures`, `MaxSignals`) are bounded by guards. A model stops when a bound
is reached, so deadlock is not checked where that happens; the program does not.

### Fairness

* `PageCache`: the library is sequential, and once a call is in its eviction
  loop nothing else runs, so the loop's next iteration is taken. That is
  `WF_vars(EvictLoop)`; no call is required to be made. The iteration that skips
  a pinned page changes nothing, so in the model it is a stutter that fairness
  cannot force past, as in the code.
* `ServerShutdown`: `WF_vars(Main)` and `WF_vars(Handler)`, because the Go
  scheduler runs every goroutine that can run; `WF_vars(EndRequest(r))`, because
  a request that does not hang comes to its end. Signals and the clock are not
  required to do anything.

## 4. Proofs

`SpatialIndexProofs` proves, for every set of geometries, page and track
capacity, block size, set of paths and bound that satisfy the assumptions:

* `InvHolds == Spec => []IInv`,
* `TypeCorrect == Spec => []TypeOK`,
* `RangeQueriesComplete == Spec => []RangeQueryComplete`.

Range queries skip a page whose extent misses the range, so they are complete
only if extents cover the objects of the page. That is not inductive alone: a
load brings pages from a file, so the images in every file must cover theirs as
well (`FilesCover`); a sync writes to the file of the open path, so that path
must name a file (`OpenFileExists`); an allocation recomputes the extent of a
track from the pages it lists, so these must exist (`TracksListPages`); all
need the types. `IInv` is the conjunction, and the run `full` checks it.

The argument goes bottom up. The module begins with rectangles and pages: minima and maxima of finite sets of coordinates exist (from the
well-foundedness of the naturals), so a `Hull` contains its rectangles; adding,
removing, recomputing and serializing keep a page a page whose extent covers its
objects. It goes on with the manager: the best track exists (a lexicographic
minimum of expansion and number), and each operation (allocate, rebuild, sync,
close, create, open) keeps a sound manager and sound files.
Then one lemma per group of calls says that the group keeps
`IInv`, and `NextInv` puts them together. The assumptions are those named in the
modules: capacities and bounds are natural numbers, `Inf` is positive, the
geometries are geometries, `Null` is no page, track, file or page tree, a quadtree
node has a place and the quadtree a level (`FillAssumption`).

Its second half proves the other properties of the index, from `IInv` and
under the same assumptions:

* for `Spec`, any sequence of calls: `BuiltBlockTreeExactHolds`,
  `ChecksumsFreshHolds`, `AdjacentCompleteHolds`, `InsertAddsOneObjectHolds`;
* for `ApiSpec`, the calls of `urbis.h` with files, restarts and crashes:
  `AllocationTreeExactHolds`, `EmptyPagesStayEmptyHolds` (a page that lost its last
  object never gets one again, which no run checks), `PageSlotsDistinctHolds`,
  `CleanPagesOnDiskHolds`;
* for `SessionSpec`, one index in memory: `BoundsCoverObjectsHolds`,
  `PagesOnTheirTracksHolds`, and
  `SessionIsStore == SessionSpec => StoreSpec`, the refinement of `ObjectStore`.

`ApiNext` is the disjunction of `SessionNext` and `FileNext`, so a theorem for
`ApiSpec` says more than the runs `files` and `resave`, which leave `Build` and
`FindAdjacentPages` out. Where a theorem is not for `Spec`, the property is not
meant for it: a load over a filled index appends pages that name slots other
pages have; `Clear` leaves entries to freed pages in the allocation tree, so that
an insert may put an object into an empty page loaded since; any load brings
bounds from the header (section 5), and pages that name tracks it does not
rebuild.

The calls are first sorted by shape. Those on objects take one out (`Removes`),
put one in (`Inserts`), or do the first and then the second (`ObjectShape`). The
others keep the pages (`KeepingStep`), append the pages of a file
(`LoadingStep`), start anew (`ResettingStep`) or free everything
(`ClearingStep`); `NextShape` says that there is no fifth kind. Each invariant is
then kept by each shape:

* `Allocation`: the entries of the allocation tree for pages that exist are those
  of the pages with objects, and every page and entry has a number below
  `next_page_id`. The second part keeps new pages, and those that a load appends,
  apart from the pages there are and from the entries `Clear` leaves. While no
  entry points to a freed page (`NoDanglingPages`, which every call of `urbis.h`
  keeps) this is `AllocationTreeExact`, and an insert goes to a page of the tree or
  to a new one, so that an empty page gets no object. After `Clear` an insert
  rebuilds the tree whatever page it took (`MissesAllocation`), so the next one is
  safe again: that is `InsertAddsOneObject`.
* `Verified` and `VerifiedDisk`: a checksum survives the file because every
  field that enters it is written, and an image is written of pages that verify.
* `FileInv`, for `ApiSpec`: pages are numbered without gaps and each claims the
  slot of its own number, or none when it was read from a hole, and then it is
  clean and empty (`Numbered`), so that nothing is ever inserted into it. A sync
  therefore writes each dirty page to a slot of its own, and a page that is clean
  is never written over (`CleanSaved`).
* `SessionInv`: the bounds of the index cover its objects, the extent of a page
  is the hull of its objects' rectangles (`ExtentsExact`; that it covers them
  would not do, since the extent of a page must not keep room for removed objects).
* `BuiltPageTree`: the page quadtree of a built index is what
  `build_page_quadtree` makes of the pages as they are (of an emptied index it may
  be an old one, and there is nothing to find). What a query misses is then what
  `Kept` leaves out, and by induction along the descent (`HomeEnds`) an item that is
  dropped above the depth limit fits in no child of its home.
* `TrackInv`: `Allocation` and `OnTracks`, which adds to the property that tracks
  and the tracks that pages name are below `next_track_id`, so that a track made
  by an allocation or a build is named by no page yet. The second addition of a
  page to its track may find it full; the first did not.

For `SessionIsStore` the live slots are a function to the records stored
(`Recs`), and the bag is that of its values. An insert is one argument more
(`InsertedSlot`: the next free slot of a page, or the first of a page whose
number no page has, which needs `Allocation`); a remove is one argument less,
after renaming the slots that `memmove` shifts (`RemovedSlot` gives the
bijection). One argument more or less is one copy more or less in the bag
(`BagAdded`, `BagRenamed`); this counts finite sets and needs no fold.

`UrbisServerProofs` proves, for any number of goroutines, index names and
handles and any setting of the clients' names, every property of the run
`server`: `MapHoldsOpenIndexes`, `NoLeakedIndex`, `NoConflict`,
`LeavesByItsDestroy` and `ReportsOwnObjects`. Its invariant has two halves.
`SharedInv` holds however clients share names: a handle keeps its ptr as long as
its C index (`PtrIsAlive`); what a goroutine has in hand at each program counter
was put there by its own request (`Stages`); a handle is known under one name
only (`OneName`), for until it is stored nobody else can have it
(`StoredFresh`); a closed handle that the map still holds has its `Delete` coming
(`ClosedAreDeleted`). `OwnInv` holds while clients have names of their own: the
map has under the name of a request what the request found there (`OwnName`),
so that the finalizer cannot reach the handle of a call (`OwnCall`), and nobody
changes the count between the two counts of a load (`OwnCount`). `OneName` is
what turns names into handles: two clients with different names never have one
handle in hand (`OwnHandle`). There is one lemma per part, with one step per
action; the larger actions have a lemma that says what they do. The assumption
is that `Nil` is no number and the bounds are natural numbers.

`DiskFileProofs` proves, for any number of pages, objects, faults, frees and
restarts and every setting of the strategies:

* `SyncedObjectsSurviveHolds`, `HolesWereBlankHolds`, `AllocationTreeInPoolHolds`,
  `OneDanglingPerFreeHolds`.

That an open finds what a sync covered is not inductive. The header is written
last and answers for every slot up to the size of the pool, so each page of the
pool must be on disk by then, although most were not written by this sync: a
page that is not dirty has been written, or what it holds counts as lost
(`CleanIsWritten`). A later write replaces an image that the header answers for,
so the page that goes there must still hold what the image has
(`PagesKeepDurable`), which in turn needs that a page is only ever written to
the slot of its number (`PoolNumbered`) and that no object moves between slots
(`OneSlot`). These hold while no page has been freed, which is also when the
properties promise anything: a freed page renumbers the pool at the next open
(section 5). `FileInv` is the conjunction with the types and the two properties.
Each step has a lemma that says what it does to pages, images and objects, each
part of the invariant a lemma that it is kept. `NullAssumption` says that `Null`
is no page.

How many entries point to freed pages is counted over all tracks, and what a free
takes out need not be an entry of the page it frees: `track_remove_page` reads
freed pages too and may stop at one. The invariant `TracksInv` says that a page
has at most two entries (`EnteredTwice`), that the entries of a page of the pool
are in its own track and of a number already given (`EntriesKnown`), and that
no track is longer than its array, so that the entries are finitely many. A free
then adds at most two entries that dangle and takes out one that does
(`EntriesLeft`, by an injection of what is left into what was there).

`PageCacheProofs` proves, for any capacity, any set of pages and any bound on
the evictions of a call:

* `ListWellFormedHolds`, `TableNotDanglingHolds`,
* `CacheIsLru == Spec => LruSpec`: the cache of pointers implements `LruCache`.

The invariant `CacheInv` says that some numbering `L` of the allocated
references follows `next` from `head` to `tail` and `prev` back (`IsList`); that
a table entry points at an allocated reference of its bucket; that a page alone
in its bucket is cached by the reference its entry points at (`AloneInTable`),
so that a miss means that it is not cached; and that a get which waits for an
eviction finds room, and its page still absent, when the loop is over
(`GetMayAdd`). One group of lemmas follows the assignments to `next` and `prev`
of a hit, an insertion and an eviction, and says how the list is renumbered
(`ChainMoved`, `ChainPushed`, `ChainDropped`); one says that the walks of the
code read the numbering (`WalkAlong`). The refinement mapping `Cached` reads the
pages along the list, so each renumbering is an operation on a sequence: a hit
is `Use`, the end of a miss `Admit`, an iteration that evicts `Drop`; the start
of an eviction, an iteration that skips a pinned page and a return without an
insertion change nothing the abstract cache sees. `NilAssumption` says that
`Nil` is no reference.

`QuadTreeProofs` proves, for any root that can be halved `max_depth` times, any
node capacity and depth, and any set of rectangles:

* `ItemsPlacedHolds`, `RangeQueriesCompleteHolds`, `CountNotShortHolds`,
* `InsertLosesOnlySpanningHolds`, the action property.

A tree is a value, since an insertion passes through trees that no state shows:
`Sound` says of one that its types are right, that it is closed (a node's parent
and siblings exist), that leaves above the depth limit are not over capacity
(`Roomy`), and that items are at home: inside their node unless it is the root,
and inside no child of an inner node. `IInv` is `Sound(Tree)` and the count. The
argument:

* Quadrant bounds are nested along every path, by induction on its length: here
  the divisibility of the root's sides is used. So an item at home is seen by
  every search that meets it, as is an item of the root, which no bounds of its
  own confine (`SoundSearches`).
* What a split hands to the four children are disjoint parts of the node's items
  (`ChosenPlaces`: each item handed on comes from a place of its own), none longer
  than the node's sequence, so children are not over capacity; the places after a
  split map one to one into those before it, so the count stays enough
  (`SplitCount`); an item that some child contains is in one (`SplitKeeps`).
* The descent ends at a leaf or where no child contains the rectangle, with every
  node on the way containing it (`TargetWay`, `TargetHome`). Each round of an
  insertion that splits moves this end one level down (`TargetAfterSplit`), so
  that after `max_depth` rounds nothing is left to split (`RoundsEnd`) and there
  is room for the item.
* The first holder of an identifier exists: of the holders, read as numbers with a
  digit per level and 0 past the end, one is least, digit by digit
  (`FirstInOrder`). A removal therefore takes out one place (`RemoveEffect`).

The recursive functions of the model (`BoundsOf`, `Chosen`, `target`,
`qtnode_insert`) are shown to exist by an induction with a set of indices, as the
walks of `PageCache` are. `QuadTreeAssumption` says what the code gets from its
callers: a root that is not empty, a capacity and a depth above zero
(`quadtree_init` replaces zero by its defaults).

`KDTreeProofs` proves, for any set of points, any loads of at most `MaxSize` of
them, any queries, rectangles and radii:

* `BoundsExactHolds`, `NearestExactHolds`, `QueriesCompleteHolds`,
  `BlocksApartHolds`.

Here too `Sound` is said of a tree as a value, and of a subtree, since a bulk
load joins subtrees that no state shows: the types; the nodes are closed under
the way to the root (`Rooted`); each carries the least rectangle around the
points below it and their number (`Measured`); and every point is on its side of
every split above it, on the split itself on either side (`Sorted`). `IInv` says
that `root` is sound, that `size` counts its nodes and that `bounds` is the least
rectangle around its points. The argument:

* `Tight` says of a rectangle that it is the least around some points. Expanding
  a tight rectangle by a point, or by a tight one, gives a tight one, and there is
  only one (`TightJoin`, `TightOneMore`, `TightUnique`): so the rectangles that
  an insertion updates on its way are those that a bulk load computes from below.
* The descent of an insertion leaves the tree within as many steps as the tree
  has nodes, and every node passed has the point on the side taken (`FreeWay`).
  A median whose two subtrees are sound, with their points on their sides, is
  the root of a sound tree (`OverSound`); by induction on the number of points
  so is every outcome of a bulk load, whatever the sort does with ties
  (`BuildSound`).
* A range query is complete because the rectangles above a point contain it
  (`RangeFinds`); a radius query because a disc is in its square
  (`DiscInSquare`). Two blocks part at a node with their points on the two sides
  of its split (`SplitApart`).
* A search below a node ends with a distance that is at most that of every point
  below and of the best before (`Answer`), by induction from the deepest paths
  up. The far side is skipped if the squared distance to the split is no less
  than the best; a point there is at least as far as the split (`FarSide`).

`ServerShutdownProofs` proves `RequestsRunToEndHolds` for any set of requests and number of signals, from
`ShutdownInv`: no request starts once `GracefulStop` has begun, none is in
progress once it has returned, and `Serve` returns after a signal only then.

Only model-checked:

* liveness: `UnpinnedEvictionEnds`, `StopsAfterSignal`;
* everything about the parser and the loading calls: their operators are recursive;
* that `QuadTreeFill` agrees with the quadtree node by node (`FillAgrees`), which the
  theorem on adjacency queries rests on.

## 5. What the model found

Two `violation` runs (`resave`, `load_bounds`) show that the code contradicts what a
header of the repository says of it. The other findings are behaviour that a passing property
leaves room for; each is stated as a condition in that property and listed,
with the line it contradicts, under `findings` or `hazards`:

* a pinned page at the tail makes `page_cache_evict` loop for ever
  (`UnpinnedEvictionEnds`), and a colliding page may be cached twice (`LruCache`);
* a split of the quadtree drops the items that fit in none of the children
  (`InsertLosesOnlySpanning` says that nothing else is lost): an index with nine or
  more pages with objects may lose pages this way, which adjacency queries then
  miss (`AdjacentComplete` says that only such pages are missed);
* a polygon in WKT is loaded without its vertices: the parser has skipped every
  parenthesis before it looks for the first ring (`LoadKeepsFeatures` leaves
  polygons in WKT out);
* identifiers the index gives may collide with those that objects bring or a
  load reads (`FreshIdsDistinct` compares the former only);
* `parse_string` cuts strings with escapes short (`ParseExact` leaves them out);
  a ring that is not an array shifts the holes after it;
* a write that fails is reported as a successful sync and never repeated; a page
  that an open cannot read stays empty and may be written over;
  `page_cache_flush` clears DIRTY without writing (`SyncedObjectsSurvive`);
* a freed page comes back at the next open, and the page in the last slot does
  not; a freed page stays in its track (`OneDanglingPerFree`);
* the forced stop of the server is never needed when it is reached, and not
  reached when it is needed; a signal before `Serve` makes the process end with
  a fatal error;
* an index emptied by removals is marked built and keeps its old block tree, and
  k-NN goes on answering from it;
* `spatial_index_clear` leaves the allocation tree with freed pages, which the
  next insert may follow: its object may be lost (`InsertAddsOneObject` promises it
  only without such entries; `AllocationTreeExact` is for the calls of `urbis.h`);
* after a load the bounds of the index are those of the file header, which grow
  only by centroids: `BoundsCoverObjects` holds in sessions and is violated by a
  load (`load_bounds`), and adjacency queries may miss pages that are not inside
  the bounds, which `AdjacentComplete` allows;
* `parse_number` takes what `strtod` takes, which is more than the numbers of JSON
  (`01`, `0x1`, `inf` after a minus): `ParseExact` is exact up to number tokens;
* each page takes two places in its track, and a build leaves the tracks of the
  last build behind;
* a `CreateIndex` between the `Close` and the `Delete` of a `DestroyIndex` is
  deleted with it, and two `CreateIndex` may both succeed; with a shared index,
  load counts are wrong and library calls overlap, although the repository's
  `README.md` lists "Thread-safe core data structures". The properties under
  `Isolated` show that clients with a name each are not concerned;
* the blocks of a KD-tree leave out the split points above them, and after a
  bulk load a point equal to the split coordinate may be on the left, against
  `kdtree.h`, which no search relies on.

## 6. Not modelled

* Failures of `malloc`, except where an insertion fails; failures of `fopen`.
* The command line tool, which keeps no state and makes one library call after
  another; examples, tests and benchmarks.
* What is inside a number: `strtod` and the texts it accepts.
* What writing to freed memory, after `spatial_index_clear`, does to anything but
  the pages of the index.
* Reading a file or a stream into a text, string identifiers and properties of
  features (nothing uses them), export of collections, export buffers that are
  too small, the detection of the format.
* The conversion of requests and answers between Go, gRPC and C.
* Statistics, seek estimates, queries of the disk manager by region, memory
  mapping, the growth of arrays.
* Rounding of doubles, lengths of slanted segments, and the wrap-around of
  32-bit page numbers.

## 7. Plan

Done, in this order: `Geometry`, `Pages`, `DiskManager`, `SpatialIndex` with its
abstract store and its proofs; `PageCache` with `LruCache`; `UrbisServer` and its
proofs; `QuadTree`; `KDTree`; `ServerShutdown`; `DiskFile`; `Shapes`, `JsonParser`,
`GeoJson`, `Wkt`, `Loader`; the proofs of `ServerShutdown`, `DiskFile` and
`PageCache`; the proofs of the other properties of `SpatialIndex` and of its
refinement of `ObjectStore`; the proofs of `QuadTree` and of `KDTree`.

Next, in order of importance:

1. `DiskFile` under two files, and an abstract map from page numbers to contents
   that it implements.
2. Insertions that fail inside `SpatialIndex` (an update that loses its object).
