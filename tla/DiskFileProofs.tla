--------------------------- MODULE DiskFileProofs ---------------------------
(***************************************************************************)
(* What a crash leaves: the objects a sync covered are found by the next   *)
(* open, for every strategy, any number of pages, objects, faults and      *)
(* restarts.  The argument is the inductive invariant FileInv.  An object  *)
(* stays in the slot its page was given (OneSlot), a page that counts as   *)
(* clean has been written (CleanIsWritten), so that the header may answer  *)
(* for every page of the pool; and what the file answers for is still in   *)
(* the page that a later write puts in the place (PagesKeepDurable).       *)
(*                                                                         *)
(* What a free leaves: TracksInv counts the entries of the tracks.  A page *)
(* of the pool has at most two, all in its own track (EnteredTwice,        *)
(* EntriesKnown), and a free takes out one.                                *)
(*                                                                         *)
(* Each step's effect on pages, images and objects is a lemma; each part   *)
(* of the invariant is kept, one lemma a part and one step an action.      *)
(***************************************************************************)
EXTENDS DiskFile, BasicLemmas, FiniteSetTheorems

-----------------------------------------------------------------------------
\* The inductive invariant.

\* The objects of a page in memory, and of the image in a slot.
In(s) == IF pages[s] = Null THEN {} ELSE pages[s].objects
At(s) == IF images[s] = Null THEN {} ELSE images[s].objects

\* A manager that is not up holds nothing.
DownIsEmpty == ~ up => pages = NoPages /\ tree = {} /\ tracks = <<>> /\ syncing = Idle

\* Without frees the pool is an initial segment, a page is written to the slot
\* of its serial or, read from a hole, to none, and the header counts no more
\* than the pool holds.
PoolNumbered ==
  frees = 0 =>
    /\ up => /\ \A s \in Serial : pages[s] # Null <=> s < next_page_id
             /\ page_count < next_page_id
    /\ \A s \in Serial : pages[s] # Null => pages[s].page_id \in {0, s}
    /\ \A s \in Serial : images[s] # Null => images[s].page_id = s

\* An object stays in the slot it was put into.
OneSlot ==
  frees = 0 =>
    /\ durable \subseteq 1..inserted
    /\ \A s \in Serial : (At(s) \cup In(s)) \subseteq 1..inserted
    /\ \A s, q \in Serial : s # q => (At(s) \cup In(s)) \cap (At(q) \cup In(q)) = {}

\* A page that is not dirty has its objects in its image, or they are lost.
CleanIsWritten ==
  frees = 0 => \A s \in Serial :
    pages[s] # Null /\ ~ pages[s].dirty => In(s) \subseteq At(s) \cup lost

\* A page that a write may replace still has what the file answers for.
PagesKeepDurable ==
  frees = 0 /\ up => \A s \in Serial :
    s <= page_count => At(s) \cap durable \subseteq In(s) \cup hidden

FileInv ==
  /\ TypeOK /\ tree \subseteq Pool /\ DownIsEmpty
  /\ PoolNumbered /\ OneSlot /\ CleanIsWritten /\ PagesKeepDurable
  /\ SyncedObjectsSurvive /\ HolesWereBlank

-----------------------------------------------------------------------------
\* What a change of one page, or of one image, does to the objects.

\* Objects are where they were when the pages, or the images, are the same.
LEMMA NothingMoved ==
  /\ pages' = pages => \A q \in Serial : In(q)' = In(q)
  /\ images' = images => \A q \in Serial : At(q)' = At(q)
BY DEF In, At

\* One page put into the pool: the others, and their objects, stay.
LEMMA PageChanged ==
  ASSUME TypeOK, NEW s \in Serial, NEW p \in Page, pages' = [pages EXCEPT ![s] = p]
  PROVE  /\ pages'[s] = p /\ p # Null /\ In(s)' = p.objects
         /\ \A q \in Serial \ {s} : pages'[q] = pages[q] /\ In(q)' = In(q)
BY NullAssumption DEF TypeOK, In

\* One image put into the file: the other slots stay.
LEMMA ImageChanged ==
  ASSUME TypeOK, NEW s \in Serial, NEW p \in Page, images' = [images EXCEPT ![s] = p]
  PROVE  /\ images'[s] = p /\ p # Null /\ At(s)' = p.objects
         /\ \A q \in Serial \ {s} : images'[q] = images[q] /\ At(q)' = At(q)
BY NullAssumption DEF TypeOK, At

\* The fields of a page of the pool have their types.
LEMMA PageFields ==
  ASSUME TypeOK, NEW s \in Serial, pages[s] # Null
  PROVE  /\ pages[s] \in Page /\ In(s) = pages[s].objects
         /\ pages[s].page_id \in 0..MaxPages /\ pages[s].objects \subseteq Object
BY DEF TypeOK, In, Page

\* A page that is written goes to its slot, without frees the one of its serial.
LEMMA WrittenEffect ==
  ASSUME TypeOK, PoolNumbered, frees = 0, NEW s \in Serial, pages[s] # Null,
         NEW p \in Page, p.page_id = pages[s].page_id, p.objects = pages[s].objects,
         images' = Written(p)
  PROVE  \/ /\ pages[s].page_id = s /\ images'[s] = p /\ p # Null /\ At(s)' = In(s)
            /\ \A q \in Serial \ {s} : images'[q] = images[q] /\ At(q)' = At(q)
         \/ pages[s].page_id = 0 /\ images' = images
<1>1. CASE pages[s].page_id = 0
  BY <1>1 DEF Written
<1>2. CASE pages[s].page_id # 0
  <2>1. pages[s].page_id = s
    BY <1>2 DEF PoolNumbered
  <2>2. images' = [images EXCEPT ![s] = p]
    BY <1>2, <2>1 DEF Written
  <2> QED BY <2>1, <2>2, ImageChanged, PageFields
<1> QED BY <1>1, <1>2

-----------------------------------------------------------------------------
\* What the steps do.

FileKept == UNCHANGED <<images, page_count>>

\* An allocated page is new, empty and clean, and goes by its serial.
LEMMA AllocEffect ==
  ASSUME TypeOK, DownIsEmpty, AllocPage
  PROVE  \E s \in Serial :
         /\ s = next_page_id /\ next_page_id' = s + 1 /\ up /\ up'
         /\ pages'[s] # Null /\ pages'[s].page_id = s /\ ~ pages'[s].dirty /\ In(s)' = {}
         /\ \A q \in Serial \ {s} : pages'[q] = pages[q] /\ In(q)' = In(q)
         /\ FileKept /\ UNCHANGED <<lost, hidden, blank, durable, inserted, frees>>
<1>1. PICK s \in Serial : s = next_page_id /\ s \in 0..MaxPages
  BY FileAssumption DEF AllocPage, TypeOK, Serial
<1>2. PICK t \in IF find_best_track = {} THEN {Len(tracks) + 1} ELSE find_best_track :
        pages' = [pages EXCEPT ![s] =
                    [page_id |-> s, track_id |-> t, objects |-> {}, dirty |-> FALSE]]
  BY <1>1 DEF AllocPage
<1>3. t \in Nat
  <2>1. Len(tracks) \in Nat /\ DOMAIN tracks = 1..Len(tracks)
    BY LenProperties DEF TypeOK
  <2>2. find_best_track \subseteq 1..Len(tracks)
    BY <2>1 DEF find_best_track
  <2> QED BY <2>1, <2>2
<1> DEFINE p == [page_id |-> s, track_id |-> t, objects |-> {}, dirty |-> FALSE]
<1>4. p \in Page /\ p.page_id = s /\ p.objects = {} /\ ~ p.dirty
  BY <1>1, <1>3 DEF Page
<1>5. pages' = [pages EXCEPT ![s] = p]
  BY <1>2
<1> HIDE DEF p
<1>6. /\ pages'[s] = p /\ p # Null /\ In(s)' = {}
      /\ \A q \in Serial \ {s} : pages'[q] = pages[q] /\ In(q)' = In(q)
  BY <1>1, <1>4, <1>5, PageChanged
<1>7. /\ next_page_id' = s + 1 /\ up /\ up'
      /\ FileKept /\ UNCHANGED <<lost, hidden, blank, durable, inserted, frees>>
  BY <1>1 DEF AllocPage, Ready, FileKept, file, counters, ghosts
<1>8. pages'[s].page_id = s /\ ~ pages'[s].dirty
  BY <1>4, <1>6
<1> QED BY <1>1, <1>6, <1>7, <1>8

\* page_add_object puts an object nobody holds yet into a page.
LEMMA AddEffect ==
  ASSUME TypeOK, NEW s \in Serial, AddObject(s)
  PROVE  /\ up /\ up' /\ pages[s] # Null /\ pages'[s] # Null /\ pages'[s].dirty
         /\ pages'[s].page_id = pages[s].page_id
         /\ inserted' = inserted + 1 /\ In(s)' = In(s) \cup {inserted + 1}
         /\ \A q \in Serial \ {s} : pages'[q] = pages[q] /\ In(q)' = In(q)
         /\ FileKept /\ UNCHANGED <<lost, hidden, blank, durable, frees, next_page_id>>
<1> DEFINE p == [pages[s] EXCEPT !.objects = @ \cup {inserted + 1}, !.dirty = TRUE]
<1>1. pages[s] # Null /\ pages[s] \in Page
  BY PageFields DEF AddObject, Pool
<1>2. inserted + 1 \in Object
  BY FileAssumption DEF AddObject, TypeOK, Object
<1>3. /\ p \in Page /\ p.objects = pages[s].objects \cup {inserted + 1} /\ p.dirty
      /\ p.page_id = pages[s].page_id
  BY <1>1, <1>2 DEF Page
<1>4. pages' = [pages EXCEPT ![s] = p]
  BY DEF AddObject
<1> HIDE DEF p
<1> QED
  BY <1>1, <1>3, <1>4, PageChanged, PageFields
     DEF AddObject, Ready, FileKept, file, ghosts

\* page_cache_flush clears flags: what was dirty counts as lost.
LEMMA FlushEffect ==
  ASSUME TypeOK, Flush
  PROVE  /\ up /\ up'
         /\ \A q \in Serial : /\ pages'[q] = Null <=> pages[q] = Null
                              /\ pages[q] # Null => pages'[q].page_id = pages[q].page_id
                              /\ pages[q] # Null /\ pages[q].dirty => In(q) \subseteq lost'
                              /\ In(q)' = In(q)
         /\ lost \subseteq lost'
         /\ FileKept /\ UNCHANGED <<hidden, blank, durable, inserted, frees, next_page_id>>
<1> DEFINE dirty == {s \in Pool : pages[s].dirty}
<1>1. /\ pages' = [s \in Serial |->
           IF s \in dirty THEN [pages[s] EXCEPT !.dirty = FALSE] ELSE pages[s]]
      /\ lost' = lost \cup UNION {pages[s].objects : s \in dirty}
  BY DEF Flush
<1>2. ASSUME NEW q \in Serial
      PROVE  /\ pages'[q] = Null <=> pages[q] = Null
             /\ pages[q] # Null => pages'[q].page_id = pages[q].page_id
             /\ In(q)' = In(q)
  <2>1. CASE q \in dirty
    <3>1. pages[q] \in Page
      BY <2>1, PageFields DEF Pool
    <3>2. /\ [pages[q] EXCEPT !.dirty = FALSE] \in Page
          /\ [pages[q] EXCEPT !.dirty = FALSE].objects = pages[q].objects
          /\ [pages[q] EXCEPT !.dirty = FALSE].page_id = pages[q].page_id
      BY <3>1 DEF Page
    <3>3. pages'[q] = [pages[q] EXCEPT !.dirty = FALSE]
      BY <1>1, <2>1
    <3> QED BY <3>1, <3>2, <3>3, NullAssumption DEF In
  <2>2. CASE q \notin dirty
    BY <1>1, <2>2 DEF In
  <2> QED BY <2>1, <2>2
<1>3. ASSUME NEW q \in Serial, pages[q] # Null, pages[q].dirty PROVE In(q) \subseteq lost'
  BY <1>1, <1>3 DEF In, Pool
<1> QED BY <1>1, <1>2, <1>3 DEF Flush, Ready, FileKept, file, counters

\* disk_manager_write_page marks the page, and may write it to its slot.
LEMMA WriteEffect ==
  ASSUME TypeOK, PoolNumbered, frees = 0, NEW s \in Serial, WritePage(s)
  PROVE  /\ up /\ up' /\ pages[s] # Null /\ pages'[s] # Null /\ pages'[s].dirty
         /\ pages'[s].page_id = pages[s].page_id
         /\ \A q \in Serial : In(q)' = In(q)
         /\ \A q \in Serial \ {s} : pages'[q] = pages[q]
         /\ UNCHANGED <<page_count, hidden, blank, inserted, frees, next_page_id>>
         /\ \/ images' = images /\ lost' = lost /\ durable' = durable
            \/ images' = images /\ lost' = lost /\ pages[s].page_id = 0 /\ durable' = durable
            \/ /\ images'[s] # Null /\ images'[s].page_id = s /\ At(s)' = In(s)
               /\ \A q \in Serial \ {s} : images'[q] = images[q] /\ At(q)' = At(q)
               /\ lost' = lost \ In(s)
               /\ durable' = IF s <= page_count THEN durable \cup In(s) ELSE durable
<1> DEFINE p == [pages[s] EXCEPT !.dirty = TRUE]
<1>1. pages[s] # Null /\ pages[s] \in Page /\ In(s) = pages[s].objects
  BY PageFields DEF WritePage, Pool
<1>2. /\ p \in Page /\ p.objects = pages[s].objects /\ p.dirty /\ p.page_id = pages[s].page_id
  BY <1>1 DEF Page
<1>3. /\ pages' = [pages EXCEPT ![s] = p]
      /\ \/ UNCHANGED <<images, lost, durable>>
         \/ /\ images' = Written(p)
            /\ lost' = IF p.page_id = 0 THEN lost ELSE lost \ p.objects
            /\ durable' = IF p.page_id \in 1..page_count THEN durable \cup p.objects ELSE durable
      /\ up /\ UNCHANGED <<up, page_count, hidden, blank, inserted, frees, next_page_id>>
  BY DEF WritePage, Ready
<1> HIDE DEF p
<1>4. /\ pages'[s] = p /\ p # Null /\ \A q \in Serial : In(q)' = In(q)
      /\ \A q \in Serial \ {s} : pages'[q] = pages[q]
  BY <1>1, <1>2, <1>3, PageChanged, PageFields
<1>5. CASE UNCHANGED <<images, lost, durable>>
  BY <1>1, <1>2, <1>3, <1>4, <1>5
<1>6. CASE /\ images' = Written(p)
           /\ lost' = IF p.page_id = 0 THEN lost ELSE lost \ p.objects
           /\ durable' = IF p.page_id \in 1..page_count THEN durable \cup p.objects ELSE durable
  <2>1. CASE pages[s].page_id = 0
    BY <1>1, <1>2, <1>3, <1>4, <1>6, <2>1, FileAssumption DEF Written, TypeOK
  <2>2. CASE pages[s].page_id # 0
    <3>1. /\ pages[s].page_id = s /\ images'[s] = p /\ At(s)' = In(s)
          /\ \A q \in Serial \ {s} : images'[q] = images[q] /\ At(q)' = At(q)
      BY <1>1, <1>2, <1>6, <2>2, WrittenEffect
    <3>2. p.page_id \in 1..page_count <=> s <= page_count
      BY <1>2, <3>1, FileAssumption DEF TypeOK, Serial
    <3>3. p.objects = In(s)
      BY <1>1, <1>2, PageFields
    <3> QED BY <1>1, <1>2, <1>3, <1>4, <1>6, <2>2, <3>1, <3>2, <3>3
  <2> QED BY <2>1, <2>2
<1> QED BY <1>3, <1>5, <1>6

\* One page of a sync: clean afterwards, and written to its slot or lost.
LEMMA SyncPageEffect ==
  ASSUME TypeOK, PoolNumbered, frees = 0, SyncPage
  PROVE  \E s \in Serial :
         /\ up /\ up' /\ pages[s] # Null /\ pages'[s] # Null /\ ~ pages'[s].dirty
         /\ pages'[s].page_id = pages[s].page_id
         /\ \A q \in Serial : In(q)' = In(q)
         /\ \A q \in Serial \ {s} : pages'[q] = pages[q]
         /\ UNCHANGED <<page_count, hidden, blank, durable, inserted, frees, next_page_id>>
         /\ \/ images' = images /\ lost' = lost \cup In(s)
            \/ /\ images'[s] # Null /\ images'[s].page_id = s /\ At(s)' = In(s)
               /\ \A q \in Serial \ {s} : images'[q] = images[q] /\ At(q)' = At(q)
               /\ lost' = lost \ In(s)
<1>1. PICK s \in DirtyPages : s = Min(DirtyPages)
  <2>1. DirtyPages \subseteq Nat /\ DirtyPages # {}
    BY FileAssumption DEF SyncPage, DirtyPages, Pool, Serial
  <2> QED BY <2>1, MinIndex
<1> DEFINE p == [pages[s] EXCEPT !.dirty = FALSE]
<1>2. /\ pages' = [pages EXCEPT ![s] = p]
      /\ \/ images' = images /\ lost' = lost \cup pages[s].objects
         \/ /\ images' = Written(pages[s])
            /\ lost' = IF pages[s].page_id = 0 THEN lost \cup pages[s].objects
                       ELSE lost \ pages[s].objects
      /\ up /\ UNCHANGED <<up, page_count, hidden, blank, durable, inserted, frees, next_page_id>>
  BY <1>1 DEF SyncPage
<1>3. s \in Serial /\ pages[s] # Null /\ pages[s] \in Page /\ In(s) = pages[s].objects
  BY <1>1, PageFields DEF DirtyPages, Pool
<1>4. p \in Page /\ p.objects = pages[s].objects /\ ~ p.dirty /\ p.page_id = pages[s].page_id
  BY <1>3 DEF Page
<1> HIDE DEF p
<1>5. /\ pages'[s] = p /\ p # Null /\ \A q \in Serial : In(q)' = In(q)
      /\ \A q \in Serial \ {s} : pages'[q] = pages[q]
  BY <1>2, <1>3, <1>4, PageChanged
<1>6. \/ images' = images /\ lost' = lost \cup In(s)
      \/ /\ images'[s] # Null /\ images'[s].page_id = s /\ At(s)' = In(s)
         /\ \A q \in Serial \ {s} : images'[q] = images[q] /\ At(q)' = At(q)
         /\ lost' = lost \ In(s)
  <2>1. CASE images' = images /\ lost' = lost \cup pages[s].objects
    BY <1>3, <2>1
  <2>2. CASE /\ images' = Written(pages[s])
             /\ lost' = IF pages[s].page_id = 0 THEN lost \cup pages[s].objects
                        ELSE lost \ pages[s].objects
    <3>1. \/ /\ pages[s].page_id = s /\ images'[s] = pages[s] /\ At(s)' = In(s)
             /\ \A q \in Serial \ {s} : images'[q] = images[q] /\ At(q)' = At(q)
          \/ pages[s].page_id = 0 /\ images' = images
      <4>1. CASE pages[s].page_id = 0
        BY <2>2, <4>1 DEF Written
      <4>2. CASE pages[s].page_id # 0
        <5>1. pages[s].page_id = s
          BY <1>3, <4>2 DEF PoolNumbered
        <5>2. images' = [images EXCEPT ![s] = pages[s]]
          BY <2>2, <4>2, <5>1 DEF Written
        <5> QED BY <1>3, <5>1, <5>2, ImageChanged
      <4> QED BY <4>1, <4>2
    <3>2. s # 0
      BY <1>3, FileAssumption DEF Serial
    <3> QED BY <1>3, <2>2, <3>1, <3>2
  <2> QED BY <1>2, <2>1, <2>2
<1>7. pages'[s] # Null /\ ~ pages'[s].dirty /\ pages'[s].page_id = pages[s].page_id
  BY <1>4, <1>5
<1>8. s \in Serial
  BY <1>3
<1> QED BY <1>2, <1>3, <1>5, <1>6, <1>7, <1>8

\* A manager that is gone holds no page.
LEMMA GoneEffect ==
  ASSUME Gone
  PROVE  /\ ~ up' /\ \A q \in Serial : pages'[q] = Null /\ In(q)' = {}
BY DEF Gone, NoPages, In

\* Without frees the pool holds as many pages as were allocated or read.
LEMMA PoolSize ==
  ASSUME TypeOK, PoolNumbered, frees = 0, up
  PROVE  Pool = 1..(next_page_id - 1) /\ Cardinality(Pool) = next_page_id - 1
<1>1. next_page_id \in 1..(MaxPages + 1)
  BY DEF TypeOK
<1>2. Pool = 1..(next_page_id - 1)
  BY <1>1, FileAssumption DEF Pool, PoolNumbered, Serial
<1> QED BY <1>1, <1>2, FS_Interval, FileAssumption

\* The header ends a sync: it counts the pool and answers for what is not lost.
LEMMA HeaderEffect ==
  ASSUME TypeOK, PoolNumbered, frees = 0, SyncHeader
  PROVE  /\ up /\ \A q \in Serial : pages[q] # Null => ~ pages[q].dirty
         /\ images' = images /\ UNCHANGED <<inserted, frees, lost, hidden>>
         /\ \/ UNCHANGED <<up, pages, next_page_id>>
            \/ ~ up' /\ \A q \in Serial : pages'[q] = Null /\ In(q)' = {}
         /\ \/ UNCHANGED <<page_count, blank, durable>>
            \/ /\ page_count' = next_page_id - 1
               /\ \A q \in Serial : q < next_page_id /\ In(q) \subseteq lost => q \in blank'
               /\ durable \subseteq durable'
               /\ \A q \in Serial : q < next_page_id => In(q) \ lost \subseteq durable'
               /\ \A x \in durable' : x \notin durable =>
                    x \notin lost /\ \E q \in Serial : q < next_page_id /\ x \in In(q)
<1>1. /\ up /\ DirtyPages = {} /\ images' = images /\ UNCHANGED <<inserted, frees, lost, hidden>>
  BY DEF SyncHeader
<1>2. \A q \in Serial : pages[q] # Null => ~ pages[q].dirty
  BY <1>1 DEF DirtyPages, Pool
<1>3. \/ UNCHANGED <<up, pages, next_page_id>>
      \/ ~ up' /\ \A q \in Serial : pages'[q] = Null /\ In(q)' = {}
  BY GoneEffect DEF SyncHeader, EndSync, manager
<1>4. \A q \in Serial : /\ q \in Pool <=> q < next_page_id
                        /\ q \in Pool => In(q) = pages[q].objects
  BY <1>1 DEF PoolNumbered, Pool, In
<1>5. CASE UNCHANGED <<page_count, blank, durable>>
  BY <1>1, <1>2, <1>3, <1>5
<1>6. CASE /\ page_count' = Cardinality(Pool)
           /\ blank' = {s \in Pool : pages[s].objects \subseteq lost}
           /\ durable' = durable \cup (InMemory \ lost)
  <2>1. page_count' = next_page_id - 1
    BY <1>1, <1>6, PoolSize
  <2>2. \A q \in Serial : q < next_page_id /\ In(q) \subseteq lost => q \in blank'
    BY <1>4, <1>6
  <2>3. \A q \in Serial : q < next_page_id => In(q) \ lost \subseteq durable'
    BY <1>4, <1>6 DEF InMemory
  <2>4. \A x \in durable' : x \notin durable =>
          x \notin lost /\ \E q \in Serial : q < next_page_id /\ x \in In(q)
    BY <1>4, <1>6 DEF InMemory, Pool
  <2> QED BY <1>1, <1>2, <1>3, <1>6, <2>1, <2>2, <2>3, <2>4
<1> QED BY <1>5, <1>6 DEF SyncHeader

\* open reads page_count slots; what it cannot read it hides.
LEMMA OpenEffect ==
  ASSUME TypeOK, DownIsEmpty, Open
  PROVE  /\ ~ up /\ up' /\ next_page_id' = page_count + 1
         /\ FileKept /\ UNCHANGED <<inserted, frees, blank, durable>> /\ hidden \subseteq hidden'
         /\ \A q \in Serial : In(q) = {}
         /\ \A q \in Serial : q > page_count => pages'[q] = Null /\ In(q)' = {}
         /\ \A q \in Serial : q <= page_count =>
              /\ pages'[q] # Null /\ In(q)' \subseteq At(q) /\ At(q) \subseteq In(q)' \cup hidden'
              /\ \/ pages'[q].page_id \in {0, q}
                 \/ images[q] # Null /\ pages'[q].page_id = images[q].page_id
<1>1. PICK bad \in SUBSET (1..page_count) :
        /\ pages' = [s \in Serial |->
             IF s > page_count THEN Null
             ELSE IF s \in bad THEN EmptyPage(s)
             ELSE IF images[s] = Null THEN HolePage ELSE images[s]]
        /\ hidden' = hidden \cup UNION {images[i].objects : i \in {j \in bad : images[j] # Null}}
  BY DEF Open
<1>2. \A q \in Serial : In(q) = {}
  BY DEF Open, DownIsEmpty, NoPages, In
<1>3. ASSUME NEW q \in Serial, q > page_count PROVE pages'[q] = Null /\ In(q)' = {}
  BY <1>1, <1>3 DEF In
<1>4. ASSUME NEW q \in Serial, q <= page_count
      PROVE  /\ pages'[q] # Null /\ In(q)' \subseteq At(q) /\ At(q) \subseteq In(q)' \cup hidden'
             /\ \/ pages'[q].page_id \in {0, q}
                \/ images[q] # Null /\ pages'[q].page_id = images[q].page_id
  <2>1. q \in 0..MaxPages /\ 0 \in 0..MaxPages /\ ~ (q > page_count)
    BY <1>4, FileAssumption DEF Serial, TypeOK
  <2>2. /\ EmptyPage(q) \in Page /\ EmptyPage(q).page_id = q /\ EmptyPage(q).objects = {}
        /\ HolePage \in Page /\ HolePage.page_id = 0 /\ HolePage.objects = {}
    BY <2>1 DEF EmptyPage, HolePage, Page
  <2>3. CASE q \in bad
    <3>1. pages'[q] = EmptyPage(q)
      BY <1>1, <2>1, <2>3
    <3>2. At(q) \subseteq hidden'
      BY <1>1, <2>3 DEF At
    <3> QED BY <2>2, <3>1, <3>2, NullAssumption DEF In
  <2>4. CASE q \notin bad /\ images[q] = Null
    <3>1. pages'[q] = HolePage
      BY <1>1, <2>1, <2>4
    <3> QED BY <2>2, <2>4, <3>1, NullAssumption DEF In, At
  <2>5. CASE q \notin bad /\ images[q] # Null
    <3>1. pages'[q] = images[q]
      BY <1>1, <2>1, <2>5
    <3> QED BY <2>5, <3>1 DEF In, At
  <2> QED BY <2>3, <2>4, <2>5
<1> QED BY <1>1, <1>2, <1>3, <1>4 DEF Open, FileKept, file

\* What an open would find, without sets of sets.
Found == {x \in Object : \E q \in Serial : q <= page_count /\ x \in At(q)}

\* The union over the slots, told by slot.
LEMMA FoundImages ==
  ASSUME NEW im \in [Serial -> Page \cup {Null}], NEW c \in 0..MaxPages
  PROVE  UNION {im[i].objects : i \in {j \in 1..c : im[j] # Null}} =
         {x \in Object : \E q \in Serial : q <= c /\ im[q] # Null /\ x \in im[q].objects}
<1>1. \A q : q \in 1..c <=> q \in Serial /\ q <= c
  BY FileAssumption DEF Serial
<1>2. \A q \in Serial : im[q] # Null => im[q].objects \subseteq Object
  BY DEF Page
<1> QED BY <1>1, <1>2

\* Found is what an open would find.
LEMMA FoundOnFile ==
  ASSUME TypeOK
  PROVE  OnFile = Found
<1>1. images \in [Serial -> Page \cup {Null}] /\ page_count \in 0..MaxPages
  BY DEF TypeOK
<1>2. \A q \in Serial : \A x : x \in At(q) <=> images[q] # Null /\ x \in images[q].objects
  BY DEF At
<1> QED BY <1>1, <1>2, FoundImages DEF OnFile, Found

\* So it is after a step.
LEMMA FoundOnFileNext ==
  ASSUME TypeOK'
  PROVE  OnFile' = Found'
<1>1. images' \in [Serial -> Page \cup {Null}] /\ page_count' \in 0..MaxPages
  BY DEF TypeOK
<1>2. \A q \in Serial : \A x : x \in At(q)' <=> images'[q] # Null /\ x \in images'[q].objects
  BY DEF At
<1> QED BY <1>1, <1>2, FoundImages DEF OnFile, Found

\* A manager that goes down leaves nothing, and nothing runs without one.
LEMMA DownIsEmptyKept ==
  ASSUME TypeOK, DownIsEmpty, Next
  PROVE  DownIsEmpty'
<1>1. CASE AllocPage
  BY <1>1 DEF DownIsEmpty, AllocPage, Ready
<1>2. CASE Flush
  BY <1>2 DEF DownIsEmpty, Flush, Ready
<1>3. CASE SyncPage
  BY <1>3 DEF DownIsEmpty, SyncPage
<1>4. CASE SyncHeader
  BY <1>4 DEF DownIsEmpty, SyncHeader, EndSync, Gone
<1>5. CASE Crash
  BY <1>5 DEF DownIsEmpty, Crash, Gone
<1>6. CASE Open
  BY <1>6 DEF DownIsEmpty, Open
<1>7. ASSUME NEW s \in Serial, AddObject(s) PROVE DownIsEmpty'
  BY <1>7 DEF DownIsEmpty, AddObject, Ready
<1>8. ASSUME NEW s \in Serial, WritePage(s) PROVE DownIsEmpty'
  BY <1>8 DEF DownIsEmpty, WritePage, Ready
<1>9. ASSUME NEW s \in Serial, FreePage(s) PROVE DownIsEmpty'
  BY <1>9 DEF DownIsEmpty, FreePage, Ready
<1>10. ASSUME NEW leave \in BOOLEAN, SyncBegin(leave) PROVE DownIsEmpty'
  BY <1>10 DEF DownIsEmpty, SyncBegin, Ready
<1> QED BY <1>1, <1>2, <1>3, <1>4, <1>5, <1>6, <1>7, <1>8, <1>9, <1>10 DEF Next

\* Allocation and open number the pool from 1 on.
LEMMA PoolNumberedKept ==
  ASSUME TypeOK, DownIsEmpty, PoolNumbered, Next
  PROVE  PoolNumbered'
<1>1. CASE AllocPage
  <2> SUFFICES ASSUME frees' = 0 PROVE PoolNumbered'
    BY DEF PoolNumbered
  <2>1. frees = 0
    BY <1>1 DEF AllocPage, counters
  <2>2. PICK s \in Serial :
          /\ s = next_page_id /\ next_page_id' = s + 1 /\ up /\ up'
          /\ pages'[s] # Null /\ pages'[s].page_id = s
          /\ \A q \in Serial \ {s} : pages'[q] = pages[q]
          /\ FileKept
    BY <1>1, AllocEffect
  <2>3. /\ \A q \in Serial : pages[q] # Null <=> q < s
        /\ page_count < s
        /\ \A q \in Serial : pages[q] # Null => pages[q].page_id \in {0, q}
        /\ \A q \in Serial : images[q] # Null => images[q].page_id = q
    BY <2>1, <2>2 DEF PoolNumbered
  <2>4. \A q \in Serial : pages'[q] # Null <=> q < s + 1
    BY <2>2, <2>3, FileAssumption DEF Serial
  <2>5. page_count' < s + 1
    BY <2>2, <2>3, FileAssumption DEF Serial, TypeOK, FileKept
  <2>6. \A q \in Serial : pages'[q] # Null => pages'[q].page_id \in {0, q}
    BY <2>2, <2>3
  <2> QED BY <2>2, <2>3, <2>4, <2>5, <2>6 DEF PoolNumbered, FileKept
<1>2. CASE Flush
  <2> SUFFICES ASSUME frees' = 0 PROVE PoolNumbered'
    BY DEF PoolNumbered
  <2>1. frees = 0
    BY <1>2 DEF Flush, counters, file
  <2> QED BY <1>2, <2>1, FlushEffect, NothingMoved, FileAssumption DEF PoolNumbered, FileKept
<1>3. CASE SyncPage
  <2> SUFFICES ASSUME frees' = 0 PROVE PoolNumbered'
    BY DEF PoolNumbered
  <2>1. frees = 0
    BY <1>3 DEF SyncPage
  <2> QED BY <1>3, <2>1, SyncPageEffect, NothingMoved, FileAssumption DEF PoolNumbered
<1>4. CASE SyncHeader
  <2> SUFFICES ASSUME frees' = 0 PROVE PoolNumbered'
    BY DEF PoolNumbered
  <2>1. frees = 0
    BY <1>4 DEF SyncHeader
  <2> QED BY <1>4, <2>1, HeaderEffect, NothingMoved, FileAssumption DEF PoolNumbered, TypeOK
<1>5. CASE Crash
  BY <1>5 DEF PoolNumbered, NoPages, Crash, Gone, file, counters
<1>6. CASE Open
  <2> SUFFICES ASSUME frees' = 0 PROVE PoolNumbered'
    BY DEF PoolNumbered
  <2>1. frees = 0
    BY <1>6 DEF Open
  <2>2. page_count \in 0..MaxPages
    BY DEF TypeOK
  <2>3. \A q \in Serial : pages'[q] # Null <=> q < page_count + 1
    BY <1>6, <2>2, OpenEffect, FileAssumption DEF Serial
  <2>4. \A q \in Serial : pages'[q] # Null => q <= page_count
    BY <2>2, <2>3, FileAssumption DEF Serial
  <2>5. \A q \in Serial : pages'[q] # Null => pages'[q].page_id \in {0, q}
    BY <1>6, <2>1, <2>4, OpenEffect DEF PoolNumbered
  <2>6. page_count' < next_page_id' /\ next_page_id' = page_count + 1 /\ images' = images
    BY <1>6, <2>2, OpenEffect, FileAssumption DEF FileKept
  <2> QED BY <2>1, <2>3, <2>5, <2>6 DEF PoolNumbered
<1>7. ASSUME NEW s \in Serial, AddObject(s) PROVE PoolNumbered'
  <2> SUFFICES ASSUME frees' = 0 PROVE PoolNumbered'
    BY DEF PoolNumbered
  <2>1. frees = 0
    BY <1>7 DEF AddObject
  <2> QED BY <1>7, <2>1, AddEffect, NothingMoved, FileAssumption DEF PoolNumbered, FileKept
<1>8. ASSUME NEW s \in Serial, WritePage(s) PROVE PoolNumbered'
  <2> SUFFICES ASSUME frees' = 0 PROVE PoolNumbered'
    BY DEF PoolNumbered
  <2>1. frees = 0
    BY <1>8 DEF WritePage
  <2> QED BY <1>8, <2>1, WriteEffect, NothingMoved, FileAssumption DEF PoolNumbered
<1>9. ASSUME NEW s \in Serial, FreePage(s) PROVE PoolNumbered'
  BY <1>9 DEF TypeOK, PoolNumbered, FreePage
<1>10. ASSUME NEW leave \in BOOLEAN, SyncBegin(leave) PROVE PoolNumbered'
  BY <1>10 DEF PoolNumbered, SyncBegin, manager, file, counters
<1> QED BY <1>1, <1>2, <1>3, <1>4, <1>5, <1>6, <1>7, <1>8, <1>9, <1>10 DEF Next

\* New objects are in no other slot; writes copy a page to its own.
LEMMA OneSlotKept ==
  ASSUME TypeOK, DownIsEmpty, PoolNumbered, OneSlot, Next
  PROVE  OneSlot'
<1>1. CASE AllocPage
  BY <1>1 DEF OneSlot, In, At, AllocPage, file, counters, ghosts
<1>2. CASE Flush
  <2> SUFFICES ASSUME frees' = 0 PROVE OneSlot'
    BY DEF OneSlot
  <2>1. frees = 0
    BY <1>2 DEF Flush, counters, file
  <2> QED BY <1>2, <2>1, FlushEffect, NothingMoved, FileAssumption DEF OneSlot, FileKept
<1>3. CASE SyncPage
  <2> SUFFICES ASSUME frees' = 0 PROVE OneSlot'
    BY DEF OneSlot
  <2>1. frees = 0
    BY <1>3 DEF SyncPage
  <2>2. PICK s \in Serial :
          /\ \A q \in Serial : In(q)' = In(q)
          /\ UNCHANGED <<durable, inserted>>
          /\ \/ images' = images
             \/ At(s)' = In(s) /\ \A q \in Serial \ {s} : At(q)' = At(q)
    BY <1>3, <2>1, SyncPageEffect
  <2>3. \A q \in Serial : At(q)' \cup In(q)' \subseteq At(q) \cup In(q)
    BY <2>2, NothingMoved
  <2> QED BY <2>1, <2>2, <2>3 DEF OneSlot
<1>4. CASE SyncHeader
  <2> SUFFICES ASSUME frees' = 0 PROVE OneSlot'
    BY DEF OneSlot
  <2>1. frees = 0
    BY <1>4 DEF SyncHeader
  <2>2. \A q \in Serial : At(q)' = At(q) /\ In(q)' \subseteq In(q)
    BY <1>4, <2>1, HeaderEffect, NothingMoved
  <2>3. \A x \in durable' : x \in durable \/ \E q \in Serial : x \in In(q)
    BY <1>4, <2>1, HeaderEffect
  <2>4. inserted' = inserted
    BY <1>4, <2>1, HeaderEffect
  <2> QED BY <2>1, <2>2, <2>3, <2>4 DEF OneSlot
<1>5. CASE Crash
  BY <1>5 DEF OneSlot, In, At, Crash, Gone, NoPages, file, counters, ghosts
<1>6. CASE Open
  BY <1>6 DEF OneSlot, In, At, Open, EmptyPage, HolePage, file
<1>7. ASSUME NEW s \in Serial, AddObject(s) PROVE OneSlot'
  <2> SUFFICES ASSUME frees' = 0 PROVE OneSlot'
    BY DEF OneSlot
  <2>1. frees = 0
    BY <1>7 DEF AddObject
  <2>2. /\ inserted' = inserted + 1 /\ In(s)' = In(s) \cup {inserted + 1}
        /\ \A q \in Serial \ {s} : In(q)' = In(q)
        /\ \A q \in Serial : At(q)' = At(q)
        /\ durable' = durable
    BY <1>7, AddEffect, NothingMoved DEF FileKept
  <2>3. inserted \in Nat
    BY FileAssumption DEF TypeOK
  <2>4. 1..inserted' = (1..inserted) \cup {inserted + 1} /\ inserted + 1 \notin 1..inserted
    BY <2>2, <2>3
  <2>5. /\ durable \subseteq 1..inserted
        /\ \A q \in Serial : (At(q) \cup In(q)) \subseteq 1..inserted
        /\ \A r, q \in Serial : r # q => (At(r) \cup In(r)) \cap (At(q) \cup In(q)) = {}
    BY <2>1 DEF OneSlot
  <2>6. \A q \in Serial : (At(q)' \cup In(q)') \subseteq 1..inserted'
    BY <2>2, <2>4, <2>5
  <2>7. \A q \in Serial : q # s => (At(q)' \cup In(q)') \cap (At(s)' \cup In(s)') = {}
    BY <2>2, <2>4, <2>5
  <2>8. \A r, q \in Serial : r # q => (At(r)' \cup In(r)') \cap (At(q)' \cup In(q)') = {}
    BY <2>2, <2>5, <2>7
  <2> QED BY <2>2, <2>4, <2>5, <2>6, <2>8 DEF OneSlot
<1>8. ASSUME NEW s \in Serial, WritePage(s) PROVE OneSlot'
  <2> SUFFICES ASSUME frees' = 0 PROVE OneSlot'
    BY DEF OneSlot
  <2>1. frees = 0
    BY <1>8 DEF WritePage
  <2>2. /\ \A q \in Serial : In(q)' = In(q)
        /\ UNCHANGED inserted
        /\ durable' \subseteq durable \cup In(s)
        /\ \/ images' = images
           \/ At(s)' = In(s) /\ \A q \in Serial \ {s} : At(q)' = At(q)
    BY <1>8, <2>1, WriteEffect
  <2>3. \A q \in Serial : At(q)' \cup In(q)' \subseteq At(q) \cup In(q)
    BY <2>2, NothingMoved
  <2> QED BY <2>1, <2>2, <2>3 DEF OneSlot
<1>9. ASSUME NEW s \in Serial, FreePage(s) PROVE OneSlot'
  BY <1>9 DEF OneSlot, FreePage, TypeOK
<1>10. ASSUME NEW leave \in BOOLEAN, SyncBegin(leave) PROVE OneSlot'
  BY <1>10 DEF OneSlot, In, At, SyncBegin, manager, file, counters, ghosts
<1> QED BY <1>1, <1>2, <1>3, <1>4, <1>5, <1>6, <1>7, <1>8, <1>9, <1>10 DEF Next

\* The flag is cleared by a write, by open, or where the objects count as lost.
LEMMA CleanIsWrittenKept ==
  ASSUME TypeOK, DownIsEmpty, PoolNumbered, OneSlot, CleanIsWritten, Next
  PROVE  CleanIsWritten'
<1>1. CASE AllocPage
  BY <1>1 DEF CleanIsWritten, In, At, AllocPage, file, counters, ghosts
<1>2. CASE Flush
  BY <1>2 DEF CleanIsWritten, In, At, Flush, file, counters
<1>3. CASE SyncPage
  <2> SUFFICES ASSUME frees' = 0 PROVE CleanIsWritten'
    BY DEF CleanIsWritten
  <2>1. frees = 0
    BY <1>3 DEF SyncPage
  <2>2. PICK s \in Serial :
          /\ \A q \in Serial : In(q)' = In(q)
          /\ \A q \in Serial \ {s} : pages'[q] = pages[q]
          /\ \/ images' = images /\ lost' = lost \cup In(s)
             \/ /\ At(s)' = In(s) /\ \A q \in Serial \ {s} : At(q)' = At(q)
                /\ lost' = lost \ In(s)
    BY <1>3, <2>1, SyncPageEffect
  <2>3. \A q \in Serial \ {s} : In(q) \cap In(s) = {}
    BY <2>1 DEF OneSlot
  <2>4. \A q \in Serial \ {s} : At(q)' = At(q) /\ lost \cap In(q) \subseteq lost'
    BY <2>2, <2>3, NothingMoved
  <2>5. In(s) \subseteq At(s)' \cup lost'
    BY <2>2
  <2>6. \A q \in Serial : pages[q] # Null /\ ~ pages[q].dirty => In(q) \subseteq At(q) \cup lost
    BY <2>1 DEF CleanIsWritten
  <2>7. ASSUME NEW q \in Serial, pages'[q] # Null, ~ pages'[q].dirty
        PROVE  In(q)' \subseteq At(q)' \cup lost'
    <3>1. CASE q = s
      BY <2>2, <2>5, <3>1
    <3>2. CASE q # s
      BY <2>2, <2>4, <2>6, <2>7, <3>2
    <3> QED BY <3>1, <3>2
  <2> QED BY <2>7 DEF CleanIsWritten
<1>4. CASE SyncHeader
  <2> SUFFICES ASSUME frees' = 0 PROVE CleanIsWritten'
    BY DEF CleanIsWritten
  <2>1. frees = 0
    BY <1>4 DEF SyncHeader
  <2> QED BY <1>4, <2>1, HeaderEffect, NothingMoved, FileAssumption DEF CleanIsWritten
<1>5. CASE Crash
  BY <1>5 DEF CleanIsWritten, NoPages, Crash, Gone
<1>6. CASE Open
  BY <1>6 DEF CleanIsWritten, In, At, Open, EmptyPage, HolePage, file
<1>7. ASSUME NEW s \in Serial, AddObject(s) PROVE CleanIsWritten'
  BY <1>7 DEF TypeOK, PoolNumbered, CleanIsWritten, In, At, Serial, AddObject, file, ghosts
<1>8. ASSUME NEW s \in Serial, WritePage(s) PROVE CleanIsWritten'
  <2> SUFFICES ASSUME frees' = 0 PROVE CleanIsWritten'
    BY DEF CleanIsWritten
  <2>1. frees = 0
    BY <1>8 DEF WritePage
  <2>2. /\ \A q \in Serial : In(q)' = In(q)
        /\ pages'[s].dirty /\ \A q \in Serial \ {s} : pages'[q] = pages[q]
        /\ \/ images' = images /\ lost' = lost
           \/ /\ At(s)' = In(s) /\ \A q \in Serial \ {s} : At(q)' = At(q)
              /\ lost' = lost \ In(s)
    BY <1>8, <2>1, WriteEffect
  <2>3. \A q \in Serial \ {s} : In(q) \cap In(s) = {}
    BY <2>1 DEF OneSlot
  <2>4. \A q \in Serial \ {s} : At(q)' = At(q) /\ lost \cap In(q) \subseteq lost'
    BY <2>2, <2>3, NothingMoved
  <2> QED BY <2>1, <2>2, <2>4 DEF CleanIsWritten
<1>9. ASSUME NEW s \in Serial, FreePage(s) PROVE CleanIsWritten'
  BY <1>9 DEF TypeOK, CleanIsWritten, FreePage
<1>10. ASSUME NEW leave \in BOOLEAN, SyncBegin(leave) PROVE CleanIsWritten'
  BY <1>10 DEF CleanIsWritten, In, At, SyncBegin, manager, file, counters, ghosts
<1> QED BY <1>1, <1>2, <1>3, <1>4, <1>5, <1>6, <1>7, <1>8, <1>9, <1>10 DEF Next

\* Memory keeps what the file answers for; a new header adds only what is there.
LEMMA PagesKeepDurableKept ==
  ASSUME TypeOK, DownIsEmpty, PoolNumbered, OneSlot, CleanIsWritten,
         PagesKeepDurable, SyncedObjectsSurvive, Next
  PROVE  PagesKeepDurable'
<1>1. CASE AllocPage
  BY <1>1 DEF PoolNumbered, PagesKeepDurable, In, At, Serial, SyncedObjectsSurvive, AllocPage,
     file, counters, ghosts
<1>2. CASE Flush
  <2> SUFFICES ASSUME frees' = 0 PROVE PagesKeepDurable'
    BY DEF PagesKeepDurable
  <2>1. frees = 0
    BY <1>2 DEF Flush, counters, file
  <2> QED BY <1>2, <2>1, FlushEffect, NothingMoved, FileAssumption DEF PagesKeepDurable, FileKept
<1>3. CASE SyncPage
  <2> SUFFICES ASSUME frees' = 0 PROVE PagesKeepDurable'
    BY DEF PagesKeepDurable
  <2>1. frees = 0
    BY <1>3 DEF SyncPage
  <2> QED BY <1>3, <2>1, SyncPageEffect, NothingMoved, FileAssumption DEF PagesKeepDurable
<1>4. CASE SyncHeader
  <2> SUFFICES ASSUME frees' = 0 PROVE PagesKeepDurable'
    BY DEF PagesKeepDurable
  <2>1. frees = 0
    BY <1>4 DEF SyncHeader
  <2> SUFFICES ASSUME up' PROVE PagesKeepDurable'
    BY DEF PagesKeepDurable
  <2>2. /\ up /\ images' = images /\ hidden' = hidden /\ pages' = pages
        /\ \A q \in Serial : pages[q] # Null => ~ pages[q].dirty
        /\ \/ UNCHANGED <<page_count, durable>>
           \/ /\ page_count' = next_page_id - 1
              /\ \A x \in durable' : x \notin durable =>
                   x \notin lost /\ \E q \in Serial : q < next_page_id /\ x \in In(q)
    BY <1>4, <2>1, HeaderEffect
  <2>3. \A q \in Serial : At(q)' = At(q) /\ In(q)' = In(q)
    BY <2>2, NothingMoved
  <2>4. \A q \in Serial : q <= page_count => At(q) \cap durable \subseteq In(q) \cup hidden
    BY <2>1, <2>2 DEF PagesKeepDurable
  <2>5. CASE UNCHANGED <<page_count, durable>>
    BY <2>2, <2>3, <2>4, <2>5 DEF PagesKeepDurable
  <2>6. CASE /\ page_count' = next_page_id - 1
             /\ \A x \in durable' : x \notin durable =>
                  x \notin lost /\ \E q \in Serial : q < next_page_id /\ x \in In(q)
    <3>1. ASSUME NEW q \in Serial, NEW x \in At(q), x \in durable, x \notin hidden
          PROVE  x \in In(q)
      <4>1. PICK i \in Serial : i <= page_count /\ x \in At(i)
        <5>1. x \in OnFile
          BY <2>1, <3>1 DEF SyncedObjectsSurvive
        <5>2. 1..page_count \subseteq Serial
          BY FileAssumption DEF TypeOK, Serial
        <5> QED BY <5>1, <5>2, FileAssumption DEF OnFile, At, TypeOK
      <4>2. i = q
        BY <2>1, <3>1, <4>1 DEF OneSlot
      <4> QED BY <2>4, <3>1, <4>1, <4>2
    <3>2. ASSUME NEW q \in Serial, NEW x \in At(q), x \in durable',
       x \notin durable PROVE x \in In(q)
      <4>1. PICK i \in Serial : x \in In(i)
        BY <2>6, <3>2
      <4>2. i = q
        BY <2>1, <3>2, <4>1 DEF OneSlot
      <4> QED BY <4>1, <4>2
    <3> QED BY <2>2, <2>3, <3>1, <3>2 DEF PagesKeepDurable
  <2> QED BY <2>2, <2>5, <2>6
<1>5. CASE Crash
  BY <1>5 DEF PagesKeepDurable, SyncedObjectsSurvive, Crash, Gone
<1>6. CASE Open
  BY <1>6 DEF TypeOK, OneSlot, PagesKeepDurable, In, At, Serial, SyncedObjectsSurvive, Open, file
<1>7. ASSUME NEW s \in Serial, AddObject(s) PROVE PagesKeepDurable'
  <2> SUFFICES ASSUME frees' = 0 PROVE PagesKeepDurable'
    BY DEF PagesKeepDurable
  <2>1. frees = 0
    BY <1>7 DEF AddObject
  <2> QED BY <1>7, <2>1, AddEffect, NothingMoved, FileAssumption DEF PagesKeepDurable, FileKept
<1>8. ASSUME NEW s \in Serial, WritePage(s) PROVE PagesKeepDurable'
  <2> SUFFICES ASSUME frees' = 0 PROVE PagesKeepDurable'
    BY DEF PagesKeepDurable
  <2>1. frees = 0
    BY <1>8 DEF WritePage
  <2> QED BY <1>8, <2>1, WriteEffect, NothingMoved, FileAssumption DEF PagesKeepDurable, OneSlot
<1>9. ASSUME NEW s \in Serial, FreePage(s) PROVE PagesKeepDurable'
  BY <1>9 DEF TypeOK, PagesKeepDurable, SyncedObjectsSurvive, FreePage
<1>10. ASSUME NEW leave \in BOOLEAN, SyncBegin(leave) PROVE PagesKeepDurable'
  BY <1>10 DEF PagesKeepDurable, In, At, SyncedObjectsSurvive, SyncBegin, manager, file,
     counters, ghosts
<1> QED BY <1>1, <1>2, <1>3, <1>4, <1>5, <1>6, <1>7, <1>8, <1>9, <1>10 DEF Next

\* A write puts back what the slot answered for; a new header finds its pages clean.
LEMMA SyncedObjectsSurviveKept ==
  ASSUME TypeOK, TypeOK', DownIsEmpty, PoolNumbered, OneSlot, CleanIsWritten,
         PagesKeepDurable, SyncedObjectsSurvive, Next
  PROVE  SyncedObjectsSurvive'
<1>1. CASE AllocPage
  BY <1>1 DEF SyncedObjectsSurvive, OnFile, AllocPage, file, counters, ghosts
<1>2. CASE Flush
  BY <1>2 DEF SyncedObjectsSurvive, OnFile, Flush, file, counters
<1>3. CASE SyncPage
  <2> SUFFICES ASSUME frees' = 0 PROVE SyncedObjectsSurvive'
    BY DEF SyncedObjectsSurvive
  <2>1. frees = 0
    BY <1>3 DEF SyncPage
  <2>2. PICK s \in Serial :
          /\ up /\ UNCHANGED <<page_count, hidden, durable>>
          /\ \/ images' = images
             \/ /\ At(s)' = In(s) /\ \A q \in Serial \ {s} : At(q)' = At(q)
    BY <1>3, <2>1, SyncPageEffect
  <2>3. ASSUME NEW q \in Serial, q <= page_count, NEW x \in At(q), x \in durable, x \notin hidden
        PROVE  x \in At(q)'
    <3>1. CASE q = s /\ At(s)' = In(s)
      BY <2>1, <2>2, <2>3, <3>1 DEF PagesKeepDurable
    <3>2. CASE At(q)' = At(q)
      BY <2>3, <3>2
    <3> QED BY <2>2, <3>1, <3>2, NothingMoved
  <2>4. durable \ hidden \subseteq Found
    BY <2>1, FoundOnFile DEF SyncedObjectsSurvive
  <2>5. durable' \ hidden' \subseteq Found'
    BY <2>2, <2>3, <2>4 DEF Found
  <2> QED BY <2>5, FoundOnFileNext DEF SyncedObjectsSurvive
<1>4. CASE SyncHeader
  <2> SUFFICES ASSUME frees' = 0 PROVE SyncedObjectsSurvive'
    BY DEF SyncedObjectsSurvive
  <2>1. frees = 0
    BY <1>4 DEF SyncHeader
  <2>2. /\ up /\ images' = images /\ hidden' = hidden
        /\ \A q \in Serial : pages[q] # Null => ~ pages[q].dirty
        /\ \/ UNCHANGED <<page_count, durable>>
           \/ /\ page_count' = next_page_id - 1
              /\ \A x \in durable' : x \notin durable =>
                   x \notin lost /\ \E q \in Serial : q < next_page_id /\ x \in In(q)
    BY <1>4, <2>1, HeaderEffect
  <2>3. \A q \in Serial : At(q)' = At(q)
    BY <2>2, NothingMoved
  <2>4. durable \ hidden \subseteq Found
    BY <2>1, FoundOnFile DEF SyncedObjectsSurvive
  <2>5. page_count < next_page_id /\ next_page_id \in Nat /\ page_count \in Nat
    BY <2>1, <2>2, FileAssumption DEF PoolNumbered, TypeOK
  <2>6. \A x \in Found : x \in Found'
    BY <2>2, <2>3, <2>5, FileAssumption DEF Found, Serial
  <2>7. ASSUME NEW x \in durable', x \notin durable PROVE x \in Found'
    <3>1. PICK q \in Serial : q < next_page_id /\ x \in In(q) /\ x \notin lost
      BY <2>2, <2>7
    <3>2. x \in At(q)
      BY <2>1, <2>2, <3>1 DEF CleanIsWritten, In
    <3>3. q <= page_count'
      BY <2>2, <2>5, <2>7, <3>1, FileAssumption DEF Serial
    <3> QED BY <2>3, <2>7, <3>2, <3>3 DEF Found, TypeOK
  <2> QED BY <2>2, <2>4, <2>6, <2>7, FoundOnFileNext DEF SyncedObjectsSurvive
<1>5. CASE Crash
  BY <1>5 DEF SyncedObjectsSurvive, OnFile, Crash, file, counters, ghosts
<1>6. CASE Open
  <2> SUFFICES ASSUME frees' = 0 PROVE SyncedObjectsSurvive'
    BY DEF SyncedObjectsSurvive
  <2>1. frees = 0
    BY <1>6 DEF Open
  <2>2. UNCHANGED <<images, page_count, durable>> /\ hidden \subseteq hidden'
    BY <1>6, OpenEffect DEF FileKept
  <2> QED BY <2>1, <2>2 DEF SyncedObjectsSurvive, OnFile
<1>7. ASSUME NEW s \in Serial, AddObject(s) PROVE SyncedObjectsSurvive'
  BY <1>7 DEF SyncedObjectsSurvive, OnFile, AddObject, file, ghosts
<1>8. ASSUME NEW s \in Serial, WritePage(s) PROVE SyncedObjectsSurvive'
  <2> SUFFICES ASSUME frees' = 0 PROVE SyncedObjectsSurvive'
    BY DEF SyncedObjectsSurvive
  <2>1. frees = 0
    BY <1>8 DEF WritePage
  <2>2. /\ up /\ UNCHANGED <<page_count, hidden>>
        /\ \/ images' = images /\ durable' = durable
           \/ /\ At(s)' = In(s) /\ \A q \in Serial \ {s} : At(q)' = At(q)
              /\ durable' = IF s <= page_count THEN durable \cup In(s) ELSE durable
    BY <1>8, <2>1, WriteEffect
  <2>3. ASSUME NEW q \in Serial, q <= page_count, NEW x \in At(q), x \in durable, x \notin hidden
        PROVE  x \in At(q)'
    <3>1. CASE q = s /\ At(s)' = In(s)
      BY <2>1, <2>2, <2>3, <3>1 DEF PagesKeepDurable
    <3>2. CASE At(q)' = At(q)
      BY <2>3, <3>2
    <3> QED BY <2>2, <3>1, <3>2, NothingMoved
  <2>4. durable \ hidden \subseteq Found
    BY <2>1, FoundOnFile DEF SyncedObjectsSurvive
  <2>5. \A x \in durable \ hidden : x \in Found'
    BY <2>2, <2>3, <2>4 DEF Found
  <2>6. \A x \in durable' : x \in durable \/ x \in Found'
    <3>1. durable' \subseteq Object
      BY DEF TypeOK
    <3> QED BY <2>2, <3>1 DEF Found
  <2> QED BY <2>2, <2>5, <2>6, FoundOnFileNext DEF SyncedObjectsSurvive
<1>9. ASSUME NEW s \in Serial, FreePage(s) PROVE SyncedObjectsSurvive'
  BY <1>9 DEF TypeOK, SyncedObjectsSurvive, FreePage
<1>10. ASSUME NEW leave \in BOOLEAN, SyncBegin(leave) PROVE SyncedObjectsSurvive'
  BY <1>10 DEF SyncedObjectsSurvive, OnFile, SyncBegin, file, counters, ghosts
<1> QED BY <1>1, <1>2, <1>3, <1>4, <1>5, <1>6, <1>7, <1>8, <1>9, <1>10 DEF Next

\* A page the header counts was written unless it had nothing to write.
LEMMA HolesWereBlankKept ==
  ASSUME TypeOK, DownIsEmpty, PoolNumbered, CleanIsWritten, HolesWereBlank, Next
  PROVE  HolesWereBlank'
<1>1. CASE AllocPage
  BY <1>1 DEF HolesWereBlank, AllocPage, file, counters, ghosts
<1>2. CASE Flush
  BY <1>2 DEF HolesWereBlank, Flush, file, counters
<1>3. CASE SyncPage
  <2> SUFFICES ASSUME frees' = 0 PROVE HolesWereBlank'
    BY DEF HolesWereBlank
  <2>1. frees = 0
    BY <1>3 DEF SyncPage
  <2>2. /\ UNCHANGED <<page_count, blank>>
        /\ \A q \in Serial : images[q] # Null => images'[q] # Null
    BY <1>3, <2>1, SyncPageEffect
  <2>3. 1..page_count \subseteq Serial
    BY FileAssumption DEF TypeOK, Serial
  <2> QED BY <2>1, <2>2, <2>3 DEF HolesWereBlank
<1>4. CASE SyncHeader
  <2> SUFFICES ASSUME frees' = 0 PROVE HolesWereBlank'
    BY DEF HolesWereBlank
  <2>1. frees = 0
    BY <1>4 DEF SyncHeader
  <2>2. /\ up /\ images' = images
        /\ \A q \in Serial : pages[q] # Null => ~ pages[q].dirty
        /\ \/ UNCHANGED <<page_count, blank>>
           \/ /\ page_count' = next_page_id - 1
              /\ \A q \in Serial : q < next_page_id /\ In(q) \subseteq lost => q \in blank'
    BY <1>4, <2>1, HeaderEffect
  <2>3. CASE UNCHANGED <<page_count, blank>>
    BY <2>1, <2>2, <2>3 DEF HolesWereBlank
  <2>4. CASE /\ page_count' = next_page_id - 1
             /\ \A q \in Serial : q < next_page_id /\ In(q) \subseteq lost => q \in blank'
    <3>1. next_page_id \in 1..(MaxPages + 1)
      BY DEF TypeOK
    <3>2. ASSUME NEW i \in 1..(next_page_id - 1), images[i] = Null PROVE i \in blank'
      <4>1. i \in Serial /\ i < next_page_id
        BY <3>1, FileAssumption DEF Serial
      <4>2. In(i) \subseteq lost
        BY <2>1, <2>2, <3>2, <4>1 DEF CleanIsWritten, In, At
      <4> QED BY <2>4, <4>1, <4>2
    <3> QED BY <2>2, <2>4, <3>2 DEF HolesWereBlank
  <2> QED BY <2>2, <2>3, <2>4
<1>5. CASE Crash
  BY <1>5 DEF HolesWereBlank, Crash, file, counters, ghosts
<1>6. CASE Open
  BY <1>6 DEF HolesWereBlank, Open, file
<1>7. ASSUME NEW s \in Serial, AddObject(s) PROVE HolesWereBlank'
  BY <1>7 DEF HolesWereBlank, AddObject, file, ghosts
<1>8. ASSUME NEW s \in Serial, WritePage(s) PROVE HolesWereBlank'
  <2> SUFFICES ASSUME frees' = 0 PROVE HolesWereBlank'
    BY DEF HolesWereBlank
  <2>1. frees = 0
    BY <1>8 DEF WritePage
  <2>2. /\ UNCHANGED <<page_count, blank>>
        /\ \A q \in Serial : images[q] # Null => images'[q] # Null
    BY <1>8, <2>1, WriteEffect
  <2>3. 1..page_count \subseteq Serial
    BY FileAssumption DEF TypeOK, Serial
  <2> QED BY <2>1, <2>2, <2>3 DEF HolesWereBlank
<1>9. ASSUME NEW s \in Serial, FreePage(s) PROVE HolesWereBlank'
  BY <1>9 DEF TypeOK, HolesWereBlank, FreePage
<1>10. ASSUME NEW leave \in BOOLEAN, SyncBegin(leave) PROVE HolesWereBlank'
  BY <1>10 DEF HolesWereBlank, SyncBegin, file, counters, ghosts
<1> QED BY <1>1, <1>2, <1>3, <1>4, <1>5, <1>6, <1>7, <1>8, <1>9, <1>10 DEF Next

-----------------------------------------------------------------------------
\* The types, and the allocation tree.

\* A track with a page entered is a sequence of pages.
LEMMA EnteredType ==
  ASSUME NEW track \in Seq(Serial), NEW s \in Serial
  PROVE  Entered(track, s) \in Seq(Serial)
<1>1. Len(track) \in Nat /\ <<s, s>> \in Seq(Serial) /\ Len(<<s, s>>) = 2
  BY LenProperties
<1>2. track \o <<s, s>> \in Seq(Serial) /\ Len(track \o <<s, s>>) = Len(track) + 2
  BY <1>1, ConcatProperties
<1> DEFINE m == Min({Len(track) + 2, PAGES_PER_TRACK})
<1>3. m \in Nat /\ m <= Len(track) + 2
  <2>1. {Len(track) + 2, PAGES_PER_TRACK} \subseteq Nat
    BY <1>1, FileAssumption
  <2>2. m \in {Len(track) + 2, PAGES_PER_TRACK} /\ m <= Len(track) + 2
    BY <2>1, MinIndex
  <2> QED BY <2>1, <2>2
<1> HIDE DEF m
<1>4. \A i \in 1..m : (track \o <<s, s>>)[i] \in Serial
  <2>1. \A i \in 1..m : i \in 1..Len(track \o <<s, s>>)
    BY <1>1, <1>2, <1>3
  <2> QED BY <1>2, <2>1, ElementOfSeq
<1>5. SubSeq(track \o <<s, s>>, 1, m) \in Seq(Serial)
  BY <1>3, <1>4, SubSeqProperties
<1> QED BY <1>5 DEF Entered, m

\* A sequence without one of its elements is a sequence.
LEMMA RemoveAtType ==
  ASSUME NEW S, NEW sq \in Seq(S), NEW k \in 1..Len(sq)
  PROVE  RemoveAt(sq, k) \in Seq(S)
<1>1. Len(sq) \in Nat /\ k \in Nat
  BY LenProperties
<1>2. \A i \in 1..Len(sq) : sq[i] \in S
  BY ElementOfSeq
<1>3. SubSeq(sq, 1, k - 1) \in Seq(S)
  <2>1. k - 1 \in Int /\ \A i \in 1..(k - 1) : sq[i] \in S
    BY <1>1, <1>2
  <2> QED BY <2>1, SubSeqProperties
<1>4. SubSeq(sq, k + 1, Len(sq)) \in Seq(S)
  <2>1. k + 1 \in Int /\ \A i \in (k + 1)..Len(sq) : sq[i] \in S
    BY <1>1, <1>2
  <2> QED BY <1>1, <2>1, SubSeqProperties
<1> QED BY <1>3, <1>4, ConcatProperties DEF RemoveAt

\* A track with an entry taken out is a sequence of pages.
LEMMA RemoveEntryType ==
  ASSUME NEW track \in Seq(Serial), NEW s, NEW rest \in RemoveEntry(track, s)
  PROVE  rest \in Seq(Serial)
<1> DEFINE own == {k \in DOMAIN track : track[k] = s}
           freed == {k \in DOMAIN track : pages[track[k]] = Null}
           hits == {k \in freed : \A j \in own : k < j} \cup (IF own = {} THEN {} ELSE {Min(own)})
<1>1. rest = track \/ \E k \in hits : rest = RemoveAt(track, k)
  BY DEF RemoveEntry
<1>2. DOMAIN track = 1..Len(track) /\ Len(track) \in Nat
  BY LenProperties
<1>3. own \subseteq Nat /\ own \subseteq DOMAIN track
  BY <1>2
<1>4. own # {} => Min(own) \in DOMAIN track
  BY <1>3, MinIndex
<1>5. hits \subseteq 1..Len(track)
  BY <1>2, <1>4
<1> QED BY <1>1, <1>5, RemoveAtType

\* The tracks after an allocation, and after a page has left one.
LEMMA TracksType ==
  ASSUME TypeOK
  PROVE  /\ AllocPage => tracks' \in Seq(Seq(Serial))
         /\ \A s \in Serial : FreePage(s) => tracks' \in Seq(Seq(Serial))
<1>1. /\ tracks \in Seq(Seq(Serial)) /\ Len(tracks) \in Nat /\ DOMAIN tracks = 1..Len(tracks)
      /\ <<>> \in Seq(Serial)
  BY LenProperties DEF TypeOK
<1>2. ASSUME AllocPage PROVE tracks' \in Seq(Seq(Serial))
  <2>1. next_page_id \in Serial
    BY <1>2, FileAssumption DEF AllocPage, TypeOK, Serial
  <2>2. PICK t \in IF find_best_track = {} THEN {Len(tracks) + 1} ELSE find_best_track :
          tracks' = IF t > Len(tracks) THEN Append(tracks, Entered(<<>>, next_page_id))
                    ELSE [tracks EXCEPT ![t] = Entered(tracks[t], next_page_id)]
    BY <1>2 DEF AllocPage
  <2>3. CASE t > Len(tracks)
    <3>1. Entered(<<>>, next_page_id) \in Seq(Serial)
      BY <1>1, <2>1, EnteredType
    <3> QED BY <1>1, <2>2, <2>3, <3>1
  <2>4. CASE ~ (t > Len(tracks))
    <3>1. find_best_track \subseteq 1..Len(tracks)
      BY <1>1 DEF find_best_track
    <3>2. t \in 1..Len(tracks)
      BY <1>1, <2>2, <2>4, <3>1
    <3>3. tracks[t] \in Seq(Serial)
      BY <1>1, <3>2, ElementOfSeq
    <3>4. Entered(tracks[t], next_page_id) \in Seq(Serial)
      BY <2>1, <3>3, EnteredType
    <3> QED BY <1>1, <2>2, <2>4, <3>2, <3>4, ExceptSeq
  <2> QED BY <2>3, <2>4
<1>3. ASSUME NEW s \in Serial, FreePage(s) PROVE tracks' \in Seq(Seq(Serial))
  <2>1. CASE pages[s].track_id \in DOMAIN tracks
    <3>1. PICK rest \in RemoveEntry(tracks[pages[s].track_id], s) :
            tracks' = [tracks EXCEPT ![pages[s].track_id] = rest]
      BY <1>3, <2>1 DEF FreePage
    <3>2. tracks[pages[s].track_id] \in Seq(Serial)
      BY <1>1, <2>1, ElementOfSeq
    <3>3. rest \in Seq(Serial)
      BY <3>1, <3>2, RemoveEntryType
    <3> QED BY <1>1, <2>1, <3>1, <3>3, ExceptSeq
  <2>2. CASE pages[s].track_id \notin DOMAIN tracks
    BY <1>1, <1>3, <2>2 DEF FreePage
  <2> QED BY <2>1, <2>2
<1> QED BY <1>2, <1>3

\* A set of pages is finite, and no larger than the bound on allocations.
LEMMA PoolBound ==
  ASSUME NEW S, S \subseteq Serial
  PROVE  Cardinality(S) \in 0..MaxPages
<1>1. MaxPages \in Nat /\ IsFiniteSet(1..MaxPages) /\ Cardinality(1..MaxPages) = MaxPages
  BY FS_Interval, FileAssumption
<1>2. IsFiniteSet(S) /\ Cardinality(S) <= MaxPages
  BY <1>1, FS_Subset DEF Serial
<1> QED BY <1>1, <1>2, FS_CardinalityType

\* The pool after a step holds pages.
LEMMA PagesType ==
  ASSUME TypeOK
  PROVE  Next => pages' \in [Serial -> Page \cup {Null}]
<1> SUFFICES ASSUME Next PROVE pages' \in [Serial -> Page \cup {Null}]
  OBVIOUS
<1>1. pages \in [Serial -> Page \cup {Null}] /\ NoPages \in [Serial -> Page \cup {Null}]
  BY DEF TypeOK, NoPages
<1>2. CASE AllocPage
  <2>1. next_page_id \in Serial /\ next_page_id \in 0..MaxPages
    BY <1>2, FileAssumption DEF AllocPage, TypeOK, Serial
  <2>2. PICK t \in IF find_best_track = {} THEN {Len(tracks) + 1} ELSE find_best_track :
          pages' = [pages EXCEPT ![next_page_id] =
                      [page_id |-> next_page_id, track_id |-> t, objects |-> {}, dirty |-> FALSE]]
    BY <1>2 DEF AllocPage
  <2>3. t \in Nat
    <3>1. Len(tracks) \in Nat /\ DOMAIN tracks = 1..Len(tracks)
      BY LenProperties DEF TypeOK
    <3>2. find_best_track \subseteq 1..Len(tracks)
      BY <3>1 DEF find_best_track
    <3> QED BY <3>1, <3>2
  <2>4. [page_id |-> next_page_id, track_id |-> t, objects |-> {}, dirty |-> FALSE] \in Page
    BY <2>1, <2>3 DEF Page
  <2> QED BY <1>1, <2>2, <2>4
<1>3. CASE Flush
  <2>1. \A s \in Serial : pages[s] # Null => [pages[s] EXCEPT !.dirty = FALSE] \in Page
    <3> TAKE s \in Serial
    <3> HAVE pages[s] # Null
    <3>1. pages[s] \in Page
      BY PageFields
    <3> QED BY <3>1 DEF Page
  <2> QED BY <1>1, <1>3, <2>1 DEF Flush, Pool
<1>4. CASE SyncPage
  <2>1. \A s \in Serial : pages[s] # Null => [pages[s] EXCEPT !.dirty = FALSE] \in Page
    <3> TAKE s \in Serial
    <3> HAVE pages[s] # Null
    <3>1. pages[s] \in Page
      BY PageFields
    <3> QED BY <3>1 DEF Page
  <2>2. Min(DirtyPages) \in DirtyPages
    <3>1. DirtyPages \subseteq Nat /\ DirtyPages # {}
      BY <1>4, FileAssumption DEF SyncPage, DirtyPages, Pool, Serial
    <3> QED BY <3>1, MinIndex
  <2>3. PICK s \in Serial :
          pages[s] # Null /\ pages' = [pages EXCEPT ![s] = [pages[s] EXCEPT !.dirty = FALSE]]
    BY <1>1, <1>4, <2>2 DEF SyncPage, DirtyPages, Pool
  <2>4. [pages[s] EXCEPT !.dirty = FALSE] \in Page
    BY <2>1, <2>3
  <2> QED BY <1>1, <2>3, <2>4
<1>5. CASE SyncHeader
  BY <1>1, <1>5 DEF SyncHeader, EndSync, Gone, manager
<1>6. CASE Crash
  BY <1>1, <1>6 DEF Crash, Gone
<1>7. CASE Open
  <2>1. PICK bad \in SUBSET (1..page_count) :
          pages' = [s \in Serial |->
               IF s > page_count THEN Null
               ELSE IF s \in bad THEN EmptyPage(s)
               ELSE IF images[s] = Null THEN HolePage ELSE images[s]]
    BY <1>7 DEF Open
  <2>2. ASSUME NEW q \in Serial
        PROVE  EmptyPage(q) \in Page /\ HolePage \in Page /\ images[q] \in Page \cup {Null}
    <3>1. q \in 0..MaxPages /\ 0 \in 0..MaxPages
      BY FileAssumption DEF Serial
    <3>2. EmptyPage(q) \in Page /\ HolePage \in Page
      BY <3>1 DEF EmptyPage, HolePage, Page
    <3>3. images[q] \in Page \cup {Null}
      BY DEF TypeOK
    <3> QED BY <3>2, <3>3
  <2> QED BY <2>1, <2>2
<1>8. ASSUME NEW s \in Serial, AddObject(s) PROVE pages' \in [Serial -> Page \cup {Null}]
  <2>1. pages[s] \in Page
    BY <1>8, PageFields DEF AddObject, Pool
  <2>2. inserted + 1 \in Object
    BY <1>8, FileAssumption DEF AddObject, TypeOK, Object
  <2>3. [pages[s] EXCEPT !.objects = @ \cup {inserted + 1}, !.dirty = TRUE] \in Page
    BY <2>1, <2>2 DEF Page
  <2>4. pages' = [pages EXCEPT ![s] = [pages[s] EXCEPT !.objects = @ \cup {inserted + 1},
     !.dirty = TRUE]]
    BY <1>1, <1>8 DEF AddObject
  <2> QED BY <1>1, <2>3, <2>4
<1>9. ASSUME NEW s \in Serial, WritePage(s) PROVE pages' \in [Serial -> Page \cup {Null}]
  <2>1. pages[s] \in Page
    BY <1>9, PageFields DEF WritePage, Pool
  <2>2. [pages[s] EXCEPT !.dirty = TRUE] \in Page
    BY <2>1 DEF Page
  <2>3. pages' = [pages EXCEPT ![s] = [pages[s] EXCEPT !.dirty = TRUE]]
    BY <1>9 DEF WritePage
  <2> QED BY <1>1, <2>2, <2>3
<1>10. ASSUME NEW s \in Serial, FreePage(s) PROVE pages' \in [Serial -> Page \cup {Null}]
  BY <1>1, <1>10 DEF FreePage
<1>11. ASSUME NEW leave \in BOOLEAN,
   SyncBegin(leave) PROVE pages' \in [Serial -> Page \cup {Null}]
  BY <1>1, <1>11 DEF SyncBegin, manager
<1> QED BY <1>2, <1>3, <1>4, <1>5, <1>6, <1>7, <1>8, <1>9, <1>10, <1>11 DEF Next

\* The file after a step holds pages.
LEMMA ImagesType ==
  ASSUME TypeOK
  PROVE  Next => images' \in [Serial -> Page \cup {Null}]
<1> SUFFICES ASSUME Next PROVE images' \in [Serial -> Page \cup {Null}]
  OBVIOUS
<1>1. images \in [Serial -> Page \cup {Null}]
  BY DEF TypeOK
<1>2. ASSUME NEW p \in Page, images' = Written(p) PROVE images' \in [Serial -> Page \cup {Null}]
  <2>1. p.page_id # 0 => p.page_id \in Serial
    BY FileAssumption DEF Page, Serial
  <2> QED BY <1>1, <1>2, <2>1 DEF Written
<1>3. CASE SyncPage
  <2>1. images' = images \/ images' = Written(pages[Min(DirtyPages)])
    BY <1>3 DEF SyncPage
  <2>2. pages[Min(DirtyPages)] \in Page
    <3>1. DirtyPages \subseteq Nat /\ DirtyPages # {}
      BY <1>3, FileAssumption DEF SyncPage, DirtyPages, Pool, Serial
    <3>2. Min(DirtyPages) \in DirtyPages
      BY <3>1, MinIndex
    <3> QED BY <3>2, PageFields DEF DirtyPages, Pool
  <2> QED BY <1>1, <1>2, <2>1, <2>2
<1>4. ASSUME NEW s \in Serial, WritePage(s) PROVE images' \in [Serial -> Page \cup {Null}]
  <2>1. images' = images \/ images' = Written([pages[s] EXCEPT !.dirty = TRUE])
    BY <1>4 DEF WritePage
  <2>2. pages[s] \in Page
    BY <1>4, PageFields DEF WritePage, Pool
  <2>3. [pages[s] EXCEPT !.dirty = TRUE] \in Page
    BY <2>2 DEF Page
  <2> QED BY <1>1, <1>2, <2>1, <2>3
<1>5. ~ SyncPage /\ (\A s \in Serial : ~ WritePage(s)) => images' = images
  BY DEF Next, AllocPage, Flush, SyncHeader, Crash, Open, AddObject, FreePage, SyncBegin, file
<1> QED BY <1>1, <1>3, <1>4, <1>5

\* What is known of the objects of the pages.
LEMMA ObjectsTyped ==
  ASSUME TypeOK
  PROVE  /\ \A s \in Serial : pages[s] # Null => pages[s].objects \subseteq Object
         /\ \A s \in Serial : images[s] # Null => images[s].objects \subseteq Object
BY DEF TypeOK, Page

\* What a caller knows, and what was lost on the way.
LEMMA GhostsType ==
  ASSUME TypeOK
  PROVE  Next => /\ lost' \subseteq Object /\ hidden' \subseteq Object
                 /\ blank' \subseteq Serial /\ durable' \subseteq Object
<1> SUFFICES ASSUME Next
             PROVE  /\ lost' \subseteq Object /\ hidden' \subseteq Object
                    /\ blank' \subseteq Serial /\ durable' \subseteq Object
  OBVIOUS
<1> USE DEF Pool
<1>1. /\ lost \subseteq Object /\ hidden \subseteq Object
      /\ blank \subseteq Serial /\ durable \subseteq Object
  BY DEF TypeOK
<1>2. CASE UNCHANGED ghosts
  BY <1>1, <1>2 DEF ghosts
<1>3. CASE Flush
  BY <1>1, <1>3, ObjectsTyped DEF Flush
<1>4. CASE SyncPage
  <2>1. Min(DirtyPages) \in DirtyPages
    <3>1. DirtyPages \subseteq Nat /\ DirtyPages # {}
      BY <1>4, FileAssumption DEF SyncPage, DirtyPages, Serial
    <3> QED BY <3>1, MinIndex
  <2>2. pages[Min(DirtyPages)].objects \subseteq Object
    BY <2>1, ObjectsTyped DEF DirtyPages
  <2> QED BY <1>1, <1>4, <2>2 DEF SyncPage
<1>5. CASE SyncHeader
  BY <1>1, <1>5, ObjectsTyped DEF SyncHeader, InMemory
<1>6. CASE Open
  <2>1. \A j \in 1..page_count : j \in Serial
    BY FileAssumption DEF TypeOK, Serial
  <2>2. PICK bad \in SUBSET (1..page_count) :
          hidden' = hidden \cup UNION {images[i].objects : i \in {j \in bad : images[j] # Null}}
    BY <1>6 DEF Open
  <2>3. lost' = {} /\ blank' = blank /\ durable' = durable
    BY <1>6 DEF Open
  <2> QED BY <1>1, <2>1, <2>2, <2>3, ObjectsTyped
<1>7. ASSUME NEW s \in Serial, WritePage(s)
      PROVE  /\ lost' \subseteq Object /\ hidden' \subseteq Object
             /\ blank' \subseteq Serial /\ durable' \subseteq Object
  <2>1. pages[s] \in Page /\ pages[s].objects \subseteq Object
    BY <1>7, PageFields DEF WritePage
  <2>2. [pages[s] EXCEPT !.dirty = TRUE].objects = pages[s].objects
    BY <2>1 DEF Page
  <2>3. /\ lost' \subseteq lost /\ durable' \subseteq durable \cup pages[s].objects
        /\ hidden' = hidden /\ blank' = blank
    BY <1>7, <2>2 DEF WritePage
  <2> QED BY <1>1, <2>1, <2>3
<1>8. CASE AllocPage \/ Crash
  BY <1>2, <1>8 DEF AllocPage, Crash
<1>9. CASE \E s \in Serial : AddObject(s) \/ FreePage(s)
  BY <1>2, <1>9 DEF AddObject, FreePage
<1>10. CASE \E leave \in BOOLEAN : SyncBegin(leave)
  BY <1>2, <1>10 DEF SyncBegin
<1> QED BY <1>3, <1>4, <1>5, <1>6, <1>7, <1>8, <1>9, <1>10 DEF Next

\* The counters stay within their bounds.
LEMMA CountersType ==
  ASSUME TypeOK
  PROVE  Next => /\ next_page_id' \in 1..(MaxPages + 1) /\ page_count' \in 0..MaxPages
                 /\ inserted' \in 0..MaxObjects /\ faults' \in 0..MaxFaults
                 /\ frees' \in 0..MaxFrees /\ restarts' \in 0..MaxRestarts
<1> SUFFICES ASSUME Next
             PROVE  /\ next_page_id' \in 1..(MaxPages + 1) /\ page_count' \in 0..MaxPages
                    /\ inserted' \in 0..MaxObjects /\ faults' \in 0..MaxFaults
                    /\ frees' \in 0..MaxFrees /\ restarts' \in 0..MaxRestarts
  OBVIOUS
<1> USE FileAssumption DEF Serial, manager, file, counters
<1>1. /\ next_page_id \in 1..(MaxPages + 1) /\ page_count \in 0..MaxPages
      /\ inserted \in 0..MaxObjects /\ faults \in 0..MaxFaults
      /\ frees \in 0..MaxFrees /\ restarts \in 0..MaxRestarts
  BY DEF TypeOK
<1>2. next_page_id' \in 1..(MaxPages + 1)
  <2>1. \/ next_page_id' \in {next_page_id, 1, page_count + 1}
        \/ next_page_id <= MaxPages /\ next_page_id' = next_page_id + 1
    BY DEF Next, AllocPage, Flush, SyncPage, SyncHeader, EndSync, Gone, Crash, Open,
           AddObject, WritePage, FreePage, SyncBegin
  <2> QED BY <1>1, <2>1
<1>3. page_count' \in 0..MaxPages
  <2>1. Cardinality(Pool) \in 0..MaxPages
    BY PoolBound DEF Pool
  <2>2. page_count' \in {page_count, Cardinality(Pool)}
    BY DEF Next, AllocPage, Flush, SyncPage, SyncHeader, Crash, Open,
           AddObject, WritePage, FreePage, SyncBegin
  <2> QED BY <1>1, <2>1, <2>2
<1>4. inserted' \in 0..MaxObjects
  <2>1. inserted' = inserted \/ (inserted < MaxObjects /\ inserted' = inserted + 1)
    BY DEF Next, AllocPage, Flush, SyncPage, SyncHeader, Crash, Open,
           AddObject, WritePage, FreePage, SyncBegin
  <2> QED BY <1>1, <2>1
<1>5. frees' \in 0..MaxFrees
  <2>1. frees' = frees \/ (frees < MaxFrees /\ frees' = frees + 1)
    BY DEF Next, AllocPage, Flush, SyncPage, SyncHeader, Crash, Open,
           AddObject, WritePage, FreePage, SyncBegin
  <2> QED BY <1>1, <2>1
<1>6. restarts' \in 0..MaxRestarts
  <2>1. restarts' = restarts \/ (restarts < MaxRestarts /\ restarts' = restarts + 1)
    BY DEF Next, AllocPage, Flush, SyncPage, SyncHeader, Crash, Open,
           AddObject, WritePage, FreePage, SyncBegin
  <2> QED BY <1>1, <2>1
<1>7. faults' \in 0..MaxFaults
  <2>1. CASE Open
    <3>1. PICK bad \in SUBSET (1..page_count) :
            faults + Cardinality(bad) <= MaxFaults /\ faults' = faults + Cardinality(bad)
      BY <2>1 DEF Open
    <3>2. bad \subseteq Serial
      BY <1>1
    <3>3. Cardinality(bad) \in 0..MaxPages
      BY <3>2, PoolBound
    <3> QED BY <1>1, <3>1, <3>3
  <2>2. CASE faults' = faults \/ (faults < MaxFaults /\ faults' = faults + 1)
    BY <1>1, <2>2
  <2>3. ~ Open => faults' = faults \/ (faults < MaxFaults /\ faults' = faults + 1)
    BY DEF Next, AllocPage, Flush, SyncPage, SyncHeader, Crash,
           AddObject, WritePage, FreePage, SyncBegin
  <2> QED BY <2>1, <2>2, <2>3
<1> QED BY <1>2, <1>3, <1>4, <1>5, <1>6, <1>7

\* What the manager is doing, its tracks and its tree.
LEMMA ManagerType ==
  ASSUME TypeOK
  PROVE  Next => /\ config' \in Configs /\ up' \in BOOLEAN /\ tree' \subseteq Serial
                 /\ syncing' \in [pc : {"idle", "pages"}, leave : BOOLEAN]
                 /\ tracks' \in Seq(Seq(Serial))
<1> SUFFICES ASSUME Next
             PROVE  /\ config' \in Configs /\ up' \in BOOLEAN /\ tree' \subseteq Serial
                    /\ syncing' \in [pc : {"idle", "pages"}, leave : BOOLEAN]
                    /\ tracks' \in Seq(Seq(Serial))
  OBVIOUS
<1>1. /\ config \in Configs /\ up \in BOOLEAN /\ tree \subseteq Serial
      /\ syncing \in [pc : {"idle", "pages"}, leave : BOOLEAN]
      /\ tracks \in Seq(Seq(Serial)) /\ <<>> \in Seq(Seq(Serial))
      /\ Idle \in [pc : {"idle", "pages"}, leave : BOOLEAN]
  BY DEF TypeOK, Idle
<1>2. config' = config
  BY DEF Next, AllocPage, Flush, SyncPage, SyncHeader, Crash, Open,
         AddObject, WritePage, FreePage, SyncBegin
<1>3. up' \in BOOLEAN
  BY <1>1, Zenon DEF Next, AllocPage, Flush, SyncPage, SyncHeader, EndSync, Gone, Crash, Open,
         AddObject, WritePage, FreePage, SyncBegin, manager
<1>4. syncing' \in {syncing, Idle} \cup {[pc |-> "pages", leave |-> leave] : leave \in BOOLEAN}
  BY DEF Next, AllocPage, Flush, SyncPage, SyncHeader, EndSync, Gone, Crash, Open,
         AddObject, WritePage, FreePage, SyncBegin
<1>5. tracks' \in Seq(Seq(Serial))
  <2>1. CASE AllocPage \/ \E s \in Serial : FreePage(s)
    BY <2>1, TracksType
  <2>2. CASE ~ (AllocPage \/ \E s \in Serial : FreePage(s))
    <3>1. tracks' = tracks \/ tracks' = <<>>
      BY <2>2 DEF Next, Flush, SyncPage, SyncHeader, EndSync, Gone, Crash, Open,
             AddObject, WritePage, SyncBegin, manager
    <3> QED BY <1>1, <3>1
  <2> QED BY <2>1, <2>2
<1>6. tree' \subseteq Serial
  <2>1. AllocPage => next_page_id \in Serial
    BY FileAssumption DEF AllocPage, TypeOK, Serial
  <2>2. 1..page_count \subseteq Serial
    BY FileAssumption DEF TypeOK, Serial
  <2> QED BY <1>1, <2>1, <2>2 DEF Next, AllocPage, Flush, SyncPage, SyncHeader, EndSync, Gone,
             Crash, Open, AddObject, WritePage, FreePage, SyncBegin, manager, Pool
<1>7. syncing' \in [pc : {"idle", "pages"}, leave : BOOLEAN]
  BY <1>1, <1>4
<1> QED BY <1>1, <1>2, <1>3, <1>5, <1>6, <1>7, Zenon

\* The types are kept.
LEMMA TypeKept ==
  ASSUME TypeOK, Next
  PROVE  TypeOK'
<1>1. /\ pages' \in [Serial -> Page \cup {Null}] /\ images' \in [Serial -> Page \cup {Null}]
  BY PagesType, ImagesType
<1>2. /\ lost' \subseteq Object /\ hidden' \subseteq Object
      /\ blank' \subseteq Serial /\ durable' \subseteq Object
  BY GhostsType
<1>3. /\ next_page_id' \in 1..(MaxPages + 1) /\ page_count' \in 0..MaxPages
      /\ inserted' \in 0..MaxObjects /\ faults' \in 0..MaxFaults
      /\ frees' \in 0..MaxFrees /\ restarts' \in 0..MaxRestarts
  BY CountersType
<1>4. /\ config' \in Configs /\ up' \in BOOLEAN /\ tree' \subseteq Serial
      /\ syncing' \in [pc : {"idle", "pages"}, leave : BOOLEAN]
      /\ tracks' \in Seq(Seq(Serial))
  BY ManagerType
<1> QED BY <1>1, <1>2, <1>3, <1>4, Zenon DEF TypeOK

\* The allocation tree loses what the pool loses, and gains what it gains.
LEMMA TreeKept ==
  ASSUME TypeOK, DownIsEmpty, tree \subseteq Pool, Next
  PROVE  (tree \subseteq Pool)'
<1>1. CASE AllocPage
  <2>1. PICK s \in Serial :
          /\ s = next_page_id /\ pages'[s] # Null
          /\ \A q \in Serial \ {s} : pages'[q] = pages[q]
    BY <1>1, AllocEffect
  <2> QED BY <1>1, <2>1 DEF AllocPage, Pool
<1>2. CASE Flush
  <2>1. tree' = tree /\ \A q \in Serial : pages'[q] = Null <=> pages[q] = Null
    BY <1>2, FlushEffect DEF Flush
  <2> QED BY <2>1 DEF Pool
<1>3. CASE SyncPage
  <2>1. \A s \in Serial : pages[s] # Null => [pages[s] EXCEPT !.dirty = FALSE] # Null
    <3> TAKE s \in Serial
    <3> HAVE pages[s] # Null
    <3>1. pages[s] \in Page
      BY PageFields
    <3> QED BY <3>1, NullAssumption DEF Page
  <2>2. tree' = tree /\ pages' = [pages EXCEPT ![Min(DirtyPages)].dirty = FALSE]
    BY <1>3 DEF SyncPage
  <2>3. \A q \in Serial : pages[q] # Null => pages'[q] # Null
    BY <2>1, <2>2 DEF TypeOK
  <2> QED BY <2>2, <2>3 DEF Pool
<1>4. CASE SyncHeader
  BY <1>4 DEF SyncHeader, EndSync, Gone, manager, Pool
<1>5. CASE Crash
  BY <1>5 DEF Crash, Gone
<1>6. CASE Open
  <2>1. tree' \subseteq 1..page_count /\ 1..page_count \subseteq Serial
    BY <1>6, FileAssumption DEF Open, TypeOK, Serial
  <2>2. \A q \in Serial : q <= page_count => pages'[q] # Null
    BY <1>6, OpenEffect
  <2> QED BY <2>1, <2>2, FileAssumption DEF Pool, TypeOK, Serial
<1>7. ASSUME NEW s \in Serial, AddObject(s) PROVE (tree \subseteq Pool)'
  <2>1. tree' = tree /\ pages'[s] # Null /\ \A q \in Serial \ {s} : pages'[q] = pages[q]
    BY <1>7, AddEffect DEF AddObject
  <2> QED BY <2>1 DEF Pool
<1>8. ASSUME NEW s \in Serial, WritePage(s) PROVE (tree \subseteq Pool)'
  <2>1. pages[s] \in Page
    BY <1>8, PageFields DEF WritePage, Pool
  <2>2. [pages[s] EXCEPT !.dirty = TRUE] # Null
    BY <2>1, NullAssumption DEF Page
  <2>3. tree' = tree /\ pages' = [pages EXCEPT ![s] = [pages[s] EXCEPT !.dirty = TRUE]]
    BY <1>8 DEF WritePage
  <2> QED BY <2>2, <2>3 DEF TypeOK, Pool
<1>9. ASSUME NEW s \in Serial, FreePage(s) PROVE (tree \subseteq Pool)'
  BY <1>9 DEF FreePage, Pool, TypeOK
<1>10. ASSUME NEW leave \in BOOLEAN, SyncBegin(leave) PROVE (tree \subseteq Pool)'
  BY <1>10 DEF SyncBegin, manager, Pool
<1> QED BY <1>1, <1>2, <1>3, <1>4, <1>5, <1>6, <1>7, <1>8, <1>9, <1>10 DEF Next

-----------------------------------------------------------------------------
\* Pointers to freed pages: the invariant of the tracks.

\* No track is longer than its array.
WithinTracks(sq) == \A t \in DOMAIN sq : Len(sq[t]) <= PAGES_PER_TRACK

\* An entry points to a page that was allocated before and, while it is in the
\* pool, knows the track.
EntriesKnown ==
  \A e \in Entries(tracks) : LET q == tracks[e[1]][e[2]] IN
    /\ q < next_page_id
    /\ pages[q] # Null => pages[q].track_id = e[1]

\* page_pool_alloc and disk_manager_alloc_page enter a page, nobody else.
EnteredTwice == \A s \in Serial : Cardinality(EntriesTo(tracks, {s})) <= 2

TracksInv == WithinTracks(tracks) /\ EntriesKnown /\ EnteredTwice /\ OneDanglingPerFree

\* An entry is a track with a place in it.
LEMMA EntryPlace ==
  ASSUME NEW sq \in Seq(Seq(Serial)), NEW t, NEW k
  PROVE  <<t, k>> \in Entries(sq) <=> t \in 1..Len(sq) /\ k \in 1..Len(sq[t])
<1>1. DOMAIN sq = 1..Len(sq) /\ \A u \in 1..Len(sq) : DOMAIN sq[u] = 1..Len(sq[u])
  <2>1. DOMAIN sq = 1..Len(sq)
    BY LenProperties
  <2>2. ASSUME NEW u \in 1..Len(sq) PROVE DOMAIN sq[u] = 1..Len(sq[u])
    BY ElementOfSeq, LenProperties
  <2> QED BY <2>1, <2>2
<1>2. ASSUME t \in 1..Len(sq), k \in 1..Len(sq[t]) PROVE <<t, k>> \in Entries(sq)
  <2>1. <<t, k>> \in {t} \X DOMAIN sq[t]
    BY <1>1, <1>2
  <2> QED BY <1>1, <1>2, <2>1 DEF Entries
<1>3. ASSUME <<t, k>> \in Entries(sq) PROVE t \in 1..Len(sq) /\ k \in 1..Len(sq[t])
  <2>1. PICK u \in DOMAIN sq : <<t, k>> \in {u} \X DOMAIN sq[u]
    BY <1>3 DEF Entries
  <2>2. t = u /\ k \in DOMAIN sq[u]
    BY <2>1
  <2> QED BY <1>1, <2>2
<1> QED BY <1>2, <1>3

LEMMA EntryShape ==
  ASSUME NEW sq \in Seq(Seq(Serial)), NEW e \in Entries(sq)
  PROVE  /\ e = <<e[1], e[2]>> /\ e[1] \in 1..Len(sq) /\ e[2] \in 1..Len(sq[e[1]])
         /\ sq[e[1]] \in Seq(Serial) /\ sq[e[1]][e[2]] \in Serial
<1>1. e = <<e[1], e[2]>>
  <2>1. PICK t \in DOMAIN sq : e \in {t} \X DOMAIN sq[t]
    BY DEF Entries
  <2> QED BY <2>1
<1>2. e[1] \in 1..Len(sq) /\ e[2] \in 1..Len(sq[e[1]])
  <2> DEFINE t == e[1]
             k == e[2]
  <2>1. <<t, k>> \in Entries(sq)
    BY <1>1
  <2> HIDE DEF t, k
  <2>2. t \in 1..Len(sq) /\ k \in 1..Len(sq[t])
    BY <2>1, EntryPlace
  <2> QED BY <2>2 DEF t, k
<1>3. sq[e[1]] \in Seq(Serial)
  BY <1>2, ElementOfSeq
<1>4. sq[e[1]][e[2]] \in Serial
  BY <1>2, <1>3, ElementOfSeq
<1> QED BY <1>1, <1>2, <1>3, <1>4

\* Tracks within their arrays have finitely many entries.
LEMMA EntriesFinite ==
  ASSUME NEW sq \in Seq(Seq(Serial)), WithinTracks(sq), NEW S
  PROVE  IsFiniteSet(EntriesTo(sq, S)) /\ Cardinality(EntriesTo(sq, S)) \in Nat
<1> DEFINE box == (1..Len(sq)) \X (1..PAGES_PER_TRACK)
<1>1. Len(sq) \in Nat /\ DOMAIN sq = 1..Len(sq) /\ PAGES_PER_TRACK \in Nat
  BY LenProperties, FileAssumption
<1>2. IsFiniteSet(box)
  <2>1. IsFiniteSet(1..Len(sq)) /\ IsFiniteSet(1..PAGES_PER_TRACK)
    BY <1>1, FS_Interval
  <2> QED BY <2>1, FS_Product, Zenon
<1>3. ASSUME NEW e \in Entries(sq) PROVE e \in box
  <2>1. /\ e = <<e[1], e[2]>> /\ e[1] \in 1..Len(sq) /\ e[2] \in 1..Len(sq[e[1]])
        /\ sq[e[1]] \in Seq(Serial)
    BY EntryShape
  <2>2. Len(sq[e[1]]) <= PAGES_PER_TRACK /\ Len(sq[e[1]]) \in Nat
    BY <1>1, <2>1, LenProperties DEF WithinTracks
  <2>3. e[2] \in 1..PAGES_PER_TRACK
    BY <1>1, <2>1, <2>2
  <2> QED BY <2>1, <2>3
<1>4. EntriesTo(sq, S) \in SUBSET box
  BY <1>3 DEF EntriesTo
<1>5. IsFiniteSet(EntriesTo(sq, S))
  BY <1>2, <1>4, FS_Subset
<1> QED BY <1>5, FS_CardinalityType

\* A sequence without its entry k: the later ones move up by one.
LEMMA RemoveAtPlaces ==
  ASSUME NEW S, NEW sq \in Seq(S), NEW k \in 1..Len(sq)
  PROVE  /\ Len(RemoveAt(sq, k)) = Len(sq) - 1
         /\ \A i \in 1..(Len(sq) - 1) : RemoveAt(sq, k)[i] = IF i < k THEN sq[i] ELSE sq[i + 1]
<1> DEFINE n == Len(sq)
           a == SubSeq(sq, 1, k - 1)
           b == SubSeq(sq, k + 1, n)
<1>1. n \in Nat /\ k \in Nat /\ 1 <= k /\ k <= n
  BY LenProperties
<1>2. \A i \in 1..n : sq[i] \in S
  BY ElementOfSeq
<1>3. RemoveAt(sq, k) = a \o b
  BY DEF RemoveAt
<1>4. a \in Seq(S) /\ Len(a) = k - 1 /\ \A i \in 1..(k - 1) : a[i] = sq[i]
  <2>1. k - 1 \in Int /\ \A i \in 1..(k - 1) : sq[i] \in S
    BY <1>1, <1>2
  <2>2. /\ a \in Seq(S) /\ Len(a) = IF 1 <= k - 1 THEN (k - 1) - 1 + 1 ELSE 0
        /\ \A i \in 1..((k - 1) - 1 + 1) : a[i] = sq[1 + i - 1]
    BY <2>1, SubSeqProperties
  <2> QED BY <1>1, <2>2
<1>5. b \in Seq(S) /\ Len(b) = n - k /\ \A i \in 1..(n - k) : b[i] = sq[k + i]
  <2>1. k + 1 \in Int /\ n \in Int /\ \A i \in (k + 1)..n : sq[i] \in S
    BY <1>1, <1>2
  <2>2. /\ b \in Seq(S) /\ Len(b) = IF k + 1 <= n THEN n - (k + 1) + 1 ELSE 0
        /\ \A i \in 1..(n - (k + 1) + 1) : b[i] = sq[(k + 1) + i - 1]
    BY <2>1, SubSeqProperties
  <2> QED BY <1>1, <2>2
<1> HIDE DEF n, a, b
<1>6. /\ Len(a \o b) = Len(a) + Len(b)
      /\ \A i \in 1..(Len(a) + Len(b)) : (a \o b)[i] = IF i <= Len(a) THEN a[i] ELSE b[i - Len(a)]
  BY <1>4, <1>5, ConcatProperties
<1>7. Len(a \o b) = n - 1
  BY <1>1, <1>4, <1>5, <1>6
<1>8. ASSUME NEW i \in 1..(n - 1) PROVE (a \o b)[i] = IF i < k THEN sq[i] ELSE sq[i + 1]
  <2>1. i \in Nat /\ i \in 1..(Len(a) + Len(b))
    BY <1>1, <1>4, <1>5
  <2>2. CASE i < k
    BY <1>1, <1>4, <1>6, <2>1, <2>2
  <2>3. CASE ~ (i < k)
    <3>1. ~ (i <= k - 1) /\ i - (k - 1) \in 1..(n - k) /\ k + (i - (k - 1)) = i + 1
      BY <1>1, <2>1, <2>3
    <3> QED BY <1>4, <1>5, <1>6, <2>1, <2>3, <3>1
  <2> QED BY <2>2, <2>3
<1> QED BY <1>3, <1>7, <1>8 DEF n

\* What the tracks left have was in the tracks sq, each entry in its track.
FoundIn(sq, left) ==
  \A e \in Entries(left) : \E o \in Entries(sq) :
    o[1] = e[1] /\ left[e[1]][e[2]] = sq[o[1]][o[2]]

\* Without the entry in place h of track t, what is left in the tracks was
\* there before, in the same track, in as many places.
LEMMA EntriesLeft ==
  ASSUME NEW sq \in Seq(Seq(Serial)), WithinTracks(sq), NEW t \in 1..Len(sq),
         NEW h \in 1..Len(sq[t]), NEW left, left = [sq EXCEPT ![t] = RemoveAt(sq[t], h)],
         NEW S
  PROVE  /\ WithinTracks(left)
         /\ FoundIn(sq, left)
         /\ Cardinality(EntriesTo(left, S)) <= Cardinality(EntriesTo(sq, S) \ {<<t, h>>})
<1> DEFINE track == sq[t]
           rest == RemoveAt(track, h)
           old(e) == IF e[1] = t /\ ~ (e[2] < h) THEN <<t, e[2] + 1>> ELSE e
<1>1. track \in Seq(Serial) /\ Len(track) \in Nat /\ h \in Nat /\ Len(sq) \in Nat
  BY ElementOfSeq, LenProperties
<1>2. /\ rest \in Seq(Serial) /\ Len(rest) = Len(track) - 1
      /\ \A i \in 1..(Len(track) - 1) : rest[i] = IF i < h THEN track[i] ELSE track[i + 1]
  BY <1>1, RemoveAtType, RemoveAtPlaces
<1>3. h \in 1..Len(track) /\ left = [sq EXCEPT ![t] = rest]
  OBVIOUS
<1> HIDE DEF rest
<1>4. /\ left \in Seq(Seq(Serial)) /\ Len(left) = Len(sq)
      /\ \A u \in 1..Len(sq) : left[u] = IF u = t THEN rest ELSE sq[u]
  BY <1>2, <1>3, ExceptSeq
<1>5. WithinTracks(left)
  <2>1. DOMAIN left = 1..Len(sq) /\ DOMAIN sq = 1..Len(sq)
    BY <1>4, LenProperties
  <2>2. Len(track) <= PAGES_PER_TRACK /\ PAGES_PER_TRACK \in Nat
    BY <2>1, FileAssumption DEF WithinTracks
  <2>3. Len(rest) <= PAGES_PER_TRACK
    BY <1>1, <1>2, <2>2
  <2> QED BY <1>4, <2>1, <2>3 DEF WithinTracks
\* Where an entry was before.
<1>6. ASSUME NEW e \in Entries(left)
      PROVE  /\ old(e) \in Entries(sq) /\ old(e) # <<t, h>> /\ old(e)[1] = e[1]
             /\ left[e[1]][e[2]] = sq[old(e)[1]][old(e)[2]]
  <2>1. e = <<e[1], e[2]>> /\ e[1] \in 1..Len(sq) /\ e[2] \in 1..Len(left[e[1]])
    BY <1>4, EntryShape
  <2>2. CASE e[1] # t
    <3>1. left[e[1]] = sq[e[1]] /\ old(e) = e
      BY <1>4, <2>1, <2>2
    <3>2. <<e[1], e[2]>> \in Entries(sq)
      BY <2>1, <3>1, EntryPlace
    <3>3. e # <<t, h>>
      BY <2>2
    <3> QED BY <2>1, <3>1, <3>2, <3>3
  <2>3. CASE e[1] = t
    <3>1. left[e[1]] = rest /\ e[2] \in 1..(Len(track) - 1)
      BY <1>2, <1>4, <2>1, <2>3
    <3>2. CASE e[2] < h
      <4>1. old(e) = e /\ e[2] \in 1..Len(track) /\ e[2] # h
        BY <1>1, <3>1, <3>2
      <4>2. rest[e[2]] = track[e[2]]
        BY <1>2, <3>1, <3>2
      <4>3. e \in Entries(sq) /\ e # <<t, h>>
        BY <2>1, <2>3, <4>1, EntryPlace
      <4> HIDE DEF old
      <4> QED BY <2>3, <3>1, <4>1, <4>2, <4>3
    <3>3. CASE ~ (e[2] < h)
      <4>1. old(e) = <<t, e[2] + 1>> /\ e[2] + 1 \in 1..Len(track) /\ e[2] + 1 # h
        BY <1>1, <2>3, <3>1, <3>3
      <4>2. rest[e[2]] = track[e[2] + 1]
        BY <1>2, <3>1, <3>3
      <4>3. <<t, e[2] + 1>> \in Entries(sq)
        BY <4>1, EntryPlace
      <4> QED BY <2>3, <3>1, <4>1, <4>2, <4>3
    <3> QED BY <3>2, <3>3
  <2> QED BY <2>2, <2>3
<1>7. ASSUME NEW d \in Entries(left), NEW e \in Entries(left), old(d) = old(e) PROVE d = e
  <2>1. /\ d = <<d[1], d[2]>> /\ e = <<e[1], e[2]>> /\ d[2] \in Nat /\ e[2] \in Nat
    <3>1. /\ d = <<d[1], d[2]>> /\ e = <<e[1], e[2]>>
          /\ left[d[1]] \in Seq(Serial) /\ d[2] \in 1..Len(left[d[1]])
          /\ left[e[1]] \in Seq(Serial) /\ e[2] \in 1..Len(left[e[1]])
      BY <1>4, EntryShape
    <3>2. Len(left[d[1]]) \in Nat /\ Len(left[e[1]]) \in Nat
      BY <3>1, LenProperties
    <3> QED BY <3>1, <3>2
  <2>2. d[1] = e[1]
    BY <1>6, <1>7
  <2>3. d[2] = e[2]
    <3>1. old(d)[2] = IF d[1] = t /\ ~ (d[2] < h) THEN d[2] + 1 ELSE d[2]
      BY <2>1
    <3>2. old(e)[2] = IF e[1] = t /\ ~ (e[2] < h) THEN e[2] + 1 ELSE e[2]
      BY <2>1
    <3>3. (IF d[1] = t /\ ~ (d[2] < h) THEN d[2] + 1 ELSE d[2])
          = (IF e[1] = t /\ ~ (e[2] < h) THEN e[2] + 1 ELSE e[2])
      BY <1>7, <3>1, <3>2
    <3> QED BY <1>1, <2>1, <2>2, <3>3
  <2> QED BY <2>1, <2>2, <2>3
<1> HIDE DEF old
<1>8. Cardinality(EntriesTo(left, S)) <= Cardinality(EntriesTo(sq, S) \ {<<t, h>>})
  <2> DEFINE A == EntriesTo(left, S)
             B == EntriesTo(sq, S) \ {<<t, h>>}
             f == [e \in A |-> old(e)]
  <2>1. IsFiniteSet(B)
    BY EntriesFinite, FS_RemoveElement
  <2>2. \A e \in A : old(e) \in B
    BY <1>6 DEF EntriesTo
  <2>3. \A d, e \in A : old(d) = old(e) => d = e
    BY <1>7 DEF EntriesTo
  <2> HIDE DEF A, B
  <2>4. f \in Injection(A, B)
    BY <2>2, <2>3 DEF Injection, IsInjective
  <2> HIDE DEF f
  <2>5. Cardinality(A) <= Cardinality(B)
    BY <2>1, <2>4, FS_Injection
  <2> QED BY <2>5 DEF A, B
<1>9. FoundIn(sq, left)
  BY <1>6 DEF FoundIn
<1> QED BY <1>5, <1>8, <1>9

\* A page entered into a track comes after what was there, at most twice.
LEMMA EnteredPlaces ==
  ASSUME NEW track \in Seq(Serial), NEW s \in Serial, Len(track) <= PAGES_PER_TRACK
  PROVE  /\ Entered(track, s) \in Seq(Serial) /\ Len(Entered(track, s)) <= PAGES_PER_TRACK
         /\ Len(track) <= Len(Entered(track, s)) /\ Len(Entered(track, s)) <= Len(track) + 2
         /\ \A k \in 1..Len(Entered(track, s)) :
              Entered(track, s)[k] = IF k <= Len(track) THEN track[k] ELSE s
<1> DEFINE n == Len(track)
           m == Min({n + 2, PAGES_PER_TRACK})
           twice == track \o <<s, s>>
<1>1. n \in Nat /\ <<s, s>> \in Seq(Serial) /\ Len(<<s, s>>) = 2 /\ PAGES_PER_TRACK \in Nat
  BY LenProperties, FileAssumption
<1>2. /\ twice \in Seq(Serial) /\ Len(twice) = n + 2
      /\ \A i \in 1..(n + 2) : twice[i] = IF i <= n THEN track[i] ELSE <<s, s>>[i - n]
  BY <1>1, ConcatProperties
<1>3. m \in Nat /\ m <= n + 2 /\ m <= PAGES_PER_TRACK /\ n <= m
  <2>1. {n + 2, PAGES_PER_TRACK} \subseteq Nat
    BY <1>1
  <2>2. m \in {n + 2, PAGES_PER_TRACK} /\ m <= n + 2 /\ m <= PAGES_PER_TRACK
    BY <2>1, MinIndex
  <2> QED BY <1>1, <2>1, <2>2
<1>4. Entered(track, s) = SubSeq(twice, 1, m)
  BY DEF Entered
<1> HIDE DEF m, n
<1>5. ASSUME NEW i \in 1..m
      PROVE  twice[i] \in Serial /\ twice[i] = IF i <= n THEN track[i] ELSE s
  <2>1. i \in 1..(n + 2) /\ (~ (i <= n) => i - n \in {1, 2})
    BY <1>1, <1>3
  <2>2. i \in 1..Len(twice)
    BY <1>2, <2>1
  <2> QED BY <1>2, <2>1, <2>2, ElementOfSeq
<1> HIDE DEF twice
<1>6. /\ SubSeq(twice, 1, m) \in Seq(Serial) /\ Len(SubSeq(twice, 1, m)) = m
      /\ \A i \in 1..m : SubSeq(twice, 1, m)[i] = twice[i]
  <2>1. 1 \in Int /\ m \in Int /\ \A i \in 1..m : twice[i] \in Serial
    BY <1>3, <1>5
  <2>2. /\ SubSeq(twice, 1, m) \in Seq(Serial)
        /\ Len(SubSeq(twice, 1, m)) = IF 1 <= m THEN m - 1 + 1 ELSE 0
        /\ \A i \in 1..(m - 1 + 1) : SubSeq(twice, 1, m)[i] = twice[1 + i - 1]
    BY <2>1, SubSeqProperties
  <2>3. m - 1 + 1 = m /\ (~ (1 <= m) => m = 0) /\ \A i \in 1..m : 1 + i - 1 = i
    BY <1>3
  <2> QED BY <2>2, <2>3
<1> QED BY <1>3, <1>4, <1>5, <1>6 DEF n

\* What an allocation does to the tracks and to the page it gives.
LEMMA AllocTracks ==
  ASSUME TypeOK, WithinTracks(tracks), AllocPage
  PROVE  \E s \in Serial, t \in 1..(Len(tracks) + 1) :
         LET before == IF t > Len(tracks) THEN <<>> ELSE tracks[t] IN
         /\ s = next_page_id /\ next_page_id' = s + 1 /\ frees' = frees
         /\ pages'[s] # Null /\ pages'[s].track_id = t
         /\ \A q \in Serial \ {s} : pages'[q] = pages[q]
         /\ before \in Seq(Serial) /\ Len(before) <= PAGES_PER_TRACK
         /\ tracks' \in Seq(Seq(Serial)) /\ tracks'[t] = Entered(before, s)
         /\ 1..Len(tracks) \subseteq 1..Len(tracks') /\ t \in 1..Len(tracks')
         /\ \A u \in 1..Len(tracks') : u # t => u \in 1..Len(tracks) /\ tracks'[u] = tracks[u]
<1>1. PICK s \in Serial : s = next_page_id /\ s \in 0..MaxPages
  BY FileAssumption DEF AllocPage, TypeOK, Serial
<1>2. PICK t \in IF find_best_track = {} THEN {Len(tracks) + 1} ELSE find_best_track :
        /\ tracks' = IF t > Len(tracks) THEN Append(tracks, Entered(<<>>, s))
                     ELSE [tracks EXCEPT ![t] = Entered(tracks[t], s)]
        /\ pages' = [pages EXCEPT ![s] =
                       [page_id |-> s, track_id |-> t, objects |-> {}, dirty |-> FALSE]]
  BY <1>1 DEF AllocPage
<1>3. /\ tracks \in Seq(Seq(Serial)) /\ Len(tracks) \in Nat /\ DOMAIN tracks = 1..Len(tracks)
      /\ <<>> \in Seq(Serial) /\ Len(<<>>) = 0
  BY LenProperties DEF TypeOK
<1>4. t \in 1..(Len(tracks) + 1) /\ t \in Nat
  <2>1. find_best_track \subseteq 1..Len(tracks)
    BY <1>3 DEF find_best_track
  <2> QED BY <1>2, <1>3, <2>1
<1> DEFINE before == IF t > Len(tracks) THEN <<>> ELSE tracks[t]
           p == [page_id |-> s, track_id |-> t, objects |-> {}, dirty |-> FALSE]
<1>5. before \in Seq(Serial) /\ Len(before) <= PAGES_PER_TRACK
  <2>1. CASE t > Len(tracks)
    BY <1>3, <2>1, FileAssumption
  <2>2. CASE ~ (t > Len(tracks))
    <3>1. t \in 1..Len(tracks) /\ before = tracks[t]
      BY <1>3, <1>4, <2>2
    <3> QED BY <1>3, <3>1, ElementOfSeq DEF WithinTracks
  <2> QED BY <2>1, <2>2
<1>6. Entered(before, s) \in Seq(Serial)
  BY <1>5, EnteredType
<1>7. /\ tracks' \in Seq(Seq(Serial)) /\ tracks'[t] = Entered(before, s)
      /\ 1..Len(tracks) \subseteq 1..Len(tracks') /\ t \in 1..Len(tracks')
      /\ \A u \in 1..Len(tracks') : u # t => u \in 1..Len(tracks) /\ tracks'[u] = tracks[u]
  <2>1. CASE t > Len(tracks)
    <3>1. t = Len(tracks) + 1 /\ before = <<>>
      BY <1>3, <1>4, <2>1
    <3>2. tracks' = Append(tracks, Entered(before, s))
      BY <1>2, <2>1, <3>1
    <3> HIDE DEF before
    <3>3. /\ tracks' \in Seq(Seq(Serial)) /\ Len(tracks') = Len(tracks) + 1
          /\ \A u \in 1..Len(tracks) : tracks'[u] = tracks[u]
          /\ tracks'[Len(tracks) + 1] = Entered(before, s)
      BY <1>3, <1>6, <3>2, AppendProperties
    <3>4. \A u \in 1..Len(tracks') : u # t => u \in 1..Len(tracks)
      BY <1>3, <3>1, <3>3
    <3> QED BY <1>3, <3>1, <3>3, <3>4
  <2>2. CASE ~ (t > Len(tracks))
    <3>1. t \in 1..Len(tracks) /\ before = tracks[t]
      BY <1>3, <1>4, <2>2
    <3>2. tracks' = [tracks EXCEPT ![t] = Entered(before, s)]
      BY <1>2, <2>2, <3>1
    <3> HIDE DEF before
    <3>3. /\ tracks' \in Seq(Seq(Serial)) /\ Len(tracks') = Len(tracks)
          /\ \A u \in 1..Len(tracks) :
               tracks'[u] = IF u = t THEN Entered(before, s) ELSE tracks[u]
      BY <1>3, <1>6, <3>1, <3>2, ExceptSeq
    <3> QED BY <3>1, <3>3
  <2> QED BY <2>1, <2>2
<1>8. p \in Page /\ p.track_id = t
  BY <1>1, <1>4 DEF Page
<1>9. pages' = [pages EXCEPT ![s] = p]
  BY <1>2
<1> HIDE DEF p, before
<1>10. pages'[s] = p /\ p # Null /\ \A q \in Serial \ {s} : pages'[q] = pages[q]
  BY <1>8, <1>9, PageChanged
<1>11. next_page_id' = s + 1 /\ frees' = frees
  BY <1>1 DEF AllocPage, counters
<1> QED BY <1>1, <1>4, <1>5, <1>7, <1>8, <1>10, <1>11 DEF before

\* What a free does to the tracks: an entry of the page, or of one freed
\* before, goes; or the page had no entry.
LEMMA FreeTracks ==
  ASSUME TypeOK, EntriesKnown, NEW s \in Serial, FreePage(s)
  PROVE  /\ pages[s] # Null /\ pages'[s] = Null /\ \A q \in Serial \ {s} : pages'[q] = pages[q]
         /\ frees' = frees + 1 /\ next_page_id' = next_page_id
         /\ \/ tracks' = tracks /\ EntriesTo(tracks, {s}) = {}
            \/ \E t \in 1..Len(tracks) : \E h \in 1..Len(tracks[t]) :
                 /\ tracks' = [tracks EXCEPT ![t] = RemoveAt(tracks[t], h)]
                 /\ tracks[t][h] = s \/ pages[tracks[t][h]] = Null
<1>1. /\ pages[s] # Null /\ pages'[s] = Null /\ \A q \in Serial \ {s} : pages'[q] = pages[q]
      /\ frees' = frees + 1 /\ next_page_id' = next_page_id
  BY DEF FreePage, Pool, TypeOK
<1>2. tracks \in Seq(Seq(Serial)) /\ DOMAIN tracks = 1..Len(tracks)
  BY LenProperties DEF TypeOK
<1>3. \A e \in Entries(tracks) : tracks[e[1]][e[2]] = s => e[1] = pages[s].track_id
  BY <1>1 DEF EntriesKnown
<1>4. CASE pages[s].track_id \notin DOMAIN tracks
  <2>1. tracks' = tracks
    BY <1>4 DEF FreePage
  <2>2. EntriesTo(tracks, {s}) = {}
    BY <1>2, <1>3, <1>4, EntryShape DEF EntriesTo
  <2> QED BY <1>1, <2>1, <2>2
<1>5. CASE pages[s].track_id \in DOMAIN tracks
  <2> DEFINE t == pages[s].track_id
             track == tracks[t]
             own == {k \in DOMAIN track : track[k] = s}
             freed == {k \in DOMAIN track : pages[track[k]] = Null}
             hits == {k \in freed : \A j \in own : k < j} \cup (IF own = {} THEN {} ELSE {Min(own)})
  <2>1. t \in 1..Len(tracks) /\ track \in Seq(Serial)
    BY <1>2, <1>5, ElementOfSeq
  <2>2. DOMAIN track = 1..Len(track) /\ Len(track) \in Nat
    BY <2>1, LenProperties
  <2>3. PICK rest \in RemoveEntry(track, s) : tracks' = [tracks EXCEPT ![t] = rest]
    BY <1>5 DEF FreePage
  <2>4. \/ own = {} /\ rest = track
        \/ \E h \in hits : rest = RemoveAt(track, h)
    BY <2>3 DEF RemoveEntry
  <2>5. CASE own = {} /\ rest = track
    <3>1. tracks' = tracks
      BY <1>2, <2>1, <2>3, <2>5
    <3>2. ASSUME NEW e \in EntriesTo(tracks, {s}) PROVE FALSE
      <4>1. e \in Entries(tracks) /\ tracks[e[1]][e[2]] = s
        BY DEF EntriesTo
      <4>2. e[1] = t /\ e[2] \in 1..Len(tracks[e[1]])
        BY <1>2, <1>3, <4>1, EntryShape
      <4>3. e[2] \in own
        BY <2>2, <4>1, <4>2
      <4> QED BY <2>5, <4>3
    <3> QED BY <1>1, <3>1, <3>2
  <2>6. CASE \E h \in hits : rest = RemoveAt(track, h)
    <3>1. PICK h \in hits : rest = RemoveAt(track, h)
      BY <2>6
    <3>2. own # {} => Min(own) \in own
      <4>1. own \subseteq Nat
        BY <2>2
      <4> HIDE DEF own
      <4> QED BY <4>1, MinIndex
    <3>3. h \in own \/ h \in freed
      BY <3>1, <3>2
    <3>4. h \in 1..Len(track) /\ (track[h] = s \/ pages[track[h]] = Null)
      BY <2>2, <3>3
    <3> QED BY <1>1, <2>1, <2>3, <3>1, <3>4
  <2> QED BY <2>4, <2>5, <2>6
<1> QED BY <1>4, <1>5

\* Fewer entries are no more entries.
LEMMA FewerEntries ==
  ASSUME NEW sq \in Seq(Seq(Serial)), WithinTracks(sq), NEW S, NEW F, F \subseteq EntriesTo(sq, S)
  PROVE  Cardinality(F) <= Cardinality(EntriesTo(sq, S))
BY EntriesFinite, FS_Subset

\* Allocation enters a page that is new, in at most two places.
LEMMA AllocKeepsTracks ==
  ASSUME TypeOK, TypeOK', TracksInv, AllocPage
  PROVE  TracksInv'
<1>1. /\ WithinTracks(tracks) /\ EntriesKnown /\ EnteredTwice /\ OneDanglingPerFree
      /\ tracks \in Seq(Seq(Serial)) /\ next_page_id \in Nat /\ frees \in Nat
  BY FileAssumption DEF TracksInv, TypeOK
<1>2. PICK s \in Serial, t \in 1..(Len(tracks) + 1) :
        LET before == IF t > Len(tracks) THEN <<>> ELSE tracks[t] IN
        /\ s = next_page_id /\ next_page_id' = s + 1 /\ frees' = frees
        /\ pages'[s] # Null /\ pages'[s].track_id = t
        /\ \A q \in Serial \ {s} : pages'[q] = pages[q]
        /\ before \in Seq(Serial) /\ Len(before) <= PAGES_PER_TRACK
        /\ tracks' \in Seq(Seq(Serial)) /\ tracks'[t] = Entered(before, s)
        /\ 1..Len(tracks) \subseteq 1..Len(tracks') /\ t \in 1..Len(tracks')
        /\ \A u \in 1..Len(tracks') : u # t => u \in 1..Len(tracks) /\ tracks'[u] = tracks[u]
  BY <1>1, AllocTracks
<1> DEFINE before == IF t > Len(tracks) THEN <<>> ELSE tracks[t]
           n == Len(before)
           pair == {<<t, n + 1>>, <<t, n + 2>>}
<1>3. /\ before \in Seq(Serial) /\ n \in Nat /\ n <= PAGES_PER_TRACK
      /\ tracks'[t] = Entered(before, s)
  BY <1>2, LenProperties
<1>4. Len(tracks) \in Nat /\ t \in Nat
  BY <1>1, LenProperties
<1>5. n > 0 => t \in 1..Len(tracks) /\ before = tracks[t]
  <2>1. CASE t > Len(tracks)
    BY <2>1
  <2>2. CASE ~ (t > Len(tracks))
    BY <1>4, <2>2
  <2> QED BY <2>1, <2>2
<1> HIDE DEF before
<1>6. /\ Len(tracks'[t]) \in Nat /\ Len(tracks'[t]) <= PAGES_PER_TRACK
      /\ Len(tracks'[t]) <= n + 2
      /\ \A k \in 1..Len(tracks'[t]) : tracks'[t][k] = IF k <= n THEN before[k] ELSE s
  <2>1. Len(Entered(before, s)) \in Nat
    BY <1>3, EnteredType, LenProperties
  <2> QED BY <1>3, <2>1, EnteredPlaces
<1> HIDE DEF n
<1>7. WithinTracks(tracks)'
  <2>1. DOMAIN tracks' = 1..Len(tracks') /\ DOMAIN tracks = 1..Len(tracks)
    BY <1>1, <1>2, LenProperties
  <2> QED BY <1>1, <1>2, <1>6, <2>1 DEF WithinTracks
\* An entry is one from before, or one of the two of the new page.
<1>8. ASSUME NEW e \in Entries(tracks')
      PROVE  /\ e[1] \in 1..Len(tracks') /\ tracks'[e[1]][e[2]] \in Serial
             /\ \/ e \in Entries(tracks) /\ tracks'[e[1]][e[2]] = tracks[e[1]][e[2]]
                \/ e \in pair /\ e[1] = t /\ tracks'[e[1]][e[2]] = s
  <2>1. /\ e = <<e[1], e[2]>> /\ e[1] \in 1..Len(tracks') /\ e[2] \in 1..Len(tracks'[e[1]])
        /\ tracks'[e[1]][e[2]] \in Serial
    BY <1>2, EntryShape
  <2>2. CASE e[1] # t
    <3>1. e[1] \in 1..Len(tracks) /\ tracks'[e[1]] = tracks[e[1]]
      BY <1>2, <2>1, <2>2
    <3>2. <<e[1], e[2]>> \in Entries(tracks)
      BY <1>1, <2>1, <3>1, EntryPlace
    <3> QED BY <2>1, <3>1, <3>2
  <2>3. CASE e[1] = t
    <3>1. /\ e[2] \in 1..Len(tracks'[t]) /\ e[2] \in Nat
          /\ tracks'[t][e[2]] = IF e[2] <= n THEN before[e[2]] ELSE s
      BY <1>6, <2>1, <2>3
    <3>2. CASE e[2] <= n
      <4>1. n > 0 /\ e[2] \in 1..n
        BY <1>3, <3>1, <3>2
      <4>2. t \in 1..Len(tracks) /\ before = tracks[t] /\ e[2] \in 1..Len(tracks[t])
        BY <1>5, <4>1 DEF n
      <4>3. <<t, e[2]>> \in Entries(tracks)
        BY <1>1, <4>2, EntryPlace
      <4>4. e \in Entries(tracks)
        BY <2>1, <2>3, <4>3
      <4>5. tracks'[e[1]][e[2]] = tracks[e[1]][e[2]]
        BY <2>3, <3>1, <3>2, <4>2
      <4> QED BY <2>1, <4>4, <4>5
    <3>3. CASE ~ (e[2] <= n)
      <4>1. e[2] \in {n + 1, n + 2}
        BY <1>3, <1>6, <3>1, <3>3
      <4>2. <<e[1], e[2]>> \in pair
        BY <2>3, <4>1
      <4>3. tracks'[e[1]][e[2]] = s
        BY <2>3, <3>1, <3>3
      <4> QED BY <2>1, <2>3, <4>2, <4>3
    <3> QED BY <3>2, <3>3
  <2> QED BY <2>2, <2>3
<1> HIDE DEF pair
<1>9. \A e \in Entries(tracks) : tracks[e[1]][e[2]] \in Serial /\ tracks[e[1]][e[2]] # s
  <2>1. ASSUME NEW e \in Entries(tracks)
        PROVE  tracks[e[1]][e[2]] \in Serial /\ tracks[e[1]][e[2]] < next_page_id
    BY <1>1, EntryShape DEF EntriesKnown
  <2>2. s = next_page_id
    BY <1>2
  <2> QED BY <1>1, <2>1, <2>2
<1>10. EntriesKnown'
  <2>1. ASSUME NEW e \in Entries(tracks')
        PROVE  LET q == tracks'[e[1]][e[2]] IN
               q < next_page_id' /\ (pages'[q] # Null => pages'[q].track_id = e[1])
    <3>1. CASE e \in Entries(tracks) /\ tracks'[e[1]][e[2]] = tracks[e[1]][e[2]]
      <4> DEFINE q == tracks[e[1]][e[2]]
      <4>1. q < next_page_id /\ (pages[q] # Null => pages[q].track_id = e[1])
        BY <1>1, <3>1 DEF EntriesKnown
      <4>2. q \in Serial /\ q # s /\ pages'[q] = pages[q]
        BY <1>2, <1>9, <3>1
      <4>3. q \in Nat
        BY <4>2 DEF Serial
      <4>4. tracks'[e[1]][e[2]] = q
        BY <3>1
      <4> HIDE DEF q
      <4>5. q < next_page_id'
        BY <1>1, <1>2, <4>1, <4>3
      <4> QED BY <4>1, <4>2, <4>4, <4>5
    <3>2. CASE e \in pair /\ e[1] = t /\ tracks'[e[1]][e[2]] = s
      BY <1>1, <1>2, <3>2
    <3> QED BY <1>8, <3>1, <3>2
  <2> QED BY <2>1 DEF EntriesKnown
<1>11. EnteredTwice'
  <2>1. ASSUME NEW q \in Serial PROVE Cardinality(EntriesTo(tracks', {q})) <= 2
    <3>1. CASE q = s
      <4>1. EntriesTo(tracks', {q}) \subseteq pair
        BY <1>8, <1>9, <3>1 DEF EntriesTo
      <4>2. IsFiniteSet({<<t, n + 1>>}) /\ Cardinality({<<t, n + 1>>}) = 1
        BY FS_Singleton
      <4>3. IsFiniteSet(pair) /\ Cardinality(pair) <= 2
        <5>1. pair = {<<t, n + 1>>} \cup {<<t, n + 2>>}
          BY DEF pair
        <5>2. /\ IsFiniteSet({<<t, n + 1>>} \cup {<<t, n + 2>>})
              /\ Cardinality({<<t, n + 1>>} \cup {<<t, n + 2>>}) =
                   IF <<t, n + 2>> \in {<<t, n + 1>>} THEN Cardinality({<<t, n + 1>>})
                   ELSE Cardinality({<<t, n + 1>>}) + 1
          BY <4>2, FS_AddElement
        <5> QED BY <4>2, <5>1, <5>2
      <4>4. /\ IsFiniteSet(EntriesTo(tracks', {q}))
            /\ Cardinality(EntriesTo(tracks', {q})) <= Cardinality(pair)
        BY <4>1, <4>3, FS_Subset
      <4>5. Cardinality(EntriesTo(tracks', {q})) \in Nat /\ Cardinality(pair) \in Nat
        BY <4>3, <4>4, FS_CardinalityType
      <4> QED BY <4>3, <4>4, <4>5
    <3>2. CASE q # s
      <4>1. EntriesTo(tracks', {q}) \subseteq EntriesTo(tracks, {q})
        BY <1>8, <3>2 DEF EntriesTo
      <4>2. /\ Cardinality(EntriesTo(tracks', {q})) <= Cardinality(EntriesTo(tracks, {q}))
            /\ Cardinality(EntriesTo(tracks, {q})) <= 2
        BY <1>1, <4>1, FewerEntries DEF EnteredTwice
      <4>3. /\ Cardinality(EntriesTo(tracks', {q})) \in Nat
            /\ Cardinality(EntriesTo(tracks, {q})) \in Nat
        BY <1>1, <1>2, <1>7, EntriesFinite
      <4> QED BY <4>2, <4>3
    <3> QED BY <3>1, <3>2
  <2> QED BY <2>1 DEF EnteredTwice
<1>12. OneDanglingPerFree'
  <2> DEFINE D == EntriesTo(tracks, Serial \ Pool)
             E == EntriesTo(tracks', Serial \ Pool')
  <2>1. E \subseteq D
    <3>1. s \in Pool' /\ \A q \in Serial \ {s} : q \in Pool' <=> q \in Pool
      BY <1>2 DEF Pool
    <3> QED BY <1>8, <1>9, <3>1 DEF EntriesTo
  <2>2. Cardinality(E) <= Cardinality(D) /\ Cardinality(D) <= frees
    BY <1>1, <2>1, FewerEntries DEF OneDanglingPerFree
  <2>3. Cardinality(E) \in Nat /\ Cardinality(D) \in Nat
    BY <1>1, <1>2, <1>7, EntriesFinite
  <2> HIDE DEF D, E
  <2>4. Cardinality(E) <= frees'
    BY <1>1, <1>2, <2>2, <2>3
  <2> QED BY <2>4 DEF OneDanglingPerFree, E
<1> QED BY <1>7, <1>10, <1>11, <1>12 DEF TracksInv

\* A free takes out an entry of the page, or one that pointed to freed memory:
\* of the page's two entries, one is left.
LEMMA FreeKeepsTracks ==
  ASSUME TypeOK, TypeOK', TracksInv, NEW s \in Serial, FreePage(s)
  PROVE  TracksInv'
<1>1. /\ WithinTracks(tracks) /\ EntriesKnown /\ EnteredTwice /\ OneDanglingPerFree
      /\ tracks \in Seq(Seq(Serial)) /\ tracks' \in Seq(Seq(Serial))
      /\ next_page_id \in Nat /\ frees \in Nat
  BY FileAssumption DEF TracksInv, TypeOK
<1>2. /\ pages[s] # Null /\ pages'[s] = Null /\ \A q \in Serial \ {s} : pages'[q] = pages[q]
      /\ frees' = frees + 1 /\ next_page_id' = next_page_id
  BY <1>1, FreeTracks
<1>3. \A q \in Serial : pages'[q] # Null => pages'[q] = pages[q]
  BY <1>2
<1> DEFINE free == Serial \ Pool
           free2 == Serial \ Pool'
           D == EntriesTo(tracks, free)
           E == EntriesTo(tracks, {s})
<1>4. free2 = free \cup {s}
  BY <1>2 DEF Pool
<1>5. EntriesTo(tracks, free2) = D \cup E
  BY <1>4 DEF EntriesTo
<1>6. /\ IsFiniteSet(D) /\ IsFiniteSet(E) /\ Cardinality(D) \in Nat /\ Cardinality(E) \in Nat
      /\ Cardinality(D) <= frees /\ Cardinality(E) <= 2
  BY <1>1, EntriesFinite DEF OneDanglingPerFree, EnteredTwice
<1>7. CASE tracks' = tracks /\ EntriesTo(tracks, {s}) = {}
  <2>1. EntriesKnown'
    <3>1. ASSUME NEW e \in Entries(tracks)
          PROVE  LET q == tracks[e[1]][e[2]] IN
                 q < next_page_id' /\ (pages'[q] # Null => pages'[q].track_id = e[1])
      <4>1. tracks[e[1]][e[2]] \in Serial
        BY <1>1, EntryShape
      <4> QED BY <1>1, <1>2, <1>3, <4>1 DEF EntriesKnown
    <3> QED BY <1>7, <3>1 DEF EntriesKnown
  <2>2. EntriesTo(tracks', free2) = D
    BY <1>5, <1>7
  <2> HIDE DEF D
  <2>3. Cardinality(D) <= frees'
    BY <1>1, <1>2, <1>6
  <2>4. OneDanglingPerFree'
    BY <2>2, <2>3 DEF OneDanglingPerFree
  <2> QED BY <1>1, <1>7, <2>1, <2>4 DEF TracksInv, EnteredTwice
<1>8. ASSUME NEW t \in 1..Len(tracks), NEW h \in 1..Len(tracks[t]),
             tracks' = [tracks EXCEPT ![t] = RemoveAt(tracks[t], h)],
             tracks[t][h] = s \/ pages[tracks[t][h]] = Null
      PROVE  TracksInv'
  <2>1. /\ WithinTracks(tracks')
        /\ FoundIn(tracks, tracks')
        /\ \A S : Cardinality(EntriesTo(tracks', S))
                    <= Cardinality(EntriesTo(tracks, S) \ {<<t, h>>})
    <3>1. ASSUME NEW S
          PROVE  /\ WithinTracks(tracks') /\ FoundIn(tracks, tracks')
                 /\ Cardinality(EntriesTo(tracks', S))
                      <= Cardinality(EntriesTo(tracks, S) \ {<<t, h>>})
      BY <1>1, <1>8, EntriesLeft
    <3> QED BY <3>1
  <2>2. EntriesKnown'
    <3>1. ASSUME NEW e \in Entries(tracks')
          PROVE  LET q == tracks'[e[1]][e[2]] IN
                 q < next_page_id' /\ (pages'[q] # Null => pages'[q].track_id = e[1])
      <4>1. PICK o \in Entries(tracks) : o[1] = e[1] /\ tracks'[e[1]][e[2]] = tracks[o[1]][o[2]]
        BY <2>1 DEF FoundIn
      <4> DEFINE q == tracks[o[1]][o[2]]
      <4>2. q \in Serial
        BY <1>1, EntryShape
      <4>3. q < next_page_id /\ (pages[q] # Null => pages[q].track_id = e[1])
        BY <1>1, <4>1 DEF EntriesKnown
      <4>4. tracks'[e[1]][e[2]] = q
        BY <4>1
      <4> HIDE DEF q
      <4> QED BY <1>2, <1>3, <4>2, <4>3, <4>4
    <3> QED BY <3>1 DEF EntriesKnown
  <2>3. EnteredTwice'
    <3>1. ASSUME NEW q \in Serial PROVE Cardinality(EntriesTo(tracks', {q})) <= 2
      <4> DEFINE F == EntriesTo(tracks, {q})
      <4>1. IsFiniteSet(F) /\ Cardinality(F) \in Nat /\ Cardinality(F) <= 2
        BY <1>1, EntriesFinite DEF EnteredTwice
      <4>2. Cardinality(EntriesTo(tracks', {q})) <= Cardinality(F \ {<<t, h>>})
        BY <2>1
      <4>3. Cardinality(EntriesTo(tracks', {q})) \in Nat
        BY <1>1, <2>1, EntriesFinite
      <4> HIDE DEF F
      <4>4. Cardinality(F \ {<<t, h>>}) =
              IF <<t, h>> \in F THEN Cardinality(F) - 1 ELSE Cardinality(F)
        BY <4>1, FS_RemoveElement
      <4> QED BY <4>1, <4>2, <4>3, <4>4
    <3> QED BY <3>1 DEF EnteredTwice
  <2>4. OneDanglingPerFree'
    <3> DEFINE F == EntriesTo(tracks, free2)
    <3>1. <<t, h>> \in F
      <4>1. <<t, h>> \in Entries(tracks)
        BY <1>1, EntryPlace
      <4>2. tracks[t][h] \in Serial
        BY <1>1, <4>1, ElementOfSeq
      <4>3. tracks[t][h] \in free2
        BY <1>4, <1>8, <4>2 DEF Pool
      <4> HIDE DEF free2
      <4> QED BY <4>1, <4>3 DEF EntriesTo
    <3>2. F = D \cup E
      BY <1>5
    <3>3. Cardinality(EntriesTo(tracks', free2)) <= Cardinality(F \ {<<t, h>>})
      BY <2>1
    <3>4. Cardinality(EntriesTo(tracks', free2)) \in Nat
      BY <1>1, <2>1, EntriesFinite
    <3> HIDE DEF D, E, F, free2
    <3>5. /\ IsFiniteSet(F) /\ IsFiniteSet(D \cap E)
          /\ Cardinality(F) = Cardinality(D) + Cardinality(E) - Cardinality(D \cap E)
      <4>1. IsFiniteSet(D \cap E)
        BY <1>6, FS_Subset
      <4> QED BY <1>6, <3>2, <4>1, FS_Union
    <3>6. Cardinality(D \cap E) \in Nat /\ Cardinality(F) \in Nat
      BY <3>5, FS_CardinalityType
    <3>7. Cardinality(F \ {<<t, h>>}) = Cardinality(F) - 1
      BY <3>1, <3>5, FS_RemoveElement
    <3>8. Cardinality(EntriesTo(tracks', free2)) <= frees'
      BY <1>1, <1>2, <1>6, <3>3, <3>4, <3>5, <3>6, <3>7
    <3> QED BY <3>8 DEF OneDanglingPerFree, free2
  <2> QED BY <2>1, <2>2, <2>3, <2>4 DEF TracksInv
<1> QED BY <1>1, <1>7, <1>8, FreeTracks

\* No tracks, no entries.
LEMMA NoTracks ==
  ASSUME NEW sq, sq = <<>>
  PROVE  Entries(sq) = {} /\ WithinTracks(sq) /\ \A S : EntriesTo(sq, S) = {}
<1>1. DOMAIN sq = {}
  BY DEF Entries
<1>2. Entries(sq) = {}
  BY <1>1 DEF Entries
<1> QED BY <1>1, <1>2 DEF WithinTracks, EntriesTo

LEMMA NoTracksKept ==
  ASSUME TypeOK', tracks' = <<>>
  PROVE  TracksInv'
<1>1. Entries(tracks') = {} /\ WithinTracks(tracks') /\ \A S : EntriesTo(tracks', S) = {}
  BY NoTracks
<1>2. frees' \in Nat /\ Cardinality({}) = 0
  BY FileAssumption, FS_EmptySet DEF TypeOK
<1>3. EntriesKnown'
  BY <1>1 DEF EntriesKnown
<1>4. EnteredTwice'
  <2>1. \A s \in Serial : EntriesTo(tracks', {s}) = {}
    BY <1>1
  <2>2. \A s \in Serial : Cardinality(EntriesTo(tracks', {s})) = 0
    BY <1>2, <2>1
  <2> QED BY <2>2 DEF EnteredTwice
<1>5. OneDanglingPerFree'
  <2>1. EntriesTo(tracks', Serial \ Pool') = {}
    BY <1>1
  <2>2. Cardinality(EntriesTo(tracks', Serial \ Pool')) = 0
    BY <1>2, <2>1
  <2> QED BY <1>2, <2>2 DEF OneDanglingPerFree
<1> QED BY <1>1, <1>3, <1>4, <1>5 DEF TracksInv

\* A step that leaves the tracks alone, and each page in the pool or out of it
\* and in its track.
LEMMA SameTracksKept ==
  ASSUME TypeOK, TracksInv, UNCHANGED <<tracks, next_page_id, frees>>,
         \A q \in Serial : /\ pages'[q] = Null <=> pages[q] = Null
                           /\ pages'[q] # Null => pages'[q].track_id = pages[q].track_id
  PROVE  TracksInv'
<1>1. Pool' = Pool
  BY DEF Pool
<1>2. \A e \in Entries(tracks) : tracks[e[1]][e[2]] \in Serial
  BY EntryShape DEF TypeOK
<1>3. EntriesKnown'
  BY <1>2 DEF TracksInv, EntriesKnown
<1> QED BY <1>1, <1>3 DEF TracksInv, EnteredTwice, OneDanglingPerFree

\* One page put in the place of one of the same track.
LEMMA SameTrackKept ==
  ASSUME TypeOK, TracksInv, UNCHANGED <<tracks, next_page_id, frees>>,
         NEW s \in Serial, pages[s] # Null, NEW p \in Page, p.track_id = pages[s].track_id,
         pages' = [pages EXCEPT ![s] = p]
  PROVE  TracksInv'
<1>1. pages'[s] = p /\ p # Null /\ \A q \in Serial \ {s} : pages'[q] = pages[q]
  BY PageChanged
<1>2. \A q \in Serial : /\ pages'[q] = Null <=> pages[q] = Null
                        /\ pages'[q] # Null => pages'[q].track_id = pages[q].track_id
  BY <1>1
<1> QED BY <1>2, SameTracksKept

\* Every step keeps the invariant of the tracks.
LEMMA TracksKept ==
  ASSUME TypeOK, TypeOK', DownIsEmpty, TracksInv, Next
  PROVE  TracksInv'
<1>1. CASE AllocPage
  BY <1>1, AllocKeepsTracks
<1>2. ASSUME NEW s \in Serial, FreePage(s) PROVE TracksInv'
  BY <1>2, FreeKeepsTracks
<1>3. ASSUME NEW s \in Serial, AddObject(s) PROVE TracksInv'
  <2> DEFINE p == [pages[s] EXCEPT !.objects = @ \cup {inserted + 1}, !.dirty = TRUE]
  <2>1. /\ pages[s] # Null /\ pages[s] \in Page /\ pages' = [pages EXCEPT ![s] = p]
        /\ UNCHANGED <<tracks, next_page_id, frees>>
    BY <1>3, PageFields DEF AddObject, Pool
  <2>2. inserted + 1 \in Object
    BY <1>3, FileAssumption DEF AddObject, TypeOK, Object
  <2>3. p \in Page /\ p.track_id = pages[s].track_id
    BY <2>1, <2>2 DEF Page
  <2> HIDE DEF p
  <2> QED BY <2>1, <2>3, SameTrackKept
<1>4. ASSUME NEW s \in Serial, WritePage(s) PROVE TracksInv'
  <2> DEFINE p == [pages[s] EXCEPT !.dirty = TRUE]
  <2>1. /\ pages[s] # Null /\ pages[s] \in Page /\ pages' = [pages EXCEPT ![s] = p]
        /\ UNCHANGED <<tracks, next_page_id, frees>>
    BY <1>4, PageFields DEF WritePage, Pool
  <2>2. p \in Page /\ p.track_id = pages[s].track_id
    BY <2>1 DEF Page
  <2> HIDE DEF p
  <2> QED BY <2>1, <2>2, SameTrackKept
<1>5. CASE Flush
  <2> DEFINE dirty == {s \in Pool : pages[s].dirty}
  <2>1. /\ pages' = [s \in Serial |->
             IF s \in dirty THEN [pages[s] EXCEPT !.dirty = FALSE] ELSE pages[s]]
        /\ UNCHANGED <<tracks, next_page_id, frees>>
    BY <1>5 DEF Flush, counters
  <2>2. ASSUME NEW q \in Serial
        PROVE  /\ pages'[q] = Null <=> pages[q] = Null
               /\ pages'[q] # Null => pages'[q].track_id = pages[q].track_id
    <3>1. CASE q \in dirty
      <4>1. pages[q] \in Page /\ pages'[q] = [pages[q] EXCEPT !.dirty = FALSE]
        BY <2>1, <3>1, PageFields DEF Pool
      <4>2. /\ [pages[q] EXCEPT !.dirty = FALSE] \in Page
            /\ [pages[q] EXCEPT !.dirty = FALSE].track_id = pages[q].track_id
        BY <4>1 DEF Page
      <4> QED BY <4>1, <4>2, NullAssumption
    <3>2. CASE q \notin dirty
      BY <2>1, <3>2
    <3> QED BY <3>1, <3>2
  <2> QED BY <2>1, <2>2, SameTracksKept
<1>6. CASE SyncPage
  <2>1. PICK s \in DirtyPages : s = Min(DirtyPages)
    <3>1. DirtyPages \subseteq Nat /\ DirtyPages # {}
      BY <1>6, FileAssumption DEF SyncPage, DirtyPages, Pool, Serial
    <3> QED BY <3>1, MinIndex
  <2> DEFINE p == [pages[s] EXCEPT !.dirty = FALSE]
  <2>2. s \in Serial /\ pages[s] # Null /\ pages[s] \in Page
    BY <2>1, PageFields DEF DirtyPages, Pool
  <2>3. pages' = [pages EXCEPT ![s] = p] /\ UNCHANGED <<tracks, next_page_id, frees>>
    BY <1>6, <2>1 DEF SyncPage
  <2>4. p \in Page /\ p.track_id = pages[s].track_id
    BY <2>2 DEF Page
  <2> HIDE DEF p
  <2> QED BY <2>2, <2>3, <2>4, SameTrackKept
<1>7. CASE SyncHeader
  <2>1. CASE syncing.leave
    BY <1>7, <2>1, NoTracksKept DEF SyncHeader, EndSync, Gone
  <2>2. CASE ~ syncing.leave
    <3>1. UNCHANGED <<pages, tracks, next_page_id, frees>>
      BY <1>7, <2>2 DEF SyncHeader, EndSync, manager
    <3> QED BY <3>1, SameTracksKept
  <2> QED BY <2>1, <2>2
<1>8. CASE Crash
  BY <1>8, NoTracksKept DEF Crash, Gone
<1>9. CASE Open
  <2>1. tracks' = <<>>
    BY <1>9 DEF Open, DownIsEmpty
  <2> QED BY <2>1, NoTracksKept
<1>10. ASSUME NEW leave \in BOOLEAN, SyncBegin(leave) PROVE TracksInv'
  <2>1. UNCHANGED <<pages, tracks, next_page_id, frees>>
    BY <1>10 DEF SyncBegin, manager, counters
  <2> QED BY <2>1, SameTracksKept
<1> QED
  BY <1>1, <1>2, <1>3, <1>4, <1>5, <1>6, <1>7, <1>8, <1>9, <1>10 DEF Next

-----------------------------------------------------------------------------
\* Initial state, step, and the theorems.

\* A new file answers for nothing.
LEMMA InitFile == Init => FileInv
<1> SUFFICES ASSUME Init PROVE FileInv
  OBVIOUS
<1>1. TypeOK
  <2>1. <<>> \in Seq(Seq(Serial)) /\ NoPages \in [Serial -> Page \cup {Null}]
    BY DEF NoPages
  <2>2. Idle \in [pc : {"idle", "pages"}, leave : BOOLEAN]
    BY DEF Idle
  <2>3. /\ 1 \in 1..(MaxPages + 1) /\ 0 \in 0..MaxPages /\ 0 \in 0..MaxObjects
        /\ 0 \in 0..MaxFaults /\ 0 \in 0..MaxFrees /\ 0 \in 0..MaxRestarts
    BY FileAssumption
  <2>4. up \in BOOLEAN
    BY DEF Init
  <2> QED BY <2>1, <2>2, <2>3, <2>4, Zenon DEF Init, TypeOK
<1>2. \A s \in Serial : pages[s] = Null /\ images[s] = Null
  BY DEF Init, NoPages
<1>3. \A s \in Serial : 1 <= s /\ ~ (s <= 0)
  BY FileAssumption DEF Serial
<1>4. tree \subseteq Pool /\ DownIsEmpty
  BY DEF Init, DownIsEmpty
<1>5. PoolNumbered
  BY <1>2, <1>3 DEF Init, PoolNumbered, Serial
<1>6. OneSlot /\ CleanIsWritten /\ PagesKeepDurable
  BY <1>2 DEF Init, OneSlot, CleanIsWritten, PagesKeepDurable, In, At
<1>7. SyncedObjectsSurvive /\ HolesWereBlank
  BY DEF Init, SyncedObjectsSurvive, HolesWereBlank
<1> QED BY <1>1, <1>4, <1>5, <1>6, <1>7 DEF FileInv

\* Every step keeps the invariant.
LEMMA NextFile == FileInv /\ [Next]_vars => FileInv'
<1>1. ASSUME FileInv, Next PROVE FileInv'
  <2>1. /\ TypeOK /\ tree \subseteq Pool /\ DownIsEmpty /\ PoolNumbered /\ OneSlot
        /\ CleanIsWritten /\ PagesKeepDurable /\ SyncedObjectsSurvive /\ HolesWereBlank /\ Next
    BY <1>1 DEF FileInv
  <2>2. TypeOK' /\ (tree \subseteq Pool)' /\ DownIsEmpty'
    BY <2>1, TypeKept, TreeKept, DownIsEmptyKept
  <2>3. PoolNumbered' /\ OneSlot' /\ CleanIsWritten'
    BY <2>1, PoolNumberedKept, OneSlotKept, CleanIsWrittenKept
  <2>4. PagesKeepDurable' /\ SyncedObjectsSurvive' /\ HolesWereBlank'
    BY <2>1, <2>2, PagesKeepDurableKept, SyncedObjectsSurviveKept, HolesWereBlankKept
  <2> QED BY <2>2, <2>3, <2>4 DEF FileInv
<1>2. ASSUME FileInv, UNCHANGED vars PROVE FileInv'
  BY <1>2 DEF FileInv, vars, manager, file, counters, ghosts, TypeOK, Pool, DownIsEmpty,
     PoolNumbered,
              OneSlot, CleanIsWritten, PagesKeepDurable, SyncedObjectsSurvive, HolesWereBlank,
              OnFile, In, At
<1> QED BY <1>1, <1>2

-----------------------------------------------------------------------------
(***************************************************************************)
(* The inductive invariant holds, of disk_manager.c with crashes, faults and *)
(* frees between any two of its writes.                                    *)
(***************************************************************************)
THEOREM FileInvHolds == Spec => []FileInv
<1> QED BY InitFile, NextFile, PTL DEF Spec

(***************************************************************************)
(* Whatever follows a disk_manager_sync that returned (changes, later syncs *)
(* that stop half-way, crashes), the next disk_manager_open finds every object *)
(* it covered, but for the three exceptions the property names.            *)
(***************************************************************************)
THEOREM SyncedObjectsSurviveHolds == Spec => []SyncedObjectsSurvive
<1>1. FileInv => SyncedObjectsSurvive
  BY DEF FileInv
<1> QED BY <1>1, FileInvHolds, PTL

(***************************************************************************)
(* A slot the header counts but nobody wrote, which open reads as a page   *)
(* with identifier 0, stands for a page that had nothing to be found.      *)
(***************************************************************************)
THEOREM HolesWereBlankHolds == Spec => []HolesWereBlank
<1>1. FileInv => HolesWereBlank
  BY DEF FileInv
<1> QED BY <1>1, FileInvHolds, PTL

(***************************************************************************)
(* After any sequence of allocations, frees, closes and opens the allocation *)
(* tree of disk_manager.c points at pages of the pool only.                *)
(***************************************************************************)
THEOREM AllocationTreeInPoolHolds == Spec => []AllocationTreeInPool
<1>1. FileInv => AllocationTreeInPool
  BY DEF FileInv, AllocationTreeInPool
<1> QED BY <1>1, FileInvHolds, PTL

(***************************************************************************)
(* The inductive invariant of the tracks holds, of page_pool_alloc,        *)
(* track_remove_page and the steps that leave the tracks alone.            *)
(***************************************************************************)
THEOREM TracksInvHolds == Spec => []TracksInv
<1>1. Init => TracksInv
  <2> SUFFICES ASSUME Init PROVE TracksInv
    OBVIOUS
  <2>1. Entries(tracks) = {} /\ WithinTracks(tracks) /\ \A S : EntriesTo(tracks, S) = {}
    BY NoTracks DEF Init
  <2>2. \A s \in Serial : Cardinality(EntriesTo(tracks, {s})) = 0
    <3>1. \A s \in Serial : EntriesTo(tracks, {s}) = {}
      BY <2>1
    <3> QED BY <3>1, FS_EmptySet
  <2>3. Cardinality(EntriesTo(tracks, Serial \ Pool)) = 0
    <3>1. EntriesTo(tracks, Serial \ Pool) = {}
      BY <2>1
    <3> QED BY <3>1, FS_EmptySet
  <2>4. frees = 0
    BY DEF Init
  <2> QED BY <2>1, <2>2, <2>3, <2>4 DEF TracksInv, EntriesKnown, EnteredTwice, OneDanglingPerFree
<1>2. FileInv /\ FileInv' /\ TracksInv /\ [Next]_vars => TracksInv'
  <2>1. ASSUME FileInv, FileInv', TracksInv, Next PROVE TracksInv'
    BY <2>1, TracksKept DEF FileInv
  <2>2. ASSUME TracksInv, UNCHANGED vars PROVE TracksInv'
    BY <2>2 DEF vars, manager, counters, TracksInv, EntriesKnown, EnteredTwice,
                OneDanglingPerFree, Pool
  <2> QED BY <2>1, <2>2
<1> QED BY <1>1, <1>2, FileInvHolds, PTL DEF Spec

(***************************************************************************)
(* However pages are allocated, freed, closed and opened again, the tracks *)
(* of page.c never have more pointers to freed pages than pages were freed: *)
(* disk_manager_free_page leaves one of the two a page has, at most.       *)
(***************************************************************************)
THEOREM OneDanglingPerFreeHolds == Spec => []OneDanglingPerFree
<1>1. TracksInv => OneDanglingPerFree
  BY DEF TracksInv
<1> QED BY <1>1, TracksInvHolds, PTL
=============================================================================
