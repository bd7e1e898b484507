------------------------------ MODULE PageCache ------------------------------
(***************************************************************************)
(* The page cache of src/src/page.c: a list of references in order of use, *)
(* with a hash table into it.  One pointer field, next, serves both the    *)
(* list and the chains of the table: a chain read from a table entry goes  *)
(* on along the list.                                                      *)
(*                                                                         *)
(* The references are modelled pointer by pointer.  page_cache_evict is a  *)
(* loop that may not end, so its iterations are steps; every other call is *)
(* one step.  Access counts and time stamps are left out (nothing reads    *)
(* them but the hit rate).                                                 *)
(***************************************************************************)
EXTENDS Integers, Sequences, FiniteSets, FiniteSetsExt

CONSTANTS
  PageIds,   \* the pages the pool holds at the start
  capacity,  \* cache->capacity
  MaxCount,  \* bound: references one call of page_cache_evict asks to drop
  Nil        \* NULL

ASSUME CacheAssumption ==
  /\ PageIds \subseteq Nat \ {0}
  /\ capacity \in Nat \ {0} /\ MaxCount \in Nat
  /\ Nil \notin Nat

\* One more than the capacity, so that exceeding it would show.
Ref == 1..(capacity + 1)

hash_size == 2 * capacity
page_hash(p) == p % hash_size

VARIABLES
  refs,        \* the allocated PageRefs, by address; Nil where none is
  head, tail,  \* most and least recently used
  hash_table,
  count,
  pool,        \* the pages of the pool
  pinned,      \* those with PAGE_STATUS_PINNED
  call,        \* the call in page_cache_evict's loop, if any
  result       \* what page_cache_get last returned: a page, or Nil

vars == <<refs, head, tail, hash_table, count, pool, pinned, call, result>>

PageRef == [page_id : PageIds, next : Ref \cup {Nil}, prev : Ref \cup {Nil}]

ASSUME NilAssumption == Nil \notin PageRef

NoCall == [op |-> "none", page |-> Nil, left |-> 0]
Call == [op : {"none", "get", "evict"}, page : PageIds \cup {Nil}, left : 0..MaxCount \cup {1}]

TypeOK ==
  /\ refs \in [Ref -> PageRef \cup {Nil}]
  /\ head \in Ref \cup {Nil} /\ tail \in Ref \cup {Nil}
  /\ hash_table \in [0..(hash_size - 1) -> Ref \cup {Nil}]
  /\ count \in Nat
  /\ pool \subseteq PageIds /\ pinned \subseteq pool
  /\ call \in Call
  /\ result \in PageIds \cup {Nil}

Init ==
  /\ refs = [r \in Ref |-> Nil] /\ head = Nil /\ tail = Nil
  /\ hash_table = [i \in 0..(hash_size - 1) |-> Nil] /\ count = 0
  /\ pool = PageIds /\ pinned = {} /\ call = NoCall /\ result = Nil

-----------------------------------------------------------------------------
\* Pointers.

SetNext(rs, r, v) == IF r = Nil THEN rs ELSE [rs EXCEPT ![r].next = v]
SetPrev(rs, r, v) == IF r = Nil THEN rs ELSE [rs EXCEPT ![r].prev = v]

\* r taken out of the list; r itself keeps its pointers.
Unlink(rs, r) == SetPrev(SetNext(rs, rs[r].prev, rs[r].next), rs[r].next, rs[r].prev)

\* r put in front of the head.
PushFront(rs, r) == SetPrev(SetPrev(SetNext(rs, r, head), r, Nil), head, r)

\* The references met on the way from r, by number of steps.
Walk(r) ==
  LET w[n \in 0..Cardinality(Ref)] ==
        IF n = 0 THEN r ELSE IF w[n - 1] = Nil THEN Nil ELSE refs[w[n - 1]].next
  IN w

\* The lookup loop of page_cache_get.
Lookup(p) ==
  LET w == Walk(hash_table[page_hash(p)])
      found == {n \in DOMAIN w : w[n] # Nil /\ refs[w[n]].page_id = p}
  IN IF found = {} THEN Nil ELSE w[Min(found)]

-----------------------------------------------------------------------------
\* page_cache_get.

page_pool_get(p) == IF p \in pool THEN p ELSE Nil

\* Mutant: a hit leaves the order alone.
GetHit_Fifo(p) ==
  /\ call = NoCall /\ Lookup(p) # Nil
  /\ result' = page_pool_get(p)
  /\ UNCHANGED <<refs, head, tail, hash_table, count, pool, pinned, call>>

\* Mutant: the tail that moves to the front stays the tail.
GetHit_KeepsTail(p) ==
  LET r == Lookup(p)
  IN /\ call = NoCall /\ r # Nil
     /\ IF r = head THEN UNCHANGED <<refs, head>>
        ELSE refs' = PushFront(Unlink(refs, r), r) /\ head' = r
     /\ result' = page_pool_get(p)
     /\ UNCHANGED <<tail, hash_table, count, pool, pinned, call>>

\* A hit moves the reference to the front.
GetHit(p) ==
  LET r == Lookup(p)
  IN /\ call = NoCall /\ r # Nil
     /\ IF r = head THEN UNCHANGED <<refs, head, tail>>
        ELSE /\ refs' = PushFront(Unlink(refs, r), r)
             /\ head' = r
             /\ tail' = IF r = tail THEN refs[r].prev ELSE tail
     /\ result' = page_pool_get(p)
     /\ UNCHANGED <<hash_table, count, pool, pinned, call>>

\* The end of a miss: a new reference, in the table and at the head.
AddRef(p) ==
  LET r == Min({q \in Ref : refs[q] = Nil})
  IN /\ refs' = PushFront([refs EXCEPT ![r] = [page_id |-> p, next |-> Nil, prev |-> Nil]], r)
     /\ head' = r
     /\ tail' = IF tail = Nil THEN r ELSE tail
     /\ hash_table' = [hash_table EXCEPT ![page_hash(p)] = r]
     /\ count' = count + 1
     /\ result' = p
     /\ UNCHANGED <<pool, pinned>>

\* A page that is neither cached nor in the pool.
GetNull(p) ==
  /\ call = NoCall /\ Lookup(p) = Nil /\ p \notin pool
  /\ result' = Nil
  /\ UNCHANGED <<refs, head, tail, hash_table, count, pool, pinned, call>>

\* A miss evicts first when the cache is at capacity.
GetMiss(p) ==
  /\ call = NoCall /\ Lookup(p) = Nil /\ p \in pool
  /\ IF count >= capacity
     THEN /\ call' = [op |-> "get", page |-> p, left |-> 1]
          /\ UNCHANGED <<refs, head, tail, hash_table, count, pool, pinned, result>>
     ELSE AddRef(p) /\ UNCHANGED call

-----------------------------------------------------------------------------
\* page_cache_evict.

Evict(n) ==
  /\ call = NoCall
  /\ call' = [op |-> "evict", page |-> Nil, left |-> n]
  /\ UNCHANGED <<refs, head, tail, hash_table, count, pool, pinned, result>>

Looping == call # NoCall /\ call.left > 0 /\ tail # Nil

\* Mutant: a reference to a page that is gone is skipped too.
Skipped_OrGone(r) == refs[r].page_id \in pinned \/ refs[r].page_id \notin pool

Skipped(r) == refs[r].page_id \in pinned

\* The next iteration starts from the tail again.
EvictSkip == Looping /\ Skipped(tail) /\ UNCHANGED vars

\* Mutant: the tail is left in the table.
TableWithout_Keeps(r) == hash_table

\* Past the first entry of its chain, r is gone once it is out of the list.
TableWithout(r) ==
  LET i == page_hash(refs[r].page_id)
  IN IF hash_table[i] = r THEN [hash_table EXCEPT ![i] = refs[r].next] ELSE hash_table

EvictTail ==
  /\ Looping /\ ~ Skipped(tail)
  /\ refs' = [Unlink(refs, tail) EXCEPT ![tail] = Nil]
  /\ head' = IF tail = head THEN refs[tail].next ELSE head
  /\ tail' = refs[tail].prev
  /\ hash_table' = TableWithout(tail)
  /\ count' = count - 1
  /\ call' = [call EXCEPT !.left = @ - 1]
  /\ UNCHANGED <<pool, pinned, result>>

\* The loop ends; a get goes on to add its page.
EvictReturn ==
  /\ call # NoCall /\ ~ Looping
  /\ call' = NoCall
  /\ IF call.op = "get" THEN AddRef(call.page)
     ELSE UNCHANGED <<refs, head, tail, hash_table, count, pool, pinned, result>>

-----------------------------------------------------------------------------
\* Pins, and pages that leave the pool.

Pin(p) ==
  /\ call = NoCall /\ p \in pool
  /\ pinned' = pinned \cup {p}
  /\ UNCHANGED <<refs, head, tail, hash_table, count, pool, call, result>>

Unpin(p) ==
  /\ call = NoCall /\ p \in pool
  /\ pinned' = pinned \ {p}
  /\ UNCHANGED <<refs, head, tail, hash_table, count, pool, call, result>>

\* page_pool_free_page: the cache is not told.
FreePage(p) ==
  /\ call = NoCall /\ p \in pool
  /\ pool' = pool \ {p} /\ pinned' = pinned \ {p}
  /\ UNCHANGED <<refs, head, tail, hash_table, count, call, result>>

EvictLoop == EvictSkip \/ EvictTail \/ EvictReturn

Next ==
  \/ \E p \in PageIds : GetHit(p) \/ GetMiss(p) \/ GetNull(p) \/ Pin(p) \/ Unpin(p) \/ FreePage(p)
  \/ \E n \in 1..MaxCount : Evict(n)
  \/ EvictLoop

\* The library is sequential: a call in its loop keeps the processor.
Spec == Init /\ [][Next]_vars /\ WF_vars(EvictLoop)

-----------------------------------------------------------------------------
\* Properties.

OnList == LET w == Walk(head) IN {w[n] : n \in DOMAIN w} \ {Nil}

(***************************************************************************)
(* The list survives every move, insertion and eviction: from head it      *)
(* reaches each allocated reference once, ends at tail, prev undoes next,  *)
(* and count is its length.  page_cache_free thus frees every reference.   *)
(* The types hold with it.                                                 *)
(***************************************************************************)
ListWellFormed ==
  LET w == Walk(head)
  IN /\ TypeOK
     /\ OnList = {r \in Ref : refs[r] # Nil}
     /\ count = Cardinality(OnList)
     /\ w[count] = Nil
     /\ tail = IF count = 0 THEN Nil ELSE w[count - 1]
     /\ \A n \in 0..(count - 1) : refs[w[n]].prev = IF n = 0 THEN Nil ELSE w[n - 1]

(***************************************************************************)
(* No table entry points at a freed reference, although eviction searches  *)
(* for it through next pointers that the list has overwritten.             *)
(***************************************************************************)
TableNotDangling ==
  \A i \in DOMAIN hash_table : hash_table[i] # Nil =>
    refs[hash_table[i]] # Nil /\ page_hash(refs[hash_table[i]].page_id) = i

(***************************************************************************)
(* While nothing is pinned, an eviction ends, also when the pages of some  *)
(* references have left the pool.                                          *)
(***************************************************************************)
UnpinnedEvictionEnds == (call # NoCall /\ pinned = {}) ~> (call = NoCall)

\* The pages of the references, from head on.
Cached == LET w == Walk(head) IN [i \in 1..count |-> refs[w[i - 1]].page_id]

Lru == INSTANCE LruCache
  WITH cached <- Cached, NotFound <- Nil, Bucket <- [p \in PageIds |-> page_hash(p)]

(***************************************************************************)
(* "LRU cache for pages" (page.h): the list with its table is a cache in   *)
(* order of use that drops the least recently used page; a page without a  *)
(* collision is never cached twice.                                        *)
(***************************************************************************)
LruSpec == Lru!Spec
=============================================================================
