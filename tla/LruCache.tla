------------------------------- MODULE LruCache -------------------------------
(***************************************************************************)
(* A least-recently-used cache of page identifiers, as page.h calls the    *)
(* page cache: the cached pages in order of use, the most recent first.    *)
(* The page that leaves is the last one, and only while it is not pinned.  *)
(* A page that has a bucket of the hash table to itself is cached once;    *)
(* the others may be admitted again although they are cached.  result is   *)
(* what the last request answered: NotFound for a page that does not       *)
(* exist, or no longer does.                                               *)
(***************************************************************************)
EXTENDS Naturals, SequencesExt

CONSTANTS PageIds, capacity, NotFound, Bucket

VARIABLES cached, pinned, result

Alone(p) == \A q \in PageIds \ {p} : Bucket[q] # Bucket[p]

Init == cached = <<>> /\ pinned = {} /\ result = NotFound

Use(p) ==
  /\ \E k \in DOMAIN cached : cached[k] = p /\ cached' = <<p>> \o RemoveAt(cached, k)
  /\ result' \in {p, NotFound}
  /\ UNCHANGED pinned

Admit(p) ==
  /\ Alone(p) => ~ Contains(cached, p)
  /\ Len(cached) < capacity
  /\ cached' = <<p>> \o cached
  /\ result' = p
  /\ UNCHANGED pinned

Missing == result' = NotFound /\ UNCHANGED <<cached, pinned>>

Drop ==
  /\ cached # <<>> /\ Last(cached) \notin pinned
  /\ cached' = Front(cached)
  /\ UNCHANGED <<pinned, result>>

Pinning == pinned' \in SUBSET PageIds /\ UNCHANGED <<cached, result>>

Next == (\E p \in PageIds : Use(p) \/ Admit(p)) \/ Missing \/ Drop \/ Pinning

Spec == Init /\ [][Next]_<<cached, pinned, result>>
=============================================================================
