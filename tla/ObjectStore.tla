----------------------------- MODULE ObjectStore -----------------------------
(***************************************************************************)
(* What the index promises its caller about objects, with no page in       *)
(* sight: a bag of objects that insert adds to, remove takes one object    *)
(* with the identifier from, and update replaces one object in.  It is a   *)
(* bag because nothing in the code keeps identifiers unique.               *)
(* SpatialIndex implements it (SpatialIndexProps!Store).                   *)
(***************************************************************************)
EXTENDS Bags, Integers

CONSTANTS Id, Shape  \* identifiers, and the derived data of a geometry

VARIABLE store  \* a bag of [id : Id, shape : Shape]

Init == store = EmptyBag

One(o) == SetToBag({o})

Add(o) == store' = store (+) One(o)

Delete(o) == BagIn(o, store) /\ store' = store (-) One(o)

Replace(o, s) == BagIn(o, store) /\ store' = (store (-) One(o)) (+) One([id |-> o.id, shape |-> s])

Next ==
  \/ \E i \in Id, s \in Shape : Add([id |-> i, shape |-> s])
  \/ \E o \in BagToSet(store) : Delete(o) \/ \E s \in Shape : Replace(o, s)

Spec == Init /\ [][Next]_store
=============================================================================
