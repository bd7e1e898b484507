----------------------------- MODULE UrbisServer -----------------------------
(***************************************************************************)
(* The gRPC service of src/api/internal/service/urbis_service.go over the  *)
(* bindings of src/api/pkg/urbis/bindings.go: requests run concurrently,   *)
(* one goroutine each, and share a sync.Map from index names to handles.   *)
(* A handle (urbis.Index) owns one C index through its ptr; the finalizer  *)
(* set by NewIndex closes a handle nothing refers to any more.             *)
(*                                                                         *)
(* Steps: each sync.Map operation is atomic; a call into the C library     *)
(* reads ptr when it is entered and takes effect when it returns, so that  *)
(* two calls on one C index may overlap.  What overlapping calls do to the *)
(* memory of the library is undefined and not modelled further: Conflict   *)
(* says that it happened.  Of the C index only its number of objects is    *)
(* kept.  LoadGeoJSON stands for the three load handlers, Remove for the   *)
(* handlers that make one call which writes (inserts, build, optimize,     *)
(* save, and the adjacency queries, which may make the quadtree), GetCount *)
(* for those that only read, CreateIndex for Load as well (the same check  *)
(* and store around the making of a new C index).                          *)
(***************************************************************************)
EXTENDS Integers, FiniteSets, FiniteSetsExt

CONSTANTS
  IndexId,     \* index names
  Req,         \* goroutines: each serves one request at a time
  TargetsOf,   \* the settings looked at: the names the client of each goroutine asks for
  MaxHandles,  \* bound: handles ever made
  MaxObjects,  \* bound: objects in one index
  Nil          \* no handle

ASSUME ServerAssumption ==
  /\ TargetsOf \subseteq [Req -> SUBSET IndexId]
  /\ MaxHandles \in Nat /\ MaxObjects \in Nat
  /\ Nil \notin Nat

Handle == 1..MaxHandles
Kind == {"CreateIndex", "DestroyIndex", "LoadGeoJSON", "Remove", "GetCount"}

VARIABLES
  targets,  \* the setting of this behaviour; never changes
  indexes,  \* s.indexes
  made,     \* how many handles exist
  ptr,      \* the handles whose ptr is set
  alive,    \* the handles whose C index is allocated
  count,    \* objects in the C index
  req       \* the state of each goroutine

vars == <<targets, indexes, made, ptr, alive, count, req>>

(***************************************************************************)
(* pc: where the goroutine is.  "in_..." are calls into the C library:     *)
(* counting before, loading, counting after, removing or counting once,    *)
(* destroying.  use: the handle whose C index the call was entered with    *)
(* (Nil when ptr was nil: the library answers URBIS_ERR_NULL).             *)
(***************************************************************************)
Pc == {"idle", "look_up", "make", "store", "close", "delete",
       "before", "in_before", "load", "in_load", "after", "in_after",
       "call", "in_call", "in_destroy"}

NoRequest ==
  [pc |-> "idle", kind |-> "GetCount", id |-> Nil, idx |-> Nil, use |-> Nil,
   countBefore |-> 0, inserted |-> 0, objects_loaded |-> 0]

Request ==
  [pc : Pc, kind : Kind, id : IndexId \cup {Nil}, idx : Handle \cup {Nil},
   use : Handle \cup {Nil}, countBefore : 0..MaxObjects, inserted : 0..MaxObjects,
   objects_loaded : (-MaxObjects)..MaxObjects]

TypeOK ==
  /\ targets \in TargetsOf
  /\ indexes \in [IndexId -> Handle \cup {Nil}]
  /\ made \in 0..MaxHandles
  /\ ptr \subseteq 1..made /\ alive \subseteq 1..made
  /\ count \in [Handle -> 0..MaxObjects]
  /\ req \in [Req -> Request]

Init ==
  /\ targets \in TargetsOf
  /\ indexes = [i \in IndexId |-> Nil] /\ made = 0
  /\ ptr = {} /\ alive = {} /\ count = [h \in Handle |-> 0]
  /\ req = [r \in Req |-> NoRequest]

-----------------------------------------------------------------------------
Go(r, pc) == req' = [req EXCEPT ![r].pc = pc]

\* A request arrives; the last answer of the goroutine is forgotten.
Receive(r) ==
  /\ req[r].pc = "idle"
  /\ \E k \in Kind, i \in targets[r] :
       req' = [req EXCEPT ![r] = [NoRequest EXCEPT !.pc = "look_up", !.kind = k, !.id = i]]
  /\ UNCHANGED <<indexes, made, ptr, alive, count>>

\* Mutant: the existence check is gone.
LookUp_NoCheck(r) ==
  LET h == indexes[req[r].id]
      first == [DestroyIndex |-> "close", LoadGeoJSON |-> "before", Remove |-> "call", GetCount |-> "call"]
  IN /\ req[r].pc = "look_up"
     /\ IF req[r].kind = "CreateIndex" THEN Go(r, "make")
        ELSE IF h = Nil THEN Go(r, "idle")
        ELSE req' = [req EXCEPT ![r].pc = first[req[r].kind], ![r].idx = h]
     /\ UNCHANGED <<indexes, made, ptr, alive, count>>

\* Mutant: the request's name is not passed on: every look-up asks for one default name.
LookUp_Default(r) ==
  LET h == indexes[CHOOSE i \in IndexId : TRUE]
      first == [DestroyIndex |-> "close", LoadGeoJSON |-> "before", Remove |-> "call", GetCount |-> "call"]
  IN /\ req[r].pc = "look_up"
     /\ IF req[r].kind = "CreateIndex" THEN Go(r, IF h = Nil THEN "make" ELSE "idle")
        ELSE IF h = Nil THEN Go(r, "idle")
        ELSE req' = [req EXCEPT ![r].pc = first[req[r].kind], ![r].idx = h]
     /\ UNCHANGED <<indexes, made, ptr, alive, count>>

\* getIndex, or the existence check of CreateIndex: indexes.Load.
LookUp(r) ==
  LET h == indexes[req[r].id]
      first == [DestroyIndex |-> "close", LoadGeoJSON |-> "before", Remove |-> "call", GetCount |-> "call"]
  IN /\ req[r].pc = "look_up"
     /\ IF req[r].kind = "CreateIndex" THEN Go(r, IF h = Nil THEN "make" ELSE "idle")
        ELSE IF h = Nil THEN Go(r, "idle")
        ELSE req' = [req EXCEPT ![r].pc = first[req[r].kind], ![r].idx = h]
     /\ UNCHANGED <<indexes, made, ptr, alive, count>>

-----------------------------------------------------------------------------
\* CreateIndex after the check: urbis.NewIndex, then indexes.Store.

NewIndex(r) ==
  LET h == made + 1
  IN /\ req[r].pc = "make" /\ made < MaxHandles
     /\ made' = h /\ ptr' = ptr \cup {h} /\ alive' = alive \cup {h}
     /\ req' = [req EXCEPT ![r].pc = "store", ![r].idx = h]
     /\ UNCHANGED <<indexes, count>>

Store(r) ==
  /\ req[r].pc = "store"
  /\ indexes' = [indexes EXCEPT ![req[r].id] = req[r].idx]
  /\ Go(r, "idle")
  /\ UNCHANGED <<made, ptr, alive, count>>

-----------------------------------------------------------------------------
\* Calls into the C library.

Entering == [before |-> "in_before", load |-> "in_load", after |-> "in_after", call |-> "in_call"]

Enter(r) ==
  /\ req[r].pc \in DOMAIN Entering
  /\ req' = [req EXCEPT ![r].pc = Entering[@],
                        ![r].use = IF req[r].idx \in ptr THEN req[r].idx ELSE Nil]
  /\ UNCHANGED <<indexes, made, ptr, alive, count>>

\* The call found ptr nil: an error, which ends the request.
Fail(r) ==
  /\ req[r].pc \in {"in_before", "in_load", "in_after", "in_call"} /\ req[r].use = Nil
  /\ Go(r, "idle")
  /\ UNCHANGED <<indexes, made, ptr, alive, count>>

InCall(r, pc) == req[r].pc = pc /\ req[r].use # Nil

CountBefore(r) ==
  /\ InCall(r, "in_before")
  /\ req' = [req EXCEPT ![r].pc = "load", ![r].countBefore = count[req[r].use]]
  /\ UNCHANGED <<indexes, made, ptr, alive, count>>

LoadGeoJSON(r) ==
  LET h == req[r].use
  IN /\ InCall(r, "in_load")
     /\ \E n \in 0..(MaxObjects - count[h]) :
          /\ count' = [count EXCEPT ![h] = @ + n]
          /\ req' = [req EXCEPT ![r].pc = "after", ![r].inserted = n]
     /\ UNCHANGED <<indexes, made, ptr, alive>>

\* Mutant: the response is the number of objects in the index.
CountAfter_Total(r) ==
  /\ InCall(r, "in_after")
  /\ req' = [req EXCEPT ![r].pc = "idle", ![r].objects_loaded = count[req[r].use]]
  /\ UNCHANGED <<indexes, made, ptr, alive, count>>

\* The response: countAfter - countBefore.
CountAfter(r) ==
  /\ InCall(r, "in_after")
  /\ req' = [req EXCEPT ![r].pc = "idle", ![r].objects_loaded = count[req[r].use] - req[r].countBefore]
  /\ UNCHANGED <<indexes, made, ptr, alive, count>>

\* Takes one object away, if there is one.
Remove(r) ==
  LET h == req[r].use
  IN /\ InCall(r, "in_call") /\ req[r].kind = "Remove"
     /\ count' = IF count[h] > 0 THEN [count EXCEPT ![h] = @ - 1] ELSE count
     /\ Go(r, "idle")
     /\ UNCHANGED <<indexes, made, ptr, alive>>

GetCount(r) ==
  /\ InCall(r, "in_call") /\ req[r].kind = "GetCount"
  /\ Go(r, "idle")
  /\ UNCHANGED <<indexes, made, ptr, alive, count>>

-----------------------------------------------------------------------------
\* DestroyIndex: idx.Close(), then indexes.Delete.

\* Close enters urbis_index_destroy when ptr is set.
Close(r) ==
  /\ req[r].pc = "close"
  /\ req' = IF req[r].idx \in ptr
            THEN [req EXCEPT ![r].pc = "in_destroy", ![r].use = req[r].idx]
            ELSE [req EXCEPT ![r].pc = "delete"]
  /\ UNCHANGED <<indexes, made, ptr, alive, count>>

\* Mutant: Close forgets the C index before it frees it, and then does not.
Destroyed_NotFreed(r) ==
  /\ req[r].pc = "in_destroy"
  /\ ptr' = ptr \ {req[r].use}
  /\ req' = [req EXCEPT ![r].pc = "delete"]
  /\ UNCHANGED <<indexes, made, alive, count>>

\* It returns, and ptr is cleared.
Destroyed(r) ==
  /\ req[r].pc = "in_destroy"
  /\ ptr' = ptr \ {req[r].use} /\ alive' = alive \ {req[r].use}
  /\ req' = [req EXCEPT ![r].pc = "delete"]
  /\ UNCHANGED <<indexes, made, count>>

\* Mutant: DestroyIndex forgets to take the index out of the map.
Delete_Kept(r) == req[r].pc = "delete" /\ Go(r, "idle") /\ UNCHANGED <<indexes, made, ptr, alive, count>>

\* By name: whatever the map holds under it by now.
Delete(r) ==
  /\ req[r].pc = "delete"
  /\ indexes' = [indexes EXCEPT ![req[r].id] = Nil]
  /\ Go(r, "idle")
  /\ UNCHANGED <<made, ptr, alive, count>>

-----------------------------------------------------------------------------
\* The garbage collector.

\* The places where a goroutine still uses its handle afterwards: a handle
\* is dead during the last call made with its ptr.
Holding == {"store", "close", "in_destroy", "before", "in_before", "load", "in_load", "after", "call"}

Reachable(h) ==
  \/ \E i \in IndexId : indexes[i] = h
  \/ \E r \in Req : req[r].idx = h /\ req[r].pc \in Holding

\* The finalizer of NewIndex is Close.
Finalize ==
  \E h \in ptr :
    /\ ~ Reachable(h)
    /\ ptr' = ptr \ {h} /\ alive' = alive \ {h}
    /\ UNCHANGED <<indexes, made, count, req>>

-----------------------------------------------------------------------------
Step(r) ==
  \/ Receive(r) \/ LookUp(r)
  \/ NewIndex(r) \/ Store(r)
  \/ Enter(r) \/ Fail(r) \/ CountBefore(r) \/ LoadGeoJSON(r) \/ CountAfter(r)
  \/ Remove(r) \/ GetCount(r)
  \/ Close(r) \/ Destroyed(r) \/ Delete(r)

Next == ((\E r \in Req : Step(r)) \/ Finalize) /\ UNCHANGED targets

Spec == Init /\ [][Next]_vars

-----------------------------------------------------------------------------
\* Properties.

(***************************************************************************)
(* A handle the map offers to requests has its C index, except while the   *)
(* DestroyIndex that closed it has yet to delete it: the window between    *)
(* Close and Delete is the only one in which getIndex finds a dead index.  *)
(* The types hold with it.                                                 *)
(***************************************************************************)
MapHoldsOpenIndexes ==
  /\ TypeOK
  /\ \A i \in IndexId : indexes[i] # Nil /\ indexes[i] \notin ptr =>
       \E r \in Req : req[r].pc = "delete" /\ req[r].idx = indexes[i] /\ req[r].id = i

(***************************************************************************)
(* Every allocated C index can still be freed: its handle has its ptr, so  *)
(* Close or the finalizer finds it, whichever requests overwrote or        *)
(* deleted its name (bindings.go, Close and NewIndex).                     *)
(***************************************************************************)
NoLeakedIndex == alive \subseteq ptr

\* Each client has index names of its own.
Isolated == \A q, r \in Req : q # r => targets[q] \cap targets[r] = {}

(***************************************************************************)
(* While clients have names of their own, an index leaves the map only by  *)
(* a DestroyIndex that looked that very index up: "Check if index already  *)
(* exists" (urbis_service.go) keeps CreateIndex and Load from replacing    *)
(* one.                                                                    *)
(***************************************************************************)
LeavesByItsDestroy ==
  [][Isolated => \A i \in IndexId : indexes[i] # Nil /\ indexes'[i] # indexes[i] =>
       \E r \in Req : req[r].pc = "delete" /\ req[r].idx = indexes[i]]_vars

(***************************************************************************)
(* "uint64 objects_loaded" (urbis.proto, LoadResponse): while clients have *)
(* names of their own, the answer of a load is the number of objects this  *)
(* request inserted.                                                       *)
(***************************************************************************)
ReportsOwnObjects ==
  [][Isolated => \A r \in Req :
       req[r].pc = "in_after" /\ req[r].use # Nil /\ req'[r].pc = "idle"
         => req'[r].objects_loaded = req[r].inserted]_vars

Calls == {"in_before", "in_load", "in_after", "in_call", "in_destroy"}

Writes(r) == req[r].pc \in {"in_load", "in_destroy"} \/ (req[r].pc = "in_call" /\ req[r].kind = "Remove")

\* Two calls inside one C index, one of which changes it, or a call inside
\* a C index that has been freed.
Conflict ==
  \E q \in Req :
    /\ req[q].pc \in Calls /\ req[q].use # Nil
    /\ \/ req[q].use \notin alive
       \/ \E r \in Req \ {q} : req[r].pc \in Calls /\ req[r].use = req[q].use /\ Writes(r)

(***************************************************************************)
(* "Thread-safe core data structures" (README.md): concurrent requests do  *)
(* not meet inside one C index while one of them changes it, as long as    *)
(* clients have names of their own.                                        *)
(***************************************************************************)
NoConflict == Isolated => ~ Conflict
=============================================================================
