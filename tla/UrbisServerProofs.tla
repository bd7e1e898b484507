-------------------------- MODULE UrbisServerProofs --------------------------
(***************************************************************************)
(* The properties of the gRPC service for any number of goroutines, names  *)
(* and handles.  The first part of the invariant holds however clients     *)
(* share names, the second (Own...) for clients with names of their own.   *)
(***************************************************************************)
EXTENDS UrbisServer, TLAPS

-----------------------------------------------------------------------------
\* The inductive invariant.

\* Where a goroutine has its handle in hand.
HasIndex == Pc \ {"idle", "look_up", "make"}

\* A handle has its ptr as long as its C index exists.
PtrIsAlive == ptr = alive

\* Handles in use have been made.
HandlesMade ==
  /\ \A i \in IndexId : indexes[i] \in 1..made \cup {Nil}
  /\ \A r \in Req : req[r].idx \in 1..made \cup {Nil}

\* What a goroutine knows at each stage of its request.
Stages ==
  \A r \in Req :
    /\ req[r].idx # Nil => req[r].id \in IndexId
    /\ req[r].pc # "idle" => req[r].id \in IndexId /\ req[r].id \in targets[r]
    /\ req[r].pc \in HasIndex => req[r].idx # Nil
    /\ req[r].pc \in Calls /\ req[r].use # Nil => req[r].use = req[r].idx
    /\ req[r].pc = "in_destroy" => req[r].use # Nil

\* A handle is only ever known under one name.
OneName ==
  /\ \A i, j \in IndexId : indexes[i] # Nil /\ indexes[i] = indexes[j] => i = j
  /\ \A r \in Req, i \in IndexId : req[r].idx # Nil /\ indexes[i] = req[r].idx => i = req[r].id
  /\ \A q, r \in Req : req[q].idx # Nil /\ req[q].idx = req[r].idx => req[q].id = req[r].id

\* A handle about to be stored is open, and nobody else has seen it.
StoredFresh ==
  \A r \in Req : req[r].pc = "store" =>
    /\ req[r].idx \in ptr
    /\ \A i \in IndexId : indexes[i] # req[r].idx
    /\ \A q \in Req : q # r => req[q].idx # req[r].idx

ClosedAreDeleted ==
  \A i \in IndexId : indexes[i] # Nil /\ indexes[i] \notin ptr =>
    \E r \in Req : req[r].pc = "delete" /\ req[r].idx = indexes[i] /\ req[r].id = i

\* While a client with names of its own has a request under way, the map has
\* under the name what the request found there.
OwnName ==
  \A r \in Req :
    /\ req[r].pc \in {"make", "store"} => indexes[req[r].id] = Nil
    /\ req[r].pc \in HasIndex \ {"store"} => indexes[req[r].id] = req[r].idx

\* Nobody closes the C index a call is in.
OwnCall == \A r \in Req : req[r].pc \in Calls /\ req[r].use # Nil => req[r].use \in ptr

\* Nobody else changes the number of objects during a load.
OwnCount ==
  \A r \in Req :
    /\ req[r].pc \in {"load", "in_load"} => count[req[r].idx] = req[r].countBefore
    /\ req[r].pc \in {"after", "in_after"} =>
         count[req[r].idx] = req[r].countBefore + req[r].inserted

SharedInv ==
  /\ TypeOK /\ PtrIsAlive /\ HandlesMade /\ Stages /\ OneName
  /\ StoredFresh /\ ClosedAreDeleted

OwnInv == OwnName /\ OwnCall /\ OwnCount

ServerInv == SharedInv /\ (Isolated => OwnInv)
\* The parts of TypeOK.
RequestsTyped == req \in [Req -> Request]
IndexesTyped == /\ targets \in TargetsOf /\ indexes \in [IndexId -> Handle \cup {Nil}]
                /\ made \in 0..MaxHandles
DataTyped == ptr \subseteq 1..made /\ alive \subseteq 1..made /\ count \in [Handle -> 0..MaxObjects]
-----------------------------------------------------------------------------
\* What the larger steps do to the request that takes them.

Others(r) == \A q \in Req \ {r} : req'[q] = req[q]

SameIndexes == UNCHANGED <<targets, indexes, made, ptr, alive>>

\* A request starts with a name of its client and no handle.
LEMMA ReceiveEffect ==
  ASSUME TypeOK, NEW r \in Req, Receive(r), UNCHANGED targets
  PROVE  /\ Others(r) /\ SameIndexes /\ UNCHANGED count
         /\ req'[r].pc = "look_up" /\ req'[r].id \in targets[r]
         /\ req'[r].idx = Nil /\ req'[r].use = Nil
  <1>1. PICK k \in Kind, i \in targets[r] :
          req' = [req EXCEPT ![r] = [NoRequest EXCEPT !.pc = "look_up", !.kind = k, !.id = i]]
    BY DEF Receive
  <1>2. req'[r] = [NoRequest EXCEPT !.pc = "look_up", !.kind = k, !.id = i]
    BY <1>1 DEF TypeOK
  <1>3. Others(r)
    BY <1>1 DEF Others, TypeOK
  <1> QED BY <1>2, <1>3 DEF SameIndexes, Receive, NoRequest

\* The handle a request goes on with is the one the map has under its name.
LEMMA LookUpEffect ==
  ASSUME TypeOK, NEW r \in Req, LookUp(r), UNCHANGED targets
  PROVE  /\ Others(r) /\ SameIndexes /\ UNCHANGED count
         /\ req[r].pc = "look_up"
         /\ req'[r].id = req[r].id /\ req'[r].use = req[r].use
         /\ \/ req'[r].pc = "idle" /\ req'[r].idx = req[r].idx
            \/ req'[r].pc = "make" /\ req'[r].idx = req[r].idx /\ indexes[req[r].id] = Nil
            \/ /\ req'[r].pc \in {"close", "before", "call"}
               /\ req'[r].idx = indexes[req[r].id] /\ req'[r].idx # Nil
  <1> DEFINE first ==
        [DestroyIndex |-> "close", LoadGeoJSON |-> "before", Remove |-> "call", GetCount |-> "call"]
  <1>1. req \in [Req -> Request]
    BY DEF TypeOK
  <1>2. req[r].kind \in Kind
    BY <1>1 DEF Request
  <1>3. CASE req[r].kind = "CreateIndex"
    BY <1>1, <1>3 DEF LookUp, Go, Others, SameIndexes, Request
  <1>4. CASE req[r].kind # "CreateIndex" /\ indexes[req[r].id] = Nil
    BY <1>1, <1>4 DEF LookUp, Go, Others, SameIndexes, Request
  <1>5. CASE req[r].kind # "CreateIndex" /\ indexes[req[r].id] # Nil
    <2>1. first[req[r].kind] \in {"close", "before", "call"}
      BY <1>2, <1>5 DEF Kind
    <2>2. req' = [req EXCEPT ![r].pc = first[req[r].kind], ![r].idx = indexes[req[r].id]]
      BY <1>5 DEF LookUp
    <2> HIDE DEF first
    <2>3. /\ req'[r].pc = first[req[r].kind] /\ req'[r].idx = indexes[req[r].id]
          /\ req'[r].id = req[r].id /\ req'[r].use = req[r].use /\ Others(r)
      BY <1>1, <2>2 DEF Request, Others
    <2> QED BY <1>5, <2>1, <2>3 DEF LookUp, SameIndexes
  <1> QED BY <1>3, <1>4, <1>5

\* The handle made is the next number, which nobody has yet.
LEMMA NewIndexEffect ==
  ASSUME TypeOK, NEW r \in Req, NewIndex(r), UNCHANGED targets
  PROVE  /\ Others(r) /\ UNCHANGED <<targets, indexes, count>>
         /\ made' = made + 1 /\ made' \in Handle
         /\ ptr' = ptr \cup {made'} /\ alive' = alive \cup {made'}
         /\ req[r].pc = "make" /\ req'[r].pc = "store" /\ req'[r].idx = made'
         /\ req'[r].id = req[r].id /\ req'[r].use = req[r].use
  <1>1. req \in [Req -> Request] /\ made \in Nat
    BY ServerAssumption DEF TypeOK
  <1>2. made' = made + 1 /\ made' \in Handle
    BY <1>1, ServerAssumption DEF NewIndex, Handle
  <1>3. req' = [req EXCEPT ![r].pc = "store", ![r].idx = made']
    BY DEF NewIndex
  <1> QED BY <1>1, <1>2, <1>3 DEF NewIndex, Others, Request

\* A call is entered with the handle in hand, if its ptr is set.
LEMMA EnterEffect ==
  ASSUME TypeOK, NEW r \in Req, Enter(r), UNCHANGED targets
  PROVE  /\ Others(r) /\ SameIndexes /\ UNCHANGED count
         /\ req[r].pc \in {"before", "load", "after", "call"}
         /\ req'[r].pc = Entering[req[r].pc] /\ req'[r].pc \in {"in_before", "in_load", "in_after", "in_call"}
         /\ req'[r].id = req[r].id /\ req'[r].idx = req[r].idx
         /\ req'[r].use \in {req[r].idx, Nil} /\ (req'[r].use # Nil => req'[r].use \in ptr)
         /\ req'[r].countBefore = req[r].countBefore /\ req'[r].inserted = req[r].inserted
  <1>1. req \in [Req -> Request]
    BY DEF TypeOK
  <1>7. \A h \in ptr : h \in Nat
    BY ServerAssumption DEF TypeOK
  <1>6. Nil \notin ptr
    BY <1>7, ServerAssumption
  <1>2. req[r].pc \in {"before", "load", "after", "call"}
    BY DEF Enter, Entering
  <1>3. Entering[req[r].pc] \in {"in_before", "in_load", "in_after", "in_call"}
    BY <1>2 DEF Entering
  <1>4. req' = [req EXCEPT ![r].pc = Entering[@],
                           ![r].use = IF req[r].idx \in ptr THEN req[r].idx ELSE Nil]
    BY DEF Enter
  <1>5. /\ Others(r) /\ req'[r].pc = Entering[req[r].pc]
        /\ req'[r].id = req[r].id /\ req'[r].idx = req[r].idx
        /\ req'[r].use = IF req[r].idx \in ptr THEN req[r].idx ELSE Nil
        /\ req'[r].countBefore = req[r].countBefore /\ req'[r].inserted = req[r].inserted
    BY <1>1, <1>4 DEF Others, Request
  <1> QED BY <1>2, <1>3, <1>5, <1>6 DEF Enter, SameIndexes

\* A load adds what it inserted to the index of its call.
LEMMA LoadEffect ==
  ASSUME TypeOK, NEW r \in Req, LoadGeoJSON(r), UNCHANGED targets
  PROVE  /\ Others(r) /\ SameIndexes
         /\ req[r].pc = "in_load" /\ req[r].use # Nil /\ req'[r].pc = "after"
         /\ req'[r].id = req[r].id /\ req'[r].idx = req[r].idx /\ req'[r].use = req[r].use
         /\ req'[r].countBefore = req[r].countBefore
         /\ req'[r].inserted \in 0..(MaxObjects - count[req[r].use])
         /\ count' = [count EXCEPT ![req[r].use] = @ + req'[r].inserted]
  <1>1. req \in [Req -> Request]
    BY DEF TypeOK
  <1>2. PICK n \in 0..(MaxObjects - count[req[r].use]) :
          /\ count' = [count EXCEPT ![req[r].use] = @ + n]
          /\ req' = [req EXCEPT ![r].pc = "after", ![r].inserted = n]
    BY DEF LoadGeoJSON
  <1>3. /\ req'[r].pc = "after" /\ req'[r].inserted = n /\ Others(r)
        /\ req'[r].id = req[r].id /\ req'[r].idx = req[r].idx /\ req'[r].use = req[r].use
        /\ req'[r].countBefore = req[r].countBefore
    BY <1>1, <1>2 DEF Request, Others
  <1> QED BY <1>2, <1>3 DEF LoadGeoJSON, InCall, SameIndexes

\* Close enters the destroy of the handle in hand, or goes on to the delete.
LEMMA CloseEffect ==
  ASSUME TypeOK, NEW r \in Req, Close(r), UNCHANGED targets
  PROVE  /\ Others(r) /\ SameIndexes /\ UNCHANGED count
         /\ req[r].pc = "close" /\ req'[r].id = req[r].id /\ req'[r].idx = req[r].idx
         /\ \/ req'[r].pc = "in_destroy" /\ req'[r].use = req[r].idx /\ req[r].idx \in ptr
            \/ req'[r].pc = "delete" /\ req'[r].use = req[r].use
  <1>1. req \in [Req -> Request]
    BY DEF TypeOK
  <1>2. CASE req[r].idx \in ptr
    <2>1. req' = [req EXCEPT ![r].pc = "in_destroy", ![r].use = req[r].idx]
      BY <1>2 DEF Close
    <2> QED BY <1>1, <1>2, <2>1 DEF Close, Others, SameIndexes, Request
  <1>3. CASE req[r].idx \notin ptr
    <2>1. req' = [req EXCEPT ![r].pc = "delete"]
      BY <1>3 DEF Close
    <2> QED BY <1>1, <2>1 DEF Close, Others, SameIndexes, Request
  <1> QED BY <1>2, <1>3

\* The places a goroutine can be, with Pc left folded where only that matters.
LEMMA PcHas ==
  /\ "idle" \in Pc /\ "look_up" \in Pc /\ "make" \in Pc /\ "store" \in Pc
  /\ "close" \in Pc /\ "delete" \in Pc /\ "before" \in Pc /\ "in_before" \in Pc
  /\ "load" \in Pc /\ "in_load" \in Pc /\ "after" \in Pc /\ "in_after" \in Pc
  /\ "call" \in Pc /\ "in_call" \in Pc /\ "in_destroy" \in Pc
BY DEF Pc

\* The types of the fields of a goroutine.
LEMMA InRequest ==
  ASSUME TypeOK, NEW r \in Req
  PROVE /\ req[r] \in Request /\ req[r].idx \in Handle \cup {Nil} /\ req[r].countBefore \in 0..MaxObjects
        /\ req[r].use \in Handle \cup {Nil}
        /\ req[r].kind \in Kind /\ req[r].id \in IndexId \cup {Nil}
BY DEF TypeOK, Request

\* A request with some fields changed to values of their types is a request.
LEMMA Asked ==
  ASSUME NEW q \in Request, NEW p \in Pc, NEW k \in Kind, NEW i \in IndexId
  PROVE  [q EXCEPT !.pc = p, !.kind = k, !.id = i] \in Request
BY DEF Request

LEMMA IdxUpdated ==
  ASSUME NEW q \in Request, NEW p \in Pc, NEW h \in Handle \cup {Nil}
  PROVE  [q EXCEPT !.pc = p, !.idx = h] \in Request
BY DEF Request

LEMMA UseUpdated ==
  ASSUME NEW q \in Request, NEW p \in Pc, NEW h \in Handle \cup {Nil}
  PROVE  [q EXCEPT !.pc = p, !.use = h] \in Request
BY DEF Request

LEMMA InsertedUpdated ==
  ASSUME NEW q \in Request, NEW p \in Pc, NEW n \in 0..MaxObjects
  PROVE  [q EXCEPT !.pc = p, !.inserted = n] \in Request
BY DEF Request

LEMMA LoadedUpdated ==
  ASSUME NEW q \in Request, NEW p \in Pc, NEW d \in (-MaxObjects)..MaxObjects
  PROVE  [q EXCEPT !.pc = p, !.objects_loaded = d] \in Request
BY DEF Request

\* Two clients with names of their own never have one handle in hand.
LEMMA OwnHandle ==
  ASSUME Stages, OneName, Isolated, NEW q \in Req, NEW r \in Req, q # r,
         req[q].pc # "idle", req[r].pc # "idle", req[q].idx # Nil
  PROVE  req[q].idx # req[r].idx
BY DEF Stages, OneName, Isolated

-----------------------------------------------------------------------------
\* What each part of the invariant needs to be kept, action by action.

\* The state of a goroutine stays a request.
LEMMA RequestsTypedKept ==
  ASSUME TypeOK, Next
  PROVE  RequestsTyped'
<1>1. ASSUME NEW r \in Req, Receive(r), UNCHANGED targets PROVE RequestsTyped'
  <2>1. PICK k \in Kind, i \in targets[r] :
          req' = [req EXCEPT ![r] = [NoRequest EXCEPT !.pc = "look_up", !.kind = k, !.id = i]]
    BY <1>1 DEF Receive
  <2>2. i \in IndexId
    BY ServerAssumption DEF TypeOK
  <2>4. 0 \in 0..MaxObjects /\ 0 \in (-MaxObjects)..MaxObjects
    BY ServerAssumption
  <2>5. NoRequest \in Request
    BY <2>4, PcHas DEF NoRequest, Request, Kind
  <2>3. [NoRequest EXCEPT !.pc = "look_up", !.kind = k, !.id = i] \in Request
    BY <2>2, <2>5, PcHas, Asked
  <2> QED BY <2>1, <2>3 DEF RequestsTyped, TypeOK
<1>2. ASSUME NEW r \in Req, LookUp(r), UNCHANGED targets PROVE RequestsTyped'
  BY <1>2, PcHas DEF RequestsTyped, TypeOK, Request, LookUp, Go, Kind
<1>3. ASSUME NEW r \in Req, NewIndex(r), UNCHANGED targets PROVE RequestsTyped'
  <2>1. made + 1 \in Handle
    BY <1>3, ServerAssumption DEF NewIndex, TypeOK, Handle
  <2>2. [req[r] EXCEPT !.pc = "store", !.idx = made + 1] \in Request
    BY <2>1, PcHas, InRequest, IdxUpdated
  <2>3. req' = [req EXCEPT ![r] = [req[r] EXCEPT !.pc = "store", !.idx = made + 1]]
    BY <1>3 DEF NewIndex
  <2> QED BY <2>2, <2>3 DEF RequestsTyped, TypeOK
<1>4. ASSUME NEW r \in Req, Store(r), UNCHANGED targets PROVE RequestsTyped'
  BY <1>4, PcHas DEF RequestsTyped, TypeOK, Request, Store, Go
<1>5. ASSUME NEW r \in Req, Enter(r), UNCHANGED targets PROVE RequestsTyped'
  <2> DEFINE use == IF req[r].idx \in ptr THEN req[r].idx ELSE Nil
  <2>1. Entering[req[r].pc] \in Pc /\ use \in Handle \cup {Nil}
    BY <1>5, PcHas, InRequest DEF Enter, Entering
  <2>2. req' = [req EXCEPT ![r] = [req[r] EXCEPT !.pc = Entering[req[r].pc], !.use = use]]
    BY <1>5 DEF Enter
  <2> HIDE DEF use
  <2>3. [req[r] EXCEPT !.pc = Entering[req[r].pc], !.use = use] \in Request
    BY <2>1, InRequest, UseUpdated
  <2> QED BY <2>2, <2>3 DEF RequestsTyped, TypeOK
<1>6. ASSUME NEW r \in Req, Fail(r), UNCHANGED targets PROVE RequestsTyped'
  BY <1>6, PcHas DEF RequestsTyped, TypeOK, Request, Fail, Go
<1>7. ASSUME NEW r \in Req, CountBefore(r), UNCHANGED targets PROVE RequestsTyped'
  BY <1>7, PcHas DEF RequestsTyped, TypeOK, Request, CountBefore, InCall
<1>8. ASSUME NEW r \in Req, LoadGeoJSON(r), UNCHANGED targets PROVE RequestsTyped'
  <2>1. PICK n \in 0..(MaxObjects - count[req[r].use]) :
          req' = [req EXCEPT ![r] = [req[r] EXCEPT !.pc = "after", !.inserted = n]]
    BY <1>8 DEF LoadGeoJSON
  <2>2. req[r].use \in Handle
    BY <1>8, InRequest DEF LoadGeoJSON, InCall
  <2>3. n \in 0..MaxObjects
    BY <2>2, ServerAssumption DEF TypeOK
  <2>4. [req[r] EXCEPT !.pc = "after", !.inserted = n] \in Request
    BY <2>3, PcHas, InRequest, InsertedUpdated
  <2> QED BY <2>1, <2>4 DEF RequestsTyped, TypeOK
<1>9. ASSUME NEW r \in Req, CountAfter(r), UNCHANGED targets PROVE RequestsTyped'
  <2> DEFINE d == count[req[r].use] - req[r].countBefore
  <2>1. req[r].use \in Handle
    BY <1>9, InRequest DEF CountAfter, InCall
  <2>2. d \in (-MaxObjects)..MaxObjects
    BY <2>1, InRequest, ServerAssumption DEF TypeOK
  <2>3. req' = [req EXCEPT ![r] = [req[r] EXCEPT !.pc = "idle", !.objects_loaded = d]]
    BY <1>9 DEF CountAfter
  <2> HIDE DEF d
  <2>4. [req[r] EXCEPT !.pc = "idle", !.objects_loaded = d] \in Request
    BY <2>2, PcHas, InRequest, LoadedUpdated
  <2> QED BY <2>3, <2>4 DEF RequestsTyped, TypeOK
<1>10. ASSUME NEW r \in Req, Remove(r), UNCHANGED targets PROVE RequestsTyped'
  BY <1>10, PcHas DEF RequestsTyped, TypeOK, Request, Remove, Go
<1>11. ASSUME NEW r \in Req, GetCount(r), UNCHANGED targets PROVE RequestsTyped'
  BY <1>11, PcHas DEF RequestsTyped, TypeOK, Request, GetCount, Go
<1>12. ASSUME NEW r \in Req, Close(r), UNCHANGED targets PROVE RequestsTyped'
  <2>1. CASE req[r].idx \in ptr
    <3>1. req' = [req EXCEPT ![r] = [req[r] EXCEPT !.pc = "in_destroy", !.use = req[r].idx]]
      BY <1>12, <2>1 DEF Close
    <3>2. [req[r] EXCEPT !.pc = "in_destroy", !.use = req[r].idx] \in Request
      BY PcHas, InRequest, UseUpdated
    <3> QED BY <3>1, <3>2 DEF RequestsTyped, TypeOK
  <2>2. CASE req[r].idx \notin ptr
    BY <1>12, <2>2, PcHas, InRequest DEF Close, RequestsTyped, TypeOK, Request
  <2> QED BY <2>1, <2>2
<1>13. ASSUME NEW r \in Req, Destroyed(r), UNCHANGED targets PROVE RequestsTyped'
  BY <1>13, PcHas DEF RequestsTyped, TypeOK, Request, Destroyed
<1>14. ASSUME NEW r \in Req, Delete(r), UNCHANGED targets PROVE RequestsTyped'
  BY <1>14, PcHas DEF RequestsTyped, TypeOK, Request, Delete, Go
<1>15. CASE Finalize /\ UNCHANGED targets
  BY <1>15 DEF RequestsTyped, TypeOK, Finalize
<1> QED
  BY <1>1, <1>2, <1>3, <1>4, <1>5, <1>6, <1>7, <1>8, <1>9, <1>10, <1>11, <1>12, <1>13,
   <1>14, <1>15 DEF Next, Step

\* The map holds handles, under names the settings know.
LEMMA IndexesTypedKept ==
  ASSUME TypeOK, Stages, Next
  PROVE  IndexesTyped'
<1>1. ASSUME NEW r \in Req, Receive(r), UNCHANGED targets PROVE IndexesTyped'
  BY <1>1 DEF IndexesTyped, TypeOK, Receive
<1>2. ASSUME NEW r \in Req, LookUp(r), UNCHANGED targets PROVE IndexesTyped'
  BY <1>2 DEF IndexesTyped, TypeOK, LookUp
<1>3. ASSUME NEW r \in Req, NewIndex(r), UNCHANGED targets PROVE IndexesTyped'
  BY <1>3, ServerAssumption DEF IndexesTyped, TypeOK, NewIndex
<1>4. ASSUME NEW r \in Req, Store(r), UNCHANGED targets PROVE IndexesTyped'
  BY <1>4 DEF IndexesTyped, TypeOK, Request, Store
<1>5. ASSUME NEW r \in Req, Enter(r), UNCHANGED targets PROVE IndexesTyped'
  BY <1>5 DEF IndexesTyped, TypeOK, Enter
<1>6. ASSUME NEW r \in Req, Fail(r), UNCHANGED targets PROVE IndexesTyped'
  BY <1>6 DEF IndexesTyped, TypeOK, Fail
<1>7. ASSUME NEW r \in Req, CountBefore(r), UNCHANGED targets PROVE IndexesTyped'
  BY <1>7 DEF IndexesTyped, TypeOK, CountBefore
<1>8. ASSUME NEW r \in Req, LoadGeoJSON(r), UNCHANGED targets PROVE IndexesTyped'
  BY <1>8 DEF IndexesTyped, TypeOK, LoadGeoJSON
<1>9. ASSUME NEW r \in Req, CountAfter(r), UNCHANGED targets PROVE IndexesTyped'
  BY <1>9 DEF IndexesTyped, TypeOK, CountAfter
<1>10. ASSUME NEW r \in Req, Remove(r), UNCHANGED targets PROVE IndexesTyped'
  BY <1>10 DEF IndexesTyped, TypeOK, Remove
<1>11. ASSUME NEW r \in Req, GetCount(r), UNCHANGED targets PROVE IndexesTyped'
  BY <1>11 DEF IndexesTyped, TypeOK, GetCount
<1>12. ASSUME NEW r \in Req, Close(r), UNCHANGED targets PROVE IndexesTyped'
  BY <1>12 DEF IndexesTyped, TypeOK, Close
<1>13. ASSUME NEW r \in Req, Destroyed(r), UNCHANGED targets PROVE IndexesTyped'
  BY <1>13 DEF IndexesTyped, TypeOK, Destroyed
<1>14. ASSUME NEW r \in Req, Delete(r), UNCHANGED targets PROVE IndexesTyped'
  BY <1>14 DEF IndexesTyped, TypeOK, Delete
<1>15. CASE Finalize /\ UNCHANGED targets
  BY <1>15 DEF IndexesTyped, TypeOK, Finalize
<1> QED
  BY <1>1, <1>2, <1>3, <1>4, <1>5, <1>6, <1>7, <1>8, <1>9, <1>10, <1>11, <1>12, <1>13,
   <1>14, <1>15 DEF Next, Step

\* ptr and alive are about handles made, and counts stay in bounds.
LEMMA DataTypedKept ==
  ASSUME TypeOK, Stages, Next
  PROVE  DataTyped'
<1>1. ASSUME NEW r \in Req, Receive(r), UNCHANGED targets PROVE DataTyped'
  BY <1>1 DEF DataTyped, TypeOK, Receive
<1>2. ASSUME NEW r \in Req, LookUp(r), UNCHANGED targets PROVE DataTyped'
  BY <1>2 DEF DataTyped, TypeOK, LookUp
<1>3. ASSUME NEW r \in Req, NewIndex(r), UNCHANGED targets PROVE DataTyped'
  BY <1>3 DEF DataTyped, TypeOK, NewIndex
<1>4. ASSUME NEW r \in Req, Store(r), UNCHANGED targets PROVE DataTyped'
  BY <1>4 DEF DataTyped, TypeOK, Store
<1>5. ASSUME NEW r \in Req, Enter(r), UNCHANGED targets PROVE DataTyped'
  BY <1>5 DEF DataTyped, TypeOK, Enter
<1>6. ASSUME NEW r \in Req, Fail(r), UNCHANGED targets PROVE DataTyped'
  BY <1>6 DEF DataTyped, TypeOK, Fail
<1>7. ASSUME NEW r \in Req, CountBefore(r), UNCHANGED targets PROVE DataTyped'
  BY <1>7 DEF DataTyped, TypeOK, CountBefore
<1>8. ASSUME NEW r \in Req, LoadGeoJSON(r), UNCHANGED targets PROVE DataTyped'
  BY <1>8, ServerAssumption DEF DataTyped, TypeOK, Request, LoadGeoJSON, InCall
<1>9. ASSUME NEW r \in Req, CountAfter(r), UNCHANGED targets PROVE DataTyped'
  BY <1>9 DEF DataTyped, TypeOK, CountAfter
<1>10. ASSUME NEW r \in Req, Remove(r), UNCHANGED targets PROVE DataTyped'
  BY <1>10, ServerAssumption DEF DataTyped, TypeOK, Request, Remove, InCall
<1>11. ASSUME NEW r \in Req, GetCount(r), UNCHANGED targets PROVE DataTyped'
  BY <1>11 DEF DataTyped, TypeOK, GetCount
<1>12. ASSUME NEW r \in Req, Close(r), UNCHANGED targets PROVE DataTyped'
  BY <1>12 DEF DataTyped, TypeOK, Close
<1>13. ASSUME NEW r \in Req, Destroyed(r), UNCHANGED targets PROVE DataTyped'
  BY <1>13 DEF DataTyped, TypeOK, Destroyed
<1>14. ASSUME NEW r \in Req, Delete(r), UNCHANGED targets PROVE DataTyped'
  BY <1>14 DEF DataTyped, TypeOK, Delete
<1>15. CASE Finalize /\ UNCHANGED targets
  BY <1>15 DEF DataTyped, TypeOK, Finalize
<1> QED
  BY <1>1, <1>2, <1>3, <1>4, <1>5, <1>6, <1>7, <1>8, <1>9, <1>10, <1>11, <1>12, <1>13,
   <1>14, <1>15 DEF Next, Step

\* Only NewIndex, Destroyed and Finalize touch the two, and each both.
LEMMA PtrIsAliveKept ==
  ASSUME TypeOK, PtrIsAlive, Next
  PROVE  PtrIsAlive'
<1>1. ASSUME NEW r \in Req, Receive(r), UNCHANGED targets PROVE PtrIsAlive'
  BY <1>1, ReceiveEffect DEF PtrIsAlive, SameIndexes
<1>2. ASSUME NEW r \in Req, LookUp(r), UNCHANGED targets PROVE PtrIsAlive'
  BY <1>2, LookUpEffect DEF PtrIsAlive, SameIndexes
<1>3. ASSUME NEW r \in Req, NewIndex(r), UNCHANGED targets PROVE PtrIsAlive'
  BY <1>3, NewIndexEffect DEF PtrIsAlive
<1>4. ASSUME NEW r \in Req, Store(r), UNCHANGED targets PROVE PtrIsAlive'
  BY <1>4 DEF PtrIsAlive, Store
<1>5. ASSUME NEW r \in Req, Enter(r), UNCHANGED targets PROVE PtrIsAlive'
  BY <1>5, EnterEffect DEF PtrIsAlive, SameIndexes
<1>6. ASSUME NEW r \in Req, Fail(r), UNCHANGED targets PROVE PtrIsAlive'
  BY <1>6 DEF PtrIsAlive, Fail
<1>7. ASSUME NEW r \in Req, CountBefore(r), UNCHANGED targets PROVE PtrIsAlive'
  BY <1>7 DEF PtrIsAlive, CountBefore
<1>8. ASSUME NEW r \in Req, LoadGeoJSON(r), UNCHANGED targets PROVE PtrIsAlive'
  BY <1>8, LoadEffect DEF PtrIsAlive, SameIndexes
<1>9. ASSUME NEW r \in Req, CountAfter(r), UNCHANGED targets PROVE PtrIsAlive'
  BY <1>9 DEF PtrIsAlive, CountAfter
<1>10. ASSUME NEW r \in Req, Remove(r), UNCHANGED targets PROVE PtrIsAlive'
  BY <1>10 DEF PtrIsAlive, Remove
<1>11. ASSUME NEW r \in Req, GetCount(r), UNCHANGED targets PROVE PtrIsAlive'
  BY <1>11 DEF PtrIsAlive, GetCount
<1>12. ASSUME NEW r \in Req, Close(r), UNCHANGED targets PROVE PtrIsAlive'
  BY <1>12, CloseEffect DEF PtrIsAlive, SameIndexes
<1>13. ASSUME NEW r \in Req, Destroyed(r), UNCHANGED targets PROVE PtrIsAlive'
  BY <1>13 DEF PtrIsAlive, Destroyed
<1>14. ASSUME NEW r \in Req, Delete(r), UNCHANGED targets PROVE PtrIsAlive'
  BY <1>14 DEF PtrIsAlive, Delete
<1>15. CASE Finalize /\ UNCHANGED targets
  BY <1>15 DEF PtrIsAlive, Finalize
<1> QED
  BY <1>1, <1>2, <1>3, <1>4, <1>5, <1>6, <1>7, <1>8, <1>9, <1>10, <1>11, <1>12, <1>13,
   <1>14, <1>15 DEF Next, Step

\* A goroutine gets a handle from the map or from NewIndex, never another way.
LEMMA HandlesMadeKept ==
  ASSUME TypeOK, HandlesMade, Stages, Next
  PROVE  HandlesMade'
<1>1. ASSUME NEW r \in Req, Receive(r), UNCHANGED targets PROVE HandlesMade'
  BY <1>1, ReceiveEffect DEF HandlesMade, Others, SameIndexes
<1>2. ASSUME NEW r \in Req, LookUp(r), UNCHANGED targets PROVE HandlesMade'
  BY <1>2, LookUpEffect DEF HandlesMade, Stages, Others, SameIndexes
<1>3. ASSUME NEW r \in Req, NewIndex(r), UNCHANGED targets PROVE HandlesMade'
  BY <1>3 DEF HandlesMade, TypeOK, NewIndex
<1>4. ASSUME NEW r \in Req, Store(r), UNCHANGED targets PROVE HandlesMade'
  BY <1>4 DEF HandlesMade, Store, Go
<1>5. ASSUME NEW r \in Req, Enter(r), UNCHANGED targets PROVE HandlesMade'
  BY <1>5, EnterEffect DEF HandlesMade, Others, SameIndexes
<1>6. ASSUME NEW r \in Req, Fail(r), UNCHANGED targets PROVE HandlesMade'
  BY <1>6 DEF HandlesMade, Fail, Go
<1>7. ASSUME NEW r \in Req, CountBefore(r), UNCHANGED targets PROVE HandlesMade'
  BY <1>7 DEF HandlesMade, TypeOK, CountBefore
<1>8. ASSUME NEW r \in Req, LoadGeoJSON(r), UNCHANGED targets PROVE HandlesMade'
  BY <1>8, LoadEffect DEF HandlesMade, Others, SameIndexes
<1>9. ASSUME NEW r \in Req, CountAfter(r), UNCHANGED targets PROVE HandlesMade'
  BY <1>9 DEF HandlesMade, TypeOK, CountAfter
<1>10. ASSUME NEW r \in Req, Remove(r), UNCHANGED targets PROVE HandlesMade'
  BY <1>10 DEF HandlesMade, Remove, Go
<1>11. ASSUME NEW r \in Req, GetCount(r), UNCHANGED targets PROVE HandlesMade'
  BY <1>11 DEF HandlesMade, GetCount, Go
<1>12. ASSUME NEW r \in Req, Close(r), UNCHANGED targets PROVE HandlesMade'
  BY <1>12, CloseEffect DEF HandlesMade, Others, SameIndexes
<1>13. ASSUME NEW r \in Req, Destroyed(r), UNCHANGED targets PROVE HandlesMade'
  BY <1>13 DEF HandlesMade, Destroyed
<1>14. ASSUME NEW r \in Req, Delete(r), UNCHANGED targets PROVE HandlesMade'
  BY <1>14 DEF HandlesMade, Delete, Go
<1>15. CASE Finalize /\ UNCHANGED targets
  BY <1>15 DEF HandlesMade, Finalize
<1> QED
  BY <1>1, <1>2, <1>3, <1>4, <1>5, <1>6, <1>7, <1>8, <1>9, <1>10, <1>11, <1>12, <1>13,
   <1>14, <1>15 DEF Next, Step

\* Where a handle is used, an earlier step of the same request put it there.
LEMMA StagesKept ==
  ASSUME TypeOK, Stages, Next
  PROVE  Stages'
<1>1. ASSUME NEW r \in Req, Receive(r), UNCHANGED targets PROVE Stages'
  BY <1>1, ServerAssumption DEF Stages, HasIndex, TypeOK, Calls, Receive
<1>2. ASSUME NEW r \in Req, LookUp(r), UNCHANGED targets PROVE Stages'
  BY <1>2, LookUpEffect DEF Stages, HasIndex, Calls, Others
<1>3. ASSUME NEW r \in Req, NewIndex(r), UNCHANGED targets PROVE Stages'
  BY <1>3, NewIndexEffect, ServerAssumption DEF Stages, Handle, Calls, Others
<1>4. ASSUME NEW r \in Req, Store(r), UNCHANGED targets PROVE Stages'
  BY <1>4 DEF Stages, HasIndex, Calls, Store, Go
<1>5. ASSUME NEW r \in Req, Enter(r), UNCHANGED targets PROVE Stages'
  BY <1>5, EnterEffect DEF Stages, HasIndex, Pc, Others
<1>6. ASSUME NEW r \in Req, Fail(r), UNCHANGED targets PROVE Stages'
  BY <1>6 DEF Stages, HasIndex, Fail, Go
<1>7. ASSUME NEW r \in Req, CountBefore(r), UNCHANGED targets PROVE Stages'
  BY <1>7 DEF Stages, TypeOK, Calls, CountBefore, InCall
<1>8. ASSUME NEW r \in Req, LoadGeoJSON(r), UNCHANGED targets PROVE Stages'
  BY <1>8, LoadEffect DEF Stages, Calls, Others
<1>9. ASSUME NEW r \in Req, CountAfter(r), UNCHANGED targets PROVE Stages'
  BY <1>9 DEF Stages, TypeOK, Calls, CountAfter, InCall
<1>10. ASSUME NEW r \in Req, Remove(r), UNCHANGED targets PROVE Stages'
  BY <1>10 DEF Stages, Calls, Remove, InCall, Go
<1>11. ASSUME NEW r \in Req, GetCount(r), UNCHANGED targets PROVE Stages'
  BY <1>11 DEF Stages, Calls, GetCount, InCall, Go
<1>12. ASSUME NEW r \in Req, Close(r), UNCHANGED targets PROVE Stages'
  BY <1>12, CloseEffect DEF Stages, HasIndex, Pc, Calls, Others
<1>13. ASSUME NEW r \in Req, Destroyed(r), UNCHANGED targets PROVE Stages'
  BY <1>13 DEF Stages, Calls, Destroyed
<1>14. ASSUME NEW r \in Req, Delete(r), UNCHANGED targets PROVE Stages'
  BY <1>14 DEF Stages, HasIndex, Calls, Delete, Go
<1>15. CASE Finalize /\ UNCHANGED targets
  BY <1>15 DEF Stages, Finalize
<1> QED
  BY <1>1, <1>2, <1>3, <1>4, <1>5, <1>6, <1>7, <1>8, <1>9, <1>10, <1>11, <1>12, <1>13,
   <1>14, <1>15 DEF Next, Step

\* NewIndex makes a handle nobody knows, and a goroutine passes a handle on
\* only under the name it asked for.
LEMMA OneNameKept ==
  ASSUME TypeOK, HandlesMade, Stages, OneName, Next
  PROVE  OneName'
<1>1. ASSUME NEW r \in Req, Receive(r), UNCHANGED targets PROVE OneName'
  BY <1>1, ReceiveEffect DEF OneName, Others, SameIndexes
<1>2. ASSUME NEW r \in Req, LookUp(r), UNCHANGED targets PROVE OneName'
  <2>1. req[r].id \in IndexId
    BY <1>2, LookUpEffect DEF Stages
  <2> QED BY <1>2, <2>1, LookUpEffect DEF OneName, Others, SameIndexes
<1>3. ASSUME NEW r \in Req, NewIndex(r), UNCHANGED targets PROVE OneName'
  <2>1. /\ \A i \in IndexId : indexes[i] # made'
        /\ \A q \in Req : req[q].idx # made'
    BY <1>3, NewIndexEffect, ServerAssumption DEF HandlesMade, TypeOK
  <2> QED BY <1>3, <2>1, NewIndexEffect DEF OneName, Others
<1>4. ASSUME NEW r \in Req, Store(r), UNCHANGED targets PROVE OneName'
  BY <1>4 DEF OneName, Store, Go
<1>5. ASSUME NEW r \in Req, Enter(r), UNCHANGED targets PROVE OneName'
  BY <1>5, EnterEffect DEF OneName, Others, SameIndexes
<1>6. ASSUME NEW r \in Req, Fail(r), UNCHANGED targets PROVE OneName'
  BY <1>6 DEF OneName, Fail, Go
<1>7. ASSUME NEW r \in Req, CountBefore(r), UNCHANGED targets PROVE OneName'
  BY <1>7 DEF OneName, TypeOK, CountBefore
<1>8. ASSUME NEW r \in Req, LoadGeoJSON(r), UNCHANGED targets PROVE OneName'
  BY <1>8, LoadEffect DEF OneName, Others, SameIndexes
<1>9. ASSUME NEW r \in Req, CountAfter(r), UNCHANGED targets PROVE OneName'
  BY <1>9 DEF OneName, TypeOK, CountAfter
<1>10. ASSUME NEW r \in Req, Remove(r), UNCHANGED targets PROVE OneName'
  BY <1>10 DEF OneName, Remove, Go
<1>11. ASSUME NEW r \in Req, GetCount(r), UNCHANGED targets PROVE OneName'
  BY <1>11 DEF OneName, GetCount, Go
<1>12. ASSUME NEW r \in Req, Close(r), UNCHANGED targets PROVE OneName'
  BY <1>12, CloseEffect DEF OneName, Others, SameIndexes
<1>13. ASSUME NEW r \in Req, Destroyed(r), UNCHANGED targets PROVE OneName'
  BY <1>13 DEF OneName, Destroyed
<1>14. ASSUME NEW r \in Req, Delete(r), UNCHANGED targets PROVE OneName'
  BY <1>14 DEF OneName, Delete, Go
<1>15. CASE Finalize /\ UNCHANGED targets
  BY <1>15 DEF OneName, Finalize
<1> QED
  BY <1>1, <1>2, <1>3, <1>4, <1>5, <1>6, <1>7, <1>8, <1>9, <1>10, <1>11, <1>12, <1>13,
   <1>14, <1>15 DEF Next, Step

\* Until it is stored, nobody can find the handle; and its goroutine keeps it
\* from the finalizer.
LEMMA StoredFreshKept ==
  ASSUME TypeOK, HandlesMade, Stages, OneName, StoredFresh, Next
  PROVE  StoredFresh'
<1>1. ASSUME NEW r \in Req, Receive(r), UNCHANGED targets PROVE StoredFresh'
  BY <1>1, ReceiveEffect DEF StoredFresh, Stages, HasIndex, Pc, Others, SameIndexes
<1>2. ASSUME NEW r \in Req, LookUp(r), UNCHANGED targets PROVE StoredFresh'
  BY <1>2, LookUpEffect DEF StoredFresh, Stages, Others, SameIndexes
<1>3. ASSUME NEW r \in Req, NewIndex(r), UNCHANGED targets PROVE StoredFresh'
  BY <1>3, ServerAssumption DEF StoredFresh, HandlesMade, TypeOK, NewIndex
<1>4. ASSUME NEW r \in Req, Store(r), UNCHANGED targets PROVE StoredFresh'
  BY <1>4 DEF StoredFresh, TypeOK, Store, Go
<1>5. ASSUME NEW r \in Req, Enter(r), UNCHANGED targets PROVE StoredFresh'
  BY <1>5, EnterEffect DEF StoredFresh, Others, SameIndexes
<1>6. ASSUME NEW r \in Req, Fail(r), UNCHANGED targets PROVE StoredFresh'
  BY <1>6 DEF StoredFresh, Fail, Go
<1>7. ASSUME NEW r \in Req, CountBefore(r), UNCHANGED targets PROVE StoredFresh'
  BY <1>7 DEF StoredFresh, TypeOK, CountBefore
<1>8. ASSUME NEW r \in Req, LoadGeoJSON(r), UNCHANGED targets PROVE StoredFresh'
  BY <1>8, LoadEffect DEF StoredFresh, Others, SameIndexes
<1>9. ASSUME NEW r \in Req, CountAfter(r), UNCHANGED targets PROVE StoredFresh'
  BY <1>9 DEF StoredFresh, TypeOK, CountAfter
<1>10. ASSUME NEW r \in Req, Remove(r), UNCHANGED targets PROVE StoredFresh'
  BY <1>10 DEF StoredFresh, Remove, Go
<1>11. ASSUME NEW r \in Req, GetCount(r), UNCHANGED targets PROVE StoredFresh'
  BY <1>11 DEF StoredFresh, GetCount, Go
<1>12. ASSUME NEW r \in Req, Close(r), UNCHANGED targets PROVE StoredFresh'
  BY <1>12, CloseEffect DEF StoredFresh, Others, SameIndexes
<1>13. ASSUME NEW r \in Req, Destroyed(r), UNCHANGED targets PROVE StoredFresh'
  BY <1>13 DEF StoredFresh, Stages, Calls, Destroyed
<1>14. ASSUME NEW r \in Req, Delete(r), UNCHANGED targets PROVE StoredFresh'
  BY <1>14, ServerAssumption DEF StoredFresh, TypeOK, Delete, Go
<1>15. CASE Finalize /\ UNCHANGED targets
  BY <1>15 DEF StoredFresh, Finalize, Reachable, Holding
<1> QED
  BY <1>1, <1>2, <1>3, <1>4, <1>5, <1>6, <1>7, <1>8, <1>9, <1>10, <1>11, <1>12, <1>13,
   <1>14, <1>15 DEF Next, Step

\* A closed handle left in the map has its Delete coming: Destroyed goes there,
\* and the finalizer only closes handles the map does not hold.
LEMMA ClosedAreDeletedKept ==
  ASSUME TypeOK, HandlesMade, Stages, OneName, StoredFresh, ClosedAreDeleted, Next
  PROVE  ClosedAreDeleted'
<1>1. ASSUME NEW r \in Req, Receive(r), UNCHANGED targets PROVE ClosedAreDeleted'
  BY <1>1 DEF ClosedAreDeleted, Receive
<1>2. ASSUME NEW r \in Req, LookUp(r), UNCHANGED targets PROVE ClosedAreDeleted'
  BY <1>2, LookUpEffect DEF ClosedAreDeleted, Others, SameIndexes
<1>3. ASSUME NEW r \in Req, NewIndex(r), UNCHANGED targets PROVE ClosedAreDeleted'
  BY <1>3, NewIndexEffect DEF ClosedAreDeleted, Others
<1>4. ASSUME NEW r \in Req, Store(r), UNCHANGED targets PROVE ClosedAreDeleted'
  <2>1. /\ req[r].pc = "store" /\ req[r].id \in IndexId /\ req[r].idx \in ptr
        /\ indexes' = [indexes EXCEPT ![req[r].id] = req[r].idx] /\ ptr' = ptr
    BY <1>4 DEF Store, Stages, StoredFresh
  <2>2. Others(r)
    BY <1>4 DEF Store, Go, Others, TypeOK
  <2>3. indexes'[req[r].id] = req[r].idx /\ \A i \in IndexId \ {req[r].id} : indexes'[i] = indexes[i]
    BY <2>1 DEF TypeOK
  <2> SUFFICES ASSUME NEW i \in IndexId, indexes'[i] # Nil, indexes'[i] \notin ptr
               PROVE  \E q \in Req : req'[q].pc = "delete" /\ req'[q].idx = indexes'[i] /\ req'[q].id = i
    BY <2>1 DEF ClosedAreDeleted
  <2>4. i # req[r].id /\ indexes'[i] = indexes[i]
    BY <2>1, <2>3
  <2>5. PICK q \in Req : req[q].pc = "delete" /\ req[q].idx = indexes[i] /\ req[q].id = i
    BY <2>4 DEF ClosedAreDeleted
  <2> QED BY <2>1, <2>2, <2>4, <2>5 DEF Others
<1>5. ASSUME NEW r \in Req, Enter(r), UNCHANGED targets PROVE ClosedAreDeleted'
  BY <1>5, EnterEffect DEF ClosedAreDeleted, Others, SameIndexes
<1>6. ASSUME NEW r \in Req, Fail(r), UNCHANGED targets PROVE ClosedAreDeleted'
  BY <1>6 DEF ClosedAreDeleted, Fail, Go
<1>7. ASSUME NEW r \in Req, CountBefore(r), UNCHANGED targets PROVE ClosedAreDeleted'
  BY <1>7 DEF ClosedAreDeleted, TypeOK, CountBefore, InCall
<1>8. ASSUME NEW r \in Req, LoadGeoJSON(r), UNCHANGED targets PROVE ClosedAreDeleted'
  BY <1>8, LoadEffect DEF ClosedAreDeleted, Others, SameIndexes
<1>9. ASSUME NEW r \in Req, CountAfter(r), UNCHANGED targets PROVE ClosedAreDeleted'
  BY <1>9 DEF ClosedAreDeleted, TypeOK, CountAfter, InCall
<1>10. ASSUME NEW r \in Req, Remove(r), UNCHANGED targets PROVE ClosedAreDeleted'
  BY <1>10 DEF ClosedAreDeleted, Remove, InCall, Go
<1>11. ASSUME NEW r \in Req, GetCount(r), UNCHANGED targets PROVE ClosedAreDeleted'
  BY <1>11 DEF ClosedAreDeleted, GetCount, InCall, Go
<1>12. ASSUME NEW r \in Req, Close(r), UNCHANGED targets PROVE ClosedAreDeleted'
  BY <1>12, CloseEffect DEF ClosedAreDeleted, Others, SameIndexes
<1>13. ASSUME NEW r \in Req, Destroyed(r), UNCHANGED targets PROVE ClosedAreDeleted'
  BY <1>13 DEF ClosedAreDeleted, OneName, Stages, TypeOK, Calls, Destroyed
<1>14. ASSUME NEW r \in Req, Delete(r), UNCHANGED targets PROVE ClosedAreDeleted'
  <2>1. /\ req[r].id \in IndexId /\ ptr' = ptr
        /\ indexes' = [indexes EXCEPT ![req[r].id] = Nil]
    BY <1>14 DEF Delete, Stages
  <2>2. Others(r)
    BY <1>14 DEF Delete, Go, Others, TypeOK
  <2>3. indexes'[req[r].id] = Nil /\ \A i \in IndexId \ {req[r].id} : indexes'[i] = indexes[i]
    BY <2>1 DEF TypeOK
  <2> SUFFICES ASSUME NEW i \in IndexId, indexes'[i] # Nil, indexes'[i] \notin ptr
               PROVE  \E q \in Req : req'[q].pc = "delete" /\ req'[q].idx = indexes'[i] /\ req'[q].id = i
    BY <2>1 DEF ClosedAreDeleted
  <2>4. i # req[r].id /\ indexes'[i] = indexes[i]
    BY <2>3
  <2>5. PICK q \in Req : req[q].pc = "delete" /\ req[q].idx = indexes[i] /\ req[q].id = i
    BY <2>4 DEF ClosedAreDeleted
  <2> QED BY <2>2, <2>4, <2>5 DEF Others
<1>15. CASE Finalize /\ UNCHANGED targets
  BY <1>15 DEF ClosedAreDeleted, Finalize, Reachable
<1> QED
  BY <1>1, <1>2, <1>3, <1>4, <1>5, <1>6, <1>7, <1>8, <1>9, <1>10, <1>11, <1>12, <1>13,
   <1>14, <1>15 DEF Next, Step

\* With names of its own, nobody else stores or deletes under the name of a request.
LEMMA OwnNameKept ==
  ASSUME TypeOK, HandlesMade, Stages, Isolated, OwnName, Next
  PROVE  OwnName'
<1>1. ASSUME NEW r \in Req, Receive(r), UNCHANGED targets PROVE OwnName'
  BY <1>1, ReceiveEffect DEF OwnName, HasIndex, Others, SameIndexes
<1>2. ASSUME NEW r \in Req, LookUp(r), UNCHANGED targets PROVE OwnName'
  BY <1>2, LookUpEffect DEF OwnName, HasIndex, Others, SameIndexes
<1>3. ASSUME NEW r \in Req, NewIndex(r), UNCHANGED targets PROVE OwnName'
  BY <1>3, NewIndexEffect DEF OwnName, Others
<1>4. ASSUME NEW r \in Req, Store(r), UNCHANGED targets PROVE OwnName'
  BY <1>4 DEF OwnName, Isolated, Stages, TypeOK, Store, Go
<1>5. ASSUME NEW r \in Req, Enter(r), UNCHANGED targets PROVE OwnName'
  BY <1>5, EnterEffect DEF OwnName, HasIndex, Pc, Others, SameIndexes
<1>6. ASSUME NEW r \in Req, Fail(r), UNCHANGED targets PROVE OwnName'
  BY <1>6 DEF OwnName, HasIndex, Fail, Go
<1>7. ASSUME NEW r \in Req, CountBefore(r), UNCHANGED targets PROVE OwnName'
  <2>1. /\ Others(r) /\ indexes' = indexes /\ req[r].pc = "in_before"
        /\ req'[r].pc = "load" /\ req'[r].id = req[r].id /\ req'[r].idx = req[r].idx
    BY <1>7 DEF CountBefore, InCall, Others, TypeOK, Request
  <2> QED BY <2>1 DEF OwnName, HasIndex, Pc, Others
<1>8. ASSUME NEW r \in Req, LoadGeoJSON(r), UNCHANGED targets PROVE OwnName'
  BY <1>8, LoadEffect DEF OwnName, HasIndex, Pc, Others, SameIndexes
<1>9. ASSUME NEW r \in Req, CountAfter(r), UNCHANGED targets PROVE OwnName'
  BY <1>9 DEF OwnName, HasIndex, TypeOK, CountAfter
<1>10. ASSUME NEW r \in Req, Remove(r), UNCHANGED targets PROVE OwnName'
  BY <1>10 DEF OwnName, HasIndex, Remove, Go
<1>11. ASSUME NEW r \in Req, GetCount(r), UNCHANGED targets PROVE OwnName'
  BY <1>11 DEF OwnName, HasIndex, GetCount, Go
<1>12. ASSUME NEW r \in Req, Close(r), UNCHANGED targets PROVE OwnName'
  BY <1>12, CloseEffect DEF OwnName, HasIndex, Pc, Others, SameIndexes
<1>13. ASSUME NEW r \in Req, Destroyed(r), UNCHANGED targets PROVE OwnName'
  BY <1>13 DEF OwnName, HasIndex, Pc, Destroyed
<1>14. ASSUME NEW r \in Req, Delete(r), UNCHANGED targets PROVE OwnName'
  BY <1>14 DEF OwnName, Isolated, Stages, HasIndex, TypeOK, Delete, Go
<1>15. CASE Finalize /\ UNCHANGED targets
  BY <1>15 DEF OwnName, Finalize
<1> QED
  BY <1>1, <1>2, <1>3, <1>4, <1>5, <1>6, <1>7, <1>8, <1>9, <1>10, <1>11, <1>12, <1>13,
   <1>14, <1>15 DEF Next, Step

\* With names of its own, nobody else destroys the index of a call; and the map
\* holds the handle, so that the finalizer leaves it alone.
LEMMA OwnCallKept ==
  ASSUME TypeOK, HandlesMade, Stages, OneName, Isolated, OwnName, OwnCall, Next
  PROVE  OwnCall'
<1>1. ASSUME NEW r \in Req, Receive(r), UNCHANGED targets PROVE OwnCall'
  BY <1>1, ReceiveEffect DEF OwnCall, Others, SameIndexes
<1>2. ASSUME NEW r \in Req, LookUp(r), UNCHANGED targets PROVE OwnCall'
  BY <1>2, LookUpEffect DEF OwnCall, Calls, Others, SameIndexes
<1>3. ASSUME NEW r \in Req, NewIndex(r), UNCHANGED targets PROVE OwnCall'
  BY <1>3, NewIndexEffect DEF OwnCall, Calls, Others
<1>4. ASSUME NEW r \in Req, Store(r), UNCHANGED targets PROVE OwnCall'
  BY <1>4 DEF OwnCall, Calls, Store, Go
<1>5. ASSUME NEW r \in Req, Enter(r), UNCHANGED targets PROVE OwnCall'
  BY <1>5, EnterEffect DEF OwnCall, Others, SameIndexes
<1>6. ASSUME NEW r \in Req, Fail(r), UNCHANGED targets PROVE OwnCall'
  BY <1>6 DEF OwnCall, Fail, Go
<1>7. ASSUME NEW r \in Req, CountBefore(r), UNCHANGED targets PROVE OwnCall'
  BY <1>7 DEF OwnCall, TypeOK, Calls, CountBefore
<1>8. ASSUME NEW r \in Req, LoadGeoJSON(r), UNCHANGED targets PROVE OwnCall'
  BY <1>8, LoadEffect DEF OwnCall, Calls, Others, SameIndexes
<1>9. ASSUME NEW r \in Req, CountAfter(r), UNCHANGED targets PROVE OwnCall'
  BY <1>9 DEF OwnCall, TypeOK, Calls, CountAfter
<1>10. ASSUME NEW r \in Req, Remove(r), UNCHANGED targets PROVE OwnCall'
  BY <1>10 DEF OwnCall, Calls, Remove, Go
<1>11. ASSUME NEW r \in Req, GetCount(r), UNCHANGED targets PROVE OwnCall'
  BY <1>11 DEF OwnCall, Calls, GetCount, Go
<1>12. ASSUME NEW r \in Req, Close(r), UNCHANGED targets PROVE OwnCall'
  BY <1>12, CloseEffect DEF OwnCall, Calls, Others, SameIndexes
<1>13. ASSUME NEW r \in Req, Destroyed(r), UNCHANGED targets PROVE OwnCall'
  <2>1. /\ Others(r) /\ req[r].pc = "in_destroy" /\ req'[r].pc = "delete"
        /\ ptr' = ptr \ {req[r].use} /\ req[r].use = req[r].idx
    BY <1>13 DEF Destroyed, Others, TypeOK, Request, Stages, Calls
  <2> SUFFICES ASSUME NEW q \in Req, req'[q].pc \in Calls, req'[q].use # Nil
               PROVE  req'[q].use \in ptr'
    BY DEF OwnCall
  <2>2. q # r /\ req'[q] = req[q]
    BY <2>1 DEF Others, Calls
  <2>3. req[q].use = req[q].idx /\ req[q].use \in ptr /\ req[q].pc # "idle"
    BY <2>2 DEF Stages, OwnCall, Calls
  <2>4. req[q].idx # req[r].idx
    BY <2>1, <2>2, <2>3, OwnHandle
  <2> QED BY <2>1, <2>2, <2>3, <2>4
<1>14. ASSUME NEW r \in Req, Delete(r), UNCHANGED targets PROVE OwnCall'
  BY <1>14 DEF OwnCall, Calls, Delete, Go
<1>15. CASE Finalize /\ UNCHANGED targets
  <2>1. PICK h \in ptr : ~ Reachable(h) /\ ptr' = ptr \ {h} /\ req' = req
    BY <1>15 DEF Finalize
  <2> SUFFICES ASSUME NEW q \in Req, req[q].pc \in Calls, req[q].use # Nil
               PROVE  req[q].use \in ptr'
    BY <2>1 DEF OwnCall
  <2>2. /\ req[q].use \in ptr /\ req[q].use = req[q].idx /\ req[q].pc # "idle"
        /\ req[q].pc \in HasIndex \ {"store"}
    BY DEF OwnCall, Stages, Calls, HasIndex, Pc
  <2>3. req[q].id \in IndexId /\ indexes[req[q].id] = req[q].use
    BY <2>2 DEF OwnName, Stages
  <2> QED BY <2>1, <2>2, <2>3 DEF Reachable
<1> QED
  BY <1>1, <1>2, <1>3, <1>4, <1>5, <1>6, <1>7, <1>8, <1>9, <1>10, <1>11, <1>12, <1>13,
   <1>14, <1>15 DEF Next, Step

\* With names of its own, nobody else loads or removes between the two counts.
LEMMA OwnCountKept ==
  ASSUME TypeOK, HandlesMade, Stages, OneName, Isolated, OwnCount, Next
  PROVE  OwnCount'
<1>1. ASSUME NEW r \in Req, Receive(r), UNCHANGED targets PROVE OwnCount'
  BY <1>1, ReceiveEffect DEF OwnCount, Others
<1>2. ASSUME NEW r \in Req, LookUp(r), UNCHANGED targets PROVE OwnCount'
  BY <1>2, LookUpEffect DEF OwnCount, Others
<1>3. ASSUME NEW r \in Req, NewIndex(r), UNCHANGED targets PROVE OwnCount'
  BY <1>3, NewIndexEffect DEF OwnCount, Others
<1>4. ASSUME NEW r \in Req, Store(r), UNCHANGED targets PROVE OwnCount'
  BY <1>4 DEF OwnCount, Store, Go
<1>5. ASSUME NEW r \in Req, Enter(r), UNCHANGED targets PROVE OwnCount'
  BY <1>5 DEF OwnCount, TypeOK, Enter, Entering
<1>6. ASSUME NEW r \in Req, Fail(r), UNCHANGED targets PROVE OwnCount'
  BY <1>6 DEF OwnCount, Fail, Go
<1>7. ASSUME NEW r \in Req, CountBefore(r), UNCHANGED targets PROVE OwnCount'
  BY <1>7 DEF OwnCount, Stages, TypeOK, Calls, CountBefore, InCall
<1>8. ASSUME NEW r \in Req, LoadGeoJSON(r), UNCHANGED targets PROVE OwnCount'
  <2>1. req[r].idx = req[r].use /\ req[r].idx # Nil /\ req[r].idx \in Handle
    BY <1>8, LoadEffect DEF Stages, Calls, TypeOK, Request
  <2>2. count'[req[r].idx] = count[req[r].idx] + req'[r].inserted
    BY <1>8, <2>1, LoadEffect DEF TypeOK
  <2>3. ASSUME NEW q \in Req, q # r, req[q].pc # "idle", req[q].idx # Nil
        PROVE  count'[req[q].idx] = count[req[q].idx]
    <3>1. req[q].idx # req[r].idx
      BY <1>8, <2>3, LoadEffect, OwnHandle
    <3>2. req[q].idx \in Handle
      BY <2>3 DEF TypeOK, Request
    <3> QED BY <1>8, <2>1, <3>1, <3>2, LoadEffect DEF TypeOK
  <2>4. ASSUME NEW q \in Req, req[q].pc \in {"load", "in_load", "after", "in_after"}
        PROVE  req[q].pc # "idle" /\ req[q].idx # Nil
    BY <2>4 DEF Stages, HasIndex, Pc
  <2> QED BY <1>8, <2>1, <2>2, <2>3, <2>4, LoadEffect DEF OwnCount, Others
<1>9. ASSUME NEW r \in Req, CountAfter(r), UNCHANGED targets PROVE OwnCount'
  BY <1>9 DEF OwnCount, TypeOK, CountAfter
<1>10. ASSUME NEW r \in Req, Remove(r), UNCHANGED targets PROVE OwnCount'
  <2>1. /\ Others(r) /\ req[r].pc = "in_call" /\ req[r].use # Nil /\ req'[r].pc = "idle"
        /\ req[r].use = req[r].idx /\ req[r].idx \in Handle
    BY <1>10 DEF Remove, Go, InCall, Others, Stages, Calls, TypeOK, Request
  <2>2. ASSUME NEW q \in Req, q # r, req[q].pc # "idle", req[q].idx # Nil
        PROVE  count'[req[q].idx] = count[req[q].idx]
    <3>1. req[q].idx # req[r].idx
      BY <2>1, <2>2, OwnHandle
    <3>2. req[q].idx \in Handle
      BY <2>2 DEF TypeOK, Request
    <3> QED BY <1>10, <2>1, <3>1, <3>2 DEF Remove, TypeOK
  <2>3. ASSUME NEW q \in Req, req[q].pc \in {"load", "in_load", "after", "in_after"}
        PROVE  req[q].pc # "idle" /\ req[q].idx # Nil
    BY <2>3 DEF Stages, HasIndex, Pc
  <2> QED BY <2>1, <2>2, <2>3 DEF OwnCount, Others
<1>11. ASSUME NEW r \in Req, GetCount(r), UNCHANGED targets PROVE OwnCount'
  BY <1>11 DEF OwnCount, GetCount, Go
<1>12. ASSUME NEW r \in Req, Close(r), UNCHANGED targets PROVE OwnCount'
  BY <1>12, CloseEffect DEF OwnCount, Others
<1>13. ASSUME NEW r \in Req, Destroyed(r), UNCHANGED targets PROVE OwnCount'
  BY <1>13 DEF OwnCount, Destroyed
<1>14. ASSUME NEW r \in Req, Delete(r), UNCHANGED targets PROVE OwnCount'
  BY <1>14 DEF OwnCount, Delete, Go
<1>15. CASE Finalize /\ UNCHANGED targets
  BY <1>15 DEF OwnCount, Finalize
<1> QED
  BY <1>1, <1>2, <1>3, <1>4, <1>5, <1>6, <1>7, <1>8, <1>9, <1>10, <1>11, <1>12, <1>13,
   <1>14, <1>15 DEF Next, Step

-----------------------------------------------------------------------------
\* The invariant and what follows from it.

\* Every goroutine is idle at first, and nothing has been made.
LEMMA InitEstablishes == Init => ServerInv
<1> SUFFICES ASSUME Init PROVE ServerInv
  OBVIOUS
<1>1. TypeOK
  <2>1. 0 \in 0..MaxObjects /\ 0 \in (-MaxObjects)..MaxObjects /\ 0 \in 0..MaxHandles
    BY ServerAssumption
  <2>2. NoRequest \in Request
    BY <2>1, PcHas DEF NoRequest, Request, Kind
  <2> QED BY <2>1, <2>2 DEF Init, TypeOK
<1>2. \A r \in Req : req[r].pc = "idle" /\ req[r].idx = Nil /\ req[r].use = Nil
  BY DEF Init, NoRequest
<1>3. PtrIsAlive /\ HandlesMade
  BY <1>2 DEF Init, PtrIsAlive, HandlesMade
<1>4. Stages /\ OneName /\ StoredFresh /\ ClosedAreDeleted
  BY <1>2 DEF Init, Stages, HasIndex, Calls, OneName, StoredFresh, ClosedAreDeleted
<1>5. OwnName /\ OwnCall /\ OwnCount
  BY <1>2 DEF OwnName, OwnCall, OwnCount, HasIndex, Calls
<1> QED BY <1>1, <1>3, <1>4, <1>5 DEF ServerInv, SharedInv, OwnInv

\* The parts together: each step keeps them all, the Own... ones when Isolated.
LEMMA NextPreserves == ServerInv /\ Next => ServerInv'
<1> SUFFICES ASSUME ServerInv, Next PROVE ServerInv'
  OBVIOUS
<1> USE DEF ServerInv, SharedInv, OwnInv
<1>1. TypeOK'
  BY RequestsTypedKept, IndexesTypedKept, DataTypedKept
     DEF RequestsTyped, IndexesTyped, DataTyped, TypeOK
<1>2. SharedInv'
  BY <1>1, PtrIsAliveKept, HandlesMadeKept, StagesKept, OneNameKept, StoredFreshKept,
     ClosedAreDeletedKept
<1>3. Isolated' => Isolated
  BY DEF Isolated, Next
<1>4. Isolated => OwnInv'
  BY OwnNameKept, OwnCallKept, OwnCountKept
<1> QED BY <1>2, <1>3, <1>4

\* The invariant is about vars only.
LEMMA StutterPreserves == ServerInv /\ UNCHANGED vars => ServerInv'
BY DEF ServerInv, SharedInv, OwnInv, TypeOK, PtrIsAlive, HandlesMade, Stages, OneName, StoredFresh,
       ClosedAreDeleted, OwnName, OwnCall, OwnCount, Isolated, vars

(***************************************************************************)
(* ServerInv is an invariant, for any number of goroutines, names and      *)
(* handles, and any setting of the clients' names.                         *)
(***************************************************************************)
THEOREM ServerInvHolds == Spec => []ServerInv
<1>1. ServerInv /\ [Next]_vars => ServerInv'
  BY NextPreserves, StutterPreserves
<1> QED BY <1>1, InitEstablishes, PTL DEF Spec

(***************************************************************************)
(* A handle the map offers to requests has its C index, except between     *)
(* the Close and the Delete of one DestroyIndex (urbis_service.go).        *)
(***************************************************************************)
THEOREM MapHoldsOpenIndexesHolds == Spec => []MapHoldsOpenIndexes
<1>1. ServerInv => MapHoldsOpenIndexes
  BY DEF ServerInv, SharedInv, MapHoldsOpenIndexes, ClosedAreDeleted
<1> QED BY <1>1, ServerInvHolds, PTL

(***************************************************************************)
(* Close and the finalizer of NewIndex (bindings.go) leave no C index      *)
(* behind that nothing can free.                                           *)
(***************************************************************************)
THEOREM NoLeakedIndexHolds == Spec => []NoLeakedIndex
<1>1. ServerInv => NoLeakedIndex
  BY DEF ServerInv, SharedInv, NoLeakedIndex, PtrIsAlive
<1> QED BY <1>1, ServerInvHolds, PTL

(***************************************************************************)
(* Clients with names of their own never have two calls inside one C index *)
(* of which one writes, nor a call inside a freed one.                     *)
(***************************************************************************)
THEOREM NoConflictHolds == Spec => []NoConflict
<1>1. ASSUME ServerInv, Isolated, Conflict PROVE FALSE
  <2> USE DEF ServerInv, SharedInv, OwnInv
  <2>1. PICK q \in Req :
          /\ req[q].pc \in Calls /\ req[q].use # Nil
          /\ \/ req[q].use \notin alive
             \/ \E r \in Req \ {q} : req[r].pc \in Calls /\ req[r].use = req[q].use /\ Writes(r)
    BY <1>1 DEF Conflict
  <2>2. req[q].use \in alive
    BY <1>1, <2>1 DEF OwnCall, PtrIsAlive
  <2>3. PICK r \in Req \ {q} : req[r].pc \in Calls /\ req[r].use = req[q].use
    BY <2>1, <2>2
  <2>4. /\ req[q].idx = req[q].use /\ req[r].idx = req[r].use
        /\ req[q].pc # "idle" /\ req[r].pc # "idle"
    BY <1>1, <2>1, <2>3 DEF Stages, Calls
  <2> QED BY <1>1, <2>1, <2>3, <2>4, OwnHandle
<1>2. ServerInv => NoConflict
  BY <1>1 DEF NoConflict
<1> QED BY <1>2, ServerInvHolds, PTL

(***************************************************************************)
(* While clients have names of their own, an index leaves the map only by  *)
(* the DestroyIndex that looked that index up: neither CreateIndex nor a   *)
(* load replaces one (urbis_service.go, "Check if index already exists").  *)
(***************************************************************************)
THEOREM LeavesByItsDestroyHolds == Spec => LeavesByItsDestroy
<1> DEFINE Leaves ==
      Isolated => \A i \in IndexId : indexes[i] # Nil /\ indexes'[i] # indexes[i] =>
        \E r \in Req : req[r].pc = "delete" /\ req[r].idx = indexes[i]
<1>1. ASSUME ServerInv, Next PROVE Leaves
  <2> SUFFICES ASSUME Isolated, NEW i \in IndexId, indexes[i] # Nil, indexes'[i] # indexes[i]
               PROVE  \E r \in Req : req[r].pc = "delete" /\ req[r].idx = indexes[i]
    OBVIOUS
  <2>1. TypeOK /\ Stages /\ OwnName
    BY <1>1 DEF ServerInv, SharedInv, OwnInv
  <2>2. PICK r \in Req : Store(r) \/ Delete(r)
    BY <1>1 DEF Next, Step, Receive, LookUp, NewIndex, Enter, Fail, CountBefore, LoadGeoJSON,
                CountAfter, Remove, GetCount, Close, Destroyed, Finalize
  <2>3. i = req[r].id
    BY <2>1, <2>2 DEF Store, Delete, TypeOK, Stages
  <2>4. CASE Store(r)
    BY <2>1, <2>3, <2>4 DEF Store, OwnName
  <2>5. CASE Delete(r)
    BY <2>1, <2>3, <2>5 DEF Delete, OwnName, HasIndex, Pc
  <2> QED BY <2>2, <2>4, <2>5
<1>2. ServerInv /\ [Next]_vars => [Leaves]_vars
  BY <1>1
<1> QED BY <1>2, ServerInvHolds, PTL DEF Spec, LeavesByItsDestroy

(***************************************************************************)
(* While clients have names of their own, LoadResponse.objects_loaded is   *)
(* the number of objects the request itself inserted, although it is the   *)
(* difference of two counts of a shared index.                             *)
(***************************************************************************)
THEOREM ReportsOwnObjectsHolds == Spec => ReportsOwnObjects
<1> DEFINE Reports ==
      Isolated => \A r \in Req :
        req[r].pc = "in_after" /\ req[r].use # Nil /\ req'[r].pc = "idle"
          => req'[r].objects_loaded = req[r].inserted
<1>1. ASSUME ServerInv, Next PROVE Reports
  <2> SUFFICES ASSUME Isolated, NEW r \in Req,
                      req[r].pc = "in_after", req[r].use # Nil, req'[r].pc = "idle"
               PROVE  req'[r].objects_loaded = req[r].inserted
    OBVIOUS
  <2>1. TypeOK /\ Stages /\ OwnCount
    BY <1>1 DEF ServerInv, SharedInv, OwnInv
  <2>6. req[r].pc # req'[r].pc
    OBVIOUS
  <2>7. ~ Finalize
    BY <2>6 DEF Finalize
  <2>8. PICK s \in Req : Step(s)
    BY <1>1, <2>7 DEF Next
  <2>9. r = s
    BY <2>1, <2>6, <2>8 DEF TypeOK, Step, Receive, LookUp, NewIndex, Store, Enter, Fail,
       CountBefore,
       LoadGeoJSON, CountAfter, Remove, GetCount, Close, Destroyed, Delete, Go
  <2>2. CountAfter(r)
    BY <2>8, <2>9 DEF Step, Receive, LookUp, NewIndex, Store, Enter, Entering, Fail, CountBefore,
       LoadGeoJSON, Remove, GetCount, Close, Destroyed, Delete, InCall
  <2>3. req[r].use = req[r].idx /\ req[r].use \in Handle
    BY <2>1 DEF Stages, Calls, TypeOK, Request
  <2>4. req'[r].objects_loaded = count[req[r].use] - req[r].countBefore
    BY <2>1, <2>2 DEF CountAfter, TypeOK, Request
  <2>5. req[r].countBefore \in Int /\ req[r].inserted \in Int
    BY <2>1, ServerAssumption DEF TypeOK, Request
  <2> QED BY <2>1, <2>3, <2>4, <2>5 DEF OwnCount
<1>2. ServerInv /\ [Next]_vars => [Reports]_vars
  BY <1>1
<1> QED BY <1>2, ServerInvHolds, PTL DEF Spec, ReportsOwnObjects
=============================================================================
