--------------------------- MODULE PageCacheProofs ---------------------------
(***************************************************************************)
(* The page cache keeps its list and table whole, and is a cache in order  *)
(* of use, for any capacity and any pages.  The argument is the inductive  *)
(* invariant CacheInv: some numbering of the references follows next from  *)
(* head to tail, and prev back; a table entry points at an allocated       *)
(* reference of its bucket; and a page alone in its bucket is cached by    *)
(* the reference in its entry, so that a miss means that it is not cached. *)
(*                                                                         *)
(* Each operation's writes are followed pointer by pointer (its effect),   *)
(* which gives the numbering of the new list; the walks of the code read   *)
(* the numbering; and the pages read along it make each step a step of     *)
(* LruCache, or none.                                                      *)
(***************************************************************************)
EXTENDS PageCache, BasicLemmas, FiniteSetTheorems

-----------------------------------------------------------------------------
\* The list, and the inductive invariant.

Refs == [Ref -> PageRef \cup {Nil}]
Link == Ref \cup {Nil}

\* L numbers the n allocated references of rs from head h to tail t.
Chain(L, n, rs, h, t) ==
  /\ L \in [1..n -> Ref]
  /\ \A i, j \in 1..n : L[i] = L[j] => i = j
  /\ \A r \in Ref : rs[r] # Nil <=> \E i \in 1..n : L[i] = r
  /\ h = IF n = 0 THEN Nil ELSE L[1]
  /\ t = IF n = 0 THEN Nil ELSE L[n]
  /\ \A i \in 1..n : /\ rs[L[i]].next = IF i = n THEN Nil ELSE L[i + 1]
                     /\ rs[L[i]].prev = IF i = 1 THEN Nil ELSE L[i - 1]

IsList(L) == Chain(L, count, refs, head, tail)

\* A page alone in its bucket is cached by the reference in its table entry.
Alone(p) == \A q \in PageIds \ {p} : page_hash(q) # page_hash(p)
AloneInTable ==
  \A r \in Ref : refs[r] # Nil /\ Alone(refs[r].page_id) =>
    hash_table[page_hash(refs[r].page_id)] = r

\* A get that waits for an eviction may add its page when the loop is over.
GetMayAdd ==
  call.op = "get" =>
    /\ call.page \in pool
    /\ call.left = 0 => count < capacity
    /\ Alone(call.page) => \A r \in Ref : refs[r] # Nil => refs[r].page_id # call.page

CacheInv ==
  /\ TypeOK /\ count <= capacity /\ (\E L : IsList(L))
  /\ TableNotDangling /\ AloneInTable /\ GetMayAdd

-----------------------------------------------------------------------------
\* What writing the pointers of a reference does.

\* The references are finitely many numbers, and Nil is none of them.
LEMMA Numbers ==
  /\ capacity \in Nat /\ capacity > 0 /\ Ref \subseteq Nat /\ Nil \notin Ref
  /\ Cardinality(Ref) = capacity + 1 /\ IsFiniteSet(Ref)
<1>1. capacity \in Nat /\ capacity > 0 /\ Nil \notin Nat
  BY CacheAssumption
<1>2. Cardinality(1..(capacity + 1)) = capacity + 1 /\ IsFiniteSet(1..(capacity + 1))
  BY <1>1, FS_Interval
<1> QED BY <1>1, <1>2 DEF Ref

\* Setting next leaves the other fields and references alone.
LEMMA SetNextEffect ==
  ASSUME NEW rs \in Refs, NEW r \in Link, r # Nil => rs[r] # Nil, NEW v \in Link
  PROVE  /\ SetNext(rs, r, v) \in Refs
         /\ \A q \in Ref : SetNext(rs, r, v)[q] = Nil <=> rs[q] = Nil
         /\ \A q \in Ref : rs[q] # Nil =>
              /\ SetNext(rs, r, v)[q].page_id = rs[q].page_id
              /\ SetNext(rs, r, v)[q].prev = rs[q].prev
              /\ SetNext(rs, r, v)[q].next = IF q = r THEN v ELSE rs[q].next
<1>1. CASE r = Nil
  BY <1>1, Numbers DEF SetNext
<1>2. CASE r # Nil
  <2>1. r \in Ref /\ rs[r] \in PageRef
    BY <1>2 DEF Link, Refs
  <2> DEFINE new == [rs[r] EXCEPT !.next = v]
  <2>2. new \in PageRef /\ new.page_id = rs[r].page_id /\ new.prev = rs[r].prev /\ new.next = v
    BY <2>1 DEF PageRef, Link
  <2>3. SetNext(rs, r, v) = [rs EXCEPT ![r] = new]
    BY <1>2 DEF SetNext
  <2> HIDE DEF new
  <2> QED BY <1>2, <2>1, <2>2, <2>3, NilAssumption DEF Refs
<1> QED BY <1>1, <1>2

\* Setting prev, likewise.
LEMMA SetPrevEffect ==
  ASSUME NEW rs \in Refs, NEW r \in Link, r # Nil => rs[r] # Nil, NEW v \in Link
  PROVE  /\ SetPrev(rs, r, v) \in Refs
         /\ \A q \in Ref : SetPrev(rs, r, v)[q] = Nil <=> rs[q] = Nil
         /\ \A q \in Ref : rs[q] # Nil =>
              /\ SetPrev(rs, r, v)[q].page_id = rs[q].page_id
              /\ SetPrev(rs, r, v)[q].next = rs[q].next
              /\ SetPrev(rs, r, v)[q].prev = IF q = r THEN v ELSE rs[q].prev
<1>1. CASE r = Nil
  BY <1>1, Numbers DEF SetPrev
<1>2. CASE r # Nil
  <2>1. r \in Ref /\ rs[r] \in PageRef
    BY <1>2 DEF Link, Refs
  <2> DEFINE new == [rs[r] EXCEPT !.prev = v]
  <2>2. new \in PageRef /\ new.page_id = rs[r].page_id /\ new.next = rs[r].next /\ new.prev = v
    BY <2>1 DEF PageRef, Link
  <2>3. SetPrev(rs, r, v) = [rs EXCEPT ![r] = new]
    BY <1>2 DEF SetPrev
  <2> HIDE DEF new
  <2> QED BY <1>2, <2>1, <2>2, <2>3, NilAssumption DEF Refs
<1> QED BY <1>1, <1>2

\* Unlink changes the pointers of the two neighbours.
LEMMA UnlinkEffect ==
  ASSUME NEW rs \in Refs, NEW r \in Ref, rs[r] # Nil,
         NEW a \in Link, NEW b \in Link, rs[r].prev = a, rs[r].next = b,
         a # Nil => rs[a] # Nil, b # Nil => rs[b] # Nil
  PROVE  /\ Unlink(rs, r) \in Refs
         /\ \A q \in Ref : Unlink(rs, r)[q] = Nil <=> rs[q] = Nil
         /\ \A q \in Ref : rs[q] # Nil =>
              /\ Unlink(rs, r)[q].page_id = rs[q].page_id
              /\ Unlink(rs, r)[q].next = IF q = a THEN b ELSE rs[q].next
              /\ Unlink(rs, r)[q].prev = IF q = b THEN a ELSE rs[q].prev
<1> DEFINE rs1 == SetNext(rs, a, b)
<1>1. /\ rs1 \in Refs /\ \A q \in Ref : rs1[q] = Nil <=> rs[q] = Nil
      /\ \A q \in Ref : rs[q] # Nil =>
           /\ rs1[q].page_id = rs[q].page_id /\ rs1[q].prev = rs[q].prev
           /\ rs1[q].next = IF q = a THEN b ELSE rs[q].next
  BY SetNextEffect
<1>2. Unlink(rs, r) = SetPrev(rs1, b, a)
  BY DEF Unlink
<1> HIDE DEF rs1
<1>3. b # Nil => rs1[b] # Nil
  BY <1>1 DEF Link
<1>4. /\ Unlink(rs, r) \in Refs /\ \A q \in Ref : Unlink(rs, r)[q] = Nil <=> rs1[q] = Nil
      /\ \A q \in Ref : rs1[q] # Nil =>
           /\ Unlink(rs, r)[q].page_id = rs1[q].page_id /\ Unlink(rs, r)[q].next = rs1[q].next
           /\ Unlink(rs, r)[q].prev = IF q = b THEN a ELSE rs1[q].prev
  BY <1>1, <1>2, <1>3, SetPrevEffect
<1> QED BY <1>1, <1>4

\* PushFront changes the pointers of the new head and the old one.
LEMMA PushFrontEffect ==
  ASSUME NEW rs \in Refs, NEW r \in Ref, rs[r] # Nil, head \in Link, head # r,
         head # Nil => rs[head] # Nil
  PROVE  /\ PushFront(rs, r) \in Refs
         /\ \A q \in Ref : PushFront(rs, r)[q] = Nil <=> rs[q] = Nil
         /\ \A q \in Ref : rs[q] # Nil =>
              /\ PushFront(rs, r)[q].page_id = rs[q].page_id
              /\ PushFront(rs, r)[q].next = IF q = r THEN head ELSE rs[q].next
              /\ PushFront(rs, r)[q].prev =
                   IF q = r THEN Nil ELSE IF q = head THEN r ELSE rs[q].prev
<1> DEFINE rs1 == SetNext(rs, r, head)
           rs2 == SetPrev(rs1, r, Nil)
<1>0. r \in Link /\ Nil \in Link /\ r # Nil
  BY Numbers DEF Link
<1>1. /\ rs1 \in Refs /\ \A q \in Ref : rs1[q] = Nil <=> rs[q] = Nil
      /\ \A q \in Ref : rs[q] # Nil =>
           /\ rs1[q].page_id = rs[q].page_id /\ rs1[q].prev = rs[q].prev
           /\ rs1[q].next = IF q = r THEN head ELSE rs[q].next
  BY <1>0, SetNextEffect
<1> HIDE DEF rs1
<1>2. /\ rs2 \in Refs /\ \A q \in Ref : rs2[q] = Nil <=> rs1[q] = Nil
      /\ \A q \in Ref : rs1[q] # Nil =>
           /\ rs2[q].page_id = rs1[q].page_id /\ rs2[q].next = rs1[q].next
           /\ rs2[q].prev = IF q = r THEN Nil ELSE rs1[q].prev
  BY <1>0, <1>1, SetPrevEffect
<1>3. PushFront(rs, r) = SetPrev(rs2, head, r)
  BY DEF PushFront, rs1
<1> HIDE DEF rs2
<1>4. head # Nil => rs2[head] # Nil
  BY <1>1, <1>2 DEF Link
<1>5. /\ PushFront(rs, r) \in Refs /\ \A q \in Ref : PushFront(rs, r)[q] = Nil <=> rs2[q] = Nil
      /\ \A q \in Ref : rs2[q] # Nil =>
           /\ PushFront(rs, r)[q].page_id = rs2[q].page_id
           /\ PushFront(rs, r)[q].next = rs2[q].next
           /\ PushFront(rs, r)[q].prev = IF q = head THEN r ELSE rs2[q].prev
  BY <1>0, <1>2, <1>3, <1>4, SetPrevEffect
<1> QED BY <1>1, <1>2, <1>5

-----------------------------------------------------------------------------
\* What that does to the list.

\* A reference moved to the front of the list.
Fronted(L, n, k) == [i \in 1..n |-> IF i = 1 THEN L[k] ELSE IF i <= k THEN L[i - 1] ELSE L[i]]

\* A reference moved to the front leaves a list, renumbered.
LEMMA ChainMoved ==
  ASSUME NEW L, NEW n \in Nat, NEW rs, NEW h, NEW t, Chain(L, n, rs, h, t),
         NEW k \in 2..n, NEW rs2,
         \A q \in Ref : rs2[q] = Nil <=> rs[q] = Nil,
         \A q \in Ref : rs[q] # Nil =>
           /\ rs2[q].next = IF q = L[k] THEN h
                            ELSE IF q = rs[L[k]].prev THEN rs[L[k]].next ELSE rs[q].next
           /\ rs2[q].prev = IF q = L[k] THEN Nil ELSE IF q = h THEN L[k]
                            ELSE IF q = rs[L[k]].next THEN rs[L[k]].prev ELSE rs[q].prev
  PROVE  Chain(Fronted(L, n, k), n, rs2, L[k], IF L[k] = t THEN rs[L[k]].prev ELSE t)
<1> DEFINE M == Fronted(L, n, k)
<1>1. /\ L \in [1..n -> Ref] /\ \A i, j \in 1..n : L[i] = L[j] => i = j
      /\ \A r \in Ref : rs[r] # Nil <=> \E i \in 1..n : L[i] = r
      /\ h = L[1] /\ t = L[n]
      /\ \A i \in 1..n : /\ rs[L[i]].next = IF i = n THEN Nil ELSE L[i + 1]
                         /\ rs[L[i]].prev = IF i = 1 THEN Nil ELSE L[i - 1]
  BY DEF Chain
<1>2. /\ M[1] = L[k] /\ \A i \in 2..k : M[i] = L[i - 1]
      /\ \A i \in (k + 1)..n : M[i] = L[i]
  BY DEF Fronted
<1>3. M \in [1..n -> Ref]
  BY <1>1 DEF Fronted
<1> HIDE DEF M
<1>4. \A i \in 1..n : i = 1 \/ i \in 2..k \/ i \in (k + 1)..n
  OBVIOUS
<1>5. \A i, j \in 1..n : M[i] = M[j] => i = j
  <2> DEFINE from(i) == IF i = 1 THEN k ELSE IF i <= k THEN i - 1 ELSE i
  <2>1. \A i \in 1..n : from(i) \in 1..n /\ M[i] = L[from(i)]
    BY <1>2
  <2>2. \A i, j \in 1..n : from(i) = from(j) => i = j
    OBVIOUS
  <2> HIDE DEF from
  <2> QED BY <1>1, <2>1, <2>2
<1>6. \A j \in 1..n : \E i \in 1..n : M[i] = L[j]
  <2> TAKE j \in 1..n
  <2>1. CASE j = k
    BY <1>2, <2>1
  <2>2. CASE j < k
    BY <1>2, <2>2
  <2>3. CASE j > k
    BY <1>2, <2>3
  <2> QED BY <2>1, <2>2, <2>3
<1>7. \A i \in 1..n : \E j \in 1..n : L[j] = M[i]
  BY <1>2, <1>4
<1>8. \A r \in Ref : rs2[r] # Nil <=> \E i \in 1..n : M[i] = r
  <2>1. \A r \in Ref : (\E i \in 1..n : M[i] = r) <=> (\E j \in 1..n : L[j] = r)
    BY <1>6, <1>7
  <2>2. \A r \in Ref : rs2[r] # Nil <=> rs[r] # Nil
    OBVIOUS
  <2> QED BY <1>1, <2>1, <2>2
<1>9. \A i \in 1..n : rs[M[i]] # Nil /\ M[i] \in Ref
  BY <1>1, <1>3, <1>7
<1>10. /\ rs[L[k]].prev = L[k - 1] /\ rs[L[k]].next = IF k = n THEN Nil ELSE L[k + 1]
  BY <1>1
<1>11. ASSUME NEW i \in 1..n
       PROVE  /\ rs2[M[i]].next = IF i = n THEN Nil ELSE M[i + 1]
              /\ rs2[M[i]].prev = IF i = 1 THEN Nil ELSE M[i - 1]
  <2>1. CASE i = 1
    BY <1>1, <1>2, <1>9, <2>1
  <2>2. CASE i \in 2..k
    <3>1. M[i] = L[i - 1] /\ i - 1 \in 1..n /\ L[i - 1] # L[k]
      BY <1>1, <1>2, <2>2
    <3>2. rs2[M[i]].next = IF i = n THEN Nil ELSE M[i + 1]
      <4>1. CASE i = k
        BY <1>1, <1>2, <1>9, <1>10, <3>1, <4>1
      <4>2. CASE i # k
        <5>0. i + 1 \in 2..k /\ (i + 1) - 1 = i /\ i # n /\ k - 1 \in 1..n /\ i - 1 # k - 1
          BY <2>2, <4>2
        <5>1. L[i - 1] # L[k - 1] /\ i + 1 \in 2..k /\ M[i + 1] = L[i] /\ i # n
          <6>1. L[i - 1] # L[k - 1]
            BY <1>1, <3>1, <5>0
          <6>2. M[i + 1] = L[i]
            BY <1>2, <5>0
          <6> QED BY <5>0, <6>1, <6>2
        <5>2. rs[L[i - 1]].next = L[i]
          BY <1>1, <2>2, <3>1
        <5> QED BY <1>9, <1>10, <3>1, <5>1, <5>2
      <4> QED BY <4>1, <4>2
    <3>3. rs2[M[i]].prev = M[i - 1]
      <4>1. CASE i = 2
        BY <1>1, <1>2, <1>9, <3>1, <4>1
      <4>2. CASE i # 2
        <5>0. i - 1 \in 2..k /\ (i - 1) - 1 = i - 2 /\ 1 \in 1..n /\ i - 1 # 1
          BY <2>2, <4>2
        <5>1. L[i - 1] # L[1] /\ i - 1 \in 2..k /\ M[i - 1] = L[i - 2]
          <6>1. L[i - 1] # L[1]
            BY <1>1, <3>1, <5>0
          <6>2. M[i - 1] = L[i - 2]
            BY <1>2, <5>0
          <6> QED BY <5>0, <6>1, <6>2
        <5>2. rs[L[i - 1]].prev = L[i - 2]
          BY <1>1, <2>2, <3>1, <4>2
        <5>3. L[i - 1] # rs[L[k]].next
          BY <1>1, <1>10, <2>2, Numbers
        <5> QED BY <1>1, <1>9, <3>1, <5>1, <5>2, <5>3
      <4> QED BY <4>1, <4>2
    <3> QED BY <2>2, <3>2, <3>3
  <2>3. CASE i \in (k + 1)..n
    <3>1. M[i] = L[i] /\ L[i] # L[k] /\ L[i] # L[1] /\ L[i] # L[k - 1] /\ k # n
      BY <1>1, <1>2, <2>3
    <3>2. rs2[M[i]].next = rs[L[i]].next /\ (i # n => M[i + 1] = L[i + 1])
      <4>1. L[i] \in Ref /\ rs[L[i]] # Nil
        BY <1>9, <3>1
      <4>2. rs2[M[i]].next = rs[L[i]].next
        BY <1>10, <3>1, <4>1
      <4>3. i # n => i + 1 \in (k + 1)..n
        BY <2>3
      <4> QED BY <1>2, <4>2, <4>3
    <3>3. rs2[M[i]].prev = M[i - 1]
      <4>1. CASE i = k + 1
        <5>1. M[i - 1] = L[k - 1] /\ rs[L[k]].next = L[i]
          BY <1>2, <1>10, <3>1, <4>1
        <5>2. h = L[1] /\ L[i] \in Ref /\ rs[L[i]] # Nil
          BY <1>1, <1>9, <3>1
        <5> QED BY <1>10, <3>1, <5>1, <5>2
      <4>2. CASE i # k + 1
        <5>1. L[i] # L[k + 1] /\ k + 1 \in 1..n
          BY <1>1, <2>3, <4>2
        <5>2. M[i - 1] = L[i - 1] /\ rs[L[i]].prev = L[i - 1]
          BY <1>1, <1>2, <2>3, <4>2
        <5>3. h = L[1] /\ L[i] \in Ref /\ rs[L[i]] # Nil
          BY <1>1, <1>9, <3>1
        <5> QED BY <1>10, <3>1, <5>1, <5>2, <5>3
      <4> QED BY <4>1, <4>2
    <3>4. rs2[M[i]].next = IF i = n THEN Nil ELSE M[i + 1]
      BY <1>1, <2>3, <3>2
    <3>5. i # 1
      BY <2>3
    <3> QED BY <3>3, <3>4, <3>5
  <2> QED BY <1>4, <2>1, <2>2, <2>3
<1>12. (IF L[k] = t THEN rs[L[k]].prev ELSE t) = M[n]
  <2>1. CASE k = n
    BY <1>1, <1>2, <1>10, <2>1
  <2>2. CASE k # n
    BY <1>1, <1>2, <2>2
  <2> QED BY <2>1, <2>2
<1>13. Chain(M, n, rs2, L[k], M[n])
  BY <1>2, <1>3, <1>5, <1>8, <1>11 DEF Chain
<1> QED BY <1>12, <1>13 DEF M

\* A new reference in front of the list.
Pushed(L, n, r) == [i \in 1..(n + 1) |-> IF i = 1 THEN r ELSE L[i - 1]]

\* A new head leaves a list, one longer.
LEMMA ChainPushed ==
  ASSUME NEW L, NEW n \in Nat, NEW rs, NEW h, NEW t, Chain(L, n, rs, h, t),
         NEW r \in Ref, rs[r] = Nil, NEW rs2,
         \A q \in Ref : rs2[q] = Nil <=> q # r /\ rs[q] = Nil,
         rs2[r].next = h, rs2[r].prev = Nil,
         \A q \in Ref : rs[q] # Nil =>
           /\ rs2[q].next = rs[q].next
           /\ rs2[q].prev = IF q = h THEN r ELSE rs[q].prev
  PROVE  Chain(Pushed(L, n, r), n + 1, rs2, r, IF t = Nil THEN r ELSE t)
<1> DEFINE M == Pushed(L, n, r)
<1>1. /\ L \in [1..n -> Ref] /\ \A i, j \in 1..n : L[i] = L[j] => i = j
      /\ \A q \in Ref : rs[q] # Nil <=> \E i \in 1..n : L[i] = q
      /\ h = (IF n = 0 THEN Nil ELSE L[1]) /\ t = (IF n = 0 THEN Nil ELSE L[n])
      /\ \A i \in 1..n : /\ rs[L[i]].next = IF i = n THEN Nil ELSE L[i + 1]
                         /\ rs[L[i]].prev = IF i = 1 THEN Nil ELSE L[i - 1]
  BY DEF Chain
<1>2. /\ M[1] = r /\ \A i \in 2..(n + 1) : M[i] = L[i - 1] /\ i - 1 \in 1..n
      /\ \A i \in 1..n : M[i + 1] = L[i]
  BY DEF Pushed
<1>3. M \in [1..(n + 1) -> Ref]
  BY <1>1 DEF Pushed
<1> HIDE DEF M
<1>4. \A i \in 1..(n + 1) : i = 1 \/ i \in 2..(n + 1)
  OBVIOUS
<1>5. \A i \in 1..n : L[i] # r /\ rs[L[i]] # Nil /\ L[i] \in Ref
  BY <1>1
<1>6. \A i, j \in 1..(n + 1) : M[i] = M[j] => i = j
  BY <1>1, <1>2, <1>4, <1>5
<1>7. \A q \in Ref : rs2[q] # Nil <=> \E i \in 1..(n + 1) : M[i] = q
  <2>1. \A i \in 1..(n + 1) : rs2[M[i]] # Nil
    <3> TAKE i \in 1..(n + 1)
    <3>1. CASE i = 1
      BY <1>2, <3>1
    <3>2. CASE i \in 2..(n + 1)
      <4>1. M[i] = L[i - 1] /\ L[i - 1] \in Ref /\ L[i - 1] # r /\ rs[L[i - 1]] # Nil
        BY <1>2, <1>5, <3>2
      <4> QED BY <4>1
    <3> QED BY <3>1, <3>2
  <2>2. \A q \in Ref : rs2[q] # Nil => \E i \in 1..(n + 1) : M[i] = q
    <3> SUFFICES ASSUME NEW q \in Ref, rs2[q] # Nil PROVE \E i \in 1..(n + 1) : M[i] = q
      OBVIOUS
    <3>1. CASE q = r
      BY <1>2, <3>1
    <3>2. CASE q # r
      <4>1. PICK i \in 1..n : L[i] = q
        BY <1>1, <3>2
      <4> QED BY <1>2, <4>1
    <3> QED BY <3>1, <3>2
  <2> QED BY <2>1, <2>2
<1>8. ASSUME NEW i \in 1..(n + 1)
      PROVE  /\ rs2[M[i]].next = IF i = n + 1 THEN Nil ELSE M[i + 1]
             /\ rs2[M[i]].prev = IF i = 1 THEN Nil ELSE M[i - 1]
  <2>1. CASE i = 1
    BY <1>1, <1>2, <2>1
  <2>2. CASE i \in 2..(n + 1)
    <3>1. M[i] = L[i - 1] /\ i - 1 \in 1..n /\ n # 0
      BY <1>2, <2>2
    <3>2. rs2[M[i]].next = IF i = n + 1 THEN Nil ELSE M[i + 1]
      <4>1. CASE i = n + 1
        BY <1>1, <1>5, <3>1, <4>1
      <4>2. CASE i # n + 1
        BY <1>1, <1>2, <1>5, <2>2, <3>1, <4>2
      <4> QED BY <4>1, <4>2
    <3>3. rs2[M[i]].prev = M[i - 1]
      <4>1. CASE i = 2
        BY <1>1, <1>2, <1>5, <3>1, <4>1
      <4>2. CASE i # 2
        <5>1. L[i - 1] # L[1] /\ i - 1 \in 2..(n + 1) /\ M[i - 1] = L[i - 2]
          BY <1>1, <1>2, <2>2, <4>2
        <5>2. rs[L[i - 1]].prev = L[i - 2]
          BY <1>1, <3>1, <4>2
        <5>3. L[i - 1] # h /\ L[i - 1] \in Ref /\ rs[L[i - 1]] # Nil
          BY <1>1, <1>5, <3>1, <5>1
        <5> QED BY <3>1, <5>1, <5>2, <5>3
      <4> QED BY <4>1, <4>2
    <3> QED BY <2>2, <3>2, <3>3
  <2> QED BY <1>4, <2>1, <2>2
<1>9. (IF t = Nil THEN r ELSE t) = M[n + 1]
  <2>1. CASE n = 0
    BY <1>1, <1>2, <2>1
  <2>2. CASE n # 0
    BY <1>1, <1>2, <2>2, Numbers
  <2> QED BY <2>1, <2>2
<1>10. Chain(M, n + 1, rs2, r, M[n + 1])
  BY <1>2, <1>3, <1>6, <1>7, <1>8 DEF Chain
<1> QED BY <1>9, <1>10 DEF M

\* The list without its last reference.
Dropped(L, n) == [i \in 1..(n - 1) |-> L[i]]

\* The list without its tail is a list, one shorter.
LEMMA ChainDropped ==
  ASSUME NEW L, NEW n \in Nat, n # 0, NEW rs, NEW h, NEW t, Chain(L, n, rs, h, t),
         NEW rs2,
         \A q \in Ref : rs2[q] = Nil <=> q = t \/ rs[q] = Nil,
         \A q \in Ref \ {t} : rs[q] # Nil =>
           /\ rs2[q].next = IF q = rs[t].prev THEN rs[t].next ELSE rs[q].next
           /\ rs2[q].prev = rs[q].prev
  PROVE  Chain(Dropped(L, n), n - 1, rs2, IF t = h THEN rs[t].next ELSE h, rs[t].prev)
<1> DEFINE M == Dropped(L, n)
<1>1. /\ L \in [1..n -> Ref] /\ \A i, j \in 1..n : L[i] = L[j] => i = j
      /\ \A q \in Ref : rs[q] # Nil <=> \E i \in 1..n : L[i] = q
      /\ h = L[1] /\ t = L[n]
      /\ \A i \in 1..n : /\ rs[L[i]].next = IF i = n THEN Nil ELSE L[i + 1]
                         /\ rs[L[i]].prev = IF i = 1 THEN Nil ELSE L[i - 1]
  BY DEF Chain
<1>2. \A i \in 1..(n - 1) : M[i] = L[i] /\ i \in 1..n /\ L[i] # t /\ L[i] \in Ref /\ rs[L[i]] # Nil
  BY <1>1 DEF Dropped
<1>3. M \in [1..(n - 1) -> Ref]
  BY <1>1 DEF Dropped
<1> HIDE DEF M
<1>4. \A i, j \in 1..(n - 1) : M[i] = M[j] => i = j
  BY <1>1, <1>2
<1>5. \A q \in Ref : rs2[q] # Nil <=> \E i \in 1..(n - 1) : M[i] = q
  <2>1. \A i \in 1..(n - 1) : rs2[M[i]] # Nil
    BY <1>2
  <2>2. ASSUME NEW q \in Ref, rs2[q] # Nil PROVE \E i \in 1..(n - 1) : M[i] = q
    <3>1. PICK i \in 1..n : L[i] = q /\ q # t
      BY <1>1, <2>2
    <3>2. i \in 1..(n - 1)
      BY <1>1, <3>1
    <3> QED BY <1>2, <3>1, <3>2
  <2> QED BY <2>1, <2>2
<1>6. rs[t].prev = (IF n = 1 THEN Nil ELSE L[n - 1]) /\ rs[t].next = Nil
  BY <1>1
<1>7. ASSUME NEW i \in 1..(n - 1)
      PROVE  /\ rs2[M[i]].next = IF i = n - 1 THEN Nil ELSE M[i + 1]
             /\ rs2[M[i]].prev = IF i = 1 THEN Nil ELSE M[i - 1]
  <2>1. rs2[M[i]].prev = IF i = 1 THEN Nil ELSE M[i - 1]
    <3>1. M[i] = L[i] /\ i \in 1..n /\ rs2[L[i]].prev = rs[L[i]].prev
      BY <1>2
    <3>2. i # 1 => M[i - 1] = L[i - 1]
      BY <1>2
    <3> QED BY <1>1, <3>1, <3>2
  <2>2. CASE i = n - 1
    BY <1>2, <1>6, <2>1, <2>2
  <2>3. CASE i # n - 1
    <3>1. L[i] # rs[t].prev /\ M[i + 1] = L[i + 1] /\ rs[L[i]].next = L[i + 1]
      BY <1>1, <1>2, <1>6, <2>3
    <3> QED BY <1>2, <2>1, <2>3, <3>1
  <2> QED BY <2>2, <2>3
<1>8. (IF t = h THEN rs[t].next ELSE h) = IF n - 1 = 0 THEN Nil ELSE M[1]
  BY <1>1, <1>2, <1>6
<1>9. rs[t].prev = IF n - 1 = 0 THEN Nil ELSE M[n - 1]
  BY <1>1, <1>2, <1>6
<1>10. Chain(M, n - 1, rs2, IF t = h THEN rs[t].next ELSE h, rs[t].prev)
  BY <1>3, <1>4, <1>5, <1>7, <1>8, <1>9 DEF Chain
<1> QED BY <1>10 DEF M

-----------------------------------------------------------------------------
\* The walks of the code along the list.

\* What a walk from position j of the list meets: the list from there on.
From(L, j) == IF j = count + 1 THEN Nil ELSE L[j]
Rest(L, j) == [n \in 0..Cardinality(Ref) |-> IF j + n <= count THEN L[j + n] ELSE Nil]

WalksAlong == \A L : IsList(L) => \A j \in 1..(count + 1) : Walk(From(L, j)) = Rest(L, j)

\* A walk through next meets the list in order, then Nil.
LEMMA WalkAlong == count \in Nat => WalksAlong
<1> SUFFICES ASSUME count \in Nat, NEW L, IsList(L), NEW j \in 1..(count + 1)
             PROVE  Walk(From(L, j)) = Rest(L, j)
  BY DEF WalksAlong
<1> DEFINE N == Cardinality(Ref)
           r == From(L, j)
           f == Rest(L, j)
           Step(w) == [n \in 0..N |-> IF n = 0 THEN r
                         ELSE IF w[n - 1] = Nil THEN Nil ELSE refs[w[n - 1]].next]
           w == CHOOSE g : g = Step(g)
<1>1. N \in Nat /\ N = capacity + 1 /\ Nil \notin Ref
  BY Numbers
<1>2. Walk(r) = w
  BY DEF Walk
<1>3. /\ f = [n \in 0..N |-> f[n]]
      /\ \A n \in 0..N : f[n] = IF j + n <= count THEN L[j + n] ELSE Nil
  BY DEF Rest
<1>4. /\ \A i \in 1..count : L[i] \in Ref
      /\ \A i \in 1..count : refs[L[i]].next = IF i = count THEN Nil ELSE L[i + 1]
  BY DEF IsList, Chain
<1>5. f[0] = r
  BY <1>1, <1>3 DEF From
<1> HIDE DEF f, r, N
<1>6. ASSUME NEW n \in 0..N, n # 0
      PROVE  f[n] = IF f[n - 1] = Nil THEN Nil ELSE refs[f[n - 1]].next
  <2>1. n - 1 \in 0..N /\ n \in Nat
    BY <1>1, <1>6
  <2>2. CASE j + (n - 1) <= count
    <3>1. j + (n - 1) \in 1..count /\ f[n - 1] = L[j + (n - 1)]
      BY <1>3, <2>1, <2>2
    <3>2. f[n - 1] # Nil
      BY <1>1, <1>4, <3>1
    <3>3. refs[f[n - 1]].next = IF j + (n - 1) = count THEN Nil ELSE L[j + n]
      BY <1>4, <2>1, <3>1
    <3>4. f[n] = IF j + (n - 1) = count THEN Nil ELSE L[j + n]
      BY <1>3, <1>6, <2>1, <2>2
    <3> QED BY <3>2, <3>3, <3>4
  <2>3. CASE ~ (j + (n - 1) <= count)
    BY <1>3, <1>6, <2>1, <2>3
  <2> QED BY <2>2, <2>3
<1>7. f = Step(f)
  <2>1. \A n \in 0..N : f[n] = Step(f)[n]
    BY <1>5, <1>6
  <2> HIDE DEF Step
  <2>2. Step(f) = [n \in 0..N |-> Step(f)[n]]
    BY DEF Step
  <2> QED BY <1>3, <2>1, <2>2
<1>8. w = Step(w)
  <2> HIDE DEF Step
  <2> QED BY <1>7
<1> HIDE DEF w
<1>9. w = [n \in 0..N |-> w[n]] /\ \A n \in 0..N :
        w[n] = IF n = 0 THEN r ELSE IF w[n - 1] = Nil THEN Nil ELSE refs[w[n - 1]].next
  <2>1. w = [n \in 0..N |-> IF n = 0 THEN r
                         ELSE IF w[n - 1] = Nil THEN Nil ELSE refs[w[n - 1]].next]
    BY <1>8
  <2> HIDE DEF Step
  <2> QED BY <2>1
<1>10. \A n \in 0..N : w[n] = f[n]
  <2> DEFINE T == {n \in Nat : n \in 0..N => w[n] = f[n]}
  <2>1. 0 \in T
    BY <1>1, <1>5, <1>9
  <2>2. ASSUME NEW n \in Nat, n \in T PROVE n + 1 \in T
    <3> SUFFICES ASSUME n + 1 \in 0..N PROVE w[n + 1] = f[n + 1]
      BY <2>2
    <3>1. n \in 0..N /\ n + 1 # 0 /\ (n + 1) - 1 = n
      BY <1>1, <2>2
    <3>2. w[n] = f[n]
      BY <2>2, <3>1
    <3> QED BY <1>6, <1>9, <3>1, <3>2
  <2> HIDE DEF T
  <2>3. Nat \subseteq T
    BY <2>1, <2>2, InductiveSet
  <2> QED BY <1>1, <2>3 DEF T
<1>11. w = f
  BY <1>3, <1>9, <1>10
<1> QED BY <1>2, <1>11 DEF f, r

\* A reference of the list is at some position, and Nil is after the last.
LEMMA Positions ==
  ASSUME TypeOK, NEW L, IsList(L), NEW r \in Link, r # Nil => refs[r] # Nil
  PROVE  \E j \in 1..(count + 1) : r = From(L, j)
<1>1. count \in Nat
  BY DEF TypeOK
<1>2. CASE r = Nil
  BY <1>1, <1>2 DEF From
<1>3. CASE r # Nil
  <2>1. PICK j \in 1..count : L[j] = r
    BY <1>3 DEF IsList, Chain, Link
  <2> QED BY <1>1, <2>1 DEF From
<1> QED BY <1>2, <1>3

\* A page's bucket is an entry of the table.
LEMMA PageHash ==
  ASSUME NEW p \in PageIds
  PROVE  page_hash(p) \in 0..(hash_size - 1)
BY CacheAssumption DEF page_hash, hash_size

\* The list is at most as long as a walk may get.
LEMMA CountBound ==
  ASSUME count \in Nat, NEW L, IsList(L)
  PROVE  count <= Cardinality(Ref)
<1>1. L \in Injection(1..count, Ref)
  BY DEF IsList, Chain, Injection, IsInjective
<1>2. Cardinality(1..count) = count
  BY FS_Interval
<1> QED BY <1>1, <1>2, Numbers, FS_Injection

\* What the lookup answers is in the list, with the page asked for; what a
\* table entry points at is never overlooked.
LEMMA LookupFinds ==
  ASSUME TypeOK, TableNotDangling, NEW L, IsList(L), NEW p \in PageIds
  PROVE  /\ Lookup(p) # Nil => \E k \in 1..count : Lookup(p) = L[k] /\ refs[L[k]].page_id = p
         /\ LET h == hash_table[page_hash(p)]
            IN Lookup(p) = Nil /\ h # Nil => refs[h].page_id # p
<1> DEFINE h == hash_table[page_hash(p)]
           w == Walk(h)
           found == {n \in DOMAIN w : w[n] # Nil /\ refs[w[n]].page_id = p}
<1>1. count \in Nat /\ h \in Link /\ page_hash(p) \in DOMAIN hash_table
  BY PageHash DEF TypeOK, Link
<1>2. h # Nil => refs[h] # Nil
  BY <1>1 DEF TableNotDangling
<1>3. PICK j \in 1..(count + 1) : h = From(L, j)
  BY <1>1, <1>2, Positions
<1>4. w = Rest(L, j)
  BY <1>1, <1>3, WalkAlong DEF WalksAlong
<1>5. Lookup(p) = IF found = {} THEN Nil ELSE w[Min(found)]
  BY DEF Lookup
<1> HIDE DEF w, h
<1>6. /\ DOMAIN w = 0..Cardinality(Ref)
      /\ \A n \in 0..Cardinality(Ref) : w[n] = IF j + n <= count THEN L[j + n] ELSE Nil
  BY <1>4 DEF Rest
<1>7. ASSUME Lookup(p) # Nil
      PROVE  \E k \in 1..count : Lookup(p) = L[k] /\ refs[L[k]].page_id = p
  <2>1. found # {} /\ Lookup(p) = w[Min(found)]
    BY <1>5, <1>7
  <2>2. found \subseteq Nat
    BY <1>6, Numbers
  <2>3. Min(found) \in found
    BY <2>1, <2>2, MinIndex
  <2>4. PICK n \in 0..Cardinality(Ref) :
          n = Min(found) /\ w[n] # Nil /\ refs[w[n]].page_id = p
    BY <1>6, <2>3
  <2>5. j + n <= count /\ w[n] = L[j + n]
    BY <1>6, <2>4
  <2>6. j + n \in 1..count
    BY <1>1, <2>5, Numbers
  <2> QED BY <2>1, <2>4, <2>5, <2>6
<1>8. ASSUME Lookup(p) = Nil, h # Nil, refs[h].page_id = p PROVE FALSE
  <2>1. 0 \in 0..Cardinality(Ref) /\ Cardinality(Ref) \in Nat
    BY Numbers
  <2>2. w[0] = h
    BY <1>1, <1>3, <1>6, <1>8, <2>1 DEF From
  <2>3. 0 \in found
    BY <1>6, <1>8, <2>1, <2>2
  <2>4. Lookup(p) = w[Min(found)] /\ Min(found) \in found
    <3>1. found # {} /\ found \subseteq Nat
      BY <1>6, <2>1, <2>3
    <3>2. Min(found) \in found
      BY <3>1, MinIndex
    <3> QED BY <1>5, <3>1, <3>2
  <2>5. w[Min(found)] # Nil
    BY <2>4
  <2> QED BY <1>8, <2>4, <2>5
<1> QED BY <1>7, <1>8 DEF h

-----------------------------------------------------------------------------
\* What the operations do to the list.

\* The fields of an allocated reference have their types.
LEMMA RefFields ==
  ASSUME TypeOK, NEW r \in Ref, refs[r] # Nil
  PROVE  refs[r] \in PageRef /\ refs[r].page_id \in PageIds /\ refs[r].next \in Link
BY DEF TypeOK, PageRef, Link

\* The state's references, and pointers into them, have their types.
LEMMA ListTypes ==
  ASSUME TypeOK, NEW L, IsList(L)
  PROVE  /\ refs \in Refs /\ count \in Nat /\ head \in Link /\ tail \in Link
         /\ head # Nil => refs[head] # Nil
         /\ tail # Nil => refs[tail] # Nil
         /\ \A i \in 1..count : L[i] \in Ref /\ refs[L[i]] # Nil
         /\ \A i \in 1..count :
              /\ refs[L[i]].next \in Link /\ refs[L[i]].next # L[i]
              /\ refs[L[i]].next # Nil => refs[refs[L[i]].next] # Nil
              /\ refs[L[i]].prev \in Link /\ refs[L[i]].prev # L[i]
              /\ refs[L[i]].prev # Nil => refs[refs[L[i]].prev] # Nil
<1>1. refs \in Refs /\ count \in Nat /\ head \in Link /\ tail \in Link
  BY DEF TypeOK, Refs, Link
<1>2. /\ L \in [1..count -> Ref] /\ \A i, j \in 1..count : L[i] = L[j] => i = j
      /\ \A r \in Ref : refs[r] # Nil <=> \E i \in 1..count : L[i] = r
      /\ head = (IF count = 0 THEN Nil ELSE L[1]) /\ tail = (IF count = 0 THEN Nil ELSE L[count])
      /\ \A i \in 1..count : /\ refs[L[i]].next = IF i = count THEN Nil ELSE L[i + 1]
                             /\ refs[L[i]].prev = IF i = 1 THEN Nil ELSE L[i - 1]
  BY DEF IsList, Chain
<1>3. \A i \in 1..count : L[i] \in Ref /\ refs[L[i]] # Nil
  BY <1>2
<1>4. (head # Nil => refs[head] # Nil) /\ (tail # Nil => refs[tail] # Nil)
  BY <1>1, <1>2, <1>3
<1>5. ASSUME NEW i \in 1..count
      PROVE  /\ refs[L[i]].next \in Link /\ refs[L[i]].next # L[i]
             /\ refs[L[i]].next # Nil => refs[refs[L[i]].next] # Nil
  <2>1. CASE i = count
    BY <1>2, <1>3, <2>1, Numbers DEF Link
  <2>2. CASE i # count
    <3>1. i + 1 \in 1..count /\ i # i + 1
      BY <1>1, <2>2
    <3> QED BY <1>2, <1>3, <2>2, <3>1 DEF Link
  <2> QED BY <2>1, <2>2
<1>6. ASSUME NEW i \in 1..count
      PROVE  /\ refs[L[i]].prev \in Link /\ refs[L[i]].prev # L[i]
             /\ refs[L[i]].prev # Nil => refs[refs[L[i]].prev] # Nil
  <2>1. CASE i = 1
    BY <1>2, <1>3, <2>1, Numbers DEF Link
  <2>2. CASE i # 1
    <3>1. i - 1 \in 1..count /\ i # i - 1
      BY <1>1, <2>2
    <3> QED BY <1>2, <1>3, <2>2, <3>1 DEF Link
  <2> QED BY <2>1, <2>2
<1> QED BY <1>1, <1>3, <1>4, <1>5, <1>6

\* References that keep their pages.
SamePages ==
  /\ refs' \in Refs
  /\ \A q \in Ref : refs'[q] = Nil <=> refs[q] = Nil
  /\ \A q \in Ref : refs[q] # Nil => refs'[q].page_id = refs[q].page_id

\* A hit renumbers the list, with the page asked for in front.
LEMMA HitEffect ==
  ASSUME CacheInv, NEW p \in PageIds, GetHit(p)
  PROVE  /\ SamePages
         /\ \E L, M : \E k \in 1..count :
              /\ IsList(L) /\ IsList(M)' /\ M = Fronted(L, count, k)
              /\ refs[L[k]].page_id = p
<1>1. PICK L : IsList(L) /\ TypeOK /\ TableNotDangling
  BY DEF CacheInv
<1>2. PICK k \in 1..count : Lookup(p) = L[k] /\ refs[L[k]].page_id = p
  BY <1>1, LookupFinds DEF GetHit
<1>0. PICK M : M = Fronted(L, count, k)
  OBVIOUS
<1> DEFINE r == L[k]
<1>3. /\ count' = count
      /\ IF r = head THEN UNCHANGED <<refs, head, tail>>
         ELSE /\ refs' = PushFront(Unlink(refs, r), r) /\ head' = r
              /\ tail' = IF r = tail THEN refs[r].prev ELSE tail
  BY <1>2 DEF GetHit
<1>4. /\ count \in Nat /\ L \in [1..count -> Ref] /\ \A i, j \in 1..count : L[i] = L[j] => i = j
      /\ head = L[1]
  <2>1. count \in Nat /\ count # 0
    BY <1>1, <1>2, ListTypes
  <2> QED BY <1>1, <2>1 DEF IsList, Chain
<1>5. CASE r = head
  <2>1. k = 1
    BY <1>4, <1>5
  <2>2. M = L
    <3>1. M = [i \in 1..count |-> M[i]] /\ \A i \in 1..count : M[i] = L[i]
      BY <1>0, <2>1 DEF Fronted
    <3> QED BY <1>4, <3>1
  <2>3. UNCHANGED <<refs, head, tail, count>>
    BY <1>3, <1>5
  <2>4. IsList(L)'
    BY <1>1, <2>3 DEF IsList
  <2>5. SamePages
    BY <1>1, <2>3, ListTypes DEF SamePages
  <2> QED BY <1>0, <1>1, <1>2, <2>2, <2>4, <2>5
<1>6. CASE r # head
  <2>1. k \in 2..count
    BY <1>4, <1>6
  <2> DEFINE rs1 == Unlink(refs, r)
             rs2 == PushFront(rs1, r)
             a == refs[r].prev
             b == refs[r].next
  <2>2. /\ refs \in Refs /\ head \in Link /\ (head # Nil => refs[head] # Nil)
        /\ r \in Ref /\ refs[r] # Nil /\ a \in Link /\ b \in Link
        /\ (a # Nil => refs[a] # Nil) /\ (b # Nil => refs[b] # Nil)
    BY <1>1, ListTypes
  <2>3. /\ rs1 \in Refs /\ \A q \in Ref : rs1[q] = Nil <=> refs[q] = Nil
        /\ \A q \in Ref : refs[q] # Nil =>
             /\ rs1[q].page_id = refs[q].page_id
             /\ rs1[q].next = IF q = a THEN b ELSE refs[q].next
             /\ rs1[q].prev = IF q = b THEN a ELSE refs[q].prev
    <3> HIDE DEF a, b, r, rs1
    <3>1. a = refs[r].prev /\ b = refs[r].next
      BY DEF a, b
    <3> QED BY <2>2, <3>1, UnlinkEffect DEF rs1
  <2> HIDE DEF rs1
  <2>4. rs1[r] # Nil /\ (head # Nil => rs1[head] # Nil)
    BY <2>2, <2>3 DEF Link
  <2>5. /\ rs2 \in Refs /\ \A q \in Ref : rs2[q] = Nil <=> rs1[q] = Nil
        /\ \A q \in Ref : rs1[q] # Nil =>
             /\ rs2[q].page_id = rs1[q].page_id
             /\ rs2[q].next = IF q = r THEN head ELSE rs1[q].next
             /\ rs2[q].prev = IF q = r THEN Nil ELSE IF q = head THEN r ELSE rs1[q].prev
    BY <1>6, <2>2, <2>3, <2>4, PushFrontEffect
  <2>6. refs' = rs2 /\ head' = r /\ tail' = (IF r = tail THEN a ELSE tail)
    BY <1>3, <1>6 DEF rs1
  <2> HIDE DEF rs2
  <2>7. SamePages
    BY <2>3, <2>5, <2>6 DEF SamePages
  <2>8. Chain(L, count, refs, head, tail)
    BY <1>1 DEF IsList
  <2>9. /\ \A q \in Ref : rs2[q] = Nil <=> refs[q] = Nil
        /\ \A q \in Ref : refs[q] # Nil =>
             /\ rs2[q].next = IF q = L[k] THEN head
                              ELSE IF q = refs[L[k]].prev THEN refs[L[k]].next ELSE refs[q].next
             /\ rs2[q].prev = IF q = L[k] THEN Nil ELSE IF q = head THEN L[k]
                              ELSE IF q = refs[L[k]].next THEN refs[L[k]].prev ELSE refs[q].prev
    BY <2>3, <2>5
  <2>10. Chain(M, count, rs2, r, IF r = tail THEN a ELSE tail)
    BY <1>0, <1>4, <2>1, <2>8, <2>9, ChainMoved
  <2>11. IsList(M)'
    BY <1>3, <2>6, <2>10 DEF IsList
  <2> QED BY <1>0, <1>1, <1>2, <2>7, <2>11
<1> QED BY <1>5, <1>6

\* The end of a miss puts a free reference in front.
LEMMA AddEffect ==
  ASSUME CacheInv, count < capacity, NEW p \in PageIds, AddRef(p)
  PROVE  \E L, M : \E r \in Ref :
           /\ IsList(L) /\ IsList(M)' /\ M = Pushed(L, count, r)
           /\ refs[r] = Nil /\ refs' \in Refs /\ refs'[r] # Nil /\ refs'[r].page_id = p
           /\ \A q \in Ref \ {r} : refs'[q] = Nil <=> refs[q] = Nil
           /\ \A q \in Ref : refs[q] # Nil => refs'[q].page_id = refs[q].page_id
           /\ hash_table' = [hash_table EXCEPT ![page_hash(p)] = r]
<1>1. PICK L : IsList(L) /\ TypeOK
  BY DEF CacheInv
<1>2. refs \in Refs /\ count \in Nat /\ head \in Link /\ (head # Nil => refs[head] # Nil)
  BY <1>1, ListTypes
<1> DEFINE free == {q \in Ref : refs[q] = Nil}
<1>3. free # {}
  <2> SUFFICES ASSUME free = {} PROVE FALSE
    OBVIOUS
  <2>1. \A q \in Ref : \E i \in 1..count : L[i] = q
    BY <1>1 DEF IsList, Chain
  <2>2. L \in [1..count -> Ref]
    BY <1>1 DEF IsList, Chain
  <2>3. L \in Surjection(1..count, Ref)
    BY <2>1, <2>2 DEF Surjection
  <2>4. IsFiniteSet(1..count) /\ Cardinality(1..count) = count
    BY <1>2, FS_Interval
  <2>5. Cardinality(Ref) <= count
    BY <2>3, <2>4, FS_Surjection
  <2> QED BY <1>2, <2>5, Numbers
<1>4. Min(free) \in free
  <2>1. free \subseteq Nat
    BY Numbers
  <2> QED BY <1>3, <2>1, MinIndex
<1>5. PICK r \in Ref : r = Min(free) /\ refs[r] = Nil
  BY <1>4
<1> DEFINE new == [page_id |-> p, next |-> Nil, prev |-> Nil]
           rs1 == [refs EXCEPT ![r] = new]
           rs2 == PushFront(rs1, r)
<1>6. /\ refs' = rs2 /\ head' = r /\ tail' = (IF tail = Nil THEN r ELSE tail)
      /\ hash_table' = [hash_table EXCEPT ![page_hash(p)] = r] /\ count' = count + 1
  BY <1>5 DEF AddRef
<1>7. new \in PageRef /\ new.page_id = p /\ new # Nil
  BY NilAssumption DEF PageRef
<1> HIDE DEF new
<1>8. /\ rs1 \in Refs /\ rs1[r] = new /\ \A q \in Ref \ {r} : rs1[q] = refs[q]
  BY <1>2, <1>7 DEF Refs
<1> HIDE DEF rs1
<1>9. head # r /\ rs1[r] # Nil /\ (head # Nil => rs1[head] # Nil)
  BY <1>2, <1>5, <1>7, <1>8, Numbers DEF Link
<1>10. /\ rs2 \in Refs /\ \A q \in Ref : rs2[q] = Nil <=> rs1[q] = Nil
       /\ \A q \in Ref : rs1[q] # Nil =>
            /\ rs2[q].page_id = rs1[q].page_id
            /\ rs2[q].next = IF q = r THEN head ELSE rs1[q].next
            /\ rs2[q].prev = IF q = r THEN Nil ELSE IF q = head THEN r ELSE rs1[q].prev
  BY <1>2, <1>8, <1>9, PushFrontEffect
<1> HIDE DEF rs2
<1>11. /\ \A q \in Ref : rs2[q] = Nil <=> q # r /\ refs[q] = Nil
       /\ rs2[r].next = head /\ rs2[r].prev = Nil /\ rs2[r].page_id = p
       /\ \A q \in Ref : refs[q] # Nil =>
            /\ rs2[q].next = refs[q].next /\ rs2[q].page_id = refs[q].page_id
            /\ rs2[q].prev = IF q = head THEN r ELSE refs[q].prev
  BY <1>5, <1>7, <1>8, <1>9, <1>10
<1>12. PICK M : M = Pushed(L, count, r)
  OBVIOUS
<1>13. Chain(M, count + 1, rs2, r, IF tail = Nil THEN r ELSE tail)
  <2>1. Chain(L, count, refs, head, tail)
    BY <1>1 DEF IsList
  <2> QED BY <1>2, <1>5, <1>11, <1>12, <2>1, ChainPushed
<1>14. IsList(M)'
  BY <1>6, <1>13 DEF IsList
<1>15. \A q \in Ref \ {r} : refs'[q] = Nil <=> refs[q] = Nil
  BY <1>6, <1>11
<1>16. /\ refs' \in Refs /\ refs'[r] # Nil /\ refs'[r].page_id = p
       /\ \A q \in Ref : refs[q] # Nil => refs'[q].page_id = refs[q].page_id
  BY <1>6, <1>10, <1>11
<1> QED BY <1>1, <1>5, <1>6, <1>12, <1>14, <1>15, <1>16

\* An eviction takes the tail off the list.
LEMMA DropEffect ==
  ASSUME CacheInv, EvictTail
  PROVE  \E L, M :
           /\ IsList(L) /\ IsList(M)' /\ M = Dropped(L, count)
           /\ count # 0 /\ count' = count - 1 /\ tail = L[count] /\ tail \in Ref
           /\ refs[tail] # Nil /\ refs[tail].next = Nil
           /\ refs' \in Refs /\ refs'[tail] = Nil
           /\ \A q \in Ref \ {tail} : refs'[q] = Nil <=> refs[q] = Nil
           /\ \A q \in Ref \ {tail} : refs[q] # Nil => refs'[q].page_id = refs[q].page_id
<1>1. PICK L : IsList(L) /\ TypeOK
  BY DEF CacheInv
<1>2. PICK r \in Ref : r = tail /\ refs[r] # Nil
  BY <1>1, ListTypes DEF EvictTail, Looping, Link
<1>3. /\ count \in Nat /\ count # 0 /\ r = L[count] /\ refs[r].next = Nil /\ refs \in Refs
  <2>1. count \in Nat /\ refs \in Refs
    BY <1>1, ListTypes
  <2>2. count # 0
    BY <1>1, <1>2, Numbers DEF IsList, Chain
  <2>3. r = L[count] /\ count \in 1..count
    BY <1>1, <1>2, <2>1, <2>2 DEF IsList, Chain
  <2> QED BY <1>1, <2>1, <2>2, <2>3 DEF IsList, Chain
<1> DEFINE a == refs[r].prev
           b == refs[r].next
           rs1 == Unlink(refs, r)
           rs2 == [rs1 EXCEPT ![r] = Nil]
<1>4. /\ refs' = rs2 /\ head' = (IF r = head THEN b ELSE head) /\ tail' = a /\ count' = count - 1
  BY <1>2 DEF EvictTail
<1>5. /\ a \in Link /\ b \in Link /\ a # r
      /\ (a # Nil => refs[a] # Nil) /\ (b # Nil => refs[b] # Nil)
  <2>1. count \in 1..count
    BY <1>3
  <2> QED BY <1>1, <1>3, <2>1, ListTypes
<1>6. /\ rs1 \in Refs /\ \A q \in Ref : rs1[q] = Nil <=> refs[q] = Nil
      /\ \A q \in Ref : refs[q] # Nil =>
           /\ rs1[q].page_id = refs[q].page_id
           /\ rs1[q].next = IF q = a THEN b ELSE refs[q].next
           /\ rs1[q].prev = IF q = b THEN a ELSE refs[q].prev
  <2> HIDE DEF a, b, rs1
  <2>1. a = refs[r].prev /\ b = refs[r].next
    BY DEF a, b
  <2> QED BY <1>2, <1>3, <1>5, <2>1, UnlinkEffect DEF rs1
<1> HIDE DEF rs1
<1>7. /\ rs2 \in Refs /\ rs2[r] = Nil /\ \A q \in Ref \ {r} : rs2[q] = rs1[q]
  BY <1>6 DEF Refs
<1> HIDE DEF rs2
<1>8. /\ \A q \in Ref : rs2[q] = Nil <=> q = r \/ refs[q] = Nil
      /\ \A q \in Ref \ {r} : refs[q] # Nil =>
           /\ rs2[q].page_id = refs[q].page_id
           /\ rs2[q].next = IF q = refs[r].prev THEN refs[r].next ELSE refs[q].next
           /\ rs2[q].prev = refs[q].prev
  BY <1>2, <1>3, <1>6, <1>7, Numbers
<1>9. PICK M : M = Dropped(L, count)
  OBVIOUS
<1>10. Chain(M, count - 1, rs2, IF r = head THEN b ELSE head, a)
  <2>1. Chain(L, count, refs, head, r)
    BY <1>1, <1>2 DEF IsList
  <2> QED BY <1>3, <1>8, <1>9, <2>1, ChainDropped
<1>11. IsList(M)'
  BY <1>4, <1>10 DEF IsList
<1>12. /\ refs' \in Refs /\ refs'[tail] = Nil
       /\ \A q \in Ref \ {tail} : refs'[q] = Nil <=> refs[q] = Nil
       /\ \A q \in Ref \ {tail} : refs[q] # Nil => refs'[q].page_id = refs[q].page_id
  BY <1>2, <1>4, <1>7, <1>8
<1> QED BY <1>1, <1>2, <1>3, <1>4, <1>9, <1>11, <1>12

-----------------------------------------------------------------------------
\* Every step keeps the invariant.

\* Steps that touch neither list nor table.
LEMMA ListUntouched ==
  ASSUME CacheInv, UNCHANGED <<refs, head, tail, hash_table, count>>, TypeOK', GetMayAdd'
  PROVE  CacheInv'
<1>1. count' <= capacity /\ TableNotDangling' /\ AloneInTable'
  BY DEF CacheInv, TableNotDangling, AloneInTable
<1>2. \E L : IsList(L)'
  BY DEF CacheInv, IsList
<1> QED BY <1>1, <1>2 DEF CacheInv

\* A hit keeps the invariant: no reference changes its page.
LEMMA HitKept ==
  ASSUME CacheInv, NEW p \in PageIds, GetHit(p)
  PROVE  CacheInv'
<1>1. TypeOK /\ count <= capacity /\ TableNotDangling /\ AloneInTable /\ GetMayAdd
  BY DEF CacheInv
<1>2. /\ call = NoCall
      /\ UNCHANGED <<hash_table, count, pool, pinned, call>> /\ result' = page_pool_get(p)
  BY DEF GetHit
<1>3. PICK M : IsList(M)'
  BY HitEffect
<1>4. /\ refs' \in Refs
      /\ \A q \in Ref : refs'[q] = Nil <=> refs[q] = Nil
      /\ \A q \in Ref : refs[q] # Nil => refs'[q].page_id = refs[q].page_id
  BY HitEffect DEF SamePages
<1>5. TypeOK'
  <2>1. count \in Nat /\ M \in [1..count -> Ref]
    BY <1>1, <1>2, <1>3 DEF TypeOK, IsList, Chain
  <2>2. head' \in Ref \cup {Nil} /\ tail' \in Ref \cup {Nil}
    BY <1>2, <1>3, <2>1 DEF IsList, Chain
  <2>3. result' \in PageIds \cup {Nil}
    BY <1>2 DEF page_pool_get
  <2> QED BY <1>1, <1>2, <1>4, <2>2, <2>3 DEF TypeOK, Refs
<1>6. TableNotDangling'
  BY <1>1, <1>2, <1>4 DEF TypeOK, TableNotDangling
<1>7. AloneInTable'
  BY <1>1, <1>2, <1>4 DEF AloneInTable
<1>8. GetMayAdd'
  BY <1>2 DEF NoCall, GetMayAdd
<1> QED BY <1>1, <1>2, <1>3, <1>5, <1>6, <1>7, <1>8 DEF CacheInv

\* So does a new reference: its entry of the table is its own.
LEMMA AddKept ==
  ASSUME CacheInv, count < capacity, NEW p \in pool, AddRef(p), call' = NoCall,
         Alone(p) => \A q \in Ref : refs[q] # Nil => refs[q].page_id # p
  PROVE  CacheInv'
<1>1. TypeOK /\ count <= capacity /\ TableNotDangling /\ AloneInTable /\ p \in PageIds
  BY DEF CacheInv, TypeOK
<1>2. count' = count + 1 /\ UNCHANGED <<pool, pinned>> /\ result' = p
  BY DEF AddRef
<1>3. PICK M, r :
        /\ IsList(M)' /\ r \in Ref
        /\ refs[r] = Nil /\ refs' \in Refs /\ refs'[r] # Nil /\ refs'[r].page_id = p
        /\ \A q \in Ref \ {r} : refs'[q] = Nil <=> refs[q] = Nil
        /\ \A q \in Ref : refs[q] # Nil => refs'[q].page_id = refs[q].page_id
        /\ hash_table' = [hash_table EXCEPT ![page_hash(p)] = r]
  BY <1>1, AddEffect
<1>4. count' \in Nat /\ count' <= capacity
  BY <1>1, <1>2, Numbers DEF TypeOK
<1>5. page_hash(p) \in DOMAIN hash_table /\ hash_table \in [0..(hash_size - 1) -> Ref \cup {Nil}]
  BY <1>1, PageHash DEF TypeOK
<1>6. /\ hash_table'[page_hash(p)] = r /\ DOMAIN hash_table' = DOMAIN hash_table
      /\ \A i \in DOMAIN hash_table \ {page_hash(p)} : hash_table'[i] = hash_table[i]
  BY <1>3, <1>5
<1>7. TypeOK'
  <2>1. M \in [1..count' -> Ref]
    BY <1>3 DEF IsList, Chain
  <2>2. head' \in Ref \cup {Nil} /\ tail' \in Ref \cup {Nil}
    BY <1>3, <1>4, <2>1 DEF IsList, Chain
  <2>3. hash_table' \in [0..(hash_size - 1) -> Ref \cup {Nil}]
    BY <1>3, <1>5
  <2>4. call' \in Call
    BY CacheAssumption DEF NoCall, Call
  <2> QED BY <1>1, <1>2, <1>3, <1>4, <2>2, <2>3, <2>4 DEF TypeOK, Refs
<1>8. TableNotDangling'
  <2>1. ASSUME NEW i \in DOMAIN hash_table', hash_table'[i] # Nil
        PROVE  refs'[hash_table'[i]] # Nil /\ page_hash(refs'[hash_table'[i]].page_id) = i
    <3>1. CASE i = page_hash(p)
      BY <1>3, <1>6, <3>1
    <3>2. CASE i # page_hash(p)
      <4>1. hash_table'[i] = hash_table[i] /\ hash_table[i] \in Ref
        BY <1>5, <1>6, <2>1, <3>2
      <4>2. refs[hash_table[i]] # Nil /\ page_hash(refs[hash_table[i]].page_id) = i
        BY <1>1, <1>6, <2>1, <3>2, <4>1 DEF TableNotDangling
      <4> QED BY <1>3, <4>1, <4>2
    <3> QED BY <3>1, <3>2
  <2> QED BY <2>1 DEF TableNotDangling
<1>9. AloneInTable'
  <2>1. ASSUME NEW q \in Ref, refs'[q] # Nil, Alone(refs'[q].page_id)
        PROVE  hash_table'[page_hash(refs'[q].page_id)] = q
    <3>1. CASE q = r
      BY <1>3, <1>6, <3>1
    <3>2. CASE q # r
      <4>1. refs[q] # Nil /\ refs'[q].page_id = refs[q].page_id /\ refs[q].page_id \in PageIds
        BY <1>1, <1>3, <2>1, <3>2, RefFields
      <4>2. refs[q].page_id # p
        BY <2>1, <4>1
      <4>3. page_hash(p) # page_hash(refs[q].page_id)
        BY <1>1, <2>1, <4>1, <4>2 DEF Alone
      <4>4. hash_table[page_hash(refs[q].page_id)] = q
        BY <1>1, <2>1, <4>1 DEF AloneInTable
      <4>5. page_hash(refs[q].page_id) \in DOMAIN hash_table
        BY <1>5, <4>1, PageHash
      <4> QED BY <1>6, <4>1, <4>3, <4>4, <4>5
    <3> QED BY <3>1, <3>2
  <2> QED BY <2>1 DEF AloneInTable
<1>10. GetMayAdd'
  BY DEF NoCall, GetMayAdd
<1> QED BY <1>3, <1>4, <1>7, <1>8, <1>9, <1>10 DEF CacheInv

\* So does an eviction: the tail leaves its entry, and nothing followed it.
LEMMA DropKept ==
  ASSUME CacheInv, EvictTail
  PROVE  CacheInv'
<1>1. TypeOK /\ count <= capacity /\ TableNotDangling /\ AloneInTable /\ GetMayAdd
  BY DEF CacheInv
<1>2. /\ UNCHANGED <<pool, pinned, result>> /\ call.left > 0
      /\ call' = [call EXCEPT !.left = @ - 1] /\ hash_table' = TableWithout(tail)
  BY DEF EvictTail, Looping
<1>3. PICK M, t :
        /\ IsList(M)' /\ t \in Ref /\ count # 0 /\ count' = count - 1 /\ t = tail
        /\ refs[t] # Nil /\ refs[t].next = Nil
        /\ refs' \in Refs /\ refs'[t] = Nil
        /\ \A q \in Ref \ {t} : refs'[q] = Nil <=> refs[q] = Nil
        /\ \A q \in Ref \ {t} : refs[q] # Nil => refs'[q].page_id = refs[q].page_id
  BY DropEffect
<1>4. count' \in Nat /\ count' < capacity
  BY <1>1, <1>3, Numbers DEF TypeOK
<1>5. page_hash(refs[t].page_id) \in DOMAIN hash_table
  BY <1>1, <1>3, RefFields, PageHash DEF TypeOK
<1>6. /\ DOMAIN hash_table' = DOMAIN hash_table
      /\ \A i \in DOMAIN hash_table :
           hash_table'[i] = IF hash_table[i] = t THEN Nil ELSE hash_table[i]
  <2>1. \A i \in DOMAIN hash_table : hash_table[i] = t => i = page_hash(refs[t].page_id)
    BY <1>1, <1>3, Numbers DEF TableNotDangling
  <2>2. hash_table' = IF hash_table[page_hash(refs[t].page_id)] = t
                      THEN [hash_table EXCEPT ![page_hash(refs[t].page_id)] = Nil] ELSE hash_table
    BY <1>2, <1>3 DEF TableWithout
  <2> QED BY <1>1, <1>5, <2>1, <2>2 DEF TypeOK
<1>7. call'.op = call.op /\ call'.page = call.page /\ call' \in Call
  <2>1. call \in Call
    BY <1>1 DEF TypeOK
  <2>2. call.left - 1 \in 0..MaxCount \cup {1}
    BY <1>2, <2>1, CacheAssumption DEF Call
  <2> QED BY <1>2, <2>1, <2>2 DEF Call
<1>8. TypeOK'
  <2>1. M \in [1..count' -> Ref]
    BY <1>3 DEF IsList, Chain
  <2>2. head' \in Ref \cup {Nil} /\ tail' \in Ref \cup {Nil}
    <3>1. /\ head' = IF count' = 0 THEN Nil ELSE M[1]
          /\ tail' = IF count' = 0 THEN Nil ELSE M[count']
      BY <1>3 DEF IsList, Chain
    <3> QED BY <1>4, <2>1, <3>1
  <2>3. hash_table' \in [0..(hash_size - 1) -> Ref \cup {Nil}]
    BY <1>1, <1>2, <1>3 DEF TypeOK, TableWithout
  <2> QED BY <1>1, <1>2, <1>3, <1>4, <1>7, <2>2, <2>3 DEF TypeOK, Refs
<1>9. TableNotDangling'
  BY <1>1, <1>3, <1>6 DEF TypeOK, TableNotDangling
<1>10. AloneInTable'
  <2>1. ASSUME NEW q \in Ref, refs'[q] # Nil, Alone(refs'[q].page_id)
        PROVE  hash_table'[page_hash(refs'[q].page_id)] = q
    <3>1. q # t /\ refs[q] # Nil /\ refs'[q].page_id = refs[q].page_id
      BY <1>3, <2>1
    <3>2. hash_table[page_hash(refs[q].page_id)] = q
      BY <1>1, <2>1, <3>1 DEF AloneInTable
    <3>3. page_hash(refs[q].page_id) \in DOMAIN hash_table
      BY <1>1, <3>1, RefFields, PageHash DEF TypeOK
    <3> QED BY <1>6, <3>1, <3>2, <3>3
  <2> QED BY <2>1 DEF AloneInTable
<1>11. GetMayAdd'
  <2>1. \A q \in Ref : refs'[q] # Nil => refs[q] # Nil /\ refs'[q].page_id = refs[q].page_id
    BY <1>3
  <2> QED BY <1>1, <1>2, <1>4, <1>7, <2>1 DEF GetMayAdd
<1> QED BY <1>3, <1>4, <1>8, <1>9, <1>10, <1>11, Numbers DEF CacheInv

\* A miss says that a page alone in its bucket is not cached.
LEMMA MissMeansAbsent ==
  ASSUME CacheInv, NEW p \in PageIds, Lookup(p) = Nil, Alone(p)
  PROVE  \A r \in Ref : refs[r] # Nil => refs[r].page_id # p
<1>1. PICK L : IsList(L) /\ TypeOK /\ TableNotDangling /\ AloneInTable
  BY DEF CacheInv
<1>2. hash_table[page_hash(p)] # Nil => refs[hash_table[page_hash(p)]].page_id # p
  BY <1>1, LookupFinds
<1> QED BY <1>1, <1>2, Numbers DEF AloneInTable

\* A get whose eviction is over adds its page to a cache with room for it.
LEMMA GetReturns ==
  ASSUME CacheInv, EvictReturn, call.op = "get"
  PROVE  /\ AddRef(call.page) /\ call' = NoCall
         /\ count < capacity /\ call.page \in pool /\ call.page \in PageIds
         /\ Alone(call.page) => \A r \in Ref : refs[r] # Nil => refs[r].page_id # call.page
<1>0. TypeOK /\ count <= capacity /\ GetMayAdd /\ count \in Nat
  BY DEF CacheInv, TypeOK
<1>1. AddRef(call.page) /\ call' = NoCall /\ (call.left > 0 => tail = Nil)
  BY DEF EvictReturn, Looping
<1>2. count < capacity
  <2>1. CASE tail = Nil
    <3>1. PICK L : IsList(L)
      BY DEF CacheInv
    <3>2. count = 0
      <4> SUFFICES ASSUME count # 0 PROVE FALSE
        OBVIOUS
      <4>1. count \in 1..count
        BY <1>0
      <4>2. tail = L[count] /\ L[count] \in Ref
        BY <3>1, <4>1 DEF IsList, Chain
      <4> QED BY <2>1, <4>2, Numbers
    <3> QED BY <3>2, Numbers
  <2>2. CASE ~ (call.left > 0)
    <3>1. call.left \in Nat
      BY <1>0, CacheAssumption DEF TypeOK, Call
    <3> QED BY <1>0, <2>2, <3>1 DEF GetMayAdd
  <2> QED BY <1>1, <2>1, <2>2
<1>3. /\ call.page \in pool
      /\ Alone(call.page) => \A r \in Ref : refs[r] # Nil => refs[r].page_id # call.page
  BY <1>0 DEF GetMayAdd
<1> QED BY <1>0, <1>1, <1>2, <1>3 DEF TypeOK

\* Every step keeps the invariant.
LEMMA NextCache == CacheInv /\ [Next]_vars => CacheInv'
<1> SUFFICES ASSUME CacheInv, [Next]_vars PROVE CacheInv'
  OBVIOUS
<1>0. TypeOK /\ count <= capacity /\ GetMayAdd /\ count \in Nat
  BY DEF CacheInv, TypeOK
<1>1. ASSUME NEW p \in PageIds, GetHit(p) PROVE CacheInv'
  BY <1>1, HitKept
<1>2. ASSUME NEW p \in PageIds, GetMiss(p) PROVE CacheInv'
  <2>1. call = NoCall /\ p \in pool /\ Lookup(p) = Nil
    BY <1>2 DEF GetMiss
  <2>2. Alone(p) => \A r \in Ref : refs[r] # Nil => refs[r].page_id # p
    BY <2>1, MissMeansAbsent
  <2>3. CASE count >= capacity
    <3>1. /\ call' = [op |-> "get", page |-> p, left |-> 1]
          /\ UNCHANGED <<refs, head, tail, hash_table, count, pool, pinned, result>>
      BY <1>2, <2>3 DEF GetMiss
    <3>2. TypeOK'
      BY <1>0, <3>1 DEF TypeOK, Call
    <3>3. GetMayAdd'
      BY <2>1, <2>2, <3>1 DEF GetMayAdd
    <3> QED BY <3>1, <3>2, <3>3, ListUntouched
  <2>4. CASE ~ (count >= capacity)
    <3>1. AddRef(p) /\ call' = NoCall
      BY <1>2, <2>1, <2>4 DEF GetMiss
    <3>2. count < capacity
      BY <1>0, <2>4, Numbers
    <3> QED BY <2>1, <2>2, <3>1, <3>2, AddKept
  <2> QED BY <2>3, <2>4
<1>3. ASSUME NEW p \in PageIds, GetNull(p) PROVE CacheInv'
  <2>1. TypeOK' /\ GetMayAdd'
    BY <1>0, <1>3 DEF GetNull, TypeOK, GetMayAdd
  <2> QED BY <1>3, <2>1, ListUntouched DEF GetNull
<1>4. ASSUME NEW p \in PageIds, Pin(p) PROVE CacheInv'
  <2>1. TypeOK' /\ GetMayAdd'
    BY <1>0, <1>4 DEF Pin, TypeOK, GetMayAdd
  <2> QED BY <1>4, <2>1, ListUntouched DEF Pin
<1>5. ASSUME NEW p \in PageIds, Unpin(p) PROVE CacheInv'
  <2>1. TypeOK' /\ GetMayAdd'
    BY <1>0, <1>5 DEF Unpin, TypeOK, GetMayAdd
  <2> QED BY <1>5, <2>1, ListUntouched DEF Unpin
<1>6. ASSUME NEW p \in PageIds, FreePage(p) PROVE CacheInv'
  <2>1. TypeOK' /\ GetMayAdd'
    BY <1>0, <1>6 DEF FreePage, TypeOK, GetMayAdd, NoCall
  <2> QED BY <1>6, <2>1, ListUntouched DEF FreePage
<1>7. ASSUME NEW n \in 1..MaxCount, Evict(n) PROVE CacheInv'
  <2>1. TypeOK' /\ GetMayAdd'
    BY <1>0, <1>7, CacheAssumption DEF Evict, TypeOK, Call, GetMayAdd
  <2> QED BY <1>7, <2>1, ListUntouched DEF Evict
<1>8. CASE EvictTail
  BY <1>8, DropKept
<1>9. CASE EvictReturn
  <2>1. CASE call.op = "get"
    <3>1. /\ AddRef(call.page) /\ call' = NoCall /\ count < capacity /\ call.page \in pool
          /\ Alone(call.page) => \A r \in Ref : refs[r] # Nil => refs[r].page_id # call.page
      BY <1>9, <2>1, GetReturns
    <3> QED BY <3>1, AddKept
  <2>2. CASE call.op # "get"
    <3>1. UNCHANGED <<refs, head, tail, hash_table, count, pool, pinned, result>> /\ call' = NoCall
      BY <1>9, <2>2 DEF EvictReturn
    <3>2. TypeOK' /\ GetMayAdd'
      BY <1>0, <3>1, CacheAssumption DEF TypeOK, NoCall, Call, GetMayAdd
    <3> QED BY <3>1, <3>2, ListUntouched
  <2> QED BY <2>1, <2>2
<1>10. CASE UNCHANGED vars
  <2>1. TypeOK' /\ GetMayAdd'
    BY <1>0, <1>10 DEF vars, TypeOK, GetMayAdd
  <2> QED BY <1>10, <2>1, ListUntouched DEF vars
<1>11. CASE EvictSkip
  BY <1>10, <1>11 DEF EvictSkip
<1> QED BY <1>1, <1>2, <1>3, <1>4, <1>5, <1>6, <1>7, <1>8, <1>9, <1>10, <1>11 DEF Next, EvictLoop

\* The empty cache has it.
LEMMA InitCache == Init => CacheInv
<1> SUFFICES ASSUME Init PROVE CacheInv
  OBVIOUS
<1>1. TypeOK
  BY CacheAssumption DEF Init, TypeOK, NoCall, Call
<1>2. \A r \in Ref : refs[r] = Nil
  BY DEF Init
<1>3. IsList([i \in 1..0 |-> 0])
  BY <1>2 DEF Init, IsList, Chain
<1>4. TableNotDangling /\ AloneInTable /\ GetMayAdd
  BY <1>2 DEF Init, TableNotDangling, AloneInTable, GetMayAdd, NoCall
<1>5. count <= capacity
  BY Numbers DEF Init
<1> QED BY <1>1, <1>3, <1>4, <1>5 DEF CacheInv

-----------------------------------------------------------------------------
\* The invariants.

\* The list read from head is the numbered list.
LEMMA ListRead == CacheInv => ListWellFormed
<1> SUFFICES ASSUME CacheInv PROVE ListWellFormed
  OBVIOUS
<1>1. PICK L : IsList(L) /\ TypeOK
  BY DEF CacheInv
<1> DEFINE w == Walk(head)
           N == Cardinality(Ref)
<1>2. /\ count \in Nat /\ count <= N /\ N \in Nat
  BY <1>1, CountBound, Numbers DEF TypeOK
<1>3. /\ L \in [1..count -> Ref] /\ \A i, j \in 1..count : L[i] = L[j] => i = j
      /\ \A r \in Ref : refs[r] # Nil <=> \E i \in 1..count : L[i] = r
      /\ head = (IF count = 0 THEN Nil ELSE L[1]) /\ tail = (IF count = 0 THEN Nil ELSE L[count])
      /\ \A i \in 1..count : refs[L[i]].prev = IF i = 1 THEN Nil ELSE L[i - 1]
  BY <1>1 DEF IsList, Chain
<1>4. w = Rest(L, 1)
  <2>1. head = From(L, 1) /\ 1 \in 1..(count + 1)
    BY <1>2, <1>3 DEF From
  <2> QED BY <1>1, <1>2, <2>1, WalkAlong DEF WalksAlong
<1> HIDE DEF w
<1>5. /\ DOMAIN w = 0..N
      /\ \A n \in 0..N : w[n] = IF 1 + n <= count THEN L[1 + n] ELSE Nil
  BY <1>4 DEF Rest
<1>6. OnList = {r \in Ref : refs[r] # Nil}
  <2>1. OnList = {w[n] : n \in DOMAIN w} \ {Nil}
    BY DEF OnList, w
  <2>2. ASSUME NEW r \in OnList PROVE r \in Ref /\ refs[r] # Nil
    <3>1. PICK n \in 0..N : r = w[n] /\ w[n] # Nil
      BY <1>5, <2>1, <2>2
    <3>2. 1 + n \in 1..count /\ r = L[1 + n]
      BY <1>2, <1>5, <3>1
    <3> QED BY <1>3, <3>2
  <2>3. ASSUME NEW r \in Ref, refs[r] # Nil PROVE r \in OnList
    <3>1. PICK i \in 1..count : L[i] = r
      BY <1>3, <2>3
    <3>2. i - 1 \in 0..N /\ 1 + (i - 1) = i /\ i <= count
      BY <1>2
    <3>3. w[i - 1] = r
      BY <1>5, <3>1, <3>2
    <3>4. r # Nil
      BY Numbers
    <3> QED BY <1>5, <2>1, <3>2, <3>3, <3>4
  <2> QED BY <2>2, <2>3
<1>7. count = Cardinality(OnList)
  <2>1. L \in [1..count -> OnList] /\ \A r \in OnList : \E i \in 1..count : L[i] = r
    BY <1>3, <1>6
  <2>2. L \in Bijection(1..count, OnList)
    BY <1>3, <2>1 DEF Bijection, Injection, IsInjective, Surjection
  <2>3. IsFiniteSet(1..count) /\ Cardinality(1..count) = count
    BY <1>2, FS_Interval
  <2> QED BY <2>2, <2>3, FS_Bijection DEF ExistsBijection
<1>8. w[count] = Nil
  BY <1>2, <1>5
<1>9. tail = IF count = 0 THEN Nil ELSE w[count - 1]
  <2>1. count # 0 => count - 1 \in 0..N /\ 1 + (count - 1) = count
    BY <1>2
  <2> QED BY <1>2, <1>3, <1>5, <2>1
<1>10. ASSUME NEW n \in 0..(count - 1)
       PROVE  refs[w[n]].prev = IF n = 0 THEN Nil ELSE w[n - 1]
  <2>1. n \in 0..N /\ 1 + n \in 1..count /\ w[n] = L[1 + n]
    BY <1>2, <1>5
  <2>2. n # 0 => n - 1 \in 0..N /\ w[n - 1] = L[n] /\ (1 + n) - 1 = n
    BY <1>2, <1>5
  <2> QED BY <1>3, <2>1, <2>2
<1> QED BY <1>1, <1>6, <1>7, <1>8, <1>9, <1>10 DEF ListWellFormed, w

(***************************************************************************)
(* The inductive invariant holds, of the list and the table of page.c.     *)
(***************************************************************************)
THEOREM CacheInvHolds == Spec => []CacheInv
<1> QED BY InitCache, NextCache, PTL DEF Spec

(***************************************************************************)
(* The list survives every move, insertion and eviction: from head it      *)
(* reaches each allocated reference once, ends at tail, prev undoes next,  *)
(* and count is its length, for any capacity.                              *)
(***************************************************************************)
THEOREM ListWellFormedHolds == Spec => []ListWellFormed
<1> QED BY CacheInvHolds, ListRead, PTL

(***************************************************************************)
(* No entry of the hash table points at a freed reference, although next   *)
(* serves both the list and the table's chains.                            *)
(***************************************************************************)
THEOREM TableNotDanglingHolds == Spec => []TableNotDangling
<1>1. CacheInv => TableNotDangling
  BY DEF CacheInv
<1> QED BY <1>1, CacheInvHolds, PTL

-----------------------------------------------------------------------------
\* The cache of page.c is a least-recently-used cache.

\* The pages of the numbered list, in its order.
PagesOf(L) == [i \in 1..count |-> refs[L[i]].page_id]

CachedInOrder == \A L : IsList(L) => Cached = PagesOf(L)

\* The abstract cache read from head on is the pages of the list.
LEMMA CachedPages == TypeOK => CachedInOrder
<1> SUFFICES ASSUME TypeOK, NEW L, IsList(L) PROVE Cached = PagesOf(L)
  BY DEF CachedInOrder
<1> DEFINE w == Walk(head)
<1>1. count \in Nat /\ count <= Cardinality(Ref) /\ Cardinality(Ref) \in Nat
  BY CountBound, Numbers DEF TypeOK
<1>2. w = Rest(L, 1)
  <2>1. head = From(L, 1) /\ 1 \in 1..(count + 1)
    BY <1>1 DEF From, IsList, Chain
  <2> QED BY <1>1, <2>1, WalkAlong DEF WalksAlong
<1>3. Cached = [i \in 1..count |-> refs[w[i - 1]].page_id]
  BY DEF Cached
<1> HIDE DEF w
<1>4. \A n \in 0..Cardinality(Ref) : w[n] = IF 1 + n <= count THEN L[1 + n] ELSE Nil
  BY <1>2 DEF Rest
<1>5. ASSUME NEW i \in 1..count PROVE w[i - 1] = L[i]
  <2>1. i - 1 \in 0..Cardinality(Ref) /\ 1 + (i - 1) = i /\ i <= count
    BY <1>1
  <2> QED BY <1>4, <2>1
<1> QED BY <1>3, <1>5 DEF PagesOf

\* The same, for one list.
LEMMA CachedIs ==
  ASSUME TypeOK, NEW L, IsList(L)
  PROVE  Cached = PagesOf(L)
BY CachedPages DEF CachedInOrder

\* Sequences given element by element.
LEMMA FunctionIsSeq ==
  ASSUME NEW S, NEW n \in Nat, NEW f \in [1..n -> S]
  PROVE  f \in Seq(S) /\ Len(f) = n
OBVIOUS

\* c with its element k, which is x, in front.
ToFront(c, k, x) == <<x>> \o (SubSeq(c, 1, k - 1) \o SubSeq(c, k + 1, Len(c)))

\* In d, element by element.
MovedUp(c, d, k, x) ==
  /\ Len(d) = Len(c) /\ k \in 1..Len(c) /\ d[1] = x
  /\ \A i \in 2..Len(c) : d[i] = IF i <= k THEN c[i - 1] ELSE c[i]

\* The two say the same.
LEMMA SeqMovedToFront ==
  ASSUME NEW S, NEW c \in Seq(S), NEW d \in Seq(S), NEW x \in S, NEW k, MovedUp(c, d, k, x)
  PROVE  d = ToFront(c, k, x)
<1>0. /\ Len(d) = Len(c) /\ k \in 1..Len(c) /\ d[1] = x
      /\ \A i \in 2..Len(c) : d[i] = IF i <= k THEN c[i - 1] ELSE c[i]
  BY DEF MovedUp
<1> DEFINE a == SubSeq(c, 1, k - 1)
           b == SubSeq(c, k + 1, Len(c))
<1>1. Len(c) \in Nat /\ k \in Nat /\ \A i \in 1..Len(c) : c[i] \in S
  BY <1>0, LenProperties, ElementOfSeq
<1>2. /\ a \in Seq(S) /\ Len(a) = k - 1 /\ \A i \in 1..(k - 1) : a[i] = c[i]
  <2>1. 1 \in Int /\ k - 1 \in Int /\ \A i \in 1..(k - 1) : c[i] \in S
    BY <1>0, <1>1
  <2>2. /\ a \in Seq(S) /\ Len(a) = (IF 1 <= k - 1 THEN (k - 1) - 1 + 1 ELSE 0)
        /\ \A i \in 1..((k - 1) - 1 + 1) : a[i] = c[1 + i - 1]
    BY <2>1, SubSeqProperties
  <2> HIDE DEF a
  <2> QED BY <1>0, <1>1, <2>2
<1>3. /\ b \in Seq(S) /\ Len(b) = Len(c) - k /\ \A i \in 1..(Len(c) - k) : b[i] = c[k + i]
  <2>1. k + 1 \in Int /\ Len(c) \in Int /\ \A i \in (k + 1)..Len(c) : c[i] \in S
    BY <1>0, <1>1
  <2>2. /\ b \in Seq(S) /\ Len(b) = (IF k + 1 <= Len(c) THEN Len(c) - (k + 1) + 1 ELSE 0)
        /\ \A i \in 1..(Len(c) - (k + 1) + 1) : b[i] = c[k + 1 + i - 1]
    BY <2>1, SubSeqProperties
  <2> HIDE DEF b
  <2>3. \A i \in 1..(Len(c) - k) : b[i] = c[k + i]
    <3> TAKE i \in 1..(Len(c) - k)
    <3>1. i \in 1..(Len(c) - (k + 1) + 1) /\ k + 1 + i - 1 = k + i
      BY <1>0, <1>1
    <3> QED BY <2>2, <3>1
  <2> QED BY <1>0, <1>1, <2>2, <2>3
<1> HIDE DEF a, b
<1> DEFINE ab == a \o b
<1>4. /\ ab \in Seq(S) /\ Len(ab) = Len(a) + Len(b)
      /\ \A i \in 1..(Len(a) + Len(b)) : ab[i] = IF i <= Len(a) THEN a[i] ELSE b[i - Len(a)]
  <2>1. a \in Seq(S) /\ b \in Seq(S)
    BY <1>2, <1>3
  <2> QED BY <2>1, ConcatProperties
<1>5. /\ ab \in Seq(S) /\ Len(ab) = Len(c) - 1
      /\ \A i \in 1..(Len(c) - 1) : ab[i] = IF i < k THEN c[i] ELSE c[i + 1]
  <2>1. Len(a) + Len(b) = Len(c) - 1
    BY <1>0, <1>1, <1>2, <1>3
  <2>2. ASSUME NEW i \in 1..(Len(c) - 1) PROVE ab[i] = IF i < k THEN c[i] ELSE c[i + 1]
    <3>1. CASE i < k
      <4>1. i \in 1..(k - 1)
        BY <1>1, <3>1
      <4> QED BY <1>1, <1>2, <1>4, <2>1, <3>1, <4>1
    <3>2. CASE ~ (i < k)
      <4>1. i - (k - 1) \in 1..(Len(c) - k) /\ k + (i - (k - 1)) = i + 1
        BY <1>1, <3>2
      <4>2. ab[i] = b[i - (k - 1)]
        BY <1>1, <1>2, <1>4, <2>1, <3>2
      <4> QED BY <1>3, <3>2, <4>1, <4>2
    <3> QED BY <3>1, <3>2
  <2> QED BY <1>4, <2>1, <2>2
<1> HIDE DEF ab
<1>6. <<x>> \in Seq(S) /\ Len(<<x>>) = 1 /\ <<x>>[1] = x
  OBVIOUS
<1>7. /\ <<x>> \o ab \in Seq(S) /\ Len(<<x>> \o ab) = 1 + Len(ab)
      /\ \A i \in 1..(1 + Len(ab)) : (<<x>> \o ab)[i] = IF i <= 1 THEN <<x>>[i] ELSE ab[i - 1]
  BY <1>5, <1>6, ConcatProperties
<1>8. ASSUME NEW i \in 1..Len(c) PROVE d[i] = (<<x>> \o ab)[i]
  <2>1. CASE i = 1
    BY <1>0, <1>1, <1>5, <1>6, <1>7, <2>1
  <2>2. CASE i # 1
    <3>1. i - 1 \in 1..(Len(c) - 1) /\ i \in 2..Len(c) /\ (i - 1) + 1 = i /\ i \in 1..(1 + Len(ab))
      BY <1>1, <1>5, <2>2
    <3>2. (<<x>> \o ab)[i] = ab[i - 1]
      BY <1>7, <3>1
    <3> QED BY <1>0, <1>1, <1>5, <3>1, <3>2
  <2> QED BY <2>1, <2>2
<1>9. Len(<<x>> \o ab) = Len(d)
  BY <1>0, <1>1, <1>5, <1>7
<1> DEFINE e == <<x>> \o ab
<1>10. e \in Seq(S) /\ Len(e) = Len(d) /\ \A i \in 1..Len(d) : d[i] = e[i]
  BY <1>0, <1>7, <1>8, <1>9
<1> HIDE DEF e
<1>11. d = e
  BY <1>10, SeqEqual
<1> QED BY <1>11 DEF e, ab, a, b, ToFront

\* An element in front of c.
LEMMA SeqPushed ==
  ASSUME NEW S, NEW c \in Seq(S), NEW d \in Seq(S), Len(d) = Len(c) + 1,
         NEW x \in S, d[1] = x, \A i \in 1..Len(c) : d[i + 1] = c[i]
  PROVE  d = <<x>> \o c
<1>1. Len(c) \in Nat
  BY LenProperties
<1>2. <<x>> \in Seq(S) /\ Len(<<x>>) = 1 /\ <<x>>[1] = x
  OBVIOUS
<1> DEFINE e == <<x>> \o c
<1>3. /\ e \in Seq(S) /\ Len(e) = 1 + Len(c)
      /\ \A i \in 1..(1 + Len(c)) : e[i] = IF i <= 1 THEN <<x>>[i] ELSE c[i - 1]
  BY <1>2, ConcatProperties
<1> HIDE DEF e
<1>4. ASSUME NEW i \in 1..Len(d) PROVE d[i] = e[i]
  <2>1. CASE i = 1
    BY <1>1, <1>2, <1>3, <2>1
  <2>2. CASE i # 1
    <3>1. i - 1 \in 1..Len(c) /\ (i - 1) + 1 = i /\ i \in 1..(1 + Len(c)) /\ ~ (i <= 1)
      BY <1>1, <2>2
    <3> QED BY <1>3, <3>1
  <2> QED BY <2>1, <2>2
<1>5. d = e
  BY <1>1, <1>3, <1>4, SeqEqual
<1> QED BY <1>5 DEF e

\* c without its last element.
LEMMA SeqDropped ==
  ASSUME NEW S, NEW c \in Seq(S), NEW d \in Seq(S), Len(d) = Len(c) - 1,
         \A i \in 1..(Len(c) - 1) : d[i] = c[i]
  PROVE  d = SubSeq(c, 1, Len(c) - 1)
<1>1. Len(c) \in Nat /\ Len(d) \in Nat /\ \A i \in 1..Len(c) : c[i] \in S
  BY LenProperties, ElementOfSeq
<1> DEFINE n == Len(c) - 1
           e == SubSeq(c, 1, n)
<1>2. 1 \in Int /\ n \in Int /\ \A i \in 1..n : c[i] \in S
  BY <1>1
<1>3. /\ e \in Seq(S) /\ Len(e) = (IF 1 <= n THEN n - 1 + 1 ELSE 0)
      /\ \A i \in 1..(n - 1 + 1) : e[i] = c[1 + i - 1]
  BY <1>2, SubSeqProperties
<1> HIDE DEF e
<1>4. Len(e) = Len(d)
  BY <1>1, <1>3
<1>5. ASSUME NEW i \in 1..Len(d) PROVE d[i] = e[i]
  <2>1. i \in 1..(n - 1 + 1) /\ 1 + i - 1 = i
    BY <1>1
  <2> QED BY <1>3, <2>1
<1>6. d = e
  BY <1>3, <1>4, <1>5, SeqEqual
<1> QED BY <1>6 DEF e

-----------------------------------------------------------------------------
\* Every step of the cache is a step of the abstract one, or none.

LruStep == [Lru!Next]_<<Cached, pinned, result>>

\* The empty cache is the empty abstract one.
LEMMA InitLru == Init => Lru!Init
<1> SUFFICES ASSUME Init PROVE Lru!Init
  OBVIOUS
<1>1. Cached = <<>>
  BY DEF Init, Cached
<1> QED BY <1>1 DEF Init, Lru!Init

\* Two readings of an unchanged list are the same.
LEMMA CachedUntouched ==
  ASSUME UNCHANGED <<refs, head, count>>
  PROVE  Cached' = Cached
BY DEF Cached, Walk

\* Both modules mean the same by a page without a collision.
LEMMA AloneIsAlone ==
  ASSUME NEW p \in PageIds, Lru!Alone(p)
  PROVE  Alone(p)
BY DEF Alone, Lru!Alone

\* The pages of the list L are what the cache holds, in order.
Reads(L) ==
  /\ count \in Nat /\ Cached \in Seq(PageIds) /\ Len(Cached) = count
  /\ \A i \in 1..count : L[i] \in Ref /\ refs[L[i]] # Nil /\ Cached[i] = refs[L[i]].page_id

AllRead == \A L : IsList(L) => Reads(L)

\* So they are in every state with the invariant,
LEMMA ListsRead == CacheInv => AllRead
<1> SUFFICES ASSUME CacheInv, NEW L, IsList(L) PROVE Reads(L)
  BY DEF AllRead
<1>0. TypeOK
  BY DEF CacheInv
<1>1. /\ count \in Nat /\ L \in [1..count -> Ref]
      /\ \A i \in 1..count : L[i] \in Ref /\ refs[L[i]] # Nil
  BY <1>0 DEF TypeOK, IsList, Chain
<1>2. Cached = PagesOf(L)
  BY <1>0, CachedIs
<1>3. PagesOf(L) \in [1..count -> PageIds]
  BY <1>0, <1>1, RefFields DEF PagesOf
<1>4. Cached \in Seq(PageIds) /\ Len(Cached) = count
  BY <1>1, <1>2, <1>3, FunctionIsSeq
<1> QED BY <1>1, <1>2, <1>4 DEF PagesOf, Reads

\* and so they are after a step.
LEMMA ListsReadNext == CacheInv' => AllRead'
BY ListsRead, PTL

\* A hit is a use.
LEMMA HitIsUse ==
  ASSUME CacheInv, CacheInv', NEW p \in PageIds, GetHit(p)
  PROVE  Lru!Use(p)
<1>1. SamePages /\ count' = count /\ UNCHANGED pinned /\ result' = page_pool_get(p)
  BY HitEffect DEF GetHit
<1>2. PICK L, M, k :
        /\ k \in 1..count /\ IsList(L) /\ IsList(M)' /\ M = Fronted(L, count, k)
        /\ refs[L[k]].page_id = p
  BY HitEffect
<1>3. Reads(L)
  BY <1>2, ListsRead DEF AllRead
<1>4. Reads(M)'
  BY <1>2, ListsReadNext DEF AllRead
<1>5. /\ count \in Nat /\ Cached \in Seq(PageIds) /\ Len(Cached) = count
      /\ \A i \in 1..count : L[i] \in Ref /\ refs[L[i]] # Nil /\ Cached[i] = refs[L[i]].page_id
  BY <1>3 DEF Reads
<1>6. /\ Cached' \in Seq(PageIds) /\ Len(Cached') = count
      /\ \A i \in 1..count : M[i] \in Ref /\ Cached'[i] = refs'[M[i]].page_id
  BY <1>1, <1>4 DEF Reads
<1>7. /\ M[1] = L[k]
      /\ \A i \in 2..count : M[i] = IF i <= k THEN L[i - 1] ELSE L[i]
  BY <1>2, <1>5 DEF Fronted
<1>8. Cached[k] = p /\ Cached'[1] = p
  <2>1. 1 \in 1..count /\ k \in 1..count
    BY <1>2, <1>5
  <2>2. refs'[L[k]].page_id = refs[L[k]].page_id
    BY <1>1, <1>5, <2>1 DEF SamePages
  <2> QED BY <1>2, <1>5, <1>6, <1>7, <2>1, <2>2
<1>9. ASSUME NEW i \in 2..count
      PROVE  Cached'[i] = IF i <= k THEN Cached[i - 1] ELSE Cached[i]
  <2>1. i \in 1..count /\ i - 1 \in 1..count
    BY <1>5
  <2>2. \A j \in 1..count : refs'[L[j]].page_id = Cached[j]
    BY <1>1, <1>5 DEF SamePages
  <2> QED BY <1>6, <1>7, <2>1, <2>2
<1>10. Cached' = ToFront(Cached, k, p)
  <2>1. MovedUp(Cached, Cached', k, p)
    BY <1>2, <1>5, <1>6, <1>8, <1>9 DEF MovedUp
  <2> QED BY <1>5, <1>6, <2>1, SeqMovedToFront
<1>11. k \in DOMAIN Cached
  BY <1>2, <1>5
<1>12. result' \in {p, Nil}
  BY <1>1 DEF page_pool_get
<1> QED BY <1>1, <1>8, <1>10, <1>11, <1>12 DEF Lru!Use, Lru!RemoveAt, ToFront

\* A new reference is an admission.
LEMMA AddIsAdmit ==
  ASSUME CacheInv, CacheInv', count < capacity, NEW p \in PageIds, AddRef(p),
         Alone(p) => \A q \in Ref : refs[q] # Nil => refs[q].page_id # p
  PROVE  Lru!Admit(p)
<1>1. count' = count + 1 /\ UNCHANGED pinned /\ result' = p
  BY DEF AddRef
<1>2. PICK L, M, r :
        /\ r \in Ref /\ IsList(L) /\ IsList(M)' /\ M = Pushed(L, count, r)
        /\ refs'[r].page_id = p
        /\ \A q \in Ref : refs[q] # Nil => refs'[q].page_id = refs[q].page_id
  BY AddEffect
<1>3. Reads(L)
  BY <1>2, ListsRead DEF AllRead
<1>4. Reads(M)'
  BY <1>2, ListsReadNext DEF AllRead
<1>5. /\ count \in Nat /\ Cached \in Seq(PageIds) /\ Len(Cached) = count
      /\ \A i \in 1..count : L[i] \in Ref /\ refs[L[i]] # Nil /\ Cached[i] = refs[L[i]].page_id
  BY <1>3 DEF Reads
<1>6. /\ Cached' \in Seq(PageIds) /\ Len(Cached') = count + 1
      /\ \A i \in 1..(count + 1) : Cached'[i] = refs'[M[i]].page_id
  BY <1>1, <1>4 DEF Reads
<1>7. M[1] = r /\ \A i \in 1..count : M[i + 1] = L[i]
  BY <1>2, <1>5 DEF Pushed
<1>8. Cached'[1] = p
  BY <1>2, <1>5, <1>6, <1>7
<1>9. ASSUME NEW i \in 1..count PROVE Cached'[i + 1] = Cached[i]
  <2>1. i + 1 \in 1..(count + 1)
    BY <1>5
  <2> QED BY <1>2, <1>5, <1>6, <1>7, <2>1
<1>10. Cached' = <<p>> \o Cached
  BY <1>5, <1>6, <1>8, <1>9, SeqPushed
<1>11. Lru!Alone(p) => ~ Lru!Contains(Cached, p)
  <2> SUFFICES ASSUME Lru!Alone(p), NEW i \in 1..Len(Cached), Cached[i] = p PROVE FALSE
    BY DEF Lru!Contains
  <2>1. \A q \in Ref : refs[q] # Nil => refs[q].page_id # p
    BY AloneIsAlone
  <2> QED BY <1>5, <2>1
<1> QED BY <1>1, <1>5, <1>10, <1>11 DEF Lru!Admit

\* An eviction drops the last page.
LEMMA DropIsDrop ==
  ASSUME CacheInv, CacheInv', EvictTail
  PROVE  Lru!Drop
<1>1. UNCHANGED <<pinned, result>> /\ refs[tail].page_id \notin pinned
  BY DEF EvictTail, Skipped
<1>2. PICK L, M :
        /\ IsList(L) /\ IsList(M)' /\ M = Dropped(L, count)
        /\ count # 0 /\ count' = count - 1 /\ tail = L[count]
        /\ \A q \in Ref \ {tail} : refs[q] # Nil => refs'[q].page_id = refs[q].page_id
  BY DropEffect
<1>3. Reads(L)
  BY <1>2, ListsRead DEF AllRead
<1>4. Reads(M)'
  BY <1>2, ListsReadNext DEF AllRead
<1>5. /\ count \in Nat /\ Cached \in Seq(PageIds) /\ Len(Cached) = count
      /\ \A i \in 1..count : L[i] \in Ref /\ refs[L[i]] # Nil /\ Cached[i] = refs[L[i]].page_id
  BY <1>3 DEF Reads
<1>6. /\ Cached' \in Seq(PageIds) /\ Len(Cached') = count - 1
      /\ \A i \in 1..(count - 1) : Cached'[i] = refs'[M[i]].page_id
  BY <1>2, <1>4 DEF Reads
<1>7. \A i, j \in 1..count : L[i] = L[j] => i = j
  BY <1>2 DEF IsList, Chain
<1>8. ASSUME NEW i \in 1..(count - 1) PROVE Cached'[i] = Cached[i]
  <2>1. i \in 1..count /\ count \in 1..count /\ i # count
    BY <1>5
  <2>2. M[i] = L[i] /\ L[i] # tail
    BY <1>2, <1>7, <2>1 DEF Dropped
  <2> QED BY <1>2, <1>5, <1>6, <2>1, <2>2
<1>9. Cached' = SubSeq(Cached, 1, Len(Cached) - 1)
  BY <1>5, <1>6, <1>8, SeqDropped
<1>10. Cached # <<>> /\ Cached[Len(Cached)] \notin pinned
  <2>1. count \in 1..count
    BY <1>2, <1>5
  <2> QED BY <1>1, <1>2, <1>5, <2>1
<1> QED BY <1>1, <1>9, <1>10 DEF Lru!Drop, Lru!Last, Lru!Front

\* Every step is a step of LruCache, or leaves it alone.
LEMMA NextLru == CacheInv /\ CacheInv' /\ [Next]_vars => LruStep
<1> SUFFICES ASSUME CacheInv, CacheInv', [Next]_vars PROVE LruStep
  OBVIOUS
<1>0. TypeOK /\ count <= capacity /\ GetMayAdd /\ count \in Nat
  BY DEF CacheInv, TypeOK
<1>1. ASSUME NEW p \in PageIds, GetHit(p) PROVE LruStep
  BY <1>1, HitIsUse DEF LruStep, Lru!Next
<1>2. ASSUME NEW p \in PageIds, GetMiss(p) PROVE LruStep
  <2>1. CASE count >= capacity
    BY <1>2, <2>1, CachedUntouched DEF GetMiss, LruStep
  <2>2. CASE ~ (count >= capacity)
    <3>1. AddRef(p) /\ Lookup(p) = Nil
      BY <1>2, <2>2 DEF GetMiss
    <3>2. count < capacity
      BY <1>0, <2>2, Numbers
    <3>3. Lru!Admit(p)
      BY <3>1, <3>2, MissMeansAbsent, AddIsAdmit
    <3> QED BY <3>3 DEF LruStep, Lru!Next
  <2> QED BY <2>1, <2>2
<1>3. ASSUME NEW p \in PageIds, GetNull(p) PROVE LruStep
  BY <1>3, CachedUntouched DEF GetNull, LruStep, Lru!Next, Lru!Missing
<1>4. ASSUME NEW p \in PageIds, Pin(p) \/ Unpin(p) \/ FreePage(p) PROVE LruStep
  <2>1. UNCHANGED <<refs, head, count, result>> /\ pinned' \in SUBSET PageIds
    BY <1>0, <1>4 DEF Pin, Unpin, FreePage, TypeOK
  <2> QED BY <2>1, CachedUntouched DEF LruStep, Lru!Next, Lru!Pinning
<1>5. ASSUME NEW n \in 1..MaxCount, Evict(n) PROVE LruStep
  BY <1>5, CachedUntouched DEF Evict, LruStep
<1>6. CASE EvictTail
  BY <1>6, DropIsDrop DEF LruStep, Lru!Next
<1>7. CASE EvictReturn
  <2>1. CASE call.op = "get"
    <3>1. /\ AddRef(call.page) /\ count < capacity /\ call.page \in PageIds
          /\ Alone(call.page) => \A r \in Ref : refs[r] # Nil => refs[r].page_id # call.page
      BY <1>7, <2>1, GetReturns
    <3> QED BY <3>1, AddIsAdmit DEF LruStep, Lru!Next
  <2>2. CASE call.op # "get"
    BY <1>7, <2>2, CachedUntouched DEF EvictReturn, LruStep
  <2> QED BY <2>1, <2>2
<1>8. CASE UNCHANGED vars
  BY <1>8, CachedUntouched DEF vars, LruStep
<1>9. CASE EvictSkip
  BY <1>8, <1>9 DEF EvictSkip
<1> QED BY <1>1, <1>2, <1>3, <1>4, <1>5, <1>6, <1>7, <1>8, <1>9 DEF Next, EvictLoop

(***************************************************************************)
(* The list with its table is a least-recently-used cache: a hit moves a   *)
(* page to the front, an eviction drops the last page and only if it is not *)
(* pinned, and a page without a collision is never cached twice.           *)
(***************************************************************************)
THEOREM CacheIsLru == Spec => LruSpec
<1>1. CacheInv /\ CacheInv' /\ [Next]_vars => [Lru!Next]_<<Cached, pinned, result>>
  BY NextLru DEF LruStep
<1> QED BY <1>1, InitLru, CacheInvHolds, PTL DEF Spec, LruSpec, Lru!Spec

=============================================================================
