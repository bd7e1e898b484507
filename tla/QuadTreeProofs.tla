---------------------------- MODULE QuadTreeProofs ----------------------------
(***************************************************************************)
(* The quadtree's properties, for every root, capacity, depth and set of   *)
(* rectangles: items lie as deep as they fit, region and point queries     *)
(* miss nothing, the count is never short, and an insertion loses no item  *)
(* but those that its splits place in no child.                            *)
(*                                                                         *)
(* In order: rectangles and quadrants, whose bounds are nested along every *)
(* path; the sequence a split hands to a child (Chosen); the descent and   *)
(* where it ends (target); one split, and the rounds of an insertion; the  *)
(* first holder of an identifier in depth-first order, and a removal; the  *)
(* inductive invariant IInv, and the theorems.  Sound says of a tree as a  *)
(* value what IInv says of the state, so that an operation is proved       *)
(* correct on the trees it passes through.                                 *)
(***************************************************************************)
EXTENDS QuadTree, BasicLemmas, FiniteSetTheorems

-----------------------------------------------------------------------------
\* Nodes: sequences of quadrants.

\* A node is a sequence of quadrants that is not too long.
LEMMA NodeIsSeq ==
  /\ Node = {n \in Seq(Quadrant) : Len(n) <= max_depth}
  /\ max_depth \in Nat /\ max_depth >= 1
<1>1. max_depth \in Nat /\ max_depth >= 1
  BY QuadTreeAssumption
<1>2. ASSUME NEW n \in Node
      PROVE  n \in Seq(Quadrant) /\ Len(n) <= max_depth
  <2>1. PICK m \in 0..max_depth : n \in [1..m -> Quadrant]
    BY DEF Node, SeqOf
  <2> QED BY <1>1, <2>1
<1>3. ASSUME NEW n \in Seq(Quadrant), Len(n) <= max_depth
      PROVE  n \in Node
  <2>1. Len(n) \in 0..max_depth /\ n \in [1..Len(n) -> Quadrant]
    BY <1>1, <1>3, LenProperties
  <2> QED BY <2>1 DEF Node, SeqOf
<1> QED BY <1>1, <1>2, <1>3

-----------------------------------------------------------------------------
\* Rectangles of nodes.

Solid == {m \in MBR : m.min_x <= m.max_x /\ m.min_y <= m.max_y}

\* One rectangle lies inside another.
Inside(a, b) ==
  /\ a.min_x >= b.min_x /\ a.max_x <= b.max_x
  /\ a.min_y >= b.min_y /\ a.max_y <= b.max_y

LEMMA InsideIsContained ==
  ASSUME NEW a \in Solid, NEW b \in MBR
  PROVE  /\ mbr_contains_mbr(a, b) <=> b \in Solid /\ Inside(b, a)
         /\ ~ mbr_is_empty(a)
         /\ mbr_is_empty(b) <=> b \notin Solid
<1>1. \A m \in MBR : m.min_x \in Int /\ m.max_x \in Int /\ m.min_y \in Int /\ m.max_y \in Int
  BY InfAssumption DEF MBR, Coord
<1> QED BY <1>1 DEF Solid, Inside, mbr_contains_mbr, mbr_is_empty

LEMMA InsideTrans ==
  ASSUME NEW a \in MBR, NEW b \in MBR, NEW c \in MBR, Inside(a, b), Inside(b, c)
  PROVE  Inside(a, c)
<1>1. \A m \in MBR : m.min_x \in Int /\ m.max_x \in Int /\ m.min_y \in Int /\ m.max_y \in Int
  BY InfAssumption DEF MBR, Coord
<1> QED BY <1>1 DEF Inside

LEMMA Halves ==
  ASSUME NEW a \in Coord, NEW b \in Coord, a <= b
  PROVE  (a + b) \div 2 \in Coord /\ a <= (a + b) \div 2 /\ (a + b) \div 2 <= b
<1>1. Inf \in Nat /\ a \in Int /\ b \in Int /\ -Inf <= a /\ b <= Inf
  BY InfAssumption DEF Coord
<1>2. (a + b) \div 2 \in Int /\ a <= (a + b) \div 2 /\ (a + b) \div 2 <= b
  BY <1>1
<1> QED BY <1>1, <1>2 DEF Coord

\* The four quadrants of a rectangle lie inside it and none is empty.
LEMMA QuadrantInside ==
  ASSUME NEW b \in Solid, NEW q \in Quadrant
  PROVE  qtnode_quadrant_bounds(b, q) \in Solid /\ Inside(qtnode_quadrant_bounds(b, q), b)
<1> DEFINE mx == (b.min_x + b.max_x) \div 2
           my == (b.min_y + b.max_y) \div 2
<1>1. /\ b.min_x \in Coord /\ b.max_x \in Coord /\ b.min_x <= b.max_x
      /\ b.min_y \in Coord /\ b.max_y \in Coord /\ b.min_y <= b.max_y
  BY DEF Solid, MBR
<1>2. /\ mx \in Coord /\ b.min_x <= mx /\ mx <= b.max_x
      /\ my \in Coord /\ b.min_y <= my /\ my <= b.max_y
  BY <1>1, Halves
<1>3. q \in {NW, NE, SW, SE} /\ NW # NE /\ NW # SW /\ NW # SE /\ NE # SW /\ NE # SE /\ SW # SE
  BY DEF Quadrant, NW, NE, SW, SE
<1>4. qtnode_quadrant_bounds(b, q) =
        CASE q = NW -> mbr_create(b.min_x, my, mx, b.max_y)
          [] q = NE -> mbr_create(mx, my, b.max_x, b.max_y)
          [] q = SW -> mbr_create(b.min_x, b.min_y, mx, my)
          [] q = SE -> mbr_create(mx, b.min_y, b.max_x, my)
  BY DEF qtnode_quadrant_bounds
<1> HIDE DEF mx, my
<1>5. qtnode_quadrant_bounds(b, q) \in
        {mbr_create(b.min_x, my, mx, b.max_y), mbr_create(mx, my, b.max_x, b.max_y),
         mbr_create(b.min_x, b.min_y, mx, my), mbr_create(mx, b.min_y, b.max_x, my)}
  BY <1>3, <1>4
<1>6. Coord \subseteq Int
  BY InfAssumption DEF Coord
<1>7. ASSUME NEW m \in {mbr_create(b.min_x, my, mx, b.max_y), mbr_create(mx, my, b.max_x, b.max_y),
                        mbr_create(b.min_x, b.min_y, mx, my), mbr_create(mx, b.min_y, b.max_x, my)}
      PROVE  m \in Solid /\ Inside(m, b)
  <2>1. ASSUME NEW x1 \in Coord, NEW x2 \in Coord, NEW y1 \in Coord, NEW y2 \in Coord,
               b.min_x <= x1, x1 <= x2, x2 <= b.max_x, b.min_y <= y1, y1 <= y2, y2 <= b.max_y
        PROVE  mbr_create(x1, y1, x2, y2) \in Solid /\ Inside(mbr_create(x1, y1, x2, y2), b)
    <3> DEFINE r == mbr_create(x1, y1, x2, y2)
    <3>0. /\ x1 \in Int /\ x2 \in Int /\ y1 \in Int /\ y2 \in Int
          /\ b.min_x \in Int /\ b.max_x \in Int /\ b.min_y \in Int /\ b.max_y \in Int
      BY <1>1, <1>6
    <3>1. r \in MBR /\ r.min_x = x1 /\ r.min_y = y1 /\ r.max_x = x2 /\ r.max_y = y2
      BY DEF MBR, mbr_create
    <3> HIDE DEF r
    <3>2. r \in Solid /\ Inside(r, b)
      BY <2>1, <3>0, <3>1 DEF Solid, Inside
    <3> QED BY <3>2 DEF r
  <2>2. /\ b.min_x <= b.min_x /\ b.max_x <= b.max_x /\ b.min_y <= b.min_y /\ b.max_y <= b.max_y
        /\ mx <= mx /\ my <= my
    <3>1. \A c \in Coord : c <= c
      BY <1>6
    <3> QED BY <1>1, <1>2, <3>1
  <2>3. CASE m = mbr_create(b.min_x, my, mx, b.max_y)
    BY <1>1, <1>2, <2>1, <2>2, <2>3
  <2>4. CASE m = mbr_create(mx, my, b.max_x, b.max_y)
    BY <1>1, <1>2, <2>1, <2>2, <2>4
  <2>5. CASE m = mbr_create(b.min_x, b.min_y, mx, my)
    BY <1>1, <1>2, <2>1, <2>2, <2>5
  <2>6. CASE m = mbr_create(mx, b.min_y, b.max_x, my)
    BY <1>1, <1>2, <2>1, <2>2, <2>6
  <2> QED BY <1>7, <2>3, <2>4, <2>5, <2>6
<1> QED BY <1>5, <1>7

-----------------------------------------------------------------------------
\* BoundsOf is the function its definition describes.

UpTo(k) == {n \in Seq(Quadrant) : Len(n) <= k}

LEMMA BoundsDomain == Node \cup [1..(max_depth + 1) -> Quadrant] = UpTo(max_depth + 1)
<1>1. ASSUME NEW n \in UpTo(max_depth + 1)
      PROVE  n \in Node \/ n \in [1..(max_depth + 1) -> Quadrant]
  <2>1. n \in Seq(Quadrant) /\ Len(n) \in Nat /\ Len(n) <= max_depth + 1 /\ max_depth \in Nat
    BY NodeIsSeq, LenProperties DEF UpTo
  <2>2. CASE Len(n) <= max_depth
    BY <2>1, <2>2, NodeIsSeq
  <2>3. CASE Len(n) = max_depth + 1
    BY <2>1, <2>3, LenProperties
  <2> QED BY <2>1, <2>2, <2>3
<1>2. ASSUME NEW n \in [1..(max_depth + 1) -> Quadrant]
      PROVE  n \in UpTo(max_depth + 1)
  <2>1. max_depth + 1 \in Nat
    BY NodeIsSeq
  <2>2. n \in Seq(Quadrant) /\ Len(n) = max_depth + 1
    BY <2>1
  <2> QED BY <2>1, <2>2 DEF UpTo
<1>3. Node \subseteq UpTo(max_depth + 1)
  <2> SUFFICES ASSUME NEW n \in Node PROVE n \in UpTo(max_depth + 1)
    OBVIOUS
  <2>1. n \in Seq(Quadrant) /\ Len(n) <= max_depth /\ max_depth \in Nat /\ Len(n) \in Nat
    BY NodeIsSeq, LenProperties
  <2> QED BY <2>1 DEF UpTo
<1> QED BY <1>1, <1>2, <1>3

LEMMA BoundsExist ==
  ASSUME NEW N \in Nat
  PROVE  \E f : f = [n \in UpTo(N) |-> IF n = <<>> THEN Bounds
                                       ELSE qtnode_quadrant_bounds(f[Front(n)], Last(n))]
<1> DEFINE Rule(f, k) == f = [n \in UpTo(k) |-> IF n = <<>> THEN Bounds
                                       ELSE qtnode_quadrant_bounds(f[Front(n)], Last(n))]
           T == {k \in Nat : \E f : Rule(f, k)}
<1>1. 0 \in T
  <2> DEFINE f == [n \in UpTo(0) |-> Bounds]
  <2>1. \A n \in UpTo(0) : n = <<>>
    BY EmptySeq DEF UpTo
  <2>2. Rule(f, 0)
    BY <2>1
  <2> QED BY <2>2
<1>2. ASSUME NEW k \in Nat, k \in T
      PROVE  k + 1 \in T
  <2>1. PICK f : Rule(f, k)
    BY <1>2
  <2> DEFINE g == [n \in UpTo(k + 1) |-> IF Len(n) <= k THEN f[n]
                                         ELSE qtnode_quadrant_bounds(f[Front(n)], Last(n))]
  <2>2. ASSUME NEW n \in UpTo(k + 1)
        PROVE  /\ Len(n) <= k => n \in UpTo(k)
               /\ n # <<>> => Front(n) \in UpTo(k) /\ Front(n) \in UpTo(k + 1) /\ Len(Front(n)) <= k
               /\ n = <<>> => Len(n) <= k
    <3>1. n \in Seq(Quadrant) /\ Len(n) \in Nat /\ Len(n) <= k + 1
      BY LenProperties DEF UpTo
    <3>2. n # <<>> => Front(n) \in Seq(Quadrant) /\ Len(Front(n)) = Len(n) - 1
      BY <3>1, AppendFront
    <3>3. n = <<>> => Len(n) = 0
      BY EmptySeq
    <3> QED BY <3>1, <3>2, <3>3 DEF UpTo
  <2>3. ASSUME NEW n \in UpTo(k + 1), n # <<>>
        PROVE  g[n] = qtnode_quadrant_bounds(f[Front(n)], Last(n)) /\ g[Front(n)] = f[Front(n)]
    BY <2>1, <2>2, <2>3
  <2>4. g[<<>>] = Bounds
    <3>1. <<>> \in UpTo(k + 1) /\ <<>> \in UpTo(k)
      BY EmptySeq DEF UpTo
    <3> QED BY <2>1, <2>2, <3>1
  <2>5. \A n \in UpTo(k + 1) : g[n] = IF n = <<>> THEN Bounds
                                      ELSE qtnode_quadrant_bounds(g[Front(n)], Last(n))
    BY <2>3, <2>4
  <2>6. Rule(g, k + 1)
    BY <2>5
  <2> HIDE DEF g, Rule
  <2>7. k + 1 \in Nat /\ \E h : Rule(h, k + 1)
    BY <2>6
  <2> QED BY <2>7
<1>3. Nat \subseteq T
  <2> HIDE DEF T
  <2> QED BY <1>1, <1>2, InductiveSet
<1> QED BY <1>3

\* The rectangle of a node, and of the nodes below it.
LEMMA BoundsRule ==
  /\ BoundsOf[<<>>] = Bounds
  /\ \A n \in UpTo(max_depth + 1) \ {<<>>} :
       BoundsOf[n] = qtnode_quadrant_bounds(BoundsOf[Front(n)], Last(n))
<1> DEFINE Rule(f) == f = [n \in UpTo(max_depth + 1) |-> IF n = <<>> THEN Bounds
                                       ELSE qtnode_quadrant_bounds(f[Front(n)], Last(n))]
<1>1. \E f : Rule(f)
  BY BoundsExist, NodeIsSeq
<1>2. BoundsOf = CHOOSE f : Rule(f)
  BY BoundsDomain DEF BoundsOf
<1>3. Rule(BoundsOf)
  <2> HIDE DEF Rule
  <2> QED BY <1>1, <1>2
<1>4. <<>> \in UpTo(max_depth + 1)
  BY EmptySeq, NodeIsSeq DEF UpTo
<1> QED BY <1>3, <1>4

\* A node's rectangle is not empty, and lies inside its parent's.
LEMMA BoundsNested ==
  /\ \A n \in UpTo(max_depth + 1) : BoundsOf[n] \in Solid
  /\ \A n \in UpTo(max_depth + 1) \ {<<>>} :
       Front(n) \in UpTo(max_depth + 1) /\ Inside(BoundsOf[n], BoundsOf[Front(n)])
<1> DEFINE D == UpTo(max_depth + 1)
           T == {k \in Nat : \A n \in D : Len(n) <= k => BoundsOf[n] \in Solid}
<1>1. max_depth + 1 \in Nat
  BY NodeIsSeq
<1>2. ASSUME NEW n \in D
      PROVE  /\ n \in Seq(Quadrant) /\ Len(n) \in Nat /\ Len(n) <= max_depth + 1
             /\ n # <<>> => /\ Front(n) \in D /\ Last(n) \in Quadrant /\ Len(Front(n)) = Len(n) - 1
                            /\ BoundsOf[n] = qtnode_quadrant_bounds(BoundsOf[Front(n)], Last(n))
             /\ Len(n) = 0 => n = <<>>
  <2>1. n \in Seq(Quadrant) /\ Len(n) \in Nat /\ Len(n) <= max_depth + 1
    BY LenProperties DEF UpTo
  <2>2. n # <<>> => /\ Front(n) \in Seq(Quadrant) /\ Last(n) \in Quadrant /\ Len(Front(n)) = Len(n) - 1
    BY <2>1, AppendFront
  <2>3. n # <<>> => Front(n) \in D
    BY <2>1, <2>2, <1>1 DEF UpTo
  <2>4. Len(n) = 0 => n = <<>>
    BY <2>1, EmptySeq
  <2> QED BY <2>1, <2>2, <2>3, <2>4, BoundsRule
<1>3. BoundsOf[<<>>] \in Solid
  <2>1. Bounds \in Solid
    <3>1. \A m \in MBR : m.min_x \in Int /\ m.max_x \in Int /\ m.min_y \in Int /\ m.max_y \in Int
      BY InfAssumption DEF MBR, Coord
    <3> QED BY <3>1, QuadTreeAssumption DEF Solid, mbr_is_empty
  <2> QED BY <2>1, BoundsRule
<1>4. 0 \in T
  BY <1>2, <1>3
<1>5. ASSUME NEW k \in Nat, k \in T
      PROVE  k + 1 \in T
  <2>1. ASSUME NEW n \in D, Len(n) <= k + 1
        PROVE  BoundsOf[n] \in Solid
    <3>1. CASE n = <<>>
      BY <3>1, <1>3
    <3>2. CASE n # <<>>
      <4>1. Len(Front(n)) <= k /\ Front(n) \in D
        BY <1>2, <2>1, <3>2
      <4>2. BoundsOf[Front(n)] \in Solid
        BY <1>5, <4>1
      <4> QED BY <1>2, <3>2, <4>2, QuadrantInside
    <3> QED BY <3>1, <3>2
  <2> QED BY <2>1
<1>6. Nat \subseteq T
  <2> HIDE DEF T
  <2> QED BY <1>4, <1>5, InductiveSet
<1>7. \A n \in D : BoundsOf[n] \in Solid
  BY <1>1, <1>2, <1>6
<1>8. ASSUME NEW n \in D \ {<<>>}
      PROVE  Front(n) \in D /\ Inside(BoundsOf[n], BoundsOf[Front(n)])
  BY <1>2, <1>7, QuadrantInside
<1> QED BY <1>7, <1>8

\* The beginnings of a path.
LEMMA Beginnings ==
  ASSUME NEW n \in UpTo(max_depth + 1), NEW k \in 0..Len(n)
  PROVE  /\ SubSeq(n, 1, k) \in UpTo(max_depth + 1) /\ Len(SubSeq(n, 1, k)) = k
         /\ k = Len(n) => SubSeq(n, 1, k) = n
         /\ k < Len(n) => /\ SubSeq(n, 1, k) = Front(SubSeq(n, 1, k + 1))
                          /\ SubSeq(n, 1, k + 1) # <<>>
<1>1. n \in Seq(Quadrant) /\ Len(n) \in Nat /\ Len(n) <= max_depth + 1 /\ max_depth \in Nat
  BY LenProperties, NodeIsSeq DEF UpTo
<1>2. ASSUME NEW j \in 0..Len(n)
      PROVE  /\ SubSeq(n, 1, j) \in Seq(Quadrant) /\ Len(SubSeq(n, 1, j)) = j
             /\ \A i \in 1..j : SubSeq(n, 1, j)[i] = n[i]
  <2>1. j \in Int /\ 1 \in Int /\ (\A i \in 1..j : n[i] \in Quadrant) /\ j >= 0
    BY <1>1
  <2>2. /\ SubSeq(n, 1, j) \in Seq(Quadrant) /\ Len(SubSeq(n, 1, j)) = IF 1 <= j THEN j - 1 + 1 ELSE 0
        /\ \A i \in 1..(j - 1 + 1) : SubSeq(n, 1, j)[i] = n[1 + i - 1]
    BY <2>1, SubSeqProperties
  <2> QED BY <2>1, <2>2
<1>3. k = Len(n) => SubSeq(n, 1, k) = n
  BY <1>1, SubSeqFull
<1>4. ASSUME k < Len(n)
      PROVE  SubSeq(n, 1, k) = Front(SubSeq(n, 1, k + 1)) /\ SubSeq(n, 1, k + 1) # <<>>
  <2> DEFINE a == SubSeq(n, 1, k)
             b == SubSeq(n, 1, k + 1)
  <2>1. k + 1 \in 0..Len(n) /\ k \in Nat
    BY <1>1, <1>4
  <2>2. /\ a \in Seq(Quadrant) /\ Len(a) = k /\ \A i \in 1..k : a[i] = n[i]
        /\ b \in Seq(Quadrant) /\ Len(b) = k + 1 /\ \A i \in 1..(k + 1) : b[i] = n[i]
    BY <1>2, <2>1
  <2> HIDE DEF a, b
  <2>3. b # <<>>
    BY <2>1, <2>2, EmptySeq
  <2>4. Front(b) \in Seq(Quadrant) /\ Len(Front(b)) = k /\ \A i \in 1..k : Front(b)[i] = b[i]
    BY <2>1, <2>2, <2>3, AppendFront
  <2>5. a = Front(b)
    BY <2>1, <2>2, <2>4, SeqEqual
  <2> QED BY <2>3, <2>5 DEF a, b
<1> QED BY <1>1, <1>2, <1>3, <1>4 DEF UpTo

\* The rectangle of a node lies inside those of the nodes on the way to it.
LEMMA BoundsOnWay ==
  ASSUME NEW n \in UpTo(max_depth + 1)
  PROVE  \A k \in 0..Len(n) : /\ SubSeq(n, 1, k) \in UpTo(max_depth + 1)
                              /\ BoundsOf[SubSeq(n, 1, k)] \in Solid
                              /\ Inside(BoundsOf[n], BoundsOf[SubSeq(n, 1, k)])
<1>1. Len(n) \in Nat
  BY LenProperties DEF UpTo
<1> DEFINE N == Len(n)
           At(k) == BoundsOf[SubSeq(n, 1, k)]
           T == {d \in Nat : d <= N => Inside(At(N), At(N - d))}
<1>2. \A k \in 0..N : SubSeq(n, 1, k) \in UpTo(max_depth + 1) /\ At(k) \in Solid
  BY Beginnings, BoundsNested
<1>3. \A m \in Solid : m \in MBR /\ Inside(m, m)
  <2>1. \A m \in MBR : m.min_x \in Int /\ m.max_x \in Int /\ m.min_y \in Int /\ m.max_y \in Int
    BY InfAssumption DEF MBR, Coord
  <2> QED BY <2>1 DEF Solid, Inside
<1>4. \A k \in 0..N : k < N => Inside(At(k + 1), At(k))
  <2> SUFFICES ASSUME NEW k \in 0..N, k < N PROVE Inside(At(k + 1), At(k))
    OBVIOUS
  <2>1. k + 1 \in 0..N
    BY <1>1
  <2>2. SubSeq(n, 1, k + 1) \in UpTo(max_depth + 1) \ {<<>>}
    BY <1>2, <2>1, Beginnings
  <2> QED BY <2>2, BoundsNested, Beginnings
<1> HIDE DEF At
<1>5. 0 \in T
  BY <1>1, <1>2, <1>3
<1>6. ASSUME NEW d \in Nat, d \in T
      PROVE  d + 1 \in T
  <2> SUFFICES ASSUME d + 1 <= N PROVE Inside(At(N), At(N - (d + 1)))
    OBVIOUS
  <2>1. N - (d + 1) \in 0..N /\ N - (d + 1) < N /\ (N - (d + 1)) + 1 = N - d /\ N - d \in 0..N /\ N \in 0..N
    BY <1>1
  <2>2. Inside(At(N - d), At(N - (d + 1)))
    BY <1>4, <2>1
  <2>3. Inside(At(N), At(N - d))
    BY <1>1, <1>6
  <2> QED BY <1>2, <1>3, <2>1, <2>2, <2>3, InsideTrans
<1>7. Nat \subseteq T
  <2> HIDE DEF T
  <2> QED BY <1>5, <1>6, InductiveSet
<1>8. ASSUME NEW k \in 0..N
      PROVE  Inside(At(N), At(k))
  <2>1. N - k \in Nat /\ N - (N - k) = k /\ N - k <= N
    BY <1>1
  <2> QED BY <1>7, <2>1
<1>9. At(N) = BoundsOf[n]
  <2>1. N \in 0..N
    BY <1>1
  <2>2. SubSeq(n, 1, N) = n
    BY <2>1, Beginnings
  <2> QED BY <2>2 DEF At
<1> QED BY <1>2, <1>8, <1>9 DEF At

-----------------------------------------------------------------------------
\* Sound trees, and what the searches find in them.

\* An item with these bounds may lie in n: inside it, unless it is the root,
\* and in no child of it.
AtHome(t, n, b) ==
  /\ n # <<>> => mbr_contains_mbr(BoundsOf[n], b)
  /\ ~ is_leaf(t, n) => Fitting(n, b) = {}

Closed(t) ==
  \A n \in t.nodes \ {<<>>} :
    Front(n) \in t.nodes /\ \A q \in Quadrant : Append(Front(n), q) \in t.nodes

Roomy(t) ==
  \A n \in t.nodes : is_leaf(t, n) /\ Len(n) < max_depth => Len(t.items[n]) <= node_capacity

TreeType(t) ==
  /\ t \in [nodes : SUBSET Node, items : [Node -> Seq(Item)]]
  /\ <<>> \in t.nodes
  /\ \A n \in Node \ t.nodes : t.items[n] = <<>>

Sound(t) ==
  /\ TreeType(t) /\ Closed(t) /\ Roomy(t)
  /\ \A n \in t.nodes : \A k \in 1..Len(t.items[n]) : AtHome(t, n, t.items[n][k].bounds)

LEMMA NodeTypes ==
  /\ Node \subseteq UpTo(max_depth + 1)
  /\ \A n \in Node : /\ n \in Seq(Quadrant) /\ Len(n) \in Nat /\ Len(n) <= max_depth
                     /\ \A q \in Quadrant : Append(n, q) \in UpTo(max_depth + 1)
                     /\ Len(n) < max_depth => \A q \in Quadrant : Append(n, q) \in Node
  /\ <<>> \in Node /\ Len(<<>>) = 0 /\ max_depth \in Nat /\ node_capacity \in Nat
<1>1. max_depth \in Nat /\ node_capacity \in Nat
  BY QuadTreeAssumption
<1>2. <<>> \in Node /\ Len(<<>>) = 0
  BY <1>1, NodeIsSeq, EmptySeq
<1>3. ASSUME NEW n \in Node
      PROVE  /\ n \in Seq(Quadrant) /\ Len(n) \in Nat /\ Len(n) <= max_depth
             /\ n \in UpTo(max_depth + 1)
             /\ \A q \in Quadrant : Append(n, q) \in UpTo(max_depth + 1)
             /\ Len(n) < max_depth => \A q \in Quadrant : Append(n, q) \in Node
  <2>1. n \in Seq(Quadrant) /\ Len(n) \in Nat /\ Len(n) <= max_depth
    BY NodeIsSeq, LenProperties
  <2>2. \A q \in Quadrant : Append(n, q) \in Seq(Quadrant) /\ Len(Append(n, q)) = Len(n) + 1
    BY <2>1, AppendFront
  <2>3. n \in UpTo(max_depth + 1) /\ \A q \in Quadrant : Append(n, q) \in UpTo(max_depth + 1)
    BY <1>1, <2>1, <2>2 DEF UpTo
  <2>4. Len(n) < max_depth => \A q \in Quadrant : Append(n, q) \in Node
    BY <1>1, <2>1, <2>2, NodeIsSeq
  <2> QED BY <2>1, <2>3, <2>4
<1> QED BY <1>1, <1>2, <1>3

LEMMA PlaceTypes ==
  ASSUME NEW t, TreeType(t)
  PROVE  /\ \A n \in Node : /\ t.items[n] \in Seq(Item) /\ Len(t.items[n]) \in Nat
                            /\ DOMAIN t.items[n] = 1..Len(t.items[n])
                            /\ \A k \in 1..Len(t.items[n]) :
                                 t.items[n][k] \in Item /\ t.items[n][k].bounds \in Boxes
         /\ \A a : a \in Places(t) <=> \E n \in t.nodes : \E k \in 1..Len(t.items[n]) : a = <<n, k>>
         /\ \A n, k : <<n, k>> \in Places(t) <=> n \in t.nodes /\ k \in 1..Len(t.items[n])
<1>1. ASSUME NEW n \in Node
      PROVE  /\ t.items[n] \in Seq(Item) /\ Len(t.items[n]) \in Nat
             /\ DOMAIN t.items[n] = 1..Len(t.items[n])
             /\ \A k \in 1..Len(t.items[n]) :
                  t.items[n][k] \in Item /\ t.items[n][k].bounds \in Boxes
  <2>1. t.items[n] \in Seq(Item)
    BY DEF TreeType
  <2> DEFINE s == t.items[n]
  <2> HIDE DEF s
  <2>2. s \in Seq(Item)
    BY <2>1 DEF s
  <2>3. Len(s) \in Nat /\ DOMAIN s = 1..Len(s) /\ \A k \in 1..Len(s) : s[k] \in Item
    BY <2>2, LenProperties
  <2>4. \A i \in Item : i.bounds \in Boxes
    BY DEF Item
  <2> QED BY <2>2, <2>3, <2>4 DEF s
<1>2. t.nodes \subseteq Node
  BY DEF TreeType
<1>3. \A n \in t.nodes : DOMAIN t.items[n] = 1..Len(t.items[n])
  BY <1>1, <1>2
<1>4. \A a : a \in Places(t) <=> \E n \in t.nodes : \E k \in DOMAIN t.items[n] : a = <<n, k>>
  BY DEF Places
<1>5. \A a : a \in Places(t) <=> \E n \in t.nodes : \E k \in 1..Len(t.items[n]) : a = <<n, k>>
  BY <1>3, <1>4
<1> QED BY <1>1, <1>5

\* What a rectangle meets or contains, one around it meets or contains.
LEMMA WhatLiesAround ==
  ASSUME NEW b \in Solid, NEW c \in Solid, Inside(b, c), NEW r \in MBR
  PROVE  /\ mbr_intersects(b, r) => mbr_intersects(c, r)
         /\ mbr_contains_mbr(b, r) => mbr_contains_mbr(c, r)
<1>1. \A m \in MBR : m.min_x \in Int /\ m.max_x \in Int /\ m.min_y \in Int /\ m.max_y \in Int
  BY InfAssumption DEF MBR, Coord
<1>2. /\ b.min_x \in Int /\ b.max_x \in Int /\ b.min_y \in Int /\ b.max_y \in Int
      /\ c.min_x \in Int /\ c.max_x \in Int /\ c.min_y \in Int /\ c.max_y \in Int
      /\ r.min_x \in Int /\ r.max_x \in Int /\ r.min_y \in Int /\ r.max_y \in Int
      /\ b.min_x <= b.max_x /\ b.min_y <= b.max_y /\ c.min_x <= c.max_x /\ c.min_y <= c.max_y
      /\ b.min_x >= c.min_x /\ b.max_x <= c.max_x /\ b.min_y >= c.min_y /\ b.max_y <= c.max_y
  BY <1>1 DEF Solid, Inside
<1>3. mbr_intersects(b, r) => mbr_intersects(c, r)
  BY <1>2 DEF mbr_intersects, mbr_is_empty
<1>4. mbr_contains_mbr(b, r) => mbr_contains_mbr(c, r)
  BY <1>2 DEF mbr_contains_mbr, mbr_is_empty
<1> QED BY <1>3, <1>4

\* What an item of a sound tree meets or contains, every node on the way to
\* it but the root meets or contains as well.
LEMMA ItemSeenOnWay ==
  ASSUME NEW t, Sound(t), NEW n \in t.nodes, NEW k \in 1..Len(t.items[n]),
         NEW j \in 0..Len(n), NEW r \in MBR
  PROVE  /\ mbr_intersects(t.items[n][k].bounds, r) /\ mbr_intersects(Bounds, r)
              => mbr_intersects(BoundsOf[SubSeq(n, 1, j)], r)
         /\ mbr_contains_mbr(t.items[n][k].bounds, r) /\ mbr_contains_mbr(Bounds, r)
              => mbr_contains_mbr(BoundsOf[SubSeq(n, 1, j)], r)
<1> DEFINE b == t.items[n][k].bounds
           c == BoundsOf[SubSeq(n, 1, j)]
<1>1. n \in Node /\ n \in UpTo(max_depth + 1)
  BY NodeTypes DEF Sound, TreeType
<1>2. b \in MBR
  <2>1. TreeType(t)
    BY DEF Sound
  <2>2. b \in Boxes
    BY <1>1, <2>1, PlaceTypes
  <2> QED BY <2>2, QuadTreeAssumption
<1>3. c \in Solid /\ BoundsOf[n] \in Solid /\ Inside(BoundsOf[n], c)
  BY <1>1, BoundsOnWay, BoundsNested
<1>4. CASE n = <<>>
  <2>1. j = 0 /\ Len(n) = 0
    BY <1>4, EmptySeq
  <2>2. SubSeq(n, 1, j) = n
    BY <1>1, <2>1, Beginnings
  <2> QED BY <1>4, <2>2, BoundsRule
<1>5. CASE n # <<>>
  <2>1. mbr_contains_mbr(BoundsOf[n], b)
    BY <1>5 DEF Sound, AtHome
  <2>2. b \in Solid /\ Inside(b, BoundsOf[n])
    BY <2>1, <1>2, <1>3, InsideIsContained
  <2>3. Inside(b, c) /\ c \in MBR
    BY <1>2, <1>3, <2>2, InsideTrans DEF Solid
  <2> HIDE DEF b, c
  <2>5. /\ mbr_intersects(b, r) => mbr_intersects(c, r)
        /\ mbr_contains_mbr(b, r) => mbr_contains_mbr(c, r)
    BY <1>3, <2>2, <2>3, WhatLiesAround
  <2> QED BY <2>5 DEF b, c
<1> QED BY <1>4, <1>5

LEMMA SoundSearches ==
  ASSUME Sound(Tree)
  PROVE  RangeQueriesComplete
<1>1. nodes = Tree.nodes /\ items = Tree.items
  BY DEF Tree
<1>2. TreeType(Tree)
  BY DEF Sound
<1>3. ASSUME NEW a \in Places(Tree)
      PROVE  \E n \in nodes : \E k \in 1..Len(items[n]) :
               a = <<n, k>> /\ a[1] = n /\ BoundsAt(a) = items[n][k].bounds
  BY <1>1, <1>2, <1>3, PlaceTypes DEF BoundsAt
<1>4. \A n \in nodes : Len(n) \in Nat
  BY <1>1, <1>2, NodeTypes DEF TreeType
<1>5. ASSUME NEW r \in MBR
      PROVE  RangeComplete(r)
  <2>1. ASSUME NEW a \in Places(Tree), mbr_intersects(Bounds, r), mbr_intersects(BoundsAt(a), r)
        PROVE  a[1] \in Visited(r)
    <3>0. PICK n \in nodes : \E k \in 1..Len(items[n]) :
               a = <<n, k>> /\ a[1] = n /\ BoundsAt(a) = items[n][k].bounds
      BY <1>3
    <3>1. PICK k \in 1..Len(items[n]) :
               a = <<n, k>> /\ a[1] = n /\ BoundsAt(a) = items[n][k].bounds
      BY <3>0
    <3>2. \A j \in 0..Len(n) : mbr_intersects(BoundsOf[SubSeq(n, 1, j)], r)
      BY <1>1, <2>1, <3>1, ItemSeenOnWay
    <3> QED BY <3>1, <3>2 DEF Visited
  <2> QED BY <2>1 DEF RangeComplete, qtnode_query_range
<1>6. ASSUME NEW x, NEW y, mbr_create(x, y, x, y) \in MBR
      PROVE  PointComplete(x, y)
  <2> DEFINE at == mbr_create(x, y, x, y)
  <2>1. ASSUME NEW a \in Places(Tree), mbr_contains_mbr(Bounds, at), mbr_contains_mbr(BoundsAt(a), at)
        PROVE  \A j \in 0..Len(a[1]) : mbr_contains_mbr(BoundsOf[SubSeq(a[1], 1, j)], at)
    <3>0. PICK n \in nodes : \E k \in 1..Len(items[n]) :
               a = <<n, k>> /\ a[1] = n /\ BoundsAt(a) = items[n][k].bounds
      BY <1>3
    <3>1. PICK k \in 1..Len(items[n]) :
               a = <<n, k>> /\ a[1] = n /\ BoundsAt(a) = items[n][k].bounds
      BY <3>0
    <3>2. \A j \in 0..Len(n) : mbr_contains_mbr(BoundsOf[SubSeq(n, 1, j)], at)
      BY <1>1, <1>6, <2>1, <3>1, ItemSeenOnWay
    <3> QED BY <3>1, <3>2
  <2> QED BY <2>1 DEF PointComplete, qtnode_query_point
<1>7. \A r \in Boxes : r \in MBR /\ mbr_create(r.min_x, r.min_y, r.min_x, r.min_y) \in MBR
  BY QuadTreeAssumption DEF MBR, mbr_create
<1> QED BY <1>5, <1>6, <1>7 DEF RangeQueriesComplete

-----------------------------------------------------------------------------
\* Splitting a leaf.

\* Of the first k members of s those of K are w, each from the place that h names.
Drawn(s, K, k, w, h) ==
  /\ h \in [1..Len(w) -> 1..k]
  /\ \A j \in 1..Len(w) : w[j] = s[h[j]] /\ s[h[j]] \in K
  /\ \A i, j \in 1..Len(w) : h[i] = h[j] => i = j
  /\ \A i \in 1..k : s[i] \in K => \E j \in 1..Len(w) : h[j] = i

LEMMA DrawnOneMore ==
  ASSUME NEW S, NEW s \in Seq(S), NEW K, NEW k \in Nat, NEW w \in Seq(S), NEW h,
         s[k + 1] \in S, s[k + 1] \in K, Len(w) <= k, Drawn(s, K, k, w, h)
  PROVE  \E g : Drawn(s, K, k + 1, Append(w, s[k + 1]), g)
<1> DEFINE L == Len(w)
           v == Append(w, s[k + 1])
           g == [j \in 1..(L + 1) |-> IF j = L + 1 THEN k + 1 ELSE h[j]]
<1>1. /\ v \in Seq(S) /\ Len(v) = L + 1 /\ v[L + 1] = s[k + 1]
      /\ \A j \in 1..L : v[j] = w[j]
  BY AppendProperties
<1>2. L \in Nat /\ L <= k
  BY LenProperties
<1>3. /\ h \in [1..L -> 1..k]
      /\ \A j \in 1..L : w[j] = s[h[j]] /\ s[h[j]] \in K
      /\ \A i, j \in 1..L : h[i] = h[j] => i = j
      /\ \A i \in 1..k : s[i] \in K => \E j \in 1..L : h[j] = i
  BY DEF Drawn
<1>4. g[L + 1] = k + 1 /\ \A j \in 1..L : g[j] = h[j] /\ h[j] \in 1..k
  <2>1. L + 1 \in 1..(L + 1) /\ \A j \in 1..L : j \in 1..(L + 1) /\ j # L + 1
    BY <1>2
  <2> QED BY <1>3, <2>1
<1>5. g \in [1..(L + 1) -> 1..(k + 1)]
  <2>1. \A j \in 1..(L + 1) : (IF j = L + 1 THEN k + 1 ELSE h[j]) \in 1..(k + 1)
    <3>1. k + 1 \in 1..(k + 1) /\ \A i \in 1..k : i \in 1..(k + 1)
      OBVIOUS
    <3>2. \A j \in 1..(L + 1) : j # L + 1 => h[j] \in 1..k
      <4>1. \A j \in 1..(L + 1) : j # L + 1 => j \in 1..L
        BY <1>2
      <4> QED BY <1>3, <4>1
    <3> QED BY <3>1, <3>2
  <2> QED BY <2>1
<1> HIDE DEF v, L, g
<1>6. \A j \in 1..(L + 1) : j = L + 1 \/ j \in 1..L
  BY <1>2
<1>7. \A j \in 1..(L + 1) : v[j] = s[g[j]] /\ s[g[j]] \in K
  BY <1>1, <1>3, <1>4, <1>6
<1>8. \A i, j \in 1..(L + 1) : g[i] = g[j] => i = j
  <2> SUFFICES ASSUME NEW i \in 1..(L + 1), NEW j \in 1..(L + 1), g[i] = g[j] PROVE i = j
    OBVIOUS
  <2>1. \A c \in 1..k : c # k + 1
    OBVIOUS
  <2> QED BY <1>3, <1>4, <1>6, <2>1
<1>9. \A i \in 1..(k + 1) : s[i] \in K => \E j \in 1..(L + 1) : g[j] = i
  <2> SUFFICES ASSUME NEW i \in 1..(k + 1), s[i] \in K PROVE \E j \in 1..(L + 1) : g[j] = i
    OBVIOUS
  <2>1. i = k + 1 \/ i \in 1..k
    OBVIOUS
  <2>2. L + 1 \in 1..(L + 1) /\ \A j \in 1..L : j \in 1..(L + 1)
    BY <1>2
  <2> QED BY <2>1, <2>2, <1>3, <1>4
<1>10. Drawn(s, K, k + 1, v, g)
  BY <1>1, <1>5, <1>7, <1>8, <1>9 DEF Drawn
<1> QED BY <1>10 DEF v

\* Chosen keeps the members of K, and only them: each place of the result
\* stands for one place of the sequence.
LEMMA ChosenPlaces ==
  ASSUME NEW S, NEW s \in Seq(S), NEW K
  PROVE  /\ Chosen(s, K) \in Seq(S) /\ Len(Chosen(s, K)) <= Len(s)
         /\ \E h : Drawn(s, K, Len(s), Chosen(s, K), h)
<1> DEFINE N == Len(s)
           Step(d, y) == IF s[d] \in K THEN Append(y, s[d]) ELSE y
           G == [d \in 1..N |-> [y \in Seq(S) |-> Step(d, y)]]
           Rule(f) == f = [k \in 0..N |-> IF k = 0 THEN <<>>
                                          ELSE IF s[k] \in K THEN Append(f[k - 1], s[k]) ELSE f[k - 1]]
           u == CHOOSE f : Rule(f)
<1>1. N \in Nat /\ \A k \in 1..N : s[k] \in S
  BY LenProperties
<1>2. \A d \in 1..N : \A y \in Seq(S) : G[d][y] = Step(d, y) /\ Step(d, y) \in Seq(S)
  <2> SUFFICES ASSUME NEW d \in 1..N, NEW y \in Seq(S)
               PROVE  G[d][y] = Step(d, y) /\ Step(d, y) \in Seq(S)
    OBVIOUS
  <2>1. s[d] \in S /\ Append(y, s[d]) \in Seq(S)
    BY <1>1, AppendProperties
  <2> QED BY <2>1
<1> HIDE DEF G
<1>3. \E f : IsRun(f, Seq(S), <<>>, N, G)
  <2> DEFINE SS == Seq(S)
             x == <<>>
  <2>1. x \in SS
    BY EmptySeq
  <2>2. \A d \in 1..N : \A y \in SS : G[d][y] \in SS
    BY <1>2
  <2> HIDE DEF SS, x, N
  <2>3. \E f : IsRun(f, SS, x, N, G)
    BY <1>1, <2>1, <2>2, Iterated
  <2> QED BY <2>3 DEF SS, x, N
<1> HIDE DEF N
<1>4. PICK f : IsRun(f, Seq(S), <<>>, N, G)
  BY <1>3
<1>5. \A k \in 0..N : k # 0 => k \in 1..N /\ k - 1 \in 0..N /\ f[k - 1] \in Seq(S)
  BY <1>1, <1>4 DEF IsRun
<1>6. \A k \in 0..N : f[k] = IF k = 0 THEN <<>> ELSE Step(k, f[k - 1])
  <2> HIDE DEF Step
  <2>1. \A k \in 0..N : f[k] = IF k = 0 THEN <<>> ELSE G[k][f[k - 1]]
    BY <1>4, <1>5 DEF IsRun
  <2> QED BY <1>2, <1>5, <2>1
<1>7. Rule(f)
  <2>1. f = [k \in 0..N |-> IF k = 0 THEN <<>> ELSE Step(k, f[k - 1])]
    BY <1>4, <1>6 DEF IsRun
  <2> QED BY <2>1
<1>8. Rule(u)
  <2> HIDE DEF Rule
  <2> QED BY <1>7
<1>9. Chosen(s, K) = u[N]
  BY DEF Chosen, N
<1>10. u[0] = <<>> /\ \A d \in 1..N : u[d] = Step(d, u[d - 1])
  <2> HIDE DEF u
  <2>1. \A k \in 0..N : u[k] = IF k = 0 THEN <<>>
                               ELSE IF s[k] \in K THEN Append(u[k - 1], s[k]) ELSE u[k - 1]
    BY <1>8
  <2>2. 0 \in 0..N /\ \A d \in 1..N : d \in 0..N /\ d # 0
    BY <1>1
  <2> QED BY <2>1, <2>2
<1> HIDE DEF Rule, u
<1> DEFINE T == {k \in Nat : k <= N => /\ u[k] \in Seq(S) /\ Len(u[k]) <= k
                                       /\ \E h : Drawn(s, K, k, u[k], h)}
<1>11. 0 \in T
  <2>1. u[0] \in Seq(S) /\ Len(u[0]) = 0
    BY <1>10, EmptySeq
  <2>2. Drawn(s, K, 0, u[0], [j \in 1..0 |-> 0])
    BY <2>1 DEF Drawn
  <2>3. \E h : Drawn(s, K, 0, u[0], h)
    BY <2>2
  <2> QED BY <2>1, <2>3
<1>12. ASSUME NEW k \in Nat, k \in T
       PROVE  k + 1 \in T
  <2> SUFFICES ASSUME k + 1 <= N
               PROVE  u[k + 1] \in Seq(S) /\ Len(u[k + 1]) <= k + 1
                      /\ \E h : Drawn(s, K, k + 1, u[k + 1], h)
    OBVIOUS
  <2>1. k + 1 \in 1..N /\ (k + 1) - 1 = k /\ s[k + 1] \in S
    BY <1>1
  <2> DEFINE w == u[k]
  <2>2. w \in Seq(S) /\ Len(w) <= k /\ Len(w) \in Nat
    BY <1>1, <1>12, LenProperties
  <2>3. PICK h : Drawn(s, K, k, w, h)
    BY <1>1, <1>12
  <2>4. u[k + 1] = Step(k + 1, w)
    BY <1>10, <2>1
  <2> HIDE DEF w
  <2>5. CASE s[k + 1] \notin K
    <3>1. u[k + 1] = w
      BY <2>4, <2>5
    <3>2. Drawn(s, K, k + 1, w, h)
      BY <2>2, <2>3, <2>5 DEF Drawn
    <3> QED BY <2>2, <3>1, <3>2
  <2>6. CASE s[k + 1] \in K
    <3>1. u[k + 1] = Append(w, s[k + 1])
      BY <2>4, <2>6
    <3>2. \E g : Drawn(s, K, k + 1, u[k + 1], g)
      BY <2>1, <2>2, <2>3, <2>6, <3>1, DrawnOneMore
    <3>3. u[k + 1] \in Seq(S) /\ Len(u[k + 1]) <= k + 1
      BY <2>1, <2>2, <3>1, AppendProperties
    <3> QED BY <3>2, <3>3
  <2> QED BY <2>5, <2>6
<1>13. Nat \subseteq T
  <2> HIDE DEF T
  <2> QED BY <1>11, <1>12, InductiveSet
<1>14. u[N] \in Seq(S) /\ Len(u[N]) <= N /\ \E h : Drawn(s, K, N, u[N], h)
  BY <1>1, <1>13
<1> QED BY <1>9, <1>14 DEF N

\* The quadrants that an item fits in, and the first of them.
LEMMA FirstFitting ==
  ASSUME NEW n \in Node, NEW b
  PROVE  /\ Fitting(n, b) \subseteq Quadrant
         /\ Fitting(n, b) # {} =>
              /\ Min(Fitting(n, b)) \in Quadrant /\ Min(Fitting(n, b)) \in Fitting(n, b)
              /\ mbr_contains_mbr(BoundsOf[Append(n, Min(Fitting(n, b)))], b)
<1>1. Fitting(n, b) \subseteq Quadrant /\ Fitting(n, b) \subseteq Nat
  BY DEF Fitting, Quadrant
<1>2. Fitting(n, b) # {} => Min(Fitting(n, b)) \in Fitting(n, b)
  BY <1>1, MinIndex
<1>3. \A q \in Fitting(n, b) : mbr_contains_mbr(BoundsOf[Append(n, q)], b)
  BY DEF Fitting
<1> QED BY <1>1, <1>2, <1>3

\* The children of a node are found by their fronts.
LEMMA ChildOf ==
  ASSUME NEW n \in Node, NEW m \in Node
  PROVE  /\ \A q \in Quadrant : m = Append(n, q) => m # <<>> /\ Front(m) = n /\ Last(m) = q /\ m # n
         /\ m # <<>> /\ Front(m) = n => Last(m) \in Quadrant /\ m = Append(n, Last(m))
<1>1. n \in Seq(Quadrant) /\ m \in Seq(Quadrant) /\ Len(n) \in Nat
  BY NodeTypes
<1>2. \A q \in Quadrant : /\ Append(n, q) # <<>> /\ Front(Append(n, q)) = n /\ Last(Append(n, q)) = q
                          /\ Len(Append(n, q)) = Len(n) + 1
  <2> SUFFICES ASSUME NEW q \in Quadrant
               PROVE  /\ Append(n, q) # <<>> /\ Front(Append(n, q)) = n /\ Last(Append(n, q)) = q
                      /\ Len(Append(n, q)) = Len(n) + 1
    OBVIOUS
  <2>1. Append(n, q) # <<>>
    BY <1>1, AppendFront
  <2>2. Front(Append(n, q)) = n
    BY <1>1, AppendFront
  <2>3. Last(Append(n, q)) = q
    BY <1>1, AppendFront
  <2>4. Len(Append(n, q)) = Len(n) + 1
    BY <1>1, AppendFront
  <2> QED BY <2>1, <2>2, <2>3, <2>4
<1>3. m # <<>> => Last(m) \in Quadrant /\ m = Append(Front(m), Last(m))
  BY <1>1, AppendFront
<1>4. \A q \in Quadrant : Append(n, q) # n
  <2>1. Len(n) + 1 # Len(n)
    BY <1>1
  <2> QED BY <1>2, <2>1
<1> QED BY <1>2, <1>3, <1>4

\* What a split leaves at each node.
LEMMA SplitShape ==
  ASSUME NEW t, TreeType(t), NEW n \in t.nodes, Len(n) < max_depth
  PROVE  LET u == qtnode_split(t, n)
         IN /\ u.nodes = t.nodes \cup {Append(n, q) : q \in Quadrant} /\ u.nodes \subseteq Node
            /\ u \in [nodes : SUBSET Node, items : [Node -> Seq(Item)]]
            /\ u.items[n] = <<>>
            /\ \A q \in Quadrant : u.items[Append(n, q)] = Chosen(t.items[n], MovedTo(n, q))
            /\ \A m \in Node : m # n /\ (\A q \in Quadrant : m # Append(n, q)) => u.items[m] = t.items[m]
<1> DEFINE u == qtnode_split(t, n)
           at(m) == IF m = n THEN <<>>
                    ELSE IF m # <<>> /\ Front(m) = n THEN Chosen(t.items[n], MovedTo(n, Last(m)))
                    ELSE t.items[m]
<1>1. u = [nodes |-> t.nodes \cup {Append(n, q) : q \in Quadrant}, items |-> [m \in Node |-> at(m)]]
  BY DEF qtnode_split
<1>2. n \in Node /\ t.nodes \subseteq Node /\ t.items \in [Node -> Seq(Item)]
  BY DEF TreeType
<1>3. \A q \in Quadrant : Append(n, q) \in Node
  BY <1>2, NodeTypes
<1>4. u.nodes = t.nodes \cup {Append(n, q) : q \in Quadrant} /\ u.nodes \subseteq Node
  <2> HIDE DEF at, u
  <2>1. u.nodes = t.nodes \cup {Append(n, q) : q \in Quadrant}
    BY <1>1
  <2>2. {Append(n, q) : q \in Quadrant} \subseteq Node
    BY <1>3
  <2> QED BY <1>2, <2>1, <2>2
<1>5. u.items = [m \in Node |-> at(m)]
  BY <1>1
<1>6. \A K : Chosen(t.items[n], K) \in Seq(Item)
  <2>1. t.items[n] \in Seq(Item)
    BY <1>2
  <2> QED BY <2>1, ChosenPlaces
<1>7. \A m \in Node : at(m) \in Seq(Item)
  <2>1. <<>> \in Seq(Item)
    BY EmptySeq
  <2> QED BY <1>2, <1>6, <2>1
<1>8. at(n) = <<>>
  OBVIOUS
<1>9. ASSUME NEW q \in Quadrant
      PROVE  at(Append(n, q)) = Chosen(t.items[n], MovedTo(n, q))
  <2> DEFINE m == Append(n, q)
  <2>1. m # <<>> /\ Front(m) = n /\ Last(m) = q /\ m # n
    BY <1>2, <1>3, ChildOf
  <2> QED BY <2>1
<1>10. ASSUME NEW m \in Node, m # n, \A q \in Quadrant : m # Append(n, q)
       PROVE  at(m) = t.items[m]
  BY <1>2, <1>10, ChildOf
<1> HIDE DEF at, u
<1>11. u.items \in [Node -> Seq(Item)] /\ \A m \in Node : u.items[m] = at(m)
  BY <1>5, <1>7
<1>12. u \in [nodes : SUBSET Node, items : [Node -> Seq(Item)]]
  <2>1. u = [nodes |-> u.nodes, items |-> u.items]
    BY <1>1, <1>4, <1>5
  <2> QED BY <1>4, <1>11, <2>1
<1>13. /\ u.items[n] = <<>>
       /\ \A q \in Quadrant : u.items[Append(n, q)] = Chosen(t.items[n], MovedTo(n, q))
       /\ \A m \in Node : m # n /\ (\A q \in Quadrant : m # Append(n, q)) => u.items[m] = t.items[m]
  BY <1>2, <1>3, <1>8, <1>9, <1>10, <1>11
<1> QED BY <1>4, <1>12, <1>13 DEF u

LEMMA FrontOfChild == \A m \in Node, q \in Quadrant : Front(Append(m, q)) = m
<1> SUFFICES ASSUME NEW m \in Node, NEW q \in Quadrant PROVE Front(Append(m, q)) = m
  OBVIOUS
<1>1. m \in Seq(Quadrant)
  BY NodeTypes
<1> QED BY <1>1, AppendFront

\* Which nodes are leaves after a split.
LEMMA SplitLeaves ==
  ASSUME NEW t, TreeType(t), Closed(t), NEW n \in t.nodes, MustSplit(t, n)
  PROVE  LET u == qtnode_split(t, n)
         IN /\ ~ is_leaf(u, n)
            /\ \A q \in Quadrant : /\ Append(n, q) \in Node /\ Append(n, q) \in u.nodes
                                   /\ Append(n, q) \notin t.nodes /\ is_leaf(u, Append(n, q))
            /\ \A m \in t.nodes : m # n => (is_leaf(u, m) <=> is_leaf(t, m))
<1> DEFINE u == qtnode_split(t, n)
<1>1. n \in Node /\ t.nodes \subseteq Node /\ is_leaf(t, n) /\ Len(n) < max_depth
  BY DEF TreeType, MustSplit
<1>2. \A q \in Quadrant : Append(n, q) \in Node
  BY <1>1, NodeTypes
<1>3. u.nodes = t.nodes \cup {Append(n, q) : q \in Quadrant}
  BY <1>1, SplitShape
<1> HIDE DEF u
<1>4. NW \in Quadrant
  BY DEF NW, Quadrant
<1>5. ASSUME NEW q \in Quadrant
      PROVE  Append(n, q) \notin t.nodes
  <2>1. Front(Append(n, q)) = n /\ Append(n, q) # <<>>
    BY <1>1, <1>2, ChildOf
  <2>2. Append(n, q) \in t.nodes => Append(n, NW) \in t.nodes
    BY <1>4, <2>1 DEF Closed
  <2> QED BY <1>1, <2>2 DEF is_leaf
<1>6. ~ is_leaf(u, n)
  BY <1>3, <1>4 DEF is_leaf
<1>7. \A m \in Node : \A q \in Quadrant : Append(m, NW) = Append(n, q) => m = n
  <2> SUFFICES ASSUME NEW m \in Node, NEW q \in Quadrant, Append(m, NW) = Append(n, q)
               PROVE  m = n
    OBVIOUS
  <2>1. Front(Append(m, NW)) = m /\ Front(Append(n, q)) = n
    BY <1>1, <1>4, FrontOfChild
  <2> QED BY <2>1
<1>8. ASSUME NEW q \in Quadrant
      PROVE  is_leaf(u, Append(n, q))
  <2> DEFINE m == Append(n, q)
  <2>1. m \in Node /\ m # n
    BY <1>1, <1>2, ChildOf
  <2>2. Append(m, NW) \notin t.nodes
    <3>1. Front(Append(m, NW)) = m /\ Append(m, NW) # <<>>
      <4> HIDE DEF m
      <4>1. m \in Seq(Quadrant)
        BY <2>1, NodeTypes
      <4>2. Front(Append(m, NW)) = m
        BY <1>4, <4>1, AppendFront
      <4>3. Append(m, NW) # <<>>
        BY <1>4, <4>1, AppendFront
      <4> QED BY <4>2, <4>3
    <3>2. Append(m, NW) \in t.nodes => m \in t.nodes
      BY <3>1 DEF Closed
    <3> QED BY <1>5, <3>2
  <2>3. \A p \in Quadrant : Append(m, NW) # Append(n, p)
    BY <1>7, <2>1
  <2> HIDE DEF m
  <2>4. Append(m, NW) \notin u.nodes
    BY <1>3, <2>2, <2>3
  <2> QED BY <2>4 DEF is_leaf, m
<1>9. ASSUME NEW m \in t.nodes, m # n
      PROVE  is_leaf(u, m) <=> is_leaf(t, m)
  <2>1. \A p \in Quadrant : Append(m, NW) # Append(n, p)
    BY <1>1, <1>7, <1>9
  <2>2. Append(m, NW) \in u.nodes <=> Append(m, NW) \in t.nodes
    BY <1>3, <2>1
  <2> QED BY <2>2 DEF is_leaf
<1>10. \A q \in Quadrant : Append(n, q) \in u.nodes
  BY <1>3
<1> QED BY <1>2, <1>5, <1>6, <1>8, <1>9, <1>10 DEF u

\* Fitting is what AtHome asks of an item in a child.
LEMMA MovedFits ==
  ASSUME NEW n \in Node, NEW q \in Quadrant, NEW i \in MovedTo(n, q)
  PROVE  mbr_contains_mbr(BoundsOf[Append(n, q)], i.bounds)
<1>1. Fitting(n, i.bounds) # {} /\ Min(Fitting(n, i.bounds)) = q
  BY DEF MovedTo
<1> QED BY <1>1, FirstFitting

\* The split of a full leaf leaves a sound tree.
LEMMA SplitSound ==
  ASSUME NEW t, Sound(t), NEW n \in t.nodes, MustSplit(t, n)
  PROVE  Sound(qtnode_split(t, n))
<1> DEFINE u == qtnode_split(t, n)
           Child(m) == \E q \in Quadrant : m = Append(n, q)
<1>1. TreeType(t) /\ Closed(t) /\ Roomy(t)
  BY DEF Sound
<1>2. /\ n \in Node /\ t.nodes \subseteq Node /\ is_leaf(t, n) /\ Len(n) < max_depth
      /\ t.items \in [Node -> Seq(Item)] /\ <<>> \in t.nodes
      /\ \A m \in Node \ t.nodes : t.items[m] = <<>>
  BY <1>1 DEF TreeType, MustSplit
<1>3. /\ u.nodes = t.nodes \cup {Append(n, q) : q \in Quadrant} /\ u.nodes \subseteq Node
      /\ u \in [nodes : SUBSET Node, items : [Node -> Seq(Item)]]
      /\ u.items[n] = <<>>
      /\ \A q \in Quadrant : u.items[Append(n, q)] = Chosen(t.items[n], MovedTo(n, q))
      /\ \A m \in Node : m # n /\ (\A q \in Quadrant : m # Append(n, q)) => u.items[m] = t.items[m]
  BY <1>1, <1>2, SplitShape
<1>4. /\ ~ is_leaf(u, n)
      /\ \A q \in Quadrant : /\ Append(n, q) \in Node /\ Append(n, q) \in u.nodes
                             /\ Append(n, q) \notin t.nodes /\ is_leaf(u, Append(n, q))
      /\ \A m \in t.nodes : m # n => (is_leaf(u, m) <=> is_leaf(t, m))
  BY <1>1, SplitLeaves
<1> HIDE DEF u
<1>5. \A m \in u.nodes : m \in Node /\ (m = n \/ Child(m) \/ (m \in t.nodes /\ m # n /\ ~ Child(m)))
  BY <1>3
<1>6. \A m \in t.nodes : ~ Child(m)
  BY <1>4
<1>7. TreeType(u)
  <2>1. ASSUME NEW m \in Node \ u.nodes
        PROVE  u.items[m] = <<>>
    BY <1>2, <1>3, <1>4
  <2> QED BY <1>2, <1>3, <2>1 DEF TreeType
<1>8. Closed(u)
  <2> SUFFICES ASSUME NEW m \in u.nodes, m # <<>>
               PROVE  Front(m) \in u.nodes /\ \A q \in Quadrant : Append(Front(m), q) \in u.nodes
    BY DEF Closed
  <2>1. CASE m \in t.nodes
    <3>1. Front(m) \in t.nodes /\ \A q \in Quadrant : Append(Front(m), q) \in t.nodes
      BY <1>1, <2>1 DEF Closed
    <3> QED BY <1>3, <3>1
  <2>2. CASE Child(m)
    <3>1. Front(m) = n
      BY <1>2, <1>5, <2>2, ChildOf
    <3> QED BY <1>3, <1>4, <3>1
  <2> QED BY <1>3, <2>1, <2>2
<1>9. \A K : Len(Chosen(t.items[n], K)) <= Len(t.items[n]) /\ Len(Chosen(t.items[n], K)) \in Nat
  <2>1. t.items[n] \in Seq(Item)
    BY <1>2
  <2> QED BY <2>1, ChosenPlaces, LenProperties
<1>10. Roomy(u)
  <2> SUFFICES ASSUME NEW m \in u.nodes, is_leaf(u, m), Len(m) < max_depth
               PROVE  Len(u.items[m]) <= node_capacity
    BY DEF Roomy
  <2>1. m # n
    BY <1>4
  <2>2. CASE Child(m)
    <3>1. PICK q \in Quadrant : m = Append(n, q)
      BY <2>2
    <3>2. u.items[m] = Chosen(t.items[n], MovedTo(n, q))
      BY <1>3, <3>1
    <3>3. Len(t.items[n]) <= node_capacity /\ Len(t.items[n]) \in Nat
      BY <1>1, <1>2, PlaceTypes DEF Roomy
    <3> QED BY <1>9, <3>2, <3>3, NodeTypes
  <2>3. CASE m \in t.nodes /\ ~ Child(m)
    <3>1. u.items[m] = t.items[m] /\ is_leaf(t, m)
      BY <1>2, <1>3, <1>4, <2>1, <2>3
    <3> QED BY <1>1, <2>3, <3>1 DEF Roomy
  <2> QED BY <1>5, <2>1, <2>2, <2>3
<1>11. ASSUME NEW m \in u.nodes, NEW k \in 1..Len(u.items[m])
       PROVE  AtHome(u, m, u.items[m][k].bounds)
  <2>1. CASE m = n
    <3>1. Len(u.items[m]) = 0
      BY <1>3, <2>1, EmptySeq
    <3> QED BY <3>1
  <2>2. CASE Child(m)
    <3>1. PICK q \in Quadrant : m = Append(n, q)
      BY <2>2
    <3> DEFINE w == Chosen(t.items[n], MovedTo(n, q))
    <3>2. u.items[m] = w
      BY <1>3, <3>1
    <3>3. w[k] \in MovedTo(n, q)
      <4>1. t.items[n] \in Seq(Item)
        BY <1>2
      <4>2. PICK h : Drawn(t.items[n], MovedTo(n, q), Len(t.items[n]), w, h)
        BY <4>1, ChosenPlaces
      <4>3. \A j \in 1..Len(w) : w[j] \in MovedTo(n, q)
        BY <4>2 DEF Drawn
      <4> QED BY <3>2, <4>3
    <3>4. mbr_contains_mbr(BoundsOf[m], u.items[m][k].bounds)
      BY <1>2, <3>1, <3>2, <3>3, MovedFits
    <3> QED BY <1>4, <3>1, <3>4 DEF AtHome
  <2>3. CASE m \in t.nodes /\ m # n /\ ~ Child(m)
    <3>1. u.items[m] = t.items[m] /\ (is_leaf(t, m) <=> is_leaf(u, m))
      BY <1>2, <1>3, <1>4, <2>3
    <3>2. AtHome(t, m, u.items[m][k].bounds)
      BY <2>3, <3>1 DEF Sound
    <3> QED BY <3>1, <3>2 DEF AtHome
  <2> QED BY <1>5, <2>1, <2>2, <2>3
<1> QED BY <1>7, <1>8, <1>10, <1>11 DEF Sound, u

\* The places of a split tree stand for different places of the tree: the
\* split makes no item of its own.
LEMMA SplitCount ==
  ASSUME NEW t, Sound(t), NEW n \in t.nodes, MustSplit(t, n), IsFiniteSet(Places(t))
  PROVE  /\ IsFiniteSet(Places(qtnode_split(t, n)))
         /\ Cardinality(Places(qtnode_split(t, n))) <= Cardinality(Places(t))
<1> DEFINE u == qtnode_split(t, n)
           s == t.items[n]
           Child(m) == \E q \in Quadrant : m = Append(n, q)
           H == [q \in Quadrant |-> CHOOSE h : Drawn(s, MovedTo(n, q), Len(s), Chosen(s, MovedTo(n, q)), h)]
           From(a) == IF Child(a[1]) THEN <<n, H[Last(a[1])][a[2]]>> ELSE a
           F == [a \in Places(u) |-> From(a)]
<1>1. TreeType(t) /\ Closed(t) /\ n \in Node /\ t.nodes \subseteq Node /\ Len(n) < max_depth
  BY DEF Sound, TreeType, MustSplit
<1>2. /\ u.nodes = t.nodes \cup {Append(n, q) : q \in Quadrant} /\ u.nodes \subseteq Node
      /\ u.items[n] = <<>>
      /\ \A q \in Quadrant : u.items[Append(n, q)] = Chosen(s, MovedTo(n, q))
      /\ \A m \in Node : m # n /\ (\A q \in Quadrant : m # Append(n, q)) => u.items[m] = t.items[m]
  BY <1>1, SplitShape
<1>3. TreeType(u)
  BY SplitSound DEF Sound
<1>4. \A q \in Quadrant : Append(n, q) \in Node /\ Last(Append(n, q)) = q /\ Append(n, q) # n
  <2>1. \A q \in Quadrant : Append(n, q) \in Node
    BY <1>1, NodeTypes
  <2> QED BY <1>1, <2>1, ChildOf
<1>5. ASSUME NEW q \in Quadrant
      PROVE  /\ H[q] \in [1..Len(Chosen(s, MovedTo(n, q))) -> 1..Len(s)]
             /\ \A j \in 1..Len(Chosen(s, MovedTo(n, q))) : s[H[q][j]] \in MovedTo(n, q)
             /\ \A i, j \in 1..Len(Chosen(s, MovedTo(n, q))) : H[q][i] = H[q][j] => i = j
  <2> DEFINE K == MovedTo(n, q)
             w == Chosen(s, K)
  <2>1. s \in Seq(Item)
    BY <1>1, PlaceTypes
  <2>2. \E h : Drawn(s, K, Len(s), w, h)
    BY <2>1, ChosenPlaces
  <2>3. H[q] = CHOOSE h : Drawn(s, K, Len(s), w, h)
    OBVIOUS
  <2> HIDE DEF H
  <2>4. Drawn(s, K, Len(s), w, H[q])
    BY <2>2, <2>3
  <2> QED BY <2>4 DEF Drawn
<1>6. \A p, q \in Quadrant : \A i : i \in MovedTo(n, p) /\ i \in MovedTo(n, q) => p = q
  BY DEF MovedTo
<1> HIDE DEF u, H
<1>7. ASSUME NEW a \in Places(u)
      PROVE  \/ \E q \in Quadrant : \E j \in 1..Len(Chosen(s, MovedTo(n, q))) :
                  a = <<Append(n, q), j>> /\ From(a) = <<n, H[q][j]>>
             \/ a \in Places(t) /\ a[1] # n /\ From(a) = a
  <2>1. PICK m \in u.nodes : \E k \in 1..Len(u.items[m]) : a = <<m, k>>
    BY <1>3, PlaceTypes
  <2>2. PICK k \in 1..Len(u.items[m]) : a = <<m, k>>
    BY <2>1
  <2>3. m # n
    <3>1. Len(u.items[n]) = 0
      BY <1>2, EmptySeq
    <3> QED BY <2>2, <3>1
  <2>4. CASE Child(m)
    <3>1. PICK q \in Quadrant : m = Append(n, q)
      BY <2>4
    <3>2. k \in 1..Len(Chosen(s, MovedTo(n, q)))
      BY <1>2, <2>2, <3>1
    <3>3. From(a) = <<n, H[q][k]>>
      BY <1>4, <2>2, <2>4, <3>1
    <3> QED BY <2>2, <3>1, <3>2, <3>3
  <2>5. CASE ~ Child(m)
    <3>1. m \in t.nodes /\ u.items[m] = t.items[m]
      BY <1>1, <1>2, <2>3, <2>5
    <3>2. a \in Places(t)
      BY <1>1, <2>2, <3>1, PlaceTypes
    <3> QED BY <2>2, <2>3, <2>5, <3>2
  <2> QED BY <2>4, <2>5
<1> HIDE DEF From
<1>8. \A a \in Places(u) : From(a) \in Places(t)
  <2> SUFFICES ASSUME NEW a \in Places(u) PROVE From(a) \in Places(t)
    OBVIOUS
  <2>1. CASE a \in Places(t) /\ a[1] # n /\ From(a) = a
    BY <2>1
  <2>2. ASSUME NEW q \in Quadrant, NEW j \in 1..Len(Chosen(s, MovedTo(n, q))),
               From(a) = <<n, H[q][j]>>
        PROVE  From(a) \in Places(t)
    <3>1. H[q][j] \in 1..Len(s)
      BY <1>5
    <3> QED BY <1>1, <2>2, <3>1, PlaceTypes
  <2> QED BY <1>7, <2>1, <2>2
<1>9. ASSUME NEW a \in Places(u), NEW b \in Places(u), From(a) = From(b)
      PROVE  a = b
  <2>1. ASSUME NEW q \in Quadrant, NEW j \in 1..Len(Chosen(s, MovedTo(n, q))),
               NEW p \in Quadrant, NEW i \in 1..Len(Chosen(s, MovedTo(n, p))),
               H[q][j] = H[p][i]
        PROVE  q = p /\ j = i
    <3>1. q = p
      BY <1>5, <1>6, <2>1
    <3> QED BY <1>5, <2>1, <3>1
  <2> DEFINE Kept(c) == c \in Places(t) /\ c[1] # n /\ From(c) = c
             Moved(c) == \E q \in Quadrant : \E j \in 1..Len(Chosen(s, MovedTo(n, q))) :
                           c = <<Append(n, q), j>> /\ From(c) = <<n, H[q][j]>>
  <2>2. (Kept(a) \/ Moved(a)) /\ (Kept(b) \/ Moved(b))
    BY <1>7
  <2>3. \A c : Moved(c) => From(c)[1] = n
    OBVIOUS
  <2>4. CASE Kept(a) /\ Kept(b)
    BY <1>9, <2>4
  <2>5. CASE Kept(a) /\ Moved(b)
    BY <1>9, <2>3, <2>5
  <2>6. CASE Moved(a) /\ Kept(b)
    BY <1>9, <2>3, <2>6
  <2>7. CASE Moved(a) /\ Moved(b)
    <3>1. PICK q \in Quadrant : \E j \in 1..Len(Chosen(s, MovedTo(n, q))) :
                           a = <<Append(n, q), j>> /\ From(a) = <<n, H[q][j]>>
      BY <2>7
    <3>2. PICK j \in 1..Len(Chosen(s, MovedTo(n, q))) :
                           a = <<Append(n, q), j>> /\ From(a) = <<n, H[q][j]>>
      BY <3>1
    <3>3. PICK p \in Quadrant : \E i \in 1..Len(Chosen(s, MovedTo(n, p))) :
                           b = <<Append(n, p), i>> /\ From(b) = <<n, H[p][i]>>
      BY <2>7
    <3>4. PICK i \in 1..Len(Chosen(s, MovedTo(n, p))) :
                           b = <<Append(n, p), i>> /\ From(b) = <<n, H[p][i]>>
      BY <3>3
    <3>5. H[q][j] = H[p][i]
      BY <1>9, <3>2, <3>4
    <3> QED BY <2>1, <3>2, <3>4, <3>5
  <2> HIDE DEF Kept, Moved
  <2> QED BY <2>2, <2>4, <2>5, <2>6, <2>7
<1>10. F \in Injection(Places(u), Places(t))
  <2>1. F \in [Places(u) -> Places(t)]
    BY <1>8
  <2>2. \A a, b \in Places(u) : F[a] = F[b] => a = b
    BY <1>9
  <2> HIDE DEF F
  <2>3. IsInjective(F)
    BY <2>1, <2>2 DEF IsInjective
  <2> QED BY <2>1, <2>3 DEF Injection
<1> QED BY <1>10, FS_Injection DEF u

\* An item of a split tree is where it was, or in a child of the split node
\* that contains it; items that no child contains are lost.
KeepsItem(t, u, n, m, k) ==
  \/ m # n /\ m \in u.nodes /\ u.items[m] = t.items[m]
  \/ m = n /\ Fitting(n, t.items[m][k].bounds) = {}
  \/ m = n /\ \E q \in Quadrant : \E j \in 1..Len(u.items[Append(n, q)]) :
       Append(n, q) \in u.nodes /\ u.items[Append(n, q)][j] = t.items[m][k]

LEMMA SplitKeeps ==
  ASSUME NEW t, Sound(t), NEW n \in t.nodes, MustSplit(t, n),
         NEW m \in t.nodes, NEW k \in 1..Len(t.items[m])
  PROVE  KeepsItem(t, qtnode_split(t, n), n, m, k)
<1> DEFINE u == qtnode_split(t, n)
           s == t.items[n]
<1>1. TreeType(t) /\ Closed(t) /\ n \in Node /\ t.nodes \subseteq Node /\ Len(n) < max_depth
  BY DEF Sound, TreeType, MustSplit
<1>2. /\ u.nodes = t.nodes \cup {Append(n, q) : q \in Quadrant}
      /\ \A q \in Quadrant : u.items[Append(n, q)] = Chosen(s, MovedTo(n, q))
      /\ \A i \in Node : i # n /\ (\A q \in Quadrant : i # Append(n, q)) => u.items[i] = t.items[i]
  BY <1>1, SplitShape
<1>3. \A q \in Quadrant : Append(n, q) \notin t.nodes
  BY <1>1, SplitLeaves
<1> HIDE DEF u
<1>4. CASE m # n
  BY <1>1, <1>2, <1>3, <1>4 DEF u, KeepsItem
<1>5. CASE m = n /\ Fitting(n, t.items[m][k].bounds) # {}
  <2> DEFINE q == Min(Fitting(n, s[k].bounds))
             w == Chosen(s, MovedTo(n, q))
  <2>1. s \in Seq(Item) /\ s[k] \in Item /\ k \in 1..Len(s)
    BY <1>1, <1>5, PlaceTypes
  <2>2. q \in Quadrant
    BY <1>1, <1>5, FirstFitting
  <2>3. s[k] \in MovedTo(n, q)
    BY <1>5, <2>1 DEF MovedTo
  <2> HIDE DEF q
  <2>4. PICK h : Drawn(s, MovedTo(n, q), Len(s), w, h)
    BY <2>1, ChosenPlaces
  <2>5. PICK j \in 1..Len(w) : h[j] = k
    BY <2>1, <2>3, <2>4 DEF Drawn
  <2>6. w[j] = s[k]
    BY <2>4, <2>5 DEF Drawn
  <2>7. u.items[Append(n, q)] = w /\ Append(n, q) \in u.nodes
    BY <1>2, <2>2
  <2> QED BY <1>5, <2>2, <2>5, <2>6, <2>7 DEF u, KeepsItem
<1>6. CASE m = n /\ Fitting(n, t.items[m][k].bounds) = {}
  BY <1>6 DEF KeepsItem
<1> QED BY <1>4, <1>5, <1>6

-----------------------------------------------------------------------------
\* The descent of an insertion.

Way(t, b, f) ==
  /\ f \in [0..max_depth -> t.nodes]
  /\ f[0] = <<>> /\ \A d \in 1..max_depth : f[d] = Below(t, b, f[d - 1])

LEMMA BelowType ==
  ASSUME NEW t, TreeType(t), Closed(t), NEW b, NEW n \in t.nodes
  PROVE  /\ Below(t, b, n) \in t.nodes
         /\ is_leaf(t, n) \/ Fitting(n, b) = {} => Below(t, b, n) = n
         /\ ~ (is_leaf(t, n) \/ Fitting(n, b) = {}) =>
              /\ Len(Below(t, b, n)) = Len(n) + 1
              /\ mbr_contains_mbr(BoundsOf[Below(t, b, n)], b)
<1>1. n \in Node /\ t.nodes \subseteq Node /\ n \in Seq(Quadrant)
  BY NodeTypes DEF TreeType
<1>2. CASE is_leaf(t, n) \/ Fitting(n, b) = {}
  BY <1>2 DEF Below
<1>3. CASE ~ (is_leaf(t, n) \/ Fitting(n, b) = {})
  <2> DEFINE q == Min(Fitting(n, b))
  <2>1. q \in Quadrant /\ mbr_contains_mbr(BoundsOf[Append(n, q)], b)
    BY <1>1, <1>3, FirstFitting
  <2>2. Below(t, b, n) = Append(n, q)
    BY <1>3 DEF Below
  <2> HIDE DEF q
  <2>3. Append(n, NW) \in t.nodes \ {<<>>} /\ Front(Append(n, NW)) = n
    <3>1. NW \in Quadrant /\ Append(n, NW) \in t.nodes
      BY <1>3 DEF is_leaf, NW, Quadrant
    <3> QED BY <1>1, <3>1, ChildOf
  <2>4. Append(n, q) \in t.nodes
    BY <2>1, <2>3 DEF Closed
  <2>5. Len(Append(n, q)) = Len(n) + 1
    BY <1>1, <2>1, AppendFront
  <2> QED BY <1>3, <2>1, <2>2, <2>4, <2>5
<1> QED BY <1>2, <1>3

\* The descent exists, and target is where it ends.
LEMMA TargetWay ==
  ASSUME NEW t, TreeType(t), Closed(t), NEW b
  PROVE  \E f : Way(t, b, f) /\ target(t, b) = f[max_depth]
<1> DEFINE G == [d \in 1..max_depth |-> [n \in t.nodes |-> Below(t, b, n)]]
           Rule(f) == f = [d \in 0..max_depth |-> IF d = 0 THEN <<>> ELSE Below(t, b, f[d - 1])]
           at == CHOOSE f : Rule(f)
<1>1. max_depth \in Nat /\ <<>> \in t.nodes
  BY NodeTypes DEF TreeType
<1>2. \A d \in 1..max_depth : \A n \in t.nodes : G[d][n] = Below(t, b, n) /\ G[d][n] \in t.nodes
  BY BelowType
<1> HIDE DEF G
<1>3. PICK f : IsRun(f, t.nodes, <<>>, max_depth, G)
  <2> DEFINE S == t.nodes
             x == <<>>
             N == max_depth
  <2>1. x \in S /\ N \in Nat /\ \A d \in 1..N : \A y \in S : G[d][y] \in S
    BY <1>1, <1>2
  <2> HIDE DEF S, x, N
  <2>2. \E f : IsRun(f, S, x, N, G)
    BY <2>1, Iterated
  <2> QED BY <2>2 DEF S, x, N
<1>4. /\ f \in [0..max_depth -> t.nodes] /\ f[0] = <<>>
      /\ \A d \in 1..max_depth : f[d] = G[d][f[d - 1]]
  BY <1>3 DEF IsRun
<1>5. \A d \in 1..max_depth : f[d - 1] \in t.nodes
  BY <1>1, <1>4
<1>6. \A d \in 1..max_depth : f[d] = Below(t, b, f[d - 1])
  BY <1>2, <1>4, <1>5
<1>7. Way(t, b, f)
  BY <1>4, <1>6 DEF Way
<1>8. Rule(f)
  <2>1. \A d \in 0..max_depth : f[d] = IF d = 0 THEN <<>> ELSE Below(t, b, f[d - 1])
    BY <1>1, <1>4, <1>6
  <2> QED BY <1>4, <2>1
<1>9. \A g : Rule(g) => g = f
  <2> SUFFICES ASSUME NEW g, Rule(g) PROVE g = f
    OBVIOUS
  <2>1. g[0] = <<>> /\ \A d \in 1..max_depth : g[d] = Below(t, b, g[d - 1])
    <3> DEFINE r(d) == IF d = 0 THEN <<>> ELSE Below(t, b, g[d - 1])
    <3>1. g = [d \in 0..max_depth |-> r(d)]
      OBVIOUS
    <3>2. \A d \in 0..max_depth : g[d] = r(d)
      <4> HIDE DEF r
      <4> QED BY <3>1
    <3> QED BY <1>1, <3>2
  <2> DEFINE T == {d \in Nat : d <= max_depth => g[d] = f[d]}
  <2>2. 0 \in T
    BY <1>4, <2>1
  <2>3. ASSUME NEW d \in Nat, d \in T
        PROVE  d + 1 \in T
    <3> SUFFICES ASSUME d + 1 <= max_depth PROVE g[d + 1] = f[d + 1]
      OBVIOUS
    <3>1. d + 1 \in 1..max_depth /\ (d + 1) - 1 = d /\ g[d] = f[d]
      BY <1>1, <2>3
    <3> QED BY <1>6, <2>1, <3>1
  <2>4. Nat \subseteq T
    <3> HIDE DEF T
    <3> QED BY <2>2, <2>3, InductiveSet
  <2>5. \A d \in 0..max_depth : g[d] = f[d]
    <3> SUFFICES ASSUME NEW d \in 0..max_depth PROVE g[d] = f[d]
      OBVIOUS
    <3>1. d \in Nat /\ d <= max_depth
      BY <1>1
    <3>2. d \in T
      BY <2>4, <3>1
    <3> QED BY <3>1, <3>2
  <2>6. g \in [0..max_depth -> {g[d] : d \in 0..max_depth}]
    OBVIOUS
  <2> QED BY <1>4, <2>5, <2>6
<1>10. at = f
  <2> HIDE DEF Rule
  <2>1. Rule(at)
    BY <1>8
  <2> QED BY <1>9, <2>1
<1>11. target(t, b) = at[max_depth]
  BY DEF target
<1> QED BY <1>7, <1>10, <1>11

\* The descent ends where an item with these bounds may lie.
LEMMA TargetHome ==
  ASSUME NEW t, TreeType(t), Closed(t), NEW b
  PROVE  target(t, b) \in t.nodes /\ AtHome(t, target(t, b), b)
<1> DEFINE Stops(n) == is_leaf(t, n) \/ Fitting(n, b) = {}
<1>1. PICK f : Way(t, b, f) /\ target(t, b) = f[max_depth]
  BY TargetWay
<1>2. /\ \A d \in 0..max_depth : f[d] \in t.nodes
      /\ f[0] = <<>> /\ \A d \in 1..max_depth : f[d] = Below(t, b, f[d - 1])
  BY <1>1 DEF Way
<1>3. max_depth \in Nat /\ Len(<<>>) = 0
  BY NodeTypes
<1> DEFINE T == {d \in Nat : d <= max_depth =>
                   /\ f[d] # <<>> => mbr_contains_mbr(BoundsOf[f[d]], b)
                   /\ Stops(f[d]) \/ Len(f[d]) = d}
<1>4. 0 \in T
  BY <1>2, <1>3
<1>5. ASSUME NEW d \in Nat, d \in T
      PROVE  d + 1 \in T
  <2> SUFFICES ASSUME d + 1 <= max_depth
               PROVE  /\ f[d + 1] # <<>> => mbr_contains_mbr(BoundsOf[f[d + 1]], b)
                      /\ Stops(f[d + 1]) \/ Len(f[d + 1]) = d + 1
    OBVIOUS
  <2>1. d \in 0..max_depth /\ d + 1 \in 1..max_depth /\ (d + 1) - 1 = d
    BY <1>3
  <2>2. /\ f[d] # <<>> => mbr_contains_mbr(BoundsOf[f[d]], b)
        /\ Stops(f[d]) \/ Len(f[d]) = d
    BY <1>5, <2>1
  <2>3. f[d] \in t.nodes /\ f[d + 1] = Below(t, b, f[d])
    BY <1>2, <2>1
  <2> QED BY <2>2, <2>3, BelowType
<1>6. Nat \subseteq T
  <2> HIDE DEF T
  <2> QED BY <1>4, <1>5, InductiveSet
<1> DEFINE n == f[max_depth]
<1>7. /\ n # <<>> => mbr_contains_mbr(BoundsOf[n], b)
      /\ Stops(n) \/ Len(n) = max_depth
      /\ n \in t.nodes
  BY <1>2, <1>3, <1>6
<1>8. Len(n) = max_depth => is_leaf(t, n)
  <2> HIDE DEF n
  <2> SUFFICES ASSUME Len(n) = max_depth, ~ is_leaf(t, n) PROVE FALSE
    OBVIOUS
  <2>1. n \in Seq(Quadrant) /\ Append(n, NW) \in Node
    BY <1>7, NodeTypes DEF TreeType, is_leaf
  <2>2. Len(Append(n, NW)) = Len(n) + 1
    BY <2>1, AppendFront DEF NW, Quadrant
  <2>3. Len(Append(n, NW)) <= max_depth
    BY <2>1, NodeTypes
  <2> HIDE DEF T
  <2> QED BY <1>3, <2>2, <2>3
<1> QED BY <1>1, <1>7, <1>8 DEF AtHome

\* After the split of the leaf where the descent ends, it ends at that node,
\* a leaf no more, or one level further down.
LEMMA TargetAfterSplit ==
  ASSUME NEW t, Sound(t), NEW b, MustSplit(t, target(t, b))
  PROVE  LET n == target(t, b)
             u == qtnode_split(t, n)
         IN target(u, b) = n \/ Len(target(u, b)) = Len(n) + 1
<1> DEFINE n == target(t, b)
           u == qtnode_split(t, n)
           Child(m) == \E q \in Quadrant : m = Append(n, q)
<1>1. TreeType(t) /\ Closed(t)
  BY DEF Sound
<1>2. n \in t.nodes /\ n \in Node /\ is_leaf(t, n) /\ n \in Seq(Quadrant)
  BY <1>1, TargetHome, NodeTypes DEF TreeType, MustSplit
<1>3. TreeType(u) /\ Closed(u)
  BY <1>2, SplitSound DEF Sound
<1>4. /\ ~ is_leaf(u, n)
      /\ \A q \in Quadrant : is_leaf(u, Append(n, q))
      /\ \A m \in t.nodes : m # n => (is_leaf(u, m) <=> is_leaf(t, m))
  BY <1>1, <1>2, SplitLeaves
<1>5. PICK f : Way(t, b, f) /\ target(t, b) = f[max_depth]
  BY <1>1, TargetWay
<1>6. PICK g : Way(u, b, g) /\ target(u, b) = g[max_depth]
  BY <1>3, TargetWay
<1>7. max_depth \in Nat
  BY NodeTypes
<1> HIDE DEF n, u
<1>8. /\ \A d \in 0..max_depth : f[d] \in t.nodes
      /\ f[0] = <<>> /\ \A d \in 1..max_depth : f[d] = Below(t, b, f[d - 1])
      /\ g[0] = <<>> /\ \A d \in 1..max_depth : g[d] = Below(u, b, g[d - 1])
  BY <1>5, <1>6 DEF Way
<1> DEFINE T == {d \in Nat : d <= max_depth => g[d] = f[d] \/ (f[d] = n /\ Child(g[d]))}
<1>9. 0 \in T
  BY <1>8
<1>10. ASSUME NEW d \in Nat, d \in T
       PROVE  d + 1 \in T
  <2> SUFFICES ASSUME d + 1 <= max_depth
               PROVE  g[d + 1] = f[d + 1] \/ (f[d + 1] = n /\ Child(g[d + 1]))
    OBVIOUS
  <2>1. d \in 0..max_depth /\ d + 1 \in 1..max_depth /\ (d + 1) - 1 = d
    BY <1>7
  <2>2. g[d] = f[d] \/ (f[d] = n /\ Child(g[d]))
    BY <1>7, <1>10
  <2>3. f[d] \in t.nodes /\ f[d + 1] = Below(t, b, f[d]) /\ g[d + 1] = Below(u, b, g[d])
    BY <1>8, <2>1
  <2>4. f[d] = n => f[d + 1] = n
    BY <1>2, <2>3 DEF Below
  <2>5. CASE g[d] = f[d] /\ f[d] # n
    <3>1. is_leaf(u, f[d]) <=> is_leaf(t, f[d])
      BY <1>4, <2>3, <2>5
    <3> QED BY <2>3, <2>5, <3>1 DEF Below
  <2>6. CASE g[d] = f[d] /\ f[d] = n
    <3>1. g[d + 1] = n \/ (Fitting(n, b) # {} /\ g[d + 1] = Append(n, Min(Fitting(n, b))))
      BY <1>4, <2>3, <2>6 DEF Below
    <3>2. Fitting(n, b) # {} => Min(Fitting(n, b)) \in Quadrant
      BY <1>2, FirstFitting
    <3> QED BY <2>4, <2>6, <3>1, <3>2
  <2>7. CASE f[d] = n /\ Child(g[d])
    <3>1. is_leaf(u, g[d])
      BY <1>4, <2>7
    <3>2. g[d + 1] = g[d]
      BY <2>3, <3>1 DEF Below
    <3> QED BY <2>4, <2>7, <3>2
  <2> QED BY <2>2, <2>5, <2>6, <2>7
<1>11. Nat \subseteq T
  <2> HIDE DEF T
  <2> QED BY <1>9, <1>10, InductiveSet
<1>12. target(u, b) = n \/ Child(target(u, b))
  <2>1. max_depth \in T /\ max_depth <= max_depth
    BY <1>7, <1>11
  <2> QED BY <1>5, <1>6, <2>1 DEF n
<1>13. Child(target(u, b)) => Len(target(u, b)) = Len(n) + 1
  <2>1. \A q \in Quadrant : Len(Append(n, q)) = Len(n) + 1
    BY <1>2, AppendFront
  <2> QED BY <2>1
<1> QED BY <1>12, <1>13 DEF n, u

\* The rounds of an insertion: t, and after each a tree with one more split.
Rounds(t, b, f) ==
  /\ f[0] = t /\ \A d \in 1..max_depth : f[d] = SplitOnWay(f[d - 1], b)
  /\ \A d \in 0..max_depth : Sound(f[d])

LEMMA RoundSound ==
  ASSUME NEW t, Sound(t), NEW b
  PROVE  Sound(SplitOnWay(t, b))
<1> DEFINE n == target(t, b)
<1>1. n \in t.nodes
  BY TargetHome DEF Sound
<1> QED BY <1>1, SplitSound DEF SplitOnWay

LEMMA InsertRounds ==
  ASSUME NEW t, Sound(t), NEW i
  PROVE  \E f : LET s == f[max_depth]
                IN /\ Rounds(t, i.bounds, f)
                   /\ qtnode_insert(t, i) = [s EXCEPT !.items[target(s, i.bounds)] = Append(@, i)]
<1> DEFINE S == {u \in [nodes : SUBSET Node, items : [Node -> Seq(Item)]] : Sound(u)}
           b == i.bounds
           G == [d \in 1..max_depth |-> [u \in S |-> SplitOnWay(u, b)]]
           Rule(f) == f = [d \in 0..max_depth |-> IF d = 0 THEN t ELSE SplitOnWay(f[d - 1], b)]
           after == CHOOSE f : Rule(f)
<1>1. max_depth \in Nat
  BY NodeTypes
<1>2. \A u : u \in S <=> Sound(u)
  BY DEF Sound, TreeType
<1> HIDE DEF S
<1>3. \A d \in 1..max_depth : \A u \in S : G[d][u] = SplitOnWay(u, b) /\ G[d][u] \in S
  BY <1>2, RoundSound
<1> HIDE DEF G
<1>4. PICK f : IsRun(f, S, t, max_depth, G)
  <2> DEFINE N == max_depth
  <2>1. t \in S /\ N \in Nat /\ \A d \in 1..N : \A y \in S : G[d][y] \in S
    BY <1>1, <1>2, <1>3
  <2> HIDE DEF N
  <2>2. \E f : IsRun(f, S, t, N, G)
    BY <2>1, Iterated
  <2> QED BY <2>2 DEF N
<1>5. /\ f \in [0..max_depth -> S] /\ f[0] = t
      /\ \A d \in 1..max_depth : f[d] = G[d][f[d - 1]]
  BY <1>4 DEF IsRun
<1>6. \A d \in 1..max_depth : f[d - 1] \in S
  BY <1>1, <1>5
<1>7. \A d \in 1..max_depth : f[d] = SplitOnWay(f[d - 1], b)
  BY <1>3, <1>5, <1>6
<1>8. Rule(f)
  <2>1. \A d \in 0..max_depth : f[d] = IF d = 0 THEN t ELSE SplitOnWay(f[d - 1], b)
    BY <1>1, <1>5, <1>7
  <2> QED BY <1>5, <2>1
<1>9. Rule(after)
  <2> HIDE DEF Rule
  <2> QED BY <1>8
<1> HIDE DEF after
<1>10. after[0] = t /\ \A d \in 1..max_depth : after[d] = SplitOnWay(after[d - 1], b)
  <2> DEFINE r(d) == IF d = 0 THEN t ELSE SplitOnWay(after[d - 1], b)
  <2>1. after = [d \in 0..max_depth |-> r(d)]
    BY <1>9
  <2>2. \A d \in 0..max_depth : after[d] = r(d)
    <3> HIDE DEF r, Rule
    <3> QED BY <2>1
  <2> QED BY <1>1, <2>2
<1> HIDE DEF Rule
<1> DEFINE T == {d \in Nat : d <= max_depth => Sound(after[d])}
<1>11. 0 \in T
  BY <1>10
<1>12. ASSUME NEW d \in Nat, d \in T
       PROVE  d + 1 \in T
  <2> SUFFICES ASSUME d + 1 <= max_depth PROVE Sound(after[d + 1])
    OBVIOUS
  <2>1. d + 1 \in 1..max_depth /\ (d + 1) - 1 = d /\ Sound(after[d])
    BY <1>1, <1>12
  <2> QED BY <1>10, <2>1, RoundSound
<1>13. Nat \subseteq T
  <2> HIDE DEF T
  <2> QED BY <1>11, <1>12, InductiveSet
<1>14. \A d \in 0..max_depth : Sound(after[d])
  <2> SUFFICES ASSUME NEW d \in 0..max_depth PROVE Sound(after[d])
    OBVIOUS
  <2>1. d \in Nat /\ d <= max_depth
    BY <1>1
  <2> QED BY <1>13, <2>1
<1>15. Rounds(t, b, after)
  BY <1>10, <1>14 DEF Rounds
<1>16. qtnode_insert(t, i) =
         [after[max_depth] EXCEPT !.items[target(after[max_depth], i.bounds)] = Append(@, i)]
  BY DEF qtnode_insert, after, Rule
<1> QED BY <1>15, <1>16

\* Enough rounds: where the descent ends, there is room.
LEMMA RoundsEnd ==
  ASSUME NEW t, NEW b, NEW f, Rounds(t, b, f)
  PROVE  ~ MustSplit(f[max_depth], target(f[max_depth], b))
<1> DEFINE At(d) == target(f[d], b)
           T == {d \in Nat : d <= max_depth => ~ MustSplit(f[d], At(d)) \/ Len(At(d)) >= d}
<1>1. max_depth \in Nat
  BY NodeTypes
<1>2. /\ \A d \in 1..max_depth : f[d] = SplitOnWay(f[d - 1], b)
      /\ \A d \in 0..max_depth : Sound(f[d])
  BY DEF Rounds
<1>3. ASSUME NEW d \in 0..max_depth
      PROVE  At(d) \in f[d].nodes /\ Len(At(d)) \in Nat
  <2>1. At(d) \in f[d].nodes
    BY <1>2, TargetHome DEF Sound
  <2>2. At(d) \in Node
    BY <1>2, <2>1 DEF Sound, TreeType
  <2> QED BY <2>1, <2>2, NodeTypes
<1>4. 0 \in T
  <2>1. 0 \in 0..max_depth
    BY <1>1
  <2>2. Len(At(0)) >= 0
    BY <1>3, <2>1
  <2> QED BY <2>2
<1>5. ASSUME NEW d \in Nat, d \in T
      PROVE  d + 1 \in T
  <2> SUFFICES ASSUME d + 1 <= max_depth
               PROVE  ~ MustSplit(f[d + 1], At(d + 1)) \/ Len(At(d + 1)) >= d + 1
    OBVIOUS
  <2>1. d \in 0..max_depth /\ d + 1 \in 1..max_depth /\ (d + 1) - 1 = d
    BY <1>1
  <2>2. f[d + 1] = SplitOnWay(f[d], b) /\ Sound(f[d])
    BY <1>2, <2>1
  <2>3. CASE ~ MustSplit(f[d], At(d))
    <3>1. f[d + 1] = f[d]
      BY <2>2, <2>3 DEF SplitOnWay
    <3> QED BY <2>3, <3>1
  <2>4. CASE MustSplit(f[d], At(d))
    <3>1. Len(At(d)) >= d /\ Len(At(d)) \in Nat
      BY <1>3, <1>5, <2>1, <2>4
    <3>2. f[d + 1] = qtnode_split(f[d], At(d))
      BY <2>2, <2>4 DEF SplitOnWay
    <3>3. At(d + 1) = At(d) \/ Len(At(d + 1)) = Len(At(d)) + 1
      BY <2>2, <2>4, <3>2, TargetAfterSplit
    <3>4. ~ is_leaf(f[d + 1], At(d))
      BY <1>3, <2>1, <2>2, <2>4, <3>2, SplitLeaves DEF Sound
    <3>5. At(d + 1) = At(d) => ~ MustSplit(f[d + 1], At(d + 1))
      BY <3>4 DEF MustSplit
    <3> HIDE DEF At
    <3> QED BY <3>1, <3>3, <3>5
  <2> QED BY <2>3, <2>4
<1>6. Nat \subseteq T
  <2> HIDE DEF T
  <2> QED BY <1>4, <1>5, InductiveSet
<1>7. max_depth \in T /\ max_depth \in 0..max_depth /\ max_depth <= max_depth
  BY <1>1, <1>6
<1>8. Len(At(max_depth)) >= max_depth => ~ (Len(At(max_depth)) < max_depth)
  BY <1>1, <1>3, <1>7
<1> QED BY <1>7, <1>8 DEF MustSplit

\* No round makes an item.
LEMMA RoundsCount ==
  ASSUME NEW t, NEW b, NEW f, Rounds(t, b, f), IsFiniteSet(Places(t))
  PROVE  /\ IsFiniteSet(Places(f[max_depth]))
         /\ Cardinality(Places(f[max_depth])) <= Cardinality(Places(t))
<1> DEFINE T == {d \in Nat : d <= max_depth => /\ IsFiniteSet(Places(f[d]))
                                               /\ Cardinality(Places(f[d])) <= Cardinality(Places(t))}
<1>1. max_depth \in Nat /\ Cardinality(Places(t)) \in Nat
  BY NodeTypes, FS_CardinalityType
<1>2. /\ f[0] = t /\ \A d \in 1..max_depth : f[d] = SplitOnWay(f[d - 1], b)
      /\ \A d \in 0..max_depth : Sound(f[d])
  BY DEF Rounds
<1>3. 0 \in T
  BY <1>1, <1>2
<1>4. ASSUME NEW d \in Nat, d \in T
      PROVE  d + 1 \in T
  <2> SUFFICES ASSUME d + 1 <= max_depth
               PROVE  /\ IsFiniteSet(Places(f[d + 1]))
                      /\ Cardinality(Places(f[d + 1])) <= Cardinality(Places(t))
    OBVIOUS
  <2>1. d \in 0..max_depth /\ d + 1 \in 1..max_depth /\ (d + 1) - 1 = d
    BY <1>1
  <2>2. f[d + 1] = SplitOnWay(f[d], b) /\ Sound(f[d])
    BY <1>2, <2>1
  <2>3. IsFiniteSet(Places(f[d])) /\ Cardinality(Places(f[d])) <= Cardinality(Places(t))
    BY <1>1, <1>4
  <2>4. target(f[d], b) \in f[d].nodes
    BY <2>2, TargetHome DEF Sound
  <2>5. CASE ~ MustSplit(f[d], target(f[d], b))
    BY <2>2, <2>3, <2>5 DEF SplitOnWay
  <2>6. CASE MustSplit(f[d], target(f[d], b))
    <3>1. f[d + 1] = qtnode_split(f[d], target(f[d], b))
      BY <2>2, <2>6 DEF SplitOnWay
    <3>2. /\ IsFiniteSet(Places(f[d + 1]))
          /\ Cardinality(Places(f[d + 1])) <= Cardinality(Places(f[d]))
      BY <2>2, <2>3, <2>4, <2>6, <3>1, SplitCount
    <3>3. Cardinality(Places(f[d])) \in Nat /\ Cardinality(Places(f[d + 1])) \in Nat
      BY <2>3, <3>2, FS_CardinalityType
    <3> QED BY <1>1, <2>3, <3>2, <3>3
  <2> QED BY <2>5, <2>6
<1>5. Nat \subseteq T
  <2> HIDE DEF T
  <2> QED BY <1>3, <1>4, InductiveSet
<1> QED BY <1>1, <1>5

LEMMA PrefixSteps ==
  ASSUME NEW m \in Node, NEW c \in Node
  PROVE  /\ IsPrefix(m, m)
         /\ \A q \in Quadrant : IsPrefix(m, c) => IsPrefix(m, Append(c, q))
<1>1. m \in Seq(Quadrant) /\ c \in Seq(Quadrant) /\ Len(m) \in Nat /\ Len(c) \in Nat
  BY NodeTypes
<1>2. IsPrefix(m, m)
  BY <1>1 DEF IsPrefix
<1>3. ASSUME NEW q \in Quadrant, IsPrefix(m, c)
      PROVE  IsPrefix(m, Append(c, q))
  <2> DEFINE d == Append(c, q)
             L == Len(m)
  <2>1. d \in Seq(Quadrant) /\ Len(d) = Len(c) + 1 /\ \A k \in 1..Len(c) : d[k] = c[k]
    BY <1>1, AppendFront
  <2>2. L <= Len(c) /\ SubSeq(m, 1, L) = SubSeq(c, 1, L)
    BY <1>3 DEF IsPrefix
  <2> HIDE DEF d
  <2>7. SubSeq(c, 1, L) = SubSeq(d, 1, L)
    <3>1. L \in Nat /\ L <= Len(d) /\ \A k \in 1..L : c[k] = d[k]
      BY <1>1, <2>1, <2>2
    <3> QED BY <1>1, <2>1, <2>2, <3>1, SameStart
  <2>8. L <= Len(d)
    BY <1>1, <2>1, <2>2
  <2> QED BY <2>2, <2>7, <2>8 DEF IsPrefix, d
<1> QED BY <1>2, <1>3

\* The rounds keep an item, at its node or below, or lose it to the split of
\* a leaf below it in whose children it does not fit.
KeptIn(u, m, x) == \E c \in u.nodes : \E j \in 1..Len(u.items[c]) : u.items[c][j] = x /\ IsPrefix(m, c)
LostBy(t, u, m, x) ==
  \E c \in u.nodes : ~ is_leaf(u, c) /\ is_leaf(t, c) /\ IsPrefix(m, c) /\ Fitting(c, x.bounds) = {}

LEMMA RoundsKeep ==
  ASSUME NEW t, NEW b, NEW f, Rounds(t, b, f), NEW m \in t.nodes, NEW k \in 1..Len(t.items[m])
  PROVE  \/ KeptIn(f[max_depth], m, t.items[m][k])
         \/ LostBy(t, f[max_depth], m, t.items[m][k])
<1> DEFINE x == t.items[m][k]
           T == {d \in Nat : d <= max_depth => /\ t.nodes \subseteq f[d].nodes
                                               /\ KeptIn(f[d], m, x) \/ LostBy(t, f[d], m, x)}
<1>1. max_depth \in Nat
  BY NodeTypes
<1>2. /\ f[0] = t /\ \A d \in 1..max_depth : f[d] = SplitOnWay(f[d - 1], b)
      /\ \A d \in 0..max_depth : Sound(f[d])
  BY DEF Rounds
<1>3. m \in Node
  <2>1. Sound(t)
    <3>1. 0 \in 0..max_depth
      BY <1>1
    <3> QED BY <1>2, <3>1
  <2> QED BY <2>1 DEF Sound, TreeType
<1>4. 0 \in T
  <2>1. IsPrefix(m, m)
    BY <1>3, PrefixSteps
  <2>2. KeptIn(t, m, x)
    BY <2>1 DEF KeptIn
  <2> QED BY <1>2, <2>2
<1>5. ASSUME NEW d \in Nat, d \in T
      PROVE  d + 1 \in T
  <2> SUFFICES ASSUME d + 1 <= max_depth
               PROVE  /\ t.nodes \subseteq f[d + 1].nodes
                      /\ KeptIn(f[d + 1], m, x) \/ LostBy(t, f[d + 1], m, x)
    OBVIOUS
  <2>1. d \in 0..max_depth /\ d + 1 \in 1..max_depth /\ (d + 1) - 1 = d
    BY <1>1
  <2> DEFINE s == f[d]
             u == f[d + 1]
             n == target(s, b)
  <2>2. u = SplitOnWay(s, b) /\ Sound(s)
    BY <1>2, <2>1
  <2>3. t.nodes \subseteq s.nodes /\ (KeptIn(s, m, x) \/ LostBy(t, s, m, x))
    BY <1>1, <1>5
  <2>4. n \in s.nodes
    BY <2>2, TargetHome DEF Sound
  <2> HIDE DEF s, u, n, x
  <2>5. CASE ~ MustSplit(s, n)
    <3>1. u = s
      BY <2>2, <2>5 DEF SplitOnWay, n
    <3> QED BY <2>3, <3>1 DEF u, s
  <2>6. CASE MustSplit(s, n)
    <3>1. u = qtnode_split(s, n)
      BY <2>2, <2>6 DEF SplitOnWay, n
    <3>2. TreeType(s) /\ Closed(s) /\ s.nodes \subseteq Node /\ is_leaf(s, n) /\ Len(n) < max_depth
      BY <2>2, <2>6 DEF Sound, TreeType, MustSplit
    <3>3. s.nodes \subseteq u.nodes
      BY <2>4, <3>1, <3>2, SplitShape
    <3>4. \A c \in s.nodes : ~ is_leaf(s, c) => ~ is_leaf(u, c)
      BY <3>3 DEF is_leaf
    <3>5. CASE LostBy(t, s, m, x)
      <4>1. LostBy(t, u, m, x)
        BY <3>3, <3>4, <3>5 DEF LostBy
      <4> QED BY <2>3, <3>3, <4>1 DEF u
    <3>6. CASE KeptIn(s, m, x)
      <4>1. PICK c \in s.nodes : \E j \in 1..Len(s.items[c]) : s.items[c][j] = x /\ IsPrefix(m, c)
        BY <3>6 DEF KeptIn
      <4>2. PICK j \in 1..Len(s.items[c]) : s.items[c][j] = x /\ IsPrefix(m, c)
        BY <4>1
      <4>3. \/ c # n /\ c \in u.nodes /\ u.items[c] = s.items[c]
            \/ c = n /\ Fitting(n, x.bounds) = {}
            \/ c = n /\ \E q \in Quadrant : \E i \in 1..Len(u.items[Append(n, q)]) :
                 Append(n, q) \in u.nodes /\ u.items[Append(n, q)][i] = x
        <5>1. KeepsItem(s, u, n, c, j)
          BY <2>2, <2>4, <2>6, <3>1, SplitKeeps
        <5> QED BY <4>2, <5>1 DEF KeepsItem
      <4>4. CASE c # n /\ c \in u.nodes /\ u.items[c] = s.items[c]
        <5>1. KeptIn(u, m, x)
          BY <4>2, <4>4 DEF KeptIn
        <5> QED BY <2>3, <3>3, <5>1 DEF u
      <4>5. CASE c = n /\ Fitting(n, x.bounds) = {}
        <5>1. ~ is_leaf(u, n)
          BY <2>4, <2>6, <3>1, <3>2, SplitLeaves
        <5>2. is_leaf(t, n)
          BY <2>3, <3>2 DEF is_leaf
        <5>3. LostBy(t, u, m, x)
          BY <2>4, <3>3, <4>2, <4>5, <5>1, <5>2 DEF LostBy
        <5> QED BY <2>3, <3>3, <5>3 DEF u
      <4>6. CASE c = n /\ \E q \in Quadrant : \E i \in 1..Len(u.items[Append(n, q)]) :
                 Append(n, q) \in u.nodes /\ u.items[Append(n, q)][i] = x
        <5>1. PICK q \in Quadrant : \E i \in 1..Len(u.items[Append(n, q)]) :
                 Append(n, q) \in u.nodes /\ u.items[Append(n, q)][i] = x
          BY <4>6
        <5>2. IsPrefix(m, Append(n, q))
          BY <1>3, <2>4, <3>2, <4>2, <4>6, PrefixSteps
        <5>3. KeptIn(u, m, x)
          BY <5>1, <5>2 DEF KeptIn
        <5> QED BY <2>3, <3>3, <5>3 DEF u
      <4> QED BY <4>3, <4>4, <4>5, <4>6
    <3> QED BY <2>3, <3>5, <3>6
  <2> QED BY <2>5, <2>6
<1>6. Nat \subseteq T
  <2> HIDE DEF T
  <2> QED BY <1>4, <1>5, InductiveSet
<1> QED BY <1>1, <1>6

\* Replacing the items of one node of a tree.
LEMMA PutShape ==
  ASSUME NEW N, NEW I, NEW s \in [nodes : N, items : I], NEW n, NEW v
  PROVE  LET u == [s EXCEPT !.items[n] = v]
         IN u.nodes = s.nodes /\ u.items = [s.items EXCEPT ![n] = v]
            /\ u = [nodes |-> s.nodes, items |-> [s.items EXCEPT ![n] = v]]
<1> DEFINE y == [s.items EXCEPT ![n] = v]
           u == [s EXCEPT !.items = y]
<1>1. s = [nodes |-> s.nodes, items |-> s.items]
  OBVIOUS
<1> HIDE DEF y
<1>2. u = [nodes |-> s.nodes, items |-> y]
  BY <1>1
<1>3. u.nodes = s.nodes /\ u.items = y
  BY <1>2
<1> QED BY <1>2, <1>3 DEF y

\* An item put where the descent ends.
LEMMA PutItem ==
  ASSUME NEW s, Sound(s), NEW n \in s.nodes, NEW i \in Item,
         AtHome(s, n, i.bounds), ~ MustSplit(s, n)
  PROVE  LET u == [s EXCEPT !.items[n] = Append(@, i)]
         IN /\ Sound(u) /\ u.nodes = s.nodes
            /\ Places(u) = Places(s) \cup {<<n, Len(s.items[n]) + 1>>}
            /\ \A m \in s.nodes : \A k \in 1..Len(s.items[m]) :
                 k \in 1..Len(u.items[m]) /\ u.items[m][k] = s.items[m][k]
<1> DEFINE u == [s EXCEPT !.items[n] = Append(@, i)]
           w == s.items[n]
           v == Append(w, i)
           L == Len(w)
<1>1. TreeType(s) /\ Closed(s) /\ Roomy(s) /\ s.nodes \subseteq Node /\ n \in Node
  BY DEF Sound, TreeType
<1>2. s \in [nodes : SUBSET Node, items : [Node -> Seq(Item)]]
  BY <1>1 DEF TreeType
<1>3. w \in Seq(Item) /\ L \in Nat
  BY <1>1, PlaceTypes
<1>4. /\ v \in Seq(Item) /\ Len(v) = L + 1 /\ v[L + 1] = i /\ \A k \in 1..L : v[k] = w[k]
  BY <1>3, AppendProperties
<1>5. u.nodes = s.nodes /\ u.items = [s.items EXCEPT ![n] = v] /\ u = [nodes |-> u.nodes, items |-> u.items]
  <2> HIDE DEF v
  <2>1. u = [s EXCEPT !.items[n] = v]
    BY DEF v
  <2> HIDE DEF u
  <2> QED BY <1>2, <2>1, PutShape
<1> HIDE DEF u, v
<1>6. u.items[n] = v /\ \A m \in Node : m # n => u.items[m] = s.items[m]
  BY <1>1, <1>2, <1>5
<1>7. u \in [nodes : SUBSET Node, items : [Node -> Seq(Item)]]
  <2>1. u.items \in [Node -> Seq(Item)] /\ u.nodes \in SUBSET Node
    BY <1>2, <1>4, <1>5
  <2> HIDE DEF w, L
  <2> QED BY <1>5, <2>1
<1>8. TreeType(u)
  BY <1>1, <1>5, <1>6, <1>7 DEF TreeType
<1>9. \A m : is_leaf(u, m) <=> is_leaf(s, m)
  BY <1>5 DEF is_leaf
<1>10. Closed(u)
  BY <1>1, <1>5 DEF Closed
<1>11. Roomy(u)
  <2> SUFFICES ASSUME NEW m \in u.nodes, is_leaf(u, m), Len(m) < max_depth
               PROVE  Len(u.items[m]) <= node_capacity
    BY DEF Roomy
  <2>1. CASE m = n
    <3>1. ~ (L >= node_capacity)
      BY <1>9, <2>1 DEF MustSplit
    <3>2. node_capacity \in Nat
      BY NodeTypes
    <3> QED BY <1>3, <1>4, <1>6, <2>1, <3>1, <3>2
  <2>2. CASE m # n
    BY <1>1, <1>5, <1>6, <1>9, <2>2 DEF Roomy
  <2> QED BY <2>1, <2>2
<1>12. ASSUME NEW m \in u.nodes, NEW k \in 1..Len(u.items[m])
       PROVE  AtHome(u, m, u.items[m][k].bounds)
  <2>1. m \in s.nodes /\ m \in Node
    BY <1>1, <1>5
  <2>2. CASE m = n /\ k = L + 1
    BY <1>4, <1>6, <1>9, <2>2 DEF AtHome
  <2>3. CASE m # n \/ k # L + 1
    <3>1. k \in 1..Len(s.items[m]) /\ u.items[m][k] = s.items[m][k]
      BY <1>3, <1>4, <1>6, <2>1, <2>3
    <3>2. AtHome(s, m, s.items[m][k].bounds)
      BY <2>1, <3>1 DEF Sound
    <3> QED BY <1>9, <3>1, <3>2 DEF AtHome
  <2> QED BY <2>2, <2>3
<1>13. \A m \in s.nodes : \A k \in 1..Len(s.items[m]) :
         k \in 1..Len(u.items[m]) /\ u.items[m][k] = s.items[m][k]
  <2> SUFFICES ASSUME NEW m \in s.nodes, NEW k \in 1..Len(s.items[m])
               PROVE  k \in 1..Len(u.items[m]) /\ u.items[m][k] = s.items[m][k]
    OBVIOUS
  <2>1. CASE m = n
    <3>1. k \in 1..L /\ k \in 1..(L + 1)
      BY <1>3, <2>1
    <3> QED BY <1>4, <1>6, <2>1, <3>1
  <2>2. CASE m # n
    BY <1>1, <1>6, <2>2
  <2> QED BY <2>1, <2>2
<1>14. Places(u) = Places(s) \cup {<<n, L + 1>>}
  <2>1. ASSUME NEW a \in Places(u)
        PROVE  a \in Places(s) \/ a = <<n, L + 1>>
    <3>1. PICK m \in u.nodes : \E k \in 1..Len(u.items[m]) : a = <<m, k>>
      BY <1>8, PlaceTypes
    <3>2. PICK k \in 1..Len(u.items[m]) : a = <<m, k>>
      BY <3>1
    <3>3. m \in s.nodes /\ m \in Node
      BY <1>1, <1>5
    <3>4. (m = n /\ k = L + 1) \/ k \in 1..Len(s.items[m])
      BY <1>3, <1>4, <1>6, <3>2, <3>3
    <3> QED BY <1>1, <3>2, <3>3, <3>4, PlaceTypes
  <2>2. ASSUME NEW a \in Places(s)
        PROVE  a \in Places(u)
    <3>1. PICK m \in s.nodes : \E k \in 1..Len(s.items[m]) : a = <<m, k>>
      BY <1>1, PlaceTypes
    <3>2. PICK k \in 1..Len(s.items[m]) : a = <<m, k>>
      BY <3>1
    <3>3. m \in u.nodes /\ k \in 1..Len(u.items[m])
      BY <1>5, <1>13, <3>2
    <3> QED BY <1>8, <3>2, <3>3, PlaceTypes
  <2>3. <<n, L + 1>> \in Places(u)
    <3>1. n \in u.nodes /\ L + 1 \in 1..Len(u.items[n])
      BY <1>3, <1>4, <1>5, <1>6
    <3> QED BY <1>8, <3>1, PlaceTypes
  <2> QED BY <2>1, <2>2, <2>3
<1>15. Sound(u)
  BY <1>8, <1>10, <1>11, <1>12 DEF Sound
<1> QED BY <1>5, <1>13, <1>14, <1>15 DEF u

\* An insertion leaves a sound tree with one more place at most, and loses
\* only what its splits lose.
LEMMA InsertEffect ==
  ASSUME NEW t, Sound(t), NEW i \in Item, IsFiniteSet(Places(t))
  PROVE  LET u == qtnode_insert(t, i)
         IN /\ Sound(u) /\ IsFiniteSet(Places(u))
            /\ Cardinality(Places(u)) <= Cardinality(Places(t)) + 1
            /\ \A m \in t.nodes : \A k \in 1..Len(t.items[m]) :
                 KeptIn(u, m, t.items[m][k]) \/ LostBy(t, u, m, t.items[m][k])
<1> DEFINE b == i.bounds
<1>1. PICK f : /\ Rounds(t, b, f)
               /\ qtnode_insert(t, i) = [f[max_depth] EXCEPT !.items[target(f[max_depth], b)] = Append(@, i)]
  BY InsertRounds
<1> DEFINE s == f[max_depth]
           n == target(s, b)
           u == [s EXCEPT !.items[n] = Append(@, i)]
<1>2. Sound(s)
  BY <1>1, NodeTypes DEF Rounds
<1>3. n \in s.nodes /\ AtHome(s, n, b)
  BY <1>2, TargetHome DEF Sound
<1>4. ~ MustSplit(s, n)
  BY <1>1, RoundsEnd
<1>5. IsFiniteSet(Places(s)) /\ Cardinality(Places(s)) <= Cardinality(Places(t))
  BY <1>1, RoundsCount
<1>6. \A m \in t.nodes : \A k \in 1..Len(t.items[m]) :
        KeptIn(s, m, t.items[m][k]) \/ LostBy(t, s, m, t.items[m][k])
  BY <1>1, RoundsKeep
<1> HIDE DEF s, n
<1>7. /\ Sound(u) /\ u.nodes = s.nodes
      /\ Places(u) = Places(s) \cup {<<n, Len(s.items[n]) + 1>>}
      /\ \A m \in s.nodes : \A k \in 1..Len(s.items[m]) :
           k \in 1..Len(u.items[m]) /\ u.items[m][k] = s.items[m][k]
  BY <1>2, <1>3, <1>4, PutItem
<1>8. qtnode_insert(t, i) = u
  BY <1>1 DEF s, n
<1> HIDE DEF u
<1>9. IsFiniteSet(Places(u)) /\ Cardinality(Places(u)) <= Cardinality(Places(t)) + 1
  <2>1. /\ IsFiniteSet(Places(u))
        /\ Cardinality(Places(u)) = Cardinality(Places(s)) \/ Cardinality(Places(u)) = Cardinality(Places(s)) + 1
    BY <1>5, <1>7, FS_AddElement
  <2>2. Cardinality(Places(s)) \in Nat /\ Cardinality(Places(t)) \in Nat
    BY <1>5, FS_CardinalityType
  <2> QED BY <1>5, <2>1, <2>2
<1>10. ASSUME NEW m \in t.nodes, NEW k \in 1..Len(t.items[m])
       PROVE  KeptIn(u, m, t.items[m][k]) \/ LostBy(t, u, m, t.items[m][k])
  <2>1. CASE KeptIn(s, m, t.items[m][k])
    <3>1. KeptIn(u, m, t.items[m][k])
      BY <1>7, <2>1 DEF KeptIn
    <3> QED BY <3>1
  <2>2. CASE LostBy(t, s, m, t.items[m][k])
    <3>1. LostBy(t, u, m, t.items[m][k])
      BY <1>7, <2>2 DEF LostBy, is_leaf
    <3> QED BY <3>1
  <2> QED BY <1>6, <2>1, <2>2
<1> QED BY <1>7, <1>8, <1>9, <1>10

-----------------------------------------------------------------------------
\* Removals.

\* The quadrants of a path, then zeros.
Digit(n, k) == IF k <= Len(n) THEN n[k] ELSE 0

Agree(m, n, d) == \A k \in 1..d : Digit(m, k) = Digit(n, k)

Less(m, n, d) == \E k \in 1..d : Agree(m, n, k - 1) /\ Digit(m, k) < Digit(n, k)

LEMMA DigitsOrder ==
  ASSUME NEW m \in Node, NEW n \in Node
  PROVE  /\ Agree(m, n, max_depth) => m = n
         /\ Less(m, n, max_depth) => Precedes(m, n)
<1>1. /\ m \in Seq(Quadrant) /\ n \in Seq(Quadrant) /\ Len(m) \in Nat /\ Len(n) \in Nat
      /\ Len(m) <= max_depth /\ Len(n) <= max_depth /\ max_depth \in Nat
      /\ DOMAIN m = 1..Len(m) /\ DOMAIN n = 1..Len(n)
  BY NodeTypes, LenProperties
<1>2. \A k \in 1..max_depth : /\ Digit(m, k) \in Nat /\ Digit(n, k) \in Nat
                              /\ k <= Len(m) <=> Digit(m, k) # 0
                              /\ k <= Len(n) <=> Digit(n, k) # 0
                              /\ k <= Len(m) => Digit(m, k) = m[k]
                              /\ k <= Len(n) => Digit(n, k) = n[k]
  <2> SUFFICES ASSUME NEW k \in 1..max_depth
               PROVE  /\ Digit(m, k) \in Nat /\ Digit(n, k) \in Nat
                      /\ k <= Len(m) <=> Digit(m, k) # 0
                      /\ k <= Len(n) <=> Digit(n, k) # 0
                      /\ k <= Len(m) => Digit(m, k) = m[k]
                      /\ k <= Len(n) => Digit(n, k) = n[k]
    OBVIOUS
  <2>1. (k <= Len(m) => m[k] \in Quadrant) /\ (k <= Len(n) => n[k] \in Quadrant)
    BY <1>1
  <2>2. \A q \in Quadrant : q \in Nat /\ q # 0
    BY DEF Quadrant
  <2> QED BY <2>1, <2>2 DEF Digit
<1>3. ASSUME Agree(m, n, max_depth)
      PROVE  m = n
  <2>1. \A k \in 1..max_depth : Digit(m, k) = Digit(n, k)
    BY <1>3 DEF Agree
  <2>2. \A k \in 1..max_depth : k <= Len(m) <=> k <= Len(n)
    BY <1>2, <2>1
  <2>3. Len(m) = Len(n)
    <3>1. Len(m) \in 1..max_depth => Len(m) <= Len(n)
      BY <1>1, <2>2
    <3>2. Len(n) \in 1..max_depth => Len(n) <= Len(m)
      BY <1>1, <2>2
    <3>3. Len(m) \in 0..max_depth /\ Len(n) \in 0..max_depth
      BY <1>1
    <3>4. \A a, b \in 0..max_depth : (a \in 1..max_depth => a <= b) /\ (b \in 1..max_depth => b <= a) => a = b
      BY <1>1
    <3> QED BY <3>1, <3>2, <3>3, <3>4
  <2>4. \A k \in 1..Len(m) : m[k] = n[k]
    <3> SUFFICES ASSUME NEW k \in 1..Len(m) PROVE m[k] = n[k]
      OBVIOUS
    <3>1. k \in 1..max_depth /\ k <= Len(m) /\ k <= Len(n)
      BY <1>1, <2>3
    <3> QED BY <1>2, <2>1, <3>1
  <2> QED BY <1>1, <2>3, <2>4, SeqEqual
<1>4. ASSUME Less(m, n, max_depth)
      PROVE  Precedes(m, n)
  <2>1. PICK k \in 1..max_depth : Agree(m, n, k - 1) /\ Digit(m, k) < Digit(n, k)
    BY <1>4 DEF Less
  <2>2. k \in Nat /\ k >= 1 /\ k - 1 \in Nat /\ k <= Len(n)
    BY <1>1, <1>2, <2>1
  <2>3. \A i \in 1..(k - 1) : i \in 1..max_depth /\ Digit(m, i) = Digit(n, i)
    BY <1>1, <2>1, <2>2 DEF Agree
  <2>4. CASE k <= Len(m)
    <3>1. \A i \in 1..(k - 1) : m[i] = n[i]
      <4> SUFFICES ASSUME NEW i \in 1..(k - 1) PROVE m[i] = n[i]
        OBVIOUS
      <4>1. i \in 1..max_depth /\ i <= Len(m) /\ i <= Len(n)
        BY <1>1, <2>2, <2>4
      <4> QED BY <1>2, <2>3, <4>1
    <3>2. k - 1 <= Len(m) /\ k - 1 <= Len(n)
      BY <1>1, <2>2, <2>4
    <3>3. SubSeq(m, 1, k - 1) = SubSeq(n, 1, k - 1)
      BY <1>1, <2>2, <3>1, <3>2, SameStart
    <3>4. m[k] < n[k] /\ k \in DOMAIN m \cap DOMAIN n
      BY <1>1, <1>2, <2>1, <2>2, <2>4
    <3> QED BY <3>3, <3>4 DEF Precedes
  <2>5. CASE k > Len(m)
    <3>1. \A i \in 1..Len(m) : m[i] = n[i]
      <4> SUFFICES ASSUME NEW i \in 1..Len(m) PROVE m[i] = n[i]
        OBVIOUS
      <4>1. i \in 1..(k - 1) /\ i \in 1..max_depth /\ i <= Len(m) /\ i <= Len(n)
        BY <1>1, <2>2, <2>5
      <4> QED BY <1>2, <2>3, <4>1
    <3>2. Len(m) <= Len(n) /\ Len(m) <= Len(m) /\ Len(m) # Len(n)
      <4>1. \A a, b \in Nat : k <= b /\ k > a => a <= b /\ a <= a /\ a # b
        BY <2>2
      <4> QED BY <1>1, <2>2, <2>5, <4>1
    <3>3. SubSeq(m, 1, Len(m)) = SubSeq(n, 1, Len(m))
      BY <1>1, <3>1, <3>2, SameStart
    <3>4. IsStrictPrefix(m, n)
      BY <3>2, <3>3 DEF IsStrictPrefix, IsPrefix
    <3> QED BY <3>4 DEF Precedes
  <2> QED BY <1>1, <2>2, <2>4, <2>5
<1> QED BY <1>3, <1>4

\* In a set of nodes one comes first in depth-first order.
LEMMA FirstInOrder ==
  ASSUME NEW H, H \subseteq Node, H # {}
  PROVE  \E n \in H : \A m \in H \ {n} : Precedes(n, m)
<1> DEFINE First(n, d) == \A m \in H : Agree(n, m, d) \/ Less(n, m, d)
           T == {d \in Nat : \E n \in H : First(n, d)}
<1>1. 0 \in T
  <2>1. \A n, m \in H : Agree(n, m, 0)
    BY DEF Agree
  <2> QED BY <2>1
<1>2. \A n \in H : \A k \in Nat \ {0} : Digit(n, k) \in Nat
  <2> SUFFICES ASSUME NEW n \in H, NEW k \in Nat \ {0} PROVE Digit(n, k) \in Nat
    OBVIOUS
  <2>1. n \in Seq(Quadrant) /\ Len(n) \in Nat
    BY NodeTypes
  <2>2. k <= Len(n) => n[k] \in Nat
    BY <2>1 DEF Quadrant
  <2> QED BY <2>2 DEF Digit
<1>3. ASSUME NEW d \in Nat, d \in T
      PROVE  d + 1 \in T
  <2>1. PICK n \in H : First(n, d)
    BY <1>3
  <2> DEFINE V == {Digit(m, d + 1) : m \in {m \in H : Agree(n, m, d)}}
  <2>2. V \subseteq Nat /\ V # {}
    <3>1. Agree(n, n, d)
      BY DEF Agree
    <3> QED BY <1>2, <3>1
  <2>3. PICK v \in V : \A w \in V : v <= w
    BY <2>2, LeastNatural
  <2>4. PICK c \in H : Agree(n, c, d) /\ Digit(c, d + 1) = v
    BY <2>3
  <2>5. \A m \in H : Agree(n, m, d) => Digit(c, d + 1) <= Digit(m, d + 1)
    BY <2>3, <2>4
  <2> HIDE DEF V
  <2>6. ASSUME NEW m \in H
        PROVE  Agree(c, m, d + 1) \/ Less(c, m, d + 1)
    <3>1. CASE Agree(n, m, d)
      <4>1. Agree(c, m, d)
        BY <2>4, <3>1 DEF Agree
      <4>2. Digit(c, d + 1) <= Digit(m, d + 1) /\ Digit(c, d + 1) \in Nat /\ Digit(m, d + 1) \in Nat
        BY <1>2, <2>5, <3>1
      <4>3. CASE Digit(c, d + 1) = Digit(m, d + 1)
        <5>1. \A k \in 1..(d + 1) : k \in 1..d \/ k = d + 1
          OBVIOUS
        <5>2. Agree(c, m, d + 1)
          BY <4>1, <4>3, <5>1 DEF Agree
        <5> QED BY <5>2
      <4>4. CASE Digit(c, d + 1) < Digit(m, d + 1)
        <5>1. d + 1 \in 1..(d + 1) /\ (d + 1) - 1 = d
          OBVIOUS
        <5>2. Less(c, m, d + 1)
          BY <4>1, <4>4, <5>1 DEF Less
        <5> QED BY <5>2
      <4> QED BY <4>2, <4>3, <4>4
    <3>2. CASE Less(n, m, d)
      <4>1. PICK k \in 1..d : Agree(n, m, k - 1) /\ Digit(n, k) < Digit(m, k)
        BY <3>2 DEF Less
      <4>2. \A i \in 1..(k - 1) : i \in 1..d
        OBVIOUS
      <4>3. Agree(c, m, k - 1) /\ Digit(c, k) = Digit(n, k)
        BY <2>4, <4>1, <4>2 DEF Agree
      <4>4. k \in 1..(d + 1)
        OBVIOUS
      <4>5. Less(c, m, d + 1)
        BY <4>1, <4>3, <4>4 DEF Less
      <4> QED BY <4>5
    <3> QED BY <2>1, <3>1, <3>2
  <2> QED BY <2>6
<1>4. Nat \subseteq T
  <2> HIDE DEF T
  <2> QED BY <1>1, <1>3, InductiveSet
<1>5. PICK n \in H : First(n, max_depth)
  BY <1>4, NodeTypes
<1>6. \A m \in H \ {n} : Precedes(n, m)
  BY <1>5, DigitsOrder
<1> QED BY <1>6

LEMMA FirstHolderHolds ==
  ASSUME NEW t, TreeType(t), NEW id, HoldersOf(t, id) # {}
  PROVE  /\ FirstHolder(t, id) \in t.nodes
         /\ FirstPlace(t.items[FirstHolder(t, id)], id) \in 1..Len(t.items[FirstHolder(t, id)])
<1> DEFINE H == HoldersOf(t, id)
           n == FirstHolder(t, id)
           P == {k \in DOMAIN t.items[n] : t.items[n][k].id = id}
<1>1. H \subseteq Node /\ H \subseteq t.nodes
  BY DEF HoldersOf, TreeType
<1>2. n \in H
  <2>1. \E m \in H : \A c \in H \ {m} : Precedes(m, c)
    BY <1>1, FirstInOrder
  <2> QED BY <2>1 DEF FirstHolder
<1> HIDE DEF n
<1>3. P # {}
  BY <1>2 DEF HoldersOf
<1>4. P \subseteq 1..Len(t.items[n]) /\ P \subseteq Nat
  BY <1>1, <1>2, PlaceTypes
<1>5. Min(P) \in P
  BY <1>3, <1>4, MinIndex
<1> QED BY <1>1, <1>2, <1>4, <1>5 DEF FirstPlace, n

\* Taking one member out of a sequence.
LEMMA RemoveOne ==
  ASSUME NEW S, NEW s \in Seq(S), NEW i \in 1..Len(s)
  PROVE  /\ RemoveAt(s, i) \in Seq(S) /\ Len(RemoveAt(s, i)) = Len(s) - 1
         /\ \A j \in 1..(Len(s) - 1) : \E k \in 1..Len(s) : RemoveAt(s, i)[j] = s[k]
<1> DEFINE L == Len(s)
           a == SubSeq(s, 1, i - 1)
           b == SubSeq(s, i + 1, L)
<1>1. L \in Nat /\ i \in Int /\ i >= 1 /\ i <= L /\ \A k \in 1..L : s[k] \in S
  BY LenProperties
<1>2. /\ a \in Seq(S) /\ Len(a) = i - 1
      /\ \A k \in 1..(i - 1) : a[k] = s[k]
  <2>1. 1 \in Int /\ i - 1 \in Int /\ \A k \in 1..(i - 1) : s[k] \in S
    BY <1>1
  <2>2. /\ a \in Seq(S) /\ Len(a) = (IF 1 <= i - 1 THEN (i - 1) - 1 + 1 ELSE 0)
        /\ \A k \in 1..((i - 1) - 1 + 1) : a[k] = s[1 + k - 1]
    BY <2>1, SubSeqProperties
  <2> HIDE DEF a
  <2> QED BY <1>1, <2>2
<1>3. /\ b \in Seq(S) /\ Len(b) = L - i
      /\ \A k \in 1..(L - i) : b[k] = s[i + k]
  <2>1. i + 1 \in Int /\ L \in Int /\ \A k \in (i + 1)..L : s[k] \in S
    BY <1>1
  <2>2. /\ b \in Seq(S) /\ Len(b) = (IF i + 1 <= L THEN L - (i + 1) + 1 ELSE 0)
        /\ \A k \in 1..(L - (i + 1) + 1) : b[k] = s[(i + 1) + k - 1]
    BY <2>1, SubSeqProperties
  <2> HIDE DEF a, b, L
  <2>3. Len(b) = L - i
    BY <1>1, <2>2
  <2>4. \A k \in 1..(L - i) : b[k] = s[i + k]
    <3> SUFFICES ASSUME NEW k \in 1..(L - i) PROVE b[k] = s[i + k]
      OBVIOUS
    <3>1. k \in 1..(L - (i + 1) + 1) /\ (i + 1) + k - 1 = i + k
      BY <1>1
    <3> QED BY <2>2, <3>1
  <2> QED BY <2>2, <2>3, <2>4
<1> HIDE DEF a, b, L
<1>4. /\ a \o b \in Seq(S) /\ Len(a \o b) = Len(a) + Len(b)
      /\ \A j \in 1..(Len(a) + Len(b)) : (a \o b)[j] = IF j <= Len(a) THEN a[j] ELSE b[j - Len(a)]
  BY <1>2, <1>3, ConcatProperties
<1>5. Len(a) + Len(b) = L - 1
  BY <1>1, <1>2, <1>3
<1>6. ASSUME NEW j \in 1..(L - 1)
      PROVE  \E k \in 1..L : (a \o b)[j] = s[k]
  <2>1. CASE j <= i - 1
    <3>1. j \in 1..L /\ j \in 1..(i - 1)
      BY <1>1, <2>1
    <3>2. (a \o b)[j] = s[j]
      BY <1>2, <1>4, <1>5, <2>1, <3>1
    <3> QED BY <3>1, <3>2
  <2>2. CASE j > i - 1
    <3>1. j + 1 \in 1..L /\ j - (i - 1) \in 1..(L - i) /\ i + (j - (i - 1)) = j + 1
      BY <1>1, <2>2
    <3>2. ~ (j <= Len(a)) /\ j - Len(a) = j - (i - 1)
      BY <1>1, <1>2, <2>2
    <3>3. (a \o b)[j] = b[j - (i - 1)]
      BY <1>4, <1>5, <3>2
    <3>4. (a \o b)[j] = s[j + 1]
      BY <1>3, <3>1, <3>3
    <3> QED BY <3>1, <3>4
  <2>3. j <= i - 1 \/ j > i - 1
    BY <1>1
  <2> QED BY <2>1, <2>2, <2>3
<1>7. RemoveAt(s, i) = a \o b
  BY DEF RemoveAt, a, b, L
<1> QED BY <1>4, <1>5, <1>6, <1>7 DEF L

\* A removal leaves a sound tree with one place less.
LEMMA RemoveEffect ==
  ASSUME NEW t, Sound(t), NEW id, HoldersOf(t, id) # {}, IsFiniteSet(Places(t))
  PROVE  LET u == qtnode_remove(t, id)
         IN /\ Sound(u) /\ IsFiniteSet(Places(u))
            /\ Cardinality(Places(t)) \in Nat \ {0}
            /\ Cardinality(Places(u)) = Cardinality(Places(t)) - 1
<1> DEFINE n == FirstHolder(t, id)
           w == t.items[n]
           i == FirstPlace(w, id)
           v == RemoveAt(w, i)
           u == [t EXCEPT !.items[n] = v]
           L == Len(w)
<1>1. TreeType(t) /\ Closed(t) /\ Roomy(t) /\ t.nodes \subseteq Node
  BY DEF Sound, TreeType
<1>2. n \in t.nodes /\ n \in Node /\ i \in 1..L
  BY <1>1, FirstHolderHolds
<1>3. w \in Seq(Item) /\ L \in Nat
  BY <1>1, <1>2, PlaceTypes
<1>4. v \in Seq(Item) /\ Len(v) = L - 1 /\ \A j \in 1..(L - 1) : \E k \in 1..L : v[j] = w[k]
  BY <1>2, <1>3, RemoveOne
<1>5. qtnode_remove(t, id) = u
  BY DEF qtnode_remove
<1>6. t \in [nodes : SUBSET Node, items : [Node -> Seq(Item)]]
  BY <1>1 DEF TreeType
<1> HIDE DEF v, i, n
<1>7. u.nodes = t.nodes /\ u.items = [t.items EXCEPT ![n] = v] /\ u = [nodes |-> u.nodes, items |-> u.items]
  <2> HIDE DEF u
  <2>1. u = [t EXCEPT !.items[n] = v]
    BY DEF u
  <2> QED BY <1>6, <2>1, PutShape
<1> HIDE DEF u
<1>8. u.items[n] = v /\ \A m \in Node : m # n => u.items[m] = t.items[m]
  BY <1>2, <1>6, <1>7
<1>9. u \in [nodes : SUBSET Node, items : [Node -> Seq(Item)]]
  <2>1. u.items \in [Node -> Seq(Item)] /\ u.nodes \in SUBSET Node
    BY <1>4, <1>6, <1>7
  <2> HIDE DEF w, L
  <2> QED BY <1>7, <2>1
<1>10. TreeType(u)
  BY <1>1, <1>2, <1>7, <1>8, <1>9 DEF TreeType
<1>11. Closed(u)
  BY <1>1, <1>7 DEF Closed
<1>12. \A m : is_leaf(u, m) <=> is_leaf(t, m)
  BY <1>7 DEF is_leaf
<1>13. \A m \in Node : /\ Len(u.items[m]) \in Nat /\ Len(t.items[m]) \in Nat
                       /\ Len(u.items[m]) <= Len(t.items[m])
                       /\ \A j \in 1..Len(u.items[m]) : \E k \in 1..Len(t.items[m]) : u.items[m][j] = t.items[m][k]
  <2> SUFFICES ASSUME NEW m \in Node
               PROVE  /\ Len(u.items[m]) \in Nat /\ Len(t.items[m]) \in Nat
                      /\ Len(u.items[m]) <= Len(t.items[m])
                      /\ \A j \in 1..Len(u.items[m]) : \E k \in 1..Len(t.items[m]) : u.items[m][j] = t.items[m][k]
    OBVIOUS
  <2>1. Len(u.items[m]) \in Nat /\ Len(t.items[m]) \in Nat
    BY <1>1, <1>10, PlaceTypes
  <2>2. CASE m = n
    <3>1. u.items[m] = v /\ t.items[m] = w
      BY <1>8, <2>2
    <3> HIDE DEF w
    <3>2. Len(v) <= Len(w) /\ \A j \in 1..Len(v) : \E k \in 1..Len(w) : v[j] = w[k]
      BY <1>3, <1>4
    <3> QED BY <2>1, <3>1, <3>2
  <2>3. CASE m # n
    BY <1>8, <2>1, <2>3
  <2> QED BY <2>2, <2>3
<1>14. Roomy(u)
  <2> SUFFICES ASSUME NEW m \in u.nodes, is_leaf(u, m), Len(m) < max_depth
               PROVE  Len(u.items[m]) <= node_capacity
    BY DEF Roomy
  <2>1. Len(t.items[m]) <= node_capacity /\ m \in Node
    BY <1>1, <1>7, <1>12 DEF Roomy
  <2>2. node_capacity \in Nat
    BY NodeTypes
  <2> QED BY <1>13, <2>1, <2>2
<1>15. ASSUME NEW m \in u.nodes, NEW j \in 1..Len(u.items[m])
       PROVE  AtHome(u, m, u.items[m][j].bounds)
  <2>1. m \in t.nodes /\ m \in Node
    BY <1>1, <1>7
  <2>2. PICK k \in 1..Len(t.items[m]) : u.items[m][j] = t.items[m][k]
    BY <1>13, <2>1
  <2>3. AtHome(t, m, t.items[m][k].bounds)
    BY <2>1 DEF Sound
  <2> QED BY <1>12, <2>2, <2>3 DEF AtHome
<1>16. Sound(u)
  BY <1>10, <1>11, <1>14, <1>15 DEF Sound
<1>17. Places(u) = Places(t) \ {<<n, L>>} /\ <<n, L>> \in Places(t)
  <2>1. \A m, k : <<m, k>> \in Places(u) <=> m \in t.nodes /\ k \in 1..Len(u.items[m])
    BY <1>7, <1>10, PlaceTypes
  <2>2. \A m, k : <<m, k>> \in Places(t) <=> m \in t.nodes /\ k \in 1..Len(t.items[m])
    BY <1>1, PlaceTypes
  <2>3. ASSUME NEW m \in t.nodes, NEW k
        PROVE  k \in 1..Len(u.items[m]) <=> k \in 1..Len(t.items[m]) /\ ~ (m = n /\ k = L)
    <3>1. CASE m = n
      BY <1>3, <1>4, <1>8, <3>1
    <3>2. CASE m # n
      BY <1>1, <1>8, <3>2
    <3> QED BY <3>1, <3>2
  <2>4. <<n, L>> \in Places(t)
    BY <1>2, <1>3, <2>2
  <2>5. \A m, k : <<m, k>> \in Places(u) <=> <<m, k>> \in Places(t) /\ <<m, k>> # <<n, L>>
    BY <2>1, <2>2, <2>3
  <2>6. /\ \A a \in Places(u) : \E m, k : a = <<m, k>>
        /\ \A a \in Places(t) : \E m, k : a = <<m, k>>
    BY <1>1, <1>10, PlaceTypes
  <2> QED BY <2>4, <2>5, <2>6
<1>18. /\ IsFiniteSet(Places(u)) /\ Cardinality(Places(t)) \in Nat
       /\ Cardinality(Places(u)) \in Nat /\ Cardinality(Places(u)) = Cardinality(Places(t)) - 1
  BY <1>17, FS_RemoveElement, FS_CardinalityType
<1>19. Cardinality(Places(t)) \in Nat \ {0}
  BY <1>18
<1> QED BY <1>5, <1>16, <1>18, <1>19

-----------------------------------------------------------------------------
\* The specification.

(***************************************************************************)
(* The inductive invariant: the tree is sound (its nodes come in fours     *)
(* under a parent, its items lie as deep as they fit, leaves are within    *)
(* their capacity), and its places are counted.                            *)
(***************************************************************************)
IInv ==
  /\ Sound(Tree)
  /\ IsFiniteSet(Places(Tree)) /\ Cardinality(Places(Tree)) <= total_items
  /\ total_items \in 0..MaxItems

LEMMA EmptyTree ==
  LET t == [nodes |-> {<<>>}, items |-> [n \in Node |-> <<>>]]
  IN Sound(t) /\ IsFiniteSet(Places(t)) /\ Cardinality(Places(t)) = 0
<1> DEFINE t == [nodes |-> {<<>>}, items |-> [n \in Node |-> <<>>]]
<1>1. t.nodes = {<<>>} /\ t.items = [n \in Node |-> <<>>] /\ <<>> \in Node
  BY NodeTypes
<1>2. \A n \in Node : t.items[n] = <<>> /\ Len(t.items[n]) = 0
  BY <1>1, EmptySeq
<1>3. t \in [nodes : SUBSET Node, items : [Node -> Seq(Item)]]
  <2>1. <<>> \in Seq(Item)
    BY EmptySeq
  <2> QED BY <1>1, <2>1
<1> HIDE DEF t
<1>4. TreeType(t)
  BY <1>1, <1>2, <1>3 DEF TreeType
<1>5. Closed(t)
  BY <1>1 DEF Closed
<1>6. Roomy(t)
  <2>1. 0 <= node_capacity
    BY NodeTypes
  <2> QED BY <1>1, <1>2, <2>1 DEF Roomy
<1>7. \A n \in t.nodes : \A k \in 1..Len(t.items[n]) : AtHome(t, n, t.items[n][k].bounds)
  BY <1>1, <1>2
<1>8. Places(t) = {}
  <2>1. \A n, k : <<n, k>> \notin Places(t)
    <3> SUFFICES ASSUME NEW n, NEW k, <<n, k>> \in Places(t) PROVE FALSE
      OBVIOUS
    <3>1. n \in t.nodes /\ k \in 1..Len(t.items[n])
      BY <1>4, PlaceTypes
    <3>2. Len(t.items[n]) = 0
      BY <1>1, <1>2, <3>1
    <3> QED BY <3>1, <3>2
  <2>2. \A a \in Places(t) : \E n, k : a = <<n, k>>
    BY <1>4, PlaceTypes
  <2> QED BY <2>1, <2>2
<1>9. IsFiniteSet(Places(t)) /\ Cardinality(Places(t)) = 0
  BY <1>8, FS_EmptySet
<1> QED BY <1>4, <1>5, <1>6, <1>7, <1>9 DEF Sound, t

\* The tree after a step that becomes u.
LEMMA TreeBecomes ==
  ASSUME NEW u, Sound(u), Becomes(u)
  PROVE  Tree' = u
<1>1. u \in [nodes : SUBSET Node, items : [Node -> Seq(Item)]]
  BY DEF Sound, TreeType
<1>2. u = [nodes |-> u.nodes, items |-> u.items]
  BY <1>1
<1>3. nodes' = u.nodes /\ items' = u.items
  BY DEF Becomes
<1> QED BY <1>2, <1>3 DEF Tree

\* The invariant after such a step.
LEMMA IInvBecomes ==
  ASSUME NEW u, Sound(u), Becomes(u), IsFiniteSet(Places(u)),
         Cardinality(Places(u)) <= total_items', total_items' \in 0..MaxItems
  PROVE  IInv' /\ Tree' = u
<1>1. Tree' = u
  BY TreeBecomes
<1>2. (Places(Tree))' = Places(u)
  BY <1>1 DEF Places
<1>3. (Sound(Tree))'
  BY <1>1 DEF Sound, TreeType, Closed, Roomy, AtHome, is_leaf
<1> QED BY <1>1, <1>2, <1>3 DEF IInv

LEMMA InitIInv == Init => IInv
<1> SUFFICES ASSUME Init PROVE IInv
  OBVIOUS
<1>1. Tree = [nodes |-> {<<>>}, items |-> [n \in Node |-> <<>>]] /\ total_items = 0
  BY DEF Init, Tree
<1>2. MaxItems \in Nat
  BY QuadTreeAssumption
<1> QED BY <1>1, <1>2, EmptyTree DEF IInv

\* What an insertion into the tree does to the invariant's parts.
LEMMA InsertStep ==
  ASSUME IInv, NEW id \in Ids, NEW b \in Boxes, quadtree_insert(id, b)
  PROVE  /\ IInv'
         /\ Tree' = qtnode_insert(Tree, [id |-> id, bounds |-> b])
<1> DEFINE i == [id |-> id, bounds |-> b]
           u == qtnode_insert(Tree, i)
<1>1. i \in Item
  BY DEF Item
<1>2. Becomes(u) /\ total_items < MaxItems /\ total_items' = total_items + 1
  BY DEF quadtree_insert
<1>3. /\ Sound(Tree) /\ IsFiniteSet(Places(Tree)) /\ Cardinality(Places(Tree)) <= total_items
      /\ total_items \in 0..MaxItems
  BY DEF IInv
<1> HIDE DEF i
<1>4. Sound(u) /\ IsFiniteSet(Places(u)) /\ Cardinality(Places(u)) <= Cardinality(Places(Tree)) + 1
  BY <1>1, <1>3, InsertEffect
<1> HIDE DEF u
<1>5. MaxItems \in Nat /\ Cardinality(Places(Tree)) \in Nat /\ Cardinality(Places(u)) \in Nat
  BY <1>3, <1>4, QuadTreeAssumption, FS_CardinalityType
<1>6. Cardinality(Places(u)) <= total_items' /\ total_items' \in 0..MaxItems
  BY <1>2, <1>3, <1>4, <1>5
<1> QED BY <1>2, <1>4, <1>6, IInvBecomes DEF u, i

LEMMA RemoveStep ==
  ASSUME IInv, NEW id \in Ids, quadtree_remove(id)
  PROVE  IInv'
<1> DEFINE u == qtnode_remove(Tree, id)
<1>1. Becomes(u) /\ HoldersOf(Tree, id) # {} /\ total_items' = total_items - 1
  BY DEF quadtree_remove
<1>2. /\ Sound(Tree) /\ IsFiniteSet(Places(Tree)) /\ Cardinality(Places(Tree)) <= total_items
      /\ total_items \in 0..MaxItems
  BY DEF IInv
<1>3. /\ Sound(u) /\ IsFiniteSet(Places(u)) /\ Cardinality(Places(Tree)) \in Nat \ {0}
      /\ Cardinality(Places(u)) = Cardinality(Places(Tree)) - 1
  BY <1>1, <1>2, RemoveEffect
<1> HIDE DEF u
<1>4. Cardinality(Places(u)) <= total_items' /\ total_items' \in 0..MaxItems
  BY <1>1, <1>2, <1>3, QuadTreeAssumption
<1> QED BY <1>1, <1>3, <1>4, IInvBecomes

LEMMA UpdateStep ==
  ASSUME IInv, NEW id \in Ids, NEW b \in Boxes, quadtree_update(id, b)
  PROVE  IInv' /\ ~ (total_items' > total_items)
<1> DEFINE i == [id |-> id, bounds |-> b]
           t == qtnode_remove(Tree, id)
           u == qtnode_insert(t, i)
<1>1. /\ HoldersOf(Tree, id) # {}
      /\ \/ Becomes(u) /\ total_items' = total_items
         \/ Becomes(t) /\ total_items' = total_items - 1
  BY DEF quadtree_update
<1>2. /\ Sound(Tree) /\ IsFiniteSet(Places(Tree)) /\ Cardinality(Places(Tree)) <= total_items
      /\ total_items \in 0..MaxItems
  BY DEF IInv
<1>3. i \in Item
  BY DEF Item
<1>4. /\ Sound(t) /\ IsFiniteSet(Places(t)) /\ Cardinality(Places(Tree)) \in Nat \ {0}
      /\ Cardinality(Places(t)) = Cardinality(Places(Tree)) - 1
  BY <1>1, <1>2, RemoveEffect
<1> HIDE DEF i, t
<1>5. Sound(u) /\ IsFiniteSet(Places(u)) /\ Cardinality(Places(u)) <= Cardinality(Places(t)) + 1
  BY <1>3, <1>4, InsertEffect
<1> HIDE DEF u
<1>6. Cardinality(Places(u)) \in Nat
  BY <1>5, FS_CardinalityType
<1>7. CASE Becomes(u) /\ total_items' = total_items
  <2>1. Cardinality(Places(u)) <= total_items' /\ total_items' \in 0..MaxItems
    BY <1>2, <1>4, <1>5, <1>6, <1>7
  <2>2. ~ (total_items' > total_items)
    BY <1>2, <1>7
  <2> QED BY <1>5, <1>7, <2>1, <2>2, IInvBecomes
<1>8. CASE Becomes(t) /\ total_items' = total_items - 1
  <2>1. Cardinality(Places(t)) <= total_items' /\ total_items' \in 0..MaxItems
    BY <1>2, <1>4, <1>8, QuadTreeAssumption
  <2>2. ~ (total_items' > total_items)
    BY <1>2, <1>8
  <2> QED BY <1>4, <1>8, <2>1, <2>2, IInvBecomes
<1> QED BY <1>1, <1>7, <1>8

LEMMA NextIInv == IInv /\ [Next]_vars => IInv'
<1> SUFFICES ASSUME IInv, [Next]_vars PROVE IInv'
  OBVIOUS
<1>1. ASSUME NEW id \in Ids, NEW b \in Boxes, quadtree_insert(id, b)
      PROVE  IInv'
  BY <1>1, InsertStep
<1>2. ASSUME NEW id \in Ids, NEW b \in Boxes, quadtree_update(id, b)
      PROVE  IInv'
  BY <1>2, UpdateStep
<1>3. ASSUME NEW id \in Ids, quadtree_remove(id)
      PROVE  IInv'
  BY <1>3, RemoveStep
<1>4. CASE quadtree_clear
  <2> DEFINE u == [nodes |-> {<<>>}, items |-> [n \in Node |-> <<>>]]
  <2>1. Becomes(u) /\ total_items' = 0
    BY <1>4 DEF quadtree_clear, Becomes
  <2>2. Sound(u) /\ IsFiniteSet(Places(u)) /\ Cardinality(Places(u)) = 0
    BY EmptyTree
  <2> HIDE DEF u
  <2>3. Cardinality(Places(u)) <= total_items' /\ total_items' \in 0..MaxItems
    BY <2>1, <2>2, QuadTreeAssumption
  <2> QED BY <2>1, <2>2, <2>3, IInvBecomes
<1>5. CASE UNCHANGED vars
  <2> DEFINE u == Tree
  <2>1. Becomes(u) /\ total_items' = total_items
    BY <1>5 DEF vars, Becomes, Tree
  <2>2. /\ Sound(u) /\ IsFiniteSet(Places(u)) /\ Cardinality(Places(u)) <= total_items'
        /\ total_items' \in 0..MaxItems
    BY <2>1 DEF IInv
  <2> HIDE DEF u
  <2> QED BY <2>1, <2>2, IInvBecomes
<1> QED BY <1>1, <1>2, <1>3, <1>4, <1>5 DEF Next

LEMMA IInvHolds == Spec => []IInv
<1> QED BY InitIInv, NextIInv, PTL DEF Spec

\* What the invariant says of the tree in the words of the model.
LEMMA PlacedFromIInv == IInv => ItemsPlaced
<1> SUFFICES ASSUME IInv PROVE ItemsPlaced
  OBVIOUS
<1>1. Sound(Tree) /\ total_items \in 0..MaxItems /\ nodes = Tree.nodes /\ items = Tree.items
  BY DEF IInv, Tree
<1>2. TreeType(Tree) /\ Closed(Tree) /\ Roomy(Tree)
  BY <1>1 DEF Sound
<1>3. TypeOK
  BY <1>1, <1>2 DEF TypeOK, TreeType, Closed
<1>4. ASSUME NEW a \in Places(Tree)
      PROVE  /\ a[1] # <<>> => mbr_contains_mbr(BoundsOf[a[1]], BoundsAt(a))
             /\ ~ is_leaf(Tree, a[1]) => Fitting(a[1], BoundsAt(a)) = {}
  <2>1. PICK n \in nodes : \E k \in 1..Len(items[n]) : a = <<n, k>>
    BY <1>1, <1>2, PlaceTypes
  <2>2. PICK k \in 1..Len(items[n]) : a = <<n, k>>
    BY <2>1
  <2>3. AtHome(Tree, n, items[n][k].bounds)
    BY <1>1 DEF Sound
  <2>4. a[1] = n /\ BoundsAt(a) = items[n][k].bounds
    BY <2>2 DEF BoundsAt
  <2> QED BY <2>3, <2>4 DEF AtHome
<1>5. \A n \in nodes : is_leaf(Tree, n) /\ Len(n) < max_depth => Len(items[n]) <= node_capacity
  BY <1>1, <1>2 DEF Roomy
<1> QED BY <1>3, <1>4, <1>5 DEF ItemsPlaced

-----------------------------------------------------------------------------
\* The theorems.

(***************************************************************************)
(* The tree is well formed after every sequence of insertions, updates,    *)
(* removals and clears: its nodes come in fours under a parent, every item *)
(* lies inside its node and in no child of it, and no leaf above max_depth *)
(* is over its capacity, however many splits one insertion cascades        *)
(* through (qtnode_insert, qtnode_split).                                  *)
(***************************************************************************)
THEOREM ItemsPlacedHolds == Spec => []ItemsPlaced
<1> QED BY IInvHolds, PlacedFromIInv, PTL

(***************************************************************************)
(* Region and point queries miss no stored item and return no other, for   *)
(* every root, capacity and depth, items that stick out of the root or lie *)
(* on quadrant borders included (qtnode_query_range, qtnode_query_point).  *)
(***************************************************************************)
THEOREM RangeQueriesCompleteHolds == Spec => []RangeQueriesComplete
<1>1. IInv => RangeQueriesComplete
  BY SoundSearches DEF IInv
<1> QED BY <1>1, IInvHolds, PTL

(***************************************************************************)
(* total_items never falls below the number of stored items: the size_t is *)
(* not decremented below zero by any removal (quadtree_remove,             *)
(* quadtree_update), though splits lose items.                             *)
(***************************************************************************)
THEOREM CountNotShortHolds == Spec => []CountNotShort
<1>1. IInv => CountNotShort
  BY DEF IInv, CountNotShort
<1> QED BY <1>1, IInvHolds, PTL

\* An insertion loses only the items that one of its splits finds no child for.
LEMMA InsertLoses ==
  ASSUME IInv, [Next]_vars, total_items' > total_items, NEW a \in Places(Tree)
  PROVE  \/ items[a[1]][a[2]] \in Stored(Tree')
         \/ \E n \in Split(Tree, Tree') : IsPrefix(a[1], n) /\ Fitting(n, BoundsAt(a)) = {}
<1>1. total_items \in Int /\ total_items \in Nat
  BY DEF IInv
<1>2. \E id \in Ids, b \in Boxes : quadtree_insert(id, b)
  <2>1. ASSUME NEW id \in Ids, NEW b \in Boxes, quadtree_update(id, b)
        PROVE  FALSE
    BY <2>1, UpdateStep
  <2>2. ASSUME NEW id \in Ids, quadtree_remove(id)
        PROVE  FALSE
    BY <1>1, <2>2 DEF quadtree_remove
  <2>3. ~ quadtree_clear /\ ~ UNCHANGED vars
    BY <1>1 DEF quadtree_clear, vars
  <2> QED BY <2>1, <2>2, <2>3 DEF Next
<1>3. PICK id \in Ids, b \in Boxes : quadtree_insert(id, b)
  BY <1>2
<1> DEFINE i == [id |-> id, bounds |-> b]
           t == Tree
           u == qtnode_insert(t, i)
<1>4. Tree' = u
  BY <1>3, InsertStep
<1>5. i \in Item
  BY DEF Item
<1>6. Sound(t) /\ IsFiniteSet(Places(t)) /\ TreeType(t) /\ nodes = t.nodes /\ items = t.items
  BY DEF IInv, Sound, Tree
<1> HIDE DEF i, t
<1>7. /\ Sound(u)
      /\ \A m \in t.nodes : \A k \in 1..Len(t.items[m]) :
           KeptIn(u, m, t.items[m][k]) \/ LostBy(t, u, m, t.items[m][k])
  BY <1>5, <1>6, InsertEffect
<1> HIDE DEF u
<1>8. PICK m \in t.nodes : \E k \in 1..Len(t.items[m]) : a = <<m, k>>
  BY <1>6, PlaceTypes DEF t
<1>9. PICK k \in 1..Len(t.items[m]) : a = <<m, k>>
  BY <1>8
<1> DEFINE x == t.items[m][k]
<1>10. a[1] = m /\ a[2] = k /\ items[a[1]][a[2]] = x /\ BoundsAt(a) = x.bounds
  BY <1>6, <1>9 DEF BoundsAt
<1>11. KeptIn(u, m, x) \/ LostBy(t, u, m, x)
  BY <1>7
<1> HIDE DEF x
<1>12. CASE KeptIn(u, m, x)
  <2>1. PICK c \in u.nodes : \E j \in 1..Len(u.items[c]) : u.items[c][j] = x
    BY <1>12 DEF KeptIn
  <2>2. PICK j \in 1..Len(u.items[c]) : u.items[c][j] = x
    BY <2>1
  <2>3. <<c, j>> \in Places(u)
    BY <1>7, PlaceTypes DEF Sound
  <2>4. x \in Stored(u)
    <3>1. x = u.items[<<c, j>>[1]][<<c, j>>[2]]
      BY <2>2
    <3> QED BY <2>3, <3>1 DEF Stored
  <2>5. x \in Stored(Tree')
    BY <1>4, <2>4
  <2> QED BY <1>10, <2>5
<1>13. CASE LostBy(t, u, m, x)
  <2>1. PICK c \in u.nodes : ~ is_leaf(u, c) /\ is_leaf(t, c) /\ IsPrefix(m, c) /\ Fitting(c, x.bounds) = {}
    BY <1>13 DEF LostBy
  <2>2. c \in Split(t, u)
    BY <2>1 DEF Split
  <2>3. c \in Split(Tree, Tree')
    BY <1>4, <2>2 DEF t
  <2> QED BY <1>10, <2>1, <2>3
<1> QED BY <1>11, <1>12, <1>13

(***************************************************************************)
(* An insertion loses no stored item but those of a node it splits that    *)
(* fit in none of the node's children, through any cascade of splits       *)
(* (quadtree_insert, qtnode_split).                                        *)
(***************************************************************************)
THEOREM InsertLosesOnlySpanningHolds == Spec => InsertLosesOnlySpanning
<1> DEFINE A == total_items' > total_items =>
                  \A a \in Places(Tree) :
                    \/ items[a[1]][a[2]] \in Stored(Tree')
                    \/ \E n \in Split(Tree, Tree') : IsPrefix(a[1], n) /\ Fitting(n, BoundsAt(a)) = {}
<1>1. IInv /\ [Next]_vars => A
  BY InsertLoses
<1> HIDE DEF A
<1>2. Spec => [][A]_vars
  BY <1>1, IInvHolds, PTL DEF Spec
<1> QED BY <1>2 DEF InsertLosesOnlySpanning, A
====
