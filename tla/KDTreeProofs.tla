----------------------------- MODULE KDTreeProofs -----------------------------
(***************************************************************************)
(* Proofs of what the runs of KDTree check on small trees.  A tree is      *)
(* Sound if its nodes are closed under the way to the root, each node      *)
(* carries the rectangle and the number of the points below it, and every  *)
(* point is on its side of every split above it.  Insertion, the join of   *)
(* two subtrees under a median, and so every bulk load keep that; it is    *)
(* what the bounds, the queries, the search and the partition need.        *)
(***************************************************************************)
EXTENDS KDTree, BasicLemmas, FiniteSetTheorems

-----------------------------------------------------------------------------
\* Rectangles around points.

\* b is the least rectangle around the points Q.
Tight(b, Q) ==
  /\ b \in MBR
  /\ \A p \in Q : b.min_x <= p.x /\ p.x <= b.max_x /\ b.min_y <= p.y /\ p.y <= b.max_y
  /\ (\E p \in Q : p.x = b.min_x) /\ (\E p \in Q : p.x = b.max_x)
  /\ (\E p \in Q : p.y = b.min_y) /\ (\E p \in Q : p.y = b.max_y)

LEMMA Corners ==
  /\ Inf \in Nat /\ Inf >= 1 /\ -Inf \in Int
  /\ \A c \in Coord : c \in Int /\ -Inf <= c /\ c <= Inf
  /\ \A p \in Point : p.x \in Coord /\ p.y \in Coord
  /\ \A m \in MBR : m.min_x \in Coord /\ m.min_y \in Coord /\ m.max_x \in Coord /\ m.max_y \in Coord
  /\ \A a, b, c, d \in Coord : /\ mbr_create(a, b, c, d) \in MBR
                               /\ mbr_create(a, b, c, d).min_x = a /\ mbr_create(a, b, c, d).min_y = b
                               /\ mbr_create(a, b, c, d).max_x = c /\ mbr_create(a, b, c, d).max_y = d
<1>1. /\ Inf \in Nat /\ Inf >= 1 /\ -Inf \in Int
      /\ \A c \in Coord : c \in Int /\ -Inf <= c /\ c <= Inf
  BY InfAssumption DEF Coord
<1>2. /\ \A p \in Point : p.x \in Coord /\ p.y \in Coord
      /\ \A m \in MBR : m.min_x \in Coord /\ m.min_y \in Coord /\ m.max_x \in Coord /\ m.max_y \in Coord
  BY DEF Point, MBR
<1>3. \A a, b, c, d \in Coord : /\ mbr_create(a, b, c, d) \in MBR
                               /\ mbr_create(a, b, c, d).min_x = a /\ mbr_create(a, b, c, d).min_y = b
                               /\ mbr_create(a, b, c, d).max_x = c /\ mbr_create(a, b, c, d).max_y = d
  BY DEF MBR, mbr_create
<1> QED BY <1>1, <1>2, <1>3

LEMMA LowerUpper ==
  ASSUME NEW a \in Coord, NEW b \in Coord
  PROVE  /\ Lower(a, b) \in Coord /\ Lower(a, b) <= a /\ Lower(a, b) <= b
         /\ Lower(a, b) = a \/ Lower(a, b) = b
         /\ Upper(a, b) \in Coord /\ a <= Upper(a, b) /\ b <= Upper(a, b)
         /\ Upper(a, b) = a \/ Upper(a, b) = b
  BY Corners DEF Lower, Upper

\* Two rectangles with the same corners are the same.
LEMMA SameCorners ==
  ASSUME NEW a \in MBR, NEW b \in MBR,
         a.min_x = b.min_x, a.min_y = b.min_y, a.max_x = b.max_x, a.max_y = b.max_y
  PROVE  a = b
  BY DEF MBR

LEMMA TightPoint ==
  ASSUME NEW p \in Point
  PROVE  /\ Tight(mbr_create(p.x, p.y, p.x, p.y), {p})
         /\ mbr_expand_point(mbr_empty, p) = mbr_create(p.x, p.y, p.x, p.y)
<1> DEFINE b == mbr_create(p.x, p.y, p.x, p.y)
<1>1. b \in MBR /\ b.min_x = p.x /\ b.min_y = p.y /\ b.max_x = p.x /\ b.max_y = p.y
  BY Corners
<1> HIDE DEF b
<1>2. p.x \in Int /\ p.y \in Int
  BY Corners
<1>3. Tight(b, {p})
  BY <1>1, <1>2 DEF Tight
<1>4. /\ mbr_empty.min_x = Inf /\ mbr_empty.min_y = Inf
      /\ mbr_empty.max_x = -Inf /\ mbr_empty.max_y = -Inf
  BY DEF mbr_empty, mbr_create
<1>5. /\ Lower(Inf, p.x) = p.x /\ Lower(Inf, p.y) = p.y
      /\ Upper(-Inf, p.x) = p.x /\ Upper(-Inf, p.y) = p.y
  <2>1. /\ Inf \in Int /\ -Inf \in Int /\ p.x \in Int /\ p.y \in Int
        /\ -Inf <= p.x /\ p.x <= Inf /\ -Inf <= p.y /\ p.y <= Inf
    BY Corners
  <2> QED BY <2>1 DEF Lower, Upper
<1>6. mbr_expand_point(mbr_empty, p) = b
  BY <1>4, <1>5 DEF mbr_expand_point, b
<1> QED BY <1>3, <1>6 DEF b

\* A rectangle expanded by another one; the second is not empty.
LEMMA TightJoin ==
  ASSUME NEW a, NEW b, NEW P \in SUBSET Point, NEW Q \in SUBSET Point, Tight(a, P), Tight(b, Q)
  PROVE  Tight(mbr_expand_mbr(a, b), P \cup Q)
<1>1. a \in MBR /\ b \in MBR
  BY DEF Tight
<1>2. ~ mbr_is_empty(b)
  <2>1. PICK p \in Q : p.x = b.min_x
    BY DEF Tight
  <2>2. p.x \in Int /\ p.y \in Int /\ p.x <= b.max_x /\ b.min_y <= p.y /\ p.y <= b.max_y
    BY Corners DEF Tight
  <2>3. b.min_x \in Int /\ b.max_x \in Int /\ b.min_y \in Int /\ b.max_y \in Int
    BY <1>1, Corners
  <2>4. b.min_x <= b.max_x /\ b.min_y <= b.max_y
    BY <2>1, <2>2, <2>3
  <2> QED BY <2>3, <2>4 DEF mbr_is_empty
<1> DEFINE c == mbr_expand_mbr(a, b)
<1>3. /\ a.min_x \in Coord /\ a.min_y \in Coord /\ a.max_x \in Coord /\ a.max_y \in Coord
      /\ b.min_x \in Coord /\ b.min_y \in Coord /\ b.max_x \in Coord /\ b.max_y \in Coord
  BY <1>1, Corners
<1>4. c = mbr_create(Lower(a.min_x, b.min_x), Lower(a.min_y, b.min_y),
                     Upper(a.max_x, b.max_x), Upper(a.max_y, b.max_y))
  BY <1>2 DEF mbr_expand_mbr
<1>5. /\ Lower(a.min_x, b.min_x) \in Coord /\ Lower(a.min_y, b.min_y) \in Coord
      /\ Upper(a.max_x, b.max_x) \in Coord /\ Upper(a.max_y, b.max_y) \in Coord
  BY <1>3, LowerUpper
<1>6. /\ c \in MBR
      /\ c.min_x = Lower(a.min_x, b.min_x) /\ c.min_y = Lower(a.min_y, b.min_y)
      /\ c.max_x = Upper(a.max_x, b.max_x) /\ c.max_y = Upper(a.max_y, b.max_y)
  BY <1>4, <1>5, Corners
<1> HIDE DEF c
<1>7. /\ c.min_x \in Coord /\ c.min_x <= a.min_x /\ c.min_x <= b.min_x /\ (c.min_x = a.min_x \/ c.min_x = b.min_x)
      /\ c.min_y \in Coord /\ c.min_y <= a.min_y /\ c.min_y <= b.min_y /\ (c.min_y = a.min_y \/ c.min_y = b.min_y)
      /\ c.max_x \in Coord /\ a.max_x <= c.max_x /\ b.max_x <= c.max_x /\ (c.max_x = a.max_x \/ c.max_x = b.max_x)
      /\ c.max_y \in Coord /\ a.max_y <= c.max_y /\ b.max_y <= c.max_y /\ (c.max_y = a.max_y \/ c.max_y = b.max_y)
  BY <1>3, <1>6, LowerUpper
<1> DEFINE Whole(m) == m.min_x \in Int /\ m.min_y \in Int /\ m.max_x \in Int /\ m.max_y \in Int
<1>11. Whole(a) /\ Whole(b) /\ Whole(c)
  BY <1>3, <1>7, Corners
<1>8. ASSUME NEW p \in P \cup Q
      PROVE  c.min_x <= p.x /\ p.x <= c.max_x /\ c.min_y <= p.y /\ p.y <= c.max_y
  <2>1. p.x \in Int /\ p.y \in Int
    BY Corners
  <2>2. CASE p \in P
    <3>1. a.min_x <= p.x /\ p.x <= a.max_x /\ a.min_y <= p.y /\ p.y <= a.max_y
      BY <2>2 DEF Tight
    <3> QED BY <1>11, <1>7, <2>1, <3>1
  <2>3. CASE p \in Q
    <3>1. b.min_x <= p.x /\ p.x <= b.max_x /\ b.min_y <= p.y /\ p.y <= b.max_y
      BY <2>3 DEF Tight
    <3> QED BY <1>11, <1>7, <2>1, <3>1
  <2> QED BY <2>2, <2>3
<1>9. /\ \E p \in P \cup Q : p.x = c.min_x
      /\ \E p \in P \cup Q : p.x = c.max_x
      /\ \E p \in P \cup Q : p.y = c.min_y
      /\ \E p \in P \cup Q : p.y = c.max_y
  <2>1. /\ (\E p \in P : p.x = a.min_x) /\ (\E p \in P : p.x = a.max_x)
        /\ (\E p \in P : p.y = a.min_y) /\ (\E p \in P : p.y = a.max_y)
    BY DEF Tight
  <2>2. /\ (\E p \in Q : p.x = b.min_x) /\ (\E p \in Q : p.x = b.max_x)
        /\ (\E p \in Q : p.y = b.min_y) /\ (\E p \in Q : p.y = b.max_y)
    BY DEF Tight
  <2> QED BY <1>7, <2>1, <2>2
<1>10. Tight(c, P \cup Q)
  BY <1>6, <1>8, <1>9 DEF Tight
<1> QED BY <1>10 DEF c

\* A rectangle expanded by a point.
LEMMA TightOneMore ==
  ASSUME NEW a, NEW P \in SUBSET Point, NEW p \in Point, Tight(a, P)
  PROVE  Tight(mbr_expand_point(a, p), P \cup {p})
<1> DEFINE b == mbr_create(p.x, p.y, p.x, p.y)
<1>1. b \in MBR /\ b.min_x = p.x /\ b.min_y = p.y /\ b.max_x = p.x /\ b.max_y = p.y
  BY Corners
<1>2. Tight(b, {p})
  BY TightPoint
<1> HIDE DEF b
<1>3. ~ mbr_is_empty(b)
  BY <1>1, Corners DEF mbr_is_empty
<1>4. mbr_expand_point(a, p) = mbr_expand_mbr(a, b)
  BY <1>1, <1>3 DEF mbr_expand_point, mbr_expand_mbr
<1> QED BY <1>2, <1>4, TightJoin

\* There is one such rectangle.
LEMMA TightUnique ==
  ASSUME NEW a, NEW b, NEW Q \in SUBSET Point, Tight(a, Q), Tight(b, Q)
  PROVE  a = b
<1>1. a \in MBR /\ b \in MBR
  BY DEF Tight
<1>2. /\ a.min_x \in Int /\ a.min_y \in Int /\ a.max_x \in Int /\ a.max_y \in Int
      /\ b.min_x \in Int /\ b.min_y \in Int /\ b.max_x \in Int /\ b.max_y \in Int
  BY <1>1, Corners
<1>3. a.min_x <= b.min_x /\ b.min_x <= a.min_x
  BY DEF Tight
<1>4. a.min_y <= b.min_y /\ b.min_y <= a.min_y
  BY DEF Tight
<1>5. a.max_x <= b.max_x /\ b.max_x <= a.max_x
  BY DEF Tight
<1>6. a.max_y <= b.max_y /\ b.max_y <= a.max_y
  BY DEF Tight
<1> QED BY <1>1, <1>2, <1>3, <1>4, <1>5, <1>6, SameCorners

\* It is the hull of the points' own rectangles.
LEMMA TightIsHull ==
  ASSUME NEW b, NEW Q \in SUBSET Point, Tight(b, Q)
  PROVE  Hull({PointGeom(p).mbr : p \in Q}) = b
<1> DEFINE R == {PointGeom(p).mbr : p \in Q}
           solid == {m \in R : ~ mbr_is_empty(m)}
<1>1. ASSUME NEW p \in Q
      PROVE  /\ PointGeom(p).mbr \in solid
             /\ PointGeom(p).mbr.min_x = p.x /\ PointGeom(p).mbr.max_x = p.x
             /\ PointGeom(p).mbr.min_y = p.y /\ PointGeom(p).mbr.max_y = p.y
  <2> DEFINE m == PointGeom(p).mbr
  <2>1. m = mbr_create(p.x, p.y, p.x, p.y)
    BY DEF PointGeom
  <2>2. m.min_x = p.x /\ m.min_y = p.y /\ m.max_x = p.x /\ m.max_y = p.y
    BY <2>1, Corners
  <2>3. m \in R
    OBVIOUS
  <2> HIDE DEF m, R
  <2>4. ~ mbr_is_empty(m)
    BY <2>2, Corners DEF mbr_is_empty
  <2> QED BY <2>2, <2>3, <2>4 DEF m
<1>2. ASSUME NEW m \in solid
      PROVE  \E p \in Q : m = PointGeom(p).mbr
  OBVIOUS
<1> HIDE DEF solid
<1>3. b \in MBR /\ b.min_x \in Int /\ b.min_y \in Int /\ b.max_x \in Int /\ b.max_y \in Int
  BY Corners DEF Tight
<1>4. /\ {m.min_x : m \in solid} = {p.x : p \in Q}
      /\ {m.max_x : m \in solid} = {p.x : p \in Q}
      /\ {m.min_y : m \in solid} = {p.y : p \in Q}
      /\ {m.max_y : m \in solid} = {p.y : p \in Q}
  BY <1>1, <1>2
<1> DEFINE X == {p.x : p \in Q}
           Y == {p.y : p \in Q}
<1>13. \A p \in Q : p.x \in Int /\ p.y \in Int
  BY Corners
<1>5. /\ X \subseteq Int /\ b.min_x \in X /\ b.max_x \in X
      /\ \A v \in X : b.min_x <= v /\ v <= b.max_x
  BY <1>13 DEF Tight
<1>6. /\ Y \subseteq Int /\ b.min_y \in Y /\ b.max_y \in Y
      /\ \A v \in Y : b.min_y <= v /\ v <= b.max_y
  BY <1>13 DEF Tight
<1> HIDE DEF X, Y
<1>7. Min(X) = b.min_x /\ Max(X) = b.max_x
  <2>1. \A v \in X : (\A w \in X : v <= w) => v = b.min_x
    BY <1>3, <1>5
  <2>2. \A v \in X : (\A w \in X : v >= w) => v = b.max_x
    BY <1>3, <1>5
  <2>3. \A w \in X : b.min_x <= w /\ b.max_x >= w
    BY <1>3, <1>5
  <2>4. Min(X) \in X /\ \A w \in X : Min(X) <= w
    BY <1>5, <2>3 DEF Min
  <2>5. Max(X) \in X /\ \A w \in X : Max(X) >= w
    BY <1>5, <2>3 DEF Max
  <2> QED BY <2>1, <2>2, <2>4, <2>5
<1>8. Min(Y) = b.min_y /\ Max(Y) = b.max_y
  <2>1. \A v \in Y : (\A w \in Y : v <= w) => v = b.min_y
    BY <1>3, <1>6
  <2>2. \A v \in Y : (\A w \in Y : v >= w) => v = b.max_y
    BY <1>3, <1>6
  <2>3. \A w \in Y : b.min_y <= w /\ b.max_y >= w
    BY <1>3, <1>6
  <2>4. Min(Y) \in Y /\ \A w \in Y : Min(Y) <= w
    BY <1>6, <2>3 DEF Min
  <2>5. Max(Y) \in Y /\ \A w \in Y : Max(Y) >= w
    BY <1>6, <2>3 DEF Max
  <2> QED BY <2>1, <2>2, <2>4, <2>5
<1>9. solid # {}
  BY <1>1 DEF Tight
<1>10. Hull(R) = mbr_create(Min({m.min_x : m \in solid}), Min({m.min_y : m \in solid}),
                            Max({m.max_x : m \in solid}), Max({m.max_y : m \in solid}))
  BY <1>9 DEF Hull, solid
<1>11. Hull(R) = mbr_create(b.min_x, b.min_y, b.max_x, b.max_y)
  <2>1. Hull(R) = mbr_create(Min(X), Min(Y), Max(X), Max(Y))
    BY <1>4, <1>10 DEF X, Y
  <2> QED BY <1>7, <1>8, <2>1
<1>12. mbr_create(b.min_x, b.min_y, b.max_x, b.max_y) = b
  BY <1>3 DEF MBR, mbr_create
<1> QED BY <1>11, <1>12

-----------------------------------------------------------------------------
\* Trees as values.

Fork == [point : Points, object_id : 1..MaxSize, split_dim : {0, 1}, bounds : MBR, subtree_size : Nat]

\* The node n of t and those below it; the points of the nodes M.
Under(t, n) == {m \in DOMAIN t : IsPrefix(n, m)}
PointsIn(t, M) == {t[m].point : m \in M}

TreeType(t) ==
  /\ t = [m \in DOMAIN t |-> t[m]]
  /\ DOMAIN t \subseteq Seq(Side) /\ IsFiniteSet(DOMAIN t)
  /\ \A m \in DOMAIN t : t[m] \in Fork

\* t is a tree at n: nothing is above n, and no node between n and another is missing.
Rooted(t, n) ==
  \A m \in DOMAIN t :
    /\ IsPrefix(n, m)
    /\ \A p \in Seq(Side) : IsPrefix(n, p) /\ IsPrefix(p, m) => p \in DOMAIN t

Measured(t) ==
  \A m \in DOMAIN t :
    /\ Tight(t[m].bounds, PointsIn(t, Under(t, m)))
    /\ t[m].subtree_size = Cardinality(Under(t, m))

\* A point on side s of the node f; on the split coordinate on either side.
OnSide(f, s, p) ==
  IF s = Left THEN Coordinate(p, f.split_dim) <= Coordinate(f.point, f.split_dim)
  ELSE Coordinate(f.point, f.split_dim) <= Coordinate(p, f.split_dim)

Sorted(t) ==
  \A a, b \in DOMAIN t, s \in Side : IsPrefix(Append(a, s), b) => OnSide(t[a], s, t[b].point)

Sound(t, n) == TreeType(t) /\ Rooted(t, n) /\ Measured(t) /\ Sorted(t)

LEMMA Constants ==
  /\ Points \subseteq Point /\ Queries \subseteq Point /\ Ranges \subseteq MBR /\ Radii \subseteq Nat
  /\ MaxSize \in Nat /\ \A ps \in Loads : ps \in Seq(Points) /\ Len(ps) <= MaxSize
<1>1. ASSUME NEW ps \in Loads
      PROVE  ps \in Seq(Points) /\ Len(ps) <= MaxSize
  <2>1. ps \in SeqOf(Points, MaxSize) /\ MaxSize \in Nat
    BY KDTreeAssumption
  <2>2. PICK k \in 0..MaxSize : ps \in [1..k -> Points]
    BY <2>1 DEF SeqOf
  <2> QED BY <2>1, <2>2
<1> QED BY <1>1, KDTreeAssumption

LEMMA PathIsSeq == Path = {n \in Seq(Side) : Len(n) < MaxSize}
<1>1. MaxSize \in Nat
  BY Constants
<1>2. ASSUME NEW n \in Path
      PROVE  n \in Seq(Side) /\ Len(n) < MaxSize
  <2>1. PICK k \in 0..(MaxSize - 1) : n \in [1..k -> Side]
    BY DEF Path, SeqOf
  <2> QED BY <1>1, <2>1
<1>3. ASSUME NEW n \in Seq(Side), Len(n) < MaxSize
      PROVE  n \in Path
  <2>1. Len(n) \in 0..(MaxSize - 1) /\ n \in [1..Len(n) -> Side]
    BY <1>1, <1>3, LenProperties
  <2> QED BY <2>1 DEF Path, SeqOf
<1> QED BY <1>2, <1>3

\* A tree has more nodes than a path in it is long.
LEMMA PathShort ==
  ASSUME NEW t, TreeType(t), Rooted(t, <<>>), NEW m \in DOMAIN t
  PROVE  Len(m) + 1 <= Cardinality(DOMAIN t)
<1> DEFINE N == Len(m)
           F == [k \in 0..N |-> SubSeq(m, 1, k)]
<1>1. m \in Seq(Side) /\ N \in Nat /\ IsFiniteSet(DOMAIN t)
  BY LenProperties DEF TreeType
<1>2. \A k \in 0..N : F[k] \in DOMAIN t /\ Len(F[k]) = k
  <2> SUFFICES ASSUME NEW k \in 0..N PROVE F[k] \in DOMAIN t /\ Len(F[k]) = k
    OBVIOUS
  <2> DEFINE a == SubSeq(m, 1, k)
  <2>1. a \in Seq(Side) /\ Len(a) = k /\ IsPrefix(a, m)
    BY <1>1, PrefixStarts
  <2>2. F[k] = a
    OBVIOUS
  <2> HIDE DEF a, F
  <2>3. IsPrefix(<<>>, a)
    BY <2>1, PrefixOrder
  <2>4. a \in DOMAIN t
    BY <2>1, <2>3 DEF Rooted
  <2> QED BY <2>1, <2>2, <2>4
<1>3. F \in [0..N -> DOMAIN t]
  BY <1>2
<1> HIDE DEF F
<1>4. \A i, j \in 0..N : F[i] = F[j] => i = j
  BY <1>2
<1>5. IsFiniteSet(0..N) /\ Cardinality(0..N) = N + 1
  BY <1>1, FS_Interval
<1>6. Cardinality(0..N) <= Cardinality(DOMAIN t)
  <2>1. F \in Injection(0..N, DOMAIN t)
    BY <1>3, <1>4 DEF Injection, IsInjective
  <2> QED BY <1>1, <2>1, FS_Injection
<1> QED BY <1>5, <1>6

-----------------------------------------------------------------------------
\* The descent of an insertion.

Sides(t, p, n) ==
  \A a \in Seq(Side) :
    IsPrefix(a, n) /\ a # n => a \in DOMAIN t /\ IsPrefix(Append(a, SideOf(t[a], p)), n)

LEMMA BelowStep ==
  ASSUME NEW t, NEW p, NEW n \in Seq(Side), Sides(t, p, n)
  PROVE  /\ Below(t, p, n) \in Seq(Side) /\ Sides(t, p, Below(t, p, n))
         /\ n \notin DOMAIN t => Below(t, p, n) = n
         /\ n \in DOMAIN t => Len(Below(t, p, n)) = Len(n) + 1
<1>1. CASE n \notin DOMAIN t
  BY <1>1 DEF Below
<1>2. CASE n \in DOMAIN t
  <2> DEFINE s == SideOf(t[n], p)
             m == Append(n, s)
  <2>1. s \in Side /\ Below(t, p, n) = m
    BY <1>2 DEF Below, SideOf, Side
  <2>2. m \in Seq(Side) /\ Len(m) = Len(n) + 1
    BY <2>1, AppendFront
  <2>3. ASSUME NEW a \in Seq(Side), IsPrefix(a, m), a # m
        PROVE  a \in DOMAIN t /\ IsPrefix(Append(a, SideOf(t[a], p)), m)
    <3>1. IsPrefix(a, n)
      BY <2>1, <2>3, PrefixSides
    <3>2. CASE a = n
      BY <1>2, <2>2, <3>2, PrefixOrder
    <3>3. CASE a # n
      <4>1. a \in DOMAIN t /\ IsPrefix(Append(a, SideOf(t[a], p)), n)
        BY <3>1, <3>3 DEF Sides
      <4>2. SideOf(t[a], p) \in Side
        BY DEF SideOf, Side
      <4>3. Append(a, SideOf(t[a], p)) \in Seq(Side) /\ IsPrefix(n, m)
        BY <4>2, <2>1, PrefixSides
      <4> DEFINE b == Append(a, SideOf(t[a], p))
      <4>4. b \in Seq(Side) /\ IsPrefix(b, n) /\ IsPrefix(n, m) /\ m \in Seq(Side)
        BY <2>2, <4>1, <4>3
      <4> HIDE DEF b, m
      <4>5. IsPrefix(b, m)
        BY <4>4, PrefixOrder
      <4> QED BY <4>1, <4>5 DEF b
    <3> QED BY <3>2, <3>3
  <2> HIDE DEF m
  <2>4. Sides(t, p, m)
    BY <2>3 DEF Sides
  <2> QED BY <1>2, <2>1, <2>2, <2>4
<1> QED BY <1>1, <1>2

\* FreePath ends below the tree, on the point's side of every node passed.
LEMMA FreeWay ==
  ASSUME NEW t, TreeType(t), Rooted(t, <<>>), Cardinality(DOMAIN t) <= MaxSize, NEW p
  PROVE  /\ FreePath(t, p) \in Seq(Side) /\ FreePath(t, p) \notin DOMAIN t
         /\ Sides(t, p, FreePath(t, p))
<1> DEFINE S == Seq(Side)
           G == [d \in 1..MaxSize |-> [n \in S |-> Below(t, p, n)]]
           Rule(f) == f = [d \in 0..MaxSize |-> IF d = 0 THEN <<>> ELSE Below(t, p, f[d - 1])]
           at == CHOOSE f : Rule(f)
<1>1. MaxSize \in Nat /\ <<>> \in S
  BY Constants
<1>2. \A d \in 1..MaxSize : \A n \in S : G[d][n] = Below(t, p, n) /\ G[d][n] \in S
  <2> SUFFICES ASSUME NEW n \in S PROVE Below(t, p, n) \in S
    OBVIOUS
  <2>1. SideOf(t[n], p) \in Side
    BY DEF SideOf, Side
  <2> QED BY <2>1, AppendFront DEF Below
<1> HIDE DEF G
<1>3. PICK f : IsRun(f, S, <<>>, MaxSize, G)
  <2> DEFINE x == <<>>
             N == MaxSize
  <2>1. x \in S /\ N \in Nat /\ \A d \in 1..N : \A y \in S : G[d][y] \in S
    BY <1>1, <1>2
  <2> HIDE DEF S, x, N
  <2>2. \E f : IsRun(f, S, x, N, G)
    BY <2>1, Iterated
  <2> QED BY <2>2 DEF x, N
<1>4. /\ f \in [0..MaxSize -> S] /\ f[0] = <<>>
      /\ \A d \in 1..MaxSize : f[d] = G[d][f[d - 1]]
  BY <1>3 DEF IsRun
<1>5. Rule(f)
  <2>1. \A d \in 0..MaxSize : f[d] = IF d = 0 THEN <<>> ELSE Below(t, p, f[d - 1])
    <3> SUFFICES ASSUME NEW d \in 0..MaxSize, d # 0 PROVE f[d] = Below(t, p, f[d - 1])
      BY <1>4
    <3>1. d \in 1..MaxSize /\ d - 1 \in 0..MaxSize
      BY <1>1
    <3>2. f[d - 1] \in S
      BY <1>4, <3>1
    <3> QED BY <1>2, <1>4, <3>1, <3>2
  <2> HIDE DEF S
  <2> QED BY <1>4, <2>1
<1>6. Rule(at)
  BY <1>5
<1> DEFINE T == {d \in Nat : d <= MaxSize =>
                   /\ at[d] \in S /\ Sides(t, p, at[d])
                   /\ at[d] \notin DOMAIN t \/ Len(at[d]) = d}
<1>7. at[0] = <<>> /\ \A d \in 0..MaxSize : d # 0 => at[d] = Below(t, p, at[d - 1])
  <2> HIDE DEF at
  <2> QED BY <1>1, <1>6
<1> HIDE DEF at
<1>8. 0 \in T
  <2>1. \A a \in S : IsPrefix(a, <<>>) => a = <<>>
    BY PrefixOrder
  <2>2. Sides(t, p, <<>>) /\ Len(<<>>) = 0
    BY <2>1 DEF Sides
  <2> QED BY <1>1, <1>7, <2>2
<1>9. ASSUME NEW d \in Nat, d \in T
      PROVE  d + 1 \in T
  <2> SUFFICES ASSUME d + 1 <= MaxSize
               PROVE  /\ at[d + 1] \in S /\ Sides(t, p, at[d + 1])
                      /\ at[d + 1] \notin DOMAIN t \/ Len(at[d + 1]) = d + 1
    OBVIOUS
  <2>1. d <= MaxSize /\ d + 1 \in 0..MaxSize /\ d + 1 # 0 /\ (d + 1) - 1 = d
    BY <1>1
  <2>2. /\ at[d] \in S /\ Sides(t, p, at[d])
        /\ at[d] \notin DOMAIN t \/ Len(at[d]) = d
    BY <1>9, <2>1
  <2>3. at[d + 1] = Below(t, p, at[d])
    BY <1>7, <2>1
  <2> HIDE DEF T
  <2> QED BY <2>2, <2>3, BelowStep
<1>10. MaxSize \in T
  <2> HIDE DEF T
  <2> QED BY <1>1, <1>8, <1>9, InductiveSet
<1>11. at[MaxSize] \notin DOMAIN t
  <2>1. \A m \in DOMAIN t : Len(m) + 1 <= Cardinality(DOMAIN t) /\ Len(m) \in Nat
    BY PathShort, LenProperties DEF TreeType
  <2>2. Cardinality(DOMAIN t) \in Nat
    BY FS_CardinalityType DEF TreeType
  <2>3. \A m \in DOMAIN t : Len(m) # MaxSize
    BY <1>1, <2>1, <2>2
  <2> QED BY <1>1, <1>10, <2>3
<1>12. FreePath(t, p) = at[MaxSize]
  BY DEF FreePath, at
<1> QED BY <1>1, <1>10, <1>11, <1>12

-----------------------------------------------------------------------------
\* An insertion.

LEMMA NewNode ==
  ASSUME NEW p \in Points, NEW id \in 1..MaxSize, NEW dim \in {0, 1}
  PROVE  LET f == kdnode_create(p, id, dim)
         IN /\ f \in Fork /\ f.point = p /\ f.split_dim = dim /\ f.subtree_size = 1
            /\ Tight(f.bounds, {p})
<1> DEFINE b == mbr_create(p.x, p.y, p.x, p.y)
           f == kdnode_create(p, id, dim)
<1>1. p \in Point
  BY Constants
<1>2. b \in MBR /\ Tight(b, {p})
  BY <1>1, TightPoint DEF Tight
<1> HIDE DEF b
<1>3. f = [point |-> p, object_id |-> id, split_dim |-> dim, bounds |-> b, subtree_size |-> 1]
  BY DEF kdnode_create, b
<1>4. f \in Fork /\ f.point = p /\ f.split_dim = dim /\ f.subtree_size = 1 /\ f.bounds = b
  BY <1>2, <1>3 DEF Fork
<1> QED BY <1>2, <1>4

LEMMA EvenOdd ==
  ASSUME NEW n \in Seq(Side)
  PROVE  Len(n) % 2 \in {0, 1}
<1>1. Len(n) \in Nat
  BY LenProperties
<1> QED BY <1>1

\* A node on the way.
LEMMA Passed ==
  ASSUME NEW f \in Fork, NEW p \in Point, NEW Q \in SUBSET Point, Tight(f.bounds, Q)
  PROVE  LET g == [f EXCEPT !.bounds = mbr_expand_point(@, p), !.subtree_size = @ + 1]
         IN /\ g \in Fork /\ g.point = f.point /\ g.split_dim = f.split_dim
            /\ g.subtree_size = f.subtree_size + 1
            /\ Tight(g.bounds, Q \cup {p})
<1> DEFINE b == mbr_expand_point(f.bounds, p)
           k == f.subtree_size + 1
           g == [f EXCEPT !.bounds = mbr_expand_point(@, p), !.subtree_size = @ + 1]
<1>1. Tight(b, Q \cup {p})
  BY TightOneMore
<1>2. b \in MBR
  BY <1>1 DEF Tight
<1>3. k \in Nat
  BY DEF Fork
<1>4. g = [f EXCEPT !.bounds = b, !.subtree_size = k]
  BY DEF Fork
<1> HIDE DEF b, k
<1>5. /\ g.point = f.point /\ g.split_dim = f.split_dim /\ g.subtree_size = k /\ g.bounds = b
      /\ g \in Fork
  BY <1>2, <1>3, <1>4 DEF Fork
<1> QED BY <1>1, <1>5 DEF k

LEMMA ForkTypes ==
  ASSUME NEW t, TreeType(t), NEW m \in DOMAIN t
  PROVE  /\ t[m] \in Fork /\ m \in Seq(Side) /\ t[m].point \in Points /\ t[m].point \in Point
         /\ t[m].split_dim \in {0, 1} /\ t[m].bounds \in MBR /\ t[m].subtree_size \in Nat
         /\ PointsIn(t, Under(t, m)) \in SUBSET Point
<1>1. t[m] \in Fork /\ m \in Seq(Side)
  BY DEF TreeType
<1>2. ASSUME NEW k \in DOMAIN t
      PROVE  t[k].point \in Points
  <2>1. t[k] \in Fork
    BY DEF TreeType
  <2> QED BY <2>1 DEF Fork
<1>3. \A k \in DOMAIN t : t[k].point \in Point
  BY <1>2, Constants
<1>4. PointsIn(t, Under(t, m)) \in SUBSET Point
  BY <1>3 DEF PointsIn, Under
<1> QED BY <1>1, <1>2, <1>3, <1>4 DEF Fork

LEMMA InsertEffect ==
  ASSUME NEW t, Sound(t, <<>>), Cardinality(DOMAIN t) < MaxSize,
         NEW p \in Points, NEW id \in 1..MaxSize
  PROVE  LET n == FreePath(t, p)
             u == insert_recursive(t, p, id)
         IN /\ u = [m \in DOMAIN u |-> u[m]] /\ DOMAIN u = DOMAIN t \cup {n}
            /\ u[n] \in Fork /\ u[n].point = p /\ u[n].subtree_size = 1 /\ Tight(u[n].bounds, {p})
            /\ \A m \in DOMAIN t :
                 /\ u[m] \in Fork /\ u[m].point = t[m].point /\ u[m].split_dim = t[m].split_dim
                 /\ IF IsPrefix(m, n)
                    THEN /\ u[m].subtree_size = t[m].subtree_size + 1
                         /\ Tight(u[m].bounds, PointsIn(t, Under(t, m)) \cup {p})
                    ELSE u[m] = t[m]
<1> DEFINE n == FreePath(t, p)
           u == insert_recursive(t, p, id)
           c == kdnode_create(p, id, Len(n) % 2)
           h(m) == [t[m] EXCEPT !.bounds = mbr_expand_point(@, p), !.subtree_size = @ + 1]
<1>1. TreeType(t) /\ Rooted(t, <<>>) /\ Measured(t) /\ p \in Point
  BY Constants DEF Sound
<1>2. Cardinality(DOMAIN t) \in Nat /\ MaxSize \in Nat
  BY <1>1, Constants, FS_CardinalityType DEF TreeType
<1>3. n \in Seq(Side) /\ n \notin DOMAIN t
  BY <1>1, <1>2, FreeWay
<1>4. u = [m \in DOMAIN t \cup {n} |-> IF m = n THEN c ELSE IF IsPrefix(m, n) THEN h(m) ELSE t[m]]
  BY DEF insert_recursive
<1>5. /\ c \in Fork /\ c.point = p /\ c.subtree_size = 1 /\ Tight(c.bounds, {p})
  BY <1>3, EvenOdd, NewNode
<1>6. ASSUME NEW m \in DOMAIN t
      PROVE  /\ h(m) \in Fork /\ h(m).point = t[m].point /\ h(m).split_dim = t[m].split_dim
             /\ h(m).subtree_size = t[m].subtree_size + 1
             /\ Tight(h(m).bounds, PointsIn(t, Under(t, m)) \cup {p})
  <2>1. t[m] \in Fork /\ PointsIn(t, Under(t, m)) \in SUBSET Point
    BY <1>1, ForkTypes
  <2>2. Tight(t[m].bounds, PointsIn(t, Under(t, m)))
    BY <1>1 DEF Measured
  <2> QED BY <1>1, <2>1, <2>2, Passed
<1> HIDE DEF n, u, c, h
<1>7. /\ u = [m \in DOMAIN u |-> u[m]] /\ DOMAIN u = DOMAIN t \cup {n} /\ u[n] = c
      /\ \A m \in DOMAIN t : u[m] = IF IsPrefix(m, n) THEN h(m) ELSE t[m]
  BY <1>3, <1>4
<1>8. \A m \in DOMAIN t : t[m] \in Fork
  BY <1>1 DEF TreeType
<1>9. ASSUME NEW m \in DOMAIN t
      PROVE  /\ u[m] \in Fork /\ u[m].point = t[m].point /\ u[m].split_dim = t[m].split_dim
             /\ IF IsPrefix(m, n)
                THEN /\ u[m].subtree_size = t[m].subtree_size + 1
                     /\ Tight(u[m].bounds, PointsIn(t, Under(t, m)) \cup {p})
                ELSE u[m] = t[m]
  <2>1. CASE IsPrefix(m, n)
    BY <1>6, <1>7, <2>1
  <2>2. CASE ~ IsPrefix(m, n)
    BY <1>7, <1>8, <2>2
  <2> QED BY <2>1, <2>2
<1> USE DEF n, u
<1> QED BY <1>5, <1>7, <1>9

\* An insertion keeps the tree sound, with one point more.
LEMMA InsertSound ==
  ASSUME NEW t, Sound(t, <<>>), Cardinality(DOMAIN t) < MaxSize,
         NEW p \in Points, NEW id \in 1..MaxSize
  PROVE  LET u == insert_recursive(t, p, id)
         IN /\ Sound(u, <<>>) /\ Cardinality(DOMAIN u) = Cardinality(DOMAIN t) + 1
            /\ PointsIn(u, DOMAIN u) = PointsIn(t, DOMAIN t) \cup {p}
<1> DEFINE n == FreePath(t, p)
           u == insert_recursive(t, p, id)
<1>1. TreeType(t) /\ Rooted(t, <<>>) /\ Measured(t) /\ Sorted(t) /\ p \in Point
  BY Constants DEF Sound
<1>2. Cardinality(DOMAIN t) \in Nat /\ MaxSize \in Nat /\ IsFiniteSet(DOMAIN t)
  BY <1>1, Constants, FS_CardinalityType DEF TreeType
<1>3. n \in Seq(Side) /\ n \notin DOMAIN t /\ Sides(t, p, n)
  BY <1>1, <1>2, FreeWay
<1>4. /\ u = [m \in DOMAIN u |-> u[m]] /\ DOMAIN u = DOMAIN t \cup {n}
      /\ u[n] \in Fork /\ u[n].point = p /\ u[n].subtree_size = 1 /\ Tight(u[n].bounds, {p})
      /\ \A m \in DOMAIN t :
           /\ u[m] \in Fork /\ u[m].point = t[m].point /\ u[m].split_dim = t[m].split_dim
           /\ IF IsPrefix(m, n)
              THEN /\ u[m].subtree_size = t[m].subtree_size + 1
                   /\ Tight(u[m].bounds, PointsIn(t, Under(t, m)) \cup {p})
              ELSE u[m] = t[m]
  BY InsertEffect
<1> HIDE DEF n, u
<1>5. DOMAIN t \subseteq Seq(Side)
  BY <1>1 DEF TreeType
<1>6. TreeType(u)
  <2>1. IsFiniteSet(DOMAIN u)
    BY <1>2, <1>4, FS_AddElement
  <2> QED BY <1>3, <1>4, <1>5, <2>1 DEF TreeType
<1>7. \A m \in DOMAIN t : ~ IsPrefix(n, m)
  <2> SUFFICES ASSUME NEW m \in DOMAIN t, IsPrefix(n, m) PROVE FALSE
    OBVIOUS
  <2>1. IsPrefix(<<>>, n)
    BY <1>3, PrefixOrder
  <2> QED BY <1>1, <1>3, <2>1 DEF Rooted
<1>8. Rooted(u, <<>>)
  <2> SUFFICES ASSUME NEW m \in DOMAIN u
               PROVE  /\ IsPrefix(<<>>, m)
                      /\ \A a \in Seq(Side) : IsPrefix(<<>>, a) /\ IsPrefix(a, m) => a \in DOMAIN u
    BY DEF Rooted
  <2>1. IsPrefix(<<>>, m)
    BY <1>3, <1>4, <1>5, PrefixOrder
  <2>2. ASSUME NEW a \in Seq(Side), IsPrefix(<<>>, a), IsPrefix(a, m)
        PROVE  a \in DOMAIN u
    <3>1. CASE m = n
      BY <1>3, <1>4, <2>2, <3>1 DEF Sides
    <3>2. CASE m \in DOMAIN t
      BY <1>1, <1>4, <2>2, <3>2 DEF Rooted
    <3> QED BY <1>4, <3>1, <3>2
  <2> QED BY <2>1, <2>2
<1>9. \A M \in SUBSET DOMAIN t : PointsIn(u, M) = PointsIn(t, M) /\ PointsIn(u, M \cup {n}) = PointsIn(t, M) \cup {p}
  <2> SUFFICES ASSUME NEW M \in SUBSET DOMAIN t
               PROVE  PointsIn(u, M) = PointsIn(t, M) /\ PointsIn(u, M \cup {n}) = PointsIn(t, M) \cup {p}
    OBVIOUS
  <2>1. \A m \in M : u[m].point = t[m].point
    BY <1>4
  <2>2. PointsIn(u, M) = PointsIn(t, M)
    BY <2>1 DEF PointsIn
  <2>3. PointsIn(u, M \cup {n}) = PointsIn(u, M) \cup {u[n].point}
    BY DEF PointsIn
  <2> QED BY <1>4, <2>2, <2>3
<1>10. Measured(u)
  <2> SUFFICES ASSUME NEW m \in DOMAIN u
               PROVE  /\ Tight(u[m].bounds, PointsIn(u, Under(u, m)))
                      /\ u[m].subtree_size = Cardinality(Under(u, m))
    BY DEF Measured
  <2>1. CASE m = n
    <3>1. Under(u, m) = {n} /\ PointsIn(u, {n}) = {p}
      BY <1>3, <1>4, <1>7, <2>1, PrefixOrder DEF Under, PointsIn
    <3> QED BY <1>4, <2>1, <3>1, FS_Singleton
  <2>2. CASE m \in DOMAIN t /\ IsPrefix(m, n)
    <3>1. Under(u, m) = Under(t, m) \cup {n}
      BY <1>4, <2>2 DEF Under
    <3>2. Under(t, m) \in SUBSET DOMAIN t
      BY DEF Under
    <3>3. IsFiniteSet(Under(t, m)) /\ n \notin Under(t, m)
      BY <1>2, <1>3, <3>2, FS_Subset
    <3>4. Cardinality(Under(u, m)) = Cardinality(Under(t, m)) + 1
      BY <3>1, <3>3, FS_AddElement
    <3>5. t[m].subtree_size = Cardinality(Under(t, m))
      BY <1>1, <2>2 DEF Measured
    <3>6. PointsIn(u, Under(u, m)) = PointsIn(t, Under(t, m)) \cup {p}
      BY <1>9, <3>1, <3>2
    <3> QED BY <1>4, <2>2, <3>4, <3>5, <3>6
  <2>3. CASE m \in DOMAIN t /\ ~ IsPrefix(m, n)
    <3>1. Under(u, m) = Under(t, m) /\ Under(t, m) \in SUBSET DOMAIN t
      BY <1>4, <2>3 DEF Under
    <3>2. PointsIn(u, Under(u, m)) = PointsIn(t, Under(t, m))
      BY <1>9, <3>1
    <3> QED BY <1>1, <1>4, <2>3, <3>1, <3>2 DEF Measured
  <2> QED BY <1>4, <2>1, <2>2, <2>3
<1>11. Sorted(u)
  <2> SUFFICES ASSUME NEW a \in DOMAIN u, NEW b \in DOMAIN u, NEW s \in Side, IsPrefix(Append(a, s), b)
               PROVE  OnSide(u[a], s, u[b].point)
    BY DEF Sorted
  <2>1. a \in Seq(Side) /\ b \in Seq(Side)
    BY <1>3, <1>4, <1>5
  <2>2. IsPrefix(a, b) /\ a # b
    BY <2>1, PrefixSides
  <2>3. a \in DOMAIN t
    BY <1>4, <1>7, <2>2
  <2>4. CASE b \in DOMAIN t
    <3>1. OnSide(t[a], s, t[b].point)
      BY <1>1, <2>3, <2>4 DEF Sorted
    <3>2. u[a].point = t[a].point /\ u[a].split_dim = t[a].split_dim /\ u[b].point = t[b].point
      BY <1>4, <2>3, <2>4
    <3> QED BY <3>1, <3>2 DEF OnSide
  <2>5. CASE b = n
    <3>1. IsPrefix(Append(a, SideOf(t[a], p)), b) /\ SideOf(t[a], p) \in Side
      BY <1>3, <2>1, <2>2, <2>5 DEF Sides, SideOf, Side
    <3>2. s = SideOf(t[a], p)
      BY <2>1, <3>1, PrefixSides
    <3>3. u[a].point = t[a].point /\ u[a].split_dim = t[a].split_dim /\ u[b].point = p
      BY <1>4, <2>3, <2>5
    <3>4. t[a].point \in Point /\ t[a].split_dim \in {0, 1}
      BY <1>1, <2>3, ForkTypes
    <3>5. Coordinate(p, t[a].split_dim) \in Int /\ Coordinate(t[a].point, t[a].split_dim) \in Int
      BY <1>1, <3>4, Corners DEF Coordinate
    <3> QED BY <3>2, <3>3, <3>5 DEF OnSide, SideOf, Left, Right
  <2> QED BY <1>4, <2>4, <2>5
<1>12. Cardinality(DOMAIN u) = Cardinality(DOMAIN t) + 1
  BY <1>2, <1>3, <1>4, FS_AddElement
<1>13. PointsIn(u, DOMAIN u) = PointsIn(t, DOMAIN t) \cup {p}
  BY <1>4, <1>9
<1>14. Sound(u, <<>>)
  BY <1>6, <1>8, <1>10, <1>11 DEF Sound
<1> QED BY <1>12, <1>13, <1>14 DEF u

-----------------------------------------------------------------------------
\* A node over its subtrees.

LEMMA SideValues == Left \in Side /\ Right \in Side /\ Left # Right /\ \A s \in Side : s = Left \/ s = Right
  BY DEF Side, Left, Right

\* All of a tree is under its root.
LEMMA UnderRoot ==
  ASSUME NEW n \in Seq(Side), NEW t, Sound(t, n)
  PROVE  IF n \in DOMAIN t THEN Under(t, n) = DOMAIN t ELSE DOMAIN t = {}
<1>1. DOMAIN t \subseteq Seq(Side) /\ \A m \in DOMAIN t : IsPrefix(n, m)
  BY DEF Sound, TreeType, Rooted
<1>2. \A m \in DOMAIN t : n \in DOMAIN t
  <2> SUFFICES ASSUME NEW m \in DOMAIN t PROVE n \in DOMAIN t
    OBVIOUS
  <2>1. IsPrefix(n, n)
    BY PrefixOrder
  <2> QED BY <1>1, <2>1 DEF Sound, Rooted
<1> QED BY <1>1, <1>2 DEF Under

LEMMA ExpandedTight ==
  ASSUME NEW n \in Seq(Side), NEW t, Sound(t, n), NEW b, NEW Q \in SUBSET Point, Tight(b, Q)
  PROVE  /\ Tight(Expanded(b, n, t), Q \cup PointsIn(t, DOMAIN t))
         /\ PointsIn(t, DOMAIN t) \in SUBSET Point
         /\ SizeAt(n, t) = Cardinality(DOMAIN t)
<1>1. TreeType(t) /\ Measured(t)
  BY DEF Sound
<1>2. PointsIn(t, DOMAIN t) \in SUBSET Point
  BY <1>1, ForkTypes DEF PointsIn
<1>3. CASE n \in DOMAIN t
  <2>1. Under(t, n) = DOMAIN t
    BY <1>3, UnderRoot
  <2>2. Tight(t[n].bounds, PointsIn(t, DOMAIN t)) /\ t[n].subtree_size = Cardinality(DOMAIN t)
    BY <1>1, <1>3, <2>1 DEF Measured
  <2>3. Expanded(b, n, t) = mbr_expand_mbr(b, t[n].bounds) /\ SizeAt(n, t) = t[n].subtree_size
    BY <1>3 DEF Expanded, SizeAt
  <2>4. Tight(mbr_expand_mbr(b, t[n].bounds), Q \cup PointsIn(t, DOMAIN t))
    BY <1>2, <2>2, TightJoin
  <2> QED BY <1>2, <2>2, <2>3, <2>4
<1>4. CASE n \notin DOMAIN t
  <2>1. DOMAIN t = {}
    BY <1>4, UnderRoot
  <2>2. PointsIn(t, DOMAIN t) = {} /\ Cardinality(DOMAIN t) = 0
    BY <2>1, FS_EmptySet DEF PointsIn
  <2> QED BY <1>4, <2>2 DEF Expanded, SizeAt
<1> QED BY <1>3, <1>4

\* The subtrees of the two sides, apart from each other.
LEMMA SidesApart ==
  ASSUME NEW n \in Seq(Side), NEW w, \A s \in Side : Sound(w[s], Append(n, s)),
         NEW s \in Side, NEW m \in DOMAIN w[s]
  PROVE  /\ m \in Seq(Side) /\ m # n /\ IsPrefix(n, m) /\ ~ IsPrefix(m, n) /\ IsPrefix(Append(n, s), m)
         /\ \A u \in Side : IsPrefix(Append(n, u), m) => u = s
         /\ \A u \in Side : u # s => \A b \in DOMAIN w[u] : b # m /\ ~ IsPrefix(m, b)
<1>1. \A u \in Side : \A b \in DOMAIN w[u] : b \in Seq(Side) /\ IsPrefix(Append(n, u), b)
  BY DEF Sound, TreeType, Rooted
<1>2. m \in Seq(Side) /\ m # n /\ IsPrefix(n, m) /\ IsPrefix(Append(n, s), m)
  BY <1>1, PrefixSides
<1>3. ~ IsPrefix(m, n)
  BY <1>2, PrefixOrder
<1>4. \A u \in Side : IsPrefix(Append(n, u), m) => u = s
  BY <1>2, PrefixSides
<1>5. ASSUME NEW u \in Side, u # s, NEW b \in DOMAIN w[u]
      PROVE  b # m /\ ~ IsPrefix(m, b)
  <2>1. ~ IsPrefix(Append(n, s), b)
    BY <1>1, <1>5, PrefixSides
  <2>2. Append(n, s) \in Seq(Side) /\ b \in Seq(Side)
    BY <1>1, PrefixSides
  <2> QED BY <1>2, <2>1, <2>2, PrefixOrder
<1> QED BY <1>2, <1>3, <1>4, <1>5

LEMMA OverEffect ==
  ASSUME NEW n \in Seq(Side), NEW c \in Fork, NEW w, \A s \in Side : Sound(w[s], Append(n, s)),
         c.point \in Points, Tight(c.bounds, {c.point}), c.subtree_size = 1
  PROVE  LET u == Over(c, n, w[Left], w[Right])
             L == DOMAIN w[Left]
             R == DOMAIN w[Right]
         IN /\ u = [m \in DOMAIN u |-> u[m]] /\ DOMAIN u = {n} \cup L \cup R
            /\ \A s \in Side : \A m \in DOMAIN w[s] : u[m] = w[s][m]
            /\ u[n] \in Fork /\ u[n].point = c.point /\ u[n].split_dim = c.split_dim
            /\ Tight(u[n].bounds, {c.point} \cup PointsIn(w[Left], L) \cup PointsIn(w[Right], R))
            /\ u[n].subtree_size = Cardinality(L) + Cardinality(R) + 1
<1> DEFINE l == w[Left]
           r == w[Right]
           u == Over(c, n, l, r)
           b == Expanded(Expanded(c.bounds, Append(n, Left), l), Append(n, Right), r)
           k == c.subtree_size + SizeAt(Append(n, Left), l) + SizeAt(Append(n, Right), r)
           g == kdnode_update_bounds(c, n, l, r)
<1>1. /\ Sound(l, Append(n, Left)) /\ Sound(r, Append(n, Right))
      /\ Append(n, Left) \in Seq(Side) /\ Append(n, Right) \in Seq(Side)
  BY SideValues, PrefixSides
<1>2. /\ IsFiniteSet(DOMAIN l) /\ IsFiniteSet(DOMAIN r)
      /\ Cardinality(DOMAIN l) \in Nat /\ Cardinality(DOMAIN r) \in Nat
  BY <1>1, FS_CardinalityType DEF Sound, TreeType
<1>3. c.point \in Point /\ {c.point} \in SUBSET Point
  BY Constants
<1>4. /\ Tight(Expanded(c.bounds, Append(n, Left), l), {c.point} \cup PointsIn(l, DOMAIN l))
      /\ {c.point} \cup PointsIn(l, DOMAIN l) \in SUBSET Point
      /\ SizeAt(Append(n, Left), l) = Cardinality(DOMAIN l)
  <2>1. /\ Tight(Expanded(c.bounds, Append(n, Left), l), {c.point} \cup PointsIn(l, DOMAIN l))
        /\ PointsIn(l, DOMAIN l) \in SUBSET Point
        /\ SizeAt(Append(n, Left), l) = Cardinality(DOMAIN l)
    <3> HIDE DEF l
    <3> QED BY <1>1, <1>3, ExpandedTight
  <2> QED BY <1>3, <2>1
<1>5. /\ Tight(b, ({c.point} \cup PointsIn(l, DOMAIN l)) \cup PointsIn(r, DOMAIN r))
      /\ SizeAt(Append(n, Right), r) = Cardinality(DOMAIN r)
  BY <1>1, <1>4, ExpandedTight
<1>6. k = Cardinality(DOMAIN l) + Cardinality(DOMAIN r) + 1 /\ k \in Nat
  BY <1>2, <1>4, <1>5
<1>7. b \in MBR
  BY <1>5 DEF Tight
<1>8. g = [c EXCEPT !.bounds = b, !.subtree_size = k]
  BY DEF kdnode_update_bounds, Fork
<1> HIDE DEF b, k, g
<1>9. g \in Fork /\ g.point = c.point /\ g.split_dim = c.split_dim /\ g.bounds = b /\ g.subtree_size = k
  BY <1>6, <1>7, <1>8 DEF Fork
<1>10. u = [m \in {n} \cup DOMAIN l \cup DOMAIN r |->
              IF m \in DOMAIN l THEN l[m] ELSE IF m \in DOMAIN r THEN r[m] ELSE g]
  BY DEF Over, g
<1>11. n \notin DOMAIN l /\ n \notin DOMAIN r /\ \A m \in DOMAIN r : m \notin DOMAIN l
  BY SideValues, SidesApart
<1> HIDE DEF u
<1>12. /\ u = [m \in DOMAIN u |-> u[m]] /\ DOMAIN u = {n} \cup DOMAIN l \cup DOMAIN r /\ u[n] = g
       /\ (\A m \in DOMAIN l : u[m] = l[m]) /\ (\A m \in DOMAIN r : u[m] = r[m])
  BY <1>10, <1>11
<1>13. \A s \in Side : \A m \in DOMAIN w[s] : u[m] = w[s][m]
  BY <1>12, SideValues
<1>14. Tight(u[n].bounds, {c.point} \cup PointsIn(l, DOMAIN l) \cup PointsIn(r, DOMAIN r))
  BY <1>5, <1>9, <1>12
<1> QED BY <1>6, <1>9, <1>12, <1>13, <1>14 DEF u

\* Sorted, sound subtrees make a sound tree.
LEMMA OverSound ==
  ASSUME NEW n \in Seq(Side), NEW c \in Fork, NEW w, \A s \in Side : Sound(w[s], Append(n, s)),
         c.point \in Points, Tight(c.bounds, {c.point}), c.subtree_size = 1,
         \A s \in Side : \A m \in DOMAIN w[s] : OnSide(c, s, w[s][m].point)
  PROVE  LET u == Over(c, n, w[Left], w[Right])
             L == DOMAIN w[Left]
             R == DOMAIN w[Right]
         IN /\ Sound(u, n)
            /\ Cardinality(DOMAIN u) = Cardinality(L) + Cardinality(R) + 1
            /\ PointsIn(u, DOMAIN u) = {c.point} \cup PointsIn(w[Left], L) \cup PointsIn(w[Right], R)
<1> DEFINE L == DOMAIN w[Left]
           R == DOMAIN w[Right]
           u == Over(c, n, w[Left], w[Right])
<1>1. /\ u = [m \in DOMAIN u |-> u[m]] /\ DOMAIN u = {n} \cup L \cup R
      /\ \A s \in Side : \A m \in DOMAIN w[s] : u[m] = w[s][m]
      /\ u[n] \in Fork /\ u[n].point = c.point /\ u[n].split_dim = c.split_dim
      /\ Tight(u[n].bounds, {c.point} \cup PointsIn(w[Left], L) \cup PointsIn(w[Right], R))
      /\ u[n].subtree_size = Cardinality(L) + Cardinality(R) + 1
  BY OverEffect
<1> HIDE DEF u, L, R
<1>2. \A s \in Side : TreeType(w[s]) /\ Rooted(w[s], Append(n, s)) /\ Measured(w[s]) /\ Sorted(w[s])
  BY DEF Sound
<1>3. \A m \in DOMAIN u : m # n => \E s \in Side : m \in DOMAIN w[s]
  BY <1>1, SideValues DEF L, R
<1>4. \A s \in Side : DOMAIN w[s] \subseteq DOMAIN u
  BY <1>1, SideValues DEF L, R
<1>5. \A s \in Side : \A m \in DOMAIN w[s] : m \in Seq(Side) /\ m # n /\ IsPrefix(n, m)
  BY SidesApart
<1>6. IsFiniteSet(L) /\ IsFiniteSet(R) /\ n \notin L /\ n \notin R /\ L \cap R = {}
  <2>1. n \notin L /\ n \notin R
    BY <1>5, SideValues DEF L, R
  <2>2. \A m \in L : m \notin R
    BY SideValues, SidesApart DEF L, R
  <2> QED BY <1>2, <2>1, <2>2, SideValues DEF TreeType, L, R
<1>7. TreeType(u)
  <2>1. DOMAIN u \subseteq Seq(Side)
    BY <1>3, <1>5
  <2>2. IsFiniteSet(L \cup R)
    BY <1>6, FS_Union
  <2>5. DOMAIN u = (L \cup R) \cup {n}
    BY <1>1
  <2>3. IsFiniteSet(DOMAIN u)
    BY <2>2, <2>5, FS_AddElement
  <2>4. \A m \in DOMAIN u : u[m] \in Fork
    BY <1>1, <1>2, <1>3 DEF TreeType
  <2> QED BY <1>1, <2>1, <2>3, <2>4 DEF TreeType
<1>8. Cardinality(DOMAIN u) = Cardinality(L) + Cardinality(R) + 1
  <2>1. Cardinality(L \cap R) = 0
    BY <1>6, FS_EmptySet
  <2>2. Cardinality(L) \in Nat /\ Cardinality(R) \in Nat
    BY <1>6, FS_CardinalityType
  <2>3. IsFiniteSet(L \cup R) /\ Cardinality(L \cup R) = Cardinality(L) + Cardinality(R) - Cardinality(L \cap R)
    BY <1>6, FS_Union
  <2>4. Cardinality((L \cup R) \cup {n}) = Cardinality(L \cup R) + 1
    BY <1>6, <2>3, FS_AddElement
  <2>5. DOMAIN u = (L \cup R) \cup {n}
    BY <1>1
  <2> QED BY <2>1, <2>2, <2>3, <2>4, <2>5
<1>9. PointsIn(u, DOMAIN u) = {c.point} \cup PointsIn(w[Left], L) \cup PointsIn(w[Right], R)
  <2>1. \A m \in L : u[m] = w[Left][m]
    BY <1>1, SideValues DEF L
  <2>2. \A m \in R : u[m] = w[Right][m]
    BY <1>1, SideValues DEF R
  <2> QED BY <1>1, <2>1, <2>2 DEF PointsIn
<1>10. ASSUME NEW s \in Side, NEW m \in DOMAIN w[s]
       PROVE  Under(u, m) = Under(w[s], m)
  <2>1. \A b \in DOMAIN u : IsPrefix(m, b) => b \in DOMAIN w[s]
    <3> SUFFICES ASSUME NEW b \in DOMAIN u, IsPrefix(m, b) PROVE b \in DOMAIN w[s]
      OBVIOUS
    <3>1. ~ IsPrefix(m, n)
      BY SidesApart
    <3>2. PICK v \in Side : b \in DOMAIN w[v]
      BY <1>3, <3>1
    <3>3. v = s
      BY <3>2, SidesApart
    <3> QED BY <3>2, <3>3
  <2> QED BY <1>4, <2>1 DEF Under
<1>11. Rooted(u, n)
  <2> SUFFICES ASSUME NEW m \in DOMAIN u
               PROVE  /\ IsPrefix(n, m)
                      /\ \A p \in Seq(Side) : IsPrefix(n, p) /\ IsPrefix(p, m) => p \in DOMAIN u
    BY DEF Rooted
  <2>1. m \in Seq(Side) /\ IsPrefix(n, m)
    BY <1>3, <1>5, PrefixOrder
  <2>2. ASSUME NEW p \in Seq(Side), IsPrefix(n, p), IsPrefix(p, m), p # n
        PROVE  p \in DOMAIN u
    <3>1. m # n
      BY <2>2, PrefixOrder
    <3>2. PICK s \in Side : m \in DOMAIN w[s]
      BY <1>3, <3>1
    <3>3. PICK v \in Side : IsPrefix(Append(n, v), p)
      BY <2>2, PrefixSides
    <3>4. Append(n, v) \in Seq(Side)
      BY PrefixSides
    <3>5. IsPrefix(Append(n, v), m)
      BY <2>1, <2>2, <3>3, <3>4, PrefixOrder
    <3>6. v = s
      BY <3>2, <3>5, SidesApart
    <3>7. p \in DOMAIN w[s]
      BY <1>2, <2>2, <3>2, <3>3, <3>6 DEF Rooted
    <3> QED BY <1>4, <3>7
  <2> QED BY <1>1, <2>1, <2>2
<1>12. Measured(u)
  <2> SUFFICES ASSUME NEW m \in DOMAIN u
               PROVE  /\ Tight(u[m].bounds, PointsIn(u, Under(u, m)))
                      /\ u[m].subtree_size = Cardinality(Under(u, m))
    BY DEF Measured
  <2>1. CASE m = n
    <3>1. Under(u, n) = DOMAIN u
      BY <1>11 DEF Rooted, Under
    <3> QED BY <1>1, <1>8, <1>9, <2>1, <3>1
  <2>2. CASE m # n
    <3>1. PICK s \in Side : m \in DOMAIN w[s]
      BY <1>3, <2>2
    <3>2. Under(u, m) = Under(w[s], m) /\ u[m] = w[s][m]
      BY <1>1, <1>10, <3>1
    <3>3. \A b \in Under(w[s], m) : u[b] = w[s][b]
      BY <1>1 DEF Under
    <3>4. PointsIn(u, Under(u, m)) = PointsIn(w[s], Under(w[s], m))
      BY <3>2, <3>3 DEF PointsIn
    <3> QED BY <1>2, <3>1, <3>2, <3>4 DEF Measured
  <2> QED BY <2>1, <2>2
<1>13. Sorted(u)
  <2> SUFFICES ASSUME NEW a \in DOMAIN u, NEW b \in DOMAIN u, NEW s \in Side, IsPrefix(Append(a, s), b)
               PROVE  OnSide(u[a], s, u[b].point)
    BY DEF Sorted
  <2>1. a \in Seq(Side) /\ b \in Seq(Side)
    BY <1>7 DEF TreeType
  <2>2. IsPrefix(a, b) /\ a # b
    BY <2>1, PrefixSides
  <2>3. CASE a = n
    <3>1. PICK v \in Side : b \in DOMAIN w[v]
      BY <1>3, <2>2, <2>3
    <3>2. s = v
      BY <2>3, <3>1, SidesApart
    <3>3. OnSide(c, s, w[s][b].point) /\ u[b] = w[s][b]
      BY <1>1, <3>1, <3>2
    <3> QED BY <1>1, <2>3, <3>3 DEF OnSide
  <2>4. CASE a # n
    <3>1. PICK v \in Side : a \in DOMAIN w[v]
      BY <1>3, <2>4
    <3>2. b \in Under(u, a)
      BY <2>2 DEF Under
    <3>3. b \in DOMAIN w[v]
      BY <1>10, <3>1, <3>2 DEF Under
    <3>4. u[a] = w[v][a] /\ u[b] = w[v][b]
      BY <1>1, <3>1, <3>3
    <3>5. Sorted(w[v])
      BY <1>2
    <3> QED BY <3>1, <3>3, <3>4, <3>5 DEF Sorted
  <2> QED BY <2>3, <2>4
<1>14. Sound(u, n)
  BY <1>7, <1>11, <1>12, <1>13 DEF Sound
<1> QED BY <1>8, <1>9, <1>14 DEF u, L, R

-----------------------------------------------------------------------------
\* A bulk load.

LEMMA MedianParts ==
  ASSUME NEW ps \in Seq(Points), NEW es \in SUBSET DOMAIN ps, NEW dim \in {0, 1},
         NEW m \in Medians(ps, es, dim)
  PROVE  /\ m.e \in es /\ m.before \in SUBSET DOMAIN ps /\ m.after \in SUBSET DOMAIN ps
         /\ es = {m.e} \cup m.before \cup m.after
         /\ Cardinality(es) = Cardinality(m.before) + Cardinality(m.after) + 1
         /\ Cardinality(m.before) < Cardinality(es) /\ Cardinality(m.after) < Cardinality(es)
         /\ \A e \in m.before : Coordinate(ps[e], dim) <= Coordinate(ps[m.e], dim)
         /\ \A e \in m.after : Coordinate(ps[m.e], dim) <= Coordinate(ps[e], dim)
<1>1. /\ m.e \in es /\ m.before \in SUBSET es /\ m.after = es \ (m.before \cup {m.e}) /\ m.e \notin m.before
      /\ \A e \in m.before : Coordinate(ps[e], dim) <= Coordinate(ps[m.e], dim)
      /\ \A e \in m.after : Coordinate(ps[m.e], dim) <= Coordinate(ps[e], dim)
  BY DEF Medians, kSubset
<1>2. DOMAIN ps = 1..Len(ps) /\ Len(ps) \in Nat
  OBVIOUS
<1>3. IsFiniteSet(es)
  <2>1. IsFiniteSet(1..Len(ps))
    BY <1>2, FS_Interval
  <2> QED BY <1>2, <2>1, FS_Subset
<1> DEFINE B == m.before
           A == m.after
<1>4. IsFiniteSet(B) /\ IsFiniteSet(A) /\ Cardinality(B) \in Nat /\ Cardinality(A) \in Nat
  BY <1>1, <1>3, FS_Subset, FS_CardinalityType
<1>5. B \cap A = {} /\ es = (B \cup A) \cup {m.e} /\ m.e \notin B \cup A
  BY <1>1
<1> HIDE DEF A, B
<1>6. Cardinality(B \cap A) = 0
  BY <1>5, FS_EmptySet
<1>7. IsFiniteSet(B \cup A) /\ Cardinality(B \cup A) = Cardinality(B) + Cardinality(A) - Cardinality(B \cap A)
  BY <1>4, FS_Union
<1>8. Cardinality((B \cup A) \cup {m.e}) = Cardinality(B \cup A) + 1
  BY <1>5, <1>7, FS_AddElement
<1>9. Cardinality(es) = Cardinality(B) + Cardinality(A) + 1
  BY <1>4, <1>5, <1>6, <1>7, <1>8
<1>10. Cardinality(B) < Cardinality(es) /\ Cardinality(A) < Cardinality(es)
  BY <1>4, <1>9
<1> QED BY <1>1, <1>5, <1>9, <1>10 DEF A, B

Subtrees(ps, f, es) ==
  [n \in Seq(Side) |->
     IF es = {} THEN {<<>>}
     ELSE UNION {{Over(kdnode_create(ps[m.e], m.e, Len(n) % 2), n, l, r) :
                    l \in f[m.before][Append(n, Left)], r \in f[m.after][Append(n, Right)]} :
                   m \in Medians(ps, es, Len(n) % 2)}]

AllTrees(ps, f) == f = [es \in SUBSET DOMAIN ps |-> Subtrees(ps, f, es)]

\* The subtrees of es depend on those of smaller sets only.
LEMMA SmallerSubtrees ==
  ASSUME NEW ps \in Seq(Points), NEW es \in SUBSET DOMAIN ps, NEW f, NEW g,
         \A s \in SUBSET DOMAIN ps : Cardinality(s) < Cardinality(es) => f[s] = g[s]
  PROVE  Subtrees(ps, f, es) = Subtrees(ps, g, es)
<1> DEFINE Grown(h, n) == UNION {{Over(kdnode_create(ps[m.e], m.e, Len(n) % 2), n, l, r) :
                                    l \in h[m.before][Append(n, Left)],
                                    r \in h[m.after][Append(n, Right)]} :
                                   m \in Medians(ps, es, Len(n) % 2)}
<1>1. ASSUME NEW n \in Seq(Side)
      PROVE  Grown(f, n) = Grown(g, n)
  <2>1. \A m \in Medians(ps, es, Len(n) % 2) : f[m.before] = g[m.before] /\ f[m.after] = g[m.after]
    BY EvenOdd, MedianParts
  <2> DEFINE M == Medians(ps, es, Len(n) % 2)
             Joined(h, m) == {Over(kdnode_create(ps[m.e], m.e, Len(n) % 2), n, l, r) :
                                l \in h[m.before][Append(n, Left)], r \in h[m.after][Append(n, Right)]}
  <2>2. \A m \in M : Joined(f, m) = Joined(g, m)
    BY <2>1
  <2>3. Grown(f, n) = UNION {Joined(f, m) : m \in M} /\ Grown(g, n) = UNION {Joined(g, m) : m \in M}
    OBVIOUS
  <2> HIDE DEF Joined, M, Grown
  <2>4. {Joined(f, m) : m \in M} = {Joined(g, m) : m \in M}
    BY <2>2
  <2> QED BY <2>3, <2>4
<1>2. \A h : Subtrees(ps, h, es) = [n \in Seq(Side) |-> IF es = {} THEN {<<>>} ELSE Grown(h, n)]
  BY DEF Subtrees
<1> HIDE DEF Grown
<1> QED BY <1>1, <1>2

\* The function that build_tree_recursive defines exists.
LEMMA TreesExist ==
  ASSUME NEW ps \in Seq(Points)
  PROVE  \E f : AllTrees(ps, f)
<1> DEFINE D == SUBSET DOMAIN ps
           T == {k \in Nat : \E f : \A es \in D : Cardinality(es) < k => f[es] = Subtrees(ps, f, es)}
<1>1. Len(ps) \in Nat /\ DOMAIN ps = 1..Len(ps) /\ IsFiniteSet(DOMAIN ps) /\ Cardinality(DOMAIN ps) = Len(ps)
  <2>1. Len(ps) \in Nat /\ DOMAIN ps = 1..Len(ps)
    OBVIOUS
  <2>2. IsFiniteSet(1..Len(ps)) /\ Cardinality(1..Len(ps)) = Len(ps)
    BY <2>1, FS_Interval
  <2> QED BY <2>1, <2>2
<1>2. \A es \in D : Cardinality(es) \in Nat /\ Cardinality(es) < Len(ps) + 1
  <2> SUFFICES ASSUME NEW es \in D PROVE Cardinality(es) \in Nat /\ Cardinality(es) < Len(ps) + 1
    OBVIOUS
  <2>1. IsFiniteSet(es) /\ Cardinality(es) <= Cardinality(DOMAIN ps)
    BY <1>1, FS_Subset
  <2>2. Cardinality(es) \in Nat
    BY <2>1, FS_CardinalityType
  <2> QED BY <1>1, <2>1, <2>2
<1>3. 0 \in T
  BY <1>2
<1>4. ASSUME NEW k \in Nat, k \in T
      PROVE  k + 1 \in T
  <2>1. PICK f : \A es \in D : Cardinality(es) < k => f[es] = Subtrees(ps, f, es)
    BY <1>4
  <2> DEFINE g == [es \in D |-> IF Cardinality(es) < k THEN f[es] ELSE Subtrees(ps, f, es)]
  <2>2. \A es \in D : g[es] = Subtrees(ps, f, es)
    BY <2>1
  <2>3. \A es \in D : Cardinality(es) < k => f[es] = g[es]
    OBVIOUS
  <2> HIDE DEF g
  <2>4. ASSUME NEW es \in D, Cardinality(es) < k + 1
        PROVE  g[es] = Subtrees(ps, g, es)
    <3>1. \A s \in D : Cardinality(s) < Cardinality(es) => f[s] = g[s]
      <4> SUFFICES ASSUME NEW s \in D, Cardinality(s) < Cardinality(es) PROVE f[s] = g[s]
        OBVIOUS
      <4>1. Cardinality(s) < k
        BY <1>2, <2>4
      <4> QED BY <2>3, <4>1
    <3>2. Subtrees(ps, f, es) = Subtrees(ps, g, es)
      BY <3>1, SmallerSubtrees
    <3> QED BY <2>2, <3>2
  <2> QED BY <2>4
<1>5. Len(ps) + 1 \in T
  <2> HIDE DEF T
  <2>1. Nat \subseteq T
    BY <1>3, <1>4, InductiveSet
  <2> QED BY <1>1, <2>1
<1>6. PICK f : \A es \in D : Cardinality(es) < Len(ps) + 1 => f[es] = Subtrees(ps, f, es)
  BY <1>5
<1> DEFINE g == [es \in D |-> f[es]]
<1>7. \A es \in D : g[es] = Subtrees(ps, f, es) /\ g[es] = f[es]
  BY <1>2, <1>6
<1> HIDE DEF g
<1>8. \A es \in D : Subtrees(ps, f, es) = Subtrees(ps, g, es)
  BY <1>7, SmallerSubtrees
<1>9. g = [es \in D |-> Subtrees(ps, g, es)]
  <2>1. g = [es \in D |-> g[es]]
    BY DEF g
  <2>2. \A es \in D : g[es] = Subtrees(ps, g, es)
    BY <1>7, <1>8
  <2> QED BY <2>1, <2>2
<1> QED BY <1>9 DEF AllTrees

LEMMA BuildTree ==
  ASSUME NEW ps \in Seq(Points)
  PROVE  \E f : AllTrees(ps, f) /\ build_tree_recursive(ps) = f[DOMAIN ps][<<>>]
<1> DEFINE built == CHOOSE f : AllTrees(ps, f)
<1>1. AllTrees(ps, built)
  BY TreesExist
<1>2. build_tree_recursive(ps) = built[DOMAIN ps][<<>>]
  BY DEF build_tree_recursive, AllTrees, Subtrees
<1> QED BY <1>1, <1>2

\* Every tree that a bulk load can build is sound and holds the points.
LEMMA BuildSound ==
  ASSUME NEW ps \in Seq(Points), Len(ps) <= MaxSize, NEW t \in build_tree_recursive(ps)
  PROVE  /\ Sound(t, <<>>) /\ Cardinality(DOMAIN t) = Len(ps)
         /\ PointsIn(t, DOMAIN t) = {ps[e] : e \in DOMAIN ps}
<1> DEFINE Holds(u, n, es) == /\ Sound(u, n) /\ Cardinality(DOMAIN u) = Cardinality(es)
                              /\ PointsIn(u, DOMAIN u) = {ps[e] : e \in es}
           D == SUBSET DOMAIN ps
<1>1. PICK f : AllTrees(ps, f) /\ build_tree_recursive(ps) = f[DOMAIN ps][<<>>]
  BY BuildTree
<1> DEFINE T == {k \in Nat : \A es \in D : Cardinality(es) < k =>
                   \A n \in Seq(Side) : \A u \in f[es][n] : Holds(u, n, es)}
<1>2. Len(ps) \in Nat /\ DOMAIN ps = 1..Len(ps) /\ IsFiniteSet(DOMAIN ps) /\ Cardinality(DOMAIN ps) = Len(ps)
  <2>1. Len(ps) \in Nat /\ DOMAIN ps = 1..Len(ps)
    OBVIOUS
  <2>2. IsFiniteSet(1..Len(ps)) /\ Cardinality(1..Len(ps)) = Len(ps)
    BY <2>1, FS_Interval
  <2> QED BY <2>1, <2>2
<1>3. \A es \in D : IsFiniteSet(es) /\ Cardinality(es) \in Nat
  BY <1>2, FS_Subset, FS_CardinalityType
<1>4. \A e \in DOMAIN ps : ps[e] \in Points /\ ps[e] \in Point /\ e \in 1..MaxSize
  BY <1>2, Constants
<1>5. 0 \in T
  BY <1>3
<1>6. ASSUME NEW k \in Nat, k \in T
      PROVE  k + 1 \in T
  <2> SUFFICES ASSUME NEW es \in D, Cardinality(es) < k + 1, NEW n \in Seq(Side), NEW u \in f[es][n]
               PROVE  Holds(u, n, es)
    OBVIOUS
  <2>1. f[es][n] = IF es = {} THEN {<<>>}
                   ELSE UNION {{Over(kdnode_create(ps[m.e], m.e, Len(n) % 2), n, l, r) :
                                  l \in f[m.before][Append(n, Left)],
                                  r \in f[m.after][Append(n, Right)]} :
                                 m \in Medians(ps, es, Len(n) % 2)}
    <3>1. f[es] = Subtrees(ps, f, es)
      BY <1>1 DEF AllTrees
    <3> DEFINE Grown(v) ==
                 IF es = {} THEN {<<>>}
                 ELSE UNION {{Over(kdnode_create(ps[m.e], m.e, Len(v) % 2), v, l, r) :
                                l \in f[m.before][Append(v, Left)],
                                r \in f[m.after][Append(v, Right)]} :
                               m \in Medians(ps, es, Len(v) % 2)}
    <3>2. Subtrees(ps, f, es) = [v \in Seq(Side) |-> Grown(v)]
      BY DEF Subtrees
    <3> HIDE DEF Grown
    <3>3. f[es][n] = Grown(n)
      BY <3>1, <3>2
    <3> QED BY <3>3 DEF Grown
  <2>2. CASE es = {}
    <3>1. u = <<>> /\ DOMAIN u = {}
      BY <2>1, <2>2
    <3>2. Sound(u, n)
      <4>1. TreeType(u)
        BY <3>1, FS_EmptySet DEF TreeType
      <4> QED BY <3>1, <4>1 DEF Sound, Rooted, Measured, Sorted
    <3>3. Cardinality(DOMAIN u) = Cardinality(es)
      BY <2>2, <3>1
    <3>4. PointsIn(u, DOMAIN u) = {ps[e] : e \in es}
      BY <2>2, <3>1 DEF PointsIn
    <3> QED BY <3>2, <3>3, <3>4
  <2>3. CASE es # {}
    <3> DEFINE dim == Len(n) % 2
    <3>1. dim \in {0, 1}
      BY EvenOdd
    <3> HIDE DEF dim
    <3>2. PICK m \in Medians(ps, es, dim) :
            \E l \in f[m.before][Append(n, Left)], r \in f[m.after][Append(n, Right)] :
              u = Over(kdnode_create(ps[m.e], m.e, dim), n, l, r)
      BY <2>1, <2>3 DEF dim
    <3>3. PICK l \in f[m.before][Append(n, Left)], r \in f[m.after][Append(n, Right)] :
            u = Over(kdnode_create(ps[m.e], m.e, dim), n, l, r)
      BY <3>2
    <3>4. /\ m.e \in es /\ m.before \in D /\ m.after \in D
          /\ es = {m.e} \cup m.before \cup m.after
          /\ Cardinality(es) = Cardinality(m.before) + Cardinality(m.after) + 1
          /\ Cardinality(m.before) < Cardinality(es) /\ Cardinality(m.after) < Cardinality(es)
          /\ \A e \in m.before : Coordinate(ps[e], dim) <= Coordinate(ps[m.e], dim)
          /\ \A e \in m.after : Coordinate(ps[m.e], dim) <= Coordinate(ps[e], dim)
      BY <3>1, MedianParts
    <3>5. Append(n, Left) \in Seq(Side) /\ Append(n, Right) \in Seq(Side)
      BY SideValues, PrefixSides
    <3>6. Holds(l, Append(n, Left), m.before) /\ Holds(r, Append(n, Right), m.after)
      <4>1. Cardinality(m.before) < k /\ Cardinality(m.after) < k
        BY <1>3, <3>4
      <4> HIDE DEF Holds
      <4> QED BY <1>6, <3>3, <3>4, <3>5, <4>1
    <3> DEFINE c == kdnode_create(ps[m.e], m.e, dim)
               w == [s \in Side |-> IF s = Left THEN l ELSE r]
    <3>7. /\ c \in Fork /\ c.point = ps[m.e] /\ c.split_dim = dim /\ c.subtree_size = 1
          /\ c.point \in Points /\ Tight(c.bounds, {c.point})
      <4> DEFINE p == ps[m.e]
                 id == m.e
      <4>1. p \in Points /\ id \in 1..MaxSize /\ c = kdnode_create(p, id, dim)
        BY <1>4, <3>4
      <4> HIDE DEF c, p, id
      <4>2. /\ c \in Fork /\ c.point = p /\ c.split_dim = dim /\ c.subtree_size = 1
            /\ Tight(c.bounds, {p})
        BY <3>1, <4>1, NewNode
      <4> QED BY <4>1, <4>2 DEF p
    <3>8. w[Left] = l /\ w[Right] = r
      BY SideValues
    <3> HIDE DEF w, c
    <3>9. \A s \in Side : Sound(w[s], Append(n, s))
      BY <3>6, <3>8, SideValues
    <3>10. ASSUME NEW s \in Side, NEW b \in DOMAIN w[s]
           PROVE  OnSide(c, s, w[s][b].point)
      <4>1. CASE s = Left
        <5>1. w[s][b].point \in {ps[e] : e \in m.before}
          BY <3>6, <3>8, <4>1 DEF PointsIn
        <5> QED BY <3>4, <3>7, <4>1, <5>1 DEF OnSide
      <4>2. CASE s = Right
        <5>1. w[s][b].point \in {ps[e] : e \in m.after}
          BY <3>6, <3>8, <4>2 DEF PointsIn
        <5> QED BY <3>4, <3>7, <4>2, <5>1, SideValues DEF OnSide
      <4> QED BY <4>1, <4>2, SideValues
    <3>11. /\ Sound(u, n)
           /\ Cardinality(DOMAIN u) = Cardinality(DOMAIN l) + Cardinality(DOMAIN r) + 1
           /\ PointsIn(u, DOMAIN u) = {c.point} \cup PointsIn(l, DOMAIN l) \cup PointsIn(r, DOMAIN r)
      <4>1. u = Over(c, n, w[Left], w[Right])
        BY <3>3, <3>8 DEF c
      <4>2. /\ Sound(u, n)
            /\ Cardinality(DOMAIN u) = Cardinality(DOMAIN w[Left]) + Cardinality(DOMAIN w[Right]) + 1
            /\ PointsIn(u, DOMAIN u)
                 = {c.point} \cup PointsIn(w[Left], DOMAIN w[Left]) \cup PointsIn(w[Right], DOMAIN w[Right])
        BY <3>7, <3>9, <3>10, <4>1, OverSound
      <4> QED BY <3>8, <4>2
    <3>12. Cardinality(DOMAIN u) = Cardinality(es)
      BY <3>4, <3>6, <3>11
    <3>13. PointsIn(u, DOMAIN u) = {ps[e] : e \in es}
      <4>1. /\ PointsIn(l, DOMAIN l) = {ps[e] : e \in m.before}
            /\ PointsIn(r, DOMAIN r) = {ps[e] : e \in m.after}
        BY <3>6
      <4> QED BY <3>4, <3>7, <3>11, <4>1
    <3> QED BY <3>11, <3>12, <3>13
  <2> QED BY <2>2, <2>3
<1>7. Len(ps) + 1 \in T
  <2> HIDE DEF T
  <2>1. Nat \subseteq T
    BY <1>5, <1>6, InductiveSet
  <2> QED BY <1>2, <2>1
<1>8. DOMAIN ps \in D /\ <<>> \in Seq(Side) /\ Cardinality(DOMAIN ps) < Len(ps) + 1
  BY <1>2
<1>9. Holds(t, <<>>, DOMAIN ps)
  <2> HIDE DEF Holds
  <2> QED BY <1>1, <1>7, <1>8
<1> QED BY <1>2, <1>9

-----------------------------------------------------------------------------
\* The rectangle of the whole tree.

BoxOf(b, Q) == IF Q = {} THEN b = mbr_empty ELSE Tight(b, Q)

LEMMA EmptyType == mbr_empty \in MBR
  BY Corners DEF mbr_empty, Coord

LEMMA BoxType ==
  ASSUME NEW b, NEW Q, BoxOf(b, Q)
  PROVE  b \in MBR
  BY EmptyType DEF BoxOf, Tight

LEMMA BoxOneMore ==
  ASSUME NEW b, NEW Q \in SUBSET Point, BoxOf(b, Q), NEW p \in Point
  PROVE  BoxOf(mbr_expand_point(b, p), Q \cup {p})
<1>1. CASE Q = {}
  <2>1. b = mbr_empty
    BY <1>1 DEF BoxOf
  <2>2. Tight(mbr_expand_point(mbr_empty, p), {p})
    BY TightPoint
  <2>3. Q \cup {p} = {p} /\ {p} # {}
    BY <1>1
  <2> QED BY <2>1, <2>2, <2>3 DEF BoxOf
<1>2. CASE Q # {}
  <2>1. Tight(b, Q)
    BY <1>2 DEF BoxOf
  <2>2. Tight(mbr_expand_point(b, p), Q \cup {p})
    BY <2>1, TightOneMore
  <2>3. Q \cup {p} # {}
    OBVIOUS
  <2> QED BY <2>2, <2>3 DEF BoxOf
<1> QED BY <1>1, <1>2

LEMMA ExpandType ==
  ASSUME NEW b \in MBR, NEW p \in Point
  PROVE  mbr_expand_point(b, p) \in MBR
<1>1. /\ b.min_x \in Coord /\ b.min_y \in Coord /\ b.max_x \in Coord /\ b.max_y \in Coord
      /\ p.x \in Coord /\ p.y \in Coord
  BY Corners
<1>2. /\ Lower(b.min_x, p.x) \in Coord /\ Lower(b.min_y, p.y) \in Coord
      /\ Upper(b.max_x, p.x) \in Coord /\ Upper(b.max_y, p.y) \in Coord
  BY <1>1, LowerUpper
<1> QED BY <1>2, Corners DEF mbr_expand_point

\* The loop over the points of a bulk load ends with their rectangle.
LEMMA BoundsOfBox ==
  ASSUME NEW ps \in Seq(Points)
  PROVE  BoxOf(BoundsOf(ps), {ps[e] : e \in DOMAIN ps})
<1> DEFINE N == Len(ps)
           G == [d \in 1..N |-> [y \in MBR |-> mbr_expand_point(y, ps[d])]]
           Rule(f) == f = [d \in 0..N |-> IF d = 0 THEN mbr_empty ELSE mbr_expand_point(f[d - 1], ps[d])]
           upTo == CHOOSE f : Rule(f)
<1>1. N \in Nat /\ DOMAIN ps = 1..N /\ mbr_empty \in MBR
  BY EmptyType
<1>2. \A d \in 1..N : ps[d] \in Point
  BY <1>1, Constants
<1>3. \A d \in 1..N : \A y \in MBR : G[d][y] = mbr_expand_point(y, ps[d]) /\ G[d][y] \in MBR
  BY <1>2, ExpandType
<1> HIDE DEF G, N
<1>4. PICK f : IsRun(f, MBR, mbr_empty, N, G)
  BY <1>1, <1>3, Iterated
<1>5. f \in [0..N -> MBR] /\ f[0] = mbr_empty /\ \A d \in 1..N : f[d] = G[d][f[d - 1]]
  BY <1>4 DEF IsRun
<1>6. Rule(f)
  <2>1. \A d \in 0..N : f[d] = IF d = 0 THEN mbr_empty ELSE mbr_expand_point(f[d - 1], ps[d])
    <3> SUFFICES ASSUME NEW d \in 0..N, d # 0 PROVE f[d] = mbr_expand_point(f[d - 1], ps[d])
      BY <1>5
    <3>1. d \in 1..N /\ d - 1 \in 0..N
      BY <1>1
    <3>2. f[d - 1] \in MBR
      BY <1>5, <3>1
    <3> QED BY <1>3, <1>5, <3>1, <3>2
  <2> QED BY <1>5, <2>1
<1>7. Rule(upTo)
  BY <1>6
<1> HIDE DEF upTo
<1>8. upTo[0] = mbr_empty /\ \A d \in 0..N : d # 0 => upTo[d] = mbr_expand_point(upTo[d - 1], ps[d])
  BY <1>1, <1>7
<1> DEFINE T == {d \in Nat : d <= N => BoxOf(upTo[d], {ps[e] : e \in 1..d})}
<1>9. 0 \in T
  <2>1. {ps[e] : e \in 1..0} = {}
    OBVIOUS
  <2> QED BY <1>8, <2>1 DEF BoxOf
<1>10. ASSUME NEW d \in Nat, d \in T
       PROVE  d + 1 \in T
  <2> SUFFICES ASSUME d + 1 <= N
               PROVE  BoxOf(upTo[d + 1], {ps[e] : e \in 1..(d + 1)})
    OBVIOUS
  <2>1. d <= N /\ d + 1 \in 0..N /\ d + 1 \in 1..N /\ d + 1 # 0 /\ (d + 1) - 1 = d
    BY <1>1
  <2>2. BoxOf(upTo[d], {ps[e] : e \in 1..d})
    BY <1>10, <2>1
  <2>3. upTo[d + 1] = mbr_expand_point(upTo[d], ps[d + 1]) /\ ps[d + 1] \in Point
    BY <1>2, <1>8, <2>1
  <2> DEFINE Q == {ps[e] : e \in 1..d}
  <2>4. Q \in SUBSET Point
    <3>1. \A e \in 1..d : e \in 1..N
      BY <1>1, <2>1
    <3> QED BY <1>2, <3>1
  <2>5. {ps[e] : e \in 1..(d + 1)} = Q \cup {ps[d + 1]}
    <3>1. 1..(d + 1) = (1..d) \cup {d + 1}
      OBVIOUS
    <3> QED BY <3>1
  <2> HIDE DEF Q
  <2>6. BoxOf(upTo[d], Q)
    BY <2>2 DEF Q
  <2> QED BY <2>3, <2>4, <2>5, <2>6, BoxOneMore
<1>11. N \in T
  <2> HIDE DEF T
  <2> QED BY <1>1, <1>9, <1>10, InductiveSet
<1>12. BoundsOf(ps) = upTo[N]
  BY DEF BoundsOf, upTo, N
<1>13. N \in Nat /\ N <= N
  BY <1>1
<1>14. BoxOf(upTo[N], {ps[e] : e \in 1..N})
  BY <1>11, <1>13
<1> QED BY <1>1, <1>12, <1>14

-----------------------------------------------------------------------------
\* The invariant.

IInv ==
  /\ Sound(root, <<>>)
  /\ size = Cardinality(DOMAIN root) /\ size <= MaxSize
  /\ BoxOf(bounds, PointsIn(root, DOMAIN root))

LEMMA EmptyTree ==
  ASSUME NEW n
  PROVE  Sound(<<>>, n) /\ DOMAIN <<>> = {} /\ Cardinality(DOMAIN <<>>) = 0 /\ PointsIn(<<>>, DOMAIN <<>>) = {}
<1> DEFINE u == <<>>
<1>1. u = [m \in DOMAIN u |-> u[m]] /\ DOMAIN u = {}
  OBVIOUS
<1> HIDE DEF u
<1>2. TreeType(u) /\ Cardinality(DOMAIN u) = 0
  BY <1>1, FS_EmptySet DEF TreeType
<1>3. Sound(u, n) /\ PointsIn(u, DOMAIN u) = {}
  BY <1>1, <1>2 DEF Sound, Rooted, Measured, Sorted, PointsIn
<1> QED BY <1>1, <1>2, <1>3 DEF u

LEMMA InitIInv == Init => IInv
<1>1. MaxSize \in Nat
  BY Constants
<1> QED BY <1>1, EmptyTree DEF Init, IInv, BoxOf

LEMMA NextIInv == IInv /\ [Next]_vars => IInv'
<1> SUFFICES ASSUME IInv, [Next]_vars PROVE IInv'
  OBVIOUS
<1>1. /\ MaxSize \in Nat /\ Sound(root, <<>>) /\ TreeType(root) /\ size = Cardinality(DOMAIN root)
      /\ size <= MaxSize /\ BoxOf(bounds, PointsIn(root, DOMAIN root))
  BY Constants DEF IInv, Sound
<1>2. size \in Nat
  BY <1>1, FS_CardinalityType DEF TreeType
<1>3. ASSUME NEW p \in Points, kdtree_insert(p)
      PROVE  IInv'
  <2>1. /\ size < MaxSize /\ size + 1 \in 1..MaxSize
        /\ root' = insert_recursive(root, p, size + 1)
        /\ bounds' = mbr_expand_point(bounds, p) /\ size' = size + 1
    BY <1>1, <1>2, <1>3 DEF kdtree_insert
  <2>2. /\ Sound(root', <<>>) /\ Cardinality(DOMAIN root') = size + 1
        /\ PointsIn(root', DOMAIN root') = PointsIn(root, DOMAIN root) \cup {p}
    BY <1>1, <2>1, InsertSound
  <2>3. p \in Point /\ PointsIn(root, DOMAIN root) \in SUBSET Point
    BY <1>1, Constants, ForkTypes DEF PointsIn
  <2>4. BoxOf(bounds', PointsIn(root', DOMAIN root'))
    BY <1>1, <2>1, <2>2, <2>3, BoxOneMore
  <2> QED BY <1>1, <1>2, <2>1, <2>2, <2>4 DEF IInv
<1>4. ASSUME NEW ps \in Loads, kdtree_bulk_load(ps)
      PROVE  IInv'
  <2>1. root' \in build_tree_recursive(ps) /\ size' = Len(ps) /\ bounds' = BoundsOf(ps)
    BY <1>4 DEF kdtree_bulk_load
  <2>2. ps \in Seq(Points) /\ Len(ps) <= MaxSize
    BY Constants
  <2>3. /\ Sound(root', <<>>) /\ Cardinality(DOMAIN root') = Len(ps)
        /\ PointsIn(root', DOMAIN root') = {ps[e] : e \in DOMAIN ps}
    BY <2>1, <2>2, BuildSound
  <2>4. BoxOf(bounds', PointsIn(root', DOMAIN root'))
    BY <2>1, <2>2, <2>3, BoundsOfBox
  <2> QED BY <2>1, <2>2, <2>3, <2>4 DEF IInv
<1>5. ASSUME kdtree_free
      PROVE  IInv'
  BY <1>1, <1>5, EmptyTree DEF kdtree_free, IInv, BoxOf
<1>6. ASSUME UNCHANGED vars
      PROVE  IInv'
  BY <1>1, <1>6 DEF vars, IInv
<1> QED BY <1>3, <1>4, <1>5, <1>6 DEF Next

-----------------------------------------------------------------------------
\* Types and bounds.

LEMMA NoNode ==
  ASSUME NEW t, TreeType(t)
  PROVE  (t = <<>> <=> DOMAIN t = {}) /\ (Rooted(t, <<>>) /\ DOMAIN t # {} => <<>> \in DOMAIN t)
<1>1. t = [m \in DOMAIN t |-> t[m]] /\ DOMAIN t \subseteq Seq(Side)
  BY DEF TreeType
<1>2. DOMAIN t = {} => t = <<>>
  BY <1>1
<1>3. t = <<>> => DOMAIN t = {}
  BY EmptyTree
<1>4. ASSUME Rooted(t, <<>>), NEW m \in DOMAIN t
      PROVE  <<>> \in DOMAIN t
  <2>1. <<>> \in Seq(Side) /\ IsPrefix(<<>>, <<>>)
    BY PrefixOrder
  <2> QED BY <1>4, <2>1 DEF Rooted
<1> QED BY <1>2, <1>3, <1>4

LEMMA IInvTypes == IInv => TypeOK
<1> SUFFICES ASSUME IInv PROVE TypeOK
  OBVIOUS
<1>1. /\ TreeType(root) /\ Rooted(root, <<>>) /\ Measured(root) /\ MaxSize \in Nat
      /\ size = Cardinality(DOMAIN root) /\ size <= MaxSize /\ size \in Nat
      /\ IsFiniteSet(DOMAIN root)
  BY Constants, FS_CardinalityType DEF IInv, Sound, TreeType
<1>2. bounds \in MBR
  BY BoxType DEF IInv
<1>3. ASSUME NEW n \in DOMAIN root
      PROVE  n \in Path /\ root[n] \in KDNode /\ (n # <<>> => Front(n) \in DOMAIN root)
  <2>1. n \in Seq(Side) /\ Len(n) \in Nat /\ Len(n) + 1 <= size
    BY <1>1, PathShort, LenProperties DEF TreeType
  <2>2. n \in Path
    BY <1>1, <2>1, PathIsSeq
  <2>3. root[n] \in Fork /\ root[n].subtree_size = Cardinality(Under(root, n))
    BY <1>1 DEF TreeType, Measured
  <2>4. Cardinality(Under(root, n)) \in 1..MaxSize
    <3>1. n \in Under(root, n) /\ Under(root, n) \subseteq DOMAIN root
      BY <2>1, PrefixOrder DEF Under
    <3>2. /\ IsFiniteSet(Under(root, n)) /\ Cardinality(Under(root, n)) <= Cardinality(DOMAIN root)
          /\ Cardinality(Under(root, n)) \in Nat
      BY <1>1, <3>1, FS_Subset, FS_CardinalityType
    <3>3. Cardinality(Under(root, n)) # 0
      BY <3>1, <3>2, FS_EmptySet
    <3> QED BY <1>1, <3>2, <3>3
  <2>5. root[n] \in KDNode
    BY <2>3, <2>4 DEF Fork, KDNode
  <2>6. ASSUME n # <<>>
        PROVE  Front(n) \in DOMAIN root
    <3>1. Front(n) \in Seq(Side) /\ Last(n) \in Side /\ n = Append(Front(n), Last(n))
      BY <2>1, <2>6, AppendFront
    <3>2. IsPrefix(Front(n), Append(Front(n), Last(n))) /\ IsPrefix(<<>>, Front(n))
      BY <3>1, PrefixSides, PrefixOrder
    <3>3. IsPrefix(Front(n), n)
      <4> DEFINE m == Front(n)
      <4>1. n = Append(m, Last(n)) /\ IsPrefix(m, Append(m, Last(n)))
        BY <3>1, <3>2
      <4> HIDE DEF m
      <4>2. IsPrefix(m, n)
        BY <4>1
      <4> QED BY <4>2 DEF m
    <3> QED BY <1>1, <3>1, <3>2, <3>3 DEF Rooted
  <2> QED BY <2>2, <2>5, <2>6
<1> QED BY <1>1, <1>2, <1>3 DEF TypeOK

LEMMA IInvBounds == IInv => BoundsExact
<1> SUFFICES ASSUME IInv PROVE BoundsExact
  OBVIOUS
<1>1. /\ TreeType(root) /\ Rooted(root, <<>>) /\ Measured(root) /\ Sound(root, <<>>)
      /\ BoxOf(bounds, PointsIn(root, DOMAIN root))
  BY DEF IInv, Sound
<1>2. TypeOK
  BY IInvTypes
<1>3. ASSUME NEW n \in DOMAIN root
      PROVE  /\ root[n].bounds = Hull({PointGeom(root[m].point).mbr : m \in Beneath(n)})
             /\ root[n].subtree_size = Cardinality(Beneath(n))
  <2> DEFINE Q == PointsIn(root, Under(root, n))
  <2>1. Beneath(n) = Under(root, n)
    BY DEF Beneath, Under
  <2>2. Tight(root[n].bounds, Q) /\ root[n].subtree_size = Cardinality(Under(root, n))
    BY <1>1 DEF Measured
  <2>3. Q \in SUBSET Point
    BY <1>1, ForkTypes
  <2>4. Hull({PointGeom(p).mbr : p \in Q}) = root[n].bounds
    <3> HIDE DEF Q
    <3> QED BY <2>2, <2>3, TightIsHull
  <2>5. {PointGeom(p).mbr : p \in Q} = {PointGeom(root[m].point).mbr : m \in Beneath(n)}
    BY <2>1 DEF PointsIn
  <2> QED BY <2>1, <2>2, <2>4, <2>5
<1>4. bounds = IF root = <<>> THEN mbr_empty ELSE root[<<>>].bounds
  <2>1. CASE root = <<>>
    <3>1. PointsIn(root, DOMAIN root) = {}
      BY <2>1, EmptyTree
    <3> QED BY <1>1, <2>1, <3>1 DEF BoxOf
  <2>2. CASE root # <<>>
    <3>1. <<>> \in DOMAIN root /\ <<>> \in Seq(Side)
      BY <1>1, <2>2, NoNode
    <3>2. Under(root, <<>>) = DOMAIN root
      BY <1>1, <3>1, UnderRoot
    <3>3. Tight(root[<<>>].bounds, PointsIn(root, DOMAIN root)) /\ PointsIn(root, DOMAIN root) \in SUBSET Point
      BY <1>1, <3>1, <3>2, ForkTypes DEF Measured
    <3>4. PointsIn(root, DOMAIN root) # {}
      BY <3>1 DEF PointsIn
    <3> QED BY <1>1, <2>2, <3>3, <3>4, TightUnique DEF BoxOf
  <2> QED BY <2>1, <2>2
<1> QED BY <1>2, <1>3, <1>4 DEF BoundsExact

(***************************************************************************)
(* Whatever is inserted, loaded or freed, the rectangle and the size kept  *)
(* at each node are those of the points below it, and the tree's rectangle *)
(* is the root's: insert_recursive and kdnode_update_bounds agree.         *)
(***************************************************************************)
THEOREM BoundsExactHolds == Spec => []BoundsExact
<1>1. Init => IInv
  BY InitIInv
<1>2. IInv /\ [Next]_vars => IInv'
  BY NextIInv
<1>3. IInv => BoundsExact
  BY IInvBounds
<1> QED BY <1>1, <1>2, <1>3, PTL DEF Spec

-----------------------------------------------------------------------------
\* Range and radius queries.

Whole(r) == r.min_x \in Int /\ r.min_y \in Int /\ r.max_x \in Int /\ r.max_y \in Int

LEMMA WholeMBR ==
  ASSUME NEW m \in MBR
  PROVE  Whole(m)
  BY Corners DEF Whole

LEMMA TightContains ==
  ASSUME NEW b, NEW Q \in SUBSET Point, Tight(b, Q), NEW p \in Q, NEW r, Whole(r),
         mbr_contains_point(r, p)
  PROVE  mbr_intersects(b, r)
<1>1. Whole(b)
  BY WholeMBR DEF Tight
<1>2. p.x \in Int /\ p.y \in Int
  BY Corners
<1>3. b.min_x <= p.x /\ p.x <= b.max_x /\ b.min_y <= p.y /\ p.y <= b.max_y
  BY DEF Tight
<1>4. p.x >= r.min_x /\ p.x <= r.max_x /\ p.y >= r.min_y /\ p.y <= r.max_y
  BY DEF mbr_contains_point
<1>5. ~ mbr_is_empty(b)
  BY <1>1, <1>2, <1>3 DEF mbr_is_empty, Whole
<1>6. ~ mbr_is_empty(r)
  BY <1>2, <1>4 DEF mbr_is_empty, Whole
<1>7. b.max_x >= r.min_x /\ b.min_x <= r.max_x /\ b.max_y >= r.min_y /\ b.min_y <= r.max_y
  BY <1>1, <1>2, <1>3, <1>4 DEF Whole
<1> QED BY <1>5, <1>6, <1>7 DEF mbr_intersects

\* No node above a point of the range misses the range.
LEMMA RangeFinds ==
  ASSUME IInv, NEW r, Whole(r)
  PROVE  kdtree_range_query(r) = {n \in DOMAIN root : mbr_contains_point(r, root[n].point)}
<1>1. TreeType(root) /\ Rooted(root, <<>>) /\ Measured(root)
  BY DEF IInv, Sound
<1>2. ASSUME NEW n \in DOMAIN root, mbr_contains_point(r, root[n].point), NEW k \in 0..Len(n)
      PROVE  mbr_intersects(root[SubSeq(n, 1, k)].bounds, r)
  <2> DEFINE a == SubSeq(n, 1, k)
  <2>1. n \in Seq(Side)
    BY <1>1 DEF TreeType
  <2>2. a \in Seq(Side) /\ IsPrefix(a, n)
    BY <2>1, PrefixStarts
  <2> HIDE DEF a
  <2>3. IsPrefix(<<>>, a)
    BY <2>2, PrefixOrder
  <2>4. a \in DOMAIN root
    BY <1>1, <2>2, <2>3 DEF Rooted
  <2>5. root[n].point \in PointsIn(root, Under(root, a))
    BY <2>2 DEF PointsIn, Under
  <2>6. PointsIn(root, Under(root, a)) \in SUBSET Point /\ Tight(root[a].bounds, PointsIn(root, Under(root, a)))
    BY <1>1, <2>4, ForkTypes DEF Measured
  <2>7. mbr_intersects(root[a].bounds, r)
    BY <1>2, <2>5, <2>6, TightContains
  <2> QED BY <2>7 DEF a
<1> QED BY <1>2 DEF kdtree_range_query

LEMMA SquareOrder ==
  ASSUME NEW a \in Nat, NEW b \in Nat, b < a
  PROVE  b * b < a * a
<1>1. PICK d \in Nat : a = b + d /\ d >= 1
  <2>1. a - b \in Nat /\ a = b + (a - b) /\ a - b >= 1
    OBVIOUS
  <2> QED BY <2>1
<1>2. a * a = b * b + b * d + b * d + d * d
  BY <1>1
<1>3. b * d >= 0 /\ d * d >= 1 /\ b * b \in Nat /\ b * d \in Nat /\ d * d \in Nat
  BY <1>1
<1> QED BY <1>2, <1>3

LEMMA Squares ==
  ASSUME NEW x \in Int
  PROVE  /\ x * x \in Nat
         /\ \A r \in Nat : x * x <= r * r => -r <= x /\ x <= r
         /\ \A y \in Int : (0 <= y /\ y <= x) \/ (x <= y /\ y <= 0) => y * y <= x * x
<1>1. \A z \in Int : (z >= 0 => z \in Nat /\ z * z \in Nat) /\ (z < 0 => -z \in Nat /\ (-z) * (-z) = z * z /\ z * z \in Nat)
  OBVIOUS
<1>2. \A z \in Int : z * z \in Nat
  BY <1>1
<1>3. ASSUME NEW r \in Nat, x * x <= r * r
      PROVE  -r <= x /\ x <= r
  <2>1. r * r \in Nat
    BY <1>1
  <2>2. ASSUME x > r PROVE FALSE
    <3>1. x \in Nat /\ r * r < x * x
      BY <2>2, SquareOrder
    <3> QED BY <1>2, <1>3, <2>1, <3>1
  <2>3. ASSUME x < -r PROVE FALSE
    <3>1. -x \in Nat /\ r < -x /\ x < 0
      BY <2>3
    <3>2. r * r < (-x) * (-x) /\ (-x) * (-x) = x * x
      BY <1>1, <3>1, SquareOrder
    <3> QED BY <1>2, <1>3, <2>1, <3>2
  <2> QED BY <2>2, <2>3
<1>4. ASSUME NEW y \in Int, 0 <= y, y <= x
      PROVE  y * y <= x * x
  <2>1. y \in Nat /\ x \in Nat
    BY <1>4
  <2>2. CASE y = x
    BY <1>2, <2>2
  <2>3. CASE y < x
    BY <1>2, <2>1, <2>3, SquareOrder
  <2> QED BY <1>4, <2>2, <2>3
<1>5. ASSUME NEW y \in Int, x <= y, y <= 0
      PROVE  y * y <= x * x
  <2>1. -y \in Nat /\ -x \in Nat /\ (-x) * (-x) = x * x /\ (-y) * (-y) = y * y
    BY <1>5
  <2>2. CASE y = x
    BY <1>2, <2>2
  <2>3. CASE x < y
    <3>1. -y < -x
      BY <2>3
    <3>2. (-y) * (-y) < (-x) * (-x)
      BY <2>1, <3>1, SquareOrder
    <3> QED BY <1>2, <2>1, <3>2
  <2> QED BY <1>5, <2>2, <2>3
<1> QED BY <1>2, <1>3, <1>4, <1>5

\* A point in the disc is in the square around it.
LEMMA DiscInSquare ==
  ASSUME NEW q \in Point, NEW p \in Point, NEW radius \in Nat,
         point_distance_sq(q, p) <= radius * radius
  PROVE  LET r == mbr_create(q.x - radius, q.y - radius, q.x + radius, q.y + radius)
         IN Whole(r) /\ mbr_contains_point(r, p)
<1> DEFINE r == mbr_create(q.x - radius, q.y - radius, q.x + radius, q.y + radius)
           dx == q.x - p.x
           dy == q.y - p.y
<1>1. q.x \in Int /\ q.y \in Int /\ p.x \in Int /\ p.y \in Int
  BY Corners
<1>2. dx \in Int /\ dy \in Int /\ radius * radius \in Int
  BY <1>1
<1>3. dx * dx + dy * dy <= radius * radius
  BY DEF point_distance_sq
<1> HIDE DEF dx, dy
<1>4. dx * dx \in Nat /\ dy * dy \in Nat
  BY <1>2, Squares
<1>5. dx * dx <= radius * radius /\ dy * dy <= radius * radius
  BY <1>2, <1>3, <1>4
<1>6. -radius <= dx /\ dx <= radius /\ -radius <= dy /\ dy <= radius
  BY <1>2, <1>5, Squares
<1>7. /\ r.min_x = q.x - radius /\ r.min_y = q.y - radius
      /\ r.max_x = q.x + radius /\ r.max_y = q.y + radius
  BY DEF mbr_create
<1> HIDE DEF r
<1>8. Whole(r)
  BY <1>1, <1>7 DEF Whole
<1>9. mbr_contains_point(r, p)
  BY <1>1, <1>6, <1>7 DEF mbr_contains_point, dx, dy
<1> QED BY <1>8, <1>9 DEF r

LEMMA IInvQueries == IInv => QueriesComplete
<1> SUFFICES ASSUME IInv PROVE QueriesComplete
  OBVIOUS
<1>1. TreeType(root) /\ \A n \in DOMAIN root : root[n].point \in Point
  BY ForkTypes DEF IInv, Sound
<1>2. ASSUME NEW r \in Ranges
      PROVE  kdtree_range_query(r) = {n \in DOMAIN root : mbr_contains_point(r, root[n].point)}
  BY Constants, WholeMBR, RangeFinds
<1>3. ASSUME NEW q \in Queries, NEW radius \in Radii
      PROVE  kdtree_radius_query(q, radius)
               = {n \in DOMAIN root : point_distance_sq(q, root[n].point) <= radius * radius}
  <2> DEFINE r == mbr_create(q.x - radius, q.y - radius, q.x + radius, q.y + radius)
  <2>1. q \in Point /\ radius \in Nat
    BY Constants
  <2>2. Whole(r)
    BY <2>1, Corners DEF Whole, mbr_create
  <2>3. kdtree_radius_query(q, radius)
          = {n \in kdtree_range_query(r) : point_distance_sq(q, root[n].point) <= radius * radius}
    BY DEF kdtree_radius_query
  <2>4. \A n \in DOMAIN root :
          point_distance_sq(q, root[n].point) <= radius * radius => mbr_contains_point(r, root[n].point)
    BY <1>1, <2>1, DiscInSquare
  <2> HIDE DEF r
  <2>5. kdtree_range_query(r) = {n \in DOMAIN root : mbr_contains_point(r, root[n].point)}
    BY <2>2, RangeFinds
  <2> QED BY <2>3, <2>4, <2>5
<1>4. Candidates = DOMAIN root
  <2>1. bounds \in MBR /\ Whole(bounds) /\ BoxOf(bounds, PointsIn(root, DOMAIN root))
    BY BoxType, WholeMBR DEF IInv
  <2>2. ASSUME NEW n \in DOMAIN root
        PROVE  mbr_contains_point(bounds, root[n].point)
    <3>1. root[n].point \in PointsIn(root, DOMAIN root)
      BY DEF PointsIn
    <3>2. Tight(bounds, PointsIn(root, DOMAIN root))
      BY <2>1, <3>1 DEF BoxOf
    <3>3. LET p == root[n].point
          IN bounds.min_x <= p.x /\ p.x <= bounds.max_x /\ bounds.min_y <= p.y /\ p.y <= bounds.max_y
      BY <3>1, <3>2 DEF Tight
    <3>4. root[n].point.x \in Int /\ root[n].point.y \in Int
      BY <1>1, Corners
    <3> QED BY <2>1, <3>3, <3>4 DEF mbr_contains_point, Whole
  <2>3. kdtree_range_query(bounds) = {n \in DOMAIN root : mbr_contains_point(bounds, root[n].point)}
    BY <2>1, RangeFinds
  <2> QED BY <2>2, <2>3 DEF Candidates
<1> QED BY <1>2, <1>3, <1>4 DEF QueriesComplete

(***************************************************************************)
(* In every tree that insertions and bulk loads can build, a range query   *)
(* and a radius query answer every stored point that they are asked for,   *)
(* and the candidates of kdtree_k_nearest are all points: no subtree is    *)
(* cut off by bounds that are too small.                                   *)
(***************************************************************************)
THEOREM QueriesCompleteHolds == Spec => []QueriesComplete
<1>1. Init => IInv
  BY InitIInv
<1>2. IInv /\ [Next]_vars => IInv'
  BY NextIInv
<1>3. IInv => QueriesComplete
  BY IInvQueries
<1> QED BY <1>1, <1>2, <1>3, PTL DEF Spec

-----------------------------------------------------------------------------
\* Partitions.

\* The rectangles on the two sides of a split have only the split in common.
LEMMA SplitApart ==
  ASSUME NEW t, Sound(t, <<>>), NEW a \in DOMAIN t, NEW b \in DOMAIN t, NEW c \in DOMAIN t,
         IsPrefix(Append(c, Left), a), IsPrefix(Append(c, Right), b)
  PROVE  ~ SharesArea(t[a].bounds, t[b].bounds) /\ ~ SharesArea(t[b].bounds, t[a].bounds)
<1> DEFINE P == PointsIn(t, Under(t, a))
           Q == PointsIn(t, Under(t, b))
           A == t[a].bounds
           B == t[b].bounds
           dim == t[c].split_dim
           split == Coordinate(t[c].point, dim)
<1>1. TreeType(t) /\ Rooted(t, <<>>) /\ Measured(t) /\ Sorted(t)
  BY DEF Sound
<1>2. a \in Seq(Side) /\ b \in Seq(Side) /\ c \in Seq(Side) /\ dim \in {0, 1} /\ t[c].point \in Point
  BY <1>1, ForkTypes
<1>3. split \in Int
  BY <1>2, Corners DEF Coordinate
<1>4. P \in SUBSET Point /\ Q \in SUBSET Point /\ Tight(A, P) /\ Tight(B, Q)
  BY <1>1, ForkTypes DEF Measured
<1>5. \A p \in P : Coordinate(p, dim) <= split
  <2> SUFFICES ASSUME NEW m \in Under(t, a) PROVE Coordinate(t[m].point, dim) <= split
    BY DEF PointsIn
  <2>1. m \in DOMAIN t /\ m \in Seq(Side) /\ IsPrefix(a, m)
    BY <1>1 DEF Under, TreeType
  <2>2. Append(c, Left) \in Seq(Side) /\ Left \in Side
    BY <1>2, SideValues, PrefixSides
  <2>3. IsPrefix(Append(c, Left), m)
    BY <1>2, <2>1, <2>2, PrefixOrder
  <2> QED BY <1>1, <2>1, <2>2, <2>3 DEF Sorted, OnSide
<1>6. \A p \in Q : split <= Coordinate(p, dim)
  <2> SUFFICES ASSUME NEW m \in Under(t, b) PROVE split <= Coordinate(t[m].point, dim)
    BY DEF PointsIn
  <2>1. m \in DOMAIN t /\ m \in Seq(Side) /\ IsPrefix(b, m)
    BY <1>1 DEF Under, TreeType
  <2>2. Append(c, Right) \in Seq(Side) /\ Right \in Side /\ Right # Left
    BY <1>2, SideValues, PrefixSides
  <2>3. IsPrefix(Append(c, Right), m)
    BY <1>2, <2>1, <2>2, PrefixOrder
  <2> QED BY <1>1, <2>1, <2>2, <2>3 DEF Sorted, OnSide
<1>7. Whole(A) /\ Whole(B)
  BY <1>4, WholeMBR DEF Tight
<1> HIDE DEF P, Q, A, B, split, dim
<1>8. \A p \in P \cup Q : p.x \in Int /\ p.y \in Int
  BY <1>4, Corners
<1>9. CASE dim = 0
  <2>1. PICK p \in P : p.x = A.max_x
    BY <1>4 DEF Tight
  <2>2. PICK r \in Q : r.x = B.min_x
    BY <1>4 DEF Tight
  <2>3. p.x <= split /\ split <= r.x
    BY <1>5, <1>6, <1>9 DEF Coordinate
  <2>4. ~ A.max_x > B.min_x /\ ~ B.min_x < A.max_x
    BY <1>3, <1>7, <2>1, <2>2, <2>3 DEF Whole
  <2> QED BY <2>4 DEF SharesArea, A, B
<1>10. CASE dim = 1
  <2>1. PICK p \in P : p.y = A.max_y
    BY <1>4 DEF Tight
  <2>2. PICK r \in Q : r.y = B.min_y
    BY <1>4 DEF Tight
  <2>3. p.y <= split /\ split <= r.y
    BY <1>5, <1>6, <1>10 DEF Coordinate
  <2>4. ~ A.max_y > B.min_y /\ ~ B.min_y < A.max_y
    BY <1>3, <1>7, <2>1, <2>2, <2>3 DEF Whole
  <2> QED BY <2>4 DEF SharesArea, A, B
<1> QED BY <1>2, <1>9, <1>10

\* No block is below another one.
LEMMA BlocksIncomparable ==
  ASSUME IInv, NEW max, NEW a \in kdtree_partition(max), NEW b \in kdtree_partition(max), a # b
  PROVE  ~ IsPrefix(a, b)
<1> SUFFICES ASSUME IsPrefix(a, b) PROVE FALSE
  OBVIOUS
<1>1. /\ a \in DOMAIN root /\ b \in DOMAIN root /\ IsBlock(a, max)
      /\ \A k \in 0..(Len(b) - 1) : ~ IsBlock(SubSeq(b, 1, k), max)
  BY DEF kdtree_partition
<1>2. a \in Seq(Side) /\ b \in Seq(Side)
  BY <1>1 DEF IInv, Sound, TreeType
<1>3. Len(a) \in 0..Len(b) /\ a = SubSeq(b, 1, Len(a)) /\ Len(b) \in Nat
  BY <1>2, PrefixStarts, LenProperties
<1>4. SubSeq(b, 1, Len(b)) = b
  BY <1>2, PrefixOrder, PrefixStarts
<1>5. Len(a) # Len(b)
  BY <1>3, <1>4
<1>6. Len(a) \in 0..(Len(b) - 1)
  BY <1>3, <1>5
<1> DEFINE k == Len(a)
<1>7. k \in 0..(Len(b) - 1) /\ SubSeq(b, 1, k) = a
  BY <1>3, <1>6
<1> HIDE DEF k
<1> QED BY <1>1, <1>7

LEMMA IInvBlocks == IInv => BlocksApart
<1> SUFFICES ASSUME IInv, NEW max \in 1..MaxSize,
                    NEW a \in kdtree_partition(max), NEW b \in kdtree_partition(max), a # b
             PROVE  ~ SharesArea(root[a].bounds, root[b].bounds)
  BY DEF BlocksApart
<1>1. /\ Sound(root, <<>>) /\ Rooted(root, <<>>) /\ a \in DOMAIN root /\ b \in DOMAIN root
      /\ a \in Seq(Side) /\ b \in Seq(Side)
  BY DEF IInv, Sound, TreeType, kdtree_partition
<1>2. ~ IsPrefix(a, b) /\ ~ IsPrefix(b, a)
  BY BlocksIncomparable
<1>3. PICK c \in Seq(Side), s \in Side, u \in Side :
        s # u /\ IsPrefix(Append(c, s), a) /\ IsPrefix(Append(c, u), b)
  BY <1>1, <1>2, PathsPart
<1>4. c \in DOMAIN root
  <2>1. IsPrefix(c, a) /\ IsPrefix(<<>>, c)
    BY <1>1, <1>3, PrefixSides, PrefixOrder
  <2> QED BY <1>1, <2>1 DEF Rooted
<1>5. (s = Left /\ u = Right) \/ (s = Right /\ u = Left)
  BY <1>3, SideValues
<1> QED BY <1>1, <1>3, <1>4, <1>5, SplitApart

(***************************************************************************)
(* The blocks into which kdtree_partition cuts any tree share no area,     *)
(* whatever the order of insertions and bulk loads that made it and        *)
(* however many points lie on a split: the pages made from them are apart. *)
(***************************************************************************)
THEOREM BlocksApartHolds == Spec => []BlocksApart
<1>1. Init => IInv
  BY InitIInv
<1>2. IInv /\ [Next]_vars => IInv'
  BY NextIInv
<1>3. IInv => BlocksApart
  BY IInvBlocks
<1> QED BY <1>1, <1>2, <1>3, PTL DEF Spec

-----------------------------------------------------------------------------
\* The nearest point.

Looked(f, q, n, best) ==
  IF n \notin DOMAIN root THEN best
  ELSE LET here == point_distance_sq(q, root[n].point)
           found == IF here < best.dist_sq THEN [node |-> n, dist_sq |-> here] ELSE best
           dim == root[n].split_dim
           diff == Coordinate(q, dim) - Coordinate(root[n].point, dim)
           near == f[Append(n, NearSide(diff))][found]
       IN IF diff * diff < near.dist_sq
          THEN f[Append(n, 1 - NearSide(diff))][near]
          ELSE near

Search(f, q) == f = [n \in Seq(Side) |-> [best \in NNState |-> Looked(f, q, n, best)]]

LEMMA NearFar ==
  ASSUME NEW diff
  PROVE  NearSide(diff) \in Side /\ 1 - NearSide(diff) \in Side /\ 1 - NearSide(diff) # NearSide(diff)
  BY DEF NearSide, Side, Left, Right

LEMMA LookedDeeper ==
  ASSUME NEW f, NEW g, NEW q, NEW n, NEW best, \A s \in Side : f[Append(n, s)] = g[Append(n, s)]
  PROVE  Looked(f, q, n, best) = Looked(g, q, n, best)
<1> DEFINE diff == Coordinate(q, root[n].split_dim) - Coordinate(root[n].point, root[n].split_dim)
<1>1. /\ f[Append(n, NearSide(diff))] = g[Append(n, NearSide(diff))]
      /\ f[Append(n, 1 - NearSide(diff))] = g[Append(n, 1 - NearSide(diff))]
  <2> HIDE DEF diff
  <2> QED BY NearFar
<1> QED BY <1>1 DEF Looked

\* The function that nearest_recursive defines exists: the tree is finite.
LEMMA SearchExists ==
  ASSUME IInv, NEW q
  PROVE  \E f : Search(f, q)
<1> DEFINE S == Seq(Side)
           Step(f, n) == [best \in NNState |-> Looked(f, q, n, best)]
           T == {k \in Nat : \E f : \A n \in S : Len(n) + k > MaxSize => f[n] = Step(f, n)}
<1>1. MaxSize \in Nat /\ \A n \in S : Len(n) \in Nat
  BY Constants, LenProperties
<1>2. \A n \in DOMAIN root : Len(n) < MaxSize
  BY IInvTypes, PathIsSeq DEF TypeOK
<1>3. ASSUME NEW f, NEW g, NEW n \in S, \A s \in Side : f[Append(n, s)] = g[Append(n, s)]
      PROVE  Step(f, n) = Step(g, n)
  <2>1. \A best \in NNState : Looked(f, q, n, best) = Looked(g, q, n, best)
    BY <1>3, LookedDeeper
  <2> QED BY <2>1
<1>4. 0 \in T
  <2> DEFINE f == [n \in S |-> [best \in NNState |-> best]]
  <2>1. ASSUME NEW n \in S, Len(n) + 0 > MaxSize
        PROVE  f[n] = Step(f, n)
    <3>1. n \notin DOMAIN root
      BY <1>1, <1>2, <2>1
    <3>2. \A best \in NNState : Looked(f, q, n, best) = best
      BY <3>1 DEF Looked
    <3> QED BY <3>2
  <2> HIDE DEF f, Step
  <2> QED BY <2>1
<1>5. ASSUME NEW k \in Nat, k \in T
      PROVE  k + 1 \in T
  <2> HIDE DEF Step
  <2>1. PICK f : \A n \in S : Len(n) + k > MaxSize => f[n] = Step(f, n)
    BY <1>5
  <2> DEFINE g == [n \in S |-> IF Len(n) + k > MaxSize THEN f[n] ELSE Step(f, n)]
  <2>2. \A n \in S : g[n] = Step(f, n)
    BY <2>1
  <2>3. \A n \in S : Len(n) + k > MaxSize => f[n] = g[n]
    OBVIOUS
  <2> HIDE DEF g
  <2>4. ASSUME NEW n \in S, Len(n) + (k + 1) > MaxSize
        PROVE  g[n] = Step(g, n)
    <3>1. \A s \in Side : Append(n, s) \in S /\ Len(Append(n, s)) + k > MaxSize
      <4> SUFFICES ASSUME NEW s \in Side PROVE Append(n, s) \in S /\ Len(Append(n, s)) + k > MaxSize
        OBVIOUS
      <4>1. Append(n, s) \in S /\ Len(Append(n, s)) = Len(n) + 1
        BY AppendFront
      <4> QED BY <1>1, <2>4, <4>1
    <3>2. \A s \in Side : f[Append(n, s)] = g[Append(n, s)]
      BY <2>3, <3>1
    <3>3. Step(f, n) = Step(g, n)
      BY <1>3, <3>2
    <3> QED BY <2>2, <3>3
  <2> QED BY <2>4
<1>6. MaxSize + 1 \in T
  <2> HIDE DEF T
  <2>1. Nat \subseteq T
    BY <1>4, <1>5, InductiveSet
  <2> QED BY <1>1, <2>1
<1> HIDE DEF Step
<1>7. PICK f : \A n \in S : Len(n) + (MaxSize + 1) > MaxSize => f[n] = Step(f, n)
  BY <1>6
<1>8. \A n \in S : f[n] = Step(f, n)
  <2> SUFFICES ASSUME NEW n \in S PROVE f[n] = Step(f, n)
    OBVIOUS
  <2>1. Len(n) + (MaxSize + 1) > MaxSize
    BY <1>1
  <2> QED BY <1>7, <2>1
<1> DEFINE g == [n \in S |-> f[n]]
<1>9. \A n \in S : g[n] = f[n]
  OBVIOUS
<1> HIDE DEF g
<1>10. \A n \in S : g[n] = Step(g, n)
  <2> SUFFICES ASSUME NEW n \in S PROVE g[n] = Step(g, n)
    OBVIOUS
  <2>1. \A s \in Side : f[Append(n, s)] = g[Append(n, s)]
    BY <1>9, AppendFront
  <2>2. Step(f, n) = Step(g, n)
    BY <1>3, <2>1
  <2> QED BY <1>8, <1>9, <2>2
<1>11. g = [n \in S |-> Step(g, n)]
  <2>1. g = [n \in S |-> g[n]]
    BY DEF g
  <2> QED BY <1>10, <2>1
<1>12. Search(g, q)
  BY <1>11 DEF Search, Step
<1> QED BY <1>12

\* A point on the far side is at least as far as the split.
LEMMA FarSide ==
  ASSUME NEW f \in Fork, NEW q \in Point, NEW p \in Point,
         OnSide(f, 1 - NearSide(Coordinate(q, f.split_dim) - Coordinate(f.point, f.split_dim)), p)
  PROVE  LET diff == Coordinate(q, f.split_dim) - Coordinate(f.point, f.split_dim)
         IN diff * diff \in Nat /\ diff * diff <= point_distance_sq(q, p)
<1> DEFINE dim == f.split_dim
           diff == Coordinate(q, dim) - Coordinate(f.point, dim)
           x == Coordinate(q, dim) - Coordinate(p, dim)
           dx == q.x - p.x
           dy == q.y - p.y
<1>1. dim \in {0, 1} /\ f.point \in Point
  BY Constants DEF Fork
<1>2. /\ Coordinate(q, dim) \in Int /\ Coordinate(f.point, dim) \in Int /\ Coordinate(p, dim) \in Int
      /\ dx \in Int /\ dy \in Int
  <2>1. \A v \in Point : v.x \in Int /\ v.y \in Int
    BY Corners
  <2>2. \A v \in Point : Coordinate(v, dim) \in Int
    BY <2>1 DEF Coordinate
  <2> HIDE DEF dim
  <2> QED BY <1>1, <2>1, <2>2
<1>3. diff \in Int /\ x \in Int
  BY <1>2
<1>4. (0 <= diff /\ diff <= x) \/ (x <= diff /\ diff <= 0)
  BY <1>2 DEF OnSide, NearSide, Left, Right
<1>5. x = dx \/ x = dy
  BY <1>1 DEF Coordinate
<1>6. point_distance_sq(q, p) = dx * dx + dy * dy
  BY DEF point_distance_sq
<1> HIDE DEF x, diff, dx, dy, dim
<1>7. diff * diff <= x * x /\ x * x \in Nat /\ diff * diff \in Nat /\ dx * dx \in Nat /\ dy * dy \in Nat
  BY <1>2, <1>3, <1>4, Squares
<1>8. x * x = dx * dx \/ x * x = dy * dy
  BY <1>5
<1>9. x * x <= dx * dx + dy * dy
  BY <1>7, <1>8
<1>10. diff * diff <= point_distance_sq(q, p)
  BY <1>6, <1>7, <1>9
<1> QED BY <1>7, <1>10 DEF diff, dim

LEMMA DistanceType ==
  ASSUME NEW q \in Point, NEW p \in Point
  PROVE  point_distance_sq(q, p) \in Nat
<1>1. q.x - p.x \in Int /\ q.y - p.y \in Int
  <2>1. q.x \in Int /\ q.y \in Int /\ p.x \in Int /\ p.y \in Int
    BY Corners
  <2> QED BY <2>1
<1>2. (q.x - p.x) * (q.x - p.x) \in Nat /\ (q.y - p.y) * (q.y - p.y) \in Nat
  BY <1>1, Squares
<1> QED BY <1>2 DEF point_distance_sq

\* What a search below n answers.
Answer(q, n, best, r) ==
  /\ r \in NNState /\ r.dist_sq <= best.dist_sq
  /\ \A m \in Under(root, n) : r.dist_sq <= point_distance_sq(q, root[m].point)
  /\ r = best \/ (r.node \in DOMAIN root /\ r.dist_sq = point_distance_sq(q, root[r.node].point))

LEMMA StepAnswer ==
  ASSUME IInv, NEW q \in Point, NEW f, NEW n \in DOMAIN root, NEW best \in NNState,
         \A s \in Side : \A b \in NNState : Answer(q, Append(n, s), b, f[Append(n, s)][b])
  PROVE  Answer(q, n, best, Looked(f, q, n, best))
<1> DEFINE here == point_distance_sq(q, root[n].point)
           found == IF here < best.dist_sq THEN [node |-> n, dist_sq |-> here] ELSE best
           diff == Coordinate(q, root[n].split_dim) - Coordinate(root[n].point, root[n].split_dim)
           s == NearSide(diff)
           u == 1 - NearSide(diff)
           near == f[Append(n, s)][found]
           far == f[Append(n, u)][near]
           r == Looked(f, q, n, best)
<1>1. /\ TreeType(root) /\ Sorted(root) /\ n \in Path /\ n \in Seq(Side) /\ DOMAIN root \subseteq Path
      /\ \A m \in DOMAIN root : root[m].point \in Point /\ root[m] \in Fork /\ m \in Seq(Side)
  BY IInvTypes, ForkTypes, PathIsSeq DEF IInv, Sound, TypeOK
<1>2. s \in Side /\ u \in Side /\ u # s
  <2> HIDE DEF diff
  <2> QED BY NearFar
<1>3. here \in Nat /\ best.dist_sq \in Nat
  BY <1>1, DistanceType DEF NNState
<1>4. r = IF diff * diff < near.dist_sq THEN far ELSE near
  BY DEF Looked
<1>5. \A m \in DOMAIN root : IsPrefix(Append(n, u), m) =>
        diff * diff \in Nat /\ diff * diff <= point_distance_sq(q, root[m].point)
  <2> SUFFICES ASSUME NEW m \in DOMAIN root, IsPrefix(Append(n, u), m)
               PROVE  diff * diff \in Nat /\ diff * diff <= point_distance_sq(q, root[m].point)
    OBVIOUS
  <2>1. OnSide(root[n], u, root[m].point)
    <3> HIDE DEF u
    <3> QED BY <1>1, <1>2 DEF Sorted
  <2> QED BY <1>1, <2>1, FarSide
<1> HIDE DEF here
<1>6. found \in NNState /\ found.dist_sq <= best.dist_sq /\ found.dist_sq <= here
      /\ (found = best \/ (found.node = n /\ found.dist_sq = here))
  BY <1>1, <1>3 DEF NNState
<1> HIDE DEF found, diff, s, u, r
<1>7. Answer(q, Append(n, s), found, near)
  BY <1>2, <1>6
<1>8. near \in NNState /\ near.dist_sq \in Nat /\ found.dist_sq \in Nat
  BY <1>6, <1>7 DEF Answer, NNState
<1>9. Answer(q, Append(n, u), near, far)
  <2> HIDE DEF near
  <2> QED BY <1>2, <1>8
<1>10. \A m \in Under(root, n) :
         m = n \/ m \in Under(root, Append(n, s)) \/ m \in Under(root, Append(n, u))
  <2> SUFFICES ASSUME NEW m \in Under(root, n), m # n
               PROVE  m \in Under(root, Append(n, s)) \/ m \in Under(root, Append(n, u))
    OBVIOUS
  <2>1. m \in DOMAIN root /\ m \in Seq(Side) /\ IsPrefix(n, m)
    BY <1>1 DEF Under
  <2>2. PICK v \in Side : IsPrefix(Append(n, v), m)
    BY <1>1, <2>1, PrefixSides
  <2>3. v = s \/ v = u
    BY <1>2, SideValues
  <2> QED BY <2>1, <2>2, <2>3 DEF Under
<1>11. \A m \in DOMAIN root : point_distance_sq(q, root[m].point) \in Nat
  BY <1>1, DistanceType
<1> DEFINE dist(m) == point_distance_sq(q, root[m].point)
<1>12. \A m \in DOMAIN root : dist(m) \in Nat
  BY <1>11
<1>13. /\ near.dist_sq <= found.dist_sq
       /\ \A m \in Under(root, Append(n, s)) : near.dist_sq <= dist(m)
       /\ near = found \/ (near.node \in DOMAIN root /\ near.dist_sq = dist(near.node))
  BY <1>7 DEF Answer
<1>14. /\ far \in NNState /\ far.dist_sq \in Nat /\ far.dist_sq <= near.dist_sq
       /\ \A m \in Under(root, Append(n, u)) : far.dist_sq <= dist(m)
       /\ far = near \/ (far.node \in DOMAIN root /\ far.dist_sq = dist(far.node))
  BY <1>9 DEF Answer, NNState
<1>15. here = dist(n)
  BY DEF here
<1>16. \A m \in Under(root, Append(n, u)) : diff * diff \in Nat /\ diff * diff <= dist(m)
  BY <1>5 DEF Under
<1>17. /\ \A m \in Under(root, n) : m \in DOMAIN root
       /\ \A m \in Under(root, Append(n, s)) : m \in DOMAIN root
       /\ \A m \in Under(root, Append(n, u)) : m \in DOMAIN root
  BY DEF Under
<1> HIDE DEF near, far, dist
<1>18. near = best \/ (near.node \in DOMAIN root /\ near.dist_sq = dist(near.node))
  BY <1>6, <1>13, <1>15
<1>19. near.dist_sq <= best.dist_sq /\ near.dist_sq <= dist(n)
  BY <1>3, <1>6, <1>8, <1>13, <1>15
<1>20. CASE diff * diff < near.dist_sq
  <2>1. r = far
    BY <1>4, <1>20
  <2>2. far.dist_sq <= best.dist_sq
    BY <1>3, <1>8, <1>14, <1>19
  <2>3. ASSUME NEW m \in Under(root, n)
        PROVE  far.dist_sq <= dist(m)
    <3>1. dist(m) \in Nat
      BY <1>12, <1>17
    <3>2. CASE m = n
      BY <1>8, <1>14, <1>19, <3>1, <3>2
    <3>3. CASE m \in Under(root, Append(n, s))
      <4>1. near.dist_sq <= dist(m)
        BY <1>13, <3>3
      <4> QED BY <1>8, <1>14, <3>1, <4>1
    <3>4. CASE m \in Under(root, Append(n, u))
      BY <1>14, <3>4
    <3> QED BY <1>10, <3>2, <3>3, <3>4
  <2>4. far = best \/ (far.node \in DOMAIN root /\ far.dist_sq = dist(far.node))
    BY <1>14, <1>18
  <2> QED BY <1>14, <2>1, <2>2, <2>3, <2>4 DEF Answer, dist, r
<1>21. CASE ~ diff * diff < near.dist_sq
  <2>1. r = near
    BY <1>4, <1>21
  <2>2. ASSUME NEW m \in Under(root, n)
        PROVE  near.dist_sq <= dist(m)
    <3>1. dist(m) \in Nat
      BY <1>12, <1>17
    <3>2. CASE m = n
      BY <1>19, <3>2
    <3>3. CASE m \in Under(root, Append(n, s))
      BY <1>13, <3>3
    <3>4. CASE m \in Under(root, Append(n, u))
      <4>1. diff * diff \in Nat /\ diff * diff <= dist(m)
        BY <1>16, <3>4
      <4> DEFINE d == diff * diff
      <4>2. d \in Nat /\ d <= dist(m) /\ ~ d < near.dist_sq
        BY <4>1, <1>21
      <4> HIDE DEF d
      <4> QED BY <1>8, <3>1, <4>2
    <3> QED BY <1>10, <3>2, <3>3, <3>4
  <2> QED BY <1>8, <1>18, <1>19, <2>1, <2>2 DEF Answer, dist, r
<1> QED BY <1>20, <1>21 DEF r

LEMMA SearchAnswer ==
  ASSUME IInv, NEW q \in Point, NEW f, Search(f, q), NEW best \in NNState
  PROVE  Answer(q, <<>>, best, f[<<>>][best])
<1> DEFINE S == Seq(Side)
           T == {k \in Nat : \A n \in S : Len(n) + k > MaxSize =>
                   \A b \in NNState : Answer(q, n, b, f[n][b])}
<1>1. MaxSize \in Nat /\ \A n \in S : Len(n) \in Nat
  BY Constants, LenProperties
<1>2. \A n \in DOMAIN root : Len(n) < MaxSize
  BY IInvTypes, PathIsSeq DEF TypeOK
<1>3. \A n \in S : \A b \in NNState : f[n][b] = Looked(f, q, n, b)
  <2> DEFINE Step(n) == [b \in NNState |-> Looked(f, q, n, b)]
  <2>1. f = [n \in S |-> Step(n)]
    BY DEF Search
  <2>2. \A n \in S : \A b \in NNState : Step(n)[b] = Looked(f, q, n, b)
    OBVIOUS
  <2> HIDE DEF Step
  <2>3. \A n \in S : f[n] = Step(n)
    BY <2>1
  <2> QED BY <2>2, <2>3
<1>4. ASSUME NEW n \in S, n \notin DOMAIN root, NEW b \in NNState
      PROVE  Answer(q, n, b, f[n][b])
  <2>1. f[n][b] = b
    BY <1>3, <1>4 DEF Looked
  <2>2. Under(root, n) = {}
    <3> SUFFICES ASSUME NEW m \in DOMAIN root, IsPrefix(n, m) PROVE FALSE
      BY DEF Under
    <3>1. IsPrefix(<<>>, n)
      BY PrefixOrder
    <3> QED BY <1>4, <3>1 DEF IInv, Sound, Rooted
  <2>3. b.dist_sq \in Nat
    BY DEF NNState
  <2>4. b.dist_sq <= b.dist_sq
    BY <2>3
  <2> QED BY <2>1, <2>2, <2>4 DEF Answer
<1>5. 0 \in T
  <2> SUFFICES ASSUME NEW n \in S, Len(n) + 0 > MaxSize, NEW b \in NNState
               PROVE  Answer(q, n, b, f[n][b])
    OBVIOUS
  <2>1. n \notin DOMAIN root
    BY <1>1, <1>2
  <2> QED BY <1>4, <2>1
<1>6. ASSUME NEW k \in Nat, k \in T
      PROVE  k + 1 \in T
  <2> SUFFICES ASSUME NEW n \in S, Len(n) + (k + 1) > MaxSize, NEW b \in NNState
               PROVE  Answer(q, n, b, f[n][b])
    OBVIOUS
  <2>1. ASSUME NEW s \in Side
        PROVE  \A c \in NNState : Answer(q, Append(n, s), c, f[Append(n, s)][c])
    <3>1. Append(n, s) \in S /\ Len(Append(n, s)) = Len(n) + 1
      BY AppendFront
    <3>2. Len(Append(n, s)) + k > MaxSize
      BY <1>1, <3>1
    <3> QED BY <1>6, <3>1, <3>2
  <2>2. CASE n \in DOMAIN root
    <3>1. Answer(q, n, b, Looked(f, q, n, b))
      BY <2>1, <2>2, StepAnswer
    <3> QED BY <1>3, <3>1
  <2>3. CASE n \notin DOMAIN root
    BY <1>4, <2>3
  <2> QED BY <2>2, <2>3
<1>7. MaxSize + 1 \in T
  <2> HIDE DEF T
  <2>1. Nat \subseteq T
    BY <1>5, <1>6, InductiveSet
  <2> QED BY <1>1, <2>1
<1>8. <<>> \in S /\ Len(<<>>) + (MaxSize + 1) > MaxSize
  BY <1>1
<1> QED BY <1>7, <1>8

LEMMA IInvNearest == IInv => NearestExact
<1> SUFFICES ASSUME IInv, root # <<>>, NEW q \in Queries, NEW n \in DOMAIN root,
                    point_distance_sq(q, root[n].point) < Inf
             PROVE  point_distance_sq(q, root[kdtree_nearest(q)].point)
                      <= point_distance_sq(q, root[n].point)
  BY DEF NearestExact
<1> DEFINE search == CHOOSE f : Search(f, q)
           best == [node |-> <<>>, dist_sq |-> Inf]
           r == search[<<>>][best]
<1>1. Search(search, q)
  BY SearchExists
<1>2. kdtree_nearest(q) = r.node
  <2>1. nearest_recursive(q) = search[<<>>]
    BY DEF nearest_recursive, Search, Looked
  <2> QED BY <2>1 DEF kdtree_nearest
<1>3. q \in Point /\ Inf \in Nat
  BY Constants, Corners
<1>4. best \in NNState
  <2>1. TreeType(root) /\ Rooted(root, <<>>) /\ DOMAIN root \subseteq Path
    BY IInvTypes DEF IInv, Sound, TypeOK
  <2>2. <<>> \in Path
    BY <2>1, NoNode
  <2> QED BY <1>3, <2>2 DEF NNState
<1> HIDE DEF search
<1>5. Answer(q, <<>>, best, r)
  <2> HIDE DEF best
  <2> QED BY <1>1, <1>3, <1>4, SearchAnswer
<1>6. n \in Under(root, <<>>)
  <2>1. n \in Seq(Side)
    BY DEF IInv, Sound, TreeType
  <2> QED BY <2>1, PrefixOrder DEF Under
<1> HIDE DEF r
<1>7. r.dist_sq <= point_distance_sq(q, root[n].point) /\ r.dist_sq \in Nat
  BY <1>5, <1>6 DEF Answer, NNState
<1>8. point_distance_sq(q, root[n].point) \in Nat
  <2>1. root[n].point \in Point
    BY ForkTypes DEF IInv, Sound
  <2> QED BY <1>3, <2>1, DistanceType
<1>9. r # best
  <2>1. r.dist_sq # Inf
    BY <1>3, <1>7, <1>8
  <2> QED BY <2>1
<1>10. r.dist_sq = point_distance_sq(q, root[r.node].point)
  BY <1>5, <1>9 DEF Answer
<1> QED BY <1>2, <1>7, <1>10

(***************************************************************************)
(* In every tree, whatever mix of insertions and bulk loads made it, the   *)
(* pruned search of kdtree_nearest ends at a nearest point if there is one *)
(* within DBL_MAX: the side that nearest_recursive skips holds none that   *)
(* is nearer, ties on the split coordinate included.                       *)
(***************************************************************************)
THEOREM NearestExactHolds == Spec => []NearestExact
<1>1. Init => IInv
  BY InitIInv
<1>2. IInv /\ [Next]_vars => IInv'
  BY NextIInv
<1>3. IInv => NearestExact
  BY IInvNearest
<1> QED BY <1>1, <1>2, <1>3, PTL DEF Spec
=============================================================================
