------------------------------ MODULE BasicLemmas ------------------------------
(***************************************************************************)
(* Facts that the proofs of several modules need: least and greatest       *)
(* numbers, induction over a set of naturals, sequences that are taken     *)
(* for paths in a tree, and the values a repeated step passes through.     *)
(***************************************************************************)
EXTENDS Integers, FiniteSetsExt, SequencesExt, SequenceTheorems, WellFoundedInduction, TLAPS

-----------------------------------------------------------------------------
\* Numbers.

\* The order of the naturals as a relation (tlapm cannot rewrite OpToRel).
LEMMA NatOrder ==
  \E R : IsWellFoundedOn(R, Nat) /\ \A x, y \in Nat : y < x => <<y, x>> \in R
<1>1. IsWellFoundedOn(OpToRel(<, Nat), Nat)
  BY NatLessThanWellFounded
<1>2. \A x, y \in Nat : y < x => <<y, x>> \in OpToRel(<, Nat)
  BY DEF OpToRel
<1> QED BY <1>1, <1>2, Zenon

\* A non-empty set of naturals has a least element.
LEMMA LeastNatural ==
  ASSUME NEW T, T \subseteq Nat, T # {}
  PROVE  \E x \in T : \A y \in T : x <= y
<1>1. PICK R : IsWellFoundedOn(R, Nat) /\ \A x, y \in Nat : y < x => <<y, x>> \in R
  BY NatOrder
<1>2. PICK x \in T : \A y \in T : ~ (<<y, x>> \in R)
  BY <1>1, WFMin, Zenon
<1>3. \A y \in T : ~ (y < x)
  BY <1>1, <1>2, Zenon
<1>4. \A y \in T : x <= y
  BY <1>2, <1>3, SMT
<1> QED BY <1>4

\* Min picks the least member of a non-empty set of naturals.
LEMMA MinIndex ==
  ASSUME NEW S, S \subseteq Nat, S # {}
  PROVE  Min(S) \in S /\ \A y \in S : Min(S) <= y
<1>1. PICK x \in S : \A y \in S : x <= y
  BY LeastNatural
<1> QED BY <1>1 DEF Min

\* The greatest member of a finite non-empty set of naturals is one of them.
LEMMA MaxIndex ==
  ASSUME NEW N \in Nat, NEW S, S \subseteq 1..N, S # {}
  PROVE  Max(S) \in S
<1> DEFINE T == {n \in Nat : N - n \in S}
<1>1. \A i \in S : N - i \in Nat /\ N - (N - i) = i
  OBVIOUS
<1>2. T # {}
  BY <1>1
<1>3. PICK n \in T : \A k \in T : n <= k
  BY <1>2, LeastNatural
<1>4. \A i \in S : n <= N - i
  BY <1>1, <1>3
<1>5. N - n \in S /\ \A i \in S : N - n >= i
  BY <1>3, <1>4
<1> QED BY <1>5 DEF Max

\* A set that holds 0 and the successor of each member holds every natural.
LEMMA InductiveSet ==
  ASSUME NEW T, 0 \in T, \A n \in Nat : n \in T => n + 1 \in T
  PROVE  Nat \subseteq T
<1> SUFFICES ASSUME Nat \ T # {} PROVE FALSE
  OBVIOUS
<1>1. PICK m \in Nat \ T : \A n \in Nat \ T : m <= n
  BY LeastNatural
<1>2. m # 0 /\ m - 1 \in Nat /\ ~ (m <= m - 1)
  BY <1>1
<1>3. m - 1 \in T
  BY <1>1, <1>2
<1> QED BY <1>1, <1>2, <1>3

-----------------------------------------------------------------------------
\* Paths: sequences of the turns taken on the way from the root of a tree.

\* A longer path, and the way back.
LEMMA AppendFront ==
  ASSUME NEW S, NEW n \in Seq(S)
  PROVE  /\ \A q \in S : /\ Append(n, q) \in Seq(S) /\ Append(n, q) # <<>>
                         /\ Len(Append(n, q)) = Len(n) + 1
                         /\ Front(Append(n, q)) = n /\ Last(Append(n, q)) = q
                         /\ \A k \in 1..Len(n) : Append(n, q)[k] = n[k]
         /\ n # <<>> => /\ Front(n) \in Seq(S) /\ Last(n) \in S
                        /\ Len(n) >= 1 /\ Len(Front(n)) = Len(n) - 1
                        /\ n = Append(Front(n), Last(n))
                        /\ \A k \in 1..(Len(n) - 1) : Front(n)[k] = n[k]
<1>1. ASSUME NEW q \in S
      PROVE  /\ Append(n, q) \in Seq(S) /\ Append(n, q) # <<>>
             /\ Len(Append(n, q)) = Len(n) + 1
             /\ \A k \in 1..Len(n) : Append(n, q)[k] = n[k]
             /\ Append(n, q)[Len(n) + 1] = q
  OBVIOUS
<1>2. ASSUME NEW q \in S
      PROVE  Front(Append(n, q)) = n /\ Last(Append(n, q)) = q
  <2> DEFINE m == Append(n, q)
  <2>1. m \in Seq(S) /\ Len(m) = Len(n) + 1 /\ (\A k \in 1..Len(n) : m[k] = n[k]) /\ m[Len(m)] = q
    BY <1>1
  <2> HIDE DEF m
  <2>2. \A k \in 1..Len(n) : m[k] \in S
    BY <2>1
  <2>3. /\ SubSeq(m, 1, Len(n)) \in Seq(S) /\ Len(SubSeq(m, 1, Len(n))) = Len(n)
        /\ \A k \in 1..Len(n) : SubSeq(m, 1, Len(n))[k] = m[k]
    BY <2>2, SubSeqProperties
  <2>4. SubSeq(m, 1, Len(n)) = n
    BY <2>1, <2>3, SeqEqual
  <2>5. Len(m) - 1 = Len(n)
    BY <2>1
  <2> QED BY <2>1, <2>4, <2>5 DEF Front, Last, m
<1>3. ASSUME n # <<>>
      PROVE  /\ Front(n) \in Seq(S) /\ Last(n) \in S
             /\ Len(n) >= 1 /\ Len(Front(n)) = Len(n) - 1
             /\ \A k \in 1..(Len(n) - 1) : Front(n)[k] = n[k]
  <2>1. Len(n) \in Nat /\ Len(n) >= 1
    BY <1>3, EmptySeq
  <2>2. \A k \in 1..(Len(n) - 1) : n[k] \in S
    BY <2>1
  <2>3. /\ SubSeq(n, 1, Len(n) - 1) \in Seq(S) /\ Len(SubSeq(n, 1, Len(n) - 1)) = Len(n) - 1
        /\ \A k \in 1..(Len(n) - 1) : SubSeq(n, 1, Len(n) - 1)[k] = n[k]
    <3> DEFINE m == Len(n) - 1
    <3>1. m \in Int /\ 1 \in Int /\ (\A k \in 1..m : n[k] \in S) /\ m >= 0
      BY <2>1, <2>2
    <3> HIDE DEF m
    <3>2. /\ SubSeq(n, 1, m) \in Seq(S) /\ Len(SubSeq(n, 1, m)) = IF 1 <= m THEN m - 1 + 1 ELSE 0
          /\ \A k \in 1..(m - 1 + 1) : SubSeq(n, 1, m)[k] = n[1 + k - 1]
      BY <3>1, SubSeqProperties
    <3>3. /\ SubSeq(n, 1, m) \in Seq(S) /\ Len(SubSeq(n, 1, m)) = m
          /\ \A k \in 1..m : SubSeq(n, 1, m)[k] = n[k]
      BY <3>1, <3>2
    <3> QED BY <3>3 DEF m
  <2> QED BY <2>1, <2>3 DEF Front, Last
<1>4. ASSUME n # <<>>
      PROVE  n = Append(Front(n), Last(n))
  <2> DEFINE m == Append(Front(n), Last(n))
             f == Front(n)
             l == Last(n)
  <2>1. /\ f \in Seq(S) /\ l \in S /\ Len(n) \in Nat /\ Len(n) >= 1 /\ Len(f) = Len(n) - 1
        /\ \A k \in 1..(Len(n) - 1) : f[k] = n[k]
    BY <1>3, <1>4
  <2>2. l = n[Len(n)]
    BY DEF Last
  <2> HIDE DEF f, l
  <2>3. /\ Append(f, l) \in Seq(S) /\ Len(Append(f, l)) = Len(n)
        /\ \A k \in 1..Len(n) : Append(f, l)[k] = n[k]
    BY <2>1, <2>2
  <2>4. Append(f, l) = n
    BY <2>3, SeqEqual
  <2> QED BY <2>4 DEF f, l
<1> QED BY <1>1, <1>2, <1>3, <1>4

\* Two paths that agree on their first j quadrants begin alike.
LEMMA SameStart ==
  ASSUME NEW S, NEW m \in Seq(S), NEW n \in Seq(S), NEW j \in Nat, j <= Len(m), j <= Len(n),
         \A i \in 1..j : m[i] = n[i]
  PROVE  SubSeq(m, 1, j) = SubSeq(n, 1, j)
<1> DEFINE a == SubSeq(m, 1, j)
           b == SubSeq(n, 1, j)
<1>1. j \in Int /\ 1 \in Int /\ \A i \in 1..j : m[i] \in S /\ n[i] \in S
  <2>1. Len(m) \in Nat /\ Len(n) \in Nat
    BY LenProperties
  <2> QED BY <2>1
<1>2. /\ a \in Seq(S) /\ Len(a) = (IF 1 <= j THEN j - 1 + 1 ELSE 0)
      /\ \A i \in 1..(j - 1 + 1) : a[i] = m[1 + i - 1]
  BY <1>1, SubSeqProperties
<1>3. /\ b \in Seq(S) /\ Len(b) = (IF 1 <= j THEN j - 1 + 1 ELSE 0)
      /\ \A i \in 1..(j - 1 + 1) : b[i] = n[1 + i - 1]
  BY <1>1, SubSeqProperties
<1> HIDE DEF a, b
<1>4. \A i \in 1..Len(a) : a[i] = b[i]
  BY <1>1, <1>2, <1>3
<1>5. a = b
  BY <1>2, <1>3, <1>4, SeqEqual
<1> QED BY <1>5 DEF a, b

\* A prefix, place by place.
LEMMA PrefixPlaces ==
  ASSUME NEW S, NEW m \in Seq(S), NEW n \in Seq(S)
  PROVE  IsPrefix(m, n) <=> Len(m) <= Len(n) /\ \A k \in 1..Len(m) : m[k] = n[k]
<1> DEFINE L == Len(m)
<1>1. L \in Nat /\ Len(n) \in Nat
  BY LenProperties
<1>2. ASSUME L <= Len(n), \A k \in 1..L : m[k] = n[k]
      PROVE  IsPrefix(m, n)
  <2>1. SubSeq(m, 1, L) = SubSeq(n, 1, L)
    BY <1>1, <1>2, SameStart
  <2> QED BY <1>2, <2>1 DEF IsPrefix
<1>3. ASSUME IsPrefix(m, n)
      PROVE  L <= Len(n) /\ \A k \in 1..L : m[k] = n[k]
  <2>1. L <= Len(n) /\ SubSeq(m, 1, L) = SubSeq(n, 1, L)
    BY <1>3 DEF IsPrefix
  <2>2. ASSUME NEW k \in 1..L
        PROVE  SubSeq(m, 1, L)[k] = m[k] /\ SubSeq(n, 1, L)[k] = n[k]
    <3>1. \A i \in 1..L : m[i] \in S /\ n[i] \in S
      BY <1>1, <2>1
    <3> HIDE DEF L
    <3>2. k \in 1..(L - 1 + 1) /\ 1 + k - 1 = k
      BY <1>1
    <3>3. SubSeq(m, 1, L)[k] = m[1 + k - 1]
      BY <1>1, <3>1, <3>2, SubSeqProperties
    <3>4. SubSeq(n, 1, L)[k] = n[1 + k - 1]
      BY <1>1, <3>1, <3>2, SubSeqProperties
    <3> QED BY <3>2, <3>3, <3>4
  <2> QED BY <2>1, <2>2
<1> QED BY <1>2, <1>3

\* The order of prefixes.
LEMMA PrefixOrder ==
  ASSUME NEW S
  PROVE  /\ <<>> \in Seq(S)
         /\ \A a \in Seq(S) : IsPrefix(a, a) /\ IsPrefix(<<>>, a)
         /\ \A a, b \in Seq(S) : IsPrefix(a, b) /\ IsPrefix(b, a) => a = b
         /\ \A a, b, c \in Seq(S) : IsPrefix(a, b) /\ IsPrefix(b, c) => IsPrefix(a, c)
         /\ \A a, b, c \in Seq(S) :
              IsPrefix(a, c) /\ IsPrefix(b, c) => IsPrefix(a, b) \/ IsPrefix(b, a)
<1>1. <<>> \in Seq(S) /\ Len(<<>>) = 0 /\ \A a \in Seq(S) : Len(a) \in Nat
  BY LenProperties, EmptySeq
<1>2. \A a \in Seq(S) : IsPrefix(a, a) /\ IsPrefix(<<>>, a)
  <2> SUFFICES ASSUME NEW a \in Seq(S) PROVE IsPrefix(a, a) /\ IsPrefix(<<>>, a)
    OBVIOUS
  <2> DEFINE e == <<>>
  <2>1. e \in Seq(S) /\ Len(e) = 0
    BY <1>1
  <2> HIDE DEF e
  <2>2. Len(a) <= Len(a) /\ Len(e) <= Len(a) /\ \A k \in 1..Len(e) : FALSE
    BY <1>1, <2>1
  <2>3. IsPrefix(a, a)
    BY <2>2, PrefixPlaces
  <2>4. IsPrefix(e, a)
    BY <2>1, <2>2, PrefixPlaces
  <2> QED BY <2>3, <2>4 DEF e
<1>3. \A a, b \in Seq(S) : IsPrefix(a, b) /\ IsPrefix(b, a) => a = b
  <2> SUFFICES ASSUME NEW a \in Seq(S), NEW b \in Seq(S), IsPrefix(a, b), IsPrefix(b, a)
               PROVE  a = b
    OBVIOUS
  <2>1. Len(a) = Len(b) /\ \A k \in 1..Len(a) : a[k] = b[k]
    BY <1>1, PrefixPlaces
  <2> QED BY <2>1, SeqEqual
<1>4. \A a, b, c \in Seq(S) : IsPrefix(a, b) /\ IsPrefix(b, c) => IsPrefix(a, c)
  <2> SUFFICES ASSUME NEW a \in Seq(S), NEW b \in Seq(S), NEW c \in Seq(S),
                      IsPrefix(a, b), IsPrefix(b, c)
               PROVE  IsPrefix(a, c)
    OBVIOUS
  <2>1. Len(a) <= Len(b) /\ (\A k \in 1..Len(a) : a[k] = b[k])
    BY PrefixPlaces
  <2>2. Len(b) <= Len(c) /\ (\A k \in 1..Len(b) : b[k] = c[k])
    BY PrefixPlaces
  <2>3. Len(a) <= Len(c) /\ (\A k \in 1..Len(a) : a[k] = c[k])
    BY <1>1, <2>1, <2>2
  <2> QED BY <2>3, PrefixPlaces
<1>5. \A a, b, c \in Seq(S) :
        IsPrefix(a, c) /\ IsPrefix(b, c) => IsPrefix(a, b) \/ IsPrefix(b, a)
  <2> SUFFICES ASSUME NEW a \in Seq(S), NEW b \in Seq(S), NEW c \in Seq(S),
                      IsPrefix(a, c), IsPrefix(b, c)
               PROVE  IsPrefix(a, b) \/ IsPrefix(b, a)
    OBVIOUS
  <2>1. \A k \in 1..Len(a) : a[k] = c[k]
    BY PrefixPlaces
  <2>2. \A k \in 1..Len(b) : b[k] = c[k]
    BY PrefixPlaces
  <2>3. CASE Len(a) <= Len(b)
    BY <1>1, <2>1, <2>2, <2>3, PrefixPlaces
  <2>4. CASE Len(b) <= Len(a)
    BY <1>1, <2>1, <2>2, <2>4, PrefixPlaces
  <2> QED BY <1>1, <2>3, <2>4
<1> QED BY <1>1, <1>2, <1>3, <1>4, <1>5

\* What lies below a path lies on one side of it.
LEMMA PrefixSides ==
  ASSUME NEW S
  PROVE  /\ \A a \in Seq(S), s \in S :
              IsPrefix(a, Append(a, s)) /\ Append(a, s) \in Seq(S) /\ Append(a, s) # a
         /\ \A a, b \in Seq(S), s \in S : IsPrefix(Append(a, s), b) => IsPrefix(a, b) /\ a # b
         /\ \A a, b \in Seq(S) : IsPrefix(a, b) => a = b \/ \E s \in S : IsPrefix(Append(a, s), b)
         /\ \A a, b \in Seq(S), s \in S :
              IsPrefix(b, Append(a, s)) => b = Append(a, s) \/ IsPrefix(b, a)
         /\ \A a, b \in Seq(S), s, u \in S :
              IsPrefix(Append(a, s), b) /\ IsPrefix(Append(a, u), b) => s = u
<1>1. \A a \in Seq(S) : Len(a) \in Nat /\ \A k \in 1..Len(a) : a[k] \in S
  BY LenProperties
<1>2. ASSUME NEW a \in Seq(S), NEW s \in S
      PROVE  /\ Append(a, s) \in Seq(S) /\ Len(Append(a, s)) = Len(a) + 1
             /\ \A k \in 1..Len(a) : Append(a, s)[k] = a[k]
             /\ Append(a, s)[Len(a) + 1] = s
  OBVIOUS
<1>3. \A a \in Seq(S), s \in S :
        IsPrefix(a, Append(a, s)) /\ Append(a, s) \in Seq(S) /\ Append(a, s) # a
  <2> SUFFICES ASSUME NEW a \in Seq(S), NEW s \in S
               PROVE  IsPrefix(a, Append(a, s)) /\ Append(a, s) \in Seq(S) /\ Append(a, s) # a
    OBVIOUS
  <2> DEFINE d == Append(a, s)
  <2>1. d \in Seq(S) /\ Len(d) = Len(a) + 1 /\ \A k \in 1..Len(a) : d[k] = a[k]
    BY <1>2
  <2> HIDE DEF d
  <2>2. IsPrefix(a, d) /\ d # a
    BY <1>1, <2>1, PrefixPlaces
  <2> QED BY <2>1, <2>2 DEF d
<1>4. ASSUME NEW a \in Seq(S), NEW b \in Seq(S), NEW s \in S
      PROVE  /\ IsPrefix(Append(a, s), b)
                  <=> IsPrefix(a, b) /\ Len(a) + 1 <= Len(b) /\ b[Len(a) + 1] = s
             /\ IsPrefix(b, Append(a, s)) => b = Append(a, s) \/ IsPrefix(b, a)
  <2> DEFINE d == Append(a, s)
  <2>1. /\ d \in Seq(S) /\ Len(d) = Len(a) + 1 /\ d[Len(a) + 1] = s
        /\ \A k \in 1..Len(a) : d[k] = a[k]
    BY <1>2
  <2> HIDE DEF d
  <2>2. Len(a) \in Nat /\ Len(b) \in Nat
    BY <1>1
  <2>3. IsPrefix(d, b) <=> Len(d) <= Len(b) /\ \A k \in 1..Len(d) : d[k] = b[k]
    BY <2>1, PrefixPlaces
  <2>4. IsPrefix(a, b) <=> Len(a) <= Len(b) /\ \A k \in 1..Len(a) : a[k] = b[k]
    BY PrefixPlaces
  <2>5. \A k \in 1..Len(d) : k \in 1..Len(a) \/ k = Len(a) + 1
    BY <2>1, <2>2
  <2>6. 1..Len(a) \subseteq 1..Len(d) /\ Len(a) + 1 \in 1..Len(d)
    BY <2>1, <2>2
  <2>7. IsPrefix(d, b) <=> IsPrefix(a, b) /\ Len(a) + 1 <= Len(b) /\ b[Len(a) + 1] = s
    <3>1. IsPrefix(d, b) => IsPrefix(a, b) /\ Len(a) + 1 <= Len(b) /\ b[Len(a) + 1] = s
      BY <2>1, <2>2, <2>3, <2>4, <2>6
    <3>2. IsPrefix(a, b) /\ Len(a) + 1 <= Len(b) /\ b[Len(a) + 1] = s => IsPrefix(d, b)
      BY <2>1, <2>3, <2>4, <2>5
    <3> QED BY <3>1, <3>2
  <2>8. ASSUME IsPrefix(b, d)
        PROVE  b = d \/ IsPrefix(b, a)
    <3>1. Len(b) <= Len(d) /\ \A k \in 1..Len(b) : b[k] = d[k]
      BY <2>1, <2>8, PrefixPlaces
    <3>2. CASE Len(b) = Len(d)
      BY <2>1, <3>1, <3>2, SeqEqual
    <3>3. CASE Len(b) <= Len(a)
      BY <2>1, <2>2, <3>1, <3>3, PrefixPlaces
    <3> QED BY <2>1, <2>2, <3>1, <3>2, <3>3
  <2> QED BY <2>7, <2>8 DEF d
<1>5. \A a, b \in Seq(S), s \in S : IsPrefix(Append(a, s), b) => IsPrefix(a, b) /\ a # b
  <2> SUFFICES ASSUME NEW a \in Seq(S), NEW b \in Seq(S), NEW s \in S, IsPrefix(Append(a, s), b)
               PROVE  IsPrefix(a, b) /\ a # b
    OBVIOUS
  <2>1. IsPrefix(a, b) /\ Len(a) + 1 <= Len(b)
    BY <1>4
  <2> QED BY <1>1, <2>1
<1>6. \A a, b \in Seq(S) : IsPrefix(a, b) => a = b \/ \E s \in S : IsPrefix(Append(a, s), b)
  <2> SUFFICES ASSUME NEW a \in Seq(S), NEW b \in Seq(S), IsPrefix(a, b), a # b
               PROVE  \E s \in S : IsPrefix(Append(a, s), b)
    OBVIOUS
  <2>1. Len(a) <= Len(b) /\ \A k \in 1..Len(a) : a[k] = b[k]
    BY PrefixPlaces
  <2>2. Len(a) # Len(b)
    BY <2>1, SeqEqual
  <2>3. Len(a) + 1 <= Len(b) /\ b[Len(a) + 1] \in S
    BY <1>1, <2>1, <2>2
  <2> QED BY <1>4, <2>3
<1>7. \A a, b \in Seq(S), s, u \in S :
        IsPrefix(Append(a, s), b) /\ IsPrefix(Append(a, u), b) => s = u
  BY <1>4
<1> QED BY <1>3, <1>4, <1>5, <1>6, <1>7

\* The beginnings of a path.
LEMMA PrefixStarts ==
  ASSUME NEW S, NEW m \in Seq(S)
  PROVE  /\ \A k \in 0..Len(m) : /\ SubSeq(m, 1, k) \in Seq(S) /\ Len(SubSeq(m, 1, k)) = k
                                 /\ IsPrefix(SubSeq(m, 1, k), m)
         /\ \A p \in Seq(S) : IsPrefix(p, m) => Len(p) \in 0..Len(m) /\ p = SubSeq(m, 1, Len(p))
<1>1. Len(m) \in Nat /\ \A k \in 1..Len(m) : m[k] \in S
  BY LenProperties
<1>2. ASSUME NEW k \in 0..Len(m)
      PROVE  /\ SubSeq(m, 1, k) \in Seq(S) /\ Len(SubSeq(m, 1, k)) = k
             /\ IsPrefix(SubSeq(m, 1, k), m)
             /\ \A i \in 1..k : SubSeq(m, 1, k)[i] = m[i]
  <2> DEFINE a == SubSeq(m, 1, k)
  <2>1. k \in Int /\ 1 \in Int /\ \A i \in 1..k : m[i] \in S
    BY <1>1
  <2>2. /\ a \in Seq(S) /\ Len(a) = (IF 1 <= k THEN k - 1 + 1 ELSE 0)
        /\ \A i \in 1..(k - 1 + 1) : a[i] = m[1 + i - 1]
    BY <2>1, SubSeqProperties
  <2> HIDE DEF a
  <2>3. Len(a) = k /\ \A i \in 1..k : a[i] = m[i]
    BY <1>1, <2>2
  <2>4. IsPrefix(a, m)
    BY <1>1, <2>2, <2>3, PrefixPlaces
  <2> QED BY <2>2, <2>3, <2>4 DEF a
<1>3. ASSUME NEW p \in Seq(S), IsPrefix(p, m)
      PROVE  Len(p) \in 0..Len(m) /\ p = SubSeq(m, 1, Len(p))
  <2>1. Len(p) \in 0..Len(m) /\ \A i \in 1..Len(p) : p[i] = m[i]
    BY <1>1, <1>3, LenProperties, PrefixPlaces
  <2> DEFINE a == SubSeq(m, 1, Len(p))
  <2>2. a \in Seq(S) /\ Len(a) = Len(p) /\ \A i \in 1..Len(p) : a[i] = m[i]
    BY <1>2, <2>1
  <2> HIDE DEF a
  <2>3. a = p
    BY <2>1, <2>2, SeqEqual
  <2> QED BY <2>1, <2>3 DEF a
<1> QED BY <1>2, <1>3

\* Where two paths part.
LEMMA PathsPart ==
  ASSUME NEW S, NEW a \in Seq(S), NEW b \in Seq(S), ~ IsPrefix(a, b), ~ IsPrefix(b, a)
  PROVE  \E c \in Seq(S) : \E s, u \in S : s # u /\ IsPrefix(Append(c, s), a) /\ IsPrefix(Append(c, u), b)
<1> DEFINE T == {k \in Nat : k <= Len(a) /\ ~ IsPrefix(SubSeq(a, 1, k), b)}
<1>1. Len(a) \in Nat /\ Len(a) \in 0..Len(a) /\ SubSeq(a, 1, Len(a)) = a
  BY LenProperties, PrefixOrder, PrefixStarts
<1>2. T # {}
  <2>1. ~ IsPrefix(SubSeq(a, 1, Len(a)), b)
    BY <1>1
  <2>2. Len(a) \in T
    BY <1>1, <2>1
  <2> QED BY <2>2
<1>3. PICK k \in T : \A j \in T : k <= j
  BY <1>2, LeastNatural
<1> DEFINE c == SubSeq(a, 1, k - 1)
           d == SubSeq(a, 1, k)
<1>4. k # 0
  <2>1. 0 \in 0..Len(a)
    BY <1>1
  <2>2. SubSeq(a, 1, 0) \in Seq(S) /\ Len(SubSeq(a, 1, 0)) = 0
    BY <2>1, PrefixStarts
  <2>3. SubSeq(a, 1, 0) = <<>>
    BY <2>2, EmptySeq
  <2>4. IsPrefix(SubSeq(a, 1, 0), b)
    BY <2>3, PrefixOrder
  <2> QED BY <2>4
<1>5. k \in 0..Len(a) /\ k - 1 \in 0..Len(a) /\ k - 1 \in Nat /\ ~ (k <= k - 1)
  BY <1>1, <1>3, <1>4
<1>6. /\ d \in Seq(S) /\ Len(d) = k /\ IsPrefix(d, a) /\ ~ IsPrefix(d, b)
      /\ c \in Seq(S) /\ Len(c) = k - 1 /\ IsPrefix(c, a) /\ IsPrefix(c, b)
  BY <1>3, <1>5, PrefixStarts
<1> HIDE DEF c, d
<1>7. IsPrefix(c, d)
  <2>1. ~ IsPrefix(d, c)
    BY <1>6, PrefixOrder
  <2> QED BY <1>6, <2>1, PrefixOrder
<1>8. c # d
  BY <1>5, <1>6
<1>9. PICK s \in S : IsPrefix(Append(c, s), d)
  BY <1>6, <1>7, <1>8, PrefixSides
<1>10. c # b
  BY <1>6
<1>11. PICK u \in S : IsPrefix(Append(c, u), b)
  BY <1>6, <1>10, PrefixSides
<1>12. Append(c, s) \in Seq(S) /\ IsPrefix(Append(c, s), a)
  <2>1. Append(c, s) \in Seq(S)
    BY <1>6, PrefixSides
  <2> QED BY <1>6, <1>9, <2>1, PrefixOrder
<1>13. s # u
  <2> SUFFICES ASSUME s = u PROVE FALSE
    OBVIOUS
  <2>1. Append(c, s) = d
    <3> DEFINE e == Append(c, s)
    <3>1. e \in Seq(S) /\ Len(e) = k
      BY <1>5, <1>6
    <3>2. IsPrefix(e, d)
      BY <1>9
    <3> HIDE DEF e
    <3>3. Len(e) = Len(d) /\ \A i \in 1..Len(e) : e[i] = d[i]
      BY <1>6, <3>1, <3>2, PrefixPlaces
    <3>4. e = d
      BY <1>6, <3>1, <3>3, SeqEqual
    <3> QED BY <3>4 DEF e
  <2> QED BY <1>6, <1>11, <2>1
<1> QED BY <1>6, <1>11, <1>12, <1>13

-----------------------------------------------------------------------------
\* A step applied again and again gives a sequence of values.
IsRun(f, S, x, N, G) ==
  /\ f \in [0..N -> S]
  /\ f[0] = x /\ \A d \in 1..N : f[d] = G[d][f[d - 1]]

LEMMA Iterated ==
  ASSUME NEW S, NEW x \in S, NEW N \in Nat,
         NEW G, \A d \in 1..N : \A y \in S : G[d][y] \in S
  PROVE  \E f : IsRun(f, S, x, N, G)
<1> DEFINE Ways(k) == {f \in [0..k -> S] : f[0] = x /\ \A d \in 1..k : f[d] = G[d][f[d - 1]]}
           T == {k \in Nat : k <= N => Ways(k) # {}}
<1>1. 0 \in T
  <2>1. [d \in 0..0 |-> x] \in Ways(0)
    OBVIOUS
  <2> QED BY <2>1
<1>2. ASSUME NEW k \in Nat, k \in T
      PROVE  k + 1 \in T
  <2> SUFFICES ASSUME k + 1 <= N PROVE Ways(k + 1) # {}
    OBVIOUS
  <2>1. PICK f \in Ways(k) : TRUE
    BY <1>2
  <2> DEFINE g == [d \in 0..(k + 1) |-> IF d = k + 1 THEN G[k + 1][f[k]] ELSE f[d]]
  <2>2. \A d \in 0..k : g[d] = f[d] /\ f[d] \in S
    BY <2>1
  <2>3. g[k + 1] = G[k + 1][f[k]] /\ G[k + 1][f[k]] \in S /\ g[0] = x
    BY <2>1
  <2>4. g \in [0..(k + 1) -> S]
    BY <2>2, <2>3
  <2>5. \A d \in 1..(k + 1) : g[d] = G[d][g[d - 1]]
    <3>1. \A d \in 1..k : g[d] = f[d] /\ g[d - 1] = f[d - 1] /\ f[d] = G[d][f[d - 1]]
      BY <2>1, <2>2
    <3>2. g[k + 1] = G[k + 1][g[(k + 1) - 1]]
      BY <2>2, <2>3
    <3>3. \A d \in 1..(k + 1) : d = k + 1 \/ d \in 1..k
      OBVIOUS
    <3> HIDE DEF g
    <3> QED BY <3>1, <3>2, <3>3
  <2> HIDE DEF g
  <2>6. g \in Ways(k + 1)
    BY <2>3, <2>4, <2>5
  <2> QED BY <2>6
<1>3. Nat \subseteq T
  <2> HIDE DEF T
  <2> QED BY <1>1, <1>2, InductiveSet
<1>4. PICK f \in [0..N -> S] : f[0] = x /\ \A d \in 1..N : f[d] = G[d][f[d - 1]]
  <2>1. N \in T /\ N <= N
    BY <1>3
  <2>2. Ways(N) # {}
    BY <2>1
  <2> QED BY <2>2
<1> QED BY <1>4 DEF IsRun
=============================================================================
