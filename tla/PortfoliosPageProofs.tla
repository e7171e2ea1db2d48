------------------------ MODULE PortfoliosPageProofs ------------------------
(***************************************************************************)
(* The portfolios page against its server, for any portfolios, holdings    *)
(* and bounds: the types, with lists that repeat nothing; that a quiet     *)
(* page shows what is stored; that a move exchanges two neighbours of the  *)
(* stored order; and that nothing of a deleted portfolio stays cached.     *)
(***************************************************************************)
EXTENDS PortfoliosPage, TLAPS, FiniteSetTheorems, SequenceTheorems

(***************************************************************************)
(* Lists without repetitions.                                              *)
(***************************************************************************)

ListOf(S) == {s \in Seq(S) : IsInjective(s)}

\* What is in both lists is in the same order.
Agree(s, t) ==
    \A x, y \in ToSet(s) \cap ToSet(t) :
        Position(s, x) < Position(s, y) => Position(t, x) < Position(t, y)
Within(t, s) == ToSet(t) \subseteq ToSet(s) /\ Agree(t, s)

LEMMA IntervalIsFinite ==
    ASSUME NEW n \in Nat
    PROVE  IsFiniteSet(1..n) /\ Cardinality(1..n) = n
<1>1. IsFiniteSet(1..n) /\ Cardinality(1..n) = IF 1 > n THEN 0 ELSE n - 1 + 1
  BY FS_Interval
<1>2. QED
  BY <1>1

LEMMA Elements ==
    ASSUME NEW S, NEW s \in ListOf(S)
    PROVE  /\ s \in Seq(S) /\ Len(s) \in Nat /\ DOMAIN s = 1..Len(s) /\ IsInjective(s)
           /\ ToSet(s) = {s[n] : n \in 1..Len(s)} /\ ToSet(s) \subseteq S
           /\ s \in ListOf(ToSet(s))
           /\ \A m, n \in 1..Len(s) : s[m] = s[n] => m = n
<1>1. s \in Seq(S) /\ Len(s) \in Nat /\ DOMAIN s = 1..Len(s) /\ IsInjective(s)
  BY DEF ListOf
<1>2. ToSet(s) = {s[n] : n \in 1..Len(s)}
  BY <1>1 DEF ToSet
<1>3. ToSet(s) \subseteq S /\ s \in Seq(ToSet(s))
  BY <1>1, <1>2
<1>4. QED
  BY <1>1, <1>2, <1>3 DEF ListOf, IsInjective

LEMMA Positions ==
    ASSUME NEW S, NEW s \in ListOf(S)
    PROVE  /\ \A x \in ToSet(s) : Position(s, x) \in 1..Len(s) /\ s[Position(s, x)] = x
           /\ \A n \in 1..Len(s) : s[n] \in ToSet(s) /\ Position(s, s[n]) = n
           /\ \A x, y \in ToSet(s) : x # y => \/ Position(s, x) < Position(s, y)
                                             \/ Position(s, y) < Position(s, x)
<1>1. \A x \in ToSet(s) : Position(s, x) \in 1..Len(s) /\ s[Position(s, x)] = x
  <2> SUFFICES ASSUME NEW x \in ToSet(s)
               PROVE  Position(s, x) \in 1..Len(s) /\ s[Position(s, x)] = x
    OBVIOUS
  <2>1. \E n \in 1..Len(s) : s[n] = x
    BY Elements
  <2>2. QED
    BY <2>1 DEF Position
<1>2. ASSUME NEW n \in 1..Len(s) PROVE s[n] \in ToSet(s) /\ Position(s, s[n]) = n
  <2>1. s[n] \in ToSet(s)
    BY Elements
  <2>2. Position(s, s[n]) \in 1..Len(s) /\ s[Position(s, s[n])] = s[n]
    BY <1>1, <2>1
  <2>3. \A i, j \in 1..Len(s) : s[i] = s[j] => i = j
    BY Elements
  <2>4. QED
    BY <2>1, <2>2, <2>3
<1>3. ASSUME NEW x \in ToSet(s), NEW y \in ToSet(s), x # y
      PROVE  Position(s, x) < Position(s, y) \/ Position(s, y) < Position(s, x)
  <2>1. Position(s, x) # Position(s, y)
    BY <1>1, <1>3
  <2>2. Len(s) \in Nat
    BY Elements
  <2>3. Position(s, x) \in 1..Len(s) /\ Position(s, y) \in 1..Len(s)
    BY <1>1
  <2>4. QED
    BY <2>1, <2>2, <2>3
<1>4. QED
  BY <1>1, <1>2, <1>3

\* The place of a member is the number of those that are not behind it.
Ahead(s, x) == {y \in ToSet(s) : Position(s, y) <= Position(s, x)}
LEMMA PositionCounts ==
    ASSUME NEW S, NEW s \in ListOf(S), NEW x \in ToSet(s)
    PROVE  Position(s, x) = Cardinality(Ahead(s, x))
<1> DEFINE N == Position(s, x)
           f == [n \in 1..N |-> s[n]]
<1>1. N \in 1..Len(s) /\ Len(s) \in Nat
  BY Positions, Elements
<1> HIDE DEF N
<1>2. \A n \in 1..N : n \in 1..Len(s)
  BY <1>1
<1>3. ASSUME NEW n \in 1..N PROVE f[n] \in Ahead(s, x)
  <2>1. f[n] = s[n] /\ s[n] \in ToSet(s) /\ Position(s, s[n]) = n
    BY <1>2, Positions
  <2>2. QED
    BY <1>1, <2>1 DEF Ahead, N
<1>4. ASSUME NEW y \in Ahead(s, x) PROVE \E n \in 1..N : f[n] = y
  <2>1. Position(s, y) \in 1..Len(s) /\ s[Position(s, y)] = y /\ Position(s, y) <= N
    BY Positions DEF Ahead, N
  <2>2. QED
    BY <1>1, <2>1
<1>5. ASSUME NEW m \in 1..N, NEW n \in 1..N, f[m] = f[n] PROVE m = n
  BY <1>2, <1>5, Elements
<1>6. f \in Bijection(1..N, Ahead(s, x))
  BY <1>3, <1>4, <1>5 DEF Bijection, Injection, Surjection, IsInjective
<1>7. ExistsBijection(1..N, Ahead(s, x))
  BY <1>6 DEF ExistsBijection
<1>8. IsFiniteSet(1..N) /\ Cardinality(1..N) = N
  BY <1>1, IntervalIsFinite
<1>9. QED
  BY <1>7, <1>8, FS_Bijection DEF N

\* Lists of the same members in the same order are the same.
LEMMA SameList ==
    ASSUME NEW S, NEW s \in ListOf(S), NEW T, NEW t \in ListOf(T),
           ToSet(s) = ToSet(t), Agree(s, t)
    PROVE  s = t
<1>1. ASSUME NEW x \in ToSet(s), NEW y \in ToSet(s)
      PROVE  Position(s, y) <= Position(s, x) <=> Position(t, y) <= Position(t, x)
  <2>1. /\ Position(s, x) \in Nat /\ Position(s, y) \in Nat
        /\ Position(t, x) \in Nat /\ Position(t, y) \in Nat
    <3>1. \A n \in 1..Len(s) : n \in Nat
      OBVIOUS
    <3>2. \A n \in 1..Len(t) : n \in Nat
      OBVIOUS
    <3>3. QED
      BY <3>1, <3>2, Positions
  <2>2. /\ Position(s, x) < Position(s, y) => Position(t, x) < Position(t, y)
        /\ Position(s, y) < Position(s, x) => Position(t, y) < Position(t, x)
    BY DEF Agree
  <2>3. x # y => \/ Position(s, x) < Position(s, y) \/ Position(s, y) < Position(s, x)
    BY Positions
  <2>4. QED
    BY <2>1, <2>2, <2>3
<1>2. ASSUME NEW x \in ToSet(s) PROVE Position(s, x) = Position(t, x)
  <2>1. Ahead(s, x) = Ahead(t, x)
    BY <1>1 DEF Ahead
  <2>2. QED
    BY <2>1, PositionCounts
<1>3. Len(s) \in Nat /\ Len(t) \in Nat
  BY Elements
<1>4. ASSUME NEW n \in 1..Len(s) PROVE n \in 1..Len(t) /\ t[n] = s[n]
  BY <1>2, Positions
<1>5. ASSUME NEW n \in 1..Len(t) PROVE n \in 1..Len(s)
  BY <1>2, Positions
<1>6. Len(s) = Len(t)
  BY <1>3, <1>4, <1>5
<1>7. s = [n \in 1..Len(s) |-> s[n]] /\ t = [n \in 1..Len(t) |-> t[n]]
  <2>1. s \in Seq(S) /\ t \in Seq(T)
    BY Elements
  <2>2. QED
    BY <2>1
<1>8. QED
  BY <1>4, <1>6, <1>7

LEMMA ListLength ==
    ASSUME NEW S, NEW s \in ListOf(S)
    PROVE  IsFiniteSet(ToSet(s)) /\ Cardinality(ToSet(s)) = Len(s)
<1>1. Len(s) \in Nat /\ IsFiniteSet(1..Len(s)) /\ Cardinality(1..Len(s)) = Len(s)
  BY Elements, IntervalIsFinite
<1>2. s \in Bijection(1..Len(s), ToSet(s))
  <2>1. s \in [1..Len(s) -> ToSet(s)]
    BY Elements, Positions
  <2>2. QED
    BY <2>1, Elements DEF Bijection, Injection, Surjection, IsInjective
<1>3. ExistsBijection(1..Len(s), ToSet(s))
  BY <1>2 DEF ExistsBijection
<1>4. QED
  BY <1>1, <1>3, FS_Bijection

\* What is kept of a list: the n-th of the places it had there.
Places(s, S) == {n \in 1..Len(s) : s[n] \in S}
UpTo(P, n) == {k \in P : k <= n}
Count(P, n) == Cardinality(UpTo(P, n))

LEMMA CountIsBijection ==
    ASSUME NEW N \in Nat, NEW P \in SUBSET (1..N)
    PROVE  /\ Cardinality(P) \in Nat
           /\ \A n \in P : Count(P, n) \in 1..Cardinality(P)
           /\ \A m, n \in P : m < n => Count(P, m) < Count(P, n)
           /\ \A m \in 1..Cardinality(P) : \E n \in P : Count(P, n) = m
<1> DEFINE T == 1..Cardinality(P)
           c == [n \in P |-> Count(P, n)]
<1>1. IsFiniteSet(P) /\ Cardinality(P) \in Nat /\ P \subseteq Nat
  <2>1. IsFiniteSet(1..N)
    BY IntervalIsFinite
  <2>2. IsFiniteSet(P)
    BY <2>1, FS_Subset
  <2>3. QED
    BY <2>2, FS_CardinalityType
<1>2. ASSUME NEW n \in P
      PROVE  /\ IsFiniteSet(UpTo(P, n)) /\ Count(P, n) \in Nat
             /\ Count(P, n) <= Cardinality(P) /\ Count(P, n) # 0
  <2> DEFINE B == UpTo(P, n)
  <2>1. B \in SUBSET P /\ n \in B
    BY <1>1 DEF UpTo
  <2> HIDE DEF B
  <2>2. IsFiniteSet(B) /\ Cardinality(B) <= Cardinality(P)
    BY <1>1, <2>1, FS_Subset
  <2>3. Cardinality(B) \in Nat /\ Cardinality(B) # 0
    BY <2>1, <2>2, FS_CardinalityType, FS_EmptySet
  <2>4. QED
    BY <2>2, <2>3 DEF B, Count
<1>3. ASSUME NEW m \in P, NEW n \in P, m < n PROVE Count(P, m) < Count(P, n)
  <2> DEFINE A == UpTo(P, m)
             B == UpTo(P, n)
  <2>0. m \in Nat /\ n \in Nat
    BY <1>1
  <2>1. A \in SUBSET B /\ n \in B /\ n \notin A
    <3>1. ASSUME NEW k \in A PROVE k \in B
      <4>1. k \in P /\ k \in Nat /\ k <= m
        BY <1>1 DEF UpTo
      <4>2. QED
        BY <1>3, <2>0, <4>1 DEF UpTo
    <3>2. n \in B /\ n \notin A
      BY <1>3, <2>0 DEF UpTo
    <3>3. QED
      BY <3>1, <3>2
  <2>2. Count(P, m) = Cardinality(A) /\ Count(P, n) = Cardinality(B) /\ IsFiniteSet(B)
    BY <1>2 DEF Count
  <2> HIDE DEF A, B
  <2>3. Cardinality(A) <= Cardinality(B) /\ Cardinality(A) # Cardinality(B)
    BY <2>1, <2>2, FS_Subset
  <2>4. QED
    BY <1>2, <2>2, <2>3
<1>4. ASSUME NEW n \in P PROVE Count(P, n) \in T
  BY <1>1, <1>2
<1>5. ASSUME NEW m \in P, NEW n \in P, Count(P, m) = Count(P, n) PROVE m = n
  <2>1. ~ (m < n) /\ ~ (n < m)
    BY <1>2, <1>3, <1>5
  <2>2. QED
    BY <1>1, <2>1
<1>6. c \in Injection(P, T)
  BY <1>4, <1>5 DEF Injection, IsInjective
<1>7. IsFiniteSet(T) /\ Cardinality(T) = Cardinality(P)
  BY <1>1, IntervalIsFinite
<1>8. c \in Surjection(P, T)
  BY <1>6, <1>7, FS_Injection
<1>9. \A m \in T : \E n \in P : Count(P, n) = m
  BY <1>8 DEF Surjection
<1>10. QED
  BY <1>1, <1>3, <1>4, <1>9

\* A filter leaves the members it is for, in the order they had.
LEMMA KeptIs ==
    ASSUME NEW S, NEW s \in ListOf(S), NEW K
    PROVE  /\ Kept(s, K) \in ListOf(ToSet(s) \cap K)
           /\ ToSet(Kept(s, K)) = ToSet(s) \cap K
           /\ Within(Kept(s, K), s)
<1> DEFINE P == Places(s, K)
           N == Cardinality(P)
           t == Kept(s, K)
           at == [m \in 1..N |-> CHOOSE n \in P : Count(P, n) = m]
<1>1. Len(s) \in Nat /\ P \in SUBSET (1..Len(s)) /\ P \subseteq Nat
  BY Elements DEF Places
<1>2. /\ N \in Nat /\ \A n \in P : Count(P, n) \in 1..N
      /\ \A m, n \in P : m < n => Count(P, m) < Count(P, n)
      /\ \A m \in 1..N : \E n \in P : Count(P, n) = m
  BY <1>1, CountIsBijection
<1>3. t = [m \in 1..N |-> s[at[m]]]
  BY DEF Kept, Places, Count, UpTo
<1>4. ASSUME NEW m \in 1..N PROVE at[m] \in P /\ Count(P, at[m]) = m
  BY <1>2
<1> HIDE DEF at, P
<1>5. ASSUME NEW m \in 1..N PROVE s[at[m]] \in ToSet(s) \cap K
  <2>1. at[m] \in 1..Len(s) /\ s[at[m]] \in K
    BY <1>4 DEF P, Places
  <2>2. QED
    BY <2>1, Positions
<1> HIDE DEF t, N
<1>6. t \in Seq(ToSet(s) \cap K) /\ Len(t) = N /\ DOMAIN t = 1..N
  BY <1>2, <1>3, <1>5
<1>7. ASSUME NEW m \in 1..N, NEW n \in 1..N, t[m] = t[n] PROVE m = n
  <2>1. at[m] \in 1..Len(s) /\ at[n] \in 1..Len(s) /\ s[at[m]] = s[at[n]]
    BY <1>1, <1>3, <1>4, <1>7
  <2>2. at[m] = at[n]
    BY <2>1, Elements
  <2>3. QED
    BY <1>4, <2>2
<1>8. t \in ListOf(ToSet(s) \cap K)
  BY <1>6, <1>7 DEF ListOf, IsInjective
<1>9. ASSUME NEW x \in ToSet(s) \cap K PROVE \E m \in 1..N : t[m] = x
  <2>1. Position(s, x) \in P /\ s[Position(s, x)] = x
    BY Positions DEF P, Places
  <2>2. Count(P, Position(s, x)) \in 1..N
    BY <1>2, <2>1
  <2> DEFINE m == Count(P, Position(s, x))
  <2>3. at[m] \in P /\ Count(P, at[m]) = m
    BY <1>4, <2>2
  <2>4. at[m] = Position(s, x)
    <3>1. ~ (at[m] < Position(s, x)) /\ ~ (Position(s, x) < at[m])
      BY <1>2, <2>1, <2>2, <2>3
    <3>2. at[m] \in Nat /\ Position(s, x) \in Nat
      BY <1>1, <2>1, <2>3
    <3>3. QED
      BY <3>1, <3>2
  <2>5. QED
    BY <1>3, <2>1, <2>2, <2>4
<1>10. ToSet(t) = ToSet(s) \cap K
  BY <1>8, <1>9, <1>6, Elements
<1>11. ASSUME NEW x \in ToSet(t), NEW y \in ToSet(t), Position(t, x) < Position(t, y)
       PROVE  Position(s, x) < Position(s, y)
  <2> DEFINE m == Position(t, x)
             n == Position(t, y)
  <2>1. m \in 1..N /\ n \in 1..N /\ t[m] = x /\ t[n] = y
    BY <1>6, <1>8, Positions
  <2>2. s[at[m]] = x /\ s[at[n]] = y /\ at[m] \in 1..Len(s) /\ at[n] \in 1..Len(s)
    BY <1>1, <1>3, <1>4, <2>1
  <2>3. Position(s, x) = at[m] /\ Position(s, y) = at[n]
    BY <2>2, Positions
  <2>4. at[m] \in P /\ at[n] \in P /\ Count(P, at[m]) = m /\ Count(P, at[n]) = n /\ m < n
    BY <1>4, <1>11, <2>1
  <2> HIDE DEF m, n
  <2>5. ~ (at[n] < at[m]) /\ at[m] # at[n]
    BY <1>2, <2>1, <2>4
  <2>6. at[m] \in Nat /\ at[n] \in Nat
    BY <1>1, <2>4
  <2>7. at[m] < at[n]
    BY <2>5, <2>6
  <2>8. QED
    BY <2>3, <2>7
<1>12. QED
  BY <1>8, <1>10, <1>11 DEF Within, Agree, t

LEMMA AgreeBack ==
    ASSUME NEW S, NEW s \in ListOf(S), NEW T, NEW t \in ListOf(T), Agree(s, t)
    PROVE  Agree(t, s)
<1> SUFFICES ASSUME NEW x \in ToSet(t) \cap ToSet(s), NEW y \in ToSet(t) \cap ToSet(s),
                    Position(t, x) < Position(t, y)
             PROVE  Position(s, x) < Position(s, y)
  BY DEF Agree
<1>1. Len(t) \in Nat /\ Position(t, x) \in 1..Len(t) /\ Position(t, y) \in 1..Len(t)
  BY Elements, Positions
<1>2. x # y /\ ~ (Position(t, y) < Position(t, x))
  BY <1>1
<1>3. ~ (Position(s, y) < Position(s, x))
  BY <1>2 DEF Agree
<1>4. QED
  BY <1>2, <1>3, Positions

LEMMA AgreeWithin ==
    ASSUME NEW R, NEW r \in ListOf(R), NEW S, NEW s \in ListOf(S), NEW T, NEW t \in ListOf(T)
    PROVE  /\ Agree(r, s) /\ Within(t, s) => Agree(r, t)
           /\ Agree(s, r) /\ Within(t, s) => Agree(t, r)
           /\ Within(s, r) /\ Within(t, s) => Within(t, r)
<1>1. ASSUME Agree(r, s), Within(t, s) PROVE Agree(r, t)
  <2>1. Agree(s, t)
    BY <1>1, AgreeBack DEF Within
  <2>2. QED
    BY <1>1, <2>1 DEF Agree, Within
<1>2. Agree(s, r) /\ Within(t, s) => Agree(t, r)
  BY DEF Agree, Within
<1>3. QED
  BY <1>1, <1>2 DEF Within

LEMMA WithinSelf == \A s : Within(s, s)
  BY DEF Within, Agree

LEMMA EmptyList ==
    /\ \A S : <<>> \in ListOf(S)
    /\ ToSet(<<>>) = {} /\ IsInjective(<<>>)
    /\ \A s : Within(<<>>, s)
    /\ \A S : \A s \in ListOf(S) : ToSet(s) = {} => s = <<>>
<1>1. IsInjective(<<>>) /\ ToSet(<<>>) = {}
  BY DEF IsInjective, ToSet
<1>2. \A S : <<>> \in ListOf(S)
  BY <1>1 DEF ListOf
<1>3. \A s : Within(<<>>, s)
  BY <1>1 DEF Within, Agree
<1>4. ASSUME NEW S, NEW s \in ListOf(S), ToSet(s) = {} PROVE s = <<>>
  <2>1. s \in Seq(S) /\ \A n \in 1..Len(s) : s[n] \in ToSet(s)
    BY Elements, Positions
  <2>2. Len(s) = 0
    BY <1>4, <2>1
  <2>3. QED
    BY <2>1, <2>2
<1>5. QED
  BY <1>1, <1>2, <1>3, <1>4

LEMMA OneElement ==
    ASSUME NEW S, NEW x \in S
    PROVE  <<x>> \in ListOf(S) /\ ToSet(<<x>>) = {x} /\ Len(<<x>>) = 1 /\ Head(<<x>>) = x
<1>1. <<x>> \in Seq(S) /\ Len(<<x>>) = 1 /\ DOMAIN <<x>> = {1} /\ Head(<<x>>) = x
  OBVIOUS
<1>2. QED
  BY <1>1 DEF ListOf, IsInjective, ToSet

\* Nothing is left out by a filter that fits every member.
LEMMA AllKept ==
    ASSUME NEW S, NEW s \in ListOf(S), NEW K, ToSet(s) \subseteq K
    PROVE  Kept(s, K) = s
<1>1. /\ Kept(s, K) \in ListOf(ToSet(s) \cap K) /\ ToSet(Kept(s, K)) = ToSet(s)
      /\ Agree(Kept(s, K), s)
  BY KeptIs DEF Within
<1>2. QED
  BY <1>1, SameList

LEMMA ConcatIs ==
    ASSUME NEW S, NEW u \in ListOf(S), NEW v \in ListOf(S), ToSet(u) \cap ToSet(v) = {}
    PROVE  /\ u \o v \in ListOf(S) /\ ToSet(u \o v) = ToSet(u) \cup ToSet(v)
           /\ Within(u, u \o v)
<1> DEFINE t == u \o v
           M == Len(u)
           N == Len(v)
<1>1. M \in Nat /\ N \in Nat /\ u \in Seq(S) /\ v \in Seq(S)
  BY Elements
<1>2. /\ t \in Seq(S) /\ Len(t) = M + N /\ DOMAIN t = 1..(M + N)
      /\ \A n \in 1..(M + N) : t[n] = IF n <= M THEN u[n] ELSE v[n - M]
  BY <1>1
<1> HIDE DEF t, M, N
<1>3. ASSUME NEW n \in 1..(M + N)
      PROVE  IF n <= M THEN n \in 1..M /\ t[n] = u[n] /\ t[n] \in ToSet(u)
                       ELSE n - M \in 1..N /\ t[n] = v[n - M] /\ t[n] \in ToSet(v)
  <2>1. CASE n <= M
    <3>1. n \in 1..M
      BY <1>1, <2>1
    <3>2. u[n] \in ToSet(u)
      BY <3>1, Positions DEF M
    <3>3. QED
      BY <1>2, <2>1, <3>1, <3>2
  <2>2. CASE ~ (n <= M)
    <3>1. n - M \in 1..N
      BY <1>1, <2>2
    <3>2. v[n - M] \in ToSet(v)
      BY <3>1, Positions DEF N
    <3>3. QED
      BY <1>2, <2>2, <3>1, <3>2
  <2>3. QED
    BY <2>1, <2>2
<1>4. ASSUME NEW m \in 1..(M + N), NEW n \in 1..(M + N), t[m] = t[n] PROVE m = n
  <2>1. CASE m <= M /\ n <= M
    <3>1. m \in 1..M /\ n \in 1..M /\ u[m] = u[n]
      BY <1>3, <1>4, <2>1
    <3>2. QED
      BY <3>1, Elements DEF M
  <2>2. CASE ~ (m <= M) /\ ~ (n <= M)
    <3>1. m - M \in 1..N /\ n - M \in 1..N /\ v[m - M] = v[n - M]
      BY <1>3, <1>4, <2>2
    <3>2. m - M = n - M
      BY <3>1, Elements DEF N
    <3>3. QED
      BY <1>1, <3>2
  <2>3. CASE (m <= M) # (n <= M)
    <3>1. \/ t[m] \in ToSet(u) /\ t[n] \in ToSet(v)
          \/ t[m] \in ToSet(v) /\ t[n] \in ToSet(u)
      BY <1>3, <2>3
    <3>2. QED
      BY <1>4, <3>1
  <2>4. QED
    BY <2>1, <2>2, <2>3
<1>5. t \in ListOf(S)
  BY <1>2, <1>4 DEF ListOf, IsInjective
<1>6. ASSUME NEW n \in 1..M PROVE n \in 1..(M + N) /\ t[n] = u[n]
  <2>1. n \in 1..(M + N) /\ n <= M
    BY <1>1
  <2>2. QED
    BY <1>2, <2>1
<1>7. ASSUME NEW n \in 1..N PROVE n + M \in 1..(M + N) /\ t[n + M] = v[n]
  <2>1. n + M \in 1..(M + N) /\ ~ (n + M <= M) /\ (n + M) - M = n
    BY <1>1
  <2>2. QED
    BY <1>2, <2>1
<1>8. ToSet(t) = ToSet(u) \cup ToSet(v)
  <2>1. ToSet(t) = {t[n] : n \in 1..(M + N)}
    BY <1>2, <1>5, Elements
  <2>2. ToSet(u) = {u[n] : n \in 1..M} /\ ToSet(v) = {v[n] : n \in 1..N}
    BY Elements DEF M, N
  <2>3. ToSet(t) \subseteq ToSet(u) \cup ToSet(v)
    BY <1>3, <2>1
  <2>4. ToSet(u) \subseteq ToSet(t)
    BY <1>6, <2>1, <2>2
  <2>5. ToSet(v) \subseteq ToSet(t)
    BY <1>7, <2>1, <2>2
  <2>6. QED
    BY <2>3, <2>4, <2>5
<1>9. ASSUME NEW x \in ToSet(u) PROVE Position(t, x) = Position(u, x)
  <2>1. Position(u, x) \in 1..M /\ u[Position(u, x)] = x
    BY Positions DEF M
  <2>2. Position(u, x) \in 1..Len(t) /\ t[Position(u, x)] = x
    BY <1>2, <1>6, <2>1
  <2>3. QED
    BY <1>5, <2>2, Positions
<1>10. Within(u, t)
  BY <1>8, <1>9 DEF Within, Agree
<1>11. QED
  BY <1>5, <1>8, <1>10 DEF t

LEMMA AppendIs ==
    ASSUME NEW S, NEW s \in ListOf(S), NEW x \in S, x \notin ToSet(s)
    PROVE  /\ Append(s, x) \in ListOf(S) /\ ToSet(Append(s, x)) = ToSet(s) \cup {x}
           /\ Within(s, Append(s, x)) /\ Append(s, x) # <<>>
<1>1. Append(s, x) = s \o <<x>>
  BY Elements
<1>2. <<x>> \in ListOf(S) /\ ToSet(<<x>>) = {x}
  BY OneElement
<1>3. s \o <<x>> \in ListOf(S) /\ ToSet(s \o <<x>>) = ToSet(s) \cup {x} /\ Within(s, s \o <<x>>)
  BY <1>2, ConcatIs
<1>4. ToSet(s \o <<x>>) # {}
  BY <1>3
<1>5. QED
  BY <1>1, <1>3, <1>4, EmptyList

\* Two neighbours change places.
LEMMA SwappedIs ==
    ASSUME NEW S, NEW s \in ListOf(S), NEW i \in 2..Len(s)
    PROVE  Swapped(s, i) \in ListOf(S) /\ ToSet(Swapped(s, i)) = ToSet(s)
<1> DEFINE t == Swapped(s, i)
<1>1. s \in Seq(S) /\ Len(s) \in Nat /\ i \in 1..Len(s) /\ i - 1 \in 1..Len(s) /\ i - 1 # i
  BY Elements
<1>2. /\ DOMAIN t = 1..Len(s) /\ t[i] = s[i - 1] /\ t[i - 1] = s[i]
      /\ \A n \in 1..Len(s) : n # i /\ n # i - 1 => t[n] = s[n]
      /\ t \in Seq(S) /\ Len(t) = Len(s)
  BY <1>1 DEF Swapped
<1>3. \A m, n \in 1..Len(s) : s[m] = s[n] => m = n
  BY Elements
<1> HIDE DEF t
<1>4. \A m, n \in 1..Len(s) : t[m] = t[n] => m = n
  BY <1>1, <1>2, <1>3
<1>5. t \in ListOf(S)
  BY <1>2, <1>4 DEF ListOf, IsInjective
<1>6. ToSet(t) = {t[n] : n \in 1..Len(s)} /\ ToSet(s) = {s[n] : n \in 1..Len(s)}
  BY <1>2, <1>5, Elements
<1>7. \A n \in 1..Len(s) : t[n] \in ToSet(s)
  BY <1>1, <1>2, <1>6
<1>8. ASSUME NEW n \in 1..Len(s) PROVE s[n] \in ToSet(t)
  <2>1. \E m \in 1..Len(s) : t[m] = s[n]
    BY <1>1, <1>2
  <2>2. QED
    BY <1>6, <2>1
<1>9. QED
  BY <1>5, <1>6, <1>7, <1>8 DEF t


LEMMA InsertedAt ==
    ASSUME NEW S, NEW s \in ListOf(S), NEW n \in 1..(Len(s) + 1), NEW e \in S, e \notin ToSet(s)
    PROVE  InsertAt(s, n, e) \in ListOf(S)
<1> DEFINE t == InsertAt(s, n, e)
<1>1. /\ Len(s) \in Nat /\ s \in Seq(S) /\ \A i, j \in 1..Len(s) : s[i] = s[j] => i = j
      /\ \A i \in 1..Len(s) : s[i] # e
  BY Elements, Positions
<1>2. /\ t \in Seq(S) /\ Len(t) = Len(s) + 1 /\ DOMAIN t = 1..(Len(s) + 1)
      /\ \A m \in 1..(Len(s) + 1) :
            t[m] = IF m < n THEN s[m] ELSE IF m = n THEN e ELSE s[m - 1]
  <2> DEFINE N == Len(s)
             a == SubSeq(s, 1, n - 1)
             b == SubSeq(s, n, N)
  <2>1. t = a \o <<e>> \o b
    BY DEF InsertAt
  <2>2. /\ a \in Seq(S) /\ Len(a) = n - 1 /\ \A m \in 1..(n - 1) : a[m] = s[m]
    BY <1>1
  <2>3. /\ b \in Seq(S) /\ Len(b) = N + 1 - n /\ \A m \in 1..(N + 1 - n) : b[m] = s[m + n - 1]
    BY <1>1
  <2>4. N \in Nat /\ n \in 1..(N + 1)
    BY <1>1
  <2> HIDE DEF t, a, b, N
  <2>5. /\ a \o <<e>> \in Seq(S) /\ Len(a \o <<e>>) = n
        /\ \A m \in 1..n : (a \o <<e>>)[m] = IF m < n THEN s[m] ELSE e
    BY <2>2, <2>4
  <2> DEFINE c == a \o <<e>>
  <2> HIDE DEF c
  <2>6. /\ c \in Seq(S) /\ Len(c) = n /\ t = c \o b
        /\ \A m \in 1..n : c[m] = IF m < n THEN s[m] ELSE e
    BY <2>1, <2>5 DEF c
  <2>7. t \in Seq(S) /\ Len(t) = N + 1 /\ DOMAIN t = 1..(N + 1)
    <3>0. b \in Seq(S) /\ c \in Seq(S) /\ t = c \o b /\ Len(b) = N + 1 - n /\ Len(c) = n
      BY <2>3, <2>6
    <3>1. t \in Seq(S) /\ Len(t) = n + (N + 1 - n)
      <4>1. c \o b \in Seq(S) /\ Len(c \o b) = Len(c) + Len(b)
        BY <3>0, ConcatProperties
      <4>2. QED
        BY <3>0, <4>1
    <3>2. n + (N + 1 - n) = N + 1
      BY <2>4
    <3>3. QED
      BY <3>1, <3>2
  <2>8. ASSUME NEW m \in 1..(N + 1)
        PROVE  t[m] = IF m < n THEN s[m] ELSE IF m = n THEN e ELSE s[m - 1]
    <3>1. CASE m <= n
      <4>1. m \in 1..n /\ t[m] = c[m]
        BY <2>3, <2>4, <2>6, <3>1
      <4>2. QED
        BY <2>4, <2>6, <3>1, <4>1
    <3>2. CASE ~ (m <= n)
      <4>1. m - n \in 1..(N + 1 - n) /\ t[m] = b[m - n] /\ (m - n) + n - 1 = m - 1
        BY <2>3, <2>4, <2>6, <3>2
      <4>2. QED
        BY <2>3, <2>4, <3>2, <4>1
    <3>3. QED
      BY <3>1, <3>2
  <2>9. QED
    BY <2>7, <2>8 DEF N
<1> HIDE DEF t
<1>3. ASSUME NEW i \in 1..(Len(s) + 1), NEW j \in 1..(Len(s) + 1), t[i] = t[j]
      PROVE  i = j
  <2>1. /\ i < n => i \in 1..Len(s)
        /\ ~ (i < n) /\ i # n => i - 1 \in 1..Len(s)
        /\ j < n => j \in 1..Len(s)
        /\ ~ (j < n) /\ j # n => j - 1 \in 1..Len(s)
    BY <1>1
  <2>2. CASE i = n \/ j = n
    <3>1. i # n => t[i] # e
      BY <1>1, <1>2, <2>1
    <3>2. j # n => t[j] # e
      BY <1>1, <1>2, <2>1
    <3>3. i = n => t[i] = e
      BY <1>1, <1>2
    <3>4. j = n => t[j] = e
      BY <1>1, <1>2
    <3>5. QED
      BY <1>3, <2>2, <3>1, <3>2, <3>3, <3>4
  <2>3. CASE i # n /\ j # n
    <3>1. (IF i < n THEN i ELSE i - 1) = (IF j < n THEN j ELSE j - 1)
      BY <1>1, <1>2, <1>3, <2>1, <2>3
    <3>2. QED
      BY <1>1, <2>3, <3>1
  <2>4. QED
    BY <2>2, <2>3
<1>4. QED
  BY <1>2, <1>3 DEF t, ListOf, IsInjective

LEMMA DraggedIs ==
    ASSUME NEW S, NEW s \in ListOf(S), NEW h \in ToSet(s), NEW g \in ToSet(s)
    PROVE  Dragged(s, h, g) \in ListOf(S)
<1> DEFINE K == ToSet(s) \ {h}
           w == Without(s, h)
<1>1. w \in ListOf(ToSet(s) \cap K) /\ ToSet(w) = ToSet(s) \cap K
  BY KeptIs DEF Without
<1>2. ToSet(s) \cap K = K /\ ToSet(s) \subseteq S
  BY Elements
<1> HIDE DEF w
<1>3. w \in ListOf(S) /\ h \notin ToSet(w)
  BY <1>1, <1>2 DEF ListOf
<1>4. IsFiniteSet(ToSet(s)) /\ Cardinality(ToSet(s)) = Len(s) /\ Cardinality(ToSet(w)) = Len(w)
  BY <1>3, ListLength
<1>5. Cardinality(K) = Cardinality(ToSet(s)) - 1
  BY <1>4, FS_RemoveElement
<1>6. Len(s) \in Nat /\ Len(w) \in Nat /\ Len(s) = Len(w) + 1
  <2>1. Len(s) \in Nat /\ Len(w) \in Nat
    BY <1>3, Elements
  <2>2. Len(w) = Len(s) - 1
    BY <1>1, <1>2, <1>4, <1>5
  <2>3. QED
    BY <2>1, <2>2
<1>7. Position(s, g) \in 1..(Len(w) + 1) /\ h \in S
  BY <1>2, <1>6, Positions
<1>8. InsertAt(w, Position(s, g), h) \in ListOf(S)
  BY <1>3, <1>7, InsertedAt
<1>9. QED
  BY <1>8 DEF Dragged, w

LEMMA WithoutIs ==
    ASSUME NEW S, NEW s \in ListOf(S), NEW x
    PROVE  /\ Without(s, x) \in ListOf(S) /\ ToSet(Without(s, x)) = ToSet(s) \ {x}
           /\ Within(Without(s, x), s)
<1> DEFINE K == ToSet(s) \ {x}
<1>1. /\ Kept(s, K) \in ListOf(ToSet(s) \cap K) /\ ToSet(Kept(s, K)) = ToSet(s) \cap K
      /\ Within(Kept(s, K), s)
  BY KeptIs
<1>2. ToSet(s) \cap K = ToSet(s) \ {x} /\ ToSet(s) \subseteq S
  BY Elements
<1>3. Kept(s, K) \in ListOf(S)
  BY <1>1, <1>2 DEF ListOf
<1>4. QED
  BY <1>1, <1>2, <1>3 DEF Without

\* reconcileOrderIds: the items, first those of ids in the order of ids.
LEMMA ReconcileIs ==
    ASSUME NEW S, NEW ids \in ListOf(S), NEW items \in ListOf(S)
    PROVE  /\ Reconcile(ids, items) \in ListOf(S)
           /\ ToSet(Reconcile(ids, items)) = ToSet(items)
           /\ ids = <<>> => Reconcile(ids, items) = items
           /\ \A t \in ListOf(S) : Within(t, ids) /\ ToSet(t) \subseteq ToSet(items) =>
                 Within(t, Reconcile(ids, items))
<1> DEFINE K == ToSet(items) \ ToSet(ids)
           u == Kept(ids, ToSet(items))
           v == Kept(items, K)
<1>1. /\ u \in ListOf(ToSet(ids) \cap ToSet(items)) /\ ToSet(u) = ToSet(ids) \cap ToSet(items)
      /\ Within(u, ids)
  BY KeptIs
<1>2. v \in ListOf(ToSet(items) \cap K) /\ ToSet(v) = ToSet(items) \cap K
  BY KeptIs
<1>3. Reconcile(ids, items) = u \o v
  BY DEF Reconcile
<1>4. ids = <<>> => u = <<>> /\ v = items
  <2> SUFFICES ASSUME ids = <<>> PROVE u = <<>> /\ v = items
    OBVIOUS
  <2>1. ToSet(ids) = {}
    BY EmptyList
  <2>2. ToSet(u) = {}
    BY <1>1, <2>1
  <2>3. u = <<>>
    BY <1>1, <2>2, EmptyList
  <2>4. ToSet(items) \subseteq K
    BY <2>1
  <2>5. v = items
    BY <2>4, AllKept
  <2>6. QED
    BY <2>3, <2>5
<1> HIDE DEF u, v
<1>5. u \in ListOf(S) /\ v \in ListOf(S) /\ ToSet(u) \cap ToSet(v) = {}
  <2>1. ToSet(ids) \subseteq S /\ ToSet(items) \subseteq S
    BY Elements
  <2>2. ToSet(u) \cap ToSet(v) = {}
    BY <1>1, <1>2
  <2>3. u \in ListOf(S) /\ v \in ListOf(S)
    BY <1>1, <1>2, <2>1 DEF ListOf
  <2>4. QED
    BY <2>2, <2>3
<1>6. u \o v \in ListOf(S) /\ ToSet(u \o v) = ToSet(u) \cup ToSet(v) /\ Within(u, u \o v)
  BY <1>5, ConcatIs
<1>7. ToSet(u \o v) = ToSet(items)
  BY <1>1, <1>2, <1>6
<1>8. ASSUME NEW t \in ListOf(S), Within(t, ids), ToSet(t) \subseteq ToSet(items)
      PROVE  Within(t, u \o v)
  <2>1. Agree(t, u)
    BY <1>1, <1>5, <1>8, AgreeWithin DEF Within
  <2>2. Within(t, u)
    BY <1>1, <1>8, <2>1 DEF Within
  <2>3. QED
    BY <1>5, <1>6, <2>2, AgreeWithin
<1>9. ids = <<>> => u \o v = items
  <2>1. items \in Seq(S)
    BY Elements
  <2>2. <<>> \o items = items
    BY <2>1
  <2>3. QED
    BY <1>4, <2>2
<1>10. QED
  BY <1>3, <1>6, <1>7, <1>8, <1>9

(***************************************************************************)
(* The inductive invariant.                                                *)
(***************************************************************************)

Ids == ever \cup {None}

Op == [phase : {"idle", "sent", "ok", "refused"}, portfolio : Portfolios \cup {None},
       items : Seq(Portfolios \cup Holdings), before : ListOf(Holdings), flag : BOOLEAN, at : Url]

OpOK(k, op) ==
    /\ op.portfolio \in Ids /\ op.at.portfolio \in Ids
    /\ IsInjective(op.items)
    /\ k = "create" /\ op.phase = "ok" => op.portfolio # None
    /\ k \in {"delete", "default", "reorder", "drop"} /\ op.phase # "idle" => op.portfolio # None
    /\ k = "move" => op.items \in Seq(ever)
    /\ k \in {"reorder", "drop"} => op.items \in Seq(Holdings)
    /\ k = "drop" /\ op.phase # "idle" => Len(op.items) = 1

OpsInv == ops \in [Kinds -> Op] /\ \A k \in Kinds : OpOK(k, ops[k])

\* The server: lists without repetitions, and nothing under a deleted portfolio.
ServerInv ==
    /\ order \in ListOf(ever) /\ ever \subseteq Portfolios
    /\ standard \in IF order = <<>> THEN {None} ELSE ToSet(order)
    /\ held \in [Portfolios -> ListOf(Holdings)]
    /\ \A p \in ever \ ToSet(order) : held[p] = <<>>

\* The queries.  The fetch under way is that of the list shown.
QueryInv ==
    /\ rail \in [known : BOOLEAN, items : ListOf(ever), standard : Ids]
    /\ ~ rail.known => rail.items = <<>>
    /\ railFetch \in [phase : {"idle", "sent", "served"}, items : ListOf(ever), standard : Ids]
    /\ lists \in [Keys -> ListOf(Holdings) \cup {Unknown}]
    /\ listFetch \in [phase : {"idle", "sent", "served"}, key : Keys \cup {None},
                      items : ListOf(Holdings) \cup {Unknown}]
    /\ listFetch.phase # "idle" => Wanted(url) /\ listFetch.key = Key(url)

LocalInv ==
    /\ url \in Url /\ url.portfolio \in Ids
    /\ overlay \in [Portfolios -> ListOf(Holdings)]
    /\ dialog \in BOOLEAN /\ asking \in ever \cup Holdings \cup {None}
    /\ gestures \in 0..MaxGestures /\ faults \in 0..MaxFaults
    /\ newest \in Ids /\ hasty \subseteq {"move", "reorder"}

\* What the server has answered last of the list shown.
Seen == IF listFetch.phase = "served" THEN listFetch.items ELSE lists[Key(url)]
All(p) == <<p, "all">>

\* Holdings are only taken away.
StaleInv ==
    \A p \in Portfolios :
        /\ lists[All(p)] # Unknown => ToSet(held[p]) \subseteq ToSet(lists[All(p)])
        /\ listFetch.phase = "served" /\ listFetch.key = All(p) /\ listFetch.items # Unknown =>
              ToSet(held[p]) \subseteq ToSet(listFetch.items)

\* A list that was not found is that of a deleted portfolio.
AbsentInv ==
    listFetch.phase = "served" /\ listFetch.items = Unknown => url.portfolio \notin ToSet(order)

Shown == faults = 0 /\ Wanted(url) /\ ~ url.filtered /\ listFetch.phase # "sent"

\* But for an answer to a drag that is still to come, the list is in the order stored.
OrderInv ==
    Shown /\ ops["reorder"].phase # "ok" /\ Seen # Unknown => Agree(held[url.portfolio], Seen)

\* But for an answer to a deletion that is still to come, it holds what is stored.
FullInv ==
    Shown /\ ops["drop"].phase # "ok" /\ url.portfolio \in ToSet(order) =>
        Seen # Unknown /\ ToSet(Seen) \subseteq ToSet(held[url.portfolio])

\* The dragged order is the one stored, but while it is asked for; what it is
\* rolled back to is, too.
Asked == ops["reorder"].phase \in {"sent", "refused"}
DragInv ==
    faults = 0 =>
        /\ ops["reorder"].phase = "sent" =>
              overlay[ops["reorder"].portfolio] \in {<<>>, ops["reorder"].items}
        /\ "reorder" \notin hasty =>
              /\ \A p \in Portfolios :
                    \/ overlay[p] = <<>> \/ Within(held[p], overlay[p])
                    \/ (Asked /\ ops["reorder"].portfolio = p)
              /\ Asked => Within(held[ops["reorder"].portfolio], ops["reorder"].before)

\* A list of a deleted portfolio is there only until the answer to the deletion.
Cached(k) ==
    \/ lists[k] # Unknown
    \/ (listFetch.phase = "served" /\ listFetch.key = k /\ listFetch.items # Unknown)
DeletedInv ==
    faults = 0 =>
        \A k \in Keys : k[1] \in ever \ ToSet(order) /\ Cached(k) =>
            ops["delete"].phase = "ok" /\ ops["delete"].portfolio = k[1]

\* What the server has answered last of the portfolios.
Read == railFetch.phase = "served" \/ (railFetch.phase = "idle" /\ rail.known)
SeenRail == IF railFetch.phase = "served" THEN railFetch.items ELSE rail.items
SeenStandard == IF railFetch.phase = "served" THEN railFetch.standard ELSE rail.standard
RailInv ==
    /\ faults = 0 /\ Read
    /\ \A k \in {"create", "delete", "default", "move"} : ops[k].phase # "ok"
    =>
        SeenRail = order /\ SeenStandard = standard

\* A move exchanges two neighbours of a list in the order stored.
MoveInv ==
    faults = 0 =>
        /\ Read /\ ops["move"].phase # "ok" => Agree(SeenRail, order)
        /\ ops["move"].phase = "sent" /\ "move" \notin hasty =>
              \E L \in ListOf(ever) : \E i \in 2..Len(L) :
                  ops["move"].items = Swapped(L, i) /\ Agree(L, order)

TypeInv == OpsInv /\ ServerInv /\ QueryInv /\ LocalInv
IInv == /\ TypeInv /\ StaleInv /\ AbsentInv /\ OrderInv /\ FullInv /\ DragInv /\ DeletedInv
        /\ RailInv /\ MoveInv


(***************************************************************************)
(* The steps of the client: the server answers nothing.                    *)
(***************************************************************************)

\* What the URL and the fetch of a list become.
Turns ==
    /\ url' \in Url /\ url'.portfolio \in Ids
    /\ \/ ~ Wanted(url') /\ listFetch' = NoListFetch
       \/ Wanted(url') /\ listFetch' = Fetching(Key(url'))
       \/ /\ listFetch' = listFetch /\ (Wanted(url') <=> Wanted(url))
          /\ Wanted(url) => Key(url') = Key(url)

\* An answer that was waited for is taken with a new fetch, or out of the cache.
Client ==
    /\ UNCHANGED <<server, rail, faults>> /\ Turns
    /\ \/ railFetch' = RailFetching
       \/ /\ railFetch' = railFetch
          /\ \A k \in {"create", "delete", "default", "move"} :
                ops[k].phase = "ok" => ops'[k].phase = "ok"
    /\ lists' = lists \/ (lists' = Forgotten(ops["delete"].portfolio) /\ ~ Wanted(url'))
    /\ \A k \in {"reorder", "drop"} : ops[k].phase = "ok" =>
          ops'[k].phase = "ok" \/ ~ Wanted(url') \/ listFetch'.phase = "sent"
    /\ ops["delete"].phase = "ok" =>
          \/ ops'["delete"] = ops["delete"]
          \/ (lists' = Forgotten(ops["delete"].portfolio) /\ ~ Wanted(url'))

LEMMA ListTypes ==
    ASSUME IInv
    PROVE  /\ \A k \in Keys : k = <<k[1], k[2]>> /\ k[1] \in Portfolios /\ k[2] \in Views
           /\ Wanted(url) => Key(url) \in Keys /\ url.portfolio \in ever
           /\ ~ Wanted(url) => listFetch.phase = "idle"
           /\ Unknown \notin ListOf(Holdings)
           /\ \A p \in Portfolios : All(p) \in Keys /\ held[p] \in ListOf(Holdings)
<1>1. \A k \in Keys : k = <<k[1], k[2]>> /\ k[1] \in Portfolios /\ k[2] \in Views
  BY DEF Keys
<1>2. url \in Url /\ url.portfolio \in Ids /\ ever \subseteq Portfolios
  BY DEF IInv, TypeInv, LocalInv, ServerInv
<1>3. Wanted(url) => Key(url) \in Keys /\ url.portfolio \in ever
  BY <1>2 DEF Wanted, Key, Keys, Views, Ids, Url
<1>4. ~ Wanted(url) => listFetch.phase = "idle"
  BY DEF IInv, TypeInv, QueryInv
<1>5. Unknown \notin ListOf(Holdings)
  BY PageAssumption DEF ListOf
<1>6. \A p \in Portfolios : All(p) \in Keys /\ held[p] \in ListOf(Holdings)
  BY DEF IInv, TypeInv, ServerInv, All, Keys, Views
<1>7. QED
  BY <1>1, <1>3, <1>4, <1>5, <1>6

\* The list shown is the one shown before, or it is being fetched.
LEMMA SameOrSent ==
    ASSUME IInv, Client
    PROVE  /\ QueryInv'
           /\ listFetch'.phase = "served" =>
                 listFetch' = listFetch /\ Wanted(url) /\ url'.portfolio = url.portfolio
           /\ Wanted(url') /\ listFetch'.phase # "sent" =>
                 /\ Wanted(url) /\ listFetch' = listFetch /\ lists' = lists /\ Seen' = Seen
                 /\ url'.portfolio = url.portfolio /\ url'.filtered = url.filtered
           /\ \A k \in Keys : lists'[k] # Unknown => lists'[k] = lists[k]
<1>1. /\ url \in Url /\ url' \in Url /\ url'.portfolio \in Ids /\ ever \subseteq Portfolios
      /\ ever' = ever
  BY DEF IInv, TypeInv, LocalInv, ServerInv, Client, Turns, server
<1>2. Wanted(url') => Key(url') \in Keys
  BY <1>1 DEF Wanted, Key, Keys, Views, Ids, Url
<1>3. /\ lists \in [Keys -> ListOf(Holdings) \cup {Unknown}]
      /\ listFetch \in [phase : {"idle", "sent", "served"}, key : Keys \cup {None},
                        items : ListOf(Holdings) \cup {Unknown}]
      /\ listFetch.phase # "idle" => Wanted(url) /\ listFetch.key = Key(url)
  BY DEF IInv, TypeInv, QueryInv
<1>4. /\ lists' \in [Keys -> ListOf(Holdings) \cup {Unknown}]
      /\ \A k \in Keys : lists'[k] # Unknown => lists'[k] = lists[k]
  <2>1. CASE lists' = lists
    BY <1>3, <2>1
  <2>2. CASE lists' = Forgotten(ops["delete"].portfolio)
    BY <1>3, <2>2 DEF Forgotten
  <2>3. QED
    BY <2>1, <2>2 DEF Client
<1>5. listFetch' \in [phase : {"idle", "sent", "served"}, key : Keys \cup {None},
                      items : ListOf(Holdings) \cup {Unknown}]
  BY <1>2, <1>3 DEF Client, Turns, NoListFetch, Fetching
<1>6. /\ listFetch'.phase = "served" \/ (Wanted(url') /\ listFetch'.phase # "sent") =>
             listFetch' = listFetch /\ Wanted(url) /\ Key(url') = Key(url)
      /\ listFetch'.phase # "idle" => Wanted(url') /\ listFetch'.key = Key(url')
  BY <1>3 DEF Client, Turns, NoListFetch, Fetching
<1>7. Key(url') = Key(url) => url'.portfolio = url.portfolio /\ url'.filtered = url.filtered
  BY <1>1 DEF Key, Url
<1>8. Wanted(url') => lists' = lists
  BY DEF Client
<1>9. Wanted(url') /\ listFetch'.phase # "sent" => Seen' = Seen
  BY <1>6, <1>8 DEF Seen
<1>10. /\ railFetch' \in [phase : {"idle", "sent", "served"}, items : ListOf(ever),
                          standard : Ids]
       /\ rail' = rail
  <2>1. <<>> \in ListOf(ever) /\ None \in Ids
    BY EmptyList DEF Ids
  <2>2. CASE railFetch' = railFetch
    BY <2>2 DEF IInv, TypeInv, QueryInv, Client
  <2>3. CASE railFetch' = RailFetching
    BY <2>1, <2>3 DEF RailFetching, NoRailFetch, Client
  <2>4. QED
    BY <2>2, <2>3 DEF Client
<1>11. QueryInv'
  <2>1. /\ rail \in [known : BOOLEAN, items : ListOf(ever), standard : Ids]
        /\ ~ rail.known => rail.items = <<>>
    BY DEF IInv, TypeInv, QueryInv
  <2>2. Ids' = Ids
    BY <1>1 DEF Ids
  <2>3. QED
    BY <1>1, <1>4, <1>5, <1>6, <1>10, <2>1, <2>2 DEF QueryInv
<1>12. QED
  BY <1>4, <1>6, <1>7, <1>8, <1>9, <1>11

LEMMA ClientKeepsLists ==
    ASSUME IInv, Client
    PROVE  QueryInv' /\ StaleInv' /\ AbsentInv' /\ OrderInv' /\ FullInv' /\ DeletedInv'
<1>1. /\ QueryInv'
      /\ listFetch'.phase = "served" =>
            listFetch' = listFetch /\ Wanted(url) /\ url'.portfolio = url.portfolio
      /\ Wanted(url') /\ listFetch'.phase # "sent" =>
            /\ Wanted(url) /\ listFetch' = listFetch /\ lists' = lists /\ Seen' = Seen
            /\ url'.portfolio = url.portfolio /\ url'.filtered = url.filtered
      /\ \A k \in Keys : lists'[k] # Unknown => lists'[k] = lists[k]
  BY SameOrSent
<1>2. held' = held /\ order' = order /\ ever' = ever /\ faults' = faults
  BY DEF Client, server
<1>3. StaleInv'
  <2>1. \A p \in Portfolios : All(p) \in Keys
    BY ListTypes
  <2>2. QED
    BY <1>1, <1>2, <2>1 DEF IInv, StaleInv
<1>4. AbsentInv'
  BY <1>1, <1>2 DEF IInv, AbsentInv
<1>5. OrderInv'
  <2> SUFFICES ASSUME Shown', ops'["reorder"].phase # "ok", Seen' # Unknown
               PROVE  Agree(held'[url'.portfolio], Seen')
    BY DEF OrderInv
  <2>1. Shown /\ Seen' = Seen /\ url'.portfolio = url.portfolio
    BY <1>1, <1>2 DEF Shown
  <2>2. ops["reorder"].phase # "ok"
    BY DEF Client, Shown
  <2>3. QED
    BY <1>2, <2>1, <2>2 DEF IInv, OrderInv
<1>6. FullInv'
  <2> SUFFICES ASSUME Shown', ops'["drop"].phase # "ok", url'.portfolio \in ToSet(order')
               PROVE  Seen' # Unknown /\ ToSet(Seen') \subseteq ToSet(held'[url'.portfolio])
    BY DEF FullInv
  <2>1. Shown /\ Seen' = Seen /\ url'.portfolio = url.portfolio
    BY <1>1, <1>2 DEF Shown
  <2>2. ops["drop"].phase # "ok"
    BY DEF Client, Shown
  <2>3. QED
    BY <1>2, <2>1, <2>2 DEF IInv, FullInv
<1>7. DeletedInv'
  <2> SUFFICES ASSUME faults' = 0, NEW k \in Keys, k[1] \in ever' \ ToSet(order'), Cached(k)'
               PROVE  ops'["delete"].phase = "ok" /\ ops'["delete"].portfolio = k[1]
    BY DEF DeletedInv
  <2>1. Cached(k)
    BY <1>1 DEF Cached
  <2>2. ops["delete"].phase = "ok" /\ ops["delete"].portfolio = k[1]
    BY <1>2, <2>1 DEF IInv, DeletedInv
  <2>3. ~ (lists' = Forgotten(ops["delete"].portfolio) /\ ~ Wanted(url'))
    <3> SUFFICES ASSUME lists' = Forgotten(ops["delete"].portfolio), ~ Wanted(url')
                 PROVE  FALSE
      OBVIOUS
    <3>1. lists'[k] = Unknown
      BY <2>2 DEF Forgotten
    <3>2. listFetch'.phase # "served"
      BY <1>1 DEF QueryInv
    <3>3. QED
      BY <3>1, <3>2 DEF Cached
  <2>4. QED
    BY <2>2, <2>3 DEF Client
<1>8. QED
  BY <1>1, <1>3, <1>4, <1>5, <1>6, <1>7


\* A drag is not answered, and no order but that of the server is brought back.
KeepsDrag ==
    /\ \A p \in Portfolios : overlay'[p] \in {overlay[p], <<>>}
    /\ "reorder" \in hasty => "reorder" \in hasty'
    /\ Asked' <=> Asked
    /\ Asked => ops'["reorder"] \in {ops["reorder"], [ops["reorder"] EXCEPT !.phase = "refused"]}

\* No move is begun.
KeepsMove ==
    ops'["move"].phase = "sent" =>
        ops'["move"] = ops["move"] /\ ("move" \in hasty => "move" \in hasty')

LEMMA OpFields ==
    ASSUME IInv, NEW k \in Kinds
    PROVE  /\ ops[k] \in Op /\ OpOK(k, ops[k])
           /\ ops[k].portfolio \in Ids /\ ops[k].before \in ListOf(Holdings)
           /\ ops[k].at \in Url /\ ops[k].at.portfolio \in Ids
  BY DEF IInv, TypeInv, OpsInv, OpOK, Op

LEMMA KeepsDragKeeps ==
    ASSUME IInv, UNCHANGED <<held, faults>>, KeepsDrag
    PROVE  DragInv'
<1> DEFINE op == ops["reorder"]
<1>1. "reorder" \in Kinds
  BY DEF Kinds
<1>2. op \in [phase : {"idle", "sent", "ok", "refused"}, portfolio : Portfolios \cup {None},
              items : Seq(Portfolios \cup Holdings), before : ListOf(Holdings),
              flag : BOOLEAN, at : Url]
  BY <1>1, OpFields DEF Op
<1>3. op.phase # "idle" => op.portfolio \in Portfolios
  <2>1. OpOK("reorder", op)
    BY <1>1, OpFields
  <2>2. QED
    BY <1>2, <2>1 DEF OpOK
<1> HIDE DEF op
<1>4. Asked' => /\ Asked /\ op.portfolio \in Portfolios
                /\ ops'["reorder"].portfolio = op.portfolio
                /\ ops'["reorder"].before = op.before /\ ops'["reorder"].items = op.items
                /\ ops'["reorder"].phase = "sent" => op.phase = "sent"
  <2> SUFFICES ASSUME Asked' PROVE
                /\ Asked /\ op.portfolio \in Portfolios
                /\ ops'["reorder"].portfolio = op.portfolio
                /\ ops'["reorder"].before = op.before /\ ops'["reorder"].items = op.items
                /\ ops'["reorder"].phase = "sent" => op.phase = "sent"
    OBVIOUS
  <2>1. Asked /\ op.portfolio \in Portfolios
    BY <1>3 DEF KeepsDrag, Asked, op
  <2>2. ops'["reorder"] = op \/ ops'["reorder"] = [op EXCEPT !.phase = "refused"]
    BY <2>1 DEF KeepsDrag, op
  <2>3. CASE ops'["reorder"] = op
    BY <2>1, <2>3
  <2>4. CASE ops'["reorder"] = [op EXCEPT !.phase = "refused"]
    BY <1>2, <2>1, <2>4
  <2>5. QED
    BY <2>2, <2>3, <2>4
<1>5. SUFFICES ASSUME faults' = 0 PROVE
         /\ ops'["reorder"].phase = "sent" =>
               overlay'[ops'["reorder"].portfolio] \in {<<>>, ops'["reorder"].items}
         /\ "reorder" \notin hasty' =>
               /\ \A p \in Portfolios :
                     \/ overlay'[p] = <<>> \/ Within(held'[p], overlay'[p])
                     \/ (Asked' /\ ops'["reorder"].portfolio = p)
               /\ Asked' => Within(held'[ops'["reorder"].portfolio], ops'["reorder"].before)
  BY DEF DragInv
<1>6. DragInv /\ faults = 0 /\ held' = held
  BY <1>5 DEF IInv
<1>7. ASSUME ops'["reorder"].phase = "sent"
      PROVE  overlay'[ops'["reorder"].portfolio] \in {<<>>, ops'["reorder"].items}
  <2>1. Asked'
    BY <1>7 DEF Asked
  <2>2. overlay[op.portfolio] \in {<<>>, op.items}
    BY <1>4, <1>6, <1>7, <2>1 DEF DragInv, op
  <2>3. QED
    BY <1>4, <2>1, <2>2 DEF KeepsDrag
<1>8. ASSUME "reorder" \notin hasty', NEW p \in Portfolios
      PROVE  \/ overlay'[p] = <<>> \/ Within(held'[p], overlay'[p])
             \/ (Asked' /\ ops'["reorder"].portfolio = p)
  <2>1. \/ overlay[p] = <<>> \/ Within(held[p], overlay[p])
        \/ (Asked /\ op.portfolio = p)
    BY <1>6, <1>8 DEF DragInv, KeepsDrag, op
  <2>2. Asked' <=> Asked
    BY DEF KeepsDrag
  <2>3. overlay'[p] \in {overlay[p], <<>>}
    BY DEF KeepsDrag
  <2>4. QED
    BY <1>4, <1>6, <2>1, <2>2, <2>3
<1>9. ASSUME "reorder" \notin hasty', Asked'
      PROVE  Within(held'[ops'["reorder"].portfolio], ops'["reorder"].before)
  <2>1. Within(held[op.portfolio], op.before)
    BY <1>4, <1>6, <1>9 DEF DragInv, KeepsDrag, op
  <2>2. QED
    BY <1>4, <1>6, <1>9, <2>1
<1>10. QED
  BY <1>7, <1>8, <1>9

LEMMA ClientKeepsRail ==
    ASSUME IInv, Client
    PROVE  /\ RailInv'
           /\ faults' = 0 /\ Read' /\ ops'["move"].phase # "ok" => Agree(SeenRail', order')
<1>1. /\ order' = order /\ standard' = standard /\ rail' = rail /\ faults' = faults
  BY DEF Client, server
<1>2. CASE railFetch' = RailFetching
  <2>1. ~ Read'
    BY <1>2 DEF Read, RailFetching, NoRailFetch
  <2>2. QED
    BY <2>1 DEF RailInv
<1>3. CASE /\ railFetch' = railFetch
           /\ \A k \in {"create", "delete", "default", "move"} :
                 ops[k].phase = "ok" => ops'[k].phase = "ok"
  <2>1. Read' = Read /\ SeenRail' = SeenRail /\ SeenStandard' = SeenStandard
    BY <1>1, <1>3 DEF Read, SeenRail, SeenStandard
  <2>2. RailInv'
    BY <1>1, <1>3, <2>1 DEF RailInv, IInv
  <2>3. faults' = 0 /\ Read' /\ ops'["move"].phase # "ok" => Agree(SeenRail', order')
    BY <1>1, <1>3, <2>1 DEF MoveInv, IInv
  <2>4. QED
    BY <2>2, <2>3
<1>4. QED
  BY <1>2, <1>3 DEF Client

LEMMA KeepsMoveKeeps ==
    ASSUME IInv, Client, KeepsMove
    PROVE  MoveInv'
<1>1. order' = order /\ ever' = ever /\ faults' = faults
  BY DEF Client, server
<1>2. faults' = 0 /\ Read' /\ ops'["move"].phase # "ok" => Agree(SeenRail', order')
  BY ClientKeepsRail
<1>3. ASSUME faults' = 0, ops'["move"].phase = "sent", "move" \notin hasty'
      PROVE  \E L \in ListOf(ever) : \E i \in 2..Len(L) :
                ops'["move"].items = Swapped(L, i) /\ Agree(L, order)
  <2>1. ops'["move"] = ops["move"] /\ "move" \notin hasty
    BY <1>3 DEF KeepsMove
  <2>2. QED
    BY <1>1, <1>3, <2>1 DEF IInv, MoveInv
<1>4. QED
  BY <1>1, <1>2, <1>3 DEF MoveInv

LEMMA ClientKeeps ==
    ASSUME IInv, Client, OpsInv', LocalInv', DragInv', MoveInv'
    PROVE  IInv'
<1>1. ServerInv'
  BY DEF IInv, TypeInv, ServerInv, Client, server
<1>2. QED
  BY <1>1, ClientKeepsLists, ClientKeepsRail DEF IInv, TypeInv

LEMMA OpsKept ==
    ASSUME IInv, UNCHANGED ever, NEW k \in Kinds, NEW op \in Op, OpOK(k, op),
           ops' = [ops EXCEPT ![k] = op]
    PROVE  OpsInv'
<1>1. ops \in [Kinds -> Op] /\ \A j \in Kinds : OpOK(j, ops[j])
  BY DEF IInv, TypeInv, OpsInv
<1>2. ops' \in [Kinds -> Op]
  BY <1>1
<1>3. \A j \in Kinds : OpOK(j, ops'[j])
  BY <1>1
<1>4. QED
  BY <1>2, <1>3 DEF OpsInv, OpOK, Ids

LEMMA OpsSame ==
    ASSUME IInv, UNCHANGED <<ever, ops>>
    PROVE  OpsInv'
  BY DEF IInv, TypeInv, OpsInv, OpOK, Ids


(***************************************************************************)
(* What the page derives from its state.                                   *)
(***************************************************************************)

LEMMA PagesOf ==
    ASSUME NEW n \in Nat \ {0}, NEW size \in Nat \ {0}
    PROVE  (n + size - 1) \div size \in Nat \ {0}
<1> DEFINE m == n + size - 1
           q == m \div size
<1>1. m \in Nat /\ m >= size /\ size > 0
  OBVIOUS
<1> HIDE DEF m
<1>2. q \in Int /\ size * q <= m /\ m < size * q + size
  BY <1>1
<1> HIDE DEF q
<1>3. q > 0
  <2>1. CASE q <= 0
    <3>1. size * q <= 0
      BY <2>1, <1>1, <1>2
    <3>2. QED
      BY <3>1, <1>1, <1>2
  <2>2. QED
    BY <2>1, <1>2
<1>4. QED
  BY <1>2, <1>3 DEF q, m

LEMMA Shows ==
    ASSUME IInv
    PROVE  /\ Items \in ListOf(Holdings) /\ Ordered \in ListOf(Holdings)
           /\ Rows \subseteq Holdings /\ TotalPages \in Nat \ {0}
           /\ url.sort = "none" => Rows \subseteq ToSet(Ordered)
           /\ Selected \in Ids /\ Fallback \in Ids
<1>1. /\ url \in Url /\ overlay \in [Portfolios -> ListOf(Holdings)]
      /\ lists \in [Keys -> ListOf(Holdings) \cup {Unknown}]
      /\ rail \in [known : BOOLEAN, items : ListOf(ever), standard : Ids]
      /\ ever \subseteq Portfolios
  BY DEF IInv, TypeInv, QueryInv, LocalInv, ServerInv
<1>2. Wanted(url) => Key(url) \in Keys /\ url.portfolio \in Portfolios
  BY <1>1, ListTypes
<1>3. Items \in ListOf(Holdings)
  BY <1>1, <1>2, EmptyList DEF Items
<1>4. Ordered \in ListOf(Holdings)
  <2>1. CASE Wanted(url)
    <3>1. overlay[url.portfolio] \in ListOf(Holdings)
      BY <1>1, <1>2, <2>1
    <3>2. Reconcile(overlay[url.portfolio], Items) \in ListOf(Holdings)
      BY <1>3, <3>1, ReconcileIs
    <3>3. QED
      BY <2>1, <3>2 DEF Ordered
  <2>2. CASE ~ Wanted(url)
    BY <2>2, EmptyList DEF Ordered
  <2>3. QED
    BY <2>1, <2>2
<1>5. /\ \A i \in 1..Len(Ordered) : Ordered[i] \in ToSet(Ordered)
      /\ ToSet(Ordered) \subseteq Holdings /\ ToSet(Items) \subseteq Holdings
  BY <1>3, <1>4, Positions, Elements
<1>6. url.sort = "none" => Rows \subseteq ToSet(Ordered)
  <2> SUFFICES ASSUME url.sort = "none", NEW h \in Rows PROVE h \in ToSet(Ordered)
    OBVIOUS
  <2>1. \E i \in 1..Len(Ordered) : h = Ordered[i]
    BY DEF Rows
  <2>2. QED
    BY <1>5, <2>1
<1>7. Rows \subseteq Holdings
  BY <1>5, <1>6 DEF Rows
<1>8. TotalPages \in Nat \ {0}
  <2>1. CASE Items = <<>>
    <3>1. TotalPages = 1
      BY <2>1 DEF TotalPages
    <3>2. QED
      BY <3>1
  <2>2. CASE Items # <<>>
    <3>1. Items \in Seq(Holdings)
      BY <1>3, Elements
    <3>2. Len(Items) \in Nat \ {0} /\ PageSize \in Nat \ {0}
      BY <2>2, <3>1, PageAssumption
    <3>3. QED
      BY <2>2, <3>2, PagesOf DEF TotalPages
  <2>3. QED
    BY <2>1, <2>2
<1>9. Selected \in Ids
  BY DEF Selected, IInv, TypeInv, LocalInv, Ids
<1>10. Fallback \in Ids
  <2>1. rail.items \in Seq(ever) /\ rail.standard \in Ids
    BY <1>1, Elements
  <2>2. rail.items # <<>> => Head(rail.items) \in ever
    BY <2>1
  <2>3. FirstOf(rail.items) \in Ids
    BY <2>2 DEF FirstOf, Ids
  <2>4. QED
    BY <2>1, <2>3 DEF Fallback
<1>11. QED
  BY <1>3, <1>4, <1>6, <1>7, <1>8, <1>9, <1>10

(***************************************************************************)
(* The steps of the visitor and the effects.                               *)
(***************************************************************************)

LEMMA GoToTurns ==
    ASSUME IInv, NEW u \in Url, u.portfolio \in Ids, GoTo(u)
    PROVE  Turns
  BY DEF GoTo, Observed, Turns

LEMMA StaysTurns ==
    ASSUME IInv, UNCHANGED <<url, listFetch>>
    PROVE  Turns
  BY DEF Turns, IInv, TypeInv, LocalInv

LEMMA GestureCounts ==
    ASSUME IInv, Gesture
    PROVE  gestures' \in 0..MaxGestures /\ faults' = faults
<1>1. gestures \in 0..MaxGestures /\ MaxGestures \in Nat
  BY PageAssumption DEF IInv, TypeInv, LocalInv
<1>2. QED
  BY <1>1 DEF Gesture

\* A step that only turns to another view, or empties a dragged order.
LEMMA BrowsingKeeps ==
    ASSUME IInv, Turns, UNCHANGED <<server, rail, railFetch, lists, ops, faults, hasty>>,
           \A p \in Portfolios : overlay'[p] \in {overlay[p], <<>>}, LocalInv'
    PROVE  IInv'
<1>1. Client
  BY DEF Client
<1>2. KeepsDrag /\ KeepsMove
  BY DEF KeepsDrag, KeepsMove, Asked
<1>3. DragInv'
  BY <1>2, KeepsDragKeeps DEF server
<1>4. MoveInv'
  BY <1>1, <1>2, KeepsMoveKeeps
<1>5. OpsInv'
  BY OpsSame DEF server
<1>6. QED
  BY <1>1, <1>3, <1>4, <1>5, ClientKeeps

LEMMA EffectsKeep ==
    ASSUME IInv, RunEffects
    PROVE  IInv'
<1> DEFINE u == IF PageDue THEN Clamped(url) ELSE [url EXCEPT !.portfolio = Fallback]
<1>1. url \in Url /\ url.portfolio \in Ids
  BY DEF IInv, TypeInv, LocalInv
<1>2. TotalPages \in Nat \ {0} /\ Fallback \in Portfolios \cup {None} /\ Fallback \in Ids
  <2>1. ever \subseteq Portfolios
    BY DEF IInv, TypeInv, ServerInv
  <2>2. QED
    BY <2>1, Shows DEF Ids
<1>3. Clamped(url) \in Url /\ Clamped(url).portfolio \in Ids
  BY <1>1, <1>2 DEF Clamped, Url
<1>4. [url EXCEPT !.portfolio = Fallback] \in Url
  BY <1>1, <1>2 DEF Url
<1>5. u \in Url /\ u.portfolio \in Ids
  BY <1>1, <1>2, <1>3, <1>4 DEF Url
<1>6. GoTo(u)
  BY DEF RunEffects
<1> HIDE DEF u
<1>7. Turns /\ url' = u
  BY <1>5, <1>6, GoToTurns DEF GoTo
<1>8. LocalInv'
  BY <1>5, <1>7 DEF RunEffects, IInv, TypeInv, LocalInv, Ids, server, counts, past
<1>9. QED
  BY <1>7, <1>8, BrowsingKeeps DEF RunEffects, counts, past

LEMMA BrowseKeeps ==
    ASSUME IInv, Gesture, NEW u \in Url, u.portfolio \in Ids, Browse(u), newest' \in {newest, None}
    PROVE  IInv'
<1>1. Turns /\ url' = u
  BY GoToTurns DEF GoTo, Browse
<1>2. gestures' \in 0..MaxGestures /\ faults' = faults
  BY GestureCounts
<1>3. LocalInv'
  BY <1>1, <1>2 DEF Browse, IInv, TypeInv, LocalInv, Ids, server
<1>4. QED
  BY <1>1, <1>2, <1>3, BrowsingKeeps DEF Browse

LEMMA ViewsKeep ==
    ASSUME IInv, Gesture
    PROVE  /\ \A p \in Portfolios : Select(p) => IInv'
           /\ \A t \in {"open", "closed"} : SetTab(t) => IInv'
           /\ \A b \in BOOLEAN : SetFilter(b) \/ ToggleSort(b) => IInv'
           /\ \A n \in Nat \ {0} : GoToPage(n) => IInv'
<1>1. url \in Url /\ url.portfolio \in Ids /\ 1 \in Nat \ {0}
  BY DEF IInv, TypeInv, LocalInv
<1>2. ASSUME NEW p \in Portfolios, Select(p) PROVE IInv'
  <2>1. rail.items \in ListOf(ever)
    BY DEF IInv, TypeInv, QueryInv
  <2>2. p \in ever
    <3>1. \E i \in 1..Len(rail.items) : rail.items[i] = p
      BY <1>2 DEF Select, Contains
    <3>2. QED
      BY <2>1, <3>1, Elements, Positions
  <2>3. [url EXCEPT !.portfolio = p] \in Url /\ [url EXCEPT !.portfolio = p].portfolio \in Ids
    BY <1>1, <2>2 DEF Url, Ids
  <2>4. QED
    BY <1>2, <2>3, BrowseKeeps DEF Select
<1>3. ASSUME NEW t \in {"open", "closed"}, SetTab(t) PROVE IInv'
  <2> DEFINE u == [url EXCEPT !.tab = t, !.page = 1]
  <2>1. u \in Url /\ u.portfolio \in Ids
    BY <1>1 DEF Url
  <2>2. Browse(u) /\ newest' = newest
    BY <1>3 DEF SetTab
  <2> HIDE DEF u
  <2>3. QED
    BY <2>1, <2>2, BrowseKeeps
<1>4. ASSUME NEW b \in BOOLEAN, SetFilter(b) PROVE IInv'
  <2> DEFINE u == [url EXCEPT !.filtered = b, !.page = 1]
  <2>1. u \in Url /\ u.portfolio \in Ids
    BY <1>1 DEF Url
  <2>2. Browse(u) /\ newest' = newest
    BY <1>4 DEF SetFilter
  <2> HIDE DEF u
  <2>3. QED
    BY <2>1, <2>2, BrowseKeeps
<1>5. ASSUME NEW b \in BOOLEAN, ToggleSort(b) PROVE IInv'
  <2> DEFINE u == [url EXCEPT !.sort = NextSort(b), !.page = 1]
  <2>1. NextSort(b) \in {"none", "asc", "desc"}
    BY DEF NextSort
  <2>2. u \in Url /\ u.portfolio \in Ids
    BY <1>1, <2>1 DEF Url
  <2>3. Browse(u) /\ newest' = newest
    BY <1>5 DEF ToggleSort
  <2> HIDE DEF u
  <2>4. QED
    BY <2>2, <2>3, BrowseKeeps
<1>6. ASSUME NEW n \in Nat \ {0}, GoToPage(n) PROVE IInv'
  <2> DEFINE u == [url EXCEPT !.page = n]
  <2>1. u \in Url /\ u.portfolio \in Ids
    BY <1>1 DEF Url
  <2>2. Browse(u) /\ newest' = newest
    BY <1>6 DEF GoToPage
  <2> HIDE DEF u
  <2>3. QED
    BY <2>1, <2>2, BrowseKeeps
<1>7. QED
  BY <1>2, <1>3, <1>4, <1>5, <1>6


LEMMA NoOpIsOp == NoOp \in Op /\ IsInjective(NoOp.items) /\ NoOp.portfolio = None
                  /\ NoOp.at.portfolio = None /\ NoOp.items = <<>> /\ NoOp.phase = "idle"
<1>1. 1 \in Nat \ {0}
  OBVIOUS
<1>2. Blank \in Url
  BY <1>1 DEF Blank, Url
<1>3. <<>> \in ListOf(Holdings) /\ <<>> \in Seq(Portfolios \cup Holdings)
  BY EmptyList
<1>4. NoOp \in Op
  BY <1>2, <1>3 DEF NoOp, Op
<1>5. QED
  BY <1>4, EmptyList DEF NoOp, Blank

LEMMA DialogsKeep ==
    ASSUME IInv, Gesture
    PROVE  /\ ResetList => IInv'
           /\ \A b \in BOOLEAN : OpenDialog(b) => IInv'
           /\ \A x \in Ids \cup Holdings : Ask(x) => IInv'
           /\ Refresh => IInv'
<1>0. gestures' \in 0..MaxGestures /\ faults' = faults
  BY GestureCounts
<1>1. url \in Url /\ url.portfolio \in Ids /\ 1 \in Nat \ {0}
  BY DEF IInv, TypeInv, LocalInv
<1>2. ASSUME ResetList PROVE IInv'
  <2> DEFINE u == [url EXCEPT !.filtered = FALSE, !.sort = "none", !.page = 1]
  <2>1. u \in Url /\ u.portfolio \in Ids
    BY <1>1 DEF Url
  <2>2. GoTo(u) /\ overlay' = [overlay EXCEPT ![url.portfolio] = <<>>]
    BY <1>2 DEF ResetList
  <2> HIDE DEF u
  <2>3. Turns /\ url' = u
    BY <2>1, <2>2, GoToTurns DEF GoTo
  <2>4. overlay \in [Portfolios -> ListOf(Holdings)] /\ <<>> \in ListOf(Holdings)
    BY EmptyList DEF IInv, TypeInv, LocalInv
  <2>5. /\ overlay' \in [Portfolios -> ListOf(Holdings)]
        /\ \A p \in Portfolios : overlay'[p] \in {overlay[p], <<>>}
    BY <2>2, <2>4
  <2>6. LocalInv'
    BY <1>0, <1>2, <2>1, <2>3, <2>5 DEF ResetList, IInv, TypeInv, LocalInv, Ids, server, past
  <2>7. QED
    BY <1>0, <1>2, <2>3, <2>5, <2>6, BrowsingKeeps DEF ResetList, past
<1>3. ASSUME NEW b \in BOOLEAN, OpenDialog(b) PROVE IInv'
  <2>1. Turns
    BY <1>3, StaysTurns DEF OpenDialog, cached
  <2>2. LocalInv'
    BY <1>0, <1>3 DEF OpenDialog, IInv, TypeInv, LocalInv, Ids, server, past
  <2>3. QED
    BY <1>0, <1>3, <2>1, <2>2, BrowsingKeeps DEF OpenDialog, past, cached
<1>4. ASSUME NEW x \in Ids \cup Holdings, Ask(x) PROVE IInv'
  <2>1. Turns
    BY <1>4, StaysTurns DEF Ask, cached
  <2>2. LocalInv'
    BY <1>0, <1>4 DEF Ask, IInv, TypeInv, LocalInv, Ids, server, past
  <2>3. QED
    BY <1>0, <1>4, <2>1, <2>2, BrowsingKeeps DEF Ask, past, cached
<1>5. ASSUME Refresh PROVE IInv'
  <2>1. Turns
    BY <1>1, <1>5 DEF Refresh, Turns, local
  <2>2. Client
    BY <1>0, <1>5, <2>1 DEF Refresh, Client, InvalidateRail, local
  <2>3. KeepsDrag /\ KeepsMove
    BY <1>5 DEF Refresh, KeepsDrag, KeepsMove, Asked, local, past
  <2>4. DragInv' /\ MoveInv'
    BY <1>0, <1>5, <2>2, <2>3, KeepsDragKeeps, KeepsMoveKeeps DEF Refresh, server
  <2>5. OpsInv'
    BY <1>5, OpsSame DEF Refresh, server
  <2>6. LocalInv'
    BY <1>0, <1>5 DEF Refresh, IInv, TypeInv, LocalInv, Ids, server, past, local
  <2>7. QED
    BY <2>2, <2>4, <2>5, <2>6, ClientKeeps
<1>6. QED
  BY <1>2, <1>3, <1>4, <1>5

LEMMA SendIsClient ==
    ASSUME IInv, Gesture, NEW k \in Kinds, NEW op \in Op, Send(k, op)
    PROVE  /\ Client /\ ops[k].phase = "idle"
           /\ [op EXCEPT !.phase = "sent"] \in Op
           /\ ops'[k] = [op EXCEPT !.phase = "sent"]
           /\ \A j \in Kinds \ {k} : ops'[j] = ops[j]
<1>1. [op EXCEPT !.phase = "sent"] \in Op
  BY DEF Op
<1>2. ops \in [Kinds -> Op] /\ ops[k].phase = "idle"
  BY DEF IInv, TypeInv, OpsInv, Send
<1>3. ops'[k] = [op EXCEPT !.phase = "sent"] /\ \A j \in Kinds \ {k} : ops'[j] = ops[j]
  BY <1>1, <1>2 DEF Send
<1>4. faults' = faults /\ Turns
  BY GestureCounts, StaysTurns DEF Send, cached
<1>5. \A j \in Kinds : ops[j].phase = "ok" => ops'[j] = ops[j]
  BY <1>2, <1>3
<1>6. {"create", "delete", "default", "move", "reorder", "drop"} \subseteq Kinds
  BY DEF Kinds
<1>7. Client
  BY <1>4, <1>5, <1>6 DEF Client, Send, cached
<1>8. QED
  BY <1>1, <1>2, <1>3, <1>7

LEMMA RequestKeeps ==
    ASSUME IInv, Gesture, NEW k \in Kinds \ {"move", "reorder"}, NEW op \in Op, Send(k, op),
           UNCHANGED <<overlay, past>>, OpOK(k, [op EXCEPT !.phase = "sent"])
    PROVE  IInv'
<1>1. /\ Client /\ [op EXCEPT !.phase = "sent"] \in Op
      /\ \A j \in Kinds \ {k} : ops'[j] = ops[j]
  BY SendIsClient
<1>2. "move" \in Kinds \ {k} /\ "reorder" \in Kinds \ {k}
  BY DEF Kinds
<1>3. KeepsDrag /\ KeepsMove
  BY <1>1, <1>2 DEF KeepsDrag, KeepsMove, Asked, past
<1>4. held' = held /\ faults' = faults /\ ever' = ever
  BY <1>1 DEF Client, server
<1>5. DragInv' /\ MoveInv'
  BY <1>1, <1>3, <1>4, KeepsDragKeeps, KeepsMoveKeeps
<1>6. OpsInv'
  BY <1>1, <1>4, OpsKept DEF Send
<1>7. LocalInv'
  BY <1>4, GestureCounts DEF Send, IInv, TypeInv, LocalInv, Ids, past
<1>8. QED
  BY <1>1, <1>5, <1>6, <1>7, ClientKeeps

LEMMA RequestsKeep ==
    ASSUME IInv, Gesture
    PROVE  /\ \A b \in BOOLEAN : SubmitCreate(b) => IInv'
           /\ ConfirmDelete => IInv'
           /\ ConfirmDrop => IInv'
           /\ SetDefault => IInv'
<1>1. /\ url \in Url /\ url.portfolio \in Ids /\ asking \in ever \cup Holdings \cup {None}
      /\ ever \subseteq Portfolios
  BY DEF IInv, TypeInv, LocalInv, ServerInv
<1>2. Ids \subseteq Portfolios \cup {None} /\ None \in Ids
  BY <1>1 DEF Ids
<1>3. NoOp \in [phase : {"idle", "sent", "ok", "refused"}, portfolio : Portfolios \cup {None},
                items : Seq(Portfolios \cup Holdings), before : ListOf(Holdings),
                flag : BOOLEAN, at : Url]
  BY NoOpIsOp DEF Op
<1>4. ASSUME NEW p \in Ids, NEW k \in {"delete", "default"}, p # None,
             Send(k, [NoOp EXCEPT !.portfolio = p, !.at = url])
             \/ Send(k, [NoOp EXCEPT !.portfolio = p]),
             UNCHANGED <<overlay, past>>
      PROVE  IInv'
  <2> DEFINE op1 == [NoOp EXCEPT !.portfolio = p, !.at = url]
             op2 == [NoOp EXCEPT !.portfolio = p]
  <2>1. op1 \in Op /\ op2 \in Op
    BY <1>1, <1>2, <1>3 DEF Op
  <2>2. OpOK(k, [op1 EXCEPT !.phase = "sent"]) /\ OpOK(k, [op2 EXCEPT !.phase = "sent"])
    BY <1>1, <1>2, <1>3, <1>4, NoOpIsOp DEF OpOK
  <2>3. k \in Kinds \ {"move", "reorder"}
    BY DEF Kinds
  <2>4. Send(k, op1) \/ Send(k, op2)
    BY <1>4
  <2> HIDE DEF op1, op2
  <2>5. QED
    BY <1>4, <2>1, <2>2, <2>3, <2>4, RequestKeeps
<1>5. ASSUME NEW b \in BOOLEAN, SubmitCreate(b) PROVE IInv'
  <2> DEFINE op == [NoOp EXCEPT !.flag = b, !.at = url]
  <2>1. op \in Op
    BY <1>1, <1>3 DEF Op
  <2>2. OpOK("create", [op EXCEPT !.phase = "sent"])
    BY <1>1, <1>2, <1>3, NoOpIsOp DEF OpOK
  <2>3. Send("create", op) /\ UNCHANGED <<overlay, past>>
    BY <1>5 DEF SubmitCreate
  <2>4. "create" \in Kinds \ {"move", "reorder"}
    BY DEF Kinds
  <2> HIDE DEF op
  <2>5. QED
    BY <2>1, <2>2, <2>3, <2>4, RequestKeeps
<1>6. ASSUME ConfirmDelete PROVE IInv'
  <2>1. asking \in Ids /\ asking # None
    BY <1>1, <1>6, PageAssumption DEF ConfirmDelete, Ids
  <2>2. QED
    BY <1>4, <1>6, <2>1 DEF ConfirmDelete
<1>7. ASSUME ConfirmDrop PROVE IInv'
  <2> DEFINE op == [NoOp EXCEPT !.portfolio = url.portfolio, !.items = <<asking>>]
  <2>1. asking \in Holdings /\ url.portfolio # None
    BY <1>7 DEF ConfirmDrop
  <2>2. /\ <<asking>> \in Seq(Portfolios \cup Holdings) /\ <<asking>> \in Seq(Holdings)
        /\ IsInjective(<<asking>>) /\ Len(<<asking>>) = 1
    BY <2>1, OneElement DEF ListOf
  <2>3. op \in Op
    BY <1>1, <1>2, <1>3, <2>2 DEF Op
  <2>4. /\ op.portfolio = url.portfolio /\ op.items = <<asking>> /\ op.at = NoOp.at
        /\ op.phase = "idle"
    BY <1>3, NoOpIsOp
  <2>5. Send("drop", op) /\ UNCHANGED <<overlay, past>>
    BY <1>7 DEF ConfirmDrop
  <2> HIDE DEF op
  <2>6. OpOK("drop", [op EXCEPT !.phase = "sent"])
    BY <1>1, <1>2, <2>1, <2>2, <2>3, <2>4, NoOpIsOp DEF OpOK, Op
  <2>7. "drop" \in Kinds \ {"move", "reorder"}
    BY DEF Kinds
  <2>8. QED
    BY <2>3, <2>5, <2>6, <2>7, RequestKeeps
<1>8. ASSUME SetDefault PROVE IInv'
  <2>1. Selected \in Ids /\ Selected # None
    BY <1>8, Shows DEF SetDefault, Ready
  <2>2. QED
    BY <1>4, <1>8, <2>1 DEF SetDefault
<1>9. QED
  BY <1>5, <1>6, <1>7, <1>8


\* A move is computed from the list in the cache, which is that of the server
\* when none is on its way.
LEMMA MoveKeeps ==
    ASSUME IInv, Gesture, NEW i \in 1..Len(rail.items), Move(i)
    PROVE  IInv'
<1> DEFINE L == rail.items
           op == [NoOp EXCEPT !.items = Swapped(L, i)]
           sent == [op EXCEPT !.phase = "sent"]
<1>1. /\ L \in ListOf(ever) /\ ever \subseteq Portfolios /\ i \in 2..Len(L)
      /\ ~ rail.known => L = <<>>
  BY DEF IInv, TypeInv, QueryInv, ServerInv, Move
<1>2. Swapped(L, i) \in ListOf(ever)
  BY <1>1, SwappedIs
<1>3. /\ Swapped(L, i) \in Seq(ever) /\ IsInjective(Swapped(L, i))
      /\ Swapped(L, i) \in Seq(Portfolios \cup Holdings)
  BY <1>1, <1>2, Elements
<1>4. NoOp \in [phase : {"idle", "sent", "ok", "refused"}, portfolio : Portfolios \cup {None},
                items : Seq(Portfolios \cup Holdings), before : ListOf(Holdings),
                flag : BOOLEAN, at : Url]
  BY NoOpIsOp DEF Op
<1>5. op \in Op
  BY <1>3, <1>4 DEF Op
<1>6. /\ sent.items = Swapped(L, i) /\ sent.portfolio = None /\ sent.at.portfolio = None
      /\ sent.phase = "sent"
  BY <1>4, NoOpIsOp
<1>7. Send("move", op) /\ "move" \in Kinds /\ "reorder" \in Kinds \ {"move"}
  BY DEF Move, Kinds
<1> HIDE DEF op
<1>8. /\ Client /\ ops["move"].phase = "idle" /\ sent \in Op /\ ops'["move"] = sent
      /\ \A j \in Kinds \ {"move"} : ops'[j] = ops[j]
  BY <1>5, <1>7, SendIsClient
<1> HIDE DEF sent
<1>9. OpOK("move", sent)
  BY <1>3, <1>6 DEF OpOK, Ids
<1>10. ops' = [ops EXCEPT !["move"] = sent]
  BY <1>7 DEF Send, sent
<1>11. held' = held /\ faults' = faults /\ ever' = ever /\ order' = order
  BY <1>8 DEF Client, server
<1>12. OpsInv'
  BY <1>7, <1>8, <1>9, <1>10, <1>11, OpsKept
<1>13. hasty' = IF railFetch.phase = "idle" THEN hasty ELSE hasty \cup {"move"}
  BY DEF Move
<1>14. LocalInv'
  BY <1>11, <1>13, GestureCounts DEF Move, Send, IInv, TypeInv, LocalInv, Ids
<1>15. KeepsDrag
  BY <1>7, <1>8, <1>13 DEF KeepsDrag, Asked, Move
<1>16. MoveInv'
  <2>1. faults' = 0 /\ Read' /\ ops'["move"].phase # "ok" => Agree(SeenRail', order')
    BY <1>8, ClientKeepsRail
  <2>2. ASSUME faults' = 0, "move" \notin hasty'
        PROVE  ops'["move"].items = Swapped(L, i) /\ Agree(L, order)
    <3>1. railFetch.phase = "idle"
      BY <1>13, <2>2
    <3>2. L # <<>>
      BY <1>1
    <3>3. Read /\ SeenRail = L
      BY <1>1, <3>1, <3>2 DEF Read, SeenRail
    <3>4. Agree(L, order)
      BY <1>8, <1>11, <2>2, <3>3 DEF IInv, MoveInv
    <3>5. QED
      BY <1>6, <1>8, <3>4
  <2>3. QED
    BY <1>1, <1>11, <2>1, <2>2 DEF MoveInv
<1>17. QED
  BY <1>8, <1>11, <1>12, <1>14, <1>15, <1>16, KeepsDragKeeps, ClientKeeps

\* The order a drag begins with is the one stored, unless the list shown is
\* about to be replaced.
LEMMA BeginsWithin ==
    ASSUME IInv, CanReorder, faults = 0, "reorder" \notin hasty,
           overlay[url.portfolio] # <<>> \/ listFetch.phase = "idle"
    PROVE  Within(held[url.portfolio], Ordered)
<1> DEFINE p == url.portfolio
           S == Holdings
<1>1. Wanted(url) /\ ~ url.filtered /\ Items # <<>> /\ ops["reorder"].phase = "idle"
  <2>1. Len(<<>>) = 0
    OBVIOUS
  <2>2. QED
    BY <2>1 DEF CanReorder
<1>2. p \in Portfolios /\ Key(url) = All(p)
  <2>1. ever \subseteq Portfolios
    BY DEF IInv, TypeInv, ServerInv
  <2>2. QED
    BY <1>1, <2>1, ListTypes DEF Key, All
<1>3. Items = lists[Key(url)] /\ lists[Key(url)] # Unknown
  BY <1>1 DEF Items
<1>4. /\ held[p] \in ListOf(S) /\ overlay[p] \in ListOf(S) /\ Items \in ListOf(S)
      /\ Ordered = Reconcile(overlay[p], Items)
  <2>1. overlay \in [Portfolios -> ListOf(Holdings)]
    BY DEF IInv, TypeInv, LocalInv
  <2>2. QED
    BY <1>1, <1>2, <2>1, ListTypes, Shows DEF Ordered
<1>5. ToSet(held[p]) \subseteq ToSet(Items)
  BY <1>2, <1>3 DEF IInv, StaleInv
<1>6. CASE overlay[p] # <<>>
  <2>1. Within(held[p], overlay[p])
    BY <1>1, <1>2, <1>6 DEF IInv, DragInv, Asked
  <2>2. QED
    BY <1>4, <1>5, <2>1, ReconcileIs
<1>7. CASE overlay[p] = <<>> /\ listFetch.phase = "idle"
  <2>1. Ordered = Items
    BY <1>4, <1>7, ReconcileIs
  <2>2. Shown /\ Seen = Items
    BY <1>1, <1>3, <1>7 DEF Shown, Seen
  <2>3. Agree(held[p], Items)
    BY <1>1, <1>3, <2>2 DEF IInv, OrderInv
  <2>4. QED
    BY <1>5, <2>1, <2>3 DEF Within
<1>8. QED
  BY <1>6, <1>7

LEMMA DragKeeps ==
    ASSUME IInv, Gesture, NEW h \in Holdings, NEW g \in Holdings, Drag(h, g)
    PROVE  IInv'
<1> DEFINE p == url.portfolio
           d == Dragged(Ordered, h, g)
           op == [NoOp EXCEPT !.portfolio = p, !.before = Ordered, !.items = d]
           sent == [op EXCEPT !.phase = "sent"]
<1>1. /\ CanReorder /\ Send("reorder", op) /\ overlay' = [overlay EXCEPT ![p] = d]
      /\ hasty' = IF overlay[p] # <<>> \/ listFetch.phase = "idle" THEN hasty
                  ELSE hasty \cup {"reorder"}
      /\ newest' = newest
  BY DEF Drag
<1>2. p \in ever /\ p \in Portfolios /\ p \in Ids /\ p # None
  <2>1. ever \subseteq Portfolios /\ Wanted(url)
    BY <1>1 DEF IInv, TypeInv, ServerInv, CanReorder
  <2>2. QED
    BY <2>1, ListTypes DEF Wanted, Ids
<1>3. Ordered \in ListOf(Holdings) /\ {h, g} \subseteq ToSet(Ordered)
  BY <1>1, Shows DEF Drag, CanReorder
<1>4. d \in ListOf(Holdings)
  BY <1>3, DraggedIs
<1>5. d \in Seq(Holdings) /\ IsInjective(d) /\ d \in Seq(Portfolios \cup Holdings)
  BY <1>4, Elements
<1> HIDE DEF d
<1>6. NoOp \in [phase : {"idle", "sent", "ok", "refused"}, portfolio : Portfolios \cup {None},
                items : Seq(Portfolios \cup Holdings), before : ListOf(Holdings),
                flag : BOOLEAN, at : Url]
  BY NoOpIsOp DEF Op
<1>7. op \in Op
  BY <1>2, <1>3, <1>5, <1>6 DEF Op
<1>8. /\ sent.items = d /\ sent.portfolio = p /\ sent.at.portfolio = None
      /\ sent.phase = "sent" /\ sent.before = Ordered
  BY <1>6, NoOpIsOp
<1>9. "reorder" \in Kinds /\ "move" \in Kinds \ {"reorder"}
  BY DEF Kinds
<1> HIDE DEF op
<1>10. /\ Client /\ ops["reorder"].phase = "idle" /\ sent \in Op /\ ops'["reorder"] = sent
       /\ \A j \in Kinds \ {"reorder"} : ops'[j] = ops[j]
  BY <1>1, <1>7, <1>9, SendIsClient
<1> HIDE DEF sent
<1>11. OpOK("reorder", sent)
  BY <1>2, <1>5, <1>8 DEF OpOK, Ids
<1>12. ops' = [ops EXCEPT !["reorder"] = sent]
  BY <1>1 DEF Send, sent
<1>13. held' = held /\ faults' = faults /\ ever' = ever
  BY <1>10 DEF Client, server
<1>14. OpsInv'
  BY <1>9, <1>10, <1>11, <1>12, <1>13, OpsKept
<1>15. overlay \in [Portfolios -> ListOf(Holdings)]
  BY DEF IInv, TypeInv, LocalInv
<1>16. overlay' \in [Portfolios -> ListOf(Holdings)]
  BY <1>1, <1>4, <1>15
<1>17. LocalInv'
  BY <1>1, <1>13, <1>16, GestureCounts DEF Send, IInv, TypeInv, LocalInv, Ids
<1>18. KeepsMove
  BY <1>1, <1>9, <1>10 DEF KeepsMove
<1>19. MoveInv'
  BY <1>10, <1>18, KeepsMoveKeeps
<1>20. DragInv'
  <2> SUFFICES ASSUME faults' = 0 PROVE
         /\ overlay'[p] \in {<<>>, d}
         /\ "reorder" \notin hasty' =>
               /\ \A q \in Portfolios :
                     overlay'[q] = <<>> \/ Within(held[q], overlay'[q]) \/ q = p
               /\ Within(held[p], Ordered)
    BY <1>8, <1>10, <1>13 DEF DragInv, Asked
  <2>1. overlay'[p] = d
    BY <1>1, <1>2, <1>15
  <2>2. ASSUME "reorder" \notin hasty', NEW q \in Portfolios, q # p
        PROVE  overlay'[q] = <<>> \/ Within(held[q], overlay'[q])
    <3>1. overlay'[q] = overlay[q] /\ "reorder" \notin hasty
      BY <1>1, <1>15, <2>2
    <3>2. QED
      BY <1>10, <1>13, <3>1 DEF IInv, DragInv, Asked
  <2>3. ASSUME "reorder" \notin hasty' PROVE Within(held[p], Ordered)
    <3>1. "reorder" \notin hasty /\ (overlay[p] # <<>> \/ listFetch.phase = "idle")
      BY <1>1, <2>3
    <3>2. QED
      BY <1>1, <1>13, <3>1, BeginsWithin
  <2>4. QED
    BY <2>1, <2>2, <2>3
<1>21. QED
  BY <1>10, <1>14, <1>17, <1>19, <1>20, ClientKeeps


LEMMA VisitKeeps ==
    ASSUME IInv, Visit
    PROVE  IInv'
<1>0. Gesture
  BY DEF Visit
<1>1. CASE Rail
  <2>1. TRUE \in BOOLEAN
    OBVIOUS
  <2>2. QED
    BY <1>0, <1>1, <2>1, DialogsKeep, ViewsKeep, MoveKeeps DEF Rail
<1>2. CASE Header
  <2>1. Selected \in Ids \cup Holdings
    BY Shows
  <2>2. QED
    BY <1>0, <1>2, <2>1, RequestsKeep, DialogsKeep DEF Header
<1>3. CASE Workspace
  <2>1. ASSUME NEW n \in {Page - 1, Page + 1} \cap (1..TotalPages) PROVE n \in Nat \ {0}
    <3>1. TotalPages \in Nat \ {0} /\ n \in 1..TotalPages
      BY Shows
    <3>2. QED
      BY <3>1
  <2>2. QED
    BY <1>0, <1>3, <2>1, DialogsKeep, ViewsKeep DEF Workspace, Filters
<1>4. CASE Headings
  BY <1>0, <1>4, ViewsKeep DEF Headings
<1>5. CASE TableRows
  BY <1>0, <1>5, DialogsKeep, DragKeeps DEF TableRows
<1>6. CASE Dialog
  <2>1. FALSE \in BOOLEAN
    OBVIOUS
  <2>2. QED
    BY <1>0, <1>6, <2>1, DialogsKeep, RequestsKeep DEF Dialog
<1>7. CASE Confirm
  <2>1. None \in Ids \cup Holdings
    BY DEF Ids
  <2>2. QED
    BY <1>0, <1>7, <2>1, DialogsKeep, RequestsKeep DEF Confirm
<1>8. QED
  BY <1>1, <1>2, <1>3, <1>4, <1>5, <1>6, <1>7 DEF Visit

(***************************************************************************)
(* The answers.                                                            *)
(***************************************************************************)

LEMMA AnsweredOps ==
    ASSUME IInv, NEW k \in Kinds, NEW phase, Answered(k, phase)
    PROVE  /\ ops[k].phase = phase /\ ops'[k] = NoOp /\ NoOp.phase = "idle"
           /\ \A j \in Kinds \ {k} : ops'[j] = ops[j]
           /\ UNCHANGED ever => OpsInv'
<1>1. ops \in [Kinds -> Op] /\ ops' = [ops EXCEPT ![k] = NoOp] /\ ops[k].phase = phase
  BY DEF IInv, TypeInv, OpsInv, Answered
<1>2. OpOK(k, NoOp)
  <2>1. <<>> \in Seq(ever) /\ <<>> \in Seq(Holdings)
    OBVIOUS
  <2>2. QED
    BY <2>1, NoOpIsOp DEF OpOK, Ids
<1>3. UNCHANGED ever => OpsInv'
  BY <1>1, <1>2, NoOpIsOp, OpsKept
<1>4. QED
  BY <1>1, <1>3, NoOpIsOp

LEMMA AnswerKeeps ==
    ASSUME IInv, NEW k \in Kinds, NEW phase, Answered(k, phase), Client, UNCHANGED hasty,
           LocalInv', DragInv'
    PROVE  IInv'
<1>1. /\ ops'[k] = NoOp /\ NoOp.phase = "idle" /\ \A j \in Kinds \ {k} : ops'[j] = ops[j]
      /\ UNCHANGED ever => OpsInv'
  BY AnsweredOps
<1>2. "move" \in Kinds
  BY DEF Kinds
<1>3. KeepsMove
  BY <1>1, <1>2 DEF KeepsMove
<1>4. OpsInv'
  BY <1>1 DEF Client, server
<1>5. MoveInv'
  BY <1>3, KeepsMoveKeeps
<1>6. QED
  BY <1>4, <1>5, ClientKeeps

\* But for that of a drag, an answer leaves the dragged orders alone.
LEMMA AnswerKeepsDrag ==
    ASSUME IInv, NEW k \in Kinds, NEW phase, Answered(k, phase), k # "reorder" \/ phase = "ok",
           UNCHANGED <<held, faults, overlay, hasty>>
    PROVE  DragInv'
<1>1. /\ ops[k].phase = phase /\ ops'[k] = NoOp /\ NoOp.phase = "idle"
      /\ \A j \in Kinds \ {k} : ops'[j] = ops[j]
  BY AnsweredOps
<1>2. "reorder" \in Kinds
  BY DEF Kinds
<1>3. KeepsDrag
  <2>1. CASE k = "reorder"
    BY <1>1, <2>1 DEF KeepsDrag, Asked
  <2>2. CASE k # "reorder"
    BY <1>1, <1>2, <2>2 DEF KeepsDrag, Asked
  <2>3. QED
    BY <2>1, <2>2
<1>4. QED
  BY <1>3, KeepsDragKeeps

LEMMA CreateAnsweredKeeps ==
    ASSUME IInv, CreateAnswered
    PROVE  IInv'
<1> DEFINE op == ops["create"]
           u == [op.at EXCEPT !.portfolio = op.portfolio]
<1>1. "create" \in Kinds /\ Answered("create", "ok") /\ GoTo(u)
  BY DEF Kinds, CreateAnswered
<1>2. op.at \in Url /\ op.portfolio \in Ids /\ ever \subseteq Portfolios
  BY <1>1, OpFields DEF IInv, TypeInv, ServerInv
<1>3. u \in Url /\ u.portfolio \in Ids
  BY <1>2 DEF Url, Ids
<1> HIDE DEF u
<1>4. Turns /\ url' = u
  BY <1>1, <1>3, GoToTurns DEF GoTo
<1>5. \A j \in Kinds \ {"create"} : ops'[j] = ops[j]
  BY <1>1, AnsweredOps
<1>6. {"delete", "drop", "reorder"} \subseteq Kinds \ {"create"}
  BY DEF Kinds
<1>7. /\ UNCHANGED <<server, rail, lists, overlay, counts, hasty>> /\ railFetch' = RailFetching
      /\ dialog' = FALSE /\ asking' = asking /\ newest' = op.portfolio
  BY DEF CreateAnswered, InvalidateRail
<1>8. Client
  BY <1>4, <1>5, <1>6, <1>7 DEF Client, counts
<1>9. LocalInv'
  BY <1>2, <1>3, <1>4, <1>7 DEF IInv, TypeInv, LocalInv, Ids, server, counts
<1>10. DragInv'
  BY <1>1, <1>7, AnswerKeepsDrag DEF server, counts
<1>11. QED
  BY <1>1, <1>7, <1>8, <1>9, <1>10, AnswerKeeps

LEMMA DeleteAnsweredKeeps ==
    ASSUME IInv, DeleteAnswered
    PROVE  IInv'
<1> DEFINE op == ops["delete"]
           u == [op.at EXCEPT !.portfolio = None]
<1>1. "delete" \in Kinds /\ Answered("delete", "ok") /\ GoTo(u)
  BY DEF Kinds, DeleteAnswered
<1>2. op.at \in Url
  BY <1>1, OpFields
<1>3. u \in Url /\ u.portfolio = None /\ None \in Ids
  BY <1>2 DEF Url, Ids
<1> HIDE DEF u
<1>4. Turns /\ url' = u /\ ~ Wanted(url')
  BY <1>1, <1>3, GoToTurns DEF GoTo, Wanted
<1>5. \A j \in Kinds \ {"delete"} : ops'[j] = ops[j]
  BY <1>1, AnsweredOps
<1>6. {"drop", "reorder"} \subseteq Kinds \ {"delete"}
  BY DEF Kinds
<1>7. /\ UNCHANGED <<server, rail, overlay, dialog, counts, past>> /\ railFetch' = RailFetching
      /\ lists' = Forgotten(ops["delete"].portfolio)
      /\ asking' = IF asking \in Portfolios THEN None ELSE asking
  BY DEF DeleteAnswered, InvalidateRail
<1>8. Client
  BY <1>4, <1>5, <1>6, <1>7 DEF Client, counts
<1>9. LocalInv'
  BY <1>3, <1>4, <1>7 DEF IInv, TypeInv, LocalInv, Ids, server, counts, past
<1>10. DragInv'
  BY <1>1, <1>7, AnswerKeepsDrag DEF server, counts, past
<1>11. QED
  BY <1>1, <1>7, <1>8, <1>9, <1>10, AnswerKeeps DEF past

LEMMA RailAnsweredKeeps ==
    ASSUME IInv, NEW k \in Kinds, RailAnswered(k)
    PROVE  IInv'
<1>1. /\ Answered(k, "ok") /\ k \in {"default", "move"} /\ railFetch' = RailFetching
      /\ UNCHANGED <<server, rail, lists, listFetch, local, counts, past>>
  BY DEF RailAnswered, InvalidateRail
<1>2. \A j \in Kinds \ {k} : ops'[j] = ops[j]
  BY <1>1, AnsweredOps
<1>3. {"delete", "drop", "reorder"} \subseteq Kinds \ {k}
  BY <1>1 DEF Kinds
<1>4. Turns
  BY <1>1, StaysTurns DEF local
<1>5. Client
  BY <1>1, <1>2, <1>3, <1>4 DEF Client, counts
<1>6. LocalInv'
  BY <1>1 DEF IInv, TypeInv, LocalInv, Ids, server, counts, past, local
<1>7. DragInv'
  BY <1>1, AnswerKeepsDrag DEF server, counts, past, local
<1>8. QED
  BY <1>1, <1>5, <1>6, <1>7, AnswerKeeps DEF past

LEMMA InvalidatedTurns ==
    ASSUME IInv, InvalidateLists(url.portfolio), UNCHANGED url
    PROVE  Turns /\ (Wanted(url') => listFetch'.phase = "sent")
<1>1. url \in Url /\ url.portfolio \in Ids
  BY DEF IInv, TypeInv, LocalInv
<1>2. QED
  BY <1>1 DEF InvalidateLists, Turns, Fetching

LEMMA ListAnsweredKeeps ==
    ASSUME IInv, ReorderAnswered \/ DropAnswered
    PROVE  IInv'
<1> DEFINE k == IF ReorderAnswered THEN "reorder" ELSE "drop"
<1>1. k \in {"reorder", "drop"} /\ k \in Kinds /\ Answered(k, "ok")
  BY DEF Kinds, ReorderAnswered, DropAnswered
<1>2. /\ InvalidateLists(url.portfolio)
      /\ UNCHANGED <<server, rail, lists, url, overlay, dialog, counts, past>>
      /\ railFetch' \in {railFetch, RailFetching} /\ asking' \in {asking, None}
  BY DEF ReorderAnswered, DropAnswered, InvalidateRail, local
<1> HIDE DEF k
<1>3. \A j \in Kinds \ {k} : ops'[j] = ops[j]
  BY <1>1, AnsweredOps
<1>4. {"create", "delete", "default", "move"} \subseteq Kinds \ {k}
  BY <1>1 DEF Kinds
<1>5. Turns /\ (Wanted(url') => listFetch'.phase = "sent")
  BY <1>2, InvalidatedTurns
<1>6. Client
  BY <1>2, <1>3, <1>4, <1>5 DEF Client, counts
<1>7. LocalInv'
  BY <1>2 DEF IInv, TypeInv, LocalInv, Ids, server, counts, past
<1>8. DragInv'
  BY <1>1, <1>2, AnswerKeepsDrag DEF server, counts, past
<1>9. QED
  BY <1>1, <1>2, <1>6, <1>7, <1>8, AnswerKeeps DEF past

LEMMA FailedKeeps ==
    ASSUME IInv, NEW k \in Kinds, Failed(k)
    PROVE  IInv'
<1> DEFINE op == ops["reorder"]
<1>1. /\ Answered(k, "refused") /\ UNCHANGED <<server, cached, url, dialog, asking, counts, past>>
      /\ overlay' = IF k = "reorder" THEN RolledBack(op) ELSE overlay
  BY DEF Failed
<1>2. /\ ops[k].phase = "refused" /\ ops'[k] = NoOp /\ NoOp.phase = "idle"
      /\ \A j \in Kinds \ {k} : ops'[j] = ops[j]
  BY <1>1, AnsweredOps
<1>3. {"create", "delete", "default", "move", "drop", "reorder"} \subseteq Kinds
  BY DEF Kinds
<1>4. Turns
  BY <1>1, StaysTurns DEF cached
<1>5. \A j \in Kinds : ops[j].phase = "ok" => ops'[j] = ops[j]
  BY <1>2
<1>6. Client
  BY <1>1, <1>3, <1>4, <1>5 DEF Client, counts, cached
<1>7. overlay \in [Portfolios -> ListOf(Holdings)] /\ op.before \in ListOf(Holdings)
  BY <1>3, OpFields DEF IInv, TypeInv, LocalInv
<1>8. overlay' \in [Portfolios -> ListOf(Holdings)]
  BY <1>1, <1>7 DEF RolledBack
<1>9. LocalInv'
  BY <1>1, <1>8 DEF IInv, TypeInv, LocalInv, Ids, server, counts, past
<1>10. CASE k # "reorder"
  <2>1. DragInv'
    BY <1>1, <1>10, AnswerKeepsDrag DEF server, counts, past
  <2>2. QED
    BY <1>1, <1>6, <1>9, <2>1, AnswerKeeps DEF past
<1>11. CASE k = "reorder"
  <2>1. ~ Asked' /\ ops'["reorder"].phase # "sent" /\ Asked
    BY <1>2, <1>11 DEF Asked
  <2>2. /\ held' = held /\ faults' = faults /\ hasty' = hasty
        /\ overlay' = [overlay EXCEPT ![op.portfolio] = op.before]
    BY <1>1, <1>11 DEF server, counts, past, RolledBack
  <2>3. ASSUME faults' = 0, "reorder" \notin hasty', NEW p \in Portfolios
        PROVE  overlay'[p] = <<>> \/ Within(held'[p], overlay'[p])
    <3>1. Within(held[op.portfolio], op.before)
      BY <2>1, <2>2, <2>3 DEF IInv, DragInv
    <3>2. \/ overlay[p] = <<>> \/ Within(held[p], overlay[p]) \/ op.portfolio = p
      BY <2>1, <2>2, <2>3 DEF IInv, DragInv
    <3>3. overlay'[p] = IF p = op.portfolio THEN op.before ELSE overlay[p]
      BY <1>7, <2>2
    <3>4. QED
      BY <2>2, <3>1, <3>2, <3>3
  <2>4. DragInv'
    BY <2>1, <2>3 DEF DragInv
  <2>5. QED
    BY <1>1, <1>6, <1>9, <2>4, AnswerKeeps DEF past
<1>12. QED
  BY <1>10, <1>11

LEMMA AnswersKeep ==
    ASSUME IInv, Answer
    PROVE  IInv'
  BY CreateAnsweredKeeps, DeleteAnsweredKeeps, RailAnsweredKeeps, ListAnsweredKeeps, FailedKeeps
     DEF Answer


(***************************************************************************)
(* The queries.                                                            *)
(***************************************************************************)

LEMMA SameRest ==
    ASSUME IInv, UNCHANGED <<server, local, ops, counts, past>>
    PROVE  OpsInv' /\ ServerInv' /\ LocalInv' /\ DragInv'
<1>1. OpsInv'
  BY OpsSame DEF server
<1>2. ServerInv'
  BY DEF IInv, TypeInv, ServerInv, server
<1>3. LocalInv'
  BY DEF IInv, TypeInv, LocalInv, Ids, server, local, counts, past
<1>4. DragInv'
  BY DEF IInv, DragInv, Asked, server, local, counts, past
<1>5. QED
  BY <1>1, <1>2, <1>3, <1>4

LEMMA SameRail ==
    ASSUME IInv, UNCHANGED <<server, rail, railFetch, ops, counts, past>>
    PROVE  RailInv' /\ MoveInv'
<1>1. Read' = Read /\ SeenRail' = SeenRail /\ SeenStandard' = SeenStandard
  BY DEF Read, SeenRail, SeenStandard
<1>2. RailInv'
  BY <1>1 DEF IInv, RailInv, server, counts
<1>3. MoveInv'
  BY <1>1 DEF IInv, MoveInv, server, counts, past
<1>4. QED
  BY <1>2, <1>3

LEMMA SameLists ==
    ASSUME IInv, UNCHANGED <<server, lists, listFetch, url, ops, counts>>
    PROVE  StaleInv' /\ AbsentInv' /\ OrderInv' /\ FullInv' /\ DeletedInv'
<1>1. Shown' = Shown /\ Seen' = Seen /\ \A k \in Keys : Cached(k)' = Cached(k)
  BY DEF Shown, Seen, Cached, counts
<1>2. StaleInv' /\ AbsentInv'
  BY DEF IInv, StaleInv, AbsentInv, server
<1>3. OrderInv' /\ FullInv'
  BY <1>1 DEF IInv, OrderInv, FullInv, server
<1>4. DeletedInv'
  BY <1>1 DEF IInv, DeletedInv, server, counts
<1>5. QED
  BY <1>2, <1>3, <1>4

LEMMA RailQueriesKeep ==
    ASSUME IInv, ServeRail \/ ReceiveRail
    PROVE  IInv'
<1>1. UNCHANGED <<server, lists, listFetch, local, ops, counts, past>>
  BY DEF ServeRail, ReceiveRail
<1>2. /\ OpsInv' /\ ServerInv' /\ LocalInv' /\ DragInv'
      /\ StaleInv' /\ AbsentInv' /\ OrderInv' /\ FullInv' /\ DeletedInv'
  BY <1>1, SameRest, SameLists DEF local
<1>3. QueryInv
  BY DEF IInv, TypeInv
<1>4. /\ order \in ListOf(ever) /\ standard \in Ids /\ <<>> \in ListOf(ever) /\ None \in Ids
  <2>1. order \in ListOf(ever) /\ standard \in IF order = <<>> THEN {None} ELSE ToSet(order)
    BY DEF IInv, TypeInv, ServerInv
  <2>2. ToSet(order) \subseteq ever
    BY <2>1, Elements
  <2>3. QED
    BY <2>1, <2>2, EmptyList DEF Ids
<1>5. Ids' = Ids /\ ever' = ever /\ order' = order /\ standard' = standard /\ faults' = faults
  BY <1>1 DEF Ids, server, counts
<1>6. CASE ServeRail
  <2>1. /\ railFetch' = [phase |-> "served", items |-> order, standard |-> standard]
        /\ rail' = rail
    BY <1>6 DEF ServeRail
  <2>2. QueryInv'
    BY <1>1, <1>3, <1>4, <1>5, <2>1 DEF QueryInv, local
  <2>3. SeenRail' = order /\ SeenStandard' = standard
    BY <2>1 DEF SeenRail, SeenStandard
  <2>4. RailInv'
    BY <1>5, <2>3 DEF RailInv
  <2>5. Agree(SeenRail', order')
    BY <1>5, <2>3, WithinSelf DEF Within
  <2>6. MoveInv'
    BY <1>1, <1>5, <2>5 DEF IInv, MoveInv, past
  <2>7. QED
    BY <1>2, <2>2, <2>4, <2>6 DEF IInv, TypeInv
<1>7. CASE ReceiveRail
  <2>1. /\ railFetch.phase = "served" /\ railFetch' = NoRailFetch
        /\ rail' = [known |-> TRUE, items |-> railFetch.items, standard |-> railFetch.standard]
    BY <1>7 DEF ReceiveRail
  <2>2. QueryInv'
    BY <1>1, <1>3, <1>4, <1>5, <2>1 DEF QueryInv, local, NoRailFetch
  <2>3. Read /\ SeenRail' = SeenRail /\ SeenStandard' = SeenStandard
    BY <2>1 DEF Read, SeenRail, SeenStandard, NoRailFetch
  <2>4. RailInv'
    BY <1>1, <1>5, <2>3 DEF IInv, RailInv
  <2>5. MoveInv'
    BY <1>1, <1>5, <2>3 DEF IInv, MoveInv, past
  <2>6. QED
    BY <1>2, <2>2, <2>4, <2>5 DEF IInv, TypeInv
<1>8. QED
  BY <1>6, <1>7

LEMMA ServeListKeeps ==
    ASSUME IInv, ServeList
    PROVE  IInv'
<1> DEFINE key == listFetch.key
           p == key[1]
           answer == IF ~ Contains(order, p) THEN Unknown
                     ELSE IF key[2] = "all" THEN held[p] ELSE Kept(held[p], Matching)
<1>1. UNCHANGED <<server, rail, railFetch, lists, local, ops, counts, past>>
  BY DEF ServeList
<1>2. /\ OpsInv' /\ ServerInv' /\ LocalInv' /\ DragInv' /\ RailInv' /\ MoveInv'
  BY <1>1, SameRest, SameRail
<1>3. /\ QueryInv /\ listFetch.phase = "sent" /\ Wanted(url) /\ key = Key(url) /\ key \in Keys
      /\ p = url.portfolio /\ p \in Portfolios
  <2>1. QueryInv /\ listFetch.phase = "sent"
    BY DEF ServeList, IInv, TypeInv
  <2>2. Wanted(url) /\ key = Key(url) /\ key \in Keys
    BY <2>1, ListTypes DEF QueryInv
  <2>3. QED
    BY <2>1, <2>2, ListTypes DEF Key
<1>4. order \in ListOf(ever) /\ held[p] \in ListOf(Holdings)
  BY <1>3, ListTypes DEF IInv, TypeInv, ServerInv
<1>5. Contains(order, p) <=> p \in ToSet(order)
  BY <1>4, Elements DEF Contains
<1>6. Kept(held[p], Matching) \in ListOf(Holdings)
  <2>1. Kept(held[p], Matching) \in ListOf(ToSet(held[p]) \cap Matching)
    BY <1>4, KeptIs
  <2>2. ToSet(held[p]) \cap Matching \subseteq Holdings
    BY <1>4, Elements
  <2>3. QED
    BY <2>1, <2>2 DEF ListOf
<1>7. answer \in ListOf(Holdings) \cup {Unknown} /\ (answer # Unknown <=> p \in ToSet(order))
  BY <1>4, <1>5, <1>6, ListTypes
<1>8. listFetch' = [phase |-> "served", key |-> key, items |-> answer]
  <2>1. listFetch' = [listFetch EXCEPT !.phase = "served", !.items = answer]
    BY DEF ServeList
  <2> HIDE DEF answer
  <2>2. QED
    BY <1>3, <2>1 DEF QueryInv
<1>9. ~ url.filtered => key = All(p) /\ (answer # Unknown => answer = held[p])
  BY <1>3 DEF Key, All
<1>10. key = All(p) /\ answer # Unknown => answer = held[p]
  BY DEF All
<1> HIDE DEF answer
<1>11. url' = url /\ ever' = ever /\ held' = held /\ order' = order /\ faults' = faults
  BY <1>1 DEF local, server, counts
<1>12. QueryInv'
  BY <1>1, <1>3, <1>7, <1>8, <1>11 DEF QueryInv, Ids
<1>13. StaleInv'
  <2> SUFFICES ASSUME NEW q \in Portfolios PROVE
        /\ lists'[All(q)] # Unknown => ToSet(held'[q]) \subseteq ToSet(lists'[All(q)])
        /\ listFetch'.phase = "served" /\ listFetch'.key = All(q) /\ listFetch'.items # Unknown =>
              ToSet(held'[q]) \subseteq ToSet(listFetch'.items)
    BY DEF StaleInv
  <2>1. lists'[All(q)] # Unknown => ToSet(held'[q]) \subseteq ToSet(lists'[All(q)])
    BY <1>1, <1>11 DEF IInv, StaleInv
  <2>2. ASSUME key = All(q), answer # Unknown PROVE answer = held[q]
    <3>1. p = q
      BY <2>2 DEF All
    <3>2. QED
      BY <1>10, <2>2, <3>1
  <2>3. QED
    BY <1>8, <1>11, <2>1, <2>2
<1>14. AbsentInv'
  BY <1>3, <1>7, <1>8, <1>11 DEF AbsentInv
<1>15. Seen' = answer
  BY <1>8 DEF Seen
<1>16. OrderInv'
  BY <1>3, <1>9, <1>11, <1>15, WithinSelf DEF OrderInv, Shown, Within
<1>17. FullInv'
  BY <1>3, <1>7, <1>9, <1>11, <1>15 DEF FullInv, Shown
<1>18. DeletedInv'
  <2>1. ASSUME NEW k \in Keys, k[1] \in ever \ ToSet(order), Cached(k)' PROVE Cached(k)
    <3>1. ~ (key = k /\ answer # Unknown)
      BY <1>7, <2>1
    <3>2. QED
      BY <1>1, <1>8, <2>1, <3>1 DEF Cached
  <2>2. QED
    BY <1>1, <1>11, <2>1 DEF IInv, DeletedInv
<1>19. QED
  BY <1>2, <1>12, <1>13, <1>14, <1>16, <1>17, <1>18 DEF IInv, TypeInv

LEMMA ReceiveListKeeps ==
    ASSUME IInv, ReceiveList
    PROVE  IInv'
<1> DEFINE key == listFetch.key
           answer == listFetch.items
<1>1. UNCHANGED <<server, rail, railFetch, local, ops, counts, past>>
  BY DEF ReceiveList
<1>2. /\ OpsInv' /\ ServerInv' /\ LocalInv' /\ DragInv' /\ RailInv' /\ MoveInv'
  BY <1>1, SameRest, SameRail
<1>3. /\ QueryInv /\ listFetch.phase = "served" /\ Wanted(url) /\ key = Key(url) /\ key \in Keys
  <2>1. QueryInv /\ listFetch.phase = "served"
    BY DEF ReceiveList, IInv, TypeInv
  <2>2. QED
    BY <2>1, ListTypes DEF QueryInv
<1>4. /\ answer \in ListOf(Holdings) \cup {Unknown}
      /\ lists \in [Keys -> ListOf(Holdings) \cup {Unknown}]
  BY <1>3 DEF QueryInv
<1>5. /\ listFetch' = NoListFetch
      /\ lists' = IF answer = Unknown THEN lists ELSE [lists EXCEPT ![key] = answer]
  BY DEF ReceiveList
<1>6. /\ lists' \in [Keys -> ListOf(Holdings) \cup {Unknown}]
      /\ \A k \in Keys : lists'[k] = IF k = key /\ answer # Unknown THEN answer ELSE lists[k]
  BY <1>3, <1>4, <1>5
<1>7. url' = url /\ ever' = ever /\ held' = held /\ order' = order /\ faults' = faults
  BY <1>1 DEF local, server, counts
<1>8. QueryInv'
  BY <1>1, <1>3, <1>5, <1>6, <1>7 DEF QueryInv, Ids, NoListFetch
<1>9. StaleInv'
  <2> SUFFICES ASSUME NEW q \in Portfolios, lists'[All(q)] # Unknown
               PROVE  ToSet(held[q]) \subseteq ToSet(lists'[All(q)])
    BY <1>5, <1>7 DEF StaleInv, NoListFetch
  <2>1. All(q) \in Keys
    BY ListTypes
  <2>2. QED
    BY <1>3, <1>6, <2>1 DEF IInv, StaleInv
<1>10. AbsentInv'
  BY <1>5 DEF AbsentInv, NoListFetch
<1>11. Seen' = IF answer # Unknown THEN Seen ELSE lists[Key(url)]
  BY <1>3, <1>5, <1>6, <1>7 DEF Seen, NoListFetch
<1>12. answer = Unknown => url.portfolio \notin ToSet(order)
  BY <1>3 DEF IInv, AbsentInv
<1>13. Shown' => Shown
  BY <1>3, <1>7 DEF Shown
<1>14. OrderInv'
  <2> SUFFICES ASSUME Shown', ops'["reorder"].phase # "ok", Seen' # Unknown
               PROVE  Agree(held'[url'.portfolio], Seen')
    BY DEF OrderInv
  <2>1. CASE answer # Unknown
    BY <1>1, <1>7, <1>11, <1>13, <2>1 DEF IInv, OrderInv
  <2>2. CASE answer = Unknown
    <3>1. url.portfolio \in ever \ ToSet(order)
      BY <1>3, <1>12, <2>2, ListTypes
    <3>2. held[url.portfolio] = <<>>
      BY <3>1 DEF IInv, TypeInv, ServerInv
    <3>3. QED
      BY <1>7, <3>2, EmptyList DEF Within
  <2>3. QED
    BY <2>1, <2>2
<1>15. FullInv'
  BY <1>1, <1>7, <1>11, <1>12, <1>13 DEF IInv, FullInv
<1>16. DeletedInv'
  <2>1. ASSUME NEW k \in Keys, Cached(k)' PROVE Cached(k)
    BY <1>3, <1>5, <1>6, <2>1 DEF Cached, NoListFetch
  <2>2. QED
    BY <1>1, <1>7, <2>1 DEF IInv, DeletedInv
<1>17. QED
  BY <1>2, <1>8, <1>9, <1>10, <1>14, <1>15, <1>16 DEF IInv, TypeInv


(***************************************************************************)
(* The server.                                                             *)
(***************************************************************************)

LEMMA FinishedOps ==
    ASSUME IInv, NEW k \in Kinds, NEW phase \in {"ok", "refused"}, ops[k].phase # "idle",
           k = "create" => phase = "refused", Finish(k, phase)
    PROVE  /\ ops'[k] = [ops[k] EXCEPT !.phase = phase] /\ ops'[k].phase = phase
           /\ \A j \in Kinds \ {k} : ops'[j] = ops[j]
           /\ UNCHANGED ever => OpsInv'
<1> DEFINE op == [ops[k] EXCEPT !.phase = phase]
<1>1. ops \in [Kinds -> Op] /\ ops[k] \in Op /\ OpOK(k, ops[k])
  BY DEF IInv, TypeInv, OpsInv
<1>2. /\ op \in Op /\ op.phase = phase /\ op.portfolio = ops[k].portfolio
      /\ op.items = ops[k].items /\ op.at = ops[k].at
  BY <1>1 DEF Op
<1>3. ops' = [ops EXCEPT ![k] = op]
  BY <1>1 DEF Finish
<1> HIDE DEF op
<1>4. OpOK(k, op)
  BY <1>1, <1>2 DEF OpOK
<1>5. UNCHANGED ever => OpsInv'
  BY <1>2, <1>3, <1>4, OpsKept
<1>6. ops'[k] = op /\ \A j \in Kinds \ {k} : ops'[j] = ops[j]
  BY <1>1, <1>3
<1>7. QED
  BY <1>2, <1>5, <1>6 DEF op

LEMMA RefusalKeeps ==
    ASSUME IInv, NEW k \in Kinds, ops[k].phase = "sent", Refuse(k),
           UNCHANGED <<cached, local, counts, past>>
    PROVE  IInv'
<1>1. /\ ops'[k] = [ops[k] EXCEPT !.phase = "refused"] /\ ops'[k].phase = "refused"
      /\ \A j \in Kinds \ {k} : ops'[j] = ops[j]
      /\ UNCHANGED ever => OpsInv'
  BY FinishedOps DEF Refuse
<1>2. UNCHANGED server /\ {"create", "delete", "default", "move", "drop", "reorder"} \subseteq Kinds
  BY DEF Refuse, Kinds
<1>3. \A j \in Kinds : ops[j].phase = "ok" => ops'[j] = ops[j]
  BY <1>1
<1>4. Turns
  BY StaysTurns DEF cached, local
<1>5. Client
  BY <1>2, <1>3, <1>4 DEF Client, counts, cached
<1>6. KeepsDrag
  <2>1. CASE k = "reorder"
    BY <1>1, <2>1 DEF KeepsDrag, Asked, local, past
  <2>2. CASE k # "reorder"
    BY <1>1, <1>2, <2>2 DEF KeepsDrag, Asked, local, past
  <2>3. QED
    BY <2>1, <2>2
<1>7. KeepsMove
  BY <1>1, <1>2 DEF KeepsMove, past
<1>8. DragInv' /\ MoveInv'
  BY <1>2, <1>5, <1>6, <1>7, KeepsDragKeeps, KeepsMoveKeeps DEF server, counts
<1>9. LocalInv'
  BY <1>2 DEF IInv, TypeInv, LocalInv, Ids, server, local, counts, past
<1>10. QED
  BY <1>1, <1>2, <1>5, <1>8, <1>9, ClientKeeps DEF server

LEMMA Grows ==
    ASSUME IInv, ever \subseteq ever', UNCHANGED <<cached, local, counts, past>>
    PROVE  QueryInv' /\ LocalInv' /\ ListOf(ever) \subseteq ListOf(ever')
<1>1. ListOf(ever) \subseteq ListOf(ever') /\ Ids \subseteq Ids'
  BY DEF ListOf, Ids
<1>2. QueryInv'
  BY <1>1 DEF IInv, TypeInv, QueryInv, cached, local
<1>3. LocalInv'
  BY <1>1 DEF IInv, TypeInv, LocalInv, local, counts, past
<1>4. QED
  BY <1>1, <1>2, <1>3

LEMMA AgreeLonger ==
    ASSUME NEW L, NEW s, NEW t, Agree(L, s), Within(s, t),
           ToSet(L) \cap ToSet(t) \subseteq ToSet(s)
    PROVE  Agree(L, t)
  BY DEF Agree, Within

LEMMA CreationKeeps ==
    ASSUME IInv, NEW p \in Portfolios \ ever, ops["create"].phase = "sent",
           ever' = ever \cup {p}, order' = Append(order, p),
           standard' = IF ops["create"].flag \/ order = <<>> THEN p ELSE standard,
           ops' = [ops EXCEPT !["create"].phase = "ok", !["create"].portfolio = p],
           held' = held, UNCHANGED <<cached, local, counts, past>>
    PROVE  IInv'
<1>1. QueryInv' /\ LocalInv' /\ ListOf(ever) \subseteq ListOf(ever')
  BY Grows
<1>2. order \in ListOf(ever) /\ ever \subseteq Portfolios /\ ToSet(order) \subseteq ever
  BY Elements DEF IInv, TypeInv, ServerInv
<1>3. /\ order' \in ListOf(ever') /\ ToSet(order') = ToSet(order) \cup {p}
      /\ Within(order, order') /\ order' # <<>>
  <2>1. order \in ListOf(ever') /\ p \in ever' /\ p \notin ToSet(order)
    BY <1>1, <1>2
  <2>2. /\ Append(order, p) \in ListOf(ever') /\ ToSet(Append(order, p)) = ToSet(order) \cup {p}
        /\ Within(order, Append(order, p)) /\ Append(order, p) # <<>>
    BY <2>1, AppendIs
  <2>3. QED
    BY <2>2
<1>4. /\ "create" \in Kinds
      /\ {"move", "reorder", "delete", "drop"} \subseteq Kinds \ {"create"}
  BY DEF Kinds
<1>5. /\ ops'["create"] = [ops["create"] EXCEPT !.phase = "ok", !.portfolio = p]
      /\ \A j \in Kinds \ {"create"} : ops'[j] = ops[j]
      /\ ops' \in [Kinds -> Op] /\ ops'["create"].phase = "ok"
  <2>1. /\ ops \in [Kinds -> Op]
        /\ [ops["create"] EXCEPT !.phase = "ok", !.portfolio = p] \in Op
        /\ [ops["create"] EXCEPT !.phase = "ok", !.portfolio = p].phase = "ok"
    BY <1>4 DEF IInv, TypeInv, OpsInv, Op
  <2>2. ops' = [ops EXCEPT !["create"] = [ops["create"] EXCEPT !.phase = "ok", !.portfolio = p]]
    BY <1>4, <2>1
  <2> DEFINE op == [ops["create"] EXCEPT !.phase = "ok", !.portfolio = p]
  <2> HIDE DEF op
  <2>3. op \in Op /\ op.phase = "ok" /\ ops' = [ops EXCEPT !["create"] = op]
    BY <2>1, <2>2 DEF op
  <2>4. QED
    BY <1>4, <2>1, <2>3 DEF op
<1>6. OpsInv'
  <2>1. ASSUME NEW j \in Kinds \ {"create"} PROVE OpOK(j, ops[j])'
    <3>1. OpOK(j, ops[j]) /\ ops'[j] = ops[j] /\ Seq(ever) \subseteq Seq(ever')
      BY <1>5 DEF IInv, TypeInv, OpsInv
    <3>2. Ids \subseteq Ids'
      BY DEF Ids
    <3>3. QED
      BY <3>1, <3>2 DEF OpOK
  <2>2. OpOK("create", ops["create"])'
    <3>1. OpOK("create", ops["create"]) /\ ops["create"] \in Op
      BY <1>4, OpFields
    <3>2. /\ ops'["create"].portfolio = p /\ ops'["create"].at = ops["create"].at
          /\ ops'["create"].items = ops["create"].items
      BY <1>5, <3>1 DEF Op
    <3>3. p \in Ids' /\ Ids \subseteq Ids' /\ p # None
      BY PageAssumption DEF Ids
    <3>4. QED
      BY <3>1, <3>2, <3>3 DEF OpOK
  <2>3. QED
    BY <1>5, <2>1, <2>2 DEF OpsInv
<1>7. ServerInv'
  <2>1. standard' \in ToSet(order')
    BY <1>3 DEF IInv, TypeInv, ServerInv
  <2>2. QED
    BY <1>2, <1>3, <2>1 DEF IInv, TypeInv, ServerInv
<1>8. StaleInv'
  BY DEF IInv, StaleInv, cached
<1>9. /\ url' = url /\ (Wanted(url) => url.portfolio # p) /\ Shown' = Shown /\ Seen' = Seen
      /\ listFetch.phase = "served" => Wanted(url)
  <2>1. Wanted(url) => url.portfolio \in ever
    BY ListTypes
  <2>2. QED
    BY <2>1 DEF Shown, Seen, cached, local, counts, IInv, TypeInv, QueryInv
<1>10. AbsentInv'
  BY <1>3, <1>9 DEF IInv, AbsentInv, cached
<1>11. OrderInv'
  BY <1>4, <1>5, <1>9 DEF IInv, OrderInv
<1>12. FullInv'
  BY <1>3, <1>4, <1>5, <1>9 DEF IInv, FullInv, Shown
<1>13. DragInv'
  BY <1>4, <1>5 DEF IInv, DragInv, Asked, local, counts, past
<1>14. DeletedInv'
  <2>1. \A k \in Keys : Cached(k)' = Cached(k)
    BY DEF Cached, cached
  <2>2. ever' \ ToSet(order') \subseteq ever \ ToSet(order)
    BY <1>3
  <2>3. QED
    BY <1>4, <1>5, <2>1, <2>2 DEF IInv, DeletedInv, counts
<1>15. RailInv'
  BY <1>5 DEF RailInv
<1>16. MoveInv'
  <2>1. ASSUME NEW L \in ListOf(ever), Agree(L, order) PROVE Agree(L, order')
    <3>1. ToSet(L) \cap ToSet(order') \subseteq ToSet(order)
      BY <1>3, Elements
    <3>2. QED
      BY <1>3, <2>1, <3>1, AgreeLonger
  <2>2. SeenRail \in ListOf(ever) /\ SeenRail' = SeenRail /\ Read' = Read
    BY DEF IInv, TypeInv, QueryInv, SeenRail, Read, cached
  <2>3. ops'["move"] = ops["move"] /\ faults' = faults /\ hasty' = hasty
    BY <1>4, <1>5 DEF counts, past
  <2>4. ASSUME faults' = 0, Read', ops'["move"].phase # "ok" PROVE Agree(SeenRail', order')
    BY <2>1, <2>2, <2>3, <2>4 DEF IInv, MoveInv
  <2>5. ASSUME faults' = 0, ops'["move"].phase = "sent", "move" \notin hasty'
        PROVE  \E L \in ListOf(ever') : \E i \in 2..Len(L) :
                  ops'["move"].items = Swapped(L, i) /\ Agree(L, order')
    <3>1. \E L \in ListOf(ever) : \E i \in 2..Len(L) :
              ops["move"].items = Swapped(L, i) /\ Agree(L, order)
      BY <2>3, <2>5 DEF IInv, MoveInv
    <3>2. QED
      BY <1>1, <2>1, <2>3, <3>1
  <2>6. QED
    BY <2>4, <2>5 DEF MoveInv
<1>17. QED
  BY <1>1, <1>6, <1>7, <1>8, <1>10, <1>11, <1>12, <1>13, <1>14, <1>15, <1>16 DEF IInv, TypeInv

\* What a deletion does, here or elsewhere.
LEMMA RemovalKeeps ==
    ASSUME IInv, NEW p \in ToSet(order), Removed(p), UNCHANGED <<cached, local>>
    PROVE  /\ ServerInv' /\ QueryInv' /\ StaleInv' /\ AbsentInv' /\ ever' = ever
           /\ ToSet(order') = ToSet(order) \ {p} /\ Within(order', order)
           /\ \A q \in Portfolios : held'[q] = IF q = p THEN <<>> ELSE held[q]
<1>1. /\ order' = Without(order, p) /\ held' = [held EXCEPT ![p] = <<>>] /\ ever' = ever
      /\ standard' = IF standard = p THEN FirstOf(order') ELSE standard
  BY DEF Removed
<1>2. /\ order \in ListOf(ever) /\ ever \subseteq Portfolios
      /\ held \in [Portfolios -> ListOf(Holdings)]
      /\ standard \in IF order = <<>> THEN {None} ELSE ToSet(order)
      /\ \A q \in ever \ ToSet(order) : held[q] = <<>>
  BY DEF IInv, TypeInv, ServerInv
<1>3. /\ order' \in ListOf(ever) /\ ToSet(order') = ToSet(order) \ {p} /\ Within(order', order)
  BY <1>1, <1>2, WithoutIs
<1>4. p \in Portfolios /\ <<>> \in ListOf(Holdings)
  BY <1>2, EmptyList, Elements
<1>5. /\ held' \in [Portfolios -> ListOf(Holdings)]
      /\ \A q \in Portfolios : held'[q] = IF q = p THEN <<>> ELSE held[q]
  BY <1>1, <1>2, <1>4
<1>6. standard' \in IF order' = <<>> THEN {None} ELSE ToSet(order')
  <2>1. ToSet(<<>>) = {}
    BY EmptyList
  <2>2. standard \in ToSet(order)
    BY <1>2, <2>1
  <2>3. CASE standard = p
    <3>1. order' \in Seq(ToSet(order'))
      BY <1>3, Elements
    <3>2. order' # <<>> => Head(order') \in ToSet(order')
      BY <3>1
    <3>3. QED
      BY <1>1, <2>3, <3>2 DEF FirstOf
  <2>4. CASE standard # p
    BY <1>1, <1>3, <2>1, <2>2, <2>4
  <2>5. QED
    BY <2>3, <2>4
<1>7. ServerInv'
  <2>1. ASSUME NEW q \in ever \ ToSet(order') PROVE held'[q] = <<>>
    BY <1>2, <1>3, <1>5
  <2>2. QED
    BY <1>1, <1>2, <1>3, <1>5, <1>6, <2>1 DEF ServerInv
<1>8. QueryInv'
  BY <1>1 DEF IInv, TypeInv, QueryInv, Ids, cached, local
<1>9. StaleInv'
  <2>1. \A q \in Portfolios : ToSet(held'[q]) \subseteq ToSet(held[q])
    BY <1>5, EmptyList
  <2>2. QED
    BY <2>1 DEF IInv, StaleInv, cached
<1>10. AbsentInv'
  BY <1>3 DEF IInv, AbsentInv, cached, local
<1>11. QED
  BY <1>1, <1>3, <1>5, <1>7, <1>8, <1>9, <1>10


LEMMA DeletionKeeps ==
    ASSUME IInv, ops["delete"].phase = "sent", Contains(order, ops["delete"].portfolio),
           Removed(ops["delete"].portfolio), Finish("delete", "ok"),
           UNCHANGED <<cached, local, counts, past>>
    PROVE  IInv'
<1> DEFINE p == ops["delete"].portfolio
<1>1. order \in ListOf(ever) /\ p \in ToSet(order) /\ "delete" \in Kinds
  <2>1. order \in ListOf(ever)
    BY DEF IInv, TypeInv, ServerInv
  <2>2. QED
    BY <2>1, Elements DEF Contains, Kinds
<1>2. /\ ServerInv' /\ QueryInv' /\ StaleInv' /\ AbsentInv' /\ ever' = ever
      /\ ToSet(order') = ToSet(order) \ {p} /\ Within(order', order)
      /\ \A q \in Portfolios : held'[q] = IF q = p THEN <<>> ELSE held[q]
  BY <1>1, RemovalKeeps
<1>3. /\ ops'["delete"] = [ops["delete"] EXCEPT !.phase = "ok"] /\ ops'["delete"].phase = "ok"
      /\ OpsInv' /\ \A j \in Kinds \ {"delete"} : ops'[j] = ops[j]
  BY <1>1, <1>2, FinishedOps
<1>4. {"move", "reorder", "drop"} \subseteq Kinds \ {"delete"}
  BY DEF Kinds
<1>5. ops'["delete"].portfolio = p
  BY <1>1, <1>3, OpFields DEF Op
<1>6. LocalInv'
  BY <1>2, Grows
<1>7. /\ url' = url /\ Shown' = Shown /\ Seen' = Seen /\ faults' = faults /\ hasty' = hasty
      /\ Wanted(url) => url.portfolio \in Portfolios
  <2>1. Wanted(url) => url.portfolio \in ever
    BY ListTypes
  <2>2. ever \subseteq Portfolios
    BY DEF IInv, TypeInv, ServerInv
  <2>3. QED
    BY <2>1, <2>2 DEF Shown, Seen, cached, local, counts, past
<1>8. OrderInv'
  <2> SUFFICES ASSUME Shown, ops'["reorder"].phase # "ok", Seen # Unknown
               PROVE  Agree(held'[url.portfolio], Seen)
    BY <1>7 DEF OrderInv
  <2>1. Agree(held[url.portfolio], Seen)
    BY <1>3, <1>4 DEF IInv, OrderInv
  <2>2. Agree(<<>>, Seen)
    BY EmptyList DEF Within
  <2>3. url.portfolio \in Portfolios
    BY <1>7 DEF Shown
  <2>4. QED
    BY <1>2, <2>1, <2>2, <2>3
<1>9. FullInv'
  <2> SUFFICES ASSUME Shown, ops'["drop"].phase # "ok", url.portfolio \in ToSet(order')
               PROVE  Seen # Unknown /\ ToSet(Seen) \subseteq ToSet(held'[url.portfolio])
    BY <1>7 DEF FullInv
  <2>1. Seen # Unknown /\ ToSet(Seen) \subseteq ToSet(held[url.portfolio])
    BY <1>2, <1>3, <1>4 DEF IInv, FullInv
  <2>2. url.portfolio \in Portfolios /\ url.portfolio # p
    BY <1>2, <1>7 DEF Shown
  <2>3. QED
    BY <1>2, <2>1, <2>2
<1>10. DragInv'
  <2>1. ops'["reorder"] = ops["reorder"] /\ overlay' = overlay
    BY <1>3, <1>4 DEF local
  <2>2. \A q \in Portfolios : held'[q] = held[q] \/ held'[q] = <<>>
    BY <1>2
  <2>3. \A s : Within(<<>>, s)
    BY EmptyList
  <2>4. Asked => ops["reorder"].portfolio \in Portfolios
    <3>1. "reorder" \in Kinds /\ OpOK("reorder", ops["reorder"]) /\ ops["reorder"] \in Op
      BY <1>4, OpFields
    <3>2. QED
      BY <3>1 DEF OpOK, Op, Asked
  <2>5. SUFFICES ASSUME faults = 0, "reorder" \notin hasty
                 PROVE  /\ \A q \in Portfolios :
                              \/ overlay[q] = <<>> \/ Within(held'[q], overlay[q])
                              \/ (Asked /\ ops["reorder"].portfolio = q)
                        /\ Asked => Within(held'[ops["reorder"].portfolio], ops["reorder"].before)
    BY <1>7, <2>1 DEF IInv, DragInv, Asked
  <2>6. /\ \A q \in Portfolios :
              \/ overlay[q] = <<>> \/ Within(held[q], overlay[q])
              \/ (Asked /\ ops["reorder"].portfolio = q)
        /\ Asked => Within(held[ops["reorder"].portfolio], ops["reorder"].before)
    BY <2>5 DEF IInv, DragInv
  <2>7. QED
    BY <2>2, <2>3, <2>4, <2>6
<1>11. DeletedInv'
  <2> SUFFICES ASSUME faults' = 0, NEW k \in Keys, k[1] \in ever' \ ToSet(order'), Cached(k)'
               PROVE  k[1] = p
    BY <1>3, <1>5 DEF DeletedInv
  <2>1. Cached(k) /\ faults = 0
    BY <1>7 DEF Cached, cached
  <2>2. k[1] \in ever \ ToSet(order) \/ k[1] = p
    BY <1>2
  <2>3. QED
    BY <2>1, <2>2 DEF IInv, DeletedInv
<1>12. RailInv'
  BY <1>3 DEF RailInv
<1>13. MoveInv'
  <2>1. ASSUME NEW L \in ListOf(ever), Agree(L, order) PROVE Agree(L, order')
    <3>1. order' \in ListOf(ever)
      BY <1>2 DEF ServerInv
    <3>2. QED
      BY <1>1, <1>2, <2>1, <3>1, AgreeWithin
  <2>2. SeenRail \in ListOf(ever) /\ SeenRail' = SeenRail /\ Read' = Read
    BY DEF IInv, TypeInv, QueryInv, SeenRail, Read, cached
  <2>3. ops'["move"] = ops["move"]
    BY <1>3, <1>4
  <2>4. ASSUME faults' = 0, Read', ops'["move"].phase # "ok" PROVE Agree(SeenRail', order')
    BY <1>7, <2>1, <2>2, <2>3, <2>4 DEF IInv, MoveInv
  <2>5. ASSUME faults' = 0, ops'["move"].phase = "sent", "move" \notin hasty'
        PROVE  \E L \in ListOf(ever') : \E i \in 2..Len(L) :
                  ops'["move"].items = Swapped(L, i) /\ Agree(L, order')
    <3>1. \E L \in ListOf(ever) : \E i \in 2..Len(L) :
              ops["move"].items = Swapped(L, i) /\ Agree(L, order)
      BY <1>7, <2>3, <2>5 DEF IInv, MoveInv
    <3>2. QED
      BY <1>2, <2>1, <2>3, <3>1
  <2>6. QED
    BY <2>4, <2>5 DEF MoveInv
<1>14. QED
  BY <1>2, <1>3, <1>6, <1>8, <1>9, <1>10, <1>11, <1>12, <1>13 DEF IInv, TypeInv

\* The lists of holdings and their order are as they were.
LEMMA SameHoldings ==
    ASSUME IInv, UNCHANGED <<held, cached, local, counts, past>>, ever' = ever,
           ToSet(order') = ToSet(order),
           \A k \in {"delete", "reorder", "drop"} : ops'[k] = ops[k]
    PROVE  /\ QueryInv' /\ LocalInv' /\ StaleInv' /\ AbsentInv' /\ OrderInv' /\ FullInv'
           /\ DragInv' /\ DeletedInv'
<1>1. QueryInv' /\ LocalInv'
  BY Grows
<1>2. Shown' = Shown /\ Seen' = Seen /\ \A k \in Keys : Cached(k)' = Cached(k)
  BY DEF Shown, Seen, Cached, cached, local, counts
<1>3. StaleInv' /\ AbsentInv'
  BY DEF IInv, StaleInv, AbsentInv, cached, local
<1>4. OrderInv' /\ FullInv'
  BY <1>2 DEF IInv, OrderInv, FullInv, local
<1>5. DragInv'
  BY DEF IInv, DragInv, Asked, local, counts, past
<1>6. DeletedInv'
  BY <1>2 DEF IInv, DeletedInv, counts
<1>7. QED
  BY <1>1, <1>3, <1>4, <1>5, <1>6

LEMMA DefaultKeeps ==
    ASSUME IInv, ops["default"].phase = "sent", Contains(order, ops["default"].portfolio),
           standard' = ops["default"].portfolio, Finish("default", "ok"),
           UNCHANGED <<order, held, ever, cached, local, counts, past>>
    PROVE  IInv'
<1>1. "default" \in Kinds /\ {"delete", "reorder", "drop", "move"} \subseteq Kinds \ {"default"}
  BY DEF Kinds
<1>2. /\ ops'["default"].phase = "ok" /\ OpsInv'
      /\ \A j \in Kinds \ {"default"} : ops'[j] = ops[j]
  BY <1>1, FinishedOps
<1>3. /\ QueryInv' /\ LocalInv' /\ StaleInv' /\ AbsentInv' /\ OrderInv' /\ FullInv'
      /\ DragInv' /\ DeletedInv'
  BY <1>1, <1>2, SameHoldings
<1>4. ServerInv'
  <2>1. order \in ListOf(ever)
    BY DEF IInv, TypeInv, ServerInv
  <2>2. standard' \in ToSet(order) /\ ToSet(<<>>) = {}
    BY <2>1, EmptyList, Elements DEF Contains
  <2>3. QED
    BY <2>2 DEF IInv, TypeInv, ServerInv
<1>5. RailInv'
  BY <1>2 DEF RailInv
<1>6. MoveInv'
  <2>1. SeenRail' = SeenRail /\ Read' = Read /\ ops'["move"] = ops["move"]
    BY <1>1, <1>2 DEF SeenRail, Read, cached
  <2>2. QED
    BY <2>1 DEF IInv, MoveInv, counts, past
<1>7. QED
  BY <1>2, <1>3, <1>4, <1>5, <1>6 DEF IInv, TypeInv

LEMMA MovingKeeps ==
    ASSUME IInv, ops["move"].phase = "sent", ToSet(ops["move"].items) = ToSet(order),
           order' = ops["move"].items, Finish("move", "ok"),
           UNCHANGED <<standard, held, ever, cached, local, counts, past>>
    PROVE  IInv'
<1>1. "move" \in Kinds /\ {"delete", "reorder", "drop"} \subseteq Kinds \ {"move"}
  BY DEF Kinds
<1>2. /\ ops'["move"].phase = "ok" /\ OpsInv'
      /\ \A j \in Kinds \ {"move"} : ops'[j] = ops[j]
  BY <1>1, FinishedOps
<1>3. /\ QueryInv' /\ LocalInv' /\ StaleInv' /\ AbsentInv' /\ OrderInv' /\ FullInv'
      /\ DragInv' /\ DeletedInv'
  BY <1>1, <1>2, SameHoldings
<1>4. ServerInv'
  <2>1. order \in ListOf(ever) /\ order' \in ListOf(ever)
    BY <1>1, OpFields DEF IInv, TypeInv, ServerInv, OpOK, ListOf
  <2>2. order = <<>> <=> order' = <<>>
    BY <2>1, EmptyList
  <2>3. QED
    BY <2>1, <2>2 DEF IInv, TypeInv, ServerInv
<1>5. RailInv' /\ MoveInv'
  BY <1>2 DEF RailInv, MoveInv
<1>6. QED
  BY <1>2, <1>3, <1>4, <1>5 DEF IInv, TypeInv

\* The holdings of one portfolio are put in another order, or some are taken away.
LEMMA HeldChanges ==
    ASSUME IInv, NEW q \in ToSet(order), NEW s \in ListOf(Holdings),
           ToSet(s) \subseteq ToSet(held[q]), held' = [held EXCEPT ![q] = s],
           UNCHANGED <<order, standard, ever, cached, local, counts, past>>,
           \A k \in {"create", "delete", "default", "move"} : ops'[k] = ops[k]
    PROVE  /\ ServerInv' /\ QueryInv' /\ LocalInv' /\ StaleInv' /\ AbsentInv'
           /\ DeletedInv' /\ RailInv' /\ MoveInv'
           /\ q \in Portfolios /\ \A p \in Portfolios : held'[p] = IF p = q THEN s ELSE held[p]
<1>1. /\ order \in ListOf(ever) /\ ever \subseteq Portfolios
      /\ held \in [Portfolios -> ListOf(Holdings)]
      /\ \A p \in ever \ ToSet(order) : held[p] = <<>>
  BY DEF IInv, TypeInv, ServerInv
<1>2. q \in Portfolios
  BY <1>1, Elements
<1>3. /\ held' \in [Portfolios -> ListOf(Holdings)]
      /\ \A p \in Portfolios : held'[p] = IF p = q THEN s ELSE held[p]
  BY <1>1, <1>2
<1>4. ServerInv'
  BY <1>1, <1>3 DEF IInv, TypeInv, ServerInv
<1>5. QueryInv' /\ LocalInv'
  BY Grows
<1>6. StaleInv'
  <2>1. \A p \in Portfolios : ToSet(held'[p]) \subseteq ToSet(held[p])
    BY <1>3
  <2>2. QED
    BY <2>1 DEF IInv, StaleInv, cached
<1>7. AbsentInv'
  BY DEF IInv, AbsentInv, cached, local
<1>8. DeletedInv'
  <2>1. \A k \in Keys : Cached(k)' = Cached(k)
    BY DEF Cached, cached
  <2>2. QED
    BY <2>1 DEF IInv, DeletedInv, counts
<1>9. SeenRail' = SeenRail /\ SeenStandard' = SeenStandard /\ Read' = Read
  BY DEF SeenRail, SeenStandard, Read, cached
<1>10. RailInv'
  BY <1>9 DEF IInv, RailInv, counts
<1>11. MoveInv'
  BY <1>9 DEF IInv, MoveInv, counts, past
<1>12. QED
  BY <1>2, <1>3, <1>4, <1>5, <1>6, <1>7, <1>8, <1>10, <1>11


LEMMA ReorderingKeeps ==
    ASSUME IInv, ops["reorder"].phase = "sent",
           ToSet(ops["reorder"].items) = ToSet(held[ops["reorder"].portfolio]),
           Contains(order, ops["reorder"].portfolio),
           held' = [held EXCEPT ![ops["reorder"].portfolio] = ops["reorder"].items],
           Finish("reorder", "ok"),
           UNCHANGED <<order, standard, ever, cached, local, counts, past>>
    PROVE  IInv'
<1> DEFINE op == ops["reorder"]
           p == op.portfolio
<1>1. /\ "reorder" \in Kinds
      /\ {"create", "delete", "default", "move", "drop"} \subseteq Kinds \ {"reorder"}
  BY DEF Kinds
<1>2. /\ ops'["reorder"].phase = "ok" /\ OpsInv'
      /\ \A j \in Kinds \ {"reorder"} : ops'[j] = ops[j]
  BY <1>1, FinishedOps
<1>3. order \in ListOf(ever) /\ p \in ToSet(order)
  <2>1. order \in ListOf(ever)
    BY DEF IInv, TypeInv, ServerInv
  <2>2. QED
    BY <2>1, Elements DEF Contains
<1>4. op.items \in ListOf(Holdings)
  BY <1>1, OpFields DEF OpOK, ListOf
<1>5. /\ ServerInv' /\ QueryInv' /\ LocalInv' /\ StaleInv' /\ AbsentInv'
      /\ DeletedInv' /\ RailInv' /\ MoveInv'
      /\ p \in Portfolios /\ \A q \in Portfolios : held'[q] = IF q = p THEN op.items ELSE held[q]
  <2>1. \A k \in {"create", "delete", "default", "move"} : ops'[k] = ops[k]
    BY <1>1, <1>2
  <2>2. ToSet(op.items) \subseteq ToSet(held[p]) /\ held' = [held EXCEPT ![p] = op.items]
    OBVIOUS
  <2> HIDE DEF p, op
  <2>3. QED
    BY <1>3, <1>4, <2>1, <2>2, HeldChanges
<1>6. OrderInv'
  BY <1>2 DEF OrderInv
<1>7. FullInv'
  <2>1. /\ Shown' = Shown /\ Seen' = Seen /\ url' = url /\ order' = order
        /\ ops'["drop"] = ops["drop"]
    BY <1>1, <1>2 DEF Shown, Seen, cached, local, counts
  <2> SUFFICES ASSUME Shown, ops["drop"].phase # "ok", url.portfolio \in ToSet(order)
               PROVE  Seen # Unknown /\ ToSet(Seen) \subseteq ToSet(held'[url.portfolio])
    BY <2>1 DEF FullInv
  <2>2. Seen # Unknown /\ ToSet(Seen) \subseteq ToSet(held[url.portfolio])
    BY DEF IInv, FullInv
  <2>3. url.portfolio \in Portfolios
    <3>1. url.portfolio \in ever /\ ever \subseteq Portfolios
      BY ListTypes DEF Shown, IInv, TypeInv, ServerInv
    <3>2. QED
      BY <3>1
  <2>4. QED
    BY <1>5, <2>2, <2>3
<1>8. DragInv'
  <2>1. overlay' = overlay /\ hasty' = hasty /\ faults' = faults /\ ~ Asked'
    BY <1>2 DEF local, counts, past, Asked
  <2>2. ASSUME faults = 0, "reorder" \notin hasty, NEW q \in Portfolios
        PROVE  overlay[q] = <<>> \/ Within(held'[q], overlay[q])
    <3>1. CASE q = p
      <4>1. overlay[p] \in {<<>>, op.items}
        BY <2>2 DEF IInv, DragInv
      <4>2. QED
        BY <1>5, <3>1, <4>1, WithinSelf
    <3>2. CASE q # p
      BY <1>5, <2>2, <3>2 DEF IInv, DragInv
    <3>3. QED
      BY <3>1, <3>2
  <2>3. QED
    BY <1>2, <2>1, <2>2 DEF DragInv
<1>9. QED
  BY <1>2, <1>5, <1>6, <1>7, <1>8 DEF IInv, TypeInv

LEMMA DroppingKeeps ==
    ASSUME IInv, ops["drop"].phase = "sent",
           Contains(held[ops["drop"].portfolio], Head(ops["drop"].items)),
           held' = [held EXCEPT ![ops["drop"].portfolio] = Without(@, Head(ops["drop"].items))],
           Finish("drop", "ok"),
           UNCHANGED <<order, standard, ever, cached, local, counts, past>>
    PROVE  IInv'
<1> DEFINE op == ops["drop"]
           p == op.portfolio
           s == Without(held[p], Head(op.items))
<1>1. /\ "drop" \in Kinds
      /\ {"create", "delete", "default", "move", "reorder"} \subseteq Kinds \ {"drop"}
  BY DEF Kinds
<1>2. /\ ops'["drop"].phase = "ok" /\ OpsInv'
      /\ \A j \in Kinds \ {"drop"} : ops'[j] = ops[j]
  BY <1>1, FinishedOps
<1>3. /\ ever \subseteq Portfolios /\ held \in [Portfolios -> ListOf(Holdings)]
      /\ \A q \in ever \ ToSet(order) : held[q] = <<>>
  BY DEF IInv, TypeInv, ServerInv
<1>4. p \in ever
  BY <1>1, OpFields DEF OpOK, Ids
<1>5. held[p] \in ListOf(Holdings)
  BY <1>3, <1>4
<1>6. p \in ToSet(order)
  <2>1. held[p] # <<>>
    <3>1. Len(<<>>) = 0
      OBVIOUS
    <3>2. QED
      BY <3>1 DEF Contains
  <2>2. QED
    BY <1>3, <1>4, <2>1
<1>7. s \in ListOf(Holdings) /\ ToSet(s) \subseteq ToSet(held[p]) /\ Within(s, held[p])
  BY <1>5, WithoutIs
<1>8. held' = [held EXCEPT ![p] = s]
  BY <1>3, <1>4
<1> HIDE DEF s
<1>9. /\ ServerInv' /\ QueryInv' /\ LocalInv' /\ StaleInv' /\ AbsentInv'
      /\ DeletedInv' /\ RailInv' /\ MoveInv'
      /\ p \in Portfolios /\ \A q \in Portfolios : held'[q] = IF q = p THEN s ELSE held[q]
  <2>1. \A k \in {"create", "delete", "default", "move"} : ops'[k] = ops[k]
    BY <1>1, <1>2
  <2> HIDE DEF p, op
  <2>2. QED
    BY <1>6, <1>7, <1>8, <2>1, HeldChanges
<1>10. \A q \in Portfolios : Within(held'[q], held[q]) /\ held'[q] \in ListOf(Holdings)
  BY <1>3, <1>7, <1>9, WithinSelf
<1>11. FullInv'
  BY <1>2 DEF FullInv
<1>12. OrderInv'
  <2>1. /\ Shown' = Shown /\ Seen' = Seen /\ url' = url /\ ops'["reorder"] = ops["reorder"]
    BY <1>1, <1>2 DEF Shown, Seen, cached, local, counts
  <2> SUFFICES ASSUME Shown, ops["reorder"].phase # "ok", Seen # Unknown
               PROVE  Agree(held'[url.portfolio], Seen)
    BY <2>1 DEF OrderInv
  <2>2. Agree(held[url.portfolio], Seen)
    BY DEF IInv, OrderInv
  <2>3. url.portfolio \in Portfolios
    <3>1. url.portfolio \in ever
      BY ListTypes DEF Shown
    <3>2. QED
      BY <1>3, <3>1
  <2>4. QED
    BY <1>10, <2>2, <2>3 DEF Agree, Within
<1>13. DragInv'
  <2>1. /\ overlay' = overlay /\ hasty' = hasty /\ faults' = faults
        /\ ops'["reorder"] = ops["reorder"]
    BY <1>1, <1>2 DEF local, counts, past
  <2>2. /\ overlay \in [Portfolios -> ListOf(Holdings)]
        /\ ops["reorder"].before \in ListOf(Holdings)
        /\ Asked => ops["reorder"].portfolio \in Portfolios
    <3>1. "reorder" \in Kinds /\ OpOK("reorder", ops["reorder"]) /\ ops["reorder"] \in Op
      BY <1>1, OpFields
    <3>2. QED
      BY <3>1 DEF OpOK, Op, Asked, IInv, TypeInv, LocalInv
  <2>3. ASSUME NEW q \in Portfolios, NEW t \in ListOf(Holdings), Within(held[q], t)
        PROVE  Within(held'[q], t)
    <3>1. held[q] \in ListOf(Holdings) /\ held'[q] \in ListOf(Holdings) /\ Within(held'[q], held[q])
      BY <1>3, <1>10
    <3>2. QED
      BY <2>3, <3>1, AgreeWithin
  <2>4. SUFFICES ASSUME faults = 0, "reorder" \notin hasty
                 PROVE  /\ \A q \in Portfolios :
                              \/ overlay[q] = <<>> \/ Within(held'[q], overlay[q])
                              \/ (Asked /\ ops["reorder"].portfolio = q)
                        /\ Asked => Within(held'[ops["reorder"].portfolio], ops["reorder"].before)
    BY <2>1 DEF IInv, DragInv, Asked
  <2>5. /\ \A q \in Portfolios :
              \/ overlay[q] = <<>> \/ Within(held[q], overlay[q])
              \/ (Asked /\ ops["reorder"].portfolio = q)
        /\ Asked => Within(held[ops["reorder"].portfolio], ops["reorder"].before)
    BY <2>4 DEF IInv, DragInv
  <2>6. \A q \in Portfolios : overlay[q] \in ListOf(Holdings)
    BY <2>2
  <2>7. QED
    BY <2>2, <2>3, <2>5, <2>6
<1>14. QED
  BY <1>2, <1>9, <1>11, <1>12, <1>13 DEF IInv, TypeInv

LEMMA ServeKeeps ==
    ASSUME IInv, NEW k \in Kinds, Serve(k)
    PROVE  IInv'
<1>1. /\ ops[k].phase = "sent" /\ Served(k) /\ UNCHANGED <<cached, local, counts, past>>
  BY DEF Serve
<1>2. Refuse(k) => IInv'
  BY <1>1, RefusalKeeps
<1>3. CASE k = "create"
  <2>1. ServeCreate
    BY <1>1, <1>3 DEF Served
  <2>2. QED
    BY <1>1, <1>2, <1>3, <2>1, CreationKeeps DEF ServeCreate
<1>4. CASE k = "delete"
  <2>1. ServeDelete
    BY <1>1, <1>4 DEF Served
  <2>2. QED
    BY <1>1, <1>2, <1>4, <2>1, DeletionKeeps DEF ServeDelete
<1>5. CASE k = "default"
  <2>1. ServeDefault
    BY <1>1, <1>5 DEF Served
  <2>2. QED
    BY <1>1, <1>2, <1>5, <2>1, DefaultKeeps DEF ServeDefault
<1>6. CASE k = "move"
  <2>1. ServeMove
    BY <1>1, <1>6 DEF Served
  <2>2. QED
    BY <1>1, <1>2, <1>6, <2>1, MovingKeeps DEF ServeMove
<1>7. CASE k = "reorder"
  <2>1. ServeReorder
    BY <1>1, <1>7 DEF Served
  <2>2. QED
    BY <1>1, <1>2, <1>7, <2>1, ReorderingKeeps DEF ServeReorder
<1>8. CASE k = "drop"
  <2>1. ServeDrop
    BY <1>1, <1>8 DEF Served
  <2>2. QED
    BY <1>1, <1>2, <1>8, <2>1, DroppingKeeps DEF ServeDrop
<1>9. QED
  BY <1>3, <1>4, <1>5, <1>6, <1>7, <1>8 DEF Kinds

(***************************************************************************)
(* The faults.                                                             *)
(***************************************************************************)

LEMMA FaultCounts ==
    ASSUME IInv, Fault
    PROVE  /\ faults' \in 0..MaxFaults /\ gestures' = gestures
           /\ OrderInv' /\ FullInv' /\ DragInv' /\ DeletedInv' /\ RailInv' /\ MoveInv'
<1>1. faults \in 0..MaxFaults /\ MaxFaults \in Nat
  BY PageAssumption DEF IInv, TypeInv, LocalInv
<1>2. faults' \in 0..MaxFaults /\ faults' # 0 /\ gestures' = gestures
  BY <1>1 DEF Fault
<1>3. QED
  BY <1>2 DEF OrderInv, FullInv, DragInv, DeletedInv, RailInv, MoveInv, Shown

LEMMA FaultsKeep ==
    ASSUME IInv
    PROVE  /\ \A k \in Kinds : Lose(k) => IInv'
           /\ LoseFetches => IInv'
           /\ \A p \in Portfolios : DeleteElsewhere(p) => IInv'
<1>1. ASSUME Fault, UNCHANGED <<ever, local, past>> PROVE LocalInv'
  BY <1>1, FaultCounts DEF IInv, TypeInv, LocalInv, Ids, local, past
<1>2. ASSUME NEW k \in Kinds, Lose(k) PROVE IInv'
  <2>1. Fault /\ Finish(k, "refused") /\ UNCHANGED <<server, cached, local, past>>
    BY <1>2 DEF Lose
  <2>2. ops[k].phase # "idle"
    BY <1>2 DEF Lose
  <2>3. OpsInv'
    BY <2>1, <2>2, FinishedOps DEF server
  <2>4. LocalInv'
    BY <1>1, <2>1 DEF server
  <2>5. ServerInv' /\ QueryInv' /\ StaleInv' /\ AbsentInv'
    BY <2>1 DEF IInv, TypeInv, ServerInv, QueryInv, StaleInv, AbsentInv, Ids, server, cached, local
  <2>6. QED
    BY <2>1, <2>3, <2>4, <2>5, FaultCounts DEF IInv, TypeInv
<1>3. ASSUME LoseFetches PROVE IInv'
  <2>1. /\ Fault /\ railFetch' = NoRailFetch /\ listFetch' = NoListFetch
        /\ UNCHANGED <<server, rail, lists, local, ops, past>>
    BY <1>3 DEF LoseFetches
  <2>2. LocalInv' /\ OpsInv'
    BY <1>1, <2>1, OpsSame DEF server
  <2>3. QueryInv'
    <3>1. <<>> \in ListOf(ever) /\ None \in Ids
      BY EmptyList DEF Ids
    <3>2. QED
      BY <2>1, <3>1 DEF IInv, TypeInv, QueryInv, Ids, server, local, NoRailFetch, NoListFetch
  <2>4. ServerInv'
    BY <2>1 DEF IInv, TypeInv, ServerInv, server
  <2>5. StaleInv' /\ AbsentInv'
    BY <2>1 DEF IInv, StaleInv, AbsentInv, server, NoListFetch
  <2>6. QED
    BY <2>1, <2>2, <2>3, <2>4, <2>5, FaultCounts DEF IInv, TypeInv
<1>4. ASSUME NEW p \in Portfolios, DeleteElsewhere(p) PROVE IInv'
  <2>1. /\ Contains(order, p) /\ Fault /\ Removed(p) /\ UNCHANGED <<cached, local, ops, past>>
    BY <1>4 DEF DeleteElsewhere
  <2>2. p \in ToSet(order)
    <3>1. order \in ListOf(ever)
      BY DEF IInv, TypeInv, ServerInv
    <3>2. QED
      BY <2>1, <3>1, Elements DEF Contains
  <2>3. ServerInv' /\ QueryInv' /\ StaleInv' /\ AbsentInv' /\ ever' = ever
    BY <2>1, <2>2, RemovalKeeps
  <2>4. LocalInv' /\ OpsInv'
    BY <1>1, <2>1, <2>3, OpsSame
  <2>5. QED
    BY <2>1, <2>3, <2>4, FaultCounts DEF IInv, TypeInv
<1>5. QED
  BY <1>2, <1>3, <1>4


(***************************************************************************)
(* The theorems.                                                           *)
(***************************************************************************)

LEMMA InitKeeps ==
    ASSUME Init
    PROVE  IInv
<1>1. /\ Start \in ListOf(Portfolios) /\ Start # <<>> /\ Start \in Seq(Portfolios)
      /\ Home \in [Portfolios -> ListOf(Holdings)]
      /\ None \notin Portfolios /\ MaxGestures \in Nat /\ MaxFaults \in Nat
  BY PageAssumption DEF ListOf
<1>2. Start \in ListOf(ToSet(Start)) /\ ToSet(Start) \subseteq Portfolios
  BY <1>1, Elements
<1>3. Head(Start) \in ToSet(Start)
  <2>1. Start \in Seq(ToSet(Start))
    BY <1>2, Elements
  <2>2. QED
    BY <1>1, <2>1
<1>4. \A S : <<>> \in ListOf(S)
  BY EmptyList
<1>5. /\ order = Start /\ standard = Head(Start) /\ ever = ToSet(Start) /\ held = Home
      /\ url = Blank /\ rail = [known |-> FALSE, items |-> <<>>, standard |-> None]
      /\ railFetch = RailFetching /\ lists = [k \in Keys |-> Unknown]
      /\ listFetch = NoListFetch /\ overlay = [p \in Portfolios |-> <<>>]
      /\ dialog = FALSE /\ asking = None /\ ops = [k \in Kinds |-> NoOp]
      /\ gestures = 0 /\ faults = 0 /\ newest = None /\ hasty = {}
  BY DEF Init
<1>6. OpsInv
  <2>1. <<>> \in Seq(ever) /\ <<>> \in Seq(Holdings)
    OBVIOUS
  <2>2. ASSUME NEW k \in Kinds PROVE OpOK(k, NoOp)
    BY <2>1, NoOpIsOp DEF OpOK, Ids
  <2>3. QED
    BY <1>5, <2>2, NoOpIsOp DEF OpsInv
<1>7. ServerInv
  BY <1>1, <1>2, <1>3, <1>5 DEF ServerInv
<1>8. QueryInv
  BY <1>4, <1>5 DEF QueryInv, Ids, RailFetching, NoRailFetch, NoListFetch
<1>9. LocalInv
  <2>1. 1 \in Nat \ {0} /\ None \in Ids
    BY DEF Ids
  <2>2. url \in Url /\ url.portfolio = None
    BY <1>5, <2>1 DEF Url, Blank
  <2>3. overlay \in [Portfolios -> ListOf(Holdings)]
    BY <1>4, <1>5
  <2>4. gestures \in 0..MaxGestures /\ faults \in 0..MaxFaults
    BY <1>1, <1>5
  <2>5. QED
    BY <1>5, <2>1, <2>2, <2>3, <2>4 DEF LocalInv
<1>10. StaleInv /\ AbsentInv
  <2>1. \A p \in Portfolios : All(p) \in Keys
    BY DEF All, Keys, Views
  <2>2. QED
    BY <1>5, <2>1 DEF StaleInv, AbsentInv, NoListFetch
<1>11. OrderInv /\ FullInv
  BY <1>5 DEF OrderInv, FullInv, Shown, Wanted, Blank
<1>12. \A k \in Kinds : ops[k].phase = "idle"
  BY <1>5, NoOpIsOp
<1>13. {"reorder", "move", "delete"} \subseteq Kinds
  BY DEF Kinds
<1>14. DragInv
  BY <1>5, <1>12, <1>13 DEF DragInv, Asked
<1>15. DeletedInv
  BY <1>5 DEF DeletedInv
<1>16. RailInv /\ MoveInv
  <2>1. ~ Read
    BY <1>5 DEF Read, RailFetching, NoRailFetch
  <2>2. QED
    BY <1>12, <1>13, <2>1 DEF RailInv, MoveInv
<1>17. QED
  BY <1>6, <1>7, <1>8, <1>9, <1>10, <1>11, <1>14, <1>15, <1>16 DEF IInv, TypeInv

LEMMA StutterKeeps ==
    ASSUME IInv, UNCHANGED vars
    PROVE  IInv'
<1>1. UNCHANGED <<server, cached, local, ops, counts, past>>
  BY DEF vars
<1>2. OpsInv' /\ ServerInv' /\ LocalInv' /\ DragInv'
  BY <1>1, SameRest
<1>3. RailInv' /\ MoveInv'
  BY <1>1, SameRail DEF cached
<1>4. StaleInv' /\ AbsentInv' /\ OrderInv' /\ FullInv' /\ DeletedInv'
  BY <1>1, SameLists DEF cached, local
<1>5. QueryInv'
  BY <1>1 DEF IInv, TypeInv, QueryInv, Ids, server, cached, local
<1>6. QED
  BY <1>2, <1>3, <1>4, <1>5 DEF IInv, TypeInv

LEMMA NextKeeps ==
    ASSUME IInv, [Next]_vars
    PROVE  IInv'
<1>1. CASE RunEffects
  BY <1>1, EffectsKeep
<1>2. CASE Visit
  BY <1>2, VisitKeeps
<1>3. CASE Answer
  BY <1>3, AnswersKeep
<1>4. CASE Query
  BY <1>4, RailQueriesKeep, ServeListKeeps, ReceiveListKeeps DEF Query
<1>5. CASE LoseFetches
  BY <1>5, FaultsKeep
<1>6. ASSUME NEW k \in Kinds, Serve(k) \/ Lose(k) PROVE IInv'
  BY <1>6, ServeKeeps, FaultsKeep
<1>7. ASSUME NEW p \in Portfolios, DeleteElsewhere(p) PROVE IInv'
  BY <1>7, FaultsKeep
<1>8. CASE UNCHANGED vars
  BY <1>8, StutterKeeps
<1>9. QED
  BY <1>1, <1>2, <1>3, <1>4, <1>5, <1>6, <1>7, <1>8 DEF Next

\* The lists of the server and of the page, their fetches, the dragged orders
\* and the requests under way stay in step as the parts of IInv say.
THEOREM Invariant == Spec => []IInv
  BY InitKeeps, NextKeeps, PTL DEF Spec

\* Lists name portfolios handed out and holdings, none of them twice
\* (use-portfolios-controller.ts, portfolio-list-logic.ts).
THEOREM TypeCorrect == Spec => []TypeOK
<1>1. IInv => TypeOK
  <2> SUFFICES ASSUME IInv PROVE TypeOK
    OBVIOUS
  <2>1. OpsInv /\ ServerInv /\ QueryInv /\ LocalInv
    BY DEF IInv, TypeInv
  <2>2. \A S : \A s \in ListOf(S) : s \in Seq(S) /\ IsInjective(s)
    BY DEF ListOf
  <2>3. /\ order \in Seq(ever) /\ IsInjective(order) /\ ever \subseteq Portfolios
        /\ standard \in IF order = <<>> THEN {None} ELSE ToSet(order)
        /\ held \in [Portfolios -> Seq(Holdings)]
    BY <2>1, <2>2 DEF ServerInv
  <2>4. /\ rail \in [known : BOOLEAN, items : Seq(ever), standard : ever \cup {None}]
        /\ railFetch \in [phase : {"idle", "sent", "served"}, items : Seq(ever),
                          standard : ever \cup {None}]
    BY <2>1, <2>2 DEF QueryInv, Ids
  <2>5. /\ lists \in [Keys -> Seq(Holdings) \cup {Unknown}]
        /\ listFetch \in [phase : {"idle", "sent", "served"}, key : Keys \cup {None},
                          items : Seq(Holdings) \cup {Unknown}]
    BY <2>1, <2>2 DEF QueryInv
  <2>6. /\ url \in Url
        /\ overlay \in [Portfolios -> Seq(Holdings)] /\ \A p \in Portfolios : IsInjective(overlay[p])
        /\ dialog \in BOOLEAN /\ asking \in ever \cup Holdings \cup {None}
        /\ gestures \in 0..MaxGestures /\ faults \in 0..MaxFaults
        /\ newest \in ever \cup {None} /\ hasty \subseteq {"move", "reorder"}
    BY <2>1, <2>2 DEF LocalInv, Ids
  <2>7. ASSUME NEW k \in Kinds
        PROVE  /\ ops[k].phase \in {"idle", "sent", "ok", "refused"}
               /\ ops[k].portfolio \in ever \cup {None} /\ ops[k].at \in Url
    BY OpFields DEF Op, Ids
  <2>8. QED
    BY <2>3, <2>4, <2>5, <2>6, <2>7 DEF TypeOK
<1>2. QED
  BY <1>1, Invariant, PTL

\* Once the answers are in, the page shows the portfolios and the holdings
\* stored, in their order, and the selection is one of them
\* (use-portfolios-controller.ts).
THEOREM QuietIsCurrent == Spec => []QuietPageShowsWhatIsStored
<1>1. IInv => QuietPageShowsWhatIsStored
  <2> SUFFICES ASSUME IInv, Quiet, faults = 0
               PROVE  /\ rail.items = order /\ rail.standard = standard
                      /\ IF order = <<>> THEN url.portfolio = None ELSE Contains(order, url.portfolio)
                      /\ Wanted(url) /\ ~url.filtered =>
                            IF "reorder" \in hasty
                            THEN ToSet(Ordered) = ToSet(held[url.portfolio])
                            ELSE Ordered = held[url.portfolio]
    BY DEF QuietPageShowsWhatIsStored
  <2>1. /\ rail.known /\ railFetch.phase = "idle" /\ listFetch.phase = "idle" /\ ~ SelectDue
        /\ \A k \in Kinds : ops[k].phase = "idle"
    BY DEF Quiet, EffectDue
  <2>2. {"create", "delete", "default", "move", "reorder", "drop"} \subseteq Kinds
    BY DEF Kinds
  <2>3. rail.items = order /\ rail.standard = standard
    BY <2>1, <2>2 DEF IInv, RailInv, Read, SeenRail, SeenStandard
  <2>4. /\ order \in ListOf(ever) /\ standard \in IF order = <<>> THEN {None} ELSE ToSet(order)
        /\ overlay \in [Portfolios -> ListOf(Holdings)] /\ ever \subseteq Portfolios
    BY DEF IInv, TypeInv, ServerInv, LocalInv
  <2>5. \A x : Contains(order, x) <=> x \in ToSet(order)
    <3>1. ToSet(order) = {order[n] : n \in 1..Len(order)}
      BY <2>4, Elements
    <3>2. QED
      BY <3>1 DEF Contains
  <2>6. Contains(order, url.portfolio) \/ url.portfolio = Fallback
    BY <2>1, <2>3 DEF SelectDue
  <2>7. CASE order = <<>>
    <3>1. \A x : ~ Contains(order, x)
      BY <2>5, <2>7, EmptyList
    <3>2. url.portfolio = None
      BY <2>3, <2>6, <2>7, <3>1 DEF Fallback, FirstOf
    <3>3. QED
      BY <2>3, <2>7, <3>2 DEF Wanted
  <2>8. CASE order # <<>>
    <3>1. Contains(order, standard)
      BY <2>4, <2>5, <2>8
    <3>2. Contains(order, url.portfolio)
      BY <2>3, <2>6, <3>1 DEF Fallback
    <3> DEFINE p == url.portfolio
    <3>3. ASSUME Wanted(url), ~ url.filtered
          PROVE  IF "reorder" \in hasty THEN ToSet(Ordered) = ToSet(held[p]) ELSE Ordered = held[p]
      <4>1. Shown /\ Seen = lists[Key(url)] /\ Key(url) = All(p)
        BY <2>1, <3>3 DEF Shown, Seen, Key, All
      <4>2. p \in Portfolios /\ p \in ToSet(order)
        BY <2>4, <2>5, <3>2, <3>3, ListTypes
      <4>3. Seen # Unknown /\ ToSet(Seen) \subseteq ToSet(held[p])
        BY <2>1, <2>2, <4>1, <4>2 DEF IInv, FullInv
      <4>4. Agree(held[p], Seen)
        BY <2>1, <2>2, <4>1, <4>3 DEF IInv, OrderInv
      <4>5. ToSet(held[p]) \subseteq ToSet(Seen)
        BY <4>1, <4>2, <4>3 DEF IInv, StaleInv
      <4>6. Items = Seen /\ Ordered = Reconcile(overlay[p], Items)
        BY <3>3, <4>1, <4>3 DEF Items, Ordered
      <4>7. /\ held[p] \in ListOf(Holdings) /\ Items \in ListOf(Holdings)
            /\ overlay[p] \in ListOf(Holdings)
        BY <2>4, <4>2, ListTypes, Shows
      <4>8. held[p] = Items
        <5>1. Agree(held[p], Items) /\ ToSet(held[p]) = ToSet(Items)
          BY <4>3, <4>4, <4>5, <4>6
        <5> DEFINE s == held[p]
                   t == Items
        <5>2. s \in ListOf(Holdings) /\ t \in ListOf(Holdings) /\ Agree(s, t) /\ ToSet(s) = ToSet(t)
          BY <4>7, <5>1
        <5> HIDE DEF s, t
        <5>3. s = t
          BY <5>2, SameList
        <5>4. QED
          BY <5>3 DEF s, t
      <4>9. /\ Ordered \in ListOf(Holdings) /\ ToSet(Ordered) = ToSet(held[p])
            /\ overlay[p] = <<>> => Ordered = held[p]
            /\ Within(held[p], overlay[p]) => Within(held[p], Ordered)
        BY <4>6, <4>7, <4>8, ReconcileIs
      <4>10. ASSUME "reorder" \notin hasty PROVE Ordered = held[p]
        <5>1. overlay[p] = <<>> \/ Within(held[p], overlay[p])
          BY <2>1, <2>2, <4>2, <4>10 DEF IInv, DragInv, Asked
        <5>2. CASE Within(held[p], Ordered)
          BY <4>7, <4>9, <5>2, SameList DEF Within
        <5>3. QED
          BY <4>9, <5>1, <5>2
      <4>11. QED
        BY <4>9, <4>10
    <3>4. QED
      BY <2>3, <2>8, <3>2, <3>3
  <2>9. QED
    BY <2>7, <2>8
<1>2. QED
  BY <1>1, Invariant, PTL

\* removeQueries of useDeletePortfolioMutation leaves nothing of a deleted
\* portfolio in the cache, and no fetch under way brings it back.
THEOREM DeletedStaysForgotten == Spec => []DeletedIsForgotten
<1>1. IInv => DeletedIsForgotten
  <2> SUFFICES ASSUME IInv, faults = 0, ops["delete"].phase = "idle",
                      NEW k \in Keys, k[1] \in ever \ ToSet(order)
               PROVE  lists[k] = Unknown
    BY DEF DeletedIsForgotten
  <2>1. Cached(k) => FALSE
    BY DEF IInv, DeletedInv
  <2>2. QED
    BY <2>1 DEF Cached
<1>2. QED
  BY <1>1, Invariant, PTL

\* A request to move one portfolio exchanges two neighbours of the order stored
\* by then (movePortfolio).
THEOREM MovesSwapNeighbours == Spec => OneSwapAtATime
<1> DEFINE A == "move" \notin hasty /\ faults = 0 /\ order' # order /\ ToSet(order') = ToSet(order) =>
          \E i \in 2..Len(order) : order' = [order EXCEPT ![i - 1] = order[i], ![i] = order[i - 1]]
<1>1. IInv /\ [Next]_vars => A
  <2> SUFFICES ASSUME IInv, [Next]_vars, "move" \notin hasty, faults = 0, order' # order,
                      ToSet(order') = ToSet(order)
               PROVE  \E i \in 2..Len(order) :
                         order' = [order EXCEPT ![i - 1] = order[i], ![i] = order[i - 1]]
    OBVIOUS
  <2>1. order \in ListOf(ever) /\ ever \subseteq Portfolios /\ ToSet(order) \subseteq ever
    BY Elements DEF IInv, TypeInv, ServerInv
  <2>2. ASSUME NEW p, p \in ToSet(order), Removed(p) PROVE FALSE
    <3>1. ToSet(order') = ToSet(order) \ {p}
      BY <2>1, <2>2, WithoutIs DEF Removed
    <3>2. QED
      BY <2>2, <3>1
  <2>3. \A p \in Portfolios : ~ DeleteElsewhere(p)
    BY <2>1, <2>2, Elements DEF DeleteElsewhere, Contains
  <2>4. /\ RunEffects \/ Visit \/ Answer \/ Query \/ LoseFetches => UNCHANGED server
        /\ \A k \in Kinds : Lose(k) => UNCHANGED server
    <3>1. RunEffects \/ Query \/ LoseFetches => UNCHANGED server
      BY DEF RunEffects, Query, ServeRail, ServeList, ReceiveRail, ReceiveList, LoseFetches
    <3>2. Answer => UNCHANGED server
      BY DEF Answer, CreateAnswered, DeleteAnswered, RailAnswered, ReorderAnswered,
             DropAnswered, Failed
    <3>3. Visit => UNCHANGED server
      BY DEF Visit, Rail, Header, Workspace, Headings, TableRows, Dialog, Confirm, Filters,
             OpenDialog, Select, Move, SetDefault, Refresh, Ask, ResetList, SetFilter, SetTab,
             GoToPage, ToggleSort, Drag, SubmitCreate, ConfirmDelete, ConfirmDrop, Browse, Send
    <3>4. \A k \in Kinds : Lose(k) => UNCHANGED server
      BY DEF Lose
    <3>5. QED
      BY <3>1, <3>2, <3>3, <3>4
  <2>5. PICK k \in Kinds : Serve(k)
    BY <2>3, <2>4 DEF Next, vars, server
  <2>6. ops[k].phase = "sent" /\ Served(k)
    BY <2>5 DEF Serve
  <2>7. k = "move" /\ order' = ops["move"].items
    <3>1. k = "create" => FALSE
      <4>1. ASSUME NEW p \in Portfolios \ ever, order' = Append(order, p) PROVE FALSE
        <5>1. order \in ListOf(ever \cup {p}) /\ p \notin ToSet(order)
          BY <2>1 DEF ListOf
        <5>2. ToSet(Append(order, p)) = ToSet(order) \cup {p}
          BY <5>1, AppendIs
        <5>3. QED
          BY <4>1, <5>1, <5>2
      <4>2. QED
        BY <2>6, <4>1 DEF Served, ServeCreate, Refuse, server
    <3>2. k = "delete" => FALSE
      <4>1. Contains(order, ops["delete"].portfolio) => ops["delete"].portfolio \in ToSet(order)
        BY <2>1, Elements DEF Contains
      <4>2. QED
        BY <2>2, <2>6, <4>1 DEF Served, ServeDelete, Refuse, server
    <3>3. k \notin {"default", "reorder", "drop"}
      BY <2>6 DEF Served, ServeDefault, ServeReorder, ServeDrop, Refuse, server
    <3>4. k = "move" => order' = ops["move"].items
      BY <2>6 DEF Served, ServeMove, Refuse, server
    <3>5. QED
      BY <3>1, <3>2, <3>3, <3>4 DEF Kinds
  <2>8. PICK L \in ListOf(ever) : \E i \in 2..Len(L) :
            ops["move"].items = Swapped(L, i) /\ Agree(L, order)
    BY <2>6, <2>7 DEF IInv, MoveInv
  <2>9. PICK i \in 2..Len(L) : ops["move"].items = Swapped(L, i) /\ Agree(L, order)
    BY <2>8
  <2>10. ToSet(L) = ToSet(order)
    BY <2>7, <2>8, <2>9, SwappedIs
  <2>11. L = order
    BY <2>1, <2>8, <2>9, <2>10, SameList
  <2>12. order' = [order EXCEPT ![i - 1] = order[i], ![i] = order[i - 1]]
    BY <2>7, <2>9, <2>11 DEF Swapped
  <2>13. QED
    BY <2>9, <2>11, <2>12
<1>2. IInv /\ [Next]_vars => [A]_order
  BY <1>1
<1> HIDE DEF A
<1>3. Spec => [][A]_order
  BY <1>2, Invariant, PTL DEF Spec
<1>4. QED
  BY <1>3 DEF OneSwapAtATime, A
=============================================================================
