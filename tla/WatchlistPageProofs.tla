------------------------- MODULE WatchlistPageProofs -------------------------
(***************************************************************************)
(* The stored watchlist and the page over it, for any rows, filters and    *)
(* bounds: the types, with the bound of the numbers; that a new row stays  *)
(* on top; that a request which runs alone does what it says and closes    *)
(* the numbers up; that a quiet page shows what is stored; and that the    *)
(* ticks drawn are those of the view.                                      *)
(***************************************************************************)
EXTENDS WatchlistPage, TLAPS, FiniteSetTheorems, SequenceTheorems

(***************************************************************************)
(* The order of the list.  Listing goes by the numbers and by added, which *)
(* a creation changes: here both are parameters, so that what is shown of  *)
(* them holds before and after a step.                                     *)
(***************************************************************************)

Sooner(a, order, i, j) == \/ order[i] < order[j]
                          \/ order[i] = order[j] /\ Index(a, i) > Index(a, j)
Rank(a, order) ==
    [i \in DOMAIN order |-> Cardinality({j \in DOMAIN order : Sooner(a, order, j, i)})]
InRank(a, order) ==
    [n \in 1..Cardinality(DOMAIN order) |-> CHOOSE i \in DOMAIN order : Rank(a, order)[i] = n - 1]

\* Rows that were added, with their numbers.
Orders(a, order) ==
    /\ a \in Seq(ToSet(a)) /\ IsInjective(a)
    /\ DOMAIN order \subseteq ToSet(a) /\ order \in [DOMAIN order -> Nat]

LEMMA ListingIsInRank ==
    \A order : Listing(order) = InRank(added, order) /\ Listing(order)' = InRank(added', order)
  BY DEF Listing, Place, Before, Added, InRank, Rank, Sooner, Index

LEMMA ListedIsInRank == Listed = InRank(added, rows) /\ Listed' = InRank(added', rows')
  BY DEF Listed, Listing, Place, Before, Added, InRank, Rank, Sooner, Index

LEMMA IndexAt ==
    ASSUME NEW s, NEW i \in ToSet(s), s \in Seq(ToSet(s))
    PROVE  Index(s, i) \in 1..Len(s) /\ s[Index(s, i)] = i
<1>1. \E n \in 1..Len(s) : s[n] = i
  BY DEF ToSet
<1>2. QED
  BY <1>1 DEF Index

\* The only place of a row in a sequence without repetitions.
LEMMA IndexIs ==
    ASSUME NEW s, s \in Seq(ToSet(s)), IsInjective(s), NEW n \in 1..Len(s)
    PROVE  Index(s, s[n]) = n
<1>1. s[n] \in ToSet(s)
  BY DEF ToSet
<1>2. Index(s, s[n]) \in 1..Len(s) /\ s[Index(s, s[n])] = s[n]
  BY <1>1, IndexAt
<1>3. DOMAIN s = 1..Len(s)
  OBVIOUS
<1>4. QED
  BY <1>2, <1>3 DEF IsInjective

LEMMA IntervalIsFinite ==
    ASSUME NEW n \in Nat
    PROVE  IsFiniteSet(1..n) /\ Cardinality(1..n) = n
<1>1. /\ IsFiniteSet(1..n) /\ Cardinality(1..n) = IF 1 > n THEN 0 ELSE n - 1 + 1
  BY FS_Interval
<1>2. QED
  BY <1>1

LEMMA SequenceIsFinite ==
    ASSUME NEW s, s \in Seq(ToSet(s))
    PROVE  /\ IsFiniteSet(ToSet(s)) /\ Cardinality(ToSet(s)) <= Len(s)
           /\ IsInjective(s) => Cardinality(ToSet(s)) = Len(s)
<1>0. Len(s) \in Nat
  OBVIOUS
<1>1. /\ IsFiniteSet(1..Len(s)) /\ Cardinality(1..Len(s)) = Len(s)
  BY <1>0, IntervalIsFinite
<1>2. s \in Surjection(1..Len(s), ToSet(s))
  BY DEF Surjection, ToSet
<1>3. /\ IsFiniteSet(ToSet(s)) /\ Cardinality(ToSet(s)) <= Cardinality(1..Len(s))
      /\ Cardinality(ToSet(s)) = Cardinality(1..Len(s)) <=> s \in Injection(1..Len(s), ToSet(s))
  BY <1>1, <1>2, FS_Surjection
<1>4. IsInjective(s) => s \in Injection(1..Len(s), ToSet(s))
  BY DEF IsInjective, Injection
<1>5. QED
  BY <1>1, <1>3, <1>4

LEMMA SoonerIsTotal ==
    ASSUME NEW a, NEW order, Orders(a, order),
           NEW i \in DOMAIN order, NEW j \in DOMAIN order, NEW k \in DOMAIN order
    PROVE  /\ ~ Sooner(a, order, i, i)
           /\ Sooner(a, order, i, j) /\ Sooner(a, order, j, k) => Sooner(a, order, i, k)
           /\ i # j => Sooner(a, order, i, j) \/ Sooner(a, order, j, i)
           /\ ~ (Sooner(a, order, i, j) /\ Sooner(a, order, j, i))
<1>1. /\ order[i] \in Nat /\ order[j] \in Nat /\ order[k] \in Nat
      /\ i \in ToSet(a) /\ j \in ToSet(a) /\ k \in ToSet(a) /\ a \in Seq(ToSet(a))
  BY DEF Orders
<1>2. /\ Index(a, i) \in Nat /\ Index(a, j) \in Nat /\ Index(a, k) \in Nat
      /\ i # j => Index(a, i) # Index(a, j)
  <2>1. \A h \in ToSet(a) : Index(a, h) \in 1..Len(a) /\ a[Index(a, h)] = h
    BY <1>1, IndexAt
  <2>2. Len(a) \in Nat
    BY <1>1
  <2>3. /\ Index(a, i) \in 1..Len(a) /\ a[Index(a, i)] = i
        /\ Index(a, j) \in 1..Len(a) /\ a[Index(a, j)] = j
        /\ Index(a, k) \in 1..Len(a)
    BY <1>1, <2>1
  <2>4. QED
    BY <2>2, <2>3
<1>3. QED
  BY <1>1, <1>2 DEF Sooner

LEMMA DomainIsFinite ==
    ASSUME NEW a, NEW order, Orders(a, order)
    PROVE  /\ IsFiniteSet(DOMAIN order) /\ Cardinality(DOMAIN order) \in Nat
           /\ Cardinality(DOMAIN order) <= Len(a)
<1>1. /\ IsFiniteSet(ToSet(a)) /\ Cardinality(ToSet(a)) <= Len(a) /\ Len(a) \in Nat
  BY SequenceIsFinite DEF Orders
<1>2. /\ IsFiniteSet(DOMAIN order) /\ Cardinality(DOMAIN order) <= Cardinality(ToSet(a))
  BY <1>1, FS_Subset DEF Orders
<1>3. Cardinality(DOMAIN order) \in Nat /\ Cardinality(ToSet(a)) \in Nat
  BY <1>1, <1>2, FS_CardinalityType
<1>4. QED
  BY <1>1, <1>2, <1>3

LEMMA RankRises ==
    ASSUME NEW a, NEW order, Orders(a, order),
           NEW i \in DOMAIN order, NEW j \in DOMAIN order, Sooner(a, order, i, j)
    PROVE  /\ Rank(a, order)[i] \in Nat /\ Rank(a, order)[j] \in Nat
           /\ Rank(a, order)[i] < Rank(a, order)[j]
<1> DEFINE Ahead(k) == {h \in DOMAIN order : Sooner(a, order, h, k)}
<1>1. Ahead(i) \subseteq Ahead(j) /\ i \in Ahead(j) /\ i \notin Ahead(i)
  BY SoonerIsTotal
<1>2. /\ IsFiniteSet(Ahead(j)) /\ IsFiniteSet(Ahead(i))
      /\ Cardinality(Ahead(i)) <= Cardinality(Ahead(j))
      /\ Cardinality(Ahead(i)) # Cardinality(Ahead(j))
  <2>1. IsFiniteSet(DOMAIN order) /\ Ahead(j) \in SUBSET DOMAIN order
    BY DomainIsFinite
  <2>2. IsFiniteSet(Ahead(j))
    BY <2>1, FS_Subset
  <2>3. QED
    BY <1>1, <2>2, FS_Subset
<1>3. Cardinality(Ahead(i)) \in Nat /\ Cardinality(Ahead(j)) \in Nat
  BY <1>2, FS_CardinalityType
<1>4. QED
  BY <1>2, <1>3 DEF Rank

\* Every row has a place of its own, and every place is taken.
LEMMA RankIsBijection ==
    ASSUME NEW a, NEW order, Orders(a, order)
    PROVE  Rank(a, order) \in Bijection(DOMAIN order, 0..(Cardinality(DOMAIN order) - 1))
<1> DEFINE D == DOMAIN order
           N == Cardinality(D)
           T == 0..(N - 1)
           r == Rank(a, order)
<1>1. IsFiniteSet(D) /\ N \in Nat
  BY DomainIsFinite
<1>2. ASSUME NEW i \in D PROVE r[i] \in T
  <2> DEFINE Ahead == {h \in D : Sooner(a, order, h, i)}
  <2>1. Ahead \in SUBSET D /\ i \notin Ahead
    BY SoonerIsTotal
  <2>2. IsFiniteSet(Ahead) /\ Cardinality(Ahead) <= N /\ Cardinality(Ahead) # N
    BY <1>1, <2>1, FS_Subset
  <2>3. Cardinality(Ahead) \in Nat
    BY <2>2, FS_CardinalityType
  <2>4. QED
    BY <1>1, <2>2, <2>3 DEF Rank
<1>3. ASSUME NEW i \in D, NEW j \in D, i # j PROVE r[i] # r[j]
  BY <1>3, SoonerIsTotal, RankRises
<1>4. r \in [D -> T]
  BY <1>2 DEF Rank
<1>5. r \in Injection(D, T)
  BY <1>3, <1>4 DEF Injection, IsInjective
<1>6. IsFiniteSet(T) /\ Cardinality(T) = N
  BY <1>1, FS_Interval
<1>7. r \in Surjection(D, T)
  BY <1>5, <1>6, FS_Injection
<1>8. QED
  BY <1>5, <1>7 DEF Bijection

LEMMA RanksDiffer ==
    ASSUME NEW a, NEW order, Orders(a, order), NEW i \in DOMAIN order, NEW j \in DOMAIN order
    PROVE  /\ Rank(a, order)[i] \in 0..(Cardinality(DOMAIN order) - 1)
           /\ Rank(a, order)[i] = Rank(a, order)[j] => i = j
           /\ Sooner(a, order, i, j) <=> Rank(a, order)[i] < Rank(a, order)[j]
<1>1. Rank(a, order) \in [DOMAIN order -> 0..(Cardinality(DOMAIN order) - 1)]
  BY RankIsBijection DEF Bijection, Injection
<1>2. Rank(a, order)[i] = Rank(a, order)[j] => i = j
  BY <1>1, RankIsBijection DEF Bijection, Injection, IsInjective
<1>3. Sooner(a, order, i, j) => Rank(a, order)[i] < Rank(a, order)[j]
  BY RankRises
<1>4. Sooner(a, order, j, i) => Rank(a, order)[j] < Rank(a, order)[i]
  BY RankRises
<1>5. i # j => Sooner(a, order, i, j) \/ Sooner(a, order, j, i)
  BY SoonerIsTotal
<1>6. /\ Rank(a, order)[i] \in 0..(Cardinality(DOMAIN order) - 1)
      /\ Rank(a, order)[j] \in 0..(Cardinality(DOMAIN order) - 1)
      /\ Cardinality(DOMAIN order) \in Nat
  BY <1>1, DomainIsFinite
<1>7. QED
  BY <1>2, <1>3, <1>4, <1>5, <1>6

\* What the list of rows is: each of them once, at its rank.
LEMMA ListHasEachOnce ==
    ASSUME NEW a, NEW order, Orders(a, order)
    PROVE  /\ InRank(a, order) \in Seq(DOMAIN order)
           /\ Len(InRank(a, order)) = Cardinality(DOMAIN order)
           /\ IsInjective(InRank(a, order)) /\ ToSet(InRank(a, order)) = DOMAIN order
           /\ \A n \in 1..Len(InRank(a, order)) : Rank(a, order)[InRank(a, order)[n]] = n - 1
           /\ \A i \in DOMAIN order : Index(InRank(a, order), i) = Rank(a, order)[i] + 1
<1> DEFINE D == DOMAIN order
           N == Cardinality(D)
           r == Rank(a, order)
           s == InRank(a, order)
<1>1. N \in Nat
  BY DomainIsFinite
<1>2. /\ r \in [D -> 0..(N - 1)] /\ \A m \in 0..(N - 1) : \E i \in D : r[i] = m
      /\ \A i, j \in D : r[i] = r[j] => i = j
  BY RankIsBijection DEF Bijection, Injection, Surjection, IsInjective
<1>3. ASSUME NEW n \in 1..N PROVE s[n] \in D /\ r[s[n]] = n - 1
  <2>1. n - 1 \in 0..(N - 1)
    BY <1>1
  <2>2. \E i \in D : r[i] = n - 1
    BY <1>2, <2>1
  <2>3. s[n] = CHOOSE i \in D : r[i] = n - 1
    BY DEF InRank
  <2> HIDE DEF r
  <2>4. QED
    BY <2>2, <2>3
<1>4. s \in [1..N -> D]
  BY <1>3 DEF InRank
<1> HIDE DEF r, s
<1>5. s \in Seq(D) /\ Len(s) = N /\ DOMAIN s = 1..N
  BY <1>1, <1>4
<1>6. IsInjective(s)
  <2>1. ASSUME NEW m \in 1..N, NEW n \in 1..N, s[m] = s[n] PROVE m = n
    <3>1. m - 1 = n - 1
      BY <1>3, <2>1
    <3>2. QED
      BY <1>1, <3>1
  <2>2. QED
    BY <1>5, <2>1 DEF IsInjective
<1>7. ASSUME NEW i \in D PROVE r[i] + 1 \in 1..N /\ s[r[i] + 1] = i
  <2>1. r[i] \in 0..(N - 1)
    BY <1>2
  <2>2. r[i] + 1 \in 1..N
    BY <1>1, <2>1
  <2>3. r[s[r[i] + 1]] = r[i] /\ s[r[i] + 1] \in D
    <3>1. r[s[r[i] + 1]] = (r[i] + 1) - 1 /\ s[r[i] + 1] \in D
      BY <1>3, <2>2
    <3>2. QED
      BY <3>1, <2>1, <1>1
  <2>4. QED
    BY <1>2, <2>2, <2>3
<1>8. ToSet(s) = D
  <2>1. ToSet(s) \subseteq D
    BY <1>4, <1>5 DEF ToSet
  <2>2. D \subseteq ToSet(s)
    BY <1>5, <1>7 DEF ToSet
  <2>3. QED
    BY <2>1, <2>2
<1>9. ASSUME NEW i \in D PROVE Index(s, i) = r[i] + 1
  <2>1. s \in Seq(ToSet(s))
    BY <1>5, <1>8
  <2>2. r[i] + 1 \in 1..Len(s) /\ s[r[i] + 1] = i
    BY <1>5, <1>7
  <2>3. QED
    BY <1>6, <2>1, <2>2, IndexIs
<1>10. QED
  BY <1>3, <1>5, <1>6, <1>8, <1>9 DEF r, s

\* Lists do not differ unless the orders do.
LEMMA SameList ==
    ASSUME NEW a, NEW o, NEW b, NEW p, DOMAIN o = DOMAIN p,
           \A i, j \in DOMAIN o : Sooner(a, o, i, j) <=> Sooner(b, p, i, j)
    PROVE  Rank(a, o) = Rank(b, p) /\ InRank(a, o) = InRank(b, p)
<1>1. ASSUME NEW i \in DOMAIN o
      PROVE  {j \in DOMAIN o : Sooner(a, o, j, i)} = {j \in DOMAIN p : Sooner(b, p, j, i)}
  OBVIOUS
<1>2. Rank(a, o) = Rank(b, p)
  BY <1>1 DEF Rank
<1>3. QED
  BY <1>2 DEF InRank

\* The list is the only sequence of the rows that is in their order.
LEMMA OnlyList ==
    ASSUME NEW a, NEW order, Orders(a, order), NEW s \in Seq(DOMAIN order),
           IsInjective(s), ToSet(s) = DOMAIN order,
           \A m, n \in 1..Len(s) : m < n => Sooner(a, order, s[m], s[n])
    PROVE  s = InRank(a, order)
<1> DEFINE D == DOMAIN order
           r == Rank(a, order)
<1>1. /\ IsFiniteSet(D) /\ Cardinality(D) = Len(s) /\ Len(s) \in Nat
      /\ DOMAIN s = 1..Len(s)
  <2>1. s \in Seq(ToSet(s))
    OBVIOUS
  <2>2. QED
    BY <2>1, SequenceIsFinite
<1>2. ASSUME NEW n \in 1..Len(s) PROVE r[s[n]] = n - 1 /\ s[n] \in D
  <2> DEFINE Ahead == {j \in D : Sooner(a, order, j, s[n])}
             f == [m \in 1..(n - 1) |-> s[m]]
  <2>1. s[n] \in D
    BY <1>1
  <2>2. ASSUME NEW m \in 1..Len(s) PROVE s[m] \in Ahead <=> m < n
    <3>1. s[m] \in D
      BY <1>1
    <3>2. CASE m < n
      BY <3>1, <3>2
    <3>3. CASE m = n
      BY <2>1, <3>3, SoonerIsTotal
    <3>4. CASE n < m
      <4>1. Sooner(a, order, s[n], s[m])
        BY <3>4
      <4>2. QED
        BY <2>1, <3>1, <3>4, <4>1, SoonerIsTotal
    <3>5. QED
      BY <1>1, <3>2, <3>3, <3>4
  <2>3. f \in Bijection(1..(n - 1), Ahead)
    <3>1. f \in [1..(n - 1) -> Ahead]
      BY <1>1, <2>2
    <3>2. IsInjective(f)
      BY <1>1 DEF IsInjective
    <3>3. ASSUME NEW j \in Ahead PROVE \E m \in 1..(n - 1) : f[m] = j
      <4>1. PICK m \in 1..Len(s) : s[m] = j
        BY <1>1 DEF ToSet
      <4>2. m \in 1..(n - 1)
        BY <1>1, <2>2, <4>1
      <4>3. QED
        BY <4>1, <4>2
    <3>4. QED
      BY <3>1, <3>2, <3>3 DEF Bijection, Injection, Surjection
  <2>4. IsFiniteSet(1..(n - 1)) /\ Cardinality(1..(n - 1)) = n - 1
    <3>1. n - 1 \in Nat
      BY <1>1
    <3>2. QED
      BY <3>1, IntervalIsFinite
  <2>5. Cardinality(Ahead) = n - 1
    BY <2>3, <2>4, FS_Bijection DEF ExistsBijection
  <2>6. QED
    BY <2>1, <2>5 DEF Rank
<1>3. ASSUME NEW n \in 1..Len(s) PROVE s[n] = InRank(a, order)[n]
  <2>1. /\ Len(InRank(a, order)) = Len(s) /\ InRank(a, order) \in Seq(D)
        /\ r[InRank(a, order)[n]] = n - 1
    BY <1>1, ListHasEachOnce
  <2>2. InRank(a, order)[n] \in D
    BY <2>1
  <2>3. QED
    BY <1>2, <2>1, <2>2, RanksDiffer
<1>4. Len(InRank(a, order)) = Len(s) /\ InRank(a, order) \in Seq(D)
  BY <1>1, ListHasEachOnce
<1>5. QED
  BY <1>3, <1>4

(***************************************************************************)
(* The lists that requests leave.                                          *)
(***************************************************************************)

LEMMA Appended ==
    ASSUME NEW a, a \in Seq(ToSet(a)), IsInjective(a), NEW i, i \notin ToSet(a)
    PROVE  /\ Append(a, i) \in Seq(ToSet(Append(a, i))) /\ IsInjective(Append(a, i))
           /\ ToSet(Append(a, i)) = ToSet(a) \cup {i}
           /\ \A x \in ToSet(a) : Index(Append(a, i), x) = Index(a, x)
<1> DEFINE b == Append(a, i)
<1>1. /\ Len(a) \in Nat /\ Len(b) = Len(a) + 1 /\ b[Len(a) + 1] = i
      /\ DOMAIN b = 1..(Len(a) + 1) /\ DOMAIN a = 1..Len(a)
      /\ \A n \in 1..Len(a) : b[n] = a[n]
      /\ \A n \in 1..(Len(a) + 1) : n \in 1..Len(a) \/ n = Len(a) + 1
      /\ 1..Len(a) \subseteq 1..(Len(a) + 1) /\ Len(a) + 1 \in 1..(Len(a) + 1)
  OBVIOUS
<1>2. b \in Seq(ToSet(a) \cup {i})
  OBVIOUS
<1> HIDE DEF b
<1>3. ToSet(b) = ToSet(a) \cup {i}
  BY <1>1 DEF ToSet
<1>4. IsInjective(b)
  <2>1. \A n \in 1..Len(a) : a[n] # i
    BY <1>1 DEF ToSet
  <2>2. \A m, n \in 1..Len(a) : a[m] = a[n] => m = n
    BY <1>1 DEF IsInjective
  <2>3. QED
    BY <1>1, <2>1, <2>2 DEF IsInjective
<1>5. ASSUME NEW x \in ToSet(a) PROVE Index(b, x) = Index(a, x)
  <2>1. Index(a, x) \in 1..Len(a) /\ a[Index(a, x)] = x
    BY IndexAt
  <2>2. Index(a, x) \in 1..Len(b) /\ b[Index(a, x)] = x
    BY <1>1, <2>1
  <2>3. b \in Seq(ToSet(b))
    BY <1>2, <1>3
  <2>4. QED
    BY <1>4, <2>2, <2>3, IndexIs
<1>6. QED
  BY <1>2, <1>3, <1>4, <1>5 DEF b

\* A creation whose UPDATE saw every row puts the new one first.
LEMMA CreatedIsFirst ==
    ASSUME NEW a, NEW o, Orders(a, o), NEW i, i \notin ToSet(a), NEW p,
           p = [j \in DOMAIN o \cup {i} |-> IF j = i THEN 0 ELSE o[j] + 1]
    PROVE  InRank(Append(a, i), p) = <<i>> \o InRank(a, o)
<1> DEFINE b == Append(a, i)
           t == InRank(a, o)
           s == <<i>> \o t
<1>1. /\ b \in Seq(ToSet(b)) /\ IsInjective(b) /\ ToSet(b) = ToSet(a) \cup {i}
      /\ \A x \in ToSet(a) : Index(b, x) = Index(a, x)
  BY Appended DEF Orders
<1>2. /\ DOMAIN o \subseteq ToSet(a) /\ i \notin DOMAIN o /\ o \in [DOMAIN o -> Nat]
      /\ DOMAIN p = DOMAIN o \cup {i}
  BY DEF Orders
<1>3. p[i] = 0 /\ \A j \in DOMAIN o : p[j] = o[j] + 1
  BY <1>2
<1>4. Orders(b, p)
  BY <1>1, <1>2, <1>3 DEF Orders
<1>5. ASSUME NEW x \in DOMAIN o, NEW y \in DOMAIN o
      PROVE  Sooner(b, p, x, y) <=> Sooner(a, o, x, y)
  <2>1. /\ Index(b, x) = Index(a, x) /\ Index(b, y) = Index(a, y)
        /\ p[x] = o[x] + 1 /\ p[y] = o[y] + 1 /\ o[x] \in Nat /\ o[y] \in Nat
    BY <1>1, <1>2, <1>3
  <2>2. QED
    BY <2>1 DEF Sooner
<1>6. ASSUME NEW x \in DOMAIN o PROVE Sooner(b, p, i, x)
  BY <1>2, <1>3 DEF Sooner
<1>7. /\ t \in Seq(DOMAIN o) /\ IsInjective(t) /\ ToSet(t) = DOMAIN o
      /\ \A n \in 1..Len(t) : Rank(a, o)[t[n]] = n - 1
  BY ListHasEachOnce
<1>8. ASSUME NEW m \in 1..Len(t), NEW n \in 1..Len(t), m < n
      PROVE  Sooner(a, o, t[m], t[n])
  <2>1. t[m] \in DOMAIN o /\ t[n] \in DOMAIN o /\ Rank(a, o)[t[m]] < Rank(a, o)[t[n]]
    <3>1. /\ t[m] \in DOMAIN o /\ t[n] \in DOMAIN o
          /\ Rank(a, o)[t[m]] = m - 1 /\ Rank(a, o)[t[n]] = n - 1
      BY <1>7
    <3>2. QED
      BY <1>8, <3>1
  <2>2. QED
    BY <2>1, RanksDiffer
<1> HIDE DEF t
<1>9. /\ Len(t) \in Nat /\ Len(s) = Len(t) + 1 /\ DOMAIN s = 1..(Len(t) + 1)
      /\ s[1] = i /\ \A n \in 1..(Len(t) + 1) : n # 1 => n - 1 \in 1..Len(t) /\ s[n] = t[n - 1]
      /\ \A n \in 1..Len(t) : n + 1 \in 1..(Len(t) + 1) /\ s[n + 1] = t[n]
      /\ 1 \in 1..(Len(t) + 1) /\ DOMAIN t = 1..Len(t)
  BY <1>7
<1>10. s \in Seq(DOMAIN p)
  BY <1>2, <1>7
<1> HIDE DEF s
<1>11. ToSet(s) = DOMAIN p
  <2>1. \A n \in 1..(Len(t) + 1) : s[n] \in DOMAIN p
    BY <1>2, <1>7, <1>9
  <2>2. \A x \in DOMAIN o : \E n \in 1..Len(t) : t[n] = x
    BY <1>7, <1>9 DEF ToSet
  <2>3. ASSUME NEW x \in DOMAIN p PROVE \E n \in 1..(Len(t) + 1) : s[n] = x
    <3>1. CASE x = i
      BY <1>9, <3>1
    <3>2. CASE x # i
      <4>1. PICK n \in 1..Len(t) : t[n] = x
        BY <1>2, <2>2, <3>2
      <4>2. n + 1 \in 1..(Len(t) + 1) /\ s[n + 1] = x
        BY <1>9, <4>1
      <4>3. QED
        BY <4>2
    <3>3. QED
      BY <3>1, <3>2
  <2>4. ToSet(s) \subseteq DOMAIN p
    BY <1>9, <2>1 DEF ToSet
  <2>5. DOMAIN p \subseteq ToSet(s)
    BY <1>9, <2>3 DEF ToSet
  <2>6. QED
    BY <2>4, <2>5
<1>12. IsInjective(s)
  <2>1. \A n \in 1..Len(t) : t[n] # i
    BY <1>2, <1>7
  <2>2. ASSUME NEW m \in 1..(Len(t) + 1), NEW n \in 1..(Len(t) + 1), s[m] = s[n]
        PROVE  m = n
    <3>1. CASE m = 1 \/ n = 1
      BY <1>9, <2>1, <2>2, <3>1
    <3>2. CASE m # 1 /\ n # 1
      <4>1. m - 1 = n - 1
        BY <1>7, <1>9, <2>2, <3>2 DEF IsInjective
      <4>2. QED
        BY <4>1
    <3>3. QED
      BY <3>1, <3>2
  <2>3. QED
    BY <1>9, <2>2 DEF IsInjective
<1>13. ASSUME NEW m \in 1..Len(s), NEW n \in 1..Len(s), m < n
       PROVE  Sooner(b, p, s[m], s[n])
  <2>1. n # 1 /\ n - 1 \in 1..Len(t) /\ s[n] = t[n - 1] /\ t[n - 1] \in DOMAIN o
    BY <1>7, <1>9, <1>13
  <2>2. CASE m = 1
    BY <1>6, <1>9, <2>1, <2>2
  <2>3. CASE m # 1
    <3>1. /\ m - 1 \in 1..Len(t) /\ s[m] = t[m - 1] /\ t[m - 1] \in DOMAIN o
          /\ m - 1 < n - 1
      BY <1>7, <1>9, <1>13, <2>3
    <3>2. QED
      BY <1>5, <1>8, <2>1, <3>1
  <2>4. QED
    BY <2>2, <2>3
<1>14. s = InRank(b, p)
  BY <1>4, <1>10, <1>11, <1>12, <1>13, OnlyList
<1>15. QED
  BY <1>14 DEF s, t

\* Renumbering rows by their rank leaves their list as it is.
LEMMA RenumberedInRank ==
    ASSUME NEW a, NEW o, Orders(a, o), NEW p \in [DOMAIN o -> Nat],
           \A i \in DOMAIN o : p[i] = Rank(a, o)[i]
    PROVE  InRank(a, p) = InRank(a, o) /\ Orders(a, p)
<1>1. Orders(a, p) /\ DOMAIN p = DOMAIN o
  BY DEF Orders
<1>2. ASSUME NEW i \in DOMAIN o, NEW j \in DOMAIN o
      PROVE  Sooner(a, o, i, j) <=> Sooner(a, p, i, j)
  <2>1. /\ Sooner(a, o, i, j) <=> p[i] < p[j]
        /\ p[i] = p[j] => i = j
    BY RanksDiffer
  <2>2. p[i] \in Nat /\ p[j] \in Nat
    OBVIOUS
  <2>3. p[i] < p[j] => Sooner(a, p, i, j)
    BY DEF Sooner
  <2>4. Sooner(a, p, i, j) => p[i] < p[j]
    <3>1. ~ Sooner(a, p, i, i)
      BY <1>1, SoonerIsTotal
    <3>2. QED
      BY <2>1, <3>1 DEF Sooner
  <2>5. QED
    BY <2>1, <2>3, <2>4
<1>3. QED
  BY <1>1, <1>2, SameList

\* Rows numbered by a sequence are listed as it says.
LEMMA NumberedAsSaid ==
    ASSUME NEW a, NEW o, Orders(a, o), NEW s \in Seq(DOMAIN o), IsInjective(s),
           ToSet(s) = DOMAIN o, \A i \in DOMAIN o : o[i] = Index(s, i) - 1
    PROVE  InRank(a, o) = s
<1>1. ASSUME NEW m \in 1..Len(s), NEW n \in 1..Len(s), m < n
      PROVE  Sooner(a, o, s[m], s[n])
  <2>1. s \in Seq(ToSet(s)) /\ s[m] \in DOMAIN o /\ s[n] \in DOMAIN o
    OBVIOUS
  <2>2. Index(s, s[m]) = m /\ Index(s, s[n]) = n
    BY <2>1, IndexIs
  <2>3. o[s[m]] = m - 1 /\ o[s[n]] = n - 1
    BY <2>1, <2>2
  <2>4. QED
    BY <1>1, <2>3 DEF Sooner
<1>2. QED
  BY <1>1, OnlyList

\* The row added last, with the number 0, is at the top.
LEMMA NewestZeroHasRankZero ==
    ASSUME NEW a, NEW o, Orders(a, o), NEW i \in DOMAIN o, i = Last(a), o[i] = 0
    PROVE  Rank(a, o)[i] = 0
<1>1. a \in Seq(ToSet(a)) /\ IsInjective(a) /\ i \in ToSet(a) /\ o \in [DOMAIN o -> Nat]
  BY DEF Orders
<1>2. Len(a) \in 1..Len(a)
  BY <1>1, IndexAt
<1>3. Index(a, i) = Len(a)
  BY <1>1, <1>2, IndexIs DEF Last
<1>4. {j \in DOMAIN o : Sooner(a, o, j, i)} = {}
  <2>1. ASSUME NEW j \in DOMAIN o, Sooner(a, o, j, i) PROVE FALSE
    <3>1. o[j] \in Nat /\ j \in ToSet(a)
      BY <1>1 DEF Orders
    <3>2. Index(a, j) \in 1..Len(a)
      BY <1>1, <3>1, IndexAt
    <3>3. QED
      BY <1>1, <1>2, <1>3, <2>1, <3>1, <3>2 DEF Sooner
  <2>2. QED
    BY <2>1
<1>5. QED
  BY <1>4, FS_EmptySet DEF Rank

LEMMA NewestZeroIsFirst ==
    ASSUME NEW a, NEW o, Orders(a, o), NEW i \in DOMAIN o, i = Last(a), o[i] = 0
    PROVE  Head(InRank(a, o)) = i
<1> DEFINE s == InRank(a, o)
<1>6. s \in Seq(ToSet(s)) /\ i \in ToSet(s) /\ Index(s, i) = 0 + 1
  BY NewestZeroHasRankZero, ListHasEachOnce
<1>7. Index(s, i) \in 1..Len(s) /\ s[Index(s, i)] = i
  BY <1>6, IndexAt
<1> HIDE DEF s
<1>8. 1 \in 1..Len(s) /\ s[1] = i
  BY <1>6, <1>7
<1>9. s # <<>>
  BY <1>6, <1>8
<1>10. Head(s) = s[1]
  BY <1>6, <1>9
<1>11. QED
  BY <1>8, <1>10 DEF s

(***************************************************************************)
(* The inductive invariant of the stored watchlist.                        *)
(***************************************************************************)

Op == [kind : Kinds, phase : Phases, items : Seq(Rows),
       loaded : UNION {[S -> Nat] : S \in SUBSET Rows}, view : Views, alone : BOOLEAN]

\* Numbers for rows among those added.
Fits(a, order) ==
    DOMAIN order \subseteq ToSet(a) /\ order \in [DOMAIN order -> 0..(Len(a) - 1)]

\* A request: a creation names one row, and a reordering the rows it loaded.
OpOK(a, op) ==
    /\ IsInjective(op.items) /\ Fits(a, op.loaded)
    /\ op.kind = "none" <=> op.phase = "idle"
    /\ op.phase = "flushed" => op.kind = "delete"
    /\ op.kind = "create" /\ op.phase \in {"sent", "read"} => Len(op.items) = 1
    /\ op.kind = "reorder" /\ op.phase = "read" => ToSet(op.items) = DOMAIN op.loaded

OpsInv == ops \in [Slots -> Op] /\ \A k \in Slots : OpOK(added, ops[k])

\* The row added last has the number 0 until it is arranged, and in whatever
\* a request has loaded.
Zero(order) == Last(added) \in DOMAIN order => order[Last(added)] = 0
TopInv ==
    /\ added # <<>>
    /\ Last(added) \notin arranged => Zero(rows) /\ \A k \in Slots : Zero(ops[k].loaded)

\* What a request that runs alone loaded is what is stored.
Seen(op) == op.loaded = IF op.phase = "read" THEN rows
                        ELSE Restrict(rows, DOMAIN rows \ ToSet(op.items))
AloneInv ==
    \A k \in Slots : Running(k) /\ ops[k].alone =>
        Seen(ops[k]) /\ \A j \in Slots \ {k} : ~ Running(j)

StoreInv == StoredOK /\ OpsInv /\ TopInv /\ AloneInv

(***************************************************************************)
(* The inductive invariant of the page.                                    *)
(***************************************************************************)

\* Ticks belong to the view they were made in.
TicksInv == ticks.view \in Views => ticks.rows \subseteq ticked[ticks.view]

\* No row is listed twice.
ListsInv ==
    /\ IsInjective(fetch.items)
    /\ \A v \in Views : lists[v] # Unknown => IsInjective(lists[v])

\* Unless the list was changed behind the page's back, or by an answer it has
\* not received yet, what it fetched is what is stored; a list whose fetch was
\* cancelled or has failed may be older.
CurrentInv ==
    ~ foreign /\ (\A k \in PageSlots : ops[k].phase # "ok") =>
        /\ fetch.phase = "served" => fetch.items = InView(url.view)
        /\ fetch.phase = "idle" /\ url.view \notin broken /\ lists[url.view] # Unknown =>
              lists[url.view] = InView(url.view)

IInv == TypeOK /\ StoreInv /\ TicksInv /\ ListsInv /\ CurrentInv

(***************************************************************************)
(* Steps of the stored watchlist keep StoreInv.                            *)
(***************************************************************************)

LEMMA FitsIsOrders ==
    ASSUME NEW a, a \in Seq(ToSet(a)), IsInjective(a), NEW o, Fits(a, o)
    PROVE  Orders(a, o)
<1>1. 0..(Len(a) - 1) \subseteq Nat
  OBVIOUS
<1>2. o \in [DOMAIN o -> Nat]
  BY <1>1 DEF Fits
<1>3. QED
  BY <1>2 DEF Orders, Fits

LEMMA FitsGrows ==
    ASSUME NEW a, a \in Seq(ToSet(a)), IsInjective(a), NEW i, i \notin ToSet(a),
           NEW o, Fits(a, o)
    PROVE  Fits(Append(a, i), o)
<1>1. ToSet(Append(a, i)) = ToSet(a) \cup {i} /\ Len(Append(a, i)) = Len(a) + 1
  BY Appended
<1>2. 0..(Len(a) - 1) \subseteq 0..(Len(Append(a, i)) - 1)
  BY <1>1
<1>3. QED
  BY <1>1, <1>2 DEF Fits

LEMMA InSeqOfRange ==
    ASSUME NEW S, NEW s \in Seq(S)
    PROVE  s \in Seq(ToSet(s)) /\ ToSet(s) \subseteq S
  BY DEF ToSet

LEMMA Stored ==
    ASSUME StoreInv
    PROVE  /\ added \in Seq(ToSet(added)) /\ added \in Seq(Rows) /\ IsInjective(added)
           /\ ToSet(added) \subseteq Rows /\ Len(added) \in Nat \ {0}
           /\ Last(added) \in ToSet(added) /\ Fits(added, rows) /\ Orders(added, rows)
           /\ \A k \in Slots : /\ ops[k] \in Op /\ OpOK(added, ops[k])
                               /\ Fits(added, ops[k].loaded) /\ Orders(added, ops[k].loaded)
<1>1. /\ added \in Seq(Rows) /\ IsInjective(added) /\ Fits(added, rows) /\ added # <<>>
      /\ \A k \in Slots : ops[k] \in Op /\ OpOK(added, ops[k])
  BY DEF StoreInv, StoredOK, IsOrder, Fits, OpsInv, TopInv
<1>2. added \in Seq(ToSet(added)) /\ ToSet(added) \subseteq Rows
  BY <1>1, InSeqOfRange
<1>3. Len(added) \in Nat \ {0}
  BY <1>1
<1>4. Last(added) \in ToSet(added)
  BY <1>1, <1>3 DEF Last, ToSet
<1>5. \A o : Fits(added, o) => Orders(added, o)
  BY <1>1, <1>2, FitsIsOrders
<1>6. \A k \in Slots : Fits(added, ops[k].loaded)
  BY <1>1 DEF OpOK
<1>7. QED
  BY <1>1, <1>2, <1>3, <1>4, <1>5, <1>6

\* The types of the store, from those of its requests.
LEMMA StoredParts ==
    /\ OpsInv /\ added \in Seq(Rows) /\ IsInjective(added)
       /\ arranged \subseteq ToSet(added) /\ Fits(added, rows) => StoredOK
    /\ OpsInv' /\ added' \in Seq(Rows) /\ IsInjective(added')
       /\ arranged' \subseteq ToSet(added') /\ Fits(added', rows') => StoredOK'
  BY DEF OpsInv, Op, OpOK, StoredOK, IsOrder, Fits

LEMMA NoRowsFit ==
    /\ DOMAIN NoRows = {} /\ NoRows \in UNION {[S -> Nat] : S \in SUBSET Rows}
    /\ \A a : Fits(a, NoRows)
<1>1. DOMAIN NoRows = {} /\ NoRows \in [{} -> Nat]
  BY DEF NoRows
<1>2. {} \in SUBSET Rows
  OBVIOUS
<1>3. \A a : Fits(a, NoRows)
  BY <1>1 DEF Fits, NoRows
<1>4. QED
  BY <1>1, <1>2, <1>3

LEMMA NoOpIsOp ==
    /\ NoOp \in Op /\ NoOp.phase = "idle" /\ NoOp.loaded = NoRows
    /\ \A a : OpOK(a, NoOp)
<1>1. <<>> \in Seq(Rows) /\ IsInjective(<<>>)
  BY DEF IsInjective
<1>2. QED
  BY <1>1, NoRowsFit DEF NoOp, Op, Kinds, Phases, Views, OpOK

\* A request that has ended.
Ended(op, phase) == [NoOp EXCEPT !.kind = op.kind, !.phase = phase, !.view = op.view]

LEMMA EndedIsOp ==
    ASSUME NEW op \in Op, op.kind # "none", NEW phase \in {"ok", "refused"}
    PROVE  /\ Ended(op, phase) \in Op /\ Ended(op, phase).phase = phase
           /\ Ended(op, phase).loaded = NoRows
           /\ \A a : OpOK(a, Ended(op, phase))
<1>1. <<>> \in Seq(Rows) /\ IsInjective(<<>>)
  BY DEF IsInjective
<1>2. QED
  BY <1>1, NoRowsFit DEF Ended, NoOp, Op, Kinds, Phases, Views, OpOK

\* A request that is not running takes the place of another.
LEMMA OpChanges ==
    ASSUME StoreInv, NEW k \in Slots, NEW op \in Op, OpOK(added, op), op.loaded = NoRows,
           op.phase \notin {"read", "flushed"},
           ops' = [ops EXCEPT ![k] = op], UNCHANGED <<rows, added, arranged>>
    PROVE  StoreInv'
<1>1. ops \in [Slots -> Op]
  BY DEF StoreInv, OpsInv
<1>2. ops'[k] = op /\ \A j \in Slots : j # k => ops'[j] = ops[j]
  BY <1>1
<1>3. OpsInv'
  BY <1>1, <1>2, Stored DEF OpsInv
<1>4. StoredOK'
  BY <1>3, StoredParts, Stored DEF StoreInv, StoredOK
<1>5. TopInv'
  <2>1. Last(added) \notin DOMAIN op.loaded
    BY NoRowsFit
  <2>2. QED
    BY <1>2, <2>1 DEF StoreInv, TopInv, Zero
<1>6. AloneInv'
  <2>1. ~ Running(k)' /\ \A j \in Slots : j # k => (Running(j)' <=> Running(j))
    BY <1>2 DEF Running
  <2>2. QED
    BY <1>2, <2>1 DEF StoreInv, AloneInv, Seen
<1>7. QED
  BY <1>3, <1>4, <1>5, <1>6 DEF StoreInv

LEMMA RefuseKeeps ==
    ASSUME StoreInv, NEW k \in Slots, ops[k].phase # "idle", Refuse(k)
    PROVE  StoreInv'
<1>1. ops[k] \in Op /\ ops[k].kind # "none"
  BY Stored DEF OpOK
<1>2. ops' = [ops EXCEPT ![k] = Ended(ops[k], "refused")]
  BY DEF Refuse, Ends, Ended
<1>3. QED
  BY <1>1, <1>2, EndedIsOp, OpChanges DEF Refuse

\* The first statements of a request.
LEMMA ReadKeeps ==
    ASSUME StoreInv, NEW k \in Slots, Read(k)
    PROVE  StoreInv'
<1>1. CASE ~ Accepts(ops[k])
  BY <1>1, RefuseKeeps DEF Read, Refuse
<1>2. CASE Accepts(ops[k])
  <2> DEFINE others == \E j \in Slots : Running(j)
  <2>1. /\ ops[k].phase = "sent" /\ UNCHANGED <<rows, added, arranged>>
        /\ ops' = [j \in Slots |->
              IF j = k THEN [ops[k] EXCEPT !.phase = "read", !.loaded = rows, !.alone = ~others]
              ELSE [ops[j] EXCEPT !.alone = @ /\ ~Running(j)]]
    BY <1>2 DEF Read
  <2>2. rows \in UNION {[S -> Nat] : S \in SUBSET Rows}
    <3>1. rows \in [DOMAIN rows -> Nat] /\ DOMAIN rows \in SUBSET Rows
      BY Stored DEF Orders
    <3>2. QED
      BY <3>1
  <2>3. ops'[k] = [ops[k] EXCEPT !.phase = "read", !.loaded = rows, !.alone = ~others]
    BY <2>1
  <2>4. \A j \in Slots : j # k => ops'[j] = [ops[j] EXCEPT !.alone = @ /\ ~Running(j)]
    BY <2>1
  <2>5. /\ ops'[k] \in Op /\ ops'[k].phase = "read" /\ ops'[k].loaded = rows
        /\ ops'[k].kind = ops[k].kind /\ ops'[k].items = ops[k].items
    BY <2>2, <2>3, Stored DEF Op, Phases
  <2>6. ops'[k].alone <=> ~ others
    BY <2>3, Stored DEF Op
  <2>7. ASSUME NEW j \in Slots, j # k
        PROVE  /\ ops'[j] \in Op /\ ops'[j].phase = ops[j].phase
               /\ ops'[j].loaded = ops[j].loaded /\ ops'[j].kind = ops[j].kind
               /\ ops'[j].items = ops[j].items
    <3> DEFINE b == ops[j].alone /\ ~ Running(j)
    <3>1. ops[j] \in Op /\ b \in BOOLEAN
      BY Stored
    <3>2. ops'[j] = [ops[j] EXCEPT !.alone = b]
      BY <2>4, <2>7
    <3> HIDE DEF b
    <3>3. QED
      BY <3>1, <3>2 DEF Op
  <2>8. ASSUME NEW j \in Slots, j # k
        PROVE  ops'[j].alone <=> ops[j].alone /\ ~ Running(j)
    BY <2>4, <2>8, Stored DEF Op
  <2>9. ops' \in [Slots -> Op]
    <3>1. \A j \in Slots : ops'[j] \in Op
      BY <2>5, <2>7
    <3>2. QED
      BY <2>1, <3>1
  <2>10. OpOK(added, ops'[k])
    <3>1. OpOK(added, ops[k]) /\ Fits(added, rows) /\ ops[k] \in Op
      BY Stored
    <3>2. ops[k].kind = "reorder" => ToSet(ops[k].items) = DOMAIN rows
      BY <1>2 DEF Accepts
    <3>3. QED
      BY <2>1, <2>5, <3>1, <3>2 DEF OpOK
  <2>11. OpsInv'
    <3>1. \A j \in Slots : j # k => OpOK(added, ops'[j])
      BY <2>7, Stored DEF OpOK
    <3>2. QED
      BY <2>1, <2>9, <2>10, <3>1 DEF OpsInv
  <2>12. StoredOK'
    BY <2>1, <2>11, StoredParts, Stored DEF StoreInv, StoredOK
  <2>13. TopInv'
    BY <2>1, <2>5, <2>7 DEF StoreInv, TopInv, Zero
  <2>14. ASSUME NEW j \in Slots, Running(j)', ops'[j].alone
         PROVE  Seen(ops[j])' /\ \A h \in Slots \ {j} : ~ Running(h)'
    <3>1. \A h \in Slots : h # k => (Running(h)' <=> Running(h))
      BY <2>7 DEF Running
    <3>2. j = k
      BY <2>8, <2>14, <3>1
    <3>3. \A h \in Slots : ~ Running(h)
      BY <2>6, <2>14, <3>2
    <3>4. Seen(ops[k])'
      BY <2>1, <2>5 DEF Seen
    <3>5. QED
      BY <3>1, <3>2, <3>3, <3>4
  <2>15. AloneInv'
    BY <2>14 DEF AloneInv
  <2>16. QED
    BY <2>11, <2>12, <2>13, <2>15 DEF StoreInv
<1>3. QED
  BY <1>1, <1>2

\* DELETE and the rest it loads.
LEMMA FlushKeeps ==
    ASSUME StoreInv, NEW k \in Slots, Flush(k)
    PROVE  StoreInv'
<1> DEFINE left == Restrict(rows, DOMAIN rows \ ToSet(ops[k].items))
<1>1. /\ ops[k].phase = "read" /\ ops[k].kind = "delete" /\ UNCHANGED <<rows, added, arranged>>
      /\ ops' = [ops EXCEPT ![k].phase = "flushed", ![k].loaded = left]
  BY DEF Flush
<1>2. /\ Fits(added, left) /\ DOMAIN left \subseteq DOMAIN rows
      /\ \A i \in DOMAIN left : left[i] = rows[i]
  BY Stored DEF Restrict, Fits
<1>3. left \in UNION {[S -> Nat] : S \in SUBSET Rows}
  <2>1. Orders(added, left)
    BY <1>2, Stored, FitsIsOrders
  <2>2. left \in [DOMAIN left -> Nat] /\ DOMAIN left \in SUBSET Rows
    BY <2>1, Stored DEF Orders
  <2>3. QED
    BY <2>2
<1> HIDE DEF left
<1>4. ops \in [Slots -> Op] /\ ops[k] \in Op
  BY DEF StoreInv, OpsInv
<1>5. ops' = [ops EXCEPT ![k] = [ops[k] EXCEPT !.phase = "flushed", !.loaded = left]]
  BY <1>1, <1>4
<1>6. /\ ops'[k] \in Op /\ ops'[k].phase = "flushed" /\ ops'[k].loaded = left
      /\ ops'[k].kind = ops[k].kind /\ ops'[k].items = ops[k].items
      /\ \A j \in Slots : j # k => ops'[j] = ops[j]
  BY <1>3, <1>4, <1>5 DEF Op, Phases
<1>7. ops'[k].alone = ops[k].alone
  BY <1>4, <1>5 DEF Op
<1>8. OpsInv'
  <2>1. OpOK(added, ops'[k])
    BY <1>1, <1>2, <1>6, Stored DEF OpOK
  <2>2. ops' \in [Slots -> Op]
    BY <1>4, <1>5, <1>6
  <2>3. QED
    BY <1>1, <1>6, <2>1, <2>2, Stored DEF OpsInv
<1>9. StoredOK'
  BY <1>1, <1>8, StoredParts, Stored DEF StoreInv, StoredOK
<1>10. TopInv'
  <2>1. TopInv /\ (Zero(rows) => Zero(left))
    BY <1>2 DEF StoreInv, Zero
  <2>2. Last(added) \notin arranged => \A j \in Slots : Zero(ops'[j].loaded)
    BY <1>6, <2>1 DEF TopInv
  <2>3. QED
    BY <1>1, <2>1, <2>2 DEF TopInv, Zero
<1>11. ASSUME NEW j \in Slots, Running(j)', ops'[j].alone
       PROVE  Seen(ops[j])' /\ \A h \in Slots \ {j} : ~ Running(h)'
  <2>1. \A h \in Slots : Running(h)' <=> Running(h)
    BY <1>1, <1>6 DEF Running
  <2>2. ops[j].alone
    BY <1>6, <1>7, <1>11
  <2>3. Seen(ops[j]) /\ \A h \in Slots \ {j} : ~ Running(h)
    BY <1>11, <2>1, <2>2 DEF StoreInv, AloneInv
  <2>4. CASE j = k
    BY <1>1, <1>6, <2>1, <2>3, <2>4 DEF Seen, left
  <2>5. CASE j # k
    BY <1>1, <1>6, <2>1, <2>3, <2>5 DEF Seen
  <2>6. QED
    BY <2>4, <2>5
<1>12. AloneInv'
  BY <1>11 DEF AloneInv
<1>13. QED
  BY <1>8, <1>9, <1>10, <1>12 DEF StoreInv

\* The numbers a deletion wants are the ranks of the rows it loaded, and those
\* of a reordering the places in its list; either way there are enough.
LEMMA DeletionWants ==
    ASSUME StoreInv, NEW k \in Slots, ops[k].kind = "delete", NEW i \in DOMAIN ops[k].loaded
    PROVE  /\ Wanted(ops[k])[i] = Rank(added, ops[k].loaded)[i]
           /\ Wanted(ops[k])[i] \in 0..(Len(added) - 1)
<1> DEFINE o == ops[k].loaded
           s == InRank(added, o)
<1>1. Orders(added, o) /\ Len(added) \in Nat \ {0}
  BY Stored
<1>2. /\ ToSet(s) = DOMAIN o /\ Index(s, i) = Rank(added, o)[i] + 1
  BY <1>1, ListHasEachOnce
<1>3. Listing(o) = s
  BY ListingIsInRank
<1>4. Wanted(ops[k]) = [j \in ToSet(s) |-> Index(s, j) - 1]
  BY <1>3 DEF Wanted, Renumbered
<1>5. Wanted(ops[k])[i] = Index(s, i) - 1
  BY <1>2, <1>4
<1>6. /\ Rank(added, o)[i] \in 0..(Cardinality(DOMAIN o) - 1)
      /\ Cardinality(DOMAIN o) \in Nat /\ Cardinality(DOMAIN o) <= Len(added)
  BY <1>1, RanksDiffer, DomainIsFinite
<1> HIDE DEF s, o
<1>7. Wanted(ops[k])[i] = Rank(added, o)[i]
  BY <1>2, <1>5, <1>6
<1>8. QED
  BY <1>1, <1>6, <1>7 DEF o

LEMMA ReorderingWants ==
    ASSUME StoreInv, NEW k \in Slots, ops[k].kind = "reorder", ops[k].phase = "read",
           NEW i \in DOMAIN ops[k].loaded
    PROVE  /\ Wanted(ops[k])[i] = Index(ops[k].items, i) - 1
           /\ Wanted(ops[k])[i] \in 0..(Len(added) - 1)
<1> DEFINE s == ops[k].items
<1>1. /\ s \in Seq(Rows) /\ IsInjective(s) /\ ToSet(s) = DOMAIN ops[k].loaded
      /\ Orders(added, ops[k].loaded) /\ Len(added) \in Nat \ {0}
  BY Stored DEF Op, OpOK
<1>2. s \in Seq(ToSet(s))
  BY <1>1, InSeqOfRange
<1>3. Len(s) = Cardinality(DOMAIN ops[k].loaded) /\ Len(s) \in Nat
  BY <1>1, <1>2, SequenceIsFinite
<1>4. Len(s) <= Len(added)
  BY <1>1, <1>3, DomainIsFinite
<1>5. Wanted(ops[k]) = [j \in ToSet(s) |-> Index(s, j) - 1]
  BY DEF Wanted, Renumbered
<1>6. Index(s, i) \in 1..Len(s)
  BY <1>1, <1>2, IndexAt
<1>7. Wanted(ops[k])[i] = Index(s, i) - 1
  BY <1>1, <1>5
<1> HIDE DEF s
<1>8. QED
  BY <1>1, <1>3, <1>4, <1>6, <1>7 DEF s

\* What a commit writes over the stored numbers.
LEMMA OverwrittenFits ==
    ASSUME StoreInv, NEW k \in Slots, NEW left \in SUBSET DOMAIN rows,
           \/ ops[k].kind = "delete"
           \/ ops[k].kind = "reorder" /\ ops[k].phase = "read"
    PROVE  /\ Fits(added, Overwritten(ops[k], left))
           /\ DOMAIN Overwritten(ops[k], left) = left
           /\ \A i \in left : Overwritten(ops[k], left)[i] =
                 IF i \in Written(ops[k]) THEN Wanted(ops[k])[i] ELSE rows[i]
<1>1. Fits(added, rows)
  BY Stored
<1>2. \A i \in Written(ops[k]) : Wanted(ops[k])[i] \in 0..(Len(added) - 1)
  BY DeletionWants, ReorderingWants DEF Written
<1>3. QED
  BY <1>1, <1>2 DEF Fits, Overwritten

\* After a commit no request is running alone: the one that did has ended.
LEMMA CommitEndsAlone ==
    ASSUME StoreInv, NEW k \in Slots, Running(k), NEW e, e.phase \notin {"read", "flushed"},
           ops' = [ops EXCEPT ![k] = e]
    PROVE  AloneInv'
<1>1. ops \in [Slots -> Op]
  BY DEF StoreInv, OpsInv
<1>2. ops'[k] = e /\ \A j \in Slots : j # k => ops'[j] = ops[j]
  BY <1>1
<1>3. ~ Running(k)'
  BY <1>2 DEF Running
<1>4. ASSUME NEW j \in Slots, Running(j)', ops'[j].alone PROVE FALSE
  <2>1. j # k
    BY <1>3, <1>4
  <2>2. Running(j) /\ ops[j].alone
    BY <1>2, <1>4, <2>1 DEF Running
  <2>3. QED
    BY <2>1, <2>2 DEF StoreInv, AloneInv
<1>5. QED
  BY <1>4 DEF AloneInv

LEMMA CommitCreateKeeps ==
    ASSUME StoreInv, NEW k \in Slots, CommitCreate(k)
    PROVE  StoreInv'
<1> DEFINE h == Head(ops[k].items)
           seen == DOMAIN ops[k].loaded
           e == Ended(ops[k], "ok")
<1>1. ops[k].phase = "read" /\ ops[k].kind = "create" /\ Running(k)
  BY DEF CommitCreate, Running
<1>2. CASE h \in DOMAIN rows
  BY <1>1, <1>2, RefuseKeeps DEF CommitCreate
<1>3. CASE h \notin DOMAIN rows
  <2>0. PICK i \in Inserted(ops[k]) :
           /\ added' = Append(added, i) /\ arranged' = arranged
           /\ rows' = [j \in DOMAIN rows \cup {i} |-> IF j = i THEN 0 ELSE Shifted(seen)[j]]
           /\ ops' = [ops EXCEPT ![k] = e]
    BY <1>3 DEF CommitCreate, Ends, Ended
  <2>1. /\ i \notin ToSet(added) /\ added' = Append(added, i) /\ arranged' = arranged
        /\ rows' = [j \in DOMAIN rows \cup {i} |-> IF j = i THEN 0 ELSE Shifted(seen)[j]]
        /\ ops' = [ops EXCEPT ![k] = e]
    BY <2>0 DEF Inserted
  <2>2. i \in Rows
    BY <1>1, <2>0, Stored DEF Inserted, Op, OpOK
  <2> HIDE DEF h, e
  <2>3. /\ added \in Seq(ToSet(added)) /\ IsInjective(added) /\ ToSet(added) \subseteq Rows
        /\ Len(added) \in Nat \ {0} /\ Fits(added, rows)
        /\ ops \in [Slots -> Op]
    BY Stored DEF StoreInv, OpsInv
  <2>4. /\ added' \in Seq(ToSet(added')) /\ IsInjective(added')
        /\ ToSet(added') = ToSet(added) \cup {i}
    BY <2>1, <2>3, Appended
  <2>5. Len(added') = Len(added) + 1 /\ added' \in Seq(Rows) /\ added' # <<>> /\ Last(added') = i
    BY <2>1, <2>2, <2>3, Stored DEF Last
  <2>6. Fits(added', rows')
    <3>1. DOMAIN rows' = DOMAIN rows \cup {i} /\ DOMAIN rows \subseteq ToSet(added)
      BY <2>1, <2>3 DEF Fits
    <3>2. rows'[i] = 0
      BY <2>1
    <3>3. ASSUME NEW j \in DOMAIN rows, j # i PROVE rows'[j] \in 0..Len(added)
      <4>1. rows[j] \in 0..(Len(added) - 1)
        BY <2>3 DEF Fits
      <4>2. rows'[j] = IF j \in seen THEN rows[j] + 1 ELSE rows[j]
        BY <2>1, <3>3 DEF Shifted
      <4>3. QED
        BY <2>3, <4>1, <4>2
    <3>4. \A j \in DOMAIN rows' : rows'[j] \in 0..(Len(added') - 1)
      BY <2>3, <2>5, <3>1, <3>2, <3>3
    <3>5. rows' \in [DOMAIN rows' -> 0..(Len(added') - 1)]
      BY <2>1, <3>4
    <3>6. QED
      BY <2>4, <3>1, <3>5 DEF Fits
  <2>7. /\ e \in Op /\ e.phase = "ok" /\ e.loaded = NoRows /\ OpOK(added', e)
    BY <1>1, EndedIsOp, Stored DEF e
  <2>8. ops'[k] = e /\ \A j \in Slots : j # k => ops'[j] = ops[j]
    BY <2>1, <2>3
  <2>9. OpsInv'
    <3>1. ASSUME NEW j \in Slots, j # k PROVE OpOK(added', ops[j])
      <4>1. OpOK(added, ops[j])
        BY Stored
      <4>2. Fits(added', ops[j].loaded)
        BY <2>1, <2>3, Stored, FitsGrows
      <4>3. QED
        BY <4>1, <4>2 DEF OpOK
    <3>2. ops' \in [Slots -> Op]
      BY <2>1, <2>3, <2>7
    <3>3. QED
      BY <2>7, <2>8, <3>1, <3>2 DEF OpsInv
  <2>10. StoredOK'
    BY <2>1, <2>4, <2>5, <2>6, <2>9, StoredParts DEF StoreInv, StoredOK
  <2>11. TopInv'
    <3>1. rows'[i] = 0
      BY <2>1
    <3>2. \A j \in Slots : i \notin DOMAIN ops'[j].loaded
      <4>1. \A j \in Slots : DOMAIN ops[j].loaded \subseteq ToSet(added)
        BY Stored DEF Fits
      <4>2. QED
        BY <2>1, <2>7, <2>8, <4>1, NoRowsFit
    <3>3. QED
      BY <2>5, <3>1, <3>2 DEF TopInv, Zero
  <2>12. AloneInv'
    BY <1>1, <2>1, <2>7, CommitEndsAlone
  <2>13. QED
    BY <2>9, <2>10, <2>11, <2>12 DEF StoreInv
<1>4. QED
  BY <1>2, <1>3

\* The commits of a deletion or a reordering.
LEMMA OverwriteKeeps ==
    ASSUME StoreInv, NEW k \in Slots, Running(k), NEW left \in SUBSET DOMAIN rows,
           \/ ops[k].kind = "delete"
           \/ ops[k].kind = "reorder" /\ ops[k].phase = "read",
           rows' = Overwritten(ops[k], left), Ends(k, "ok"), added' = added,
           arranged \subseteq arranged', arranged' \subseteq ToSet(added),
           Last(added) \notin arranged' /\ Last(added) \in left =>
               rows'[Last(added)] = 0
    PROVE  StoreInv'
<1> DEFINE e == Ended(ops[k], "ok")
<1>1. ops[k].kind # "none" /\ ops' = [ops EXCEPT ![k] = e] /\ ops \in [Slots -> Op]
  BY DEF Ends, Ended, StoreInv, OpsInv
<1>2. /\ e \in Op /\ e.phase = "ok" /\ e.loaded = NoRows /\ OpOK(added, e)
  BY <1>1, EndedIsOp, Stored
<1> HIDE DEF e
<1>3. ops'[k] = e /\ \A j \in Slots : j # k => ops'[j] = ops[j]
  BY <1>1
<1>4. OpsInv'
  <2>1. ops' \in [Slots -> Op]
    BY <1>1, <1>2
  <2>2. QED
    BY <1>2, <1>3, <2>1, Stored DEF OpsInv
<1>5. Fits(added', rows') /\ DOMAIN rows' = left
  BY OverwrittenFits
<1>6. StoredOK'
  BY <1>4, <1>5, StoredParts, Stored
<1>7. TopInv'
  <2>1. TopInv
    BY DEF StoreInv
  <2>2. Last(added) \notin DOMAIN NoRows
    BY NoRowsFit
  <2>3. QED
    BY <1>2, <1>3, <1>5, <2>1, <2>2 DEF TopInv, Zero
<1>8. AloneInv'
  BY <1>1, <1>2, CommitEndsAlone
<1>9. QED
  BY <1>4, <1>6, <1>7, <1>8 DEF StoreInv

LEMMA CommitDeleteKeeps ==
    ASSUME StoreInv, NEW k \in Slots, CommitDelete(k)
    PROVE  StoreInv'
<1> DEFINE left == DOMAIN rows \ ToSet(ops[k].items)
           l == Last(added)
<1>1. ops[k].phase = "flushed" /\ ops[k].kind = "delete" /\ Running(k)
  BY Stored DEF CommitDelete, OpOK, Running
<1>2. CASE Lost(ops[k])
  BY <1>1, <1>2, RefuseKeeps DEF CommitDelete
<1>3. CASE ~ Lost(ops[k])
  <2>1. /\ rows' = Overwritten(ops[k], left) /\ Ends(k, "ok")
        /\ added' = added /\ arranged' = arranged
    BY <1>3 DEF CommitDelete
  <2>2. ASSUME l \notin arranged, l \in left PROVE rows'[l] = 0
    <3>1. rows'[l] = IF l \in Written(ops[k]) THEN Wanted(ops[k])[l] ELSE rows[l]
      BY <1>1, <2>1, <2>2, OverwrittenFits
    <3>2. CASE l \notin Written(ops[k])
      BY <2>2, <3>1, <3>2 DEF StoreInv, TopInv, Zero
    <3>3. CASE l \in Written(ops[k])
      <4>1. l \in DOMAIN ops[k].loaded /\ ops[k].loaded[l] = 0
        BY <1>1, <2>2, <3>3 DEF Written, StoreInv, TopInv, Zero
      <4>2. Orders(added, ops[k].loaded)
        BY Stored
      <4>3. Rank(added, ops[k].loaded)[l] = 0
        BY <4>1, <4>2, NewestZeroHasRankZero
      <4>4. QED
        BY <1>1, <3>1, <3>3, <4>1, <4>3, DeletionWants
    <3>4. QED
      BY <3>2, <3>3
  <2>3. arranged \subseteq ToSet(added)
    BY DEF StoreInv, StoredOK
  <2>4. QED
    BY <1>1, <2>1, <2>2, <2>3, OverwriteKeeps
<1>4. QED
  BY <1>2, <1>3

LEMMA CommitReorderKeeps ==
    ASSUME StoreInv, NEW k \in Slots, CommitReorder(k)
    PROVE  StoreInv'
<1> DEFINE l == Last(added)
<1>1. ops[k].phase = "read" /\ ops[k].kind = "reorder" /\ Running(k)
  BY DEF CommitReorder, Running
<1>2. CASE Lost(ops[k])
  BY <1>1, <1>2, RefuseKeeps DEF CommitReorder
<1>3. CASE ~ Lost(ops[k])
  <2>1. /\ rows' = Overwritten(ops[k], DOMAIN rows) /\ Ends(k, "ok")
        /\ added' = added /\ arranged' = arranged \cup ToSet(ops[k].items)
    BY <1>3 DEF CommitReorder
  <2>2. ToSet(ops[k].items) = DOMAIN ops[k].loaded /\ DOMAIN ops[k].loaded \subseteq ToSet(added)
    BY <1>1, Stored DEF OpOK, Fits
  <2>3. ASSUME l \notin arranged', l \in DOMAIN rows PROVE rows'[l] = 0
    <3>1. rows'[l] = IF l \in Written(ops[k]) THEN Wanted(ops[k])[l] ELSE rows[l]
      BY <1>1, <2>1, <2>3, OverwrittenFits
    <3>2. l \notin Written(ops[k]) /\ l \notin arranged
      BY <1>1, <2>1, <2>2, <2>3 DEF Written
    <3>3. QED
      BY <2>3, <3>1, <3>2 DEF StoreInv, TopInv, Zero
  <2>4. arranged \subseteq arranged' /\ arranged' \subseteq ToSet(added)
    BY <2>1, <2>2 DEF StoreInv, StoredOK
  <2>5. QED
    BY <1>1, <2>1, <2>3, <2>4, OverwriteKeeps
<1>4. QED
  BY <1>2, <1>3

LEMMA ServeKeeps ==
    ASSUME StoreInv, ServeStep
    PROVE  StoreInv'
<1>1. PICK k \in Slots : Read(k) \/ Flush(k) \/ Commit(k)
  BY DEF ServeStep
<1>2. ASSUME Deadlock(k) PROVE StoreInv'
  BY <1>2, RefuseKeeps DEF Deadlock, Running
<1>3. QED
  BY <1>1, <1>2, ReadKeeps, FlushKeeps, CommitCreateKeeps, CommitDeleteKeeps,
     CommitReorderKeeps DEF Commit

(***************************************************************************)
(* What a request that runs alone makes of the list and of the numbers.    *)
(***************************************************************************)

LEMMA DenseIs ==
    /\ Dense <=> {rows[i] : i \in DOMAIN rows} = 0..(Cardinality(DOMAIN rows) - 1)
    /\ Dense' <=> {rows'[i] : i \in DOMAIN rows'} = 0..(Cardinality(DOMAIN rows') - 1)
  BY DEF Dense

LEMMA CreationAlone ==
    ASSUME StoreInv, NEW k \in Slots, CommitCreate(k), ops[k].alone, ops'[k].phase = "ok"
    PROVE  Listed' = Intended(ops[k]) /\ (Dense => Dense')
<1> DEFINE h == Head(ops[k].items)
<1>1. ops[k].phase = "read" /\ ops[k].kind = "create" /\ Running(k)
  BY DEF CommitCreate, Running
<1>2. ops[k].loaded = rows
  BY <1>1 DEF StoreInv, AloneInv, Seen
<1>3. ops[k] \in Op /\ OpOK(added, ops[k]) /\ ops \in [Slots -> Op]
  BY Stored DEF StoreInv, OpsInv
<1>4. h \notin DOMAIN rows
  <2>1. CASE h \in DOMAIN rows
    <3>1. ops' = [ops EXCEPT ![k] = Ended(ops[k], "refused")]
      BY <2>1 DEF CommitCreate, Refuse, Ends, Ended
    <3>2. ops'[k].phase = "refused"
      BY <1>1, <1>3, <3>1, EndedIsOp
    <3>3. QED
      BY <3>2
  <2>2. QED
    BY <2>1
<1>5. PICK i \in Inserted(ops[k]) :
         /\ added' = Append(added, i)
         /\ rows' = [j \in DOMAIN rows \cup {i} |->
                       IF j = i THEN 0 ELSE Shifted(DOMAIN ops[k].loaded)[j]]
  BY <1>4 DEF CommitCreate
<1> HIDE DEF h
<1>6. /\ i \notin ToSet(added) /\ added' = Append(added, i)
      /\ rows' = [j \in DOMAIN rows \cup {i} |->
                    IF j = i THEN 0 ELSE Shifted(DOMAIN ops[k].loaded)[j]]
  BY <1>5 DEF Inserted
<1>7. i \notin DOMAIN rows
  BY <1>6, Stored DEF Fits
<1>8. Last(added') = i
  <2>1. added \in Seq(ToSet(added)) /\ Len(added) \in Nat
    BY Stored
  <2>2. QED
    BY <1>6, <2>1 DEF Last
<1>9. rows' = [j \in DOMAIN rows \cup {i} |-> IF j = i THEN 0 ELSE rows[j] + 1]
  BY <1>2, <1>6 DEF Shifted
<1>10. Orders(added, rows)
  BY Stored
<1>11. InRank(added', rows') = <<i>> \o InRank(added, rows)
  BY <1>6, <1>9, <1>10, CreatedIsFirst
<1>12. Listed' = Intended(ops[k])
  <2>1. Intended(ops[k]) = <<i>> \o Listed
    BY <1>1, <1>8 DEF Intended
  <2>2. QED
    BY <1>11, <2>1, ListedIsInRank
<1>13. ASSUME Dense PROVE Dense'
  <2> DEFINE N == Cardinality(DOMAIN rows)
  <2>1. IsFiniteSet(DOMAIN rows) /\ N \in Nat
    BY <1>10, DomainIsFinite
  <2>2. Cardinality(DOMAIN rows') = N + 1
    BY <1>7, <1>9, <2>1, FS_AddElement
  <2>3. {rows[j] : j \in DOMAIN rows} = 0..(N - 1)
    BY <1>13 DEF Dense
  <2>4. ASSUME NEW j \in DOMAIN rows' PROVE rows'[j] \in 0..N
    <3>1. CASE j = i
      BY <1>9, <2>1, <3>1
    <3>2. CASE j # i
      <4>1. rows'[j] = rows[j] + 1 /\ rows[j] \in 0..(N - 1)
        BY <1>9, <2>3, <3>2
      <4>2. QED
        BY <2>1, <4>1
    <3>3. QED
      BY <3>1, <3>2
  <2>5. ASSUME NEW n \in 0..N PROVE \E j \in DOMAIN rows' : rows'[j] = n
    <3>1. CASE n = 0
      BY <1>9, <3>1
    <3>2. CASE n # 0
      <4>1. n - 1 \in 0..(N - 1)
        BY <2>1, <3>2
      <4>2. PICK j \in DOMAIN rows : rows[j] = n - 1
        BY <2>3, <4>1
      <4>3. rows'[j] = (n - 1) + 1 /\ j \in DOMAIN rows'
        BY <1>7, <1>9, <4>2
      <4>4. QED
        BY <2>1, <4>3
    <3>3. QED
      BY <3>1, <3>2
  <2> HIDE DEF N
  <2>6. {rows'[j] : j \in DOMAIN rows'} = 0..N
    BY <2>4, <2>5
  <2>7. N = (N + 1) - 1
    BY <2>1
  <2>8. QED
    BY <2>2, <2>6, <2>7, DenseIs
<1>14. QED
  BY <1>12, <1>13

LEMMA DeletionAlone ==
    ASSUME StoreInv, NEW k \in Slots, CommitDelete(k), ops[k].alone, ops'[k].phase = "ok"
    PROVE  Listed' = Intended(ops[k]) /\ Dense'
<1> DEFINE left == DOMAIN rows \ ToSet(ops[k].items)
           o == ops[k].loaded
<1>1. ops[k].phase = "flushed" /\ ops[k].kind = "delete" /\ Running(k)
  BY Stored DEF CommitDelete, OpOK, Running
<1>2. o = Restrict(rows, left)
  BY <1>1 DEF StoreInv, AloneInv, Seen
<1>3. ops[k] \in Op /\ ops \in [Slots -> Op] /\ Orders(added, o)
  BY Stored DEF StoreInv, OpsInv
<1>4. ~ Lost(ops[k])
  <2>1. CASE Lost(ops[k])
    <3>1. ops' = [ops EXCEPT ![k] = Ended(ops[k], "refused")]
      BY <2>1 DEF CommitDelete, Refuse, Ends, Ended
    <3>2. ops'[k].phase = "refused"
      BY <1>1, <1>3, <3>1, EndedIsOp
    <3>3. QED
      BY <3>2
  <2>2. QED
    BY <2>1
<1>5. rows' = Overwritten(ops[k], left) /\ added' = added
  BY <1>4 DEF CommitDelete
<1>6. DOMAIN o = left /\ \A i \in left : o[i] = rows[i]
  BY <1>2 DEF Restrict
<1>7. /\ Fits(added, rows') /\ DOMAIN rows' = left
      /\ \A i \in left : rows'[i] = IF i \in Written(ops[k]) THEN Wanted(ops[k])[i] ELSE rows[i]
  BY <1>1, <1>5, OverwrittenFits
<1>8. ASSUME NEW i \in left PROVE rows'[i] = Rank(added, o)[i]
  <2>1. rows'[i] = Wanted(ops[k])[i]
    BY <1>1, <1>6, <1>7 DEF Written
  <2>2. QED
    BY <1>1, <1>6, <2>1, DeletionWants
<1>9. rows' \in [DOMAIN o -> Nat]
  <2>1. Orders(added, rows')
    BY <1>7, Stored, FitsIsOrders
  <2>2. QED
    BY <1>6, <1>7, <2>1 DEF Orders
<1> HIDE DEF o, left
<1>10. InRank(added, rows') = InRank(added, o)
  BY <1>3, <1>6, <1>8, <1>9, RenumberedInRank
<1>11. Intended(ops[k]) = InRank(added, o)
  BY <1>1, <1>2, ListingIsInRank DEF Intended, left
<1>12. Listed' = Intended(ops[k])
  BY <1>5, <1>10, <1>11, ListedIsInRank
<1>13. Rank(added, o) \in Surjection(DOMAIN o, 0..(Cardinality(DOMAIN o) - 1))
  BY <1>3, RankIsBijection DEF Bijection
<1>14. {rows'[i] : i \in DOMAIN rows'} = 0..(Cardinality(DOMAIN rows') - 1)
  <2>1. \A i \in DOMAIN rows' : rows'[i] \in 0..(Cardinality(DOMAIN rows') - 1)
    BY <1>6, <1>7, <1>8, <1>13 DEF Surjection
  <2>2. ASSUME NEW n \in 0..(Cardinality(DOMAIN rows') - 1)
        PROVE  \E i \in DOMAIN rows' : rows'[i] = n
    BY <1>6, <1>7, <1>8, <1>13 DEF Surjection
  <2>3. QED
    BY <2>1, <2>2
<1>15. QED
  BY <1>12, <1>14, DenseIs

LEMMA ReorderingAlone ==
    ASSUME StoreInv, NEW k \in Slots, CommitReorder(k), ops[k].alone, ops'[k].phase = "ok"
    PROVE  Listed' = Intended(ops[k]) /\ Dense'
<1> DEFINE s == ops[k].items
<1>1. ops[k].phase = "read" /\ ops[k].kind = "reorder" /\ Running(k)
  BY DEF CommitReorder, Running
<1>2. ops[k].loaded = rows
  BY <1>1 DEF StoreInv, AloneInv, Seen
<1>3. /\ ops[k] \in Op /\ ops \in [Slots -> Op] /\ s \in Seq(Rows) /\ IsInjective(s)
      /\ ToSet(s) = DOMAIN rows
  BY <1>1, <1>2, Stored DEF StoreInv, OpsInv, Op, OpOK
<1>4. ~ Lost(ops[k])
  BY <1>1, <1>2 DEF Lost
<1>5. rows' = Overwritten(ops[k], DOMAIN rows) /\ added' = added
  BY <1>4 DEF CommitReorder
<1>6. /\ Fits(added, rows') /\ DOMAIN rows' = DOMAIN rows
      /\ \A i \in DOMAIN rows :
            rows'[i] = IF i \in Written(ops[k]) THEN Wanted(ops[k])[i] ELSE rows[i]
  BY <1>1, <1>5, OverwrittenFits
<1>7. ASSUME NEW i \in DOMAIN rows PROVE rows'[i] = Index(s, i) - 1
  <2>1. rows'[i] = Wanted(ops[k])[i]
    BY <1>1, <1>2, <1>6 DEF Written
  <2>2. QED
    BY <1>1, <1>2, <2>1, ReorderingWants
<1>8. Orders(added, rows')
  BY <1>6, Stored, FitsIsOrders
<1>9. s \in Seq(ToSet(s)) /\ s \in Seq(DOMAIN rows') /\ ToSet(s) = DOMAIN rows'
  BY <1>3, <1>6, InSeqOfRange
<1> HIDE DEF s
<1>10. InRank(added, rows') = s
  BY <1>3, <1>6, <1>7, <1>8, <1>9, NumberedAsSaid
<1>11. Listed' = Intended(ops[k])
  BY <1>1, <1>5, <1>10, ListedIsInRank DEF Intended, s
<1>12. Cardinality(DOMAIN rows') = Len(s) /\ Len(s) \in Nat /\ DOMAIN s = 1..Len(s)
  BY <1>3, <1>9, SequenceIsFinite
<1>13. {rows'[i] : i \in DOMAIN rows'} = 0..(Len(s) - 1)
  <2>1. ASSUME NEW i \in DOMAIN rows' PROVE rows'[i] \in 0..(Len(s) - 1)
    <3>1. Index(s, i) \in 1..Len(s)
      BY <1>9, IndexAt
    <3>2. rows'[i] = Index(s, i) - 1
      BY <1>6, <1>7
    <3>3. QED
      BY <1>12, <3>1, <3>2
  <2>2. ASSUME NEW n \in 0..(Len(s) - 1) PROVE \E i \in DOMAIN rows' : rows'[i] = n
    <3>1. n + 1 \in 1..Len(s)
      BY <1>12
    <3>2. s[n + 1] \in DOMAIN rows' /\ Index(s, s[n + 1]) = n + 1
      BY <1>3, <1>9, <3>1, IndexIs
    <3>3. rows'[s[n + 1]] = (n + 1) - 1
      BY <1>6, <1>7, <3>2
    <3>4. (n + 1) - 1 = n
      OBVIOUS
    <3>5. QED
      BY <3>2, <3>3, <3>4
  <2>3. QED
    BY <2>1, <2>2
<1>14. QED
  BY <1>11, <1>12, <1>13, DenseIs

(***************************************************************************)
(* What the page derives and sends.                                        *)
(***************************************************************************)

PageTypes ==
    /\ url \in [view : Views, sort : Sorts, page : Nat \ {0}]
    /\ lists \in [Views -> Held \cup {Unknown}]
    /\ fetch \in [phase : {"idle", "sent", "served", "cancelled"}, items : Held]
    /\ broken \subseteq Views
    /\ ticks \in [view : Views \cup {"none"}, rows : SUBSET ToSet(added)]
    /\ gestures \in 0..MaxGestures /\ faults \in 0..MaxFaults
    /\ ticked \in [Views -> SUBSET ToSet(added)] /\ foreign \in BOOLEAN

LEMMA TypeParts ==
    (TypeOK <=> StoredOK /\ PageTypes) /\ (TypeOK' <=> StoredOK' /\ PageTypes')
  BY DEF TypeOK, PageTypes

LEMMA ItemsHeld ==
    ASSUME IInv
    PROVE  /\ Items \in Seq(ToSet(added)) /\ Items \in Seq(Rows) /\ IsInjective(Items)
           /\ Items \in Seq(ToSet(Items))
           /\ ToSet(Items) \subseteq ToSet(added) /\ ToSet(Items) \subseteq Rows
<1>1. <<>> \in Seq(ToSet(added)) /\ IsInjective(<<>>)
  BY DEF IsInjective
<1>2. Items \in Seq(ToSet(added)) /\ IsInjective(Items)
  BY <1>1 DEF IInv, TypeOK, ListsInv, Items, Held
<1>3. ToSet(added) \subseteq Rows
  BY Stored DEF IInv
<1>4. Items \in Seq(Rows)
  BY <1>2, <1>3
<1>5. QED
  BY <1>2, <1>3, <1>4, InSeqOfRange

LEMMA LatestFirstLists ==
    ASSUME IInv, NEW S \in SUBSET ToSet(added)
    PROVE  LatestFirst(S) \in Seq(S) /\ IsInjective(LatestFirst(S)) /\ ToSet(LatestFirst(S)) = S
<1> DEFINE o == [i \in S |-> 0]
<1>1. Orders(added, o)
  <2>1. added \in Seq(ToSet(added)) /\ IsInjective(added)
    BY Stored DEF IInv
  <2>2. QED
    BY <2>1 DEF Orders
<1>2. LatestFirst(S) = InRank(added, o)
  BY ListingIsInRank DEF LatestFirst
<1>3. DOMAIN o = S
  OBVIOUS
<1> HIDE DEF o
<1>4. QED
  BY <1>1, <1>2, <1>3, ListHasEachOnce

LEMMA Reversed ==
    ASSUME NEW S, NEW s \in Seq(S), IsInjective(s)
    PROVE  /\ Reverse(s) \in Seq(S) /\ IsInjective(Reverse(s))
           /\ ToSet(Reverse(s)) \subseteq ToSet(s)
<1> DEFINE t == Reverse(s)
<1>1. /\ Len(s) \in Nat /\ DOMAIN s = 1..Len(s) /\ DOMAIN t = 1..Len(s)
      /\ \A n \in 1..Len(s) : (Len(s) - n) + 1 \in 1..Len(s) /\ t[n] = s[(Len(s) - n) + 1]
      /\ t \in Seq(S)
  BY DEF Reverse
<1>2. \A m, n \in 1..Len(s) : s[m] = s[n] => m = n
  BY <1>1 DEF IsInjective
<1> HIDE DEF t
<1>3. ASSUME NEW m \in 1..Len(s), NEW n \in 1..Len(s), t[m] = t[n] PROVE m = n
  <2>1. (Len(s) - m) + 1 = (Len(s) - n) + 1
    BY <1>1, <1>2, <1>3
  <2>2. QED
    BY <1>1, <2>1
<1>4. IsInjective(t)
  BY <1>1, <1>3 DEF IsInjective
<1>5. ToSet(t) \subseteq ToSet(s)
  BY <1>1 DEF ToSet
<1>6. QED
  BY <1>1, <1>4, <1>5 DEF t

LEMMA PageShowsItems ==
    ASSUME IInv
    PROVE  /\ ToSet(Displayed) \subseteq ToSet(added) /\ OnPage \subseteq ToSet(Items)
<1> DEFINE S == ToSet(Items)
<1>1. /\ S \in SUBSET ToSet(added) /\ Items \in Seq(S)
  BY ItemsHeld
<1>2. LatestFirst(S) \in Seq(S) /\ IsInjective(LatestFirst(S))
  BY <1>1, LatestFirstLists
<1>3. Reverse(LatestFirst(S)) \in Seq(S)
  BY <1>2, Reversed
<1>4. url.sort \in Sorts
  BY DEF IInv, TypeOK
<1>5. Displayed \in Seq(S)
  BY <1>1, <1>2, <1>3, <1>4 DEF Displayed, Sorts
<1>6. \A n \in 1..Len(Displayed) : Displayed[n] \in S
  BY <1>5
<1>7. ToSet(Displayed) \subseteq S
  BY <1>5, InSeqOfRange
<1>8. QED
  BY <1>1, <1>6, <1>7 DEF OnPage, InPage

LEMMA Swapped ==
    ASSUME NEW S, NEW s \in Seq(S), IsInjective(s), NEW m \in 1..Len(s), NEW n \in 1..Len(s),
           m # n
    PROVE  /\ [s EXCEPT ![m] = s[n], ![n] = s[m]] \in Seq(S)
           /\ IsInjective([s EXCEPT ![m] = s[n], ![n] = s[m]])
<1> DEFINE t == [s EXCEPT ![m] = s[n], ![n] = s[m]]
<1>1. /\ DOMAIN s = 1..Len(s) /\ DOMAIN t = 1..Len(s) /\ t[m] = s[n] /\ t[n] = s[m]
      /\ \A i \in 1..Len(s) : i # m /\ i # n => t[i] = s[i]
      /\ t \in Seq(S)
  OBVIOUS
<1>2. \A i, j \in 1..Len(s) : s[i] = s[j] => i = j
  BY <1>1 DEF IsInjective
<1> HIDE DEF t
<1>3. \A i, j \in 1..Len(s) : t[i] = t[j] => i = j
  BY <1>1, <1>2
<1>4. QED
  BY <1>1, <1>3 DEF IsInjective, t

LEMMA RemovedAt ==
    ASSUME NEW S, NEW s \in Seq(S), IsInjective(s), NEW n \in 1..Len(s)
    PROVE  /\ RemoveAt(s, n) \in Seq(S) /\ IsInjective(RemoveAt(s, n))
           /\ ToSet(RemoveAt(s, n)) = ToSet(s) \ {s[n]}
<1> DEFINE r == RemoveAt(s, n)
<1>1. /\ Len(s) \in Nat /\ DOMAIN s = 1..Len(s) /\ r \in Seq(S) /\ Len(r) = Len(s) - 1
      /\ DOMAIN r = 1..(Len(s) - 1)
      /\ \A m \in 1..(Len(s) - 1) : r[m] = IF m < n THEN s[m] ELSE s[m + 1]
  <2> DEFINE u == SubSeq(s, 1, n - 1)
             v == SubSeq(s, n + 1, Len(s))
  <2>1. /\ Len(s) \in Nat /\ DOMAIN s = 1..Len(s) /\ n \in Nat /\ 1 <= n /\ n <= Len(s)
    OBVIOUS
  <2>2. u \in Seq(S) /\ Len(u) = n - 1 /\ \A m \in 1..(n - 1) : u[m] = s[m]
    BY <2>1
  <2>3. v \in Seq(S) /\ Len(v) = Len(s) - n /\ \A m \in 1..(Len(s) - n) : v[m] = s[n + m]
    <3>1. /\ n + 1 \in Int /\ Len(s) \in Int
          /\ \A i \in (n + 1)..Len(s) : s[i] \in S
      BY <2>1
    <3>2. /\ v \in Seq(S)
          /\ Len(v) = IF n + 1 <= Len(s) THEN Len(s) - (n + 1) + 1 ELSE 0
          /\ \A m \in 1..(Len(s) - (n + 1) + 1) : v[m] = s[(n + 1) + m - 1]
      BY <3>1, SubSeqProperties
    <3>3. \A m \in 1..(Len(s) - n) :
             m \in 1..(Len(s) - (n + 1) + 1) /\ (n + 1) + m - 1 = n + m
      BY <2>1
    <3> HIDE DEF v
    <3>4. QED
      BY <2>1, <3>2, <3>3
  <2>4. r = u \o v
    BY DEF RemoveAt
  <2> HIDE DEF u, v, r
  <2>5. /\ r \in Seq(S) /\ Len(r) = (n - 1) + (Len(s) - n)
        /\ \A m \in 1..((n - 1) + (Len(s) - n)) :
              r[m] = IF m <= n - 1 THEN u[m] ELSE v[m - (n - 1)]
    <3>1. /\ r \in Seq(S) /\ Len(r) = Len(u) + Len(v)
          /\ \A m \in 1..(Len(u) + Len(v)) :
                r[m] = IF m <= Len(u) THEN u[m] ELSE v[m - Len(u)]
      BY <2>2, <2>3, <2>4, ConcatProperties
    <3>2. QED
      BY <2>2, <2>3, <3>1
  <2>6. /\ Len(r) = Len(s) - 1 /\ DOMAIN r = 1..(Len(s) - 1)
        /\ \A m \in 1..(Len(s) - 1) : r[m] = IF m < n THEN s[m] ELSE s[m + 1]
    <3>1. (n - 1) + (Len(s) - n) = Len(s) - 1
      BY <2>1
    <3>2. ASSUME NEW m \in 1..(Len(s) - 1)
          PROVE  r[m] = IF m < n THEN s[m] ELSE s[m + 1]
      <4>1. r[m] = IF m <= n - 1 THEN u[m] ELSE v[m - (n - 1)]
        BY <2>5, <3>1
      <4>2. CASE m < n
        <5>1. m <= n - 1 /\ m \in 1..(n - 1)
          BY <2>1, <4>2
        <5>2. QED
          BY <2>2, <4>1, <4>2, <5>1
      <4>3. CASE ~ (m < n)
        <5>1. /\ m - (n - 1) \in 1..(Len(s) - n) /\ n + (m - (n - 1)) = m + 1
              /\ ~ (m <= n - 1)
          BY <2>1, <4>3
        <5>2. QED
          BY <2>3, <4>1, <4>3, <5>1
      <4>4. QED
        BY <4>2, <4>3
    <3>3. QED
      BY <2>1, <2>5, <3>1, <3>2
  <2>7. QED
    BY <2>1, <2>5, <2>6
<1>2. \A i, j \in 1..Len(s) : s[i] = s[j] => i = j
  BY <1>1 DEF IsInjective
<1> HIDE DEF r
<1>3. ASSUME NEW i \in 1..(Len(s) - 1), NEW j \in 1..(Len(s) - 1), r[i] = r[j]
      PROVE  i = j
  <2>1. i \in 1..Len(s) /\ i + 1 \in 1..Len(s) /\ j \in 1..Len(s) /\ j + 1 \in 1..Len(s)
    BY <1>1
  <2>2. (IF i < n THEN i ELSE i + 1) = (IF j < n THEN j ELSE j + 1)
    BY <1>1, <1>2, <1>3, <2>1
  <2>3. QED
    BY <2>1, <2>2
<1>4. IsInjective(r)
  BY <1>1, <1>3 DEF IsInjective
<1>5. ASSUME NEW i \in 1..(Len(s) - 1) PROVE r[i] \in ToSet(s) \ {s[n]}
  <2>1. i \in 1..Len(s) /\ i + 1 \in 1..Len(s)
    BY <1>1
  <2>2. CASE i < n
    BY <1>1, <1>2, <2>1, <2>2 DEF ToSet
  <2>3. CASE ~ (i < n)
    <3>1. r[i] = s[i + 1] /\ i + 1 # n
      BY <1>1, <2>1, <2>3
    <3>2. QED
      BY <1>1, <1>2, <2>1, <3>1 DEF ToSet
  <2>4. QED
    BY <2>2, <2>3
<1>6. ASSUME NEW i \in 1..Len(s), s[i] # s[n] PROVE \E m \in 1..(Len(s) - 1) : r[m] = s[i]
  <2>1. CASE i < n
    <3>1. i \in 1..(Len(s) - 1) /\ r[i] = s[i]
      BY <1>1, <2>1
    <3>2. QED
      BY <3>1
  <2>2. CASE i > n
    <3>1. i - 1 \in 1..(Len(s) - 1) /\ ~ (i - 1 < n) /\ (i - 1) + 1 = i
      BY <1>1, <2>2
    <3>2. r[i - 1] = s[i]
      BY <1>1, <3>1
    <3>3. QED
      BY <3>1, <3>2
  <2>3. i # n
    BY <1>6
  <2>4. i \in Nat /\ n \in Nat
    BY <1>1
  <2>5. i < n \/ i > n
    BY <2>3, <2>4
  <2>6. QED
    BY <2>1, <2>2, <2>5
<1>7. /\ ToSet(r) = {r[i] : i \in 1..(Len(s) - 1)}
      /\ ToSet(s) = {s[i] : i \in 1..Len(s)}
  BY <1>1 DEF ToSet
<1>8. ToSet(r) = ToSet(s) \ {s[n]}
  <2>1. ToSet(r) \subseteq ToSet(s) \ {s[n]}
    BY <1>5, <1>7
  <2>2. ToSet(s) \ {s[n]} \subseteq ToSet(r)
    BY <1>6, <1>7
  <2>3. QED
    BY <2>1, <2>2
<1>9. QED
  BY <1>1, <1>4, <1>7, <1>8 DEF r

LEMMA InsertedAt ==
    ASSUME NEW S, NEW s \in Seq(S), IsInjective(s), NEW n \in 1..Len(s), NEW e \in S,
           e \notin ToSet(s)
    PROVE  InsertAt(s, n, e) \in Seq(S) /\ IsInjective(InsertAt(s, n, e))
<1> DEFINE t == InsertAt(s, n, e)
<1>1. /\ Len(s) \in Nat /\ DOMAIN s = 1..Len(s) /\ t \in Seq(S) /\ Len(t) = Len(s) + 1
      /\ DOMAIN t = 1..(Len(s) + 1)
      /\ \A m \in 1..(Len(s) + 1) :
            t[m] = IF m < n THEN s[m] ELSE IF m = n THEN e ELSE s[m - 1]
  BY DEF InsertAt
<1>2. \A i, j \in 1..Len(s) : s[i] = s[j] => i = j
  BY <1>1 DEF IsInjective
<1>3. \A i \in 1..Len(s) : s[i] # e
  BY <1>1 DEF ToSet
<1> HIDE DEF t
<1>4. ASSUME NEW i \in 1..(Len(s) + 1), NEW j \in 1..(Len(s) + 1), t[i] = t[j]
      PROVE  i = j
  <2>1. /\ i < n => i \in 1..Len(s)
        /\ ~ (i < n) /\ i # n => i - 1 \in 1..Len(s)
        /\ j < n => j \in 1..Len(s)
        /\ ~ (j < n) /\ j # n => j - 1 \in 1..Len(s)
    BY <1>1
  <2>2. CASE i = n \/ j = n
    BY <1>1, <1>3, <1>4, <2>1, <2>2
  <2>3. CASE i # n /\ j # n
    <3>1. (IF i < n THEN i ELSE i - 1) = (IF j < n THEN j ELSE j - 1)
      BY <1>1, <1>2, <1>4, <2>1, <2>3
    <3>2. QED
      BY <1>1, <2>3, <3>1
  <2>4. QED
    BY <2>2, <2>3
<1>5. IsInjective(t)
  BY <1>1, <1>4 DEF IsInjective
<1>6. QED
  BY <1>1, <1>5 DEF t

(***************************************************************************)
(* The steps of the page.                                                  *)
(***************************************************************************)

\* A list of rows as a request names it.
Names(kind, s) ==
    /\ kind \in {"create", "delete", "reorder"} /\ s \in Seq(Rows) /\ IsInjective(s)
    /\ kind = "create" => Len(s) = 1

LEMMA OneName ==
    ASSUME NEW i \in Rows
    PROVE  Names("create", <<i>>) /\ Names("delete", <<i>>)
<1>1. <<i>> \in Seq(Rows) /\ Len(<<i>>) = 1 /\ DOMAIN <<i>> = {1}
  OBVIOUS
<1>2. IsInjective(<<i>>)
  BY <1>1 DEF IsInjective
<1>3. QED
  BY <1>1, <1>2 DEF Names

LEMMA DroppedNames ==
    ASSUME IInv, NEW i \in ToSet(Items), NEW j \in ToSet(Items), i # j
    PROVE  Names("reorder", Dropped(i, j))
<1> DEFINE n == Index(Items, i)
           others == RemoveAt(Items, n)
<1>1. Items \in Seq(Rows) /\ IsInjective(Items) /\ Items \in Seq(ToSet(Items)) /\ i \in Rows
  BY ItemsHeld
<1>2. n \in 1..Len(Items) /\ Items[n] = i
  BY <1>1, IndexAt
<1>3. /\ others \in Seq(Rows) /\ IsInjective(others)
      /\ ToSet(others) = ToSet(Items) \ {i}
  BY <1>1, <1>2, RemovedAt
<1>4. Dropped(i, j) = InsertAt(others, Index(others, j), i)
  BY DEF Dropped
<1> HIDE DEF n, others
<1>5. j \in ToSet(others) /\ others \in Seq(ToSet(others)) /\ i \notin ToSet(others)
  BY <1>3, InSeqOfRange
<1>6. Index(others, j) \in 1..Len(others)
  BY <1>5, IndexAt
<1>7. InsertAt(others, Index(others, j), i) \in Seq(Rows)
      /\ IsInjective(InsertAt(others, Index(others, j), i))
  BY <1>1, <1>3, <1>5, <1>6, InsertedAt
<1>8. QED
  BY <1>4, <1>7 DEF Names

LEMMA MovedNames ==
    ASSUME IInv, NEW i \in ToSet(Items), NEW n \in 1..Len(Items), n # Index(Items, i)
    PROVE  Names("reorder", [Items EXCEPT ![Index(Items, i)] = Items[n], ![n] = i])
<1>1. Items \in Seq(Rows) /\ IsInjective(Items) /\ Items \in Seq(ToSet(Items))
  BY ItemsHeld
<1>2. Index(Items, i) \in 1..Len(Items) /\ Items[Index(Items, i)] = i
  BY <1>1, IndexAt
<1>3. QED
  BY <1>1, <1>2, Swapped DEF Names

\* What a gesture of the visitor does.
Turns == \E u \in [view : Views, sort : Sorts, page : Nat \ {0}] :
    GoTo(u) /\ UNCHANGED <<stored, lists, broken, ticks, history>>
Ticking == \E S, T \in SUBSET ToSet(added) :
    SetTicks(S) /\ S \subseteq T /\ ticked' = [ticked EXCEPT ![url.view] = T]
Sends == \E k \in Slots, kind \in {"create", "delete", "reorder"}, s \in Seq(Rows) :
    Names(kind, s) /\ Send(k, kind, s)

LEMMA SlotsAre == Slots = {"create", "delete", "batch", "reorder", "device"}
  BY PageAssumption

LEMMA Visits ==
    ASSUME IInv, Visit
    PROVE  Turns \/ Ticking \/ Sends
<1>0. /\ OnPage \subseteq ToSet(Items) /\ ToSet(Items) \subseteq ToSet(added)
      /\ ToSet(Items) \subseteq Rows /\ ToSet(Displayed) \subseteq ToSet(added)
      /\ ToSet(added) \subseteq Rows
      /\ url \in [view : Views, sort : Sorts, page : Nat \ {0}]
  BY ItemsHeld, PageShowsItems, Stored DEF IInv, TypeOK
<1>1. /\ ticked[url.view] \subseteq ToSet(added) /\ Ticks \subseteq ticked[url.view]
      /\ Ticks \subseteq ToSet(added)
  BY <1>0 DEF IInv, TypeOK, TicksInv, Ticks
<1>2. ASSUME NEW u \in [view : Views, sort : Sorts, page : Nat \ {0}], Browse(u) PROVE Turns
  BY <1>2 DEF Browse, Turns
<1>3. ASSUME NEW k \in Slots, NEW kind \in {"create", "delete", "reorder"}, NEW s,
             Names(kind, s), Send(k, kind, s)
      PROVE  Sends
  BY <1>3 DEF Sends, Names
<1>4. CASE FiltersPanel
  <2>1. CASE ClearFilters
    <3>1. Blank \in [view : Views, sort : Sorts, page : Nat \ {0}]
      BY DEF Blank, Views, Sorts
    <3>2. QED
      BY <1>2, <2>1, <3>1 DEF ClearFilters
  <2>2. ASSUME NEW v \in Views, SetView(v) PROVE Turns
    <3>1. [url EXCEPT !.view = v, !.page = 1] \in [view : Views, sort : Sorts, page : Nat \ {0}]
      <4>1. 1 \in Nat \ {0}
        OBVIOUS
      <4>2. QED
        BY <1>0, <4>1
    <3>2. QED
      BY <1>2, <2>2, <3>1 DEF SetView
  <2>3. QED
    BY <1>4, <2>1, <2>2 DEF FiltersPanel
<1>5. ASSUME NEW column \in BOOLEAN, RequestSort(column) PROVE Turns
  <2> DEFINE s == IF ~column THEN "custom" ELSE IF url.sort = "desc" THEN "asc" ELSE "desc"
  <2>1. s \in Sorts
    BY DEF Sorts
  <2>2. Browse([url EXCEPT !.page = 1, !.sort = s])
    BY <1>5 DEF RequestSort
  <2> HIDE DEF s
  <2>3. [url EXCEPT !.page = 1, !.sort = s] \in [view : Views, sort : Sorts, page : Nat \ {0}]
    <3>1. 1 \in Nat \ {0}
      OBVIOUS
    <3>2. QED
      BY <1>0, <2>1, <3>1
  <2>4. QED
    BY <1>2, <2>2, <2>3
<1>6. ASSUME NEW S \in SUBSET ToSet(added), NEW T \in SUBSET ToSet(added), SetTicks(S),
             S \subseteq T, ticked' = [ticked EXCEPT ![url.view] = T]
      PROVE  Ticking
  BY <1>6 DEF Ticking
<1>7. CASE ToggleSelectAll
  <2>1. CASE OnPage # {} /\ OnPage \subseteq Ticks
    <3>1. /\ SetTicks(Ticks \ OnPage)
          /\ ticked' = [ticked EXCEPT ![url.view] = ticked[url.view] \ OnPage]
      BY <1>7, <2>1 DEF ToggleSelectAll
    <3>2. QED
      BY <1>1, <1>6, <3>1
  <2>2. CASE ~ (OnPage # {} /\ OnPage \subseteq Ticks)
    <3>1. /\ SetTicks(Ticks \cup OnPage)
          /\ ticked' = [ticked EXCEPT ![url.view] = ticked[url.view] \cup OnPage]
      BY <1>7, <2>2 DEF ToggleSelectAll
    <3>2. /\ Ticks \cup OnPage \in SUBSET ToSet(added)
          /\ ticked[url.view] \cup OnPage \in SUBSET ToSet(added)
          /\ Ticks \cup OnPage \subseteq ticked[url.view] \cup OnPage
      BY <1>0, <1>1
    <3>3. QED
      BY <1>6, <3>1, <3>2
  <2>3. QED
    BY <2>1, <2>2
<1>8. ASSUME NEW i, ToggleSelected(i) PROVE Ticking
  <2>1. i \in ToSet(added)
    BY <1>0, <1>8 DEF ToggleSelected
  <2>2. CASE i \in Ticks
    <3>1. /\ SetTicks(Ticks \ {i})
          /\ ticked' = [ticked EXCEPT ![url.view] = ticked[url.view] \ {i}]
      BY <1>8, <2>2 DEF ToggleSelected
    <3>2. QED
      BY <1>1, <1>6, <3>1
  <2>3. CASE i \notin Ticks
    <3>1. /\ SetTicks(Ticks \cup {i})
          /\ ticked' = [ticked EXCEPT ![url.view] = ticked[url.view] \cup {i}]
      BY <1>8, <2>3 DEF ToggleSelected
    <3>2. QED
      BY <1>1, <1>6, <2>1, <3>1
  <2>4. QED
    BY <2>2, <2>3
<1>9. CASE ConfirmBatch
  <2>1. Marked \in SUBSET ToSet(added)
    BY <1>1 DEF Marked
  <2>2. /\ LatestFirst(Marked) \in Seq(Marked) /\ IsInjective(LatestFirst(Marked))
    BY <2>1, LatestFirstLists
  <2>3. LatestFirst(Marked) \in Seq(Rows)
    BY <1>0, <2>1, <2>2
  <2>4. QED
    BY <1>3, <1>9, <2>2, <2>3, SlotsAre DEF ConfirmBatch, Names
<1>10. ASSUME NEW i, ConfirmDelete(i) PROVE Sends
  <2>1. i \in Rows /\ Send("delete", "delete", <<i>>)
    BY <1>0, <1>10 DEF ConfirmDelete
  <2>2. QED
    BY <1>3, <2>1, OneName, SlotsAre
<1>11. ASSUME NEW i, NEW j, DropRow(i, j) PROVE Sends
  <2>1. /\ i \in ToSet(Items) /\ j \in ToSet(Items) /\ i # j
        /\ Send("reorder", "reorder", Dropped(i, j))
    BY <1>0, <1>11 DEF DropRow
  <2>2. QED
    BY <1>3, <2>1, DroppedNames, SlotsAre
<1>12. ASSUME NEW i, NEW n \in 1..Len(Items), MoveRow(i, n) PROVE Sends
  <2> DEFINE m == Index(Items, i)
  <2>1. /\ i \in ToSet(Items) /\ n \in {m - 1, m + 1}
        /\ Send("reorder", "reorder", [Items EXCEPT ![m] = Items[n], ![n] = i])
    BY <1>0, <1>12 DEF MoveRow
  <2>2. m \in 1..Len(Items)
    BY <2>1, ItemsHeld, IndexAt
  <2>3. n # m
    BY <2>1, <2>2
  <2>4. QED
    BY <1>3, <2>1, <2>3, MovedNames, SlotsAre
<1>13. CASE Pagination
  <2>1. PICK n \in {Page - 1, Page + 1} \cap (1..TotalPages) : GoToPage(n)
    BY <1>13 DEF Pagination
  <2>2. n \in Nat \ {0}
    BY <2>1
  <2>3. [url EXCEPT !.page = n] \in [view : Views, sort : Sorts, page : Nat \ {0}]
    BY <1>0, <2>2
  <2>4. QED
    BY <1>2, <2>1, <2>3 DEF GoToPage
<1>14. CASE AddDialog
  <2>1. PICK i \in Rows : SubmitCreate(i)
    BY <1>14 DEF AddDialog
  <2>2. QED
    BY <1>3, <2>1, OneName, SlotsAre DEF SubmitCreate
<1>15. QED
  BY <1>4, <1>5, <1>7, <1>8, <1>9, <1>10, <1>11, <1>12, <1>13, <1>14
  DEF Visit, TableHead, TableRow, Card

\* A request that is sent, answered, refused or lost: one that has loaded
\* nothing takes the place of another.
Replaced(k, op) ==
    /\ op \in Op /\ OpOK(added, op) /\ op.loaded = NoRows
    /\ op.phase \in {"idle", "sent", "refused"}
    /\ ops' = [ops EXCEPT ![k] = op] /\ UNCHANGED <<rows, added, arranged>>

LEMMA SentIsReplaced ==
    ASSUME IInv, NEW k \in Slots, NEW kind, NEW s, Names(kind, s), Send(k, kind, s)
    PROVE  \E op : Replaced(k, op)
<1> DEFINE v == IF k = "batch" THEN url.view ELSE "all"
           op == [NoOp EXCEPT !.kind = kind, !.phase = "sent", !.items = s, !.view = v]
<1>1. v \in Views
  BY DEF IInv, TypeOK, Views
<1>2. ops' = [ops EXCEPT ![k] = op] /\ UNCHANGED <<rows, added, arranged>>
  BY DEF Send
<1> HIDE DEF v
<1>3. op \in Op /\ op.phase = "sent" /\ op.loaded = NoRows /\ op.kind = kind /\ op.items = s
  BY <1>1, NoRowsFit DEF NoOp, Op, Kinds, Phases, Names
<1>4. OpOK(added, op)
  BY <1>3, NoRowsFit DEF OpOK, Names
<1>5. QED
  BY <1>2, <1>3, <1>4 DEF Replaced

LEMMA NoOpIsReplaced ==
    ASSUME IInv, NEW k \in Slots, ops' = [ops EXCEPT ![k] = NoOp],
           UNCHANGED <<rows, added, arranged>>
    PROVE  Replaced(k, NoOp)
  BY NoOpIsOp DEF Replaced

LEMMA LostIsReplaced ==
    ASSUME IInv, NEW k \in Slots, Lose(k)
    PROVE  Replaced(k, Ended(ops[k], "refused"))
<1>1. ops[k] \in Op /\ ops[k].kind # "none"
  BY Stored DEF IInv, Lose, OpOK
<1>2. ops' = [ops EXCEPT ![k] = Ended(ops[k], "refused")] /\ UNCHANGED <<rows, added, arranged>>
  BY DEF Lose, Ends, Ended
<1>3. QED
  BY <1>1, <1>2, EndedIsOp DEF Replaced

LEMMA DeviceSends ==
    ASSUME IInv, OtherDevice
    PROVE  \E kind, s : Names(kind, s) /\ Send("device", kind, s)
<1>1. ASSUME NEW i \in Rows, Send("device", "create", <<i>>)
      PROVE  \E kind, s : Names(kind, s) /\ Send("device", kind, s)
  BY <1>1, OneName
<1>2. ASSUME NEW i \in DOMAIN rows, Send("device", "delete", <<i>>)
      PROVE  \E kind, s : Names(kind, s) /\ Send("device", kind, s)
  <2>1. i \in Rows
    BY Stored DEF IInv, Fits
  <2>2. QED
    BY <1>2, <2>1, OneName
<1>3. ASSUME Send("device", "reorder", Reverse(Listed))
      PROVE  \E kind, s : Names(kind, s) /\ Send("device", kind, s)
  <2>1. Orders(added, rows) /\ DOMAIN rows \subseteq Rows
    BY Stored DEF IInv, Fits
  <2>2. Listed \in Seq(DOMAIN rows) /\ IsInjective(Listed)
    BY <2>1, ListHasEachOnce, ListedIsInRank
  <2>3. Listed \in Seq(Rows)
    BY <2>1, <2>2
  <2>4. Names("reorder", Reverse(Listed))
    BY <2>2, <2>3, Reversed DEF Names
  <2>5. QED
    BY <1>3, <2>4
<1>4. QED
  BY <1>1, <1>2, <1>3 DEF OtherDevice

LEMMA ReplacedKeepsStore ==
    ASSUME IInv, NEW k \in Slots, NEW op, Replaced(k, op)
    PROVE  StoreInv'
  BY OpChanges DEF Replaced, IInv

LEMMA InViewHeld ==
    ASSUME IInv, NEW v
    PROVE  InView(v) \in Held /\ IsInjective(InView(v))
<1> DEFINE o == IF v = "all" THEN rows ELSE Restrict(rows, DOMAIN rows \cap Matching)
<1>1. Fits(added, rows)
  BY Stored DEF IInv
<1>2. Fits(added, o)
  BY <1>1 DEF Fits, Restrict
<1>3. Orders(added, o)
  BY <1>2, Stored, FitsIsOrders DEF IInv
<1>4. InView(v) = InRank(added, o)
  BY ListingIsInRank DEF InView
<1> HIDE DEF o
<1>5. InRank(added, o) \in Seq(DOMAIN o) /\ IsInjective(InRank(added, o))
  BY <1>3, ListHasEachOnce
<1>6. DOMAIN o \subseteq ToSet(added)
  BY <1>2 DEF Fits
<1>7. QED
  BY <1>4, <1>5, <1>6 DEF Held

\* No answer waits that did not before, and nothing happened behind the back
\* of the page that had not.
AnswersStay ==
    ~ foreign' /\ (\A k \in PageSlots : ops'[k].phase # "ok") =>
        ~ foreign /\ \A k \in PageSlots : ops[k].phase # "ok"

LEMMA CurrentStays ==
    ASSUME IInv, AnswersStay, UNCHANGED <<rows, added, url, lists, fetch, broken>>
    PROVE  CurrentInv'
<1>1. InView(url.view)' = InView(url.view)
  BY DEF InView, Listing, Place, Before, Added
<1>2. CASE ~ foreign' /\ \A k \in PageSlots : ops'[k].phase # "ok"
  <2>1. /\ fetch.phase = "served" => fetch.items = InView(url.view)
        /\ fetch.phase = "idle" /\ url.view \notin broken /\ lists[url.view] # Unknown =>
              lists[url.view] = InView(url.view)
    BY <1>2 DEF AnswersStay, IInv, CurrentInv
  <2>2. QED
    BY <1>1, <2>1 DEF CurrentInv
<1>3. CASE ~ (~ foreign' /\ \A k \in PageSlots : ops'[k].phase # "ok")
  BY <1>3 DEF CurrentInv
<1>4. QED
  BY <1>2, <1>3

LEMMA CurrentWhenSent == fetch'.phase = "sent" => CurrentInv'
  BY DEF CurrentInv

LEMMA ReplacedAnswers ==
    ASSUME IInv, NEW k \in Slots, NEW op, Replaced(k, op),
           k = "device" \/ ops[k].phase # "ok" \/ foreign',
           foreign => foreign'
    PROVE  AnswersStay
<1>1. \A j \in Slots : j # k => ops'[j] = ops[j]
  BY Stored DEF IInv, StoreInv, OpsInv, Replaced
<1>2. QED
  BY <1>1 DEF AnswersStay, PageSlots

\* The rest of the page after a step that leaves it alone.
LEMMA PageStays ==
    ASSUME IInv, UNCHANGED <<page, added, ticked>>,
           gestures' \in 0..MaxGestures, faults' \in 0..MaxFaults, foreign' \in BOOLEAN
    PROVE  PageTypes' /\ TicksInv' /\ ListsInv'
<1>1. PageTypes /\ TicksInv /\ ListsInv
  BY TypeParts DEF IInv
<1>2. PageTypes'
  BY <1>1 DEF PageTypes, page, Held
<1>3. TicksInv' /\ ListsInv'
  BY <1>1 DEF TicksInv, ListsInv, page
<1>4. QED
  BY <1>2, <1>3

LEMMA Counted ==
    ASSUME IInv, \/ Gesture \/ Fault \/ UNCHANGED counts
    PROVE  gestures' \in 0..MaxGestures /\ faults' \in 0..MaxFaults
<1>1. /\ gestures \in 0..MaxGestures /\ faults \in 0..MaxFaults
      /\ MaxGestures \in Nat /\ MaxFaults \in Nat
  BY PageAssumption DEF IInv, TypeOK
<1>2. QED
  BY <1>1 DEF Gesture, Fault, Bounded, counts

LEMMA ForeignIsBoolean == IInv => foreign \in BOOLEAN
  BY DEF IInv, TypeOK

LEMMA IInvParts ==
    StoreInv' /\ PageTypes' /\ TicksInv' /\ ListsInv' /\ CurrentInv' => IInv'
  BY TypeParts DEF IInv, StoreInv

\* A request is sent, by the page or by the other device.
LEMMA SendKeeps ==
    ASSUME IInv, NEW k \in Slots, NEW kind, NEW s, Names(kind, s), Send(k, kind, s),
           \/ Gesture \/ Fault
    PROVE  IInv'
<1>1. PICK op : Replaced(k, op)
  BY SentIsReplaced
<1>2. /\ UNCHANGED <<page, added, ticked, rows>> /\ foreign' = foreign
      /\ ops[k].phase = "idle"
  BY DEF Send, history
<1>3. StoreInv'
  BY <1>1, ReplacedKeepsStore
<1>4. PageTypes' /\ TicksInv' /\ ListsInv'
  BY <1>2, Counted, ForeignIsBoolean, PageStays
<1>5. AnswersStay
  BY <1>1, <1>2, ReplacedAnswers
<1>6. CurrentInv'
  BY <1>2, <1>5, CurrentStays DEF page
<1>7. QED
  BY <1>3, <1>4, <1>6, IInvParts

\* Nothing stored changes.
LEMMA StoreStays == IInv /\ UNCHANGED stored => StoreInv'
<1> SUFFICES ASSUME IInv, UNCHANGED stored PROVE StoreInv'
  OBVIOUS
<1>1. StoreInv
  BY DEF IInv
<1>2. StoredOK' /\ OpsInv'
  BY <1>1 DEF StoreInv, stored, StoredOK, OpsInv, IsOrder
<1>3. TopInv'
  BY <1>1 DEF StoreInv, stored, TopInv, Zero
<1>4. AloneInv'
  BY <1>1 DEF StoreInv, stored, AloneInv, Seen, Running
<1>5. QED
  BY <1>2, <1>3, <1>4 DEF StoreInv

LEMMA FetchingIs ==
    /\ Fetching = [phase |-> "sent", items |-> <<>>]
    /\ Fetching \in [phase : {"idle", "sent", "served", "cancelled"}, items : Held]
    /\ IsInjective(<<>>)
<1>1. Fetching = [phase |-> "sent", items |-> <<>>]
  BY DEF Fetching, Idle
<1>2. <<>> \in Held
  BY DEF Held
<1>3. IsInjective(<<>>)
  BY DEF IsInjective
<1>4. QED
  BY <1>1, <1>2, <1>3

LEMMA TurnsKeep ==
    ASSUME IInv, Turns, \/ Gesture \/ UNCHANGED counts
    PROVE  IInv'
<1>1. PICK u \in [view : Views, sort : Sorts, page : Nat \ {0}] :
         GoTo(u) /\ UNCHANGED <<stored, lists, broken, ticks, history>>
  BY DEF Turns
<1>2. PageTypes /\ TicksInv /\ ListsInv /\ CurrentInv
  BY TypeParts DEF IInv
<1>3. url' = u /\ fetch' = IF u.view = url.view THEN fetch ELSE Fetching
  BY <1>1 DEF GoTo
<1>4. Fetching \in [phase : {"idle", "sent", "served", "cancelled"}, items : Held] /\ Fetching.phase = "sent"
      /\ Fetching.items = <<>> /\ IsInjective(<<>>)
  BY FetchingIs
<1>5. StoreInv' /\ UNCHANGED <<rows, added, ops, lists, broken, ticks, ticked, foreign>>
  BY <1>1, StoreStays DEF stored, history
<1>6. PageTypes'
  BY <1>2, <1>3, <1>4, <1>5, Counted DEF PageTypes, Held
<1>7. TicksInv' /\ ListsInv'
  BY <1>2, <1>3, <1>4, <1>5 DEF TicksInv, ListsInv
<1>8. CurrentInv'
  <2>1. CASE u.view # url.view
    BY <1>3, <1>4, <2>1, CurrentWhenSent
  <2>2. CASE u.view = url.view
    <3>1. InView(url.view)' = InView(url.view)
      BY <1>3, <1>5, <2>2 DEF InView, Listing, Place, Before, Added
    <3>2. url'.view = url.view /\ fetch' = fetch
      BY <1>3, <2>2
    <3>3. QED
      BY <1>2, <1>5, <3>1, <3>2 DEF CurrentInv
  <2>3. QED
    BY <2>1, <2>2
<1>9. QED
  BY <1>5, <1>6, <1>7, <1>8, IInvParts

LEMMA TickingKeeps ==
    ASSUME IInv, Ticking, Gesture
    PROVE  IInv'
<1>1. PICK S \in SUBSET ToSet(added), T \in SUBSET ToSet(added) :
         SetTicks(S) /\ S \subseteq T /\ ticked' = [ticked EXCEPT ![url.view] = T]
  BY DEF Ticking
<1>2. PageTypes /\ TicksInv /\ ListsInv /\ CurrentInv /\ url.view \in Views
  BY TypeParts DEF IInv, PageTypes
<1>3. /\ ticks' = [view |-> url.view, rows |-> S]
      /\ UNCHANGED <<stored, url, lists, fetch, broken, foreign>>
  BY <1>1 DEF SetTicks
<1>4. StoreInv' /\ UNCHANGED <<rows, added, ops>>
  BY <1>3, StoreStays DEF stored
<1>5. PageTypes'
  BY <1>1, <1>2, <1>3, <1>4, Counted DEF PageTypes, Held
<1>6. TicksInv'
  <2>1. ticks'.view = url.view /\ ticks'.rows = S /\ ticked'[url.view] = T
    BY <1>1, <1>2, <1>3 DEF PageTypes
  <2>2. QED
    BY <1>1, <2>1 DEF TicksInv
<1>7. ListsInv'
  BY <1>2, <1>3 DEF ListsInv
<1>8. AnswersStay
  BY <1>3, <1>4 DEF AnswersStay
<1>9. CurrentInv'
  BY <1>3, <1>4, <1>8, CurrentStays
<1>10. QED
  BY <1>4, <1>5, <1>6, <1>7, <1>9, IInvParts

LEMMA VisitKeeps ==
    ASSUME IInv, Visit
    PROVE  IInv'
<1>1. Gesture
  BY DEF Visit
<1>2. CASE Sends
  BY <1>1, <1>2, SendKeeps DEF Sends
<1>3. QED
  BY <1>1, <1>2, Visits, TurnsKeep, TickingKeeps


(***************************************************************************)
(* The other steps.                                                        *)
(***************************************************************************)

LEMMA PagesOf ==
    ASSUME NEW n \in Nat \ {0}, NEW size \in Nat \ {0}
    PROVE  (n + size - 1) \div size \in Nat \ {0}
<1> DEFINE m == n + size - 1
           q == m \div size
<1>1. m \in Nat /\ m >= size /\ size > 0
  OBVIOUS
<1> HIDE DEF m
<1>2. q \in Int /\ size * q <= m /\ m < size * q + size
  BY <1>1
<1> HIDE DEF q
<1>3. q > 0
  <2>1. CASE q <= 0
    <3>1. size * q <= 0
      BY <2>1, <1>1, <1>2
    <3>2. QED
      BY <3>1, <1>1, <1>2
  <2>2. QED
    BY <2>1, <1>2
<1>4. QED
  BY <1>2, <1>3 DEF q, m

LEMMA ClampKeeps ==
    ASSUME IInv, ClampPage
    PROVE  IInv'
<1>1. Items \in Seq(ToSet(added))
  BY ItemsHeld DEF Held
<1>2. TotalPages \in Nat \ {0}
  <2>1. CASE Items = <<>>
    BY <2>1 DEF TotalPages
  <2>2. CASE Items # <<>>
    <3>1. Len(Items) \in Nat \ {0} /\ PageSize \in Nat \ {0}
      BY <1>1, <2>2, PageAssumption
    <3>2. QED
      BY <2>2, <3>1, PagesOf DEF TotalPages
  <2>3. QED
    BY <2>1, <2>2
<1>3. [url EXCEPT !.page = TotalPages] \in [view : Views, sort : Sorts, page : Nat \ {0}]
  BY <1>2 DEF IInv, TypeOK
<1>4. Turns /\ UNCHANGED counts
  BY <1>3 DEF ClampPage, Turns
<1>5. QED
  BY <1>4, TurnsKeep

LEMMA AnsweredKeeps ==
    ASSUME IInv, NEW k \in Slots, Answered(k)
    PROVE  IInv'
<1>1. Replaced(k, NoOp)
  BY NoOpIsReplaced DEF Answered
<1>2. StoreInv'
  BY <1>1, ReplacedKeepsStore
<1>3. PageTypes /\ TicksInv /\ ListsInv
  BY TypeParts DEF IInv
<1>4. /\ fetch' = Fetching /\ UNCHANGED <<rows, added, arranged, url, lists, broken, counts, foreign>>
  BY DEF Answered, Invalidated
<1>5. gestures' \in 0..MaxGestures /\ faults' \in 0..MaxFaults
  BY <1>4, Counted
<1>6. /\ ticks' \in [view : Views \cup {"none"}, rows : SUBSET ToSet(added)]
      /\ ticked' \in [Views -> SUBSET ToSet(added)] /\ TicksInv'
  <2>1. CASE k = "batch"
    <3>1. ticks' = [view |-> ops[k].view, rows |-> {}] /\ ticked' = [ticked EXCEPT ![ops[k].view] = {}]
      BY <2>1 DEF Answered
    <3>2. ops[k].view \in Views
      BY Stored DEF IInv, Op
    <3>3. QED
      BY <3>1, <3>2, <1>3 DEF PageTypes, TicksInv
  <2>2. CASE k # "batch"
    <3>1. UNCHANGED <<ticks, ticked>>
      BY <2>2 DEF Answered
    <3>2. QED
      BY <3>1, <1>3 DEF PageTypes, TicksInv
  <2>3. QED
    BY <2>1, <2>2
<1>7. PageTypes'
  BY <1>3, <1>4, <1>5, <1>6, FetchingIs DEF PageTypes, Held
<1>8. ListsInv'
  <2>1. fetch'.items = <<>> /\ lists' = lists
    BY <1>4, FetchingIs
  <2>2. QED
    BY <1>3, <2>1, FetchingIs DEF ListsInv
<1>9. CurrentInv'
  BY <1>4, FetchingIs, CurrentWhenSent
<1>10. QED
  BY <1>2, <1>6, <1>7, <1>8, <1>9, IInvParts

LEMMA FailedKeeps ==
    ASSUME IInv, NEW k \in Slots, Failed(k)
    PROVE  IInv'
<1>1. Replaced(k, NoOp)
  BY NoOpIsReplaced DEF Failed
<1>2. StoreInv'
  BY <1>1, ReplacedKeepsStore
<1>3. UNCHANGED <<rows, added, arranged, page, counts, ticked>> /\ foreign' = foreign
  BY DEF Failed, history
<1>4. PageTypes' /\ TicksInv' /\ ListsInv'
  BY <1>3, Counted, ForeignIsBoolean, PageStays
<1>5. k = "device" \/ ops[k].phase # "ok"
  BY DEF Failed
<1>6. AnswersStay
  BY <1>1, <1>3, <1>5, ReplacedAnswers
<1>7. CurrentInv'
  BY <1>3, <1>6, CurrentStays DEF page
<1>8. QED
  BY <1>2, <1>4, <1>7, IInvParts

LEMMA LoseKeeps ==
    ASSUME IInv, NEW k \in Slots, Lose(k)
    PROVE  IInv'
<1>1. Replaced(k, Ended(ops[k], "refused"))
  BY LostIsReplaced
<1>2. StoreInv'
  BY <1>1, ReplacedKeepsStore
<1>3. /\ UNCHANGED <<rows, added, arranged, page, ticked>> /\ Fault
      /\ foreign' = (foreign \/ ops[k].phase = "ok")
  BY DEF Lose
<1>4. foreign' \in BOOLEAN /\ (foreign => foreign') /\ (ops[k].phase # "ok" \/ foreign')
  BY <1>3, ForeignIsBoolean
<1>5. PageTypes' /\ TicksInv' /\ ListsInv'
  BY <1>3, <1>4, Counted, PageStays
<1>6. AnswersStay
  BY <1>1, <1>4, ReplacedAnswers
<1>7. CurrentInv'
  BY <1>3, <1>6, CurrentStays DEF page
<1>8. QED
  BY <1>2, <1>5, <1>7, IInvParts

LEMMA OtherDeviceKeeps ==
    ASSUME IInv, OtherDevice
    PROVE  IInv'
<1>1. Fault
  BY DEF OtherDevice
<1>2. "device" \in Slots
  BY SlotsAre
<1>3. PICK kind, s : Names(kind, s) /\ Send("device", kind, s)
  BY DeviceSends
<1>4. QED
  BY <1>1, <1>2, <1>3, SendKeeps

LEMMA PollKeeps ==
    ASSUME IInv, Poll
    PROVE  IInv'
<1>1. fetch' = Fetching /\ UNCHANGED <<stored, url, lists, broken, ticks, counts, history>>
  BY DEF Poll
<1>2. StoreInv' /\ UNCHANGED <<rows, added, ticked, foreign>>
  BY <1>1, StoreStays DEF stored, history
<1>3. PageTypes /\ TicksInv /\ ListsInv
  BY TypeParts DEF IInv
<1>4. PageTypes'
  BY <1>1, <1>2, <1>3, Counted, FetchingIs DEF PageTypes, Held
<1>5. TicksInv'
  BY <1>1, <1>2, <1>3 DEF TicksInv
<1>6. ListsInv'
  <2>1. fetch'.items = <<>> /\ lists' = lists
    BY <1>1, FetchingIs
  <2>2. QED
    BY <1>3, <2>1, FetchingIs DEF ListsInv
<1>7. CurrentInv'
  BY <1>1, FetchingIs, CurrentWhenSent
<1>8. QED
  BY <1>2, <1>4, <1>5, <1>6, <1>7, IInvParts

LEMMA ServeListKeeps ==
    ASSUME IInv, ServeList
    PROVE  IInv'
<1> DEFINE s == InView(url.view)
<1>1. fetch' = [phase |-> "served", items |-> s] /\ foreign' = FALSE
      /\ UNCHANGED <<stored, url, lists, broken, ticks, counts, ticked>>
  BY DEF ServeList
<1>2. s \in Held /\ IsInjective(s)
  BY InViewHeld
<1>3. s' = s
  BY <1>1 DEF InView, Listing, Place, Before, Added, stored
<1> HIDE DEF s
<1>4. StoreInv' /\ UNCHANGED <<rows, added>>
  BY <1>1, StoreStays DEF stored
<1>5. PageTypes /\ TicksInv /\ ListsInv
  BY TypeParts DEF IInv
<1>6. PageTypes'
  BY <1>1, <1>2, <1>4, <1>5, Counted DEF PageTypes, Held
<1>7. TicksInv'
  BY <1>1, <1>5 DEF TicksInv
<1>8. ListsInv'
  BY <1>1, <1>2, <1>5 DEF ListsInv
<1>9. CurrentInv'
  BY <1>1, <1>3 DEF CurrentInv, s
<1>10. QED
  BY <1>4, <1>6, <1>7, <1>8, <1>9, IInvParts

LEMMA ReceiveListKeeps ==
    ASSUME IInv, ReceiveList
    PROVE  IInv'
<1>1. /\ fetch.phase = "served"
      /\ lists' = [lists EXCEPT ![url.view] = fetch.items] /\ fetch' = Idle
      /\ broken' = broken \ {url.view}
      /\ UNCHANGED <<stored, url, ticks, counts, history>>
  BY DEF ReceiveList
<1>2. StoreInv' /\ UNCHANGED <<rows, added, ops, ticked, foreign>>
  BY <1>1, StoreStays DEF stored, history
<1>3. PageTypes /\ TicksInv /\ ListsInv /\ CurrentInv
  BY TypeParts DEF IInv
<1>4. Idle \in [phase : {"idle", "sent", "served", "cancelled"}, items : Held] /\ Idle.phase = "idle"
      /\ Idle.items = <<>>
  BY DEF Idle, Held
<1>5. fetch.items \in Held /\ url.view \in Views /\ lists \in [Views -> Held \cup {Unknown}]
  BY <1>3 DEF PageTypes
<1>6. lists' \in [Views -> Held \cup {Unknown}]
  BY <1>1, <1>5
<1>7. PageTypes'
  BY <1>1, <1>2, <1>3, <1>4, <1>6, Counted DEF PageTypes, Held
<1>8. TicksInv'
  BY <1>1, <1>2, <1>3 DEF TicksInv
<1>9. ListsInv'
  BY <1>1, <1>3, <1>4, <1>5, FetchingIs DEF ListsInv
<1>10. CurrentInv'
  <2>1. InView(url.view)' = InView(url.view)
    BY <1>1, <1>2 DEF InView, Listing, Place, Before, Added
  <2>2. lists'[url'.view] = fetch.items /\ fetch'.phase = "idle"
    BY <1>1, <1>4, <1>5
  <2>3. CASE ~ foreign' /\ \A k \in PageSlots : ops'[k].phase # "ok"
    <3>1. fetch.items = InView(url.view)
      BY <1>1, <1>2, <1>3, <2>3 DEF CurrentInv
    <3>2. QED
      BY <2>1, <2>2, <3>1 DEF CurrentInv
  <2>4. CASE ~ (~ foreign' /\ \A k \in PageSlots : ops'[k].phase # "ok")
    BY <2>4 DEF CurrentInv
  <2>5. QED
    BY <2>3, <2>4
<1>11. QED
  BY <1>2, <1>7, <1>8, <1>9, <1>10, IInvParts

\* A fetch that is cancelled or fails leaves the list shown as it was.
LEMMA StoppedKeeps ==
    ASSUME IInv, NEW phase \in {"idle", "cancelled"}, fetch' = [phase |-> phase, items |-> <<>>],
           broken' \subseteq Views, phase = "idle" => url.view \in broken',
           \/ Fault \/ UNCHANGED counts, UNCHANGED <<stored, url, lists, ticks, history>>
    PROVE  IInv'
<1>1. StoreInv' /\ UNCHANGED <<rows, added, ticked, foreign>>
  BY StoreStays DEF stored, history
<1>2. PageTypes /\ TicksInv /\ ListsInv
  BY TypeParts DEF IInv
<1>3. <<>> \in Held /\ IsInjective(<<>>)
  BY FetchingIs
<1>4. PageTypes'
  BY <1>1, <1>2, <1>3, Counted DEF PageTypes, Held
<1>5. TicksInv'
  BY <1>1, <1>2 DEF TicksInv
<1>6. ListsInv'
  BY <1>2, <1>3 DEF ListsInv
<1>7. CurrentInv'
  BY DEF CurrentInv
<1>8. QED
  BY <1>1, <1>4, <1>5, <1>6, <1>7, IInvParts

LEMMA HideKeeps ==
    ASSUME IInv, Hide
    PROVE  IInv'
<1>1. broken \subseteq Views
  BY DEF IInv, TypeOK
<1>2. fetch' = [phase |-> "cancelled", items |-> <<>>]
  BY DEF Hide, Idle
<1>3. QED
  BY <1>1, <1>2, StoppedKeeps DEF Hide

LEMMA LoseListKeeps ==
    ASSUME IInv, LoseList
    PROVE  IInv'
<1>1. broken \subseteq Views /\ url.view \in Views
  BY DEF IInv, TypeOK
<1>2. fetch' = [phase |-> "idle", items |-> <<>>] /\ broken' = broken \cup {url.view}
  BY DEF LoseList, Idle
<1>3. QED
  BY <1>1, <1>2, StoppedKeeps DEF LoseList

\* What a step of the server may have done: only a commit that is reported
\* changes what is stored.
Committing(k) == CommitCreate(k) \/ CommitDelete(k) \/ CommitReorder(k)
Moves(k) ==
    /\ ops[k].phase \in {"sent", "read", "flushed"}
    /\ \A j \in Slots : j # k => ops'[j].phase = ops[j].phase
    /\ \/ ops'[k].phase # "ok" /\ UNCHANGED <<rows, added>>
       \/ ops'[k].phase = "ok" /\ Committing(k)
    /\ ToSet(added) \subseteq ToSet(added')

LEMMA RefuseMoves ==
    ASSUME StoreInv, NEW k \in Slots, ops[k].phase \in {"sent", "read", "flushed"}, Refuse(k)
    PROVE  Moves(k)
<1>1. ops[k] \in Op /\ ops[k].kind # "none" /\ ops \in [Slots -> Op]
  BY Stored DEF OpOK, StoreInv, OpsInv
<1>2. ops' = [ops EXCEPT ![k] = Ended(ops[k], "refused")] /\ UNCHANGED <<rows, added>>
  BY DEF Refuse, Ends, Ended
<1>3. Ended(ops[k], "refused").phase = "refused"
  BY <1>1, EndedIsOp
<1>4. ops'[k].phase = "refused" /\ \A j \in Slots : j # k => ops'[j] = ops[j]
  BY <1>1, <1>2, <1>3
<1>5. QED
  BY <1>2, <1>4 DEF Moves

LEMMA OkMoves ==
    ASSUME StoreInv, NEW k \in Slots, ops[k].phase \in {"sent", "read", "flushed"}, Ends(k, "ok"),
           Committing(k), ToSet(added) \subseteq ToSet(added')
    PROVE  Moves(k)
<1>1. ops[k] \in Op /\ ops[k].kind # "none" /\ ops \in [Slots -> Op]
  BY Stored DEF OpOK, StoreInv, OpsInv
<1>2. ops' = [ops EXCEPT ![k] = Ended(ops[k], "ok")]
  BY DEF Ends, Ended
<1>3. Ended(ops[k], "ok").phase = "ok"
  BY <1>1, EndedIsOp
<1>4. ops'[k].phase = "ok" /\ \A j \in Slots : j # k => ops'[j] = ops[j]
  BY <1>1, <1>2, <1>3
<1>5. QED
  BY <1>4 DEF Moves

LEMMA ServeMoves ==
    ASSUME StoreInv, NEW k \in Slots, Read(k) \/ Flush(k) \/ Commit(k)
    PROVE  Moves(k)
<1>1. ops[k] \in Op /\ ops[k].kind # "none" /\ ops \in [Slots -> Op] /\ added \in Seq(Rows)
  BY Stored DEF OpOK, StoreInv, OpsInv, Read, Flush, Commit, CommitCreate, CommitDelete,
     CommitReorder, Deadlock, Running
<1>2. ASSUME Read(k) PROVE Moves(k)
  <2>1. CASE Accepts(ops[k])
    <3> DEFINE others == \E j \in Slots : Running(j)
    <3>1. /\ ops[k].phase = "sent" /\ UNCHANGED <<rows, added, arranged>>
          /\ ops' = [j \in Slots |->
                IF j = k THEN [ops[k] EXCEPT !.phase = "read", !.loaded = rows, !.alone = ~others]
                ELSE [ops[j] EXCEPT !.alone = @ /\ ~Running(j)]]
      BY <1>2, <2>1 DEF Read
    <3> HIDE DEF others
    <3>2. ops'[k].phase = "read"
      BY <1>1, <3>1 DEF Op
    <3>3. ASSUME NEW j \in Slots, j # k PROVE ops'[j].phase = ops[j].phase
      <4> DEFINE b == ops[j].alone /\ ~Running(j)
      <4>1. ops[j] \in Op
        BY Stored
      <4>2. ops'[j] = [ops[j] EXCEPT !.alone = b]
        BY <3>1, <3>3
      <4> HIDE DEF b
      <4>3. QED
        BY <4>1, <4>2 DEF Op
    <3>4. QED
      BY <3>1, <3>2, <3>3 DEF Moves
  <2>2. CASE ~ Accepts(ops[k])
    BY <1>2, <2>2, RefuseMoves DEF Read, Refuse
  <2>3. QED
    BY <2>1, <2>2
<1>3. ASSUME Flush(k) PROVE Moves(k)
  <2> DEFINE left == Restrict(rows, DOMAIN rows \ ToSet(ops[k].items))
  <2>1. /\ ops[k].phase = "read" /\ UNCHANGED <<rows, added>>
        /\ ops' = [ops EXCEPT ![k].phase = "flushed", ![k].loaded = left]
    BY <1>3 DEF Flush
  <2> HIDE DEF left
  <2>2. ops' = [ops EXCEPT ![k] = [ops[k] EXCEPT !.phase = "flushed", !.loaded = left]]
    BY <1>1, <2>1
  <2>3. ops'[k].phase = "flushed" /\ \A j \in Slots : j # k => ops'[j] = ops[j]
    BY <1>1, <2>2 DEF Op
  <2>4. QED
    BY <2>1, <2>3 DEF Moves
<1>4. ASSUME CommitCreate(k) PROVE Moves(k)
  <2>1. CASE Head(ops[k].items) \in DOMAIN rows
    BY <1>4, <2>1, RefuseMoves DEF CommitCreate
  <2>2. CASE Head(ops[k].items) \notin DOMAIN rows
    <3>1. PICK i \in Inserted(ops[k]) :
             added' = Append(added, i) /\ Ends(k, "ok") /\ ops[k].phase = "read"
      BY <1>4, <2>2 DEF CommitCreate
    <3>2. i \notin ToSet(added) /\ added \in Seq(ToSet(added)) /\ IsInjective(added)
      BY Stored DEF Inserted
    <3>3. ToSet(added) \subseteq ToSet(added')
      BY <3>1, <3>2, Appended
    <3>4. QED
      BY <1>4, <3>1, <3>3, OkMoves DEF Committing
  <2>3. QED
    BY <2>1, <2>2
<1>5. ASSUME CommitDelete(k) PROVE Moves(k)
  BY <1>5, RefuseMoves, OkMoves DEF CommitDelete, Committing
<1>6. ASSUME CommitReorder(k) PROVE Moves(k)
  BY <1>6, RefuseMoves, OkMoves DEF CommitReorder, Committing
<1>7. ASSUME Deadlock(k) PROVE Moves(k)
  BY <1>7, RefuseMoves DEF Deadlock, Running
<1>8. QED
  BY <1>2, <1>3, <1>4, <1>5, <1>6, <1>7 DEF Commit

LEMMA PageServeKeeps ==
    ASSUME IInv, Serve
    PROVE  IInv'
<1>1. StoreInv /\ StoreInv' /\ UNCHANGED <<page, counts, ticked>>
  BY ServeKeeps DEF IInv, Serve
<1>2. PICK k \in Slots : Moves(k)
  BY <1>1, ServeMoves DEF Serve, ServeStep
<1>3. /\ foreign' = (foreign \/ (ops["device"].phase # "ok" /\ ops'["device"].phase = "ok"))
      /\ "device" \in Slots
  BY SlotsAre DEF Serve
<1>4. foreign' \in BOOLEAN /\ (foreign => foreign')
  BY <1>3, ForeignIsBoolean
<1>5. PageTypes /\ TicksInv /\ ListsInv
  BY TypeParts DEF IInv
<1>6. /\ ToSet(added) \subseteq ToSet(added')
      /\ \A j \in Slots : ops[j].phase = "ok" => ops'[j].phase = "ok"
  BY <1>2 DEF Moves
<1>7. Held \subseteq Held'
  <2>1. Held = Seq(ToSet(added)) /\ Held' = Seq(ToSet(added'))
    BY DEF Held
  <2>2. \A S, T : S \subseteq T => Seq(S) \subseteq Seq(T)
    OBVIOUS
  <2>3. QED
    BY <1>6, <2>1, <2>2
<1>8. PageTypes'
  BY <1>1, <1>4, <1>5, <1>6, <1>7, Counted DEF PageTypes, page
<1>9. TicksInv' /\ ListsInv'
  BY <1>1, <1>5 DEF TicksInv, ListsInv, page
<1>10. CurrentInv'
  <2>1. CASE ops'[k].phase = "ok"
    <3>1. foreign' \/ k \in PageSlots
      BY <1>2, <1>3, <2>1 DEF PageSlots, Moves
    <3>2. QED
      BY <2>1, <3>1 DEF CurrentInv
  <2>2. CASE ops'[k].phase # "ok"
    <3>1. UNCHANGED <<rows, added, url, lists, fetch, broken>>
      BY <1>1, <1>2, <2>2 DEF Moves, page
    <3>2. AnswersStay
      BY <1>4, <1>6 DEF AnswersStay, PageSlots
    <3>3. QED
      BY <3>1, <3>2, CurrentStays
  <2>3. QED
    BY <2>1, <2>2
<1>11. QED
  BY <1>1, <1>8, <1>9, <1>10, IInvParts

LEMMA NextKeeps == IInv /\ [Next]_vars => IInv'
<1> SUFFICES ASSUME IInv, [Next]_vars PROVE IInv'
  OBVIOUS
<1>1. ASSUME UNCHANGED vars PROVE IInv'
  <2>1. StoreInv' /\ UNCHANGED <<page, added, ticked, rows, ops>> /\ foreign' = foreign
    BY <1>1, StoreStays DEF vars, stored, history
  <2>2. UNCHANGED counts
    BY <1>1 DEF vars
  <2>3. PageTypes' /\ TicksInv' /\ ListsInv'
    BY <2>1, <2>2, Counted, ForeignIsBoolean, PageStays
  <2>4. AnswersStay
    BY <2>1 DEF AnswersStay
  <2>5. CurrentInv'
    BY <2>1, <2>4, CurrentStays DEF page
  <2>6. QED
    BY <2>1, <2>3, <2>5, IInvParts
<1>2. ASSUME Answer PROVE IInv'
  BY <1>2, AnsweredKeeps, FailedKeeps DEF Answer
<1>3. ASSUME NEW k \in Slots, Lose(k) PROVE IInv'
  BY <1>3, LoseKeeps
<1>4. QED
  BY <1>1, <1>2, <1>3, ClampKeeps, VisitKeeps, PageServeKeeps, PollKeeps, ServeListKeeps,
     ReceiveListKeeps, HideKeeps, LoseListKeeps, OtherDeviceKeeps DEF Next

(***************************************************************************)
(* The theorems.                                                           *)
(***************************************************************************)

LEMMA InitKeeps == Init => IInv
<1> SUFFICES ASSUME Init PROVE IInv
  OBVIOUS
<1>1. /\ Start \in Seq(Rows) /\ Start # <<>> /\ IsInjective(Start)
      /\ rows = [i \in ToSet(Start) |-> Index(Start, i) - 1]
      /\ added = Start /\ arranged = ToSet(Start) /\ ops = [k \in Slots |-> NoOp]
  BY WatchlistAssumption DEF Init, StoredInit
<1>2. Start \in Seq(ToSet(Start)) /\ Len(Start) \in Nat \ {0}
  BY <1>1, InSeqOfRange
<1>3. \A i \in ToSet(Start) : Index(Start, i) \in 1..Len(Start)
  BY <1>2, IndexAt
<1>4. Fits(added, rows)
  BY <1>1, <1>2, <1>3 DEF Fits
<1>5. OpsInv
  BY <1>1, NoOpIsOp DEF OpsInv
<1>6. StoredOK
  BY <1>1, <1>4, <1>5, StoredParts
<1>7. TopInv
  <2>1. Last(Start) \in ToSet(Start)
    BY <1>1, <1>2 DEF Last, ToSet
  <2>2. QED
    BY <1>1, <2>1 DEF TopInv
<1>8. AloneInv
  BY <1>1, NoOpIsOp DEF AloneInv, Running
<1>9. /\ url = Blank /\ lists = [v \in Views |-> Unknown] /\ fetch = Fetching /\ broken = {}
      /\ ticks = [view |-> "none", rows |-> {}] /\ gestures = 0 /\ faults = 0
      /\ ticked = [v \in Views |-> {}] /\ foreign = FALSE
  BY DEF Init, Fetching
<1>10. Blank \in [view : Views, sort : Sorts, page : Nat \ {0}]
  <2>1. 1 \in Nat \ {0}
    OBVIOUS
  <2>2. QED
    BY <2>1 DEF Blank, Views, Sorts
<1>11. PageTypes
  <2>1. lists \in [Views -> Held \cup {Unknown}] /\ ticked \in [Views -> SUBSET ToSet(added)]
    BY <1>9
  <2>2. ticks \in [view : Views \cup {"none"}, rows : SUBSET ToSet(added)]
    BY <1>9
  <2>3. gestures \in 0..MaxGestures /\ faults \in 0..MaxFaults
    BY <1>9, PageAssumption
  <2>4. foreign \in BOOLEAN
    BY <1>9
  <2>5. fetch \in [phase : {"idle", "sent", "served", "cancelled"}, items : Held]
    BY <1>9, FetchingIs
  <2>6. url \in [view : Views, sort : Sorts, page : Nat \ {0}] /\ broken \subseteq Views
    BY <1>9, <1>10
  <2>7. QED
    BY <2>1, <2>2, <2>3, <2>4, <2>5, <2>6 DEF PageTypes
<1>12. TicksInv
  BY <1>9 DEF TicksInv
<1>13. ListsInv
  BY <1>9, FetchingIs DEF ListsInv
<1>14. CurrentInv
  BY <1>9, FetchingIs DEF CurrentInv
<1>15. QED
  BY <1>5, <1>6, <1>7, <1>8, <1>11, <1>12, <1>13, <1>14, TypeParts DEF IInv, StoreInv

\* The inductive invariant: what the requests in flight have loaded, the
\* number of the row added last, the ticks and the lists, for any rows, any
\* first list, any filter and any size of a page.
THEOREM Invariant == Spec => []IInv
  BY InitKeeps, NextKeeps, PTL DEF Spec

\* Every number stored, list cached and row ticked is one of a row that was
\* added (service.py, watchlist-page.tsx).
THEOREM TypeCorrect == Spec => []TypeOK
<1>1. IInv => TypeOK
  BY DEF IInv
<1>2. QED
  BY <1>1, Invariant, PTL

\* create_watchlist_item puts its row on top, and neither the writes of a
\* commit that loaded the list before nor _normalize_user_order moves it down.
THEOREM NewStaysOnTop == Spec => []NewIsOnTop
<1>1. IInv => NewIsOnTop
  <2> SUFFICES ASSUME IInv, Last(added) \in DOMAIN rows \ arranged
               PROVE  Head(Listed) = Last(added)
    BY DEF NewIsOnTop
  <2>1. rows[Last(added)] = 0
    BY DEF IInv, StoreInv, TopInv, Zero
  <2>2. Orders(added, rows)
    BY Stored DEF IInv
  <2>3. QED
    BY <2>1, <2>2, NewestZeroIsFirst, ListedIsInRank
<1>2. QED
  BY <1>1, Invariant, PTL

\* The list shown by a page at rest is the stored one, in its order
\* (useWatchlistQuery, useInvalidateWatchlist).
THEOREM QuietIsCurrent == Spec => []QuietPageShowsWhatIsStored
<1>1. IInv => QuietPageShowsWhatIsStored
  <2> SUFFICES ASSUME IInv, Quiet, ~ foreign, lists[url.view] # Unknown
               PROVE  Items = InView(url.view)
    BY DEF QuietPageShowsWhatIsStored
  <2>1. \A k \in PageSlots : ops[k].phase # "ok"
    BY DEF Quiet
  <2>2. QED
    BY <2>1 DEF IInv, CurrentInv, Quiet, Items
<1>2. QED
  BY <1>1, Invariant, PTL

\* selectedIds holds no row the visitor ticked under another filter, also when
\* the answer to a batch deletion comes after the filter was changed.
THEOREM TicksStayInTheirView == Spec => []TicksAreOfThisView
<1>1. IInv => TicksAreOfThisView
  <2> SUFFICES ASSUME IInv PROVE TicksAreOfThisView
    OBVIOUS
  <2>1. url.view \in Views
    BY DEF IInv, TypeOK
  <2>2. QED
    BY <2>1 DEF IInv, TicksInv, TicksAreOfThisView, Ticks
<1>2. QED
  BY <1>1, Invariant, PTL

\* A request that is carried out is so by its commit.
LEMMA CommitsOnce ==
    ASSUME IInv, [Next]_vars, NEW k \in Slots, Commits(k)
    PROVE  Committing(k)
<1>1. Running(k) /\ ops'[k].phase = "ok" /\ ops \in [Slots -> Op]
  BY DEF Commits, IInv, StoreInv, OpsInv
<1>2. ASSUME NEW j \in Slots, NEW op, Replaced(j, op) PROVE FALSE
  BY <1>1, <1>2 DEF Replaced, Running
<1>3. CASE Serve
  <2>1. PICK j \in Slots : Moves(j)
    BY <1>3, ServeMoves DEF Serve, ServeStep, IInv
  <2>2. j = k
    BY <1>1, <2>1 DEF Moves, Running
  <2>3. QED
    BY <1>1, <2>1, <2>2 DEF Moves
<1>4. ASSUME ops' = ops PROVE FALSE
  BY <1>1, <1>4 DEF Running
<1>5. ASSUME NEW j \in Slots, NEW kind, NEW s, Names(kind, s), Send(j, kind, s) PROVE FALSE
  BY <1>2, <1>5, SentIsReplaced
<1>6. ASSUME Visit PROVE FALSE
  <2>1. CASE Turns
    BY <1>4, <2>1 DEF Turns, stored
  <2>2. CASE Ticking
    BY <1>4, <2>2 DEF Ticking, SetTicks, stored
  <2>3. CASE Sends
    BY <1>5, <2>3 DEF Sends
  <2>4. QED
    BY <1>6, <2>1, <2>2, <2>3, Visits
<1>7. ASSUME NEW j \in Slots, Answered(j) \/ Failed(j) PROVE FALSE
  BY <1>2, <1>7, NoOpIsReplaced DEF Answered, Failed
<1>8. ASSUME NEW j \in Slots, Lose(j) PROVE FALSE
  BY <1>2, <1>8, LostIsReplaced
<1>9. ASSUME OtherDevice PROVE FALSE
  BY <1>5, <1>9, DeviceSends, SlotsAre
<1>10. ASSUME \/ ClampPage \/ Poll \/ ServeList \/ ReceiveList \/ Hide \/ LoseList
              \/ UNCHANGED vars
       PROVE  FALSE
  BY <1>4, <1>10 DEF ClampPage, Poll, ServeList, ReceiveList, Hide, LoseList, vars, stored
<1>11. QED
  BY <1>3, <1>6, <1>7, <1>8, <1>9, <1>10 DEF Next, Answer

\* A request that no other overlapped makes of the list what it says, whatever
\* numbers earlier requests left: a creation its row and then the others, a
\* deletion the others in their order, a reordering the order it names.
THEOREM AloneIsObeyed == Spec => AloneDoesWhatItSays
<1> DEFINE A == \A k \in Slots : Commits(k) /\ ops[k].alone => Listed' = Intended(ops[k])
<1>1. IInv /\ [Next]_vars => A
  <2> SUFFICES ASSUME IInv, [Next]_vars, NEW k \in Slots, Commits(k), ops[k].alone
               PROVE  Listed' = Intended(ops[k])
    OBVIOUS
  <2>1. StoreInv /\ ops'[k].phase = "ok"
    BY DEF IInv, Commits
  <2>2. QED
    BY <2>1, CommitsOnce, CreationAlone, DeletionAlone, ReorderingAlone DEF Committing
<1>2. IInv /\ [Next]_vars => [A]_stored
  BY <1>1
<1> HIDE DEF A
<1>3. Spec => [][A]_stored
  BY <1>2, Invariant, PTL DEF Spec
<1>4. QED
  BY <1>3 DEF AloneDoesWhatItSays, A

\* _renumber leaves 0, 1, 2, ... behind a deletion or a reordering that no
\* other request overlapped, and a creation opens no gap.
THEOREM AloneMends == Spec => AloneMendsTheNumbers
<1> DEFINE A == \A k \in Slots :
          Commits(k) /\ ops[k].alone /\ (ops[k].kind = "create" => Dense) => Dense'
<1>1. IInv /\ [Next]_vars => A
  <2> SUFFICES ASSUME IInv, [Next]_vars, NEW k \in Slots, Commits(k), ops[k].alone,
                      ops[k].kind = "create" => Dense
               PROVE  Dense'
    OBVIOUS
  <2>1. StoreInv /\ ops'[k].phase = "ok" /\ Committing(k)
    BY CommitsOnce DEF IInv, Commits
  <2>2. CASE CommitCreate(k)
    <3>1. ops[k].kind = "create"
      BY <2>2 DEF CommitCreate
    <3>2. QED
      BY <2>1, <2>2, <3>1, CreationAlone
  <2>3. CASE CommitDelete(k)
    BY <2>1, <2>3, DeletionAlone
  <2>4. CASE CommitReorder(k)
    BY <2>1, <2>4, ReorderingAlone
  <2>5. QED
    BY <2>1, <2>2, <2>3, <2>4 DEF Committing
<1>2. IInv /\ [Next]_vars => [A]_stored
  BY <1>1
<1> HIDE DEF A
<1>3. Spec => [][A]_stored
  BY <1>2, Invariant, PTL DEF Spec
<1>4. QED
  BY <1>3 DEF AloneMendsTheNumbers, A
=============================================================================
