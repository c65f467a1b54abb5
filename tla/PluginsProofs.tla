----------------------------- MODULE PluginsProofs -----------------------------
(***************************************************************************)
(* What holds of what a plugin draws and does on the page (MCPlugins), for    *)
(* every value of the constants.  A behaviour of Spec is one of one of the     *)
(* instances: an inductive invariant of the instance is one of Spec while it    *)
(* is of that part, for the others leave its variables alone.                  *)
(***************************************************************************)
EXTENDS MCPlugins, FiniteSetTheorems, SequencesExt, TLAPS

(* Induction over the subsets of a finite set, and over the numbers.         *)
LEMMA SubsetInduction ==
  ASSUME NEW D, IsFiniteSet(D), NEW Good,
         \A s \in SUBSET D : (\A r \in SUBSET s : r # s => r \in Good) => s \in Good
  PROVE  SUBSET D \subseteq Good
<1> SUFFICES ASSUME NEW t \in SUBSET D, t \notin Good PROVE FALSE
  OBVIOUS
<1> DEFINE T == {s \in SUBSET D : s \notin Good}
<1>1. /\ IsWellFoundedOn(StrictSubsetOrdering(D), FiniteSubsetsOf(D)) /\ FiniteSubsetsOf(D) = SUBSET D
  BY FS_StrictSubsetOrderingWellFounded, FS_FiniteSubsetsOfFinite
<1>2. T \subseteq SUBSET D /\ T # {}
  OBVIOUS
<1>3. PICK s \in T : \A r \in T : ~(<<r, s>> \in StrictSubsetOrdering(D))
  <2> HIDE DEF T
  <2> QED BY <1>1, <1>2, WFMin
<1>4. \A r \in SUBSET s : r # s => r \in Good
  BY <1>3 DEF StrictSubsetOrdering
<1> QED BY <1>3, <1>4

LEMMA Induction == ASSUME NEW D, 0 \in D, \A n \in Nat : n \in D => n + 1 \in D PROVE Nat \subseteq D
<1> SUFFICES ASSUME NEW n \in Nat, n \notin D PROVE FALSE
  OBVIOUS
<1> DEFINE Good == {r \in SUBSET (1..n) : \A m \in 0..n : r = 1..m => m \in D}
<1>1. ASSUME NEW s \in SUBSET (1..n), \A r \in SUBSET s : r # s => r \in Good PROVE s \in Good
  <2> SUFFICES ASSUME NEW m \in 0..n, s = 1..m, m # 0 PROVE m \in D
    OBVIOUS
  <2>1. 1..(m - 1) \in SUBSET s /\ m \in s /\ m \notin 1..(m - 1) /\ m - 1 \in 0..n /\ m - 1 \in Nat
    OBVIOUS
  <2>2. 1..(m - 1) \in Good
    <3> HIDE DEF Good
    <3> QED BY <1>1, <2>1
  <2>3. m - 1 \in D
    BY <2>1, <2>2
  <2>4. (m - 1) + 1 = m
    OBVIOUS
  <2> QED BY <2>1, <2>3, <2>4
<1>2. IsFiniteSet(1..n)
  BY FS_Interval
<1>3. 1..n \in Good
  <2> HIDE DEF Good
  <2>1. \A s \in SUBSET (1..n) : (\A r \in SUBSET s : r # s => r \in Good) => s \in Good
    BY <1>1
  <2>2. SUBSET (1..n) \subseteq Good
    <3> HIDE DEF Good
    <3> DEFINE Rs == 1..n
    <3>1. IsFiniteSet(Rs) /\ \A s \in SUBSET Rs : (\A r \in SUBSET s : r # s => r \in Good) => s \in Good
      BY <1>2, <2>1
    <3> HIDE DEF Rs
    <3>2. SUBSET Rs \subseteq Good
      BY <3>1, SubsetInduction
    <3> QED BY <3>2 DEF Rs
  <2> QED BY <2>2
<1> QED BY <1>3

Sum(f, D) == SumFunctionOnSet(f, D)
First(s) == CHOOSE x \in s : TRUE
Iter(f, D) == CHOOSE g : g = [s \in SUBSET D |-> IF s = {} THEN 0 ELSE f[First(s)] + g[s \ {First(s)}]]

LEMMA SumIs == ASSUME NEW f, NEW D PROVE Sum(f, D) = Iter(f, D)[D]
  BY Zenon DEF Sum, First, SumFunctionOnSet, FoldFunctionOnSet, MapThenFoldSet, Iter

LEMMA FirstIn == ASSUME NEW s, s # {} PROVE First(s) \in s
  BY DEF First

LEMMA SumUnfolds ==
  ASSUME NEW f, NEW D, IsFiniteSet(D)
  PROVE  \A s \in SUBSET D : Sum(f, s) = IF s = {} THEN 0 ELSE f[First(s)] + Sum(f, s \ {First(s)})
<1> DEFINE Good == {s \in SUBSET D : Sum(f, s) = IF s = {} THEN 0 ELSE f[First(s)] + Sum(f, s \ {First(s)})}
<1>1. ASSUME NEW s \in SUBSET D, \A r \in SUBSET s : r # s => r \in Good PROVE s \in Good
  <2> DEFINE Whole == IF s = {} THEN 0 ELSE f[First(s)] + Sum(f, s \ {First(s)})
             h == [r \in SUBSET s |-> IF r = s THEN Whole ELSE Sum(f, r)]
             Eq(g) == [r \in SUBSET s |-> IF r = {} THEN 0 ELSE f[First(r)] + g[r \ {First(r)}]]
  <2>1. h = Eq(h)
    <3> SUFFICES ASSUME NEW r \in SUBSET s PROVE h[r] = Eq(h)[r]
      BY Zenon
    <3>1. r # {} => r \ {First(r)} \in SUBSET s /\ r \ {First(r)} # s
      BY FirstIn
    <3>2. CASE r = s
      BY <3>1, <3>2
    <3>3. CASE r # s
      BY <1>1, <3>1, <3>3
    <3> QED BY <3>2, <3>3
  <2>2. Iter(f, s) = Eq(Iter(f, s))
    <3> HIDE DEF h
    <3> QED BY <2>1, Zenon DEF Iter
  <2>3. ASSUME NEW g, g = Eq(g) PROVE \A r \in SUBSET s : g[r] = h[r]
    <3> DEFINE Q == {r \in SUBSET s : g[r] = h[r]}
    <3>1. ASSUME NEW r \in SUBSET s, \A q \in SUBSET r : q # r => q \in Q PROVE r \in Q
      <4>1. g[r] = Eq(g)[r] /\ h[r] = Eq(h)[r]
        <5> HIDE DEF h
        <5> QED BY <2>1, <2>3, Zenon
      <4>2. r # {} => r \ {First(r)} \in SUBSET r /\ r \ {First(r)} # r
        BY FirstIn
      <4> HIDE DEF h
      <4> QED BY <3>1, <4>1, <4>2
    <3>2. IsFiniteSet(s)
      BY FS_Subset
    <3> HIDE DEF Q
    <3>3. SUBSET s \subseteq Q
      BY <3>1, <3>2, SubsetInduction
    <3> QED BY <3>3 DEF Q
  <2>4. Sum(f, s) = Whole
    BY <2>2, <2>3, SumIs
  <2> QED BY <2>4
<1> HIDE DEF Good
<1>2. SUBSET D \subseteq Good
  BY <1>1, SubsetInduction
<1> QED BY <1>2 DEF Good

LEMMA SumTyped ==
  ASSUME NEW D, IsFiniteSet(D), NEW f, \A x \in D : f[x] \in Int
  PROVE  \A s \in SUBSET D : Sum(f, s) \in Int
<1> DEFINE Good == {s \in SUBSET D : Sum(f, s) \in Int}
<1>1. ASSUME NEW s \in SUBSET D, \A r \in SUBSET s : r # s => r \in Good PROVE s \in Good
  <2>1. Sum(f, s) = IF s = {} THEN 0 ELSE f[First(s)] + Sum(f, s \ {First(s)})
    BY SumUnfolds
  <2>2. s # {} => First(s) \in s
    BY FirstIn
  <2>3. s # {} => s \ {First(s)} \in Good
    BY <1>1, <2>2
  <2> QED BY <2>1, <2>2, <2>3
<1> HIDE DEF Good
<1>2. SUBSET D \subseteq Good
  BY <1>1, SubsetInduction
<1> QED BY <1>2 DEF Good

(* Whichever is taken out, the sum is what it was and the rest. *)
LEMMA SumTakesAny ==
  ASSUME NEW D, IsFiniteSet(D), NEW f, \A x \in D : f[x] \in Int
  PROVE  \A s \in SUBSET D : \A x \in s : Sum(f, s) = f[x] + Sum(f, s \ {x})
<1> DEFINE Good == {s \in SUBSET D : \A x \in s : Sum(f, s) = f[x] + Sum(f, s \ {x})}
<1>1. ASSUME NEW s \in SUBSET D, \A r \in SUBSET s : r # s => r \in Good PROVE s \in Good
  <2> SUFFICES ASSUME NEW x \in s PROVE Sum(f, s) = f[x] + Sum(f, s \ {x})
    OBVIOUS
  <2> DEFINE c == First(s)
  <2>0. c \in s
    BY FirstIn
  <2>1. Sum(f, s) = f[c] + Sum(f, s \ {c})
    BY SumUnfolds
  <2> HIDE DEF c
  <2>2. CASE x = c
    BY <2>1, <2>2
  <2>3. CASE x # c
    <3>1. s \ {c} \in Good /\ s \ {x} \in Good
      BY <1>1, <2>0, <2>3
    <3>2. Sum(f, s \ {c}) = f[x] + Sum(f, (s \ {c}) \ {x}) /\ Sum(f, s \ {x}) = f[c] + Sum(f, (s \ {x}) \ {c})
      BY <2>0, <2>3, <3>1
    <3>3. (s \ {c}) \ {x} = (s \ {x}) \ {c}
      OBVIOUS
    <3>4. Sum(f, (s \ {x}) \ {c}) \in Int /\ f[x] \in Int /\ f[c] \in Int
      BY <2>0, SumTyped
    <3>5. Sum(f, s \ {x}) = f[c] + Sum(f, (s \ {c}) \ {x})
      BY <3>2, <3>3, Zenon
    <3>6. Sum(f, (s \ {c}) \ {x}) \in Int
      BY <3>3, <3>4, Zenon
    <3> DEFINE y == Sum(f, (s \ {c}) \ {x})  u == f[c]  v == f[x]
    <3>7. Sum(f, s) = u + (v + y) /\ Sum(f, s \ {x}) = u + y /\ y \in Int /\ u \in Int /\ v \in Int
      BY <2>1, <3>2, <3>4, <3>5, <3>6
    <3> HIDE DEF Good, y, u
    <3> QED BY <3>7
  <2> QED BY <2>2, <2>3
<1> HIDE DEF Good
<1>2. SUBSET D \subseteq Good
  BY <1>1, SubsetInduction
<1> QED BY <1>2 DEF Good

LEMMA SumCongruent ==
  ASSUME NEW D, IsFiniteSet(D), NEW f, NEW g, \A x \in D : g[x] = f[x]
  PROVE  Sum(f, D) = Sum(g, D)
<1> DEFINE Good == {s \in SUBSET D : Sum(f, s) = Sum(g, s)}
<1>1. ASSUME NEW s \in SUBSET D, \A r \in SUBSET s : r # s => r \in Good PROVE s \in Good
  <2>1. /\ Sum(f, s) = IF s = {} THEN 0 ELSE f[First(s)] + Sum(f, s \ {First(s)})
        /\ Sum(g, s) = IF s = {} THEN 0 ELSE g[First(s)] + Sum(g, s \ {First(s)})
    BY SumUnfolds
  <2>2. s # {} => First(s) \in s /\ s \ {First(s)} \in Good
    BY <1>1, FirstIn
  <2> QED BY <2>1, <2>2
<1> HIDE DEF Good
<1>2. SUBSET D \subseteq Good
  BY <1>1, SubsetInduction
<1> QED BY <1>2 DEF Good

(******************************* the cache ********************************)
(* What a store holds: each key once, as it was used, of what fits.          *)
Fits(d) == C!SizeOf(d.entries) <= Capacity \/ Len(d.order) = 1
Sound(d) == d \in Data /\ IsInjective(d.order) /\ ToSet(d.order) = DOMAIN d.entries /\ Fits(d)

(* The library's operators, by the names the instance has for them. *)
LEMMA CacheNames ==
  ASSUME NEW s, NEW k
  PROVE  /\ C!ToSet(s) = ToSet(s) /\ C!IsInjective(s) = IsInjective(s)
         /\ C!RemoveFirst(s, k) = RemoveFirst(s, k) /\ C!SizeOf(s) = Sum(s, DOMAIN s)
<1>1. C!ToSet(s) = ToSet(s)
  BY DEF C!ToSet, ToSet
<1>2. C!IsInjective(s) = IsInjective(s)
  BY DEF C!IsInjective, IsInjective
<1>3. C!RemoveFirst(s, k) = RemoveFirst(s, k)
  <2>1. C!SelectInSeq(s, LAMBDA v : v = k) = SelectInSeq(s, LAMBDA v : v = k)
    BY Zenon DEF C!SelectInSeq, SelectInSeq, C!Min, Min
  <2> QED BY <2>1, Zenon DEF C!RemoveFirst, RemoveFirst, C!RemoveAt, RemoveAt
<1>4. C!SizeOf(s) = Sum(s, DOMAIN s)
  BY Zenon DEF C!SizeOf, C!SumFunction, C!SumFunctionOnSet, C!FoldFunctionOnSet, C!MapThenFoldSet,
     Sum, SumFunctionOnSet, FoldFunctionOnSet, MapThenFoldSet
<1> QED BY <1>1, <1>2, <1>3, <1>4

LEMMA SizeIs == ASSUME NEW e PROVE C!SizeOf(e) = Sum(e, DOMAIN e)
  BY CacheNames

LEMMA LeastIsThere == ASSUME NEW s, s \subseteq Nat, s # {} PROVE \E m \in s : \A i \in s : m <= i
<1> DEFINE Good == {n \in Nat : (\E i \in s : i <= n) => \E m \in s : \A i \in s : m <= i}
<1>1. 0 \in Good
  OBVIOUS
<1>2. ASSUME NEW n \in Nat, n \in Good PROVE n + 1 \in Good
  <2>1. CASE \E i \in s : i <= n
    BY <1>2, <2>1
  <2>2. CASE \A i \in s : ~(i <= n)
    <3>1. \A i \in s : n + 1 <= i
      BY <2>2
    <3>2. (\E i \in s : i <= n + 1) => n + 1 \in s
      BY <3>1
    <3> QED BY <3>1, <3>2
  <2> QED BY <2>1, <2>2
<1> HIDE DEF Good
<1>3. Nat \subseteq Good
  BY <1>1, <1>2, Induction
<1>4. PICK n \in s : TRUE
  OBVIOUS
<1>5. n \in Good /\ n <= n
  BY <1>3
<1> QED BY <1>5 DEF Good

LEMMA SetOfSequence == ASSUME NEW A, NEW s \in Seq(A) PROVE IsFiniteSet(ToSet(s)) /\ ToSet(s) \subseteq A
<1>1. IsFiniteSet(1..Len(s)) /\ DOMAIN s = 1..Len(s)
  BY FS_Interval
<1>2. ToSet(s) = {s[i] : i \in 1..Len(s)}
  BY <1>1 DEF ToSet
<1> DEFINE I == 1..Len(s)  f == [i \in I |-> s[i]]
<1>3. IsFiniteSet({f[i] : i \in I})
  <2>1. IsFiniteSet(I) /\ f \in Surjection(I, {f[i] : i \in I})
    BY <1>1 DEF Surjection
  <2> HIDE DEF I, f
  <2> QED BY <2>1, FS_Surjection
<1>4. {f[i] : i \in I} = ToSet(s)
  BY <1>2
<1>5. ToSet(s) \subseteq A
  BY <1>2
<1> QED BY <1>3, <1>4, <1>5

LEMMA EmptySum == ASSUME NEW e PROVE Sum(e, {}) = 0
  BY SumUnfolds, FS_EmptySet

(* An empty store is sound, and so is one of a key less. *)
LEMMA EmptyIsSound == Sound(C!Empty)
<1>1. C!Empty.order = <<>> /\ DOMAIN C!Empty.entries = {} /\ C!Empty.entries = [k \in {} |-> 0]
  BY DEF C!Empty
<1>2. C!Empty \in Data
  <2>1. [k \in {} |-> 0] \in [{} -> Nat] /\ <<>> \in Seq(CacheKeys)
    OBVIOUS
  <2>2. [k \in {} |-> 0] \in UNION {[K -> Nat] : K \in SUBSET CacheKeys}
    BY <2>1
  <2> QED BY <2>1, <2>2 DEF Data, C!Empty
<1>3. Fits(C!Empty)
  BY <1>1, SizeIs, EmptySum, SizesAssumption DEF Fits
<1> QED BY <1>1, <1>2, <1>3 DEF Sound, IsInjective, ToSet

LEMMA RemovedFirst ==
  ASSUME NEW A, NEW s \in Seq(A), IsInjective(s), NEW k
  PROVE  /\ RemoveFirst(s, k) \in Seq(A) /\ IsInjective(RemoveFirst(s, k))
         /\ ToSet(RemoveFirst(s, k)) = ToSet(s) \ {k}
<1>1. CASE \E i \in 1..Len(s) : s[i] = k
  <2> DEFINE at == {i \in 1..Len(s) : s[i] = k}  n == SelectInSeq(s, LAMBDA v : v = k)
             a == SubSeq(s, 1, n - 1)  b == SubSeq(s, n + 1, Len(s))  t == a \o b
  <2>1. n \in 1..Len(s) /\ s[n] = k
    <3>1. PICK i \in 1..Len(s) : s[i] = k
      BY <1>1
    <3>2. at = {i}
      BY <3>1 DEF IsInjective
    <3>3. n = Min(at)
      BY <3>2 DEF SelectInSeq
    <3>4. n = i
      <4>1. i \in {i} /\ \A y \in {i} : i <= y
        OBVIOUS
      <4> QED BY <3>2, <3>3, <4>1 DEF Min
    <3> QED BY <3>1, <3>4
  <2>2. RemoveFirst(s, k) = t
    BY <1>1 DEF RemoveFirst, RemoveAt
  <2> HIDE DEF n
  <2>A. a \in Seq(A) /\ Len(a) = n - 1 /\ \A i \in 1..(n - 1) : a[i] = s[i]
    BY <2>1
  <2>B. b \in Seq(A) /\ Len(b) = Len(s) - n /\ \A i \in 1..(Len(s) - n) : b[i] = s[i + n]
    BY <2>1
  <2> HIDE DEF a, b
  <2>C. t \in Seq(A) /\ Len(t) = Len(a) + Len(b)
    BY <2>A, <2>B DEF t
  <2>3. t \in Seq(A) /\ Len(t) = Len(s) - 1
    BY <2>1, <2>A, <2>B, <2>C
  <2>4. \A i \in 1..(Len(s) - 1) : t[i] = IF i < n THEN s[i] ELSE s[i + 1]
    BY <2>1, <2>A, <2>B DEF t
  <2> HIDE DEF t
  <2>5. IsInjective(t)
    <3> DEFINE p(i) == IF i < n THEN i ELSE i + 1
    <3>1. /\ DOMAIN t = 1..(Len(s) - 1) /\ DOMAIN s = 1..Len(s)
          /\ \A i \in 1..(Len(s) - 1) : t[i] = s[p(i)] /\ p(i) \in 1..Len(s)
      BY <2>1, <2>3, <2>4
    <3>2. \A i, j \in 1..(Len(s) - 1) : p(i) = p(j) => i = j
      BY <2>1
    <3> HIDE DEF p
    <3> QED BY <3>1, <3>2 DEF IsInjective
  <2>6. ToSet(t) \subseteq ToSet(s) \ {k}
    BY <2>1, <2>3, <2>4 DEF ToSet, IsInjective
  <2>7. ASSUME NEW x \in ToSet(s) \ {k} PROVE x \in ToSet(t)
    <3>1. PICK i \in 1..Len(s) : s[i] = x
      BY DEF ToSet
    <3>2. i # n
      BY <2>1, <3>1
    <3>3. CASE i < n
      BY <2>1, <2>3, <2>4, <3>1, <3>3 DEF ToSet
    <3>4. CASE i > n
      <4>1. i - 1 \in 1..(Len(s) - 1) /\ t[i - 1] = s[(i - 1) + 1] /\ (i - 1) + 1 = i
        BY <2>1, <2>4, <3>4
      <4> QED BY <2>3, <3>1, <4>1 DEF ToSet
    <3> QED BY <2>1, <3>2, <3>3, <3>4
  <2> QED BY <2>2, <2>3, <2>5, <2>6, <2>7
<1>2. CASE ~\E i \in 1..Len(s) : s[i] = k
  BY <1>2 DEF RemoveFirst, ToSet
<1> QED BY <1>1, <1>2

LEMMA DropIsSound ==
  ASSUME NEW d, Sound(d), NEW k \in DOMAIN d.entries
  PROVE  Sound([order |-> RemoveFirst(d.order, k), entries |-> C!Drop(d.entries, k)])
<1> DEFINE o == RemoveFirst(d.order, k)  e == C!Drop(d.entries, k)  K == DOMAIN d.entries
<1>1. d.order \in Seq(CacheKeys) /\ K \in SUBSET CacheKeys /\ d.entries \in [K -> Nat] /\ ToSet(d.order) = K /\ IsInjective(d.order)
  BY DEF Sound, Data
<1>2. o \in Seq(CacheKeys) /\ IsInjective(o) /\ ToSet(o) = K \ {k}
  BY <1>1, RemovedFirst
<1>3. DOMAIN e = K \ {k} /\ e \in [K \ {k} -> Nat] /\ \A x \in K \ {k} : e[x] = d.entries[x]
  BY <1>1 DEF C!Drop
<1>4. IsFiniteSet(K) /\ IsFiniteSet(K \ {k})
  BY <1>1, SetOfSequence, FS_Subset
<1>5. C!SizeOf(d.entries) = d.entries[k] + Sum(d.entries, K \ {k}) /\ Sum(d.entries, K \ {k}) \in Int /\ d.entries[k] \in Nat
  <2>1. \A x \in K : d.entries[x] \in Int
    BY <1>1
  <2>2. C!SizeOf(d.entries) = Sum(d.entries, K)
    BY SizeIs
  <2>3. Sum(d.entries, K) = d.entries[k] + Sum(d.entries, K \ {k})
    <3> HIDE DEF K
    <3>1. k \in K
      BY DEF K
    <3> QED BY <1>4, <2>1, <3>1, SumTakesAny
  <2>4. Sum(d.entries, K \ {k}) \in Int
    <3> HIDE DEF K
    <3> QED BY <1>4, <2>1, SumTyped
  <2> QED BY <1>1, <2>2, <2>3, <2>4
<1>6. C!SizeOf(e) = Sum(d.entries, K \ {k})
  <2>1. C!SizeOf(e) = Sum(e, K \ {k})
    BY <1>3, SizeIs
  <2>2. \A x \in K \ {k} : d.entries[x] = e[x]
    BY <1>3
  <2> HIDE DEF e, K
  <2>3. Sum(e, K \ {k}) = Sum(d.entries, K \ {k})
    BY <1>4, <2>2, SumCongruent
  <2> QED BY <2>1, <2>3
<1>7. C!SizeOf(e) <= Capacity
  <2>1. CASE C!SizeOf(d.entries) <= Capacity
    <3> HIDE DEF e, K
    <3> QED BY <1>5, <1>6, <2>1, SizesAssumption
  <2>2. CASE Len(d.order) = 1
    <3>1. K = {k}
      BY <1>1, <2>2 DEF ToSet
    <3>2. K \ {k} = {}
      BY <3>1
    <3> HIDE DEF e, K
    <3> QED BY <1>6, <3>2, EmptySum, SizesAssumption
  <2> QED BY <2>1, <2>2 DEF Sound, Fits
<1> HIDE DEF o, e
<1>8. [order |-> o, entries |-> e] \in Data
  <2>1. e \in UNION {[L -> Nat] : L \in SUBSET CacheKeys}
    BY <1>1, <1>3
  <2> QED BY <1>2, <2>1 DEF Data
<1>9. Sound([order |-> o, entries |-> e])
  BY <1>2, <1>3, <1>7, <1>8 DEF Sound, Fits
<1> QED BY <1>9 DEF o, e

(* Whatever was set, what is left when the oldest are gone is sound. *)
LEMMA EvictIsSound ==
  ASSUME NEW o \in Seq(CacheKeys), IsInjective(o), NEW e \in [ToSet(o) -> Nat]
  PROVE  LET d == C!Evict([order |-> o, entries |-> e]) IN Sound(d) /\ DOMAIN d.entries \subseteq ToSet(o)
<1> DEFINE d == [order |-> o, entries |-> e]
           Rest(n) == SubSeq(d.order, n + 1, Len(d.order))
           Try(n) == [order |-> Rest(n), entries |-> [k \in C!ToSet(Rest(n)) |-> d.entries[k]]]
           fits == {n \in 0..Len(d.order) : C!SizeOf(Try(n).entries) <= Capacity \/ Len(d.order) - n <= 1}
           n == CHOOSE m \in fits : \A i \in fits : m <= i
<1>0. d.order = o /\ d.entries = e /\ \A m : C!ToSet(Rest(m)) = ToSet(Rest(m))
  BY CacheNames
<1>1. C!Evict(d) = Try(n)
  <2> HIDE DEF d
  <2> QED BY DEF C!Evict
<1> HIDE DEF d
<1>2. n \in fits
  <2>1. Len(o) \in fits
    BY <1>0
  <2>2. fits \subseteq Nat
    OBVIOUS
  <2> HIDE DEF fits
  <2>3. \E m \in fits : \A i \in fits : m <= i
    BY <2>1, <2>2, LeastIsThere
  <2> QED BY <2>3
<1>3. n \in 0..Len(o) /\ (C!SizeOf(Try(n).entries) <= Capacity \/ Len(o) - n <= 1)
  <2> HIDE DEF n
  <2> QED BY <1>0, <1>2
<1> HIDE DEF n
<1>4. Rest(n) \in Seq(CacheKeys) /\ Len(Rest(n)) = Len(o) - n /\ \A i \in 1..(Len(o) - n) : Rest(n)[i] = o[i + n]
  BY <1>0, <1>3
<1>5. IsInjective(Rest(n)) /\ ToSet(Rest(n)) \subseteq ToSet(o)
  <2> DEFINE r == Rest(n)
  <2>1. Len(o) \in Nat /\ n \in Nat /\ n <= Len(o) /\ DOMAIN o = 1..Len(o) /\ DOMAIN r = 1..(Len(o) - n)
    BY <1>3, <1>4
  <2>2. ASSUME NEW i \in DOMAIN r PROVE r[i] = o[i + n] /\ i + n \in DOMAIN o /\ i \in Int
    <3>1. i \in 1..(Len(o) - n)
      BY <2>1
    <3>2. r[i] = o[i + n]
      BY <1>4, <3>1
    <3>3. i + n \in 1..Len(o) /\ i \in Int
      BY ONLY <2>1, <3>1
    <3> QED BY <2>1, <3>2, <3>3
  <2> HIDE DEF r
  <2>3. IsInjective(r)
    <3> SUFFICES ASSUME NEW i \in DOMAIN r, NEW j \in DOMAIN r, r[i] = r[j] PROVE i = j
      BY DEF IsInjective
    <3>1. i + n = j + n
      BY <2>2 DEF IsInjective
    <3> QED BY <2>1, <2>2, <3>1
  <2>4. ToSet(r) \subseteq ToSet(o)
    BY <2>2 DEF ToSet
  <2> QED BY <2>3, <2>4 DEF r
<1>6. Try(n) \in Data
  <2> DEFINE R == ToSet(Rest(n))
  <2>1. [k \in R |-> e[k]] \in [R -> Nat]
    BY <1>5
  <2>2. R \subseteq CacheKeys
    BY <1>4, SetOfSequence
  <2>3. [k \in R |-> e[k]] \in UNION {[L -> Nat] : L \in SUBSET CacheKeys}
    BY <2>1, <2>2
  <2>4. Try(n) = [order |-> Rest(n), entries |-> [k \in R |-> e[k]]]
    BY <1>0
  <2> HIDE DEF Try, Rest, R
  <2> QED BY <1>4, <2>3, <2>4 DEF Data
<1>7. Fits(Try(n))
  <2>1. CASE Len(o) - n <= 1 /\ Len(Rest(n)) # 1
    <3>1. Len(Rest(n)) = 0
      BY <1>3, <1>4, <2>1
    <3>2. DOMAIN Try(n).entries = {}
      <4>1. DOMAIN Try(n).entries = ToSet(Rest(n))
        BY <1>0
      <4> HIDE DEF Rest, Try
      <4>2. ToSet(Rest(n)) = {}
        BY <1>4, <3>1 DEF ToSet
      <4> QED BY <4>1, <4>2
    <3>3. C!SizeOf(Try(n).entries) = 0
      BY <3>2, SizeIs, EmptySum
    <3> QED BY <3>3, SizesAssumption DEF Fits
  <2> QED BY <1>3, <1>4, <2>1 DEF Fits
<1>8. Sound(Try(n)) /\ DOMAIN Try(n).entries \subseteq ToSet(o)
  <2>1. Try(n).order = Rest(n) /\ DOMAIN Try(n).entries = ToSet(Rest(n))
    BY <1>0
  <2> HIDE DEF Try, Rest
  <2> QED BY <1>5, <1>6, <1>7, <2>1 DEF Sound
<1> QED BY <1>1, <1>8 DEF d


----------------------------------------------------------------------------
(* The store is sound while there is one, and so is the file; what is about  *)
(* to be renamed is the store; and what is gone is in neither.                *)
Opened == store[w1] # None
CacheTypeOK ==
  /\ DOMAIN saving = {w1} /\ DOMAIN store = {w1} /\ DOMAIN failed = {w1}
  /\ saving[w1] \in {"no", "to open", "to fill", "to rename"}
  /\ saving[w1] # "no" => Opened
Without(d, removed) == \A k \in removed : k \notin DOMAIN d.entries
Store == [data : Data, timer : BOOLEAN, dirty : BOOLEAN]
StoreSound == Opened => store[w1] \in Store /\ Sound(store[w1].data) /\ Without(store[w1].data, gone)
FileSound == file # None => Sound(file)
TempIsStore == saving[w1] = "to rename" => temp = store[w1].data
WhatIsGone == saving[w1] = "no" /\ file # None => Without(file, gone)
Owes == Opened /\ saving[w1] = "no" /\ store[w1].dirty => store[w1].timer \/ failed[w1]
CacheInv == CacheTypeOK /\ StoreSound /\ FileSound /\ TempIsStore /\ WhatIsGone /\ Owes

LEMMA NoneIsUnsound == /\ \A d : Sound(d) => d # None /\ d \in Data
                       /\ \A x \in Store : x # None
  BY NoneAssumption DEF Sound, Store

(* What is changed is written at once, or has a timer. *)
LEMMA ChangedKeeps ==
  ASSUME CacheInv, Opened, saving[w1] = "no", NEW d, Sound(d), Without(d, gone'),
         UNCHANGED <<file, temp, failed>>,
         \/ C!Persisting(w1, d)
         \/ C!Scheduled(w1, d) /\ gone' \subseteq gone
  PROVE  CacheInv'
<1>1. /\ DOMAIN store' = {w1} /\ DOMAIN saving' = {w1}
      /\ \/ store'[w1] = [data |-> d, timer |-> FALSE, dirty |-> TRUE] /\ saving'[w1] = "to open"
         \/ store'[w1] = [data |-> d, timer |-> TRUE, dirty |-> TRUE] /\ saving'[w1] = "no" /\ gone' \subseteq gone
  BY DEF C!Persisting, C!Scheduled, CacheInv, CacheTypeOK
<1>2. store'[w1] \in Store /\ store'[w1].data = d
  <2>1. \A b \in BOOLEAN : [data |-> d, timer |-> b, dirty |-> TRUE] \in Store
    BY NoneIsUnsound DEF Store
  <2>2. \E b \in BOOLEAN : store'[w1] = [data |-> d, timer |-> b, dirty |-> TRUE]
    BY <1>1, Zenon
  <2> QED BY <2>1, <2>2
<1>3. Opened'
  BY <1>2, NoneIsUnsound DEF Opened
<1>4. CacheTypeOK'
  BY <1>1, <1>3 DEF CacheInv, CacheTypeOK
<1>5. StoreSound'
  BY <1>2 DEF StoreSound
<1>6. FileSound' /\ TempIsStore'
  BY <1>1 DEF CacheInv, FileSound, TempIsStore
<1>7. WhatIsGone'
  BY <1>1 DEF CacheInv, WhatIsGone, Without
<1>8. Owes'
  BY <1>1 DEF Owes
<1> QED BY <1>4, <1>5, <1>6, <1>7, <1>8 DEF CacheInv

(* A write begins: the timer is gone, the data stay. *)
LEMMA SavingKeeps ==
  ASSUME CacheInv, Opened, store' = [store EXCEPT ![w1].timer = FALSE],
         saving' = [saving EXCEPT ![w1] = "to open"], UNCHANGED <<file, temp, failed, gone>>
  PROVE  CacheInv'
<1>1. /\ DOMAIN store = {w1} /\ DOMAIN saving = {w1} /\ store[w1] \in Store /\ Sound(store[w1].data) /\ Without(store[w1].data, gone)
  BY DEF CacheInv, CacheTypeOK, StoreSound
<1>2. store'[w1] = [store[w1] EXCEPT !.timer = FALSE] /\ DOMAIN store' = {w1} /\ DOMAIN saving' = {w1} /\ saving'[w1] = "to open"
  BY <1>1
<1>3. store'[w1] \in Store /\ store'[w1].data = store[w1].data
  BY <1>1, <1>2 DEF Store
<1>4. CacheTypeOK'
  BY <1>2, <1>3, NoneIsUnsound DEF CacheInv, CacheTypeOK, Opened
<1>5. StoreSound'
  BY <1>1, <1>3 DEF StoreSound
<1>6. FileSound' /\ TempIsStore' /\ WhatIsGone' /\ Owes'
  BY <1>2 DEF CacheInv, FileSound, TempIsStore, WhatIsGone, Owes
<1> QED BY <1>4, <1>5, <1>6 DEF CacheInv

(* A write goes on, and changes nothing but where it is. *)
LEMMA WritingKeeps ==
  ASSUME CacheInv, Opened, NEW at \in {"to fill", "to rename"}, saving' = [saving EXCEPT ![w1] = at],
         UNCHANGED <<store, file, failed, gone>>, at = "to rename" => temp' = store[w1].data
  PROVE  CacheInv'
<1>1. DOMAIN saving' = {w1} /\ saving'[w1] = at
  BY DEF CacheInv, CacheTypeOK
<1>2. CacheTypeOK' /\ TempIsStore' /\ WhatIsGone' /\ Owes'
  BY <1>1 DEF CacheInv, CacheTypeOK, TempIsStore, WhatIsGone, Owes, Opened
<1>3. StoreSound' /\ FileSound'
  BY DEF CacheInv, StoreSound, FileSound, Opened
<1> QED BY <1>2, <1>3 DEF CacheInv

LEMMA CacheInductive == CacheInv /\ [C!NextCache]_(C!cacheVars) => CacheInv'
<1> SUFFICES ASSUME CacheInv, [C!NextCache]_(C!cacheVars) PROVE CacheInv'
  OBVIOUS
<1> USE DEF C!Opened, C!Sync, Opened
<1>0. /\ DOMAIN saving = {w1} /\ DOMAIN store = {w1} /\ DOMAIN failed = {w1}
      /\ saving[w1] \in {"no", "to open", "to fill", "to rename"} /\ (saving[w1] # "no" => Opened)
      /\ (Opened => store[w1] \in Store /\ Sound(store[w1].data) /\ Without(store[w1].data, gone))
      /\ (file # None => Sound(file))
  BY DEF CacheInv, CacheTypeOK, StoreSound, FileSound
<1>1. CASE C!StoreFor(w1)
  <2> DEFINE new == [data |-> C!Load, timer |-> FALSE, dirty |-> FALSE]
  <2>1. /\ store'[w1] = new /\ DOMAIN store' = {w1} /\ DOMAIN failed' = {w1} /\ saving[w1] = "no"
        /\ UNCHANGED <<file, temp, saving, gone>>
    BY <1>0, <1>1 DEF C!StoreFor
  <2>2. Sound(C!Load) /\ Without(C!Load, gone)
    <3>1. CASE file = None \/ C!Load = C!Empty
      <4>1. C!Load = C!Empty /\ DOMAIN C!Empty.entries = {}
        BY <3>1 DEF C!Load, C!Empty
      <4> QED BY <4>1, EmptyIsSound DEF Without
    <3>2. CASE file # None /\ C!Load # C!Empty
      <4>1. C!Load = file
        BY <3>2 DEF C!Load
      <4> QED BY <1>0, <2>1, <3>2, <4>1 DEF CacheInv, WhatIsGone
    <3> QED BY <3>1, <3>2
  <2>3. new \in Store /\ new # None
    BY <2>2, NoneIsUnsound DEF Store
  <2>4. CacheTypeOK' /\ FileSound' /\ WhatIsGone'
    BY <1>0, <2>1, <2>3 DEF CacheInv, CacheTypeOK, FileSound, WhatIsGone
  <2>5. StoreSound' /\ TempIsStore'
    <3>1. new.data = C!Load
      OBVIOUS
    <3> HIDE DEF new
    <3> QED BY <2>1, <2>2, <2>3, <3>1 DEF StoreSound, TempIsStore
  <2>6. Owes'
    BY <2>1 DEF Owes
  <2> QED BY <2>4, <2>5, <2>6 DEF CacheInv
<1>2. CASE C!Clear(w1)
  <2>1. Without(C!Empty, gone')
    BY DEF Without, C!Empty
  <2> QED BY <1>2, <2>1, EmptyIsSound, ChangedKeeps DEF C!Clear, C!Changes, C!Deletes
<1>3. CASE C!Fires(w1)
  <2>1. /\ store' = [store EXCEPT ![w1].timer = FALSE] /\ saving' = [saving EXCEPT ![w1] = "to open"]
        /\ UNCHANGED <<file, temp, failed, gone>> /\ Opened
    BY <1>3 DEF C!Fires
  <2> QED BY <2>1, SavingKeeps
<1>4. ASSUME NEW k \in CacheKeys, C!RemoveKey(w1, k) PROVE CacheInv'
  <2> DEFINE d == [order |-> C!RemoveFirst(store[w1].data.order, k), entries |-> C!Drop(store[w1].data.entries, k)]
  <2>1. /\ Opened /\ saving[w1] = "no" /\ k \in DOMAIN store[w1].data.entries /\ C!Persisting(w1, d)
        /\ gone' = gone \cup {k} /\ UNCHANGED <<file, temp, failed>>
    BY <1>4 DEF C!RemoveKey, C!Changes, C!Deletes
  <2>2. Sound(d)
    BY <1>0, <2>1, DropIsSound, CacheNames
  <2>3. Without(d, gone')
    BY <1>0, <2>1 DEF Without, C!Drop
  <2> HIDE DEF d
  <2> QED BY <2>1, <2>2, <2>3, ChangedKeeps
<1>5. ASSUME NEW k \in CacheKeys, NEW size \in Sizes, NEW soon \in BOOLEAN, C!Set(w1, k, size, soon) PROVE CacheInv'
  <2> DEFINE d == store[w1].data
             r == C!RemoveFirst(d.order, k)
             o == Append(r, k)
             e == [x \in DOMAIN d.entries \cup {k} |-> IF x = k THEN size ELSE d.entries[x]]
             after == C!Evict([order |-> o, entries |-> e])
  <2>1. /\ Opened /\ saving[w1] = "no" /\ (C!Persisting(w1, after) \/ C!Scheduled(w1, after))
        /\ gone' = gone \ {k} /\ UNCHANGED <<file, temp, failed>>
    BY <1>5 DEF C!Set, C!Changes
  <2>2. Sound(d) /\ Without(d, gone) /\ d.order \in Seq(CacheKeys) /\ IsInjective(d.order)
        /\ ToSet(d.order) = DOMAIN d.entries /\ d.entries \in [ToSet(d.order) -> Nat]
    BY <1>0, <2>1 DEF Sound, Data
  <2>3. o \in Seq(CacheKeys) /\ IsInjective(o) /\ ToSet(o) = DOMAIN d.entries \cup {k}
    <3>1. r \in Seq(CacheKeys) /\ IsInjective(r) /\ ToSet(r) = DOMAIN d.entries \ {k}
      BY <2>2, RemovedFirst, CacheNames
    <3> HIDE DEF r
    <3>2. o \in Seq(CacheKeys) /\ Len(o) = Len(r) + 1 /\ o[Len(r) + 1] = k /\ \A i \in 1..Len(r) : o[i] = r[i]
      BY <3>1
    <3> HIDE DEF o
    <3>3. \A i \in 1..Len(r) : r[i] # k
      <4>1. k \notin ToSet(r) /\ DOMAIN r = 1..Len(r)
        BY <3>1
      <4> QED BY <4>1 DEF ToSet
    <3>4. IsInjective(o)
      BY <3>1, <3>2, <3>3 DEF IsInjective
    <3>5. ToSet(o) = ToSet(r) \cup {k}
      BY <3>1, <3>2 DEF ToSet
    <3> QED BY <3>1, <3>2, <3>4, <3>5
  <2>4. e \in [ToSet(o) -> Nat]
    BY <2>2, <2>3, SizesAssumption
  <2> HIDE DEF o, e
  <2>5. Sound(after) /\ DOMAIN after.entries \subseteq ToSet(o)
    BY <2>3, <2>4, EvictIsSound
  <2>6. Without(after, gone')
    BY <2>1, <2>2, <2>3, <2>5 DEF Without
  <2> HIDE DEF after, d
  <2> QED BY <2>1, <2>5, <2>6, ChangedKeeps
<1>6. CASE C!Opens(w1)
  BY <1>0, <1>6, WritingKeeps DEF C!Opens
<1>7. CASE C!Fills(w1)
  <2>1. saving[w1] = "to fill"
    BY <1>0, <1>7 DEF C!Fills, C!Filling
  <2>2. /\ saving' = [saving EXCEPT ![w1] = "to rename"] /\ temp' = store[w1].data /\ UNCHANGED <<store, file, failed, gone>>
    BY <1>7, <2>1 DEF C!Fills
  <2> QED BY <1>0, <2>1, <2>2, WritingKeeps
<1>8. CASE C!Renames(w1)
  <2>1. /\ saving[w1] = "to rename" /\ Opened /\ Sound(store[w1].data) /\ temp = store[w1].data /\ temp # None
        /\ store[w1] \in Store /\ Without(store[w1].data, gone)
    BY <1>0, <1>8, NoneIsUnsound DEF C!Renames, CacheInv, TempIsStore
  <2>2. /\ file' = temp /\ store' = [store EXCEPT ![w1].dirty = FALSE] /\ failed' = [failed EXCEPT ![w1] = FALSE]
        /\ DOMAIN saving' = {w1} /\ saving'[w1] = "no" /\ UNCHANGED gone
    BY <1>8, <2>1 DEF C!Renames
  <2>3. store'[w1] = [store[w1] EXCEPT !.dirty = FALSE] /\ DOMAIN store' = {w1} /\ DOMAIN failed' = {w1}
    BY <1>0, <2>2
  <2>4. store'[w1] \in Store /\ store'[w1].data = store[w1].data /\ store'[w1].dirty = FALSE
    BY <2>1, <2>3 DEF Store
  <2>5. CacheTypeOK'
    BY <2>2, <2>3 DEF CacheTypeOK
  <2>6. StoreSound' /\ FileSound'
    BY <2>1, <2>2, <2>4 DEF StoreSound, FileSound
  <2>7. TempIsStore' /\ WhatIsGone' /\ Owes'
    BY <2>1, <2>2, <2>4 DEF TempIsStore, WhatIsGone, Owes
  <2> QED BY <2>5, <2>6, <2>7 DEF CacheInv
<1>9. CASE C!Fails(w1)
  <2>1. /\ DOMAIN saving' = {w1} /\ saving'[w1] = "no" /\ DOMAIN failed' = {w1} /\ failed'[w1] = TRUE
        /\ gone' = {} /\ UNCHANGED <<store, file>>
    BY <1>0, <1>9 DEF C!Fails
  <2>2. CacheTypeOK' /\ TempIsStore' /\ Owes'
    BY <1>0, <2>1 DEF CacheTypeOK, TempIsStore, Owes
  <2>3. StoreSound' /\ FileSound' /\ WhatIsGone'
    BY <1>0, <2>1 DEF StoreSound, FileSound, WhatIsGone, Without
  <2> QED BY <2>2, <2>3 DEF CacheInv
<1>10. CASE C!Flushes(w1)
  <2>1. CASE store[w1].dirty
    BY <1>10, <2>1, SavingKeeps DEF C!Flushes
  <2>2. CASE ~store[w1].dirty
    <3>1. DOMAIN store' = {w1} /\ store'[w1] = None /\ saving[w1] = "no" /\ UNCHANGED <<file, temp, saving, failed, gone>>
      BY <1>0, <1>10, <2>2 DEF C!Flushes
    <3>2. CacheTypeOK' /\ StoreSound' /\ Owes'
      BY <1>0, <3>1 DEF CacheTypeOK, StoreSound, Owes
    <3>3. FileSound' /\ TempIsStore' /\ WhatIsGone'
      BY <1>0, <3>1 DEF CacheInv, FileSound, TempIsStore, WhatIsGone
    <3> QED BY <3>2, <3>3 DEF CacheInv
  <2> QED BY <2>1, <2>2
<1>11. CASE C!Killed(w1)
  <2>1. /\ DOMAIN store' = {w1} /\ store'[w1] = None /\ DOMAIN saving' = {w1} /\ saving'[w1] = "no"
        /\ gone' = (IF saving[w1] = "no" THEN gone ELSE {}) /\ UNCHANGED <<file, temp, failed>>
    BY <1>0, <1>11 DEF C!Killed
  <2>2. CacheTypeOK' /\ StoreSound' /\ Owes'
    BY <1>0, <2>1 DEF CacheTypeOK, StoreSound, Owes
  <2>3. FileSound' /\ TempIsStore'
    BY <1>0, <2>1 DEF FileSound, TempIsStore
  <2>4. WhatIsGone'
    BY <1>0, <2>1 DEF CacheInv, WhatIsGone, Without
  <2> QED BY <2>2, <2>3, <2>4 DEF CacheInv
<1>12. CASE UNCHANGED C!cacheVars
  BY <1>12 DEF C!cacheVars, CacheInv, CacheTypeOK, StoreSound, FileSound, TempIsStore, WhatIsGone, Owes, Without
<1> QED BY <1>1, <1>2, <1>3, <1>4, <1>5, <1>6, <1>7, <1>8, <1>9, <1>10, <1>11, <1>12 DEF C!NextCache

(* What was removed from a cache does not come back from the disk, the file  *)
(* can be read at every moment, what changed is written or will be, and what *)
(* is kept is the last used, of what fits: for any keys, sizes and capacity, *)
(* wherever a write fails or the worker ends (api-shim/system.ts).           *)
THEOREM CacheIsKept == Spec => []CacheIntact
<1> DEFINE Inv == part = "cache" => CacheInv
<1>1. Init => Inv
  <2> SUFFICES ASSUME C!InitCache PROVE CacheInv
    BY DEF Init
  <2> QED BY DEF C!InitCache, CacheInv, CacheTypeOK, StoreSound, FileSound, TempIsStore, WhatIsGone, Owes, Opened
<1>2. Inv /\ [Next]_vars => Inv'
  <2> SUFFICES ASSUME CacheInv, part = "cache", [Next]_vars PROVE CacheInv'
    BY DEF Next, vars
  <2>1. [C!NextCache]_(C!cacheVars)
    BY DEF Next, vars, C!cacheVars
  <2> QED BY <2>1, CacheInductive
<1>3. Inv => CacheIntact
  <2> SUFFICES ASSUME CacheInv PROVE C!CacheIntact
    BY DEF CacheIntact
  <2>1. C!RemovedStaysGone
    BY DEF CacheInv, WhatIsGone, Without, C!RemovedStaysGone, C!Sync
  <2>2. C!Parses
    <3>1. file # None => Sound(file)
      BY DEF CacheInv, FileSound
    <3>2. file = C!Damaged => ~Sound(file)
      <4>1. C!Damaged.order = <<None>> /\ DOMAIN C!Damaged.entries = {}
        BY DEF C!Damaged
      <4>2. None \in ToSet(<<None>>)
        BY DEF ToSet
      <4> QED BY <4>1, <4>2 DEF Sound
    <3> QED BY <3>1, <3>2, NoneAssumption DEF C!Parses
  <2>3. C!OwedIsScheduled
    <3> SUFFICES ASSUME Opened, saving[w1] = "no"
                 PROVE  /\ store[w1].dirty => store[w1].timer \/ failed[w1]
                        /\ LET data == store[w1].data
                           IN /\ C!ToSet(data.order) = DOMAIN data.entries /\ C!IsInjective(data.order)
                              /\ C!SizeOf(data.entries) <= Capacity \/ Len(data.order) = 1
      BY DEF C!OwedIsScheduled, C!Opened, C!Sync, Opened
    <3>1. Sound(store[w1].data)
      BY DEF CacheInv, StoreSound
    <3>2. store[w1].dirty => store[w1].timer \/ failed[w1]
      BY DEF CacheInv, Owes
    <3> QED BY <3>1, <3>2, CacheNames DEF Sound, Fits
  <2> QED BY <2>1, <2>2, <2>3 DEF C!CacheIntact
<1> QED BY <1>1, <1>2, <1>3, PTL DEF Spec

(* A function given step by step exists, and each value is where the steps   *)
(* lead.                                                                     *)
Leads(n, At, Step) == \A k \in 1..n : \A x \in At[k - 1] : Step[k][x] \in At[k]
Steps(f, n, At, base, Step) ==
  /\ f = [k \in 0..n |-> f[k]] /\ f[0] = base /\ \A k \in 1..n : f[k] = Step[k][f[k - 1]]
  /\ \A k \in 0..n : f[k] \in At[k]
LEMMA Recursion ==
  ASSUME NEW n \in Nat, NEW At, NEW base \in At[0], NEW Step, Leads(n, At, Step)
  PROVE  \E f : Steps(f, n, At, base, Step)
<1> DEFINE Is(f, m) == /\ f = [k \in 0..m |-> IF k = 0 THEN base ELSE Step[k][f[k - 1]]]
                       /\ \A k \in 0..m : f[k] \in At[k]
           Good == {m \in Nat : m <= n => \E f : Is(f, m)}
<1>1. 0 \in Good
  <2> DEFINE f == [k \in 0..0 |-> base]
  <2>1. Is(f, 0)
    <3>1. f = [k \in 0..0 |-> IF k = 0 THEN base ELSE Step[k][f[k - 1]]]
      OBVIOUS
    <3>2. \A k \in 0..0 : f[k] \in At[k]
      OBVIOUS
    <3> QED BY <3>1, <3>2
  <2> QED BY <2>1
<1>2. ASSUME NEW m \in Nat, m \in Good PROVE m + 1 \in Good
  <2> SUFFICES ASSUME m + 1 <= n PROVE \E f : Is(f, m + 1)
    OBVIOUS
  <2>1. PICK f : Is(f, m)
    BY <1>2
  <2> DEFINE M == m + 1  g == [k \in 0..M |-> IF k = M THEN Step[M][f[m]] ELSE f[k]]
  <2>2. M \in 1..n /\ M - 1 = m /\ m \in 0..m /\ 0..M = (0..m) \cup {M} /\ M \notin 0..m /\ M # 0
    OBVIOUS
  <2>3. DOMAIN f = 0..m /\ f[m] \in At[m] /\ \A k \in 0..m : f[k] = (IF k = 0 THEN base ELSE Step[k][f[k - 1]])
    BY <2>1
  <2> HIDE DEF Is
  <2>4. \A k \in 0..M : k # 0 => g[k - 1] = f[k - 1]
    BY <2>2
  <2>5. \A k \in 0..M : g[k] = IF k = 0 THEN base ELSE Step[k][g[k - 1]]
    <3> SUFFICES ASSUME NEW k \in 0..M PROVE g[k] = IF k = 0 THEN base ELSE Step[k][g[k - 1]]
      OBVIOUS
    <3>1. CASE k = M
      <4>1. g[M] = Step[M][f[m]] /\ g[M - 1] = f[m]
        BY <2>2, <2>4
      <4> QED BY <2>2, <3>1, <4>1
    <3>2. CASE k # M
      <4>1. k \in 0..m /\ g[k] = f[k]
        BY <2>2, <3>2
      <4> HIDE DEF g
      <4> QED BY <2>2, <2>3, <2>4, <3>2, <4>1
    <3> QED BY <3>1, <3>2
  <2>6. \A k \in 0..M : g[k] \in At[k]
    <3>1. Step[M][f[m]] \in At[M]
      BY <2>2, <2>3 DEF Leads
    <3>2. \A k \in 0..m : f[k] \in At[k]
      BY <2>1 DEF Is
    <3> QED BY <2>2, <3>1, <3>2
  <2>7. g = [k \in 0..M |-> IF k = 0 THEN base ELSE Step[k][g[k - 1]]]
    <3>1. g = [k \in 0..M |-> g[k]]
      OBVIOUS
    <3> HIDE DEF g
    <3> QED BY <2>5, <3>1
  <2>8. Is(g, M)
    BY <2>6, <2>7 DEF Is
  <2> QED BY <2>8
<1>3. Nat \subseteq Good
  <2> HIDE DEF Good
  <2> QED BY <1>1, <1>2, Induction
<1>4. n \in Good /\ n <= n
  BY <1>3
<1>5. PICK f : Is(f, n)
  BY <1>4
<1>6. \A k \in 1..n : k \in 0..n /\ k # 0
  OBVIOUS
<1>7. f = [k \in 0..n |-> f[k]] /\ 0 \in 0..n
  BY <1>5
<1>8. f[0] = base /\ \A k \in 1..n : f[k] = Step[k][f[k - 1]]
  BY <1>5, <1>6, <1>7
<1>9. \A k \in 0..n : f[k] \in At[k]
  BY <1>5
<1> QED BY <1>7, <1>8, <1>9, Zenon DEF Steps

LEMMA Reaches ==
  ASSUME NEW n \in Nat, NEW At, NEW f, f[0] \in At[0], \A k \in 1..n : f[k - 1] \in At[k - 1] => f[k] \in At[k]
  PROVE  \A k \in 0..n : f[k] \in At[k]
<1> DEFINE Good == {k \in Nat : k <= n => f[k] \in At[k]}
<1>1. 0 \in Good
  OBVIOUS
<1>2. ASSUME NEW k \in Nat, k \in Good PROVE k + 1 \in Good
  <2> SUFFICES ASSUME k + 1 <= n PROVE f[k + 1] \in At[k + 1]
    OBVIOUS
  <2>1. k + 1 \in 1..n /\ (k + 1) - 1 = k /\ k <= n
    OBVIOUS
  <2> QED BY <1>2, <2>1
<1> HIDE DEF Good
<1>3. Nat \subseteq Good
  BY <1>1, <1>2, Induction
<1> QED BY <1>3 DEF Good


(***************************** stack of views *****************************)
Entry == [key : Nat, view : Nat]
Rooted(s) == Len(s) >= 1 /\ s[1].view = 0 /\ \A i \in DOMAIN s : s[i].key = i - 1
Apart(s) == \A i, j \in DOMAIN s : s[i].view = s[j].view => i = j
ViewTypeOK ==
  /\ stack \in Seq(Entry) /\ coming \in Seq(Entry) /\ waiting \in BOOLEAN
  /\ pushed \in Seq(BOOLEAN) /\ Len(pushed) <= MaxViews /\ told \in [1..MaxViews -> Nat]
Stacked(s) == Rooted(s) /\ Apart(s) /\ \A i \in DOMAIN s : s[i].view \in 0..Len(pushed)
(* A view that comes is not told of; one that does not was told of, or will   *)
(* be with the render; and once only, unless a render was tried again.         *)
Counted == \A v \in 1..MaxViews :
  /\ told[v] > 0 => v \in DOMAIN pushed /\ pushed[v] /\ v \notin V!ViewsOn(coming)
  /\ v \in DOMAIN pushed /\ pushed[v] /\ v \notin V!ViewsOn(coming) => told[v] > 0 \/ v \in going
  /\ v \in going => v \in DOMAIN pushed /\ v \notin V!ViewsOn(coming)
  /\ v \in going /\ v \notin retried => told[v] = 0
  /\ v \notin retried => told[v] <= 1
ViewInv == /\ ViewTypeOK /\ Stacked(stack) /\ Stacked(coming) /\ Counted
           /\ (~waiting => stack = coming /\ going = {})

LEMMA Pushing ==
  ASSUME NEW s \in Seq(Entry), Rooted(s), Apart(s), NEW n \in Nat, \A i \in DOMAIN s : s[i].view \in 0..n, NEW t,
         t = Append(s, [key |-> Len(s), view |-> n + 1])
  PROVE  /\ t \in Seq(Entry) /\ Rooted(t) /\ Apart(t) /\ (\A i \in DOMAIN t : t[i].view \in 0..(n + 1))
         /\ V!ViewsOn(t) = V!ViewsOn(s) \cup {n + 1}
<1> DEFINE k == Len(s)  x == [key |-> k, view |-> n + 1]
<1>1. /\ x \in Entry /\ x.key = k /\ x.view = n + 1 /\ k \in Nat /\ k >= 1 /\ DOMAIN s = 1..k
  BY DEF Entry, Rooted
<1>2. t \in Seq(Entry) /\ Len(t) = k + 1 /\ DOMAIN t = 1..(k + 1) /\ t[k + 1] = x /\ \A i \in 1..k : t[i] = s[i]
  BY <1>1
<1>3. 1..(k + 1) = (1..k) \cup {k + 1} /\ k + 1 \notin 1..k /\ 1 \in 1..k
  BY <1>1
<1>4. \A i \in 1..k : s[i].view # n + 1 /\ s[i].view \in 0..(n + 1)
  BY <1>1
<1>5. n + 1 \in 0..(n + 1) /\ k = (k + 1) - 1
  BY <1>1
<1> HIDE DEF k, x
<1>6. Rooted(t)
  BY <1>1, <1>2, <1>3, <1>5 DEF Rooted
<1>7. Apart(t)
  BY <1>1, <1>2, <1>3, <1>4 DEF Apart
<1>8. \A i \in DOMAIN t : t[i].view \in 0..(n + 1)
  BY <1>1, <1>2, <1>3, <1>4, <1>5
<1>9. V!ViewsOn(t) = V!ViewsOn(s) \cup {n + 1}
  BY <1>1, <1>2, <1>3 DEF V!ViewsOn
<1> QED BY <1>2, <1>6, <1>7, <1>8, <1>9

(* What a pop or a return to the root leaves is a beginning of the stack.    *)
LEMMA Leaving ==
  ASSUME NEW s \in Seq(Entry), Rooted(s), Apart(s), NEW t,
         t = s \/ t = <<Head(s)>> \/ \E k \in 1..Len(s) : t = SubSeq(s, 1, k)
  PROVE  /\ t \in Seq(Entry) /\ Rooted(t) /\ Apart(t) /\ (\A i \in DOMAIN t : i \in DOMAIN s /\ t[i] = s[i])
         /\ V!ViewsOn(t) \subseteq V!ViewsOn(s) /\ 0 \notin V!ViewsOn(s) \ V!ViewsOn(t)
<1>1. PICK k \in 1..Len(s) : t \in Seq(Entry) /\ Len(t) = k /\ DOMAIN t = 1..k /\ \A i \in 1..k : t[i] = s[i]
  <2>1. CASE t = s
    <3>1. Len(s) \in 1..Len(s)
      BY DEF Rooted
    <3> QED BY <2>1, <3>1
  <2>2. ASSUME NEW k \in 1..Len(s), t = SubSeq(s, 1, k) PROVE Len(t) = k /\ t \in Seq(Entry) /\ \A i \in 1..k : t[i] = s[i]
    BY <2>2
  <2>3. CASE \E k \in 1..Len(s) : t = SubSeq(s, 1, k)
    <3>1. PICK k \in 1..Len(s) : t = SubSeq(s, 1, k)
      BY <2>3
    <3>2. Len(t) = k /\ t \in Seq(Entry) /\ \A i \in 1..k : t[i] = s[i]
      BY <2>2, <3>1
    <3> QED BY <3>2
  <2>4. CASE t = <<Head(s)>>
    <3>1. 1 \in 1..Len(s) /\ t \in Seq(Entry) /\ Len(t) = 1 /\ DOMAIN t = 1..1 /\ \A i \in 1..1 : t[i] = s[i]
      BY <2>4 DEF Rooted
    <3> QED BY <3>1
  <2> QED BY <2>1, <2>3, <2>4
<1>2. DOMAIN s = 1..Len(s) /\ 1..k \subseteq 1..Len(s) /\ 1 \in 1..k
  OBVIOUS
<1>3. Rooted(t)
  BY <1>1, <1>2 DEF Rooted
<1>4. Apart(t)
  BY <1>1, <1>2 DEF Apart
<1>5. V!ViewsOn(t) \subseteq V!ViewsOn(s)
  BY <1>1, <1>2 DEF V!ViewsOn
<1>6. 0 \in V!ViewsOn(t)
  BY <1>1, <1>2 DEF V!ViewsOn, Rooted
<1> QED BY <1>1, <1>2, <1>3, <1>4, <1>5, <1>6

LEMMA LeftIs ==
  ASSUME ViewInv, NEW op \in {"pop", "root"}
  PROVE  V!Left(op) = coming \/ V!Left(op) = <<Head(coming)>> \/ \E k \in 1..Len(coming) : V!Left(op) = SubSeq(coming, 1, k)
<1>1. coming \in Seq(Entry) /\ Len(coming) \in Nat /\ Len(coming) >= 1
  BY DEF ViewInv, ViewTypeOK, Stacked, Rooted
<1>2. CASE op = "root"
  BY <1>2 DEF V!Left
<1>3. CASE op = "pop" /\ Len(coming) <= 1
  BY <1>3 DEF V!Left, V!PopOne
<1>4. CASE op = "pop" /\ ~(Len(coming) <= 1)
  <2>1. V!Left(op) = SubSeq(coming, 1, Len(coming) - 1) /\ Len(coming) - 1 \in 1..Len(coming)
    BY <1>1, <1>4 DEF V!Left, V!PopOne, V!Front
  <2> QED BY <2>1
<1> QED BY <1>2, <1>3, <1>4

LEMMA Telling ==
  ASSUME ViewTypeOK, NEW vs
  PROVE  /\ V!Telling(vs) \in [1..MaxViews -> Nat]
         /\ \A v \in 1..MaxViews : V!Telling(vs)[v] =
              IF v \in vs /\ v \in DOMAIN pushed /\ pushed[v] THEN told[v] + 1 ELSE told[v]
  BY DEF ViewTypeOK, V!Telling

LEMMA PopKeeps ==
  ASSUME ViewInv, NEW op \in {"pop", "root"}, V!PopView(op)
  PROVE  ViewInv'
<1> DEFINE taken == V!ViewsOn(coming) \ V!ViewsOn(V!Left(op))
<1>1. /\ coming' = V!Left(op) /\ UNCHANGED <<stack, pushed, retried>>
      /\ \/ ~waiting /\ waiting' = (op = "root" \/ taken # {}) /\ told' = V!Telling(taken) /\ going' = going
         \/ waiting' = TRUE /\ going' = going \cup taken /\ told' = told
  BY DEF V!PopView
<1>2. coming' = coming \/ coming' = <<Head(coming)>> \/ \E k \in 1..Len(coming) : coming' = SubSeq(coming, 1, k)
  BY <1>1, LeftIs
<1>3. coming \in Seq(Entry) /\ Rooted(coming) /\ Apart(coming) /\ \A i \in DOMAIN coming : coming[i].view \in 0..Len(pushed)
  BY DEF ViewInv, ViewTypeOK, Stacked
<1>4. /\ coming' \in Seq(Entry) /\ Rooted(coming') /\ Apart(coming')
      /\ (\A i \in DOMAIN coming' : i \in DOMAIN coming /\ coming'[i] = coming[i])
      /\ V!ViewsOn(coming') \subseteq V!ViewsOn(coming) /\ 0 \notin V!ViewsOn(coming) \ V!ViewsOn(coming')
  BY <1>2, <1>3, Leaving
<1>5. taken = V!ViewsOn(coming) \ V!ViewsOn(coming')
  BY <1>1
<1>6. taken \subseteq DOMAIN pushed /\ taken \cap V!ViewsOn(coming') = {}
  <2>1. V!ViewsOn(coming) \subseteq 0..Len(pushed)
    BY <1>3 DEF V!ViewsOn
  <2>2. DOMAIN pushed = 1..Len(pushed) /\ Len(pushed) \in Nat
    BY DEF ViewInv, ViewTypeOK
  <2> QED BY <1>4, <1>5, <2>1, <2>2
<1>7. Stacked(stack)' /\ Stacked(coming)'
  <2>1. Stacked(stack)'
    BY <1>1 DEF ViewInv, Stacked
  <2>2. Stacked(coming)'
    BY <1>1, <1>3, <1>4 DEF Stacked
  <2> QED BY <2>1, <2>2
<1> HIDE DEF taken
<1>8. told' \in [1..MaxViews -> Nat] /\ waiting' \in BOOLEAN
  <2>1. told' \in [1..MaxViews -> Nat]
    <3>1. ViewTypeOK /\ told \in [1..MaxViews -> Nat]
      BY DEF ViewInv, ViewTypeOK
    <3>2. V!Telling(taken) \in [1..MaxViews -> Nat]
      BY <3>1, Telling
    <3> QED BY <1>1, <3>1, <3>2, Zenon
  <2>2. waiting' \in BOOLEAN
    BY <1>1, Zenon
  <2> QED BY <2>1, <2>2
<1>9. ViewTypeOK'
  BY <1>1, <1>4, <1>8 DEF ViewInv, ViewTypeOK
<1>10. Counted'
  <2> SUFFICES ASSUME NEW v \in 1..MaxViews
               PROVE  /\ told'[v] > 0 => v \in DOMAIN pushed /\ pushed[v] /\ v \notin V!ViewsOn(coming')
                      /\ v \in DOMAIN pushed /\ pushed[v] /\ v \notin V!ViewsOn(coming') => told'[v] > 0 \/ v \in going'
                      /\ v \in going' => v \in DOMAIN pushed /\ v \notin V!ViewsOn(coming')
                      /\ v \in going' /\ v \notin retried => told'[v] = 0
                      /\ v \notin retried => told'[v] <= 1
    BY <1>1 DEF Counted, V!ViewsOn
  <2>1. /\ told[v] \in Nat
        /\ told[v] > 0 => v \in DOMAIN pushed /\ pushed[v] /\ v \notin V!ViewsOn(coming)
        /\ v \in DOMAIN pushed /\ pushed[v] /\ v \notin V!ViewsOn(coming) => told[v] > 0 \/ v \in going
        /\ v \in going => v \in DOMAIN pushed /\ v \notin V!ViewsOn(coming)
        /\ v \in going /\ v \notin retried => told[v] = 0
        /\ v \notin retried => told[v] <= 1
    BY DEF ViewInv, ViewTypeOK, Counted
  <2>2. v \in taken <=> v \in V!ViewsOn(coming) /\ v \notin V!ViewsOn(coming')
    BY <1>5
  <2>3. v \in V!ViewsOn(coming') => v \in V!ViewsOn(coming)
    BY <1>4
  <2>4. v \in taken => v \in DOMAIN pushed
    BY <1>6
  <2>5. CASE waiting' = TRUE /\ going' = going \cup taken /\ told' = told
    BY <2>1, <2>2, <2>3, <2>4, <2>5
  <2>6. CASE ~waiting /\ told' = V!Telling(taken) /\ going' = going
    <3>1. going = {}
      BY <2>6 DEF ViewInv
    <3>2. told'[v] = IF v \in taken /\ v \in DOMAIN pushed /\ pushed[v] THEN told[v] + 1 ELSE told[v]
      BY <2>6, Telling DEF ViewInv
    <3>3. v \notin going' /\ v \notin going
      BY <2>6, <3>1
    <3>4. CASE v \in taken
      <4>1. told[v] = 0
        BY <2>1, <2>2, <3>4
      <4> QED BY <2>1, <2>2, <2>3, <2>4, <3>2, <3>3, <3>4, <4>1
    <3>5. CASE v \notin taken
      BY <2>1, <2>2, <2>3, <3>2, <3>3, <3>5
    <3> QED BY <3>4, <3>5
  <2> QED BY <1>1, <2>5, <2>6
<1>11. ~waiting' => stack' = coming' /\ going' = {}
  <2> SUFFICES ASSUME ~waiting' PROVE stack' = coming' /\ going' = {}
    OBVIOUS
  <2>1. ~waiting /\ taken = {} /\ going' = going /\ op # "root"
    BY <1>1
  <2>2. stack = coming /\ going = {}
    BY <2>1 DEF ViewInv
  <2>3. coming' = coming
    <3>1. op = "pop"
      BY <2>1
    <3>2. CASE Len(coming) <= 1
      BY <1>1, <3>1, <3>2 DEF V!Left, V!PopOne
    <3>3. CASE ~(Len(coming) <= 1)
      <4> DEFINE n == Len(coming)
      <4>1. n \in Nat /\ n > 1 /\ DOMAIN coming = 1..n /\ n \in 1..n
        BY <1>3, <3>3
      <4>2. coming' = SubSeq(coming, 1, n - 1)
        BY <1>1, <3>1, <3>3 DEF V!Left, V!PopOne, V!Front
      <4>3. DOMAIN coming' = 1..(n - 1)
        BY <1>3, <4>1, <4>2
      <4> HIDE DEF n
      <4>4. \A i \in DOMAIN coming' : i # n
        BY <4>1, <4>3
      <4>5. coming[n].view \in V!ViewsOn(coming)
        BY <4>1 DEF V!ViewsOn
      <4>6. coming[n].view \notin V!ViewsOn(coming')
        BY <1>3, <1>4, <4>1, <4>4 DEF V!ViewsOn, Apart
      <4> QED BY <1>5, <2>1, <4>5, <4>6
    <3> QED BY <3>2, <3>3
  <2> QED BY <1>1, <2>1, <2>2, <2>3
<1> QED BY <1>7, <1>9, <1>10, <1>11 DEF ViewInv

LEMMA ViewsInductive == ViewInv /\ [V!NextShim]_(V!shimVars) => ViewInv'
<1> SUFFICES ASSUME ViewInv, [V!NextShim]_(V!shimVars) PROVE ViewInv'
  OBVIOUS
<1>1. ASSUME UNCHANGED V!viewVars PROVE ViewInv'
  BY <1>1 DEF V!viewVars, ViewInv, ViewTypeOK, Stacked, Rooted, Apart, Counted, V!ViewsOn
<1>2. ASSUME NEW b \in BOOLEAN, V!Push(b) PROVE ViewInv'
  <2> DEFINE n == Len(pushed)
  <2>1. /\ n < MaxViews /\ pushed' = Append(pushed, b) /\ coming' = Append(coming, [key |-> Len(coming), view |-> n + 1])
        /\ waiting' = TRUE /\ UNCHANGED <<stack, going, told, retried>>
    BY <1>2 DEF V!Push
  <2>2. /\ pushed \in Seq(BOOLEAN) /\ n \in Nat /\ MaxViews \in Nat /\ DOMAIN pushed = 1..n
        /\ coming \in Seq(Entry) /\ Rooted(coming) /\ Apart(coming) /\ \A i \in DOMAIN coming : coming[i].view \in 0..n
    BY SizesAssumption DEF ViewInv, ViewTypeOK, Stacked
  <2>3. /\ pushed' \in Seq(BOOLEAN) /\ Len(pushed') = n + 1 /\ n + 1 <= MaxViews /\ DOMAIN pushed' = 1..(n + 1)
        /\ \A v \in 1..n : pushed'[v] = pushed[v]
    BY <2>1, <2>2
  <2> HIDE DEF n
  <2>4. /\ coming' \in Seq(Entry) /\ Rooted(coming') /\ Apart(coming') /\ (\A i \in DOMAIN coming' : coming'[i].view \in 0..(n + 1))
        /\ V!ViewsOn(coming') = V!ViewsOn(coming) \cup {n + 1}
    BY <2>1, <2>2, Pushing
  <2>5. ViewTypeOK'
    BY <2>1, <2>3, <2>4 DEF ViewInv, ViewTypeOK
  <2>6. Stacked(coming)'
    BY <2>3, <2>4 DEF Stacked
  <2>7. Stacked(stack)'
    <3>1. Rooted(stack) /\ Apart(stack) /\ \A i \in DOMAIN stack : stack[i].view \in 0..n
      BY DEF ViewInv, Stacked, n
    <3>2. \A i \in DOMAIN stack : stack[i].view \in 0..(n + 1)
      BY <2>2, <3>1
    <3> QED BY <2>1, <2>3, <3>1, <3>2 DEF Stacked
  <2>8. Counted'
    <3> SUFFICES ASSUME NEW v \in 1..MaxViews
                 PROVE  /\ told[v] > 0 => v \in DOMAIN pushed' /\ pushed'[v] /\ v \notin V!ViewsOn(coming')
                        /\ v \in DOMAIN pushed' /\ pushed'[v] /\ v \notin V!ViewsOn(coming') => told[v] > 0 \/ v \in going
                        /\ v \in going => v \in DOMAIN pushed' /\ v \notin V!ViewsOn(coming')
                        /\ v \in going /\ v \notin retried => told[v] = 0
                        /\ v \notin retried => told[v] <= 1
      BY <2>1 DEF Counted, V!ViewsOn
    <3>1. /\ told[v] > 0 => v \in DOMAIN pushed /\ pushed[v] /\ v \notin V!ViewsOn(coming)
          /\ v \in DOMAIN pushed /\ pushed[v] /\ v \notin V!ViewsOn(coming) => told[v] > 0 \/ v \in going
          /\ v \in going => v \in DOMAIN pushed /\ v \notin V!ViewsOn(coming)
          /\ v \in going /\ v \notin retried => told[v] = 0
          /\ v \notin retried => told[v] <= 1
      BY DEF ViewInv, Counted
    <3>2. v \in DOMAIN pushed => v \in DOMAIN pushed' /\ v # n + 1 /\ pushed'[v] = pushed[v]
      BY <2>2, <2>3
    <3>3. v \in DOMAIN pushed' => v \in DOMAIN pushed \/ v = n + 1
      BY <2>2, <2>3
    <3>4. v = n + 1 => v \in V!ViewsOn(coming')
      BY <2>4
    <3>5. v # n + 1 => (v \in V!ViewsOn(coming') <=> v \in V!ViewsOn(coming))
      BY <2>4
    <3> QED BY <3>1, <3>2, <3>3, <3>4, <3>5
  <2> QED BY <2>1, <2>5, <2>6, <2>7, <2>8 DEF ViewInv
<1>3. CASE V!PopView("pop") \/ V!PopView("root")
  BY <1>3, PopKeeps
<1>4. CASE V!Flush \/ V!Retry
  <2>1. told' = V!Telling(going) /\ waiting /\ UNCHANGED <<coming, pushed>>
    BY <1>4 DEF V!Flush, V!Retry
  <2>2. \/ waiting' = FALSE /\ stack' = coming /\ going' = {} /\ retried' = retried
        \/ UNCHANGED <<waiting, stack, going>> /\ retried' = retried \cup going
    BY <1>4 DEF V!Flush, V!Retry
  <2>3. told' \in [1..MaxViews -> Nat]
    BY <2>1, Telling DEF ViewInv
  <2>4. ViewTypeOK'
    <3>1. stack' \in Seq(Entry) /\ waiting' \in BOOLEAN
      BY <2>2 DEF ViewInv, ViewTypeOK
    <3> QED BY <2>1, <2>3, <3>1 DEF ViewInv, ViewTypeOK
  <2>5. Stacked(coming)'
    BY <2>1 DEF ViewInv, Stacked
  <2>6. Stacked(stack)'
    <3>1. stack' = stack \/ stack' = coming
      BY <2>2
    <3> QED BY <2>1, <3>1 DEF ViewInv, Stacked
  <2>7. Counted'
    <3> SUFFICES ASSUME NEW v \in 1..MaxViews
                 PROVE  /\ told'[v] > 0 => v \in DOMAIN pushed /\ pushed[v] /\ v \notin V!ViewsOn(coming)
                        /\ v \in DOMAIN pushed /\ pushed[v] /\ v \notin V!ViewsOn(coming) => told'[v] > 0 \/ v \in going'
                        /\ v \in going' => v \in DOMAIN pushed /\ v \notin V!ViewsOn(coming)
                        /\ v \in going' /\ v \notin retried' => told'[v] = 0
                        /\ v \notin retried' => told'[v] <= 1
      BY <2>1 DEF Counted, V!ViewsOn
    <3>1. /\ told[v] \in Nat
          /\ told[v] > 0 => v \in DOMAIN pushed /\ pushed[v] /\ v \notin V!ViewsOn(coming)
          /\ v \in DOMAIN pushed /\ pushed[v] /\ v \notin V!ViewsOn(coming) => told[v] > 0 \/ v \in going
          /\ v \in going => v \in DOMAIN pushed /\ v \notin V!ViewsOn(coming)
          /\ v \in going /\ v \notin retried => told[v] = 0
          /\ v \notin retried => told[v] <= 1
      BY DEF ViewInv, ViewTypeOK, Counted
    <3>2. told'[v] = IF v \in going /\ v \in DOMAIN pushed /\ pushed[v] THEN told[v] + 1 ELSE told[v]
      BY <2>1, Telling DEF ViewInv
    <3>3. v \notin going' \/ (v \in going /\ v \in retried')
      BY <2>2
    <3>4. v \notin retried' => v \notin retried
      BY <2>2
    <3> QED BY <3>1, <3>2, <3>3, <3>4
  <2>8. ~waiting' => stack' = coming' /\ going' = {}
    BY <2>1, <2>2
  <2> QED BY <2>4, <2>5, <2>6, <2>7, <2>8 DEF ViewInv
<1>5. CASE \/ \E t \in Toasts : V!HideToast(t) \/ \E b \in BOOLEAN : V!PushToast(t, b)
           \/ V!ToastOver \/ V!Close \/ V!Receive \/ UNCHANGED V!shimVars
  BY <1>1, <1>5, Zenon DEF V!HideToast, V!PushToast, V!ToastOver, V!Close, V!Receive, V!shimVars
<1> QED BY <1>2, <1>3, <1>4, <1>5 DEF V!NextShim

(******************************** toasts *********************************)
Message == {None} \cup [toast : Toasts, handler : Nat \cup {None}]
Answers(x, hs) == x # None /\ x.handler # None => x.handler \in hs
(* What the page will draw when all has arrived can be pressed. *)
WillAnswer(w, x, hs) == IF w = <<>> THEN Answers(x, hs) ELSE Answers(w[Len(w)], hs)
(* Each toast has a handler of its own or none, and those are all.           *)
Numbered == /\ DOMAIN toast = Toasts /\ nextHandler \in Nat
            /\ \A t \in Toasts : toast[t].handler = None \/ toast[t].handler \in 1..nextHandler
OfItsOwn == \A t, u \in Toasts : toast[t].handler = toast[u].handler => t = u \/ toast[t].handler = None
AllKept == handlers = {toast[t].handler : t \in Toasts} \ {None}
ToastInv == /\ wire \in Seq(Message) /\ Numbered /\ OfItsOwn /\ AllKept
            /\ WillAnswer(wire, onPage, handlers) /\ (~windowOpen => onPage = None)

(* What is told last is what the page will draw. *)
LEMMA TellingLast ==
  ASSUME NEW hs, NEW w \in Seq(Message), NEW x, NEW y \in Message, Answers(y, hs)
  PROVE  Append(w, y) \in Seq(Message) /\ WillAnswer(Append(w, y), x, hs)
<1> DEFINE v == Append(w, y)
<1>1. v \in Seq(Message) /\ v # <<>> /\ v[Len(v)] = y
  OBVIOUS
<1> HIDE DEF v
<1> QED BY <1>1 DEF WillAnswer, v

LEMMA Hearing ==
  ASSUME NEW hs, NEW w \in Seq(Message), w # <<>>, NEW x, NEW y, WillAnswer(w, x, hs),
         y = Head(w) \/ y = None
  PROVE  Tail(w) \in Seq(Message) /\ WillAnswer(Tail(w), y, hs)
<1> DEFINE v == Tail(w)  n == Len(w)
<1>1. /\ v \in Seq(Message) /\ n \in Nat /\ n >= 1 /\ Len(v) = n - 1 /\ Head(w) = w[1]
      /\ \A i \in 1..(n - 1) : v[i] = w[i + 1]
  OBVIOUS
<1>2. Answers(w[n], hs)
  BY DEF WillAnswer
<1>3. v = <<>> <=> n = 1
  <2>1. v = <<>> <=> Len(v) = 0
    <3> HIDE DEF v
    <3> QED BY <1>1
  <2> QED BY <1>1, <2>1
<1> HIDE DEF v, n
<1>4. CASE n = 1
  BY <1>1, <1>2, <1>3, <1>4 DEF WillAnswer, Answers, v
<1>5. CASE n # 1
  <2>1. n - 1 \in 1..(n - 1) /\ v[Len(v)] = w[n] /\ v # <<>>
    BY <1>1, <1>3, <1>5
  <2> QED BY <1>1, <1>2, <2>1 DEF WillAnswer, v
<1> QED BY <1>4, <1>5

LEMMA ToastsInductive == ToastInv /\ [V!NextShim]_(V!shimVars) => ToastInv'
<1> SUFFICES ASSUME ToastInv, [V!NextShim]_(V!shimVars) PROVE ToastInv'
  OBVIOUS
<1>1. ASSUME UNCHANGED <<toast, handlers, nextHandler>>, wire' \in Seq(Message), WillAnswer(wire', onPage', handlers),
             ~windowOpen' => onPage' = None
      PROVE  ToastInv'
  <2>1. Numbered' /\ OfItsOwn' /\ AllKept'
    BY <1>1 DEF ToastInv, Numbered, OfItsOwn, AllKept
  <2> QED BY <1>1, <2>1 DEF ToastInv
<1>2. ASSUME UNCHANGED V!toastVars PROVE ToastInv'
  <2>1. UNCHANGED <<toast, handlers, nextHandler, onPage, wire, windowOpen>>
    BY <1>2 DEF V!toastVars
  <2>2. wire' \in Seq(Message) /\ WillAnswer(wire', onPage', handlers) /\ (~windowOpen' => onPage' = None)
    BY <2>1 DEF ToastInv
  <2> QED BY <1>1, <2>1, <2>2
<1>3. ASSUME NEW b \in BOOLEAN, V!Push(b) PROVE ToastInv'
  BY <1>2, <1>3 DEF V!Push
<1>4. ASSUME NEW o, V!PopView(o) PROVE ToastInv'
  BY <1>2, <1>4 DEF V!PopView
<1>5. CASE V!Flush \/ V!Retry \/ UNCHANGED V!shimVars
  BY <1>2, <1>5 DEF V!Flush, V!Retry, V!shimVars
<1>6. ASSUME NEW t \in Toasts, NEW h \in Nat \cup {None}, NEW visible, NEW y \in Message,
             toast' = [toast EXCEPT ![t] = [shown |-> visible, handler |-> h]],
             handlers' = (handlers \ {toast[t].handler}) \cup ({h} \ {None}),
             \/ nextHandler' = nextHandler /\ h = None
             \/ nextHandler' = nextHandler + 1 /\ h = nextHandler + 1,
             wire' = Append(wire, y), y = None \/ y.handler = h, UNCHANGED <<onPage, windowOpen>>
      PROVE  ToastInv'
  <2>1. DOMAIN toast = Toasts /\ nextHandler \in Nat /\ \A u \in Toasts : toast[u].handler = None \/ toast[u].handler \in 1..nextHandler
    BY DEF ToastInv, Numbered
  <2>2. DOMAIN toast' = Toasts /\ toast'[t].handler = h /\ \A u \in Toasts : u # t => toast'[u].handler = toast[u].handler
    BY <1>6, <2>1
  <2>3. nextHandler' \in Nat /\ 1..nextHandler \subseteq 1..nextHandler' /\ (h = None \/ h \in 1..nextHandler')
        /\ h \notin 1..nextHandler
    BY <1>6, <2>1, NoneAssumption
  <2>4. Numbered'
    BY <2>1, <2>2, <2>3 DEF Numbered
  <2>5. \A u \in Toasts : u # t => toast[u].handler = None \/ toast[u].handler # h
    BY <2>1, <2>3
  <2>6. OfItsOwn'
    BY <2>2, <2>5 DEF OfItsOwn, ToastInv
  <2>7. AllKept'
    <3>1. ASSUME NEW x \in handlers' PROVE x \in {toast'[u].handler : u \in Toasts} \ {None}
      <4>1. CASE x \in {h} \ {None}
        BY <2>2, <4>1
      <4>2. CASE x \in handlers \ {toast[t].handler}
        <5>1. PICK u \in Toasts : x = toast[u].handler /\ x # None
          BY <4>2 DEF ToastInv, AllKept
        <5>2. u # t
          BY <4>2, <5>1
        <5> QED BY <2>2, <5>1, <5>2
      <4> QED BY <1>6, <4>1, <4>2
    <3>2. ASSUME NEW u \in Toasts, toast'[u].handler # None PROVE toast'[u].handler \in handlers'
      <4>1. CASE u = t
        BY <1>6, <2>2, <3>2, <4>1
      <4>2. CASE u # t
        <5>1. toast'[u].handler = toast[u].handler /\ toast[u].handler \in handlers
          BY <2>2, <3>2, <4>2 DEF ToastInv, AllKept
        <5>2. toast[u].handler # toast[t].handler
          BY <3>2, <4>2, <5>1 DEF ToastInv, OfItsOwn
        <5> QED BY <1>6, <5>1, <5>2
      <4> QED BY <4>1, <4>2
    <3>3. handlers' = {toast'[u].handler : u \in Toasts} \ {None}
      BY <3>1, <3>2
    <3> QED BY <3>3 DEF AllKept
  <2>8. Answers(y, handlers')
    BY <1>6 DEF Answers
  <2>9. wire' \in Seq(Message) /\ WillAnswer(wire', onPage', handlers')
    <3>1. wire \in Seq(Message)
      BY DEF ToastInv
    <3> QED BY <1>6, <2>8, <3>1, TellingLast
  <2> QED BY <1>6, <2>4, <2>6, <2>7, <2>9 DEF ToastInv
<1>7. ASSUME NEW t \in Toasts, NEW b \in BOOLEAN, V!PushToast(t, b) PROVE ToastInv'
  <2> DEFINE h == IF b THEN nextHandler + 1 ELSE None  y == [toast |-> t, handler |-> h]
  <2>0. nextHandler \in Nat /\ nextHandler + 1 \in Nat /\ None \notin Nat
    BY NoneAssumption DEF ToastInv, Numbered
  <2>1. h \in Nat \cup {None} /\ y \in Message /\ y.handler = h
    BY <2>0 DEF Message
  <2>2. toast' = [toast EXCEPT ![t] = [shown |-> TRUE, handler |-> h]]
    BY <1>7 DEF V!PushToast
  <2>3. handlers' = (handlers \ {toast[t].handler}) \cup (IF b THEN {h} ELSE {})
    BY <1>7 DEF V!PushToast, V!Released
  <2>4. wire' = Append(wire, y) /\ UNCHANGED <<onPage, windowOpen>>
    BY <1>7 DEF V!PushToast
  <2>5. nextHandler' = IF b THEN nextHandler + 1 ELSE nextHandler
    BY <1>7 DEF V!PushToast
  <2>6. /\ (IF b THEN {h} ELSE {}) = {h} \ {None}
        /\ ((nextHandler' = nextHandler /\ h = None) \/ (nextHandler' = nextHandler + 1 /\ h = nextHandler + 1))
    <3>1. CASE b
      <4>1. h = nextHandler + 1 /\ nextHandler' = nextHandler + 1 /\ h # None
        BY <2>0, <2>5, <3>1
      <4> HIDE DEF h
      <4>2. {h} = {h} \ {None}
        BY <4>1
      <4> QED BY <3>1, <4>1, <4>2
    <3>2. CASE ~b
      <4>1. h = None /\ nextHandler' = nextHandler
        BY <2>5, <3>2
      <4> HIDE DEF h
      <4>2. {} = {h} \ {None}
        BY <4>1
      <4> QED BY <3>2, <4>1, <4>2
    <3> QED BY <3>1, <3>2
  <2> HIDE DEF h, y
  <2>7. handlers' = (handlers \ {toast[t].handler}) \cup ({h} \ {None})
    BY <2>3, <2>6
  <2> QED BY <1>6, <2>1, <2>2, <2>4, <2>6, <2>7
<1>8. ASSUME NEW t \in Toasts, V!HideToast(t) PROVE ToastInv'
  <2> DEFINE h == None  y == None
  <2>1. h \in Nat \cup {None} /\ y \in Message /\ y = None /\ h = None
    BY DEF Message
  <2>2. toast' = [toast EXCEPT ![t] = [shown |-> FALSE, handler |-> h]]
    BY <1>8 DEF V!HideToast
  <2>3. handlers' = (handlers \ {toast[t].handler}) \cup ({h} \ {None})
    BY <1>8 DEF V!HideToast, V!Released
  <2>4. wire' = Append(wire, y) /\ UNCHANGED <<onPage, windowOpen, nextHandler>>
    BY <1>8 DEF V!HideToast
  <2> HIDE DEF h, y
  <2> QED BY <1>6, <2>1, <2>2, <2>3, <2>4
<1>9. CASE V!ToastOver \/ V!Close
  <2>1. onPage' = None /\ UNCHANGED <<toast, handlers, nextHandler, wire>>
    BY <1>9 DEF V!ToastOver, V!Close
  <2>2. wire' \in Seq(Message) /\ WillAnswer(wire', onPage', handlers)
    BY <2>1 DEF ToastInv, WillAnswer, Answers
  <2> QED BY <1>1, <2>1, <2>2
<1>10. CASE V!Receive
  <2>1. wire # <<>> /\ wire' = Tail(wire) /\ UNCHANGED <<toast, handlers, nextHandler, windowOpen>>
        /\ onPage' = (IF windowOpen THEN Head(wire) ELSE onPage)
    BY <1>10 DEF V!Receive
  <2>2. wire \in Seq(Message) /\ WillAnswer(wire, onPage, handlers) /\ (~windowOpen => onPage = None)
    BY DEF ToastInv
  <2>3. wire' \in Seq(Message) /\ WillAnswer(wire', onPage', handlers)
    BY <2>1, <2>2, Hearing
  <2> QED BY <1>1, <2>1, <2>2, <2>3
<1> QED BY <1>3, <1>4, <1>5, <1>7, <1>8, <1>9, <1>10 DEF V!NextShim

(* The stack of views keeps its root; an onPop is queued for a view that     *)
(* goes for good, for every one that has gone, and once unless a render was    *)
(* tried again; and a press on a toast finds its handler: for any number of    *)
(* views and toasts, whenever React runs the updaters and renders              *)
(* (api-shim/navigation.ts, feedback.ts).                                      *)
THEOREM ViewsAreSound == Spec => []ViewsIntact
<1> DEFINE Inv == part = "views" => ViewInv /\ ToastInv
<1>1. Init => Inv
  <2> SUFFICES ASSUME V!InitShim PROVE ViewInv /\ ToastInv
    BY DEF Init
  <2> DEFINE x == [key |-> 0, view |-> 0]
  <2>1. /\ stack = <<x>> /\ coming = <<x>> /\ waiting = FALSE /\ going = {} /\ pushed = <<>>
        /\ told = [v \in 1..MaxViews |-> 0] /\ retried = {}
        /\ toast = [t \in Toasts |-> [shown |-> FALSE, handler |-> None]] /\ handlers = {} /\ nextHandler = 0
        /\ onPage = None /\ windowOpen = TRUE /\ wire = <<>>
    BY DEF V!InitShim
  <2>2. x \in Entry /\ x.key = 0 /\ x.view = 0
    BY DEF Entry
  <2> HIDE DEF x
  <2>3. ViewTypeOK
    <3>1. stack \in Seq(Entry) /\ coming \in Seq(Entry)
      BY <2>1, <2>2
    <3>2. pushed \in Seq(BOOLEAN) /\ Len(pushed) = 0 /\ MaxViews \in Nat
      BY <2>1, SizesAssumption
    <3>3. told \in [1..MaxViews -> Nat]
      BY <2>1
    <3>4. Len(pushed) <= MaxViews
      BY <3>2
    <3>5. waiting \in BOOLEAN
      BY <2>1, Zenon
    <3> QED BY <3>1, <3>2, <3>3, <3>4, <3>5, Zenon DEF ViewTypeOK
  <2>4. Stacked(stack) /\ Stacked(coming)
    BY <2>1, <2>2 DEF Stacked, Rooted, Apart
  <2>5. Counted
    BY <2>1, SizesAssumption DEF Counted
  <2>6. ToastInv
    <3>1. Numbered /\ OfItsOwn /\ AllKept
      BY <2>1 DEF Numbered, OfItsOwn, AllKept
    <3>2. wire \in Seq(Message) /\ WillAnswer(wire, onPage, handlers)
      BY <2>1 DEF WillAnswer, Answers
    <3> QED BY <2>1, <3>1, <3>2 DEF ToastInv
  <2> QED BY <2>1, <2>3, <2>4, <2>5, <2>6 DEF ViewInv
<1>2. Inv /\ [Next]_vars => Inv'
  <2> SUFFICES ASSUME ViewInv, ToastInv, part = "views", [Next]_vars PROVE ViewInv' /\ ToastInv'
    BY DEF Next, vars
  <2>1. [V!NextShim]_(V!shimVars)
    BY DEF Next, vars, V!shimVars, V!viewVars, V!toastVars
  <2> QED BY <2>1, ViewsInductive, ToastsInductive
<1>3. Inv => ViewsIntact
  <2> SUFFICES ASSUME ViewInv, ToastInv PROVE V!ViewsIntact
    BY DEF ViewsIntact
  <2>1. V!StackSound
    <3>1. \A s \in {stack, coming} : s # <<>> /\ s[1].view = 0 /\ \A i \in DOMAIN s : s[i].key = i - 1
      BY DEF ViewInv, Stacked, Rooted
    <3>2. ASSUME NEW v \in DOMAIN pushed
          PROVE  /\ told[v] > 0 => pushed[v] /\ v \notin V!ViewsOn(coming)
                 /\ ~waiting /\ pushed[v] /\ v \notin V!ViewsOn(stack) => told[v] > 0
                 /\ v \notin retried => told[v] <= 1
      <4>1. v \in 1..MaxViews
        BY SizesAssumption DEF ViewInv, ViewTypeOK
      <4>2. ~waiting => coming = stack /\ v \notin going
        BY DEF ViewInv
      <4> QED BY <4>1, <4>2 DEF ViewInv, Counted
    <3> QED BY <3>1, <3>2 DEF V!StackSound
  <2>2. V!ToastsAnswer
    BY DEF ToastInv, WillAnswer, Answers, AllKept, V!ToastsAnswer
  <2> QED BY <2>1, <2>2 DEF V!ViewsIntact
<1> QED BY <1>1, <1>2, <1>3, PTL DEF Spec

(************************ what the page reads ************************)
(* The page's instance has sequences of its own. *)
LEMMA PageWords ==
  /\ \A s : X!ToSet(s) = {s[i] : i \in DOMAIN s}
  /\ \A s, e : X!Contains(s, e) = \E i \in 1..Len(s) : s[i] = e
BY DEF X!ToSet, X!Contains

LEMMA Listed == ASSUME NEW n \in Nat, NEW T, NEW f \in [1..n -> T] PROVE f \in Seq(T) /\ Len(f) = n
OBVIOUS

LEMMA FlattenIs ==
  ASSUME NEW T, NEW s \in Seq(Seq(T))
  PROVE  X!FlattenSeq(s) \in Seq(T)
<1> DEFINE n == Len(s)
           Eq(g) == [k \in 1..n |-> IF k = 1 THEN s[k] ELSE g[k - 1] \o s[k]]
           h == CHOOSE g : g = Eq(g)
<1>1. CASE n = 0
  <2>1. s = <<>>
    BY <1>1
  <2>2. X!FlattenSeq(s) = <<>>
    BY <1>1, <2>1 DEF X!FlattenSeq
  <2> QED BY <2>2
<1>2. CASE n # 0
  <2>1. n \in Nat /\ n >= 1 /\ \A k \in 1..n : s[k] \in Seq(T)
    BY <1>2
  <2>2. X!FlattenSeq(s) = h[n]
    BY <1>2 DEF X!FlattenSeq
  <2> HIDE DEF n
  <2> DEFINE At == [k \in 0..n |-> Seq(T)]
             Step == [k \in 1..n |-> [x \in Seq(T) |-> IF k = 1 THEN s[k] ELSE x \o s[k]]]
  <2>3. \A k \in 1..n : \A x \in Seq(T) : Step[k][x] = (IF k = 1 THEN s[k] ELSE x \o s[k]) /\ Step[k][x] \in Seq(T)
    BY <2>1
  <2>4. PICK f : Steps(f, n, At, <<>>, Step)
    <3>1. Leads(n, At, Step) /\ <<>> \in At[0]
      <4>1. \A k \in 1..n : At[k] = Seq(T) /\ At[k - 1] = Seq(T)
        BY <2>1
      <4>2. At[0] = Seq(T)
        BY <2>1
      <4> HIDE DEF At, Step
      <4> QED BY <2>3, <4>1, <4>2 DEF Leads
    <3> HIDE DEF At, Step, h
    <3> QED BY <2>1, <3>1, Recursion, Zenon
  <2>5. \A k \in 0..n : f[k] \in Seq(T)
    BY <2>4 DEF Steps
  <2> DEFINE q == [k \in 1..n |-> f[k]]
  <2>6. q = Eq(q)
    <3>1. \A k \in 1..n : k \in 0..n /\ k - 1 \in 0..n /\ (k # 1 => k - 1 \in 1..n)
      BY <2>1
    <3>2. \A k \in 1..n : f[k] = Step[k][f[k - 1]]
      BY <2>4 DEF Steps
    <3> HIDE DEF Step
    <3>3. \A k \in 1..n : f[k] = IF k = 1 THEN s[k] ELSE f[k - 1] \o s[k]
      BY <2>3, <2>5, <3>1, <3>2
    <3>4. \A k \in 1..n : q[k] = IF k = 1 THEN s[k] ELSE q[k - 1] \o s[k]
      BY <3>1, <3>3
    <3>5. q = [k \in 1..n |-> q[k]]
      OBVIOUS
    <3> HIDE DEF q
    <3> QED BY <3>4, <3>5
  <2>7. h = Eq(h)
    <3> HIDE DEF q
    <3> QED BY <2>6, Zenon
  <2> DEFINE At2 == [k \in 0..n - 1 |-> Seq(T)]
             r == [k \in 0..n - 1 |-> h[k + 1]]
  <2>8. \A k \in 1..n : h[k] = IF k = 1 THEN s[k] ELSE h[k - 1] \o s[k]
    <3> HIDE DEF h
    <3> QED BY <2>7
  <2> HIDE DEF h, At, Step
  <2>9. r[0] \in At2[0] /\ \A k \in 1..(n - 1) : r[k - 1] \in At2[k - 1] => r[k] \in At2[k]
    <3>1. \A k \in 1..(n - 1) : k - 1 \in 0..n - 1 /\ k \in 0..n - 1 /\ k + 1 \in 1..n /\ k + 1 # 1 /\ (k + 1) - 1 = k /\ (k - 1) + 1 = k
      BY <2>1
    <3>2. 0 \in 0..n - 1 /\ 1 \in 1..n /\ 0 + 1 = 1
      BY <2>1
    <3>3. r[0] = s[1] /\ \A k \in 1..(n - 1) : r[k] = r[k - 1] \o s[k + 1]
      BY <2>8, <3>1, <3>2
    <3>4. At2[0] = Seq(T) /\ \A k \in 1..(n - 1) : At2[k] = Seq(T) /\ At2[k - 1] = Seq(T) /\ s[k + 1] \in Seq(T)
      BY <2>1, <3>1, <3>2
    <3>5. s[1] \in Seq(T)
      BY <2>1, <3>2
    <3> HIDE DEF r, At2
    <3>6. ASSUME NEW k \in 1..(n - 1), r[k - 1] \in At2[k - 1] PROVE r[k] \in At2[k]
      <4>1. r[k - 1] \in Seq(T) /\ s[k + 1] \in Seq(T) /\ At2[k] = Seq(T) /\ r[k] = r[k - 1] \o s[k + 1]
        BY <3>3, <3>4, <3>6
      <4> QED BY <4>1
    <3> QED BY <3>3, <3>4, <3>5, <3>6
  <2>10. \A k \in 0..n - 1 : r[k] \in At2[k]
    <3> DEFINE l == n - 1
    <3>1. l \in Nat
      BY <2>1
    <3>2. r[0] \in At2[0] /\ \A k \in 1..l : r[k - 1] \in At2[k - 1] => r[k] \in At2[k]
      BY <2>9
    <3> HIDE DEF r, At2, l
    <3>3. \A k \in 0..l : r[k] \in At2[k]
      BY <3>1, <3>2, Reaches
    <3> QED BY <3>3 DEF l
  <2>11. n - 1 \in 0..n - 1 /\ (n - 1) + 1 = n
    BY <2>1
  <2> QED BY <2>2, <2>10, <2>11
<1> QED BY <1>1, <1>2

LEMMA FilterIs ==
  ASSUME NEW T, NEW s \in Seq(T), NEW kept
  PROVE  X!Filter(s, kept) \in Seq(T \cap kept)
<1> DEFINE n == Len(s)  K == T \cap kept
           Next1(x, k) == IF s[k] \in kept THEN Append(x, s[k]) ELSE x
           Eq(g) == [k \in 0..n |-> IF k = 0 THEN <<>> ELSE IF s[k] \in kept THEN Append(g[k - 1], s[k]) ELSE g[k - 1]]
           h == CHOOSE g : g = Eq(g)
           At == [k \in 0..n |-> Seq(K)]
           Step == [k \in 1..n |-> [x \in Seq(K) |-> Next1(x, k)]]
<1>1. X!Filter(s, kept) = h[n]
  BY DEF X!Filter
<1>2. n \in Nat /\ DOMAIN s = 1..n /\ \A k \in 1..n : s[k] \in T
  OBVIOUS
<1> HIDE DEF n
<1>3. ASSUME NEW k \in 1..n, NEW x \in Seq(K) PROVE Next1(x, k) \in Seq(K)
  BY <1>2
<1>4. <<>> \in Seq(K) /\ \A k \in 0..n : At[k] = Seq(K)
  OBVIOUS
<1>5. \A k \in 1..n : \A x \in Seq(K) : Step[k][x] = Next1(x, k) /\ Step[k][x] \in Seq(K)
  <2> HIDE DEF At, Next1, K
  <2> QED BY <1>3
<1>6. PICK f : Steps(f, n, At, <<>>, Step)
  <2>1. \A k \in 1..n : At[k] = Seq(K) /\ At[k - 1] = Seq(K)
    BY <1>2
  <2>2. Leads(n, At, Step) /\ <<>> \in At[0]
    <3>1. 0 \in 0..n
      BY <1>2
    <3> HIDE DEF At, Step, K
    <3>2. <<>> \in At[0]
      BY <1>4, <3>1
    <3>3. Leads(n, At, Step)
      BY <1>5, <2>1 DEF Leads
    <3> QED BY <3>2, <3>3
  <2> HIDE DEF At, Step, h
  <2> QED BY <1>2, <2>2, Recursion, Zenon
<1>7. f = Eq(f)
  <2>1. \A k \in 0..n : k # 0 => k - 1 \in 0..n /\ k \in 1..n
    BY <1>2
  <2> HIDE DEF At, Step, Next1, K
  <2>2. \A k \in 0..n : f[k] = IF k = 0 THEN <<>> ELSE Next1(f[k - 1], k)
    BY <1>4, <1>5, <1>6, <2>1 DEF Steps
  <2>3. f = [k \in 0..n |-> f[k]]
    BY <1>6 DEF Steps
  <2> QED BY <2>2, <2>3 DEF Next1
<1>8. h = Eq(h)
  BY <1>7, Zenon
<1> HIDE DEF Step
<1>9. h[n] \in Seq(K)
  <2>0. h = [k \in 0..n |-> IF k = 0 THEN <<>> ELSE Next1(h[k - 1], k)]
    <3> HIDE DEF h
    <3> QED BY <1>8 DEF Next1
  <2> HIDE DEF h, Next1, K
  <2>1. h[0] \in At[0]
    BY <1>2, <1>4, <2>0
  <2>2. \A k \in 1..n : h[k - 1] \in At[k - 1] => h[k] \in At[k]
    <3>1. \A k \in 1..n : k \in 0..n /\ k # 0 /\ k - 1 \in 0..n
      BY <1>2
    <3> HIDE DEF At
    <3> QED BY <1>3, <1>4, <2>0, <3>1
  <2> HIDE DEF At
  <2>3. \A k \in 0..n : h[k] \in At[k]
    BY <1>2, <2>1, <2>2, Reaches
  <2>4. n \in 0..n
    BY <1>2
  <2> QED BY <1>4, <2>3, <2>4
<1> QED BY <1>1, <1>9

(* A filtered list is of the rows of the list. *)
LEMMA FilterRowsIs ==
  ASSUME NEW T, NEW rows \in Seq(T), NEW needle, NEW filtering, NEW keep
  PROVE  X!FilterRows(rows, needle, filtering, keep) \in Seq(T)
<1> DEFINE n == Len(rows)
           Of(r) == Grade[needle][r.id]
           Eq(g) == [k \in 0..n |-> IF k = 0 THEN <<>>
                                    ELSE IF Of(rows[k]) = 0 \/ X!Contains(g[k - 1], rows[k].section) THEN g[k - 1]
                                    ELSE Append(g[k - 1], rows[k].section)]
           h == CHOOSE g : g = Eq(g)
           sections == h[n]
           Graded(s, g) == X!Filter(rows, {r \in X!ToSet(rows) : r.section = s /\ Of(r) = g})
           Bucket(s) == Graded(s, 1) \o Graded(s, 2) \o Graded(s, 3)
           ordered == IF keep THEN sections
                      ELSE X!FlattenSeq([g \in 1..3 |-> X!Filter(sections, {s \in X!ToSet(sections) : Of(Bucket(s)[1]) = g})])
           all == [i \in DOMAIN ordered |-> Bucket(ordered[i])]
           Q == {rows[k].section : k \in 1..n}
           Next1(x, k) == IF Of(rows[k]) = 0 \/ X!Contains(x, rows[k].section) THEN x ELSE Append(x, rows[k].section)
           At == [k \in 0..n |-> Seq(Q)]
           Step == [k \in 1..n |-> [x \in Seq(Q) |-> Next1(x, k)]]
<1>1. X!FilterRows(rows, needle, filtering, keep) = IF ~filtering \/ needle = "" THEN rows ELSE X!FlattenSeq(all)
  BY DEF X!FilterRows
<1>2. n \in Nat
  OBVIOUS
<1> HIDE DEF n, Bucket, Graded
<1>3. \A k \in 1..n : rows[k].section \in Q
  OBVIOUS
<1> HIDE DEF Q, Of
<1>4. ASSUME NEW k \in 1..n, NEW x \in Seq(Q) PROVE Next1(x, k) \in Seq(Q)
  BY <1>3
<1> HIDE DEF Next1
<1>5. <<>> \in Seq(Q) /\ \A k \in 0..n : At[k] = Seq(Q)
  OBVIOUS
<1>6. \A k \in 1..n : \A x \in Seq(Q) : Step[k][x] = Next1(x, k) /\ Step[k][x] \in Seq(Q)
  BY <1>4
<1> HIDE DEF At, Step
<1>7. PICK f : Steps(f, n, At, <<>>, Step)
  <2>1. 0 \in 0..n /\ \A k \in 1..n : k - 1 \in 0..n /\ k \in 0..n
    BY <1>2
  <2>2. \A k \in 1..n : At[k] = Seq(Q) /\ At[k - 1] = Seq(Q)
    BY <1>5, <2>1
  <2>3. <<>> \in At[0]
    BY <1>5, <2>1
  <2>4. Leads(n, At, Step)
    BY <1>6, <2>2 DEF Leads
  <2> HIDE DEF h
  <2> QED BY <1>2, <2>3, <2>4, Recursion, Zenon
<1>8. f = Eq(f)
  <2>1. \A k \in 0..n : k # 0 => k - 1 \in 0..n /\ k \in 1..n
    BY <1>2
  <2>2. \A k \in 0..n : f[k] = IF k = 0 THEN <<>> ELSE Next1(f[k - 1], k)
    BY <1>5, <1>6, <1>7, <2>1 DEF Steps
  <2>3. f = [k \in 0..n |-> f[k]]
    BY <1>7 DEF Steps
  <2> QED BY <2>2, <2>3 DEF Next1
<1>9. h = Eq(h)
  BY <1>8, Zenon
<1>10. sections \in Seq(Q)
  <2>0. h = [k \in 0..n |-> IF k = 0 THEN <<>> ELSE Next1(h[k - 1], k)]
    <3> HIDE DEF h
    <3> QED BY <1>9 DEF Next1
  <2> HIDE DEF h
  <2>1. h[0] \in At[0]
    <3>1. 0 \in 0..n
      BY <1>2
    <3>2. h[0] = <<>> /\ At[0] = Seq(Q)
      BY <1>5, <2>0, <3>1
    <3> QED BY <1>5, <3>2
  <2>2. \A k \in 1..n : h[k - 1] \in At[k - 1] => h[k] \in At[k]
    <3>1. \A k \in 1..n : k \in 0..n /\ k # 0 /\ k - 1 \in 0..n
      BY <1>2
    <3> QED BY <1>4, <1>5, <2>0, <3>1
  <2>3. \A k \in 0..n : h[k] \in At[k]
    BY <1>2, <2>1, <2>2, Reaches
  <2>4. n \in 0..n
    BY <1>2
  <2> QED BY <1>5, <2>3, <2>4
<1>11. ASSUME NEW s PROVE Bucket(s) \in Seq(T)
  <2>1. ASSUME NEW g PROVE Graded(s, g) \in Seq(T)
    <3> DEFINE In == {r \in X!ToSet(rows) : r.section = s /\ Of(r) = g}
    <3>1. Graded(s, g) = X!Filter(rows, In)
      BY DEF Graded
    <3> HIDE DEF In
    <3>2. X!Filter(rows, In) \in Seq(T \cap In)
      BY FilterIs
    <3>3. T \cap In \subseteq T
      OBVIOUS
    <3> QED BY <3>1, <3>2, <3>3
  <2>2. Graded(s, 1) \in Seq(T) /\ Graded(s, 2) \in Seq(T) /\ Graded(s, 3) \in Seq(T)
    BY <2>1
  <2> QED BY <2>2 DEF Bucket
<1> HIDE DEF sections
<1>12. ordered \in Seq(Q)
  <2> DEFINE In(g) == {s \in X!ToSet(sections) : Of(Bucket(s)[1]) = g}
             b == [g \in 1..3 |-> X!Filter(sections, In(g))]
             QQ == Seq(Q)
  <2>1. ASSUME NEW g \in 1..3 PROVE X!Filter(sections, In(g)) \in Seq(Q)
    <3> HIDE DEF In
    <3>1. X!Filter(sections, In(g)) \in Seq(Q \cap In(g))
      BY <1>10, FilterIs
    <3>2. Q \cap In(g) \subseteq Q
      OBVIOUS
    <3> QED BY <3>1, <3>2
  <2>2. b \in [1..3 -> QQ]
    <3> HIDE DEF In
    <3> QED BY <2>1
  <2>3. b \in Seq(QQ)
    <3> HIDE DEF b, QQ
    <3> QED BY <2>2, Listed
  <2>4. X!FlattenSeq(b) \in Seq(Q)
    <3> HIDE DEF b
    <3> QED BY <2>3, FlattenIs
  <2>5. ordered = IF keep THEN sections ELSE X!FlattenSeq(b)
    OBVIOUS
  <2> HIDE DEF ordered, b
  <2> QED BY <1>10, <2>4, <2>5
<1> HIDE DEF ordered
<1>13. X!FlattenSeq(all) \in Seq(T)
  <2> DEFINE TT == Seq(T)  m == Len(ordered)
  <2>1. m \in Nat /\ DOMAIN ordered = 1..m
    BY <1>12
  <2> HIDE DEF m
  <2>2. all \in [1..m -> TT]
    BY <1>11, <2>1
  <2>3. all \in Seq(TT)
    <3> HIDE DEF all, TT
    <3> QED BY <2>1, <2>2, Listed
  <2> HIDE DEF all
  <2> QED BY <2>3, FlattenIs
<1> HIDE DEF all
<1> QED BY <1>1, <1>13

(* What a panel's frames are made of. *)
Usable == {e \in Elements : e.kind \in {"action", "submenu"}}
Frame == Seq(Seq(Usable))

LEMMA SectionsAreFrames == ASSUME NEW children \in Seq(Elements) PROVE X!ReadSections(children) \in Frame
<1> DEFINE n == Len(children)
           Fl(acc) == IF acc.loose = <<>> THEN acc.done ELSE Append(acc.done, acc.loose)
           Add(acc, c) == IF c.kind = "section"
                          THEN [done |-> Append(Fl(acc), X!ReadEntries(c)), loose |-> <<>>]
                          ELSE IF c.kind \in {"action", "submenu"} THEN [acc EXCEPT !.loose = Append(@, c)]
                          ELSE acc
           base == [done |-> <<>>, loose |-> <<>>]
           Eq(g) == [k \in 0..n |-> IF k = 0 THEN base ELSE Add(g[k - 1], children[k])]
           h == CHOOSE g : g = Eq(g)
           U == Seq(Usable)
           A == [done : Seq(U), loose : U]
           At == [k \in 0..n |-> A]
           Step == [k \in 1..n |-> [x \in A |-> Add(x, children[k])]]
<1>1. X!ReadSections(children) = Fl(h[n])
  BY DEF X!ReadSections
<1>2. n \in Nat /\ \A k \in 1..n : children[k] \in Elements
  OBVIOUS
<1> HIDE DEF n
<1>3. ASSUME NEW acc \in A PROVE Fl(acc) \in Seq(U) /\ acc.done \in Seq(U) /\ acc.loose \in U
  <2>1. acc.done \in Seq(U) /\ acc.loose \in U
    <3> HIDE DEF U
    <3> QED OBVIOUS
  <2> HIDE DEF U
  <2> QED BY <2>1
<1>4. ASSUME NEW c \in Elements, c.kind = "section" PROVE X!ReadEntries(c) \in U
  <2> DEFINE In == {e \in X!ToSet(c.entries) : e.kind \in {"action", "submenu"}}
  <2>1. c.entries \in Seq(Elements)
    BY <1>4, PageAssumption
  <2>2. X!Filter(c.entries, In) \in Seq(Elements \cap In)
    <3> HIDE DEF In
    <3> QED BY <2>1, FilterIs
  <2>3. Elements \cap In \subseteq Usable
    BY DEF Usable
  <2>4. X!Filter(c.entries, In) \in Seq(Usable)
    <3> HIDE DEF In
    <3> QED BY <2>2, <2>3
  <2> QED BY <2>4 DEF X!ReadEntries
<1> HIDE DEF Fl
<1>5. ASSUME NEW acc \in A, NEW c \in Elements PROVE Add(acc, c) \in A
  <2>0. acc = [done |-> acc.done, loose |-> acc.loose]
    <3> HIDE DEF U
    <3> QED OBVIOUS
  <2>1. CASE c.kind = "section"
    <3>1. Append(Fl(acc), X!ReadEntries(c)) \in Seq(U)
      <4>1. Fl(acc) \in Seq(U) /\ X!ReadEntries(c) \in U
        BY <1>3, <1>4, <2>1
      <4> HIDE DEF U
      <4> QED BY <4>1
    <3>2. <<>> \in U
      OBVIOUS
    <3> HIDE DEF U
    <3> QED BY <2>1, <3>1, <3>2
  <2>2. CASE c.kind # "section" /\ c.kind \in {"action", "submenu"}
    <3>1. c \in Usable
      BY <2>2 DEF Usable
    <3>2. Append(acc.loose, c) \in U
      BY <1>3, <3>1
    <3>3. Add(acc, c) = [done |-> acc.done, loose |-> Append(acc.loose, c)]
      BY <2>0, <2>2
    <3> HIDE DEF U, Add
    <3> QED BY <1>3, <3>2, <3>3
  <2>3. CASE c.kind # "section" /\ c.kind \notin {"action", "submenu"}
    BY <2>3
  <2> QED BY <2>1, <2>2, <2>3
<1>6. base \in A
  OBVIOUS
<1> HIDE DEF Add, A, base
<1>7. \A k \in 0..n : At[k] = A
  OBVIOUS
<1>8. \A k \in 1..n : \A x \in A : Step[k][x] = Add(x, children[k]) /\ Step[k][x] \in A
  BY <1>2, <1>5
<1> HIDE DEF At, Step
<1>9. PICK f : Steps(f, n, At, base, Step)
  <2>1. 0 \in 0..n /\ \A k \in 1..n : k - 1 \in 0..n /\ k \in 0..n
    BY <1>2
  <2>2. \A k \in 1..n : At[k] = A /\ At[k - 1] = A
    BY <1>7, <2>1
  <2>3. base \in At[0]
    BY <1>6, <1>7, <2>1
  <2>4. Leads(n, At, Step)
    BY <1>8, <2>2 DEF Leads
  <2> HIDE DEF h
  <2> QED BY <1>2, <2>3, <2>4, Recursion, Zenon
<1>10. f = Eq(f)
  <2>1. \A k \in 0..n : k # 0 => k - 1 \in 0..n /\ k \in 1..n
    BY <1>2
  <2>2. \A k \in 0..n : f[k] = IF k = 0 THEN base ELSE Add(f[k - 1], children[k])
    BY <1>7, <1>8, <1>9, <2>1 DEF Steps
  <2>3. f = [k \in 0..n |-> f[k]]
    BY <1>9 DEF Steps
  <2> QED BY <2>2, <2>3
<1>11. h = Eq(h)
  BY <1>10, Zenon
<1>12. h[n] \in A
  <2>0. h = [k \in 0..n |-> IF k = 0 THEN base ELSE Add(h[k - 1], children[k])]
    <3> HIDE DEF h
    <3> QED BY <1>11
  <2> HIDE DEF h
  <2>1. h[0] \in At[0]
    BY <1>2, <1>6, <1>7, <2>0
  <2>2. \A k \in 1..n : h[k - 1] \in At[k - 1] => h[k] \in At[k]
    <3>1. \A k \in 1..n : k \in 0..n /\ k # 0 /\ k - 1 \in 0..n
      BY <1>2
    <3> QED BY <1>2, <1>5, <1>7, <2>0, <3>1
  <2>3. \A k \in 0..n : h[k] \in At[k]
    BY <1>2, <2>1, <2>2, Reaches
  <2>4. n \in 0..n
    BY <1>2
  <2> QED BY <1>7, <2>3, <2>4
<1> HIDE DEF h
<1> QED BY <1>1, <1>3, <1>12 DEF Frame

(****************************** the page *******************************)
LEMMA LeastIn == ASSUME NEW at \in SUBSET Nat, at # {} PROVE \E i \in at : \A j \in at : i <= j
<1> DEFINE Good == {k \in Nat : \A m \in 0..k : m \in at => \E i \in at : \A j \in at : i <= j}
<1>1. 0 \in Good
  OBVIOUS
<1>2. ASSUME NEW k \in Nat, k \in Good PROVE k + 1 \in Good
  <2> SUFFICES ASSUME NEW m \in 0..(k + 1), m \in at PROVE \E i \in at : \A j \in at : i <= j
    OBVIOUS
  <2>1. CASE m \in 0..k
    BY <1>2, <2>1
  <2>2. CASE m = k + 1 /\ \E j \in at : j <= k
    <3>1. PICK j \in at : j <= k
      BY <2>2
    <3>2. j \in 0..k
      BY <3>1
    <3> QED BY <1>2, <3>2
  <2>3. CASE m = k + 1 /\ \A j \in at : ~(j <= k)
    <3>1. \A j \in at : m <= j
      BY <2>3
    <3> QED BY <3>1
  <2> QED BY <2>1, <2>2, <2>3
<1> HIDE DEF Good
<1>3. Nat \subseteq Good
  BY <1>1, <1>2, Induction
<1>4. PICK i : i \in at
  OBVIOUS
<1>5. i \in Good /\ i \in 0..i
  BY <1>3, <1>4
<1> QED BY <1>4, <1>5 DEF Good

LEMMA IndexIsThere ==
  ASSUME NEW T, NEW rows \in Seq(T), rows # <<>>, NEW id
  PROVE  X!IndexOf(rows, id) \in 1..Len(rows)
<1> DEFINE at == {i \in DOMAIN rows : rows[i].id = id}
<1>1. Len(rows) \in Nat /\ Len(rows) >= 1 /\ DOMAIN rows = 1..Len(rows)
  OBVIOUS
<1>2. at \in SUBSET Nat /\ at \subseteq 1..Len(rows)
  BY <1>1
<1> DEFINE least == CHOOSE i \in at : \A j \in at : i <= j
<1>3. X!IndexOf(rows, id) = IF at = {} THEN 1 ELSE least
  BY DEF X!IndexOf
<1> HIDE DEF at
<1>4. at # {} => least \in at
  <2> SUFFICES ASSUME at # {} PROVE least \in at
    OBVIOUS
  <2>1. \E i \in at : \A j \in at : i <= j
    BY <1>2, LeastIn
  <2> QED BY <2>1, Zenon
<1> HIDE DEF least
<1>5. CASE at = {}
  <2>1. X!IndexOf(rows, id) = 1 /\ 1 \in 1..Len(rows)
    BY <1>1, <1>3, <1>5
  <2> QED BY <2>1
<1>6. CASE at # {}
  <2>1. X!IndexOf(rows, id) = least /\ least \in 1..Len(rows)
    BY <1>2, <1>3, <1>4, <1>6
  <2> QED BY <2>1
<1> QED BY <1>5, <1>6

(* The window holds what it is about. *)
LEMMA WindowHoldsIt ==
  ASSUME NEW T, NEW rows \in Seq(T), NEW at \in 1..Len(rows), revealed.count \in Nat
  PROVE  at \in X!Drawn(rows, at)
<1> DEFINE n == Len(rows)  m == MaxRendered  half == m \div 2
           from == IF at - 1 > half THEN at - 1 - half ELSE 0
           start == IF n <= m THEN 0 ELSE IF from < n - m THEN from ELSE n - m
           extra == X!Extra(rows, at)
           count == IF n - start < m + extra THEN n - start ELSE m + extra
<1>1. n \in Nat /\ at \in Nat /\ at >= 1 /\ at <= n /\ m \in Nat /\ m >= 1
  BY PageAssumption
<1>2. half \in Nat /\ half + 1 <= m
  BY <1>1
<1>3. X!Start(rows, at) = start
  BY DEF X!Start
<1>4. extra \in Nat
  BY DEF X!Extra
<1>5. X!Drawn(rows, at) = {start + i : i \in 1..count}
  BY <1>3 DEF X!Drawn, X!Least
<1> HIDE DEF n, m, half, extra
<1>6. start \in Nat /\ start < at /\ at - start <= count
  BY <1>1, <1>2, <1>4
<1>7. at - start \in 1..count /\ at = start + (at - start)
  <2>1. count \in Int
    BY <1>1, <1>4, <1>6
  <2> HIDE DEF count, start
  <2> QED BY <1>1, <1>6, <2>1
<1> QED BY <1>5, <1>7

LEMMA RowsTyped ==
  ASSUME NEW t \in Trees, NEW x
  PROVE  X!RowsAt(t, x) \in Seq(X!ToSet(t.rows))
<1>1. t.rows \in Seq(X!ToSet(t.rows))
  BY PageAssumption
<1> DEFINE T == X!ToSet(t.rows)  r == t.rows
<1> DEFINE f == X!ReadListShape(t)  k == t.filtering = "sections"
<1> HIDE DEF T, r, f, k
<1>2. X!FilterRows(r, x, f, k) \in Seq(T)
  BY <1>1, FilterRowsIs DEF T, r
<1>3. <<>> \in Seq(T)
  OBVIOUS
<1>4. X!RowsAt(t, x) = IF t.type = "List" THEN X!FilterRows(r, x, f, k) ELSE <<>>
  BY DEF X!RowsAt, r, f, k
<1> QED BY <1>2, <1>3, <1>4 DEF T

LEMMA SelectedIsDrawn ==
  ASSUME tree \in Trees, revealed.count \in Nat
  PROVE  X!Rows # <<>> => X!SelectedIndex \in X!Drawn(X!Rows, X!SelectedIndex)
<1> SUFFICES ASSUME X!Rows # <<>> PROVE X!SelectedIndex \in X!Drawn(X!Rows, X!SelectedIndex)
  OBVIOUS
<1> DEFINE rows == X!Rows  T == X!ToSet(tree.rows)  at == X!SelectedIndex
<1>1. rows \in Seq(T)
  BY RowsTyped DEF X!Rows
<1> HIDE DEF rows, T, at
<1>2. rows # <<>> /\ at = X!IndexOf(rows, selectedId)
  BY DEF rows, at, X!SelectedIndex
<1>3. at \in 1..Len(rows)
  BY <1>1, <1>2, IndexIsThere
<1>4. at \in X!Drawn(rows, at)
  BY <1>1, <1>3, WindowHoldsIt
<1> QED BY <1>4 DEF rows, at

LEMMA ActionsTyped ==
  ASSUME tree \in Trees
  PROVE  X!Actions.sections \in Frame
<1> DEFINE sel == X!Selected
           c == IF sel # None /\ sel.actions # None THEN sel.actions
                ELSE IF tree.type = "List" /\ X!Rows = <<>> /\ tree.empty # None THEN tree.empty ELSE tree.actions
<1>1. X!Actions = X!ReadActionPanel(c)
  BY DEF X!Actions
<1>2. sel # None => IsWritten(sel.actions)
  <2> SUFFICES ASSUME sel # None PROVE IsWritten(sel.actions)
    OBVIOUS
  <2> DEFINE rows == X!RowsAt(tree, text)  T == X!ToSet(tree.rows)
  <2>1. rows \in Seq(T)
    BY RowsTyped
  <2>2. rows # <<>> /\ sel = rows[X!IndexOf(rows, selectedId)]
    BY DEF X!Selected, X!SelectedAt
  <2> HIDE DEF rows, T, sel
  <2>3. X!IndexOf(rows, selectedId) \in 1..Len(rows)
    BY <2>1, <2>2, IndexIsThere
  <2>4. sel \in T
    BY <2>1, <2>2, <2>3
  <2> QED BY <2>4, PageAssumption DEF T
<1>3. IsWritten(c)
  <2> HIDE DEF sel
  <2> QED BY <1>2, PageAssumption
<1> HIDE DEF c
<1>4. X!ReadActionPanel(c).sections = IF c = None THEN <<>> ELSE X!ReadSections(c)
  BY DEF X!ReadActionPanel, X!EmptyActions
<1>5. c # None => X!ReadSections(c) \in Frame
  BY <1>3, SectionsAreFrames DEF IsWritten
<1>6. <<>> \in Frame
  BY DEF Frame
<1> QED BY <1>1, <1>4, <1>5, <1>6

(* The chord shown is the action's, for it is bound to no other. *)
LEMMA BarIsTrue ==
  ASSUME NEW a \in X!ToSet(KeyActions), NEW empty \in BOOLEAN, X!ChordFor(a, empty) # None,
         X!ChordFor(a, empty) \notin X!KeyConflicts
  PROVE  X!KeyActionFor(X!ChordFor(a, empty), empty) = a
<1> DEFINE w == Keys[a]
           usable == {i \in DOMAIN w : w[i] \in Typeable => empty}
           chord == X!ChordFor(a, empty)
           hits == {i \in DOMAIN KeyActions : X!MatchesKeyAction(KeyActions[i], chord, empty)}
<1>1. chord = IF usable = {} THEN None ELSE w[X!Min(usable)]
  BY DEF X!ChordFor
<1>2. usable \in SUBSET Nat /\ usable # {}
  <2>1. w \in Seq(X!ToSet(w))
    BY PageAssumption
  <2>2. usable \in SUBSET Nat
    BY <2>1
  <2> HIDE DEF usable
  <2> QED BY <1>1, <2>2
<1>3. X!Min(usable) \in usable
  <2> HIDE DEF usable
  <2>1. \E i \in usable : \A j \in usable : i <= j
    BY <1>2, LeastIn
  <2> QED BY <2>1, Zenon DEF X!Min
<1>4. chord \in X!ToSet(Keys[a]) /\ (chord \in Typeable => empty)
  BY <1>1, <1>2, <1>3 DEF X!ToSet
<1>5. chord \notin X!KeyConflicts
  OBVIOUS
<1>6. X!KeyActionFor(chord, empty) = IF hits = {} THEN "none" ELSE KeyActions[X!Min(hits)]
  BY DEF X!KeyActionFor
<1> HIDE DEF chord
<1>7. ASSUME NEW i \in hits PROVE KeyActions[i] = a
  <2> SUFFICES ASSUME KeyActions[i] # a PROVE FALSE
    OBVIOUS
  <2> DEFINE b == KeyActions[i]
  <2>1. b \in X!ToSet(KeyActions)
    BY DEF X!ToSet
  <2>2. chord \in X!ToSet(Keys[b])
    BY DEF X!MatchesKeyAction
  <2> HIDE DEF b
  <2>3. b # a
    BY DEF b
  <2> QED BY <1>4, <1>5, <2>1, <2>2, <2>3 DEF X!KeyConflicts
<1>8. PICK i \in DOMAIN KeyActions : KeyActions[i] = a
  BY DEF X!ToSet
<1>9. i \in hits
  BY <1>4, <1>8 DEF X!MatchesKeyAction
<1>10. hits \in SUBSET Nat
  <2>1. DOMAIN KeyActions = 1..7
    BY DEF KeyActions
  <2> QED BY <2>1
<1> HIDE DEF hits
<1>11. X!Min(hits) \in hits
  <2>1. \E j \in hits : \A k \in hits : j <= k
    BY <1>9, <1>10, LeastIn
  <2> QED BY <2>1, Zenon DEF X!Min
<1> QED BY <1>6, <1>7, <1>9, <1>11 DEF chord

(* A text that waits is the newest and of the view that is drawn; what was    *)
(* heard is older.                                                         *)
Heard == [at : Nat, newer : BOOLEAN, inView : BOOLEAN]
TextInv ==
  /\ tree \in Trees /\ typed \in 0..MaxTyped
  /\ heard \in Heard /\ heard.at <= typed /\ heard.newer /\ heard.inView
  /\ pending # None => pending = [handler |-> tree.search, at |-> typed] /\ heard.at < typed /\ tree.search # None
  /\ typedIn # None => heard.at = typed \/ pending # None
(* The panel has a frame, and its highlight is in it. *)
FrameInv ==
  panelOpen => /\ stack \in Seq(Frame) /\ stack # <<>> /\ index \in Nat \ {0}
               /\ X!Entries # <<>> => index <= Len(X!Entries)
(* Who waits below has what they will be given back. *)
KeyInv ==
  /\ panelOpen \in BOOLEAN /\ alert \in BOOLEAN /\ closedUnder \in BOOLEAN
  /\ closedUnder \/ /\ focus = IF alert THEN "alert" ELSE IF panelOpen THEN "panel" ELSE "input"
                    /\ panelOpen => panelBack = "input"
                    /\ alert => alertBack = IF panelOpen THEN "panel" ELSE "input"
PageInv == TextInv /\ FrameInv /\ KeyInv /\ revealed.count \in Nat /\ X!NeverFights

(* What the steps of the page come to, for what these invariants say: a       *)
(* panel that closes, one that opens, a turn in it, and what leaves it alone.  *)
Asks == requestedItem' = None \/ (requestedItem' = requestedItem /\ moved' = moved) \/ moved' = FALSE
Silent == tree' = tree /\ UNCHANGED <<pending, typed, heard, typedIn>>
Shuts == Silent /\ panelOpen' = FALSE /\ X!Restored(FALSE) /\ Asks /\ UNCHANGED revealed
Rests == Silent /\ panelOpen' = panelOpen /\ X!Quiet /\ Asks /\ revealed'.count \in Nat
Turns == \E frames, at :
  /\ X!Overlay(frames, at)
  /\ panelOpen => /\ frames \in Seq(Frame) /\ frames # <<>> /\ at \in Nat \ {0}
                  /\ LET entries == X!FlattenSeq(frames[Len(frames)]) IN entries # <<>> => at <= Len(entries)
Opens == X!Open /\ (focus = "input" \/ (~alert /\ ~panelOpen))

LEMMA Commits ==
  ASSUME NEW t, NEW x, NEW id, NEW item, NEW open, X!Committed(t, x, id, item, open)
  PROVE  tree' = t /\ panelOpen' = (open /\ t.depth = tree.depth) /\ (requestedItem' = None \/ requestedItem' = item)
BY DEF X!Committed

LEMMA Runs == ASSUME NEW a, X!Run(a), revealed.count \in Nat PROVE Shuts
<1>1. X!Committed(tree, text, selectedId, requestedItem, FALSE) /\ X!Restored(FALSE) /\ UNCHANGED <<moved, revealed, pending, typed, heard, typedIn>>
  BY DEF X!Run, X!Searching
<1>2. tree' = tree /\ panelOpen' = FALSE /\ (requestedItem' = None \/ requestedItem' = requestedItem)
  BY <1>1 DEF X!Committed
<1> QED BY <1>1, <1>2 DEF Shuts, Silent, Asks

LEMMA GoesBack == ASSUME X!Back, KeyInv, revealed.count \in Nat PROVE Shuts \/ Rests
<1>1. CASE panelOpen
  <2>1. X!Committed(tree, text, selectedId, requestedItem, FALSE) /\ X!Restored(FALSE) /\ UNCHANGED <<moved, revealed, pending, typed, heard, typedIn>>
    BY <1>1 DEF X!Back, X!Searching
  <2>2. tree' = tree /\ panelOpen' = FALSE /\ (requestedItem' = None \/ requestedItem' = requestedItem)
    BY <2>1 DEF X!Committed
  <2> QED BY <2>1, <2>2 DEF Shuts, Silent, Asks
<1>2. CASE ~panelOpen
  <2>1. UNCHANGED <<tree, text, selectedId, requestedItem, panelOpen, moved, revealed, pending, typed, heard, typedIn>> /\ X!Quiet
    BY <1>2 DEF X!Back, X!Searching
  <2> QED BY <2>1 DEF Rests, Silent, Asks
<1> QED BY <1>1, <1>2 DEF KeyInv

LEMMA Toggles == ASSUME X!Toggle, KeyInv, focus = "input", revealed.count \in Nat PROVE Shuts \/ Opens
<1>1. CASE panelOpen
  <2>1. X!Committed(tree, text, selectedId, requestedItem, FALSE) /\ X!Restored(FALSE) /\ UNCHANGED <<moved, revealed, pending, typed, heard, typedIn>>
    BY <1>1 DEF X!Toggle, X!Searching
  <2>2. tree' = tree /\ panelOpen' = FALSE /\ (requestedItem' = None \/ requestedItem' = requestedItem)
    BY <2>1 DEF X!Committed
  <2> QED BY <2>1, <2>2 DEF Shuts, Silent, Asks
<1>2. CASE ~panelOpen
  BY <1>2 DEF X!Toggle, Opens
<1> QED BY <1>1, <1>2 DEF KeyInv

LEMMA Arrows == ASSUME NEW b, X!Arrow(b), KeyInv, revealed.count \in Nat PROVE Rests
<1> DEFINE row == IF X!Rows = <<>> THEN selectedId ELSE X!Rows[X!MoveSelection(X!SelectedIndex, b, Len(X!Rows))].id
<1>1. X!Committed(tree, text, row, None, panelOpen) /\ X!Quiet /\ UNCHANGED <<revealed, pending, typed, heard, typedIn>>
  BY DEF X!Arrow, X!Searching
<1> HIDE DEF row
<1>2. tree' = tree /\ panelOpen' = (panelOpen /\ tree.depth = tree.depth) /\ requestedItem' = None
  BY <1>1 DEF X!Committed
<1>3. panelOpen' = panelOpen
  BY <1>2 DEF KeyInv
<1> QED BY <1>1, <1>2, <1>3 DEF Rests, Silent, Asks

LEMMA EntriesUsable ==
  ASSUME NEW frames \in Seq(Frame), frames # <<>>
  PROVE  X!FlattenSeq(frames[Len(frames)]) \in Seq(Usable)
<1>1. frames[Len(frames)] \in Frame
  BY DEF Frame
<1>2. frames[Len(frames)] \in Seq(Seq(Usable))
  BY <1>1 DEF Frame
<1> QED BY <1>2, FlattenIs

LEMMA Activates ==
  ASSUME NEW e, X!Activate(e), revealed.count \in Nat, panelOpen => stack \in Seq(Frame) /\ e \in Usable
  PROVE  Shuts \/ Turns
<1>1. CASE X!IsAction(e)
  BY <1>1, Runs DEF X!Activate
<1>2. CASE ~X!IsAction(e)
  <2> DEFINE frame == X!ReadSections(e.entries)  frames == Append(stack, frame)
  <2>1. X!Overlay(frames, 1)
    BY <1>2 DEF X!Activate, X!FrameIndex
  <2>2. ASSUME panelOpen PROVE frames \in Seq(Frame) /\ frames # <<>> /\ X!FlattenSeq(frames[Len(frames)]) \in Seq(Usable)
    <3>1. e \in Elements /\ e.kind = "submenu"
      BY <1>2, <2>2 DEF X!IsAction, Usable
    <3>2. e.entries \in Seq(Elements)
      BY <3>1, PageAssumption
    <3>3. frame \in Frame
      BY <3>2, SectionsAreFrames
    <3> HIDE DEF frame
    <3>4. frames \in Seq(Frame) /\ frames # <<>>
      <4> DEFINE F == Frame
      <4>1. stack \in Seq(F) /\ frame \in F
        BY <2>2, <3>3
      <4> HIDE DEF F
      <4>2. frames \in Seq(F) /\ frames # <<>>
        BY <4>1
      <4> QED BY <4>2 DEF F
    <3> HIDE DEF frames
    <3> QED BY <3>4, EntriesUsable
  <2> HIDE DEF frames
  <2>3. panelOpen => LET entries == X!FlattenSeq(frames[Len(frames)]) IN entries # <<>> => 1 <= Len(entries)
    <3> DEFINE entries == X!FlattenSeq(frames[Len(frames)])
    <3>1. panelOpen => entries \in Seq(Usable)
      BY <2>2
    <3> HIDE DEF entries
    <3>2. panelOpen /\ entries # <<>> => 1 <= Len(entries)
      BY <3>1
    <3> QED BY <3>2 DEF entries
  <2>4. Turns
    <3>1. 1 \in Nat \ {0}
      OBVIOUS
    <3> QED BY <2>1, <2>2, <2>3, <3>1, Zenon DEF Turns
  <2> QED BY <2>4
<1> QED BY <1>1, <1>2

LEMMA OverlayKeys ==
  ASSUME NEW chord, X!OverlayKey(chord), KeyInv, FrameInv, revealed.count \in Nat
  PROVE  Shuts \/ Rests \/ Turns
<1> DEFINE bound == X!KeyActionFor(chord, TRUE)  entries == X!Entries  count == Len(entries)
           next == IF count = 0 THEN 1 ELSE (index % count) + 1
           previous == IF count = 0 THEN 1 ELSE IF index = 1 THEN count ELSE index - 1
<1>1. \/ X!Overlay(stack, next) \/ X!Overlay(stack, previous)
      \/ index <= count /\ X!Activate(entries[index])
      \/ Len(stack) > 1 /\ X!Overlay(X!Front(stack), 1)
      \/ X!Back
  BY DEF X!OverlayKey, X!FrameIndex
<1>2. ASSUME panelOpen
      PROVE  stack \in Seq(Frame) /\ stack # <<>> /\ index \in Nat \ {0} /\ entries \in Seq(Usable) /\ (entries # <<>> => index <= count)
             /\ entries = X!FlattenSeq(stack[Len(stack)])
  BY <1>2, EntriesUsable DEF FrameInv, X!Entries
<1> HIDE DEF entries
<1>3. ASSUME panelOpen, NEW at \in {next, previous} PROVE at \in Nat \ {0} /\ (entries # <<>> => at <= count)
  <2>1. count \in Nat /\ index \in Nat /\ index >= 1 /\ (entries # <<>> => count >= 1) /\ (entries = <<>> => count = 0)
        /\ (entries # <<>> => index <= count)
    BY <1>2, <1>3
  <2> HIDE DEF count
  <2>2. count >= 1 => index % count \in 0..(count - 1)
    BY <2>1
  <2>3. CASE entries = <<>>
    BY <1>3, <2>1, <2>3
  <2>4. CASE entries # <<>>
    BY <1>3, <2>1, <2>2, <2>4
  <2> QED BY <2>3, <2>4
<1>4. ASSUME NEW at \in {next, previous}, X!Overlay(stack, at) PROVE Turns
  <2>1. panelOpen => at \in Nat \ {0} /\ (entries # <<>> => at <= count)
    BY <1>3, <1>4
  <2> HIDE DEF next, previous
  <2>2. panelOpen => /\ stack \in Seq(Frame) /\ stack # <<>> /\ at \in Nat \ {0}
                     /\ LET e == X!FlattenSeq(stack[Len(stack)]) IN e # <<>> => at <= Len(e)
    BY <1>2, <2>1
  <2> QED BY <1>4, <2>2, Zenon DEF Turns
<1>5. CASE index <= count /\ X!Activate(entries[index])
  <2>1. panelOpen => stack \in Seq(Frame) /\ entries[index] \in Usable
    BY <1>2, <1>5
  <2> QED BY <1>5, <2>1, Activates
<1>6. CASE Len(stack) > 1 /\ X!Overlay(X!Front(stack), 1)
  <2> DEFINE frames == X!Front(stack)  F == Frame
  <2>1. ASSUME panelOpen PROVE frames \in Seq(F) /\ frames # <<>>
    <3>1. stack \in Seq(F) /\ Len(stack) > 1
      BY <1>2, <1>6, <2>1
    <3> HIDE DEF F
    <3>2. SubSeq(stack, 1, Len(stack) - 1) \in Seq(F) /\ Len(SubSeq(stack, 1, Len(stack) - 1)) = Len(stack) - 1 /\ Len(stack) \in Nat
      BY <3>1
    <3>3. frames = SubSeq(stack, 1, Len(stack) - 1)
      BY DEF X!Front
    <3> HIDE DEF frames
    <3>4. frames \in Seq(F) /\ Len(frames) > 0
      BY <3>1, <3>2, <3>3
    <3> QED BY <3>4
  <2> HIDE DEF frames
  <2>2. panelOpen => LET e == X!FlattenSeq(frames[Len(frames)]) IN e # <<>> => 1 <= Len(e)
    <3> DEFINE e == X!FlattenSeq(frames[Len(frames)])
    <3>1. panelOpen => e \in Seq(Usable)
      BY <2>1, EntriesUsable
    <3> HIDE DEF e
    <3>2. panelOpen /\ e # <<>> => 1 <= Len(e)
      BY <3>1
    <3> QED BY <3>2 DEF e
  <2>3. X!Overlay(frames, 1) /\ 1 \in Nat \ {0}
    BY <1>6 DEF frames
  <2> QED BY <2>1, <2>2, <2>3, Zenon DEF Turns
<1>7. CASE X!Back
  BY <1>7, GoesBack
<1> QED BY <1>1, <1>4, <1>5, <1>6, <1>7

LEMMA Kinds ==
  ASSUME PageInv, X!NextPage
  PROVE  \/ (\E t \in Trees : X!Patch(t)) \/ (\E x \in Texts : X!OnSearch(x)) \/ X!DispatchTimer
         \/ X!RaiseAlert \/ X!AnswerAlert \/ Shuts \/ Rests \/ Opens \/ Turns
<1> DEFINE Goal == Shuts \/ Rests \/ Opens \/ Turns
<1>0. KeyInv /\ FrameInv /\ revealed.count \in Nat
  BY DEF PageInv
<1>1. ASSUME NEW item \in Requests, X!RequestItem(item) PROVE Goal
  <2>1. X!Committed(tree, text, selectedId, item, panelOpen) /\ X!Quiet /\ moved' = FALSE
        /\ UNCHANGED <<revealed, pending, typed, heard, typedIn>>
    BY <1>1 DEF X!RequestItem, X!Searching
  <2>2. tree' = tree /\ panelOpen' = (panelOpen /\ tree.depth = tree.depth)
    BY <2>1 DEF X!Committed
  <2>3. panelOpen' = panelOpen
    BY <1>0, <2>2 DEF KeyInv
  <2> QED BY <1>0, <2>1, <2>2, <2>3 DEF Rests, Silent, Asks
<1>2. ASSUME NEW c \in Chords, X!OnKeyDown(c) PROVE Goal
  <2> DEFINE a == X!Actions.primary  b == X!SecondAction  d == X!Shortcut(c)[1]  bound == X!KeyActionFor(c, text = "")
  <2>1. focus = "input" /\ (X!Back \/ X!Toggle \/ X!Arrow(bound) \/ X!Run(a) \/ X!Run(b) \/ X!Run(d))
    BY <1>2 DEF X!OnKeyDown
  <2> HIDE DEF a, b, d, bound
  <2> QED BY <1>0, <2>1, GoesBack, Toggles, Arrows, Runs
<1>3. ASSUME NEW c \in Chords, NEW on \in BOOLEAN, X!OnFormKeyDown(c, on) PROVE Goal
  <2> DEFINE a == X!Actions.primary  b == X!SecondAction  d == X!Shortcut(c)[1]
  <2>1. focus = "input" /\ (X!Back \/ X!Toggle \/ X!Run(a) \/ X!Run(b) \/ X!Run(d))
    BY <1>3 DEF X!OnFormKeyDown
  <2> HIDE DEF a, b, d
  <2> QED BY <1>0, <2>1, GoesBack, Toggles, Runs
<1>4. ASSUME NEW c \in Chords, X!OverlayKey(c) PROVE Goal
  BY <1>0, <1>4, OverlayKeys
<1>5. ASSUME NEW i, X!ClickRow(i) PROVE Goal
  <2>1. UNCHANGED <<tree, requestedItem, panelOpen, moved, revealed, pending, typed, heard, typedIn>> /\ X!Quiet
    BY <1>5 DEF X!ClickRow, X!Searching
  <2> QED BY <1>0, <2>1 DEF Rests, Silent, Asks
<1>6. ASSUME panelOpen, NEW i \in 1..3, X!Hover(i) \/ X!ClickEntry(i) PROVE Goal
  <2> DEFINE entries == X!Entries
  <2>1. /\ stack \in Seq(Frame) /\ stack # <<>> /\ entries \in Seq(Usable) /\ entries = X!FlattenSeq(stack[Len(stack)])
    BY <1>0, <1>6, EntriesUsable DEF FrameInv, X!Entries
  <2>2. i \in 1..Len(entries) /\ (X!Overlay(stack, i) \/ X!Activate(entries[i]))
    BY <1>6 DEF X!Hover, X!ClickEntry
  <2> HIDE DEF entries
  <2>3. CASE X!Overlay(stack, i)
    <3>1. i \in Nat \ {0} /\ i <= Len(entries)
      BY <2>1, <2>2
    <3>2. LET e == X!FlattenSeq(stack[Len(stack)]) IN e # <<>> => i <= Len(e)
      BY <2>1, <3>1
    <3> QED BY <2>1, <2>3, <3>1, <3>2, Zenon DEF Turns
  <2>4. CASE X!Activate(entries[i])
    <3>1. entries[i] \in Usable
      BY <2>1, <2>2
    <3> QED BY <1>0, <2>1, <2>4, <3>1, Activates
  <2> QED BY <2>2, <2>3, <2>4
<1>7. ASSUME X!ClickBar PROVE Goal
  BY <1>7 DEF X!ClickBar, Opens
<1>8. ASSUME X!ClickScrim PROVE Goal
  BY <1>0, <1>8, GoesBack DEF X!ClickScrim
<1>9. ASSUME X!OnScroll PROVE Goal
  <2> DEFINE rows == X!Rows  from == X!Start(X!Rows, X!SelectedIndex)  n == X!Extra(X!Rows, X!SelectedIndex) + MaxRendered
  <2>1. revealed' = [rows |-> rows, from |-> from, count |-> n] /\ X!Quiet
        /\ UNCHANGED <<tree, requestedItem, panelOpen, moved, pending, typed, heard, typedIn>>
    BY <1>9 DEF X!OnScroll, X!Searching
  <2>2. n \in Nat
    BY <1>0, PageAssumption DEF X!Extra
  <2> HIDE DEF rows, from, n
  <2>3. revealed'.count \in Nat
    BY <2>1, <2>2
  <2> QED BY <2>1, <2>3 DEF Rests, Silent, Asks
<1>10. ASSUME X!ToastAction PROVE Goal
  <2>1. UNCHANGED <<tree, requestedItem, panelOpen, moved, revealed, pending, typed, heard, typedIn>> /\ X!Quiet
    BY <1>10 DEF X!ToastAction, X!Searching
  <2> QED BY <1>0, <2>1 DEF Rests, Silent, Asks
<1> HIDE DEF Goal
<1>11. Goal \/ (\E t \in Trees : X!Patch(t)) \/ (\E x \in Texts : X!OnSearch(x)) \/ X!DispatchTimer \/ X!RaiseAlert \/ X!AnswerAlert
  BY <1>1, <1>2, <1>3, <1>4, <1>5, <1>6, <1>7, <1>8, <1>9, <1>10, Zenon DEF X!NextPage
<1> QED BY <1>11 DEF Goal

(* A document changes, or the search box: what that does to the panel. *)
Closes(t) == panelOpen' = (panelOpen /\ t.depth = tree.depth)

LEMMA TextsInductive == PageInv /\ [X!NextPage]_(X!pageVars) => TextInv'
<1> SUFFICES ASSUME PageInv, [X!NextPage]_(X!pageVars) PROVE TextInv'
  OBVIOUS
<1>0. TextInv
  BY DEF PageInv
<1>1. ASSUME Silent PROVE TextInv'
  BY <1>0, <1>1 DEF Silent, TextInv
<1>2. ASSUME NEW t \in Trees, X!Patch(t) PROVE TextInv'
  <2>1. tree' = t /\ UNCHANGED <<typed, heard>> /\ X!CancelPending(t)
    BY <1>2 DEF X!Patch, X!Committed
  <2>2. CASE t.search # tree.search
    <3>1. pending' = None /\ typedIn' = None
      BY <2>1, <2>2 DEF X!CancelPending
    <3> QED BY <1>0, <2>1, <3>1 DEF TextInv
  <2>3. CASE t.search = tree.search
    <3>1. UNCHANGED <<pending, typedIn>>
      BY <2>1, <2>3 DEF X!CancelPending
    <3> QED BY <1>0, <2>1, <2>3, <3>1 DEF TextInv
  <2> QED BY <2>2, <2>3
<1>3. ASSUME NEW x \in Texts, X!OnSearch(x) PROVE TextInv'
  <2>1. tree' = tree /\ typed' = typed + 1 /\ typed < MaxTyped /\ X!Dispatch(x) /\ typedIn' = tree.search
    BY <1>3 DEF X!OnSearch, X!Committed
  <2>2. typed' \in 0..MaxTyped /\ typed \in 0..typed' /\ typed' \in 0..typed'
    BY <1>0, <2>1, PageAssumption DEF TextInv
  <2>3. heard \in Heard /\ heard.at \in Nat
    BY <1>0 DEF TextInv, Heard
  <2>4. heard.at <= typed /\ heard.at < typed' /\ typed \in Nat
    BY <1>0, <2>1, <2>3, PageAssumption DEF TextInv
  <2>5. CASE tree.search = None
    <3>1. UNCHANGED <<pending, heard>>
      BY <2>1, <2>5 DEF X!Dispatch
    <3>2. pending = None
      BY <1>0, <2>5 DEF TextInv
    <3> QED BY <1>0, <2>1, <2>2, <2>3, <2>4, <2>5, <3>1, <3>2 DEF TextInv
  <2>6. CASE tree.search # None /\ (~tree.throttle \/ x = "")
    <3>1. pending' = None /\ heard' = [at |-> typed', newer |-> typed' > heard.at, inView |-> tree.search = tree.search]
      BY <2>1, <2>6 DEF X!Dispatch, X!Deliver
    <3>3. (typed' > heard.at) = TRUE /\ typed' \in Nat
      BY <2>2, <2>3, <2>4
    <3>4. heard' = [at |-> typed', newer |-> TRUE, inView |-> TRUE]
      BY <3>1, <3>3, Zenon
    <3>2. heard' = [at |-> typed', newer |-> TRUE, inView |-> TRUE] /\ heard' \in Heard
      BY <3>3, <3>4 DEF Heard
    <3> QED BY <1>0, <2>1, <2>2, <3>1, <3>2 DEF TextInv
  <2>7. CASE tree.search # None /\ ~(~tree.throttle \/ x = "")
    <3>1. pending' = [handler |-> tree.search, at |-> typed'] /\ UNCHANGED heard
      BY <2>1, <2>7 DEF X!Dispatch
    <3>2. pending' # None
      BY <1>0, <2>2, <3>1, NoneAssumption DEF TextInv
    <3>3. tree' \in Trees /\ typed' \in 0..MaxTyped /\ heard' \in Heard /\ heard'.newer /\ heard'.inView
      BY <1>0, <2>1, <2>2, <2>3, <3>1 DEF TextInv
    <3>4. heard'.at < typed' /\ heard'.at <= typed'
      BY <2>2, <2>3, <2>4, <3>1
    <3>5. pending' = [handler |-> tree'.search, at |-> typed'] /\ tree'.search # None
      BY <2>1, <2>7, <3>1
    <3> QED BY <3>2, <3>3, <3>4, <3>5 DEF TextInv
  <2> QED BY <2>5, <2>6, <2>7
<1>4. ASSUME X!DispatchTimer PROVE TextInv'
  <2>1. pending # None /\ pending' = None /\ UNCHANGED <<tree, typed, typedIn>>
        /\ heard' = [at |-> pending.at, newer |-> pending.at > heard.at, inView |-> pending.handler = tree.search]
    BY <1>4 DEF X!DispatchTimer, X!Deliver
  <2>2. pending.at = typed /\ pending.handler = tree.search /\ heard.at < typed
    BY <1>0, <2>1 DEF TextInv
  <2>3. typed \in 0..typed /\ typed \in Nat
    BY <1>0, PageAssumption DEF TextInv
  <2>4. heard \in Heard /\ heard.at \in Nat
    BY <1>0 DEF TextInv, Heard
  <2>5. heard' = [at |-> typed, newer |-> TRUE, inView |-> TRUE] /\ heard' \in Heard
    BY <2>1, <2>2, <2>3, <2>4 DEF Heard
  <2> QED BY <1>0, <2>1, <2>3, <2>5 DEF TextInv
<1>5. Silent \/ (\E t \in Trees : X!Patch(t)) \/ (\E x \in Texts : X!OnSearch(x)) \/ X!DispatchTimer
  <2>1. CASE X!NextPage
    <3>1. (X!RaiseAlert \/ X!AnswerAlert \/ Opens \/ Turns) => Silent
      BY DEF X!RaiseAlert, X!AnswerAlert, Opens, Turns, X!Open, X!Overlay, Silent, X!Searching
    <3>2. (Shuts \/ Rests) => Silent
      BY DEF Shuts, Rests
    <3> QED BY <2>1, <3>1, <3>2, Kinds
  <2>2. CASE UNCHANGED X!pageVars
    BY <2>2 DEF X!pageVars, Silent
  <2> QED BY <2>1, <2>2
<1> QED BY <1>1, <1>2, <1>3, <1>4, <1>5

LEMMA KeysInductive == PageInv /\ [X!NextPage]_(X!pageVars) => KeyInv'
<1> SUFFICES ASSUME PageInv, [X!NextPage]_(X!pageVars) PROVE KeyInv'
  OBVIOUS
<1>0. KeyInv /\ panelOpen \in BOOLEAN /\ alert \in BOOLEAN /\ closedUnder \in BOOLEAN
  BY DEF PageInv, KeyInv
<1>1. ASSUME UNCHANGED <<panelOpen, alert, focus, panelBack, alertBack, closedUnder>> PROVE KeyInv'
  BY <1>0, <1>1 DEF KeyInv
<1>2. ASSUME NEW open \in BOOLEAN, X!Restored(open), panelOpen' = (panelOpen /\ open) PROVE KeyInv'
  <2>1. /\ focus' = (IF panelOpen /\ ~open THEN panelBack ELSE focus)
        /\ closedUnder' = (closedUnder \/ (panelOpen /\ ~open /\ alert)) /\ UNCHANGED <<panelBack, alert, alertBack>>
    BY <1>2 DEF X!Restored
  <2>2. CASE panelOpen /\ ~open
    BY <1>0, <1>2, <2>1, <2>2 DEF KeyInv
  <2>3. CASE ~(panelOpen /\ ~open)
    <3>1. panelOpen' = panelOpen /\ closedUnder' = closedUnder /\ focus' = focus
      BY <1>0, <1>2, <2>1, <2>3
    <3> QED BY <1>1, <2>1, <3>1
  <2> QED BY <2>2, <2>3
<1>3. ASSUME NEW t \in Trees, X!Patch(t) PROVE KeyInv'
  <2> DEFINE open == panelOpen /\ t.depth = tree.depth
  <2>1. X!Restored(open) /\ panelOpen' = (panelOpen /\ t.depth = tree.depth) /\ open \in BOOLEAN
    BY <1>0, <1>3 DEF X!Patch, X!Committed
  <2>2. panelOpen' = (panelOpen /\ open)
    BY <1>0, <2>1
  <2> HIDE DEF open
  <2> QED BY <1>2, <2>1, <2>2
<1>4. ASSUME NEW x \in Texts, X!OnSearch(x) PROVE KeyInv'
  <2>1. panelOpen' = (panelOpen /\ tree.depth = tree.depth) /\ X!Quiet
    BY <1>4 DEF X!OnSearch, X!Committed
  <2>2. panelOpen' = panelOpen
    BY <1>0, <2>1
  <2> QED BY <1>1, <2>1, <2>2 DEF X!Quiet
<1>5. ASSUME X!DispatchTimer \/ Rests \/ Turns PROVE KeyInv'
  BY <1>1, <1>5 DEF X!DispatchTimer, Rests, Turns, X!Quiet, X!Overlay
<1>6. ASSUME Shuts PROVE KeyInv'
  <2>1. X!Restored(FALSE) /\ panelOpen' = (panelOpen /\ FALSE)
    BY <1>6 DEF Shuts
  <2> QED BY <1>2, <2>1
<1>7. ASSUME Opens PROVE KeyInv'
  <2>1. /\ panelOpen' = TRUE /\ panelBack' = focus /\ focus' = "panel" /\ UNCHANGED <<alert, alertBack, closedUnder>>
        /\ (focus = "input" \/ (~alert /\ ~panelOpen))
    BY <1>7 DEF Opens, X!Open
  <2>2. CASE closedUnder
    BY <1>0, <2>1, <2>2 DEF KeyInv
  <2>3. CASE ~closedUnder
    <3>1. focus = "input" /\ ~alert /\ ~panelOpen
      BY <1>0, <2>1, <2>3 DEF KeyInv
    <3> QED BY <1>0, <2>1, <2>3, <3>1 DEF KeyInv
  <2> QED BY <1>0, <2>2, <2>3
<1>8. ASSUME X!RaiseAlert PROVE KeyInv'
  <2>1. ~alert /\ alert' = TRUE /\ alertBack' = focus /\ focus' = "alert" /\ UNCHANGED <<panelOpen, panelBack, closedUnder>>
    BY <1>8 DEF X!RaiseAlert
  <2> QED BY <1>0, <2>1 DEF KeyInv
<1>9. ASSUME X!AnswerAlert PROVE KeyInv'
  <2>1. /\ alert /\ alert' = FALSE /\ focus' = (IF alertBack = "input" \/ panelOpen THEN alertBack ELSE "body")
        /\ UNCHANGED <<panelOpen, panelBack, alertBack, closedUnder>>
    BY <1>9 DEF X!AnswerAlert, X!GiveBack
  <2> QED BY <1>0, <2>1 DEF KeyInv
<1>10. CASE UNCHANGED X!pageVars
  BY <1>1, <1>10 DEF X!pageVars
<1> QED BY <1>3, <1>4, <1>5, <1>6, <1>7, <1>8, <1>9, <1>10, Kinds

LEMMA FramesInductive == PageInv /\ [X!NextPage]_(X!pageVars) => FrameInv'
<1> SUFFICES ASSUME PageInv, [X!NextPage]_(X!pageVars) PROVE FrameInv'
  OBVIOUS
<1>0. FrameInv /\ panelOpen \in BOOLEAN /\ tree \in Trees
  BY DEF PageInv, KeyInv, TextInv
<1>1. ASSUME UNCHANGED <<stack, index>>, panelOpen' => panelOpen PROVE FrameInv'
  BY <1>0, <1>1 DEF FrameInv, X!Entries
<1>2. ASSUME ~panelOpen' PROVE FrameInv'
  BY <1>2 DEF FrameInv
<1>3. ASSUME NEW t \in Trees, X!Patch(t) PROVE FrameInv'
  <2>1. X!Restored(panelOpen /\ t.depth = tree.depth) /\ panelOpen' = (panelOpen /\ t.depth = tree.depth)
    BY <1>3 DEF X!Patch, X!Committed
  <2>2. CASE panelOpen /\ t.depth = tree.depth
    BY <1>0, <1>1, <2>1, <2>2 DEF X!Restored
  <2>3. CASE ~(panelOpen /\ t.depth = tree.depth)
    BY <1>2, <2>1, <2>3
  <2> QED BY <2>2, <2>3
<1>4. ASSUME NEW x \in Texts, X!OnSearch(x) PROVE FrameInv'
  <2>1. panelOpen' = (panelOpen /\ tree.depth = tree.depth) /\ X!Quiet
    BY <1>4 DEF X!OnSearch, X!Committed
  <2> QED BY <1>1, <2>1 DEF X!Quiet
<1>5. ASSUME X!DispatchTimer \/ Rests \/ X!RaiseAlert \/ X!AnswerAlert PROVE FrameInv'
  BY <1>1, <1>5 DEF X!DispatchTimer, Rests, X!RaiseAlert, X!AnswerAlert, X!Quiet
<1>6. ASSUME Shuts PROVE FrameInv'
  BY <1>2, <1>6 DEF Shuts
<1>7. ASSUME Opens PROVE FrameInv'
  <2> DEFINE s == X!Actions.sections  frames == <<s>>  F == Frame
  <2>1. stack' = frames /\ index' = 1
    BY <1>7 DEF Opens, X!Open
  <2>2. s \in F
    BY <1>0, ActionsTyped
  <2> HIDE DEF s, F
  <2>3. frames \in Seq(F) /\ frames # <<>>
    BY <2>2
  <2> HIDE DEF frames
  <2> DEFINE e == X!FlattenSeq(frames[Len(frames)])
  <2>4. e \in Seq(Usable)
    BY <2>3, EntriesUsable DEF F
  <2>5. X!Entries' = e
    BY <2>1 DEF X!Entries
  <2> HIDE DEF e
  <2>6. e # <<>> => 1 <= Len(e)
    BY <2>4
  <2>7. X!Entries' # <<>> => index' <= Len(X!Entries')
    BY <2>1, <2>5, <2>6
  <2> QED BY <2>1, <2>3, <2>7 DEF FrameInv, F
<1>8. ASSUME Turns PROVE FrameInv'
  <2>1. PICK frames, at :
          /\ X!Overlay(frames, at)
          /\ panelOpen => /\ frames \in Seq(Frame) /\ frames # <<>> /\ at \in Nat \ {0}
                          /\ LET entries == X!FlattenSeq(frames[Len(frames)]) IN entries # <<>> => at <= Len(entries)
    BY <1>8, Zenon DEF Turns
  <2>2. stack' = frames /\ index' = at /\ panelOpen' = panelOpen
    BY <2>1 DEF X!Overlay
  <2> QED BY <2>1, <2>2 DEF FrameInv, X!Entries
<1>9. CASE UNCHANGED X!pageVars
  BY <1>1, <1>9 DEF X!pageVars
<1> QED BY <1>3, <1>4, <1>5, <1>6, <1>7, <1>8, <1>9, Kinds

LEMMA RequestsInductive == PageInv /\ [X!NextPage]_(X!pageVars) => X!NeverFights' /\ revealed'.count \in Nat
<1> SUFFICES ASSUME PageInv, [X!NextPage]_(X!pageVars) PROVE X!NeverFights' /\ revealed'.count \in Nat
  OBVIOUS
<1>0. X!NeverFights /\ revealed.count \in Nat
  BY DEF PageInv
<1>1. ASSUME requestedItem' = None \/ requestedItem' = requestedItem, UNCHANGED <<moved, revealed>> PROVE X!NeverFights' /\ revealed'.count \in Nat
  BY <1>0, <1>1 DEF X!NeverFights
<1>2. ASSUME Shuts \/ Rests PROVE X!NeverFights' /\ revealed'.count \in Nat
  <2>1. Asks
    BY <1>2 DEF Shuts, Rests
  <2>2. X!NeverFights'
    <3>1. requestedItem # None => ~moved
      BY <1>0 DEF X!NeverFights
    <3>2. requestedItem' # None => ~moved'
      BY <2>1, <3>1, Zenon DEF Asks
    <3> QED BY <3>2 DEF X!NeverFights
  <2>3. revealed'.count \in Nat
    BY <1>0, <1>2 DEF Shuts, Rests
  <2> QED BY <2>2, <2>3
<1>3. ASSUME NEW t \in Trees, X!Patch(t) PROVE X!NeverFights' /\ revealed'.count \in Nat
  BY <1>1, <1>3 DEF X!Patch, X!Committed
<1>4. ASSUME NEW x \in Texts, X!OnSearch(x) PROVE X!NeverFights' /\ revealed'.count \in Nat
  BY <1>1, <1>4 DEF X!OnSearch, X!Committed
<1>5. ASSUME X!DispatchTimer \/ X!RaiseAlert \/ X!AnswerAlert \/ Opens \/ Turns PROVE X!NeverFights' /\ revealed'.count \in Nat
  BY <1>1, <1>5 DEF X!DispatchTimer, X!RaiseAlert, X!AnswerAlert, Opens, Turns, X!Open, X!Overlay
<1>6. CASE UNCHANGED X!pageVars
  BY <1>1, <1>6 DEF X!pageVars
<1> QED BY <1>2, <1>3, <1>4, <1>5, <1>6, Kinds

(* Texts arrive in order and where they were typed, the selection is among   *)
(* the rows drawn and the highlight among the panel's, keys land on what is    *)
(* in front, and the bar shows chords that do what it says: for any documents, *)
(* texts and chords (ext/ExtensionView.tsx, ActionPanel.tsx, actions.ts).      *)
THEOREM PageIsSound == Spec => []PageIntact
<1> DEFINE Inv == part = "page" => PageInv
<1>1. Init => Inv
  <2> SUFFICES ASSUME X!InitPage PROVE PageInv
    BY DEF Init
  <2>1. /\ tree \in Trees /\ requestedItem = None /\ panelOpen = FALSE /\ revealed = [rows |-> <<>>, from |-> 0, count |-> 0]
        /\ pending = None /\ typed = 0 /\ heard = [at |-> 0, newer |-> TRUE, inView |-> TRUE] /\ typedIn = None
        /\ alert = FALSE /\ focus = "input" /\ closedUnder = FALSE
    BY DEF X!InitPage
  <2>2. TextInv
    BY <2>1, PageAssumption DEF TextInv, Heard
  <2>3. FrameInv /\ KeyInv /\ X!NeverFights
    BY <2>1 DEF FrameInv, KeyInv, X!NeverFights
  <2> QED BY <2>1, <2>2, <2>3 DEF PageInv
<1>2. Inv /\ [Next]_vars => Inv'
  <2> SUFFICES ASSUME PageInv, part = "page", [Next]_vars PROVE PageInv'
    BY DEF Next, vars
  <2>1. [X!NextPage]_(X!pageVars)
    BY DEF Next, vars, X!pageVars
  <2> QED BY <2>1, TextsInductive, FramesInductive, KeysInductive, RequestsInductive DEF PageInv
<1>3. Inv => PageIntact
  <2> SUFFICES ASSUME PageInv PROVE X!PageIntact
    BY DEF PageIntact
  <2>1. X!TextsInOrder
    BY DEF PageInv, TextInv, X!TextsInOrder
  <2>2. X!SelectionDrawn
    <3>1. X!Rows # <<>> => X!SelectedIndex \in X!Drawn(X!Rows, X!SelectedIndex)
      BY SelectedIsDrawn DEF PageInv, TextInv
    <3>2. panelOpen /\ X!Entries # <<>> => index <= Len(X!Entries)
      BY DEF PageInv, FrameInv
    <3> QED BY <3>1, <3>2 DEF X!SelectionDrawn
  <2>3. X!KeysLand
    BY DEF PageInv, KeyInv, X!KeysLand
  <2>4. X!BarTellsTruth
    <3> DEFINE empty == text = ""
    <3>1. empty \in BOOLEAN
      OBVIOUS
    <3> HIDE DEF empty
    <3>2. {"open", "secondary", "back", "actionPanel"} \subseteq X!ToSet(KeyActions)
      <4>1. KeyActions[1] = "actionPanel" /\ KeyActions[2] = "open" /\ KeyActions[3] = "secondary" /\ KeyActions[7] = "back"
            /\ DOMAIN KeyActions = 1..7
        BY DEF KeyActions
      <4> QED BY <4>1 DEF X!ToSet
    <3>3. ASSUME NEW a \in {"open", "secondary", "back", "actionPanel"}, X!ChordFor(a, empty) # None,
                 X!ChordFor(a, empty) \notin X!KeyConflicts
          PROVE  X!KeyActionFor(X!ChordFor(a, empty), empty) = a
      BY <3>1, <3>2, <3>3, BarIsTrue
    <3>4. \A a \in {"open", "secondary", "back", "actionPanel"} :
             X!ChordFor(a, empty) = None \/ X!KeyActionFor(X!ChordFor(a, empty), empty) = a
             \/ X!ChordFor(a, empty) \in X!KeyConflicts
      BY <3>3
    <3> QED BY <3>4 DEF X!BarTellsTruth, empty
  <2>5. X!NeverFights
    BY DEF PageInv
  <2> QED BY <2>1, <2>2, <2>3, <2>4, <2>5 DEF X!PageIntact
<1> QED BY <1>1, <1>2, <1>3, PTL DEF Spec
================================================================================
