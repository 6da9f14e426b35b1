----------------------------- MODULE BomProofs ------------------------------
(***************************************************************************)
(* Theorems about the bill of materials and the sheets of Package, for     *)
(* orders of any size and any price list: its lines have a quantity, a     *)
(* section and one price for a part (LinesAre, BomInv), they name what is  *)
(* built (BillInv), the three sums agree, an order over a whole release    *)
(* and price list ends with a package, and its sheets show the site that   *)
(* is built (DrawnInv).                                                    *)
(***************************************************************************)
EXTENDS PackageProofs
-----------------------------------------------------------------------------
(***************************************************************************)
(* Sums over finite sets.  SumFunctionOnSet folds a function by a          *)
(* recursion over the subsets of the set, which takes whichever element    *)
(* CHOOSE gives first; here, that the recursion has a solution, and that   *)
(* the sum is the same in whatever order, by classes, and over images.     *)
(***************************************************************************)
\* The recursion, and its solution h for subsets of at most n elements.
Pick(s) == CHOOSE x \in s : TRUE
Sums(f, S, it) ==
    it = [s \in SUBSET S |-> IF s = {} THEN 0 ELSE f[Pick(s)] + it[s \ {Pick(s)}]]
OfSize(S, n) == {s \in SUBSET S : Cardinality(s) <= n}
SumsTo(f, S, n, h) ==
    \A s \in OfSize(S, n) :
        h[s] = IF s = {} THEN 0 ELSE f[Pick(s)] + h[s \ {Pick(s)}]

LEMMA Smaller ==
  ASSUME NEW S, IsFiniteSet(S)
  PROVE  \A s \in SUBSET S : 
            /\ IsFiniteSet(s) /\ Cardinality(s) \in Nat
            /\ Cardinality(s) <= Cardinality(S)
            /\ Cardinality(s) = 0 <=> s = {}
            /\ \A x \in s : /\ Cardinality(s \ {x}) = Cardinality(s) - 1
                            /\ s \ {x} \in SUBSET S
                            /\ Cardinality(s) >= 1
            /\ s # {} => Pick(s) \in s
<1> SUFFICES ASSUME NEW s \in SUBSET S
             PROVE  /\ IsFiniteSet(s) /\ Cardinality(s) \in Nat
                    /\ Cardinality(s) <= Cardinality(S)
                    /\ Cardinality(s) = 0 <=> s = {}
                    /\ \A x \in s : /\ Cardinality(s \ {x}) = Cardinality(s) - 1
                            /\ s \ {x} \in SUBSET S
                            /\ Cardinality(s) >= 1
                    /\ s # {} => Pick(s) \in s
  OBVIOUS
<1>1. IsFiniteSet(s) /\ Cardinality(s) <= Cardinality(S)
  BY FS_Subset
<1>2. Cardinality(s) \in Nat /\ (Cardinality(s) = 0 <=> s = {})
  BY <1>1, FS_CardinalityType, FS_EmptySet
<1>3. \A x \in s : Cardinality(s \ {x}) = Cardinality(s) - 1
  BY <1>1, FS_RemoveElement
<1>4. ASSUME NEW x \in s PROVE Cardinality(s) >= 1
  BY <1>2
<1> QED
  BY <1>1, <1>2, <1>3, <1>4 DEF Pick

LEMMA SumsExist ==
  ASSUME NEW S, IsFiniteSet(S), NEW f, \A x \in S : f[x] \in Nat
  PROVE  \E h \in [SUBSET S -> Nat] : Sums(f, S, h)
<1> DEFINE Has(n) == \E h \in [OfSize(S, n) -> Nat] : SumsTo(f, S, n, h)
           Bad == {n \in Nat : ~Has(n)}
<1>0. \A n \in Nat : \A s \in OfSize(S, n) : 
         /\ s \in SUBSET S /\ Cardinality(s) <= n
         /\ s # {} => /\ Pick(s) \in S /\ f[Pick(s)] \in Nat
                      /\ s \ {Pick(s)} \in OfSize(S, n)
                      /\ \A m \in Nat : n = m + 1 => s \ {Pick(s)} \in OfSize(S, m)
  BY Smaller DEF OfSize
<1>1. Has(0)
  <2> DEFINE h == [s \in OfSize(S, 0) |-> 0]
  <2>1. \A s \in OfSize(S, 0) : s = {}
    BY Smaller DEF OfSize
  <2>2. h \in [OfSize(S, 0) -> Nat] /\ SumsTo(f, S, 0, h)
    BY <2>1 DEF SumsTo
  <2> QED
    BY <2>2
<1>2. ASSUME NEW n \in Nat, Has(n)
      PROVE  Has(n + 1)
  <2>1. PICK h \in [OfSize(S, n) -> Nat] : SumsTo(f, S, n, h)
    BY <1>2
  <2> DEFINE g == [s \in OfSize(S, n + 1) |-> 
                     IF s = {} THEN 0 ELSE f[Pick(s)] + h[s \ {Pick(s)}]]
  <2>2. ASSUME NEW s \in OfSize(S, n + 1), s # {}
        PROVE  f[Pick(s)] \in Nat /\ h[s \ {Pick(s)}] \in Nat /\ s \ {Pick(s)} \in OfSize(S, n)
    <3>1. n + 1 \in Nat
      OBVIOUS
    <3>2. f[Pick(s)] \in Nat /\ s \ {Pick(s)} \in OfSize(S, n)
      BY <1>0, <2>2, <3>1
    <3> QED
      BY <3>2
  <2>3. g \in [OfSize(S, n + 1) -> Nat]
    BY <2>2
  <2>4. ASSUME NEW s \in OfSize(S, n) PROVE s \in OfSize(S, n + 1) /\ g[s] = h[s]
    <3>1. s \in OfSize(S, n + 1)
      BY Smaller DEF OfSize
    <3> QED
      BY <3>1, <2>1 DEF SumsTo
  <2>5. SumsTo(f, S, n + 1, g)
    <3> SUFFICES ASSUME NEW s \in OfSize(S, n + 1)
                 PROVE  g[s] = IF s = {} THEN 0 ELSE f[Pick(s)] + g[s \ {Pick(s)}]
      BY DEF SumsTo
    <3>1. CASE s = {}
      BY <3>1
    <3>2. CASE s # {}
      <4>1. g[s \ {Pick(s)}] = h[s \ {Pick(s)}]
        BY <2>2, <2>4, <3>2
      <4> QED
        BY <3>2, <4>1
    <3> QED
      BY <3>1, <3>2
  <2> QED
    BY <2>3, <2>5
<1> HIDE DEF Has
<1>3. Bad = {}
  <2> SUFFICES ASSUME Bad # {}
               PROVE  FALSE
    OBVIOUS
  <2>1. PICK n \in Bad : \A m \in Bad : n <= m
    BY LeastNatural
  <2>2. n \in Nat /\ n # 0 /\ ~Has(n)
    BY <1>1
  <2>3. n - 1 \in Nat /\ n - 1 \notin Bad /\ (n - 1) + 1 = n
    BY <2>1, <2>2
  <2>4. Has(n - 1)
    BY <2>3
  <2> QED
    BY <1>2, <2>2, <2>3, <2>4
<1>4. Cardinality(S) \in Nat /\ OfSize(S, Cardinality(S)) = SUBSET S
  BY Smaller, FS_CardinalityType DEF OfSize
<1>5. Has(Cardinality(S))
  BY <1>3, <1>4
<1>6. PICK h \in [SUBSET S -> Nat] : SumsTo(f, S, Cardinality(S), h)
  BY <1>4, <1>5 DEF Has
<1>7. \A s \in SUBSET S : h[s] = IF s = {} THEN 0 ELSE f[Pick(s)] + h[s \ {Pick(s)}]
  BY <1>4, <1>6 DEF SumsTo
<1>8. h = [s \in SUBSET S |-> IF s = {} THEN 0 ELSE f[Pick(s)] + h[s \ {Pick(s)}]]
  BY <1>7
<1> QED
  BY <1>8 DEF Sums

\* Two such functions agree where both are defined.
LEMMA SumsAgree ==
  ASSUME NEW S, IsFiniteSet(S), NEW T \in SUBSET S, NEW f, NEW g,
         \A x \in T : f[x] = g[x],
         NEW h, NEW i, Sums(f, S, h), Sums(g, T, i)
  PROVE  h[T] = i[T]
<1> DEFINE Bad == {n \in Nat : \E s \in SUBSET T : Cardinality(s) = n /\ h[s] # i[s]}
<1>0. \A s \in SUBSET T : /\ h[s] = IF s = {} THEN 0 ELSE f[Pick(s)] + h[s \ {Pick(s)}]
                          /\ i[s] = IF s = {} THEN 0 ELSE g[Pick(s)] + i[s \ {Pick(s)}]
  <2>1. \A s \in SUBSET S : h[s] = IF s = {} THEN 0 ELSE f[Pick(s)] + h[s \ {Pick(s)}]
    BY DEF Sums
  <2>2. \A s \in SUBSET T : i[s] = IF s = {} THEN 0 ELSE g[Pick(s)] + i[s \ {Pick(s)}]
    BY DEF Sums
  <2> QED
    BY <2>1, <2>2
<1>1. Bad = {}
  <2> SUFFICES ASSUME Bad # {}
               PROVE  FALSE
    OBVIOUS
  <2>1. PICK n \in Bad : \A m \in Bad : n <= m
    BY LeastNatural
  <2>2. PICK s \in SUBSET T : Cardinality(s) = n /\ h[s] # i[s]
    OBVIOUS
  <2>3. s # {}
    BY <1>0, <2>2
  <2>4. Pick(s) \in s /\ Cardinality(s \ {Pick(s)}) = n - 1 /\ n - 1 \in Nat
    BY <2>2, <2>3, Smaller
  <2>5. h[s \ {Pick(s)}] = i[s \ {Pick(s)}]
    BY <2>1, <2>4
  <2> QED
    BY <1>0, <2>2, <2>3, <2>4, <2>5
<1> QED
  BY <1>1, Smaller

LEMMA SumIs ==
  ASSUME NEW S, IsFiniteSet(S), NEW f, NEW h, Sums(f, S, h)
  PROVE  SumFunctionOnSet(f, S) = h[S]
<1> DEFINE it == CHOOSE it : it = [s \in SUBSET S |->
                     IF s = {} THEN 0
                     ELSE f[CHOOSE x \in s : TRUE] + it[s \ {CHOOSE x \in s : TRUE}]]
<1>1. SumFunctionOnSet(f, S) = it[S]
  BY DEF SumFunctionOnSet, FoldFunctionOnSet, MapThenFoldSet
<1>2. Sums(f, S, it)
  BY DEF Sums, Pick
<1> HIDE DEF it
<1>3. it[S] = h[S]
  BY <1>2, SumsAgree
<1> QED
  BY <1>1, <1>3

Splits(f, S, h) == \A s \in SUBSET S : \A x \in s : h[s] = f[x] + h[s \ {x}]

\* In whatever order the elements are taken.
LEMMA AnyFirst ==
  ASSUME NEW S, IsFiniteSet(S), NEW f, \A x \in S : f[x] \in Nat,
         NEW h, h \in [SUBSET S -> Nat], Sums(f, S, h)
  PROVE  Splits(f, S, h)
<1> DEFINE SplitsAt(s) == \A x \in s : h[s] = f[x] + h[s \ {x}]
           Bad == {n \in Nat : \E s \in SUBSET S : Cardinality(s) = n /\ ~SplitsAt(s)}
<1>0. \A s \in SUBSET S : s # {} => h[s] = f[Pick(s)] + h[s \ {Pick(s)}]
  BY DEF Sums
<1>1. Bad = {}
  <2> SUFFICES ASSUME Bad # {}
               PROVE  FALSE
    OBVIOUS
  <2>1. PICK n \in Bad : \A m \in Bad : n <= m
    BY LeastNatural
  <2>2. PICK s \in SUBSET S : Cardinality(s) = n /\ ~SplitsAt(s)
    BY <2>1
  <2>3. PICK x \in s : h[s] # f[x] + h[s \ {x}]
    BY <2>2
  <2> DEFINE y == Pick(s)
  <2>4. y \in s /\ h[s] = f[y] + h[s \ {y}] /\ x # y
    BY <1>0, <2>3, Smaller
  <2> HIDE DEF y
  <2>5. /\ n - 1 \in Nat /\ n - 1 \notin Bad
        /\ Cardinality(s \ {x}) = n - 1 /\ Cardinality(s \ {y}) = n - 1
    <3>1. n \in Nat /\ n >= 1
      BY <2>2, Smaller
    <3>2. Cardinality(s \ {x}) = n - 1 /\ Cardinality(s \ {y}) = n - 1
      BY <2>2, <2>4, Smaller
    <3>3. n - 1 \in Nat /\ ~(n <= n - 1)
      BY <3>1
    <3> QED
      BY <2>1, <3>2, <3>3
  <2>6. \A t \in SUBSET S : Cardinality(t) = n - 1 => SplitsAt(t)
    BY <2>5
  <2>7. h[s \ {y}] = f[x] + h[(s \ {y}) \ {x}] /\ h[s \ {x}] = f[y] + h[(s \ {x}) \ {y}]
    <3>1. s \ {x} \in SUBSET S /\ s \ {y} \in SUBSET S /\ x \in s \ {y} /\ y \in s \ {x}
      BY <2>4
    <3> QED
      BY <2>5, <2>6, <3>1
  <2>8. (s \ {y}) \ {x} = (s \ {x}) \ {y}
    OBVIOUS
  <2>9. f[x] \in Nat /\ f[y] \in Nat /\ h[(s \ {x}) \ {y}] \in Nat
    <3>1. (s \ {x}) \ {y} \in SUBSET S
      OBVIOUS
    <3> QED
      BY <2>4, <3>1
  <2>10. h[s] = f[y] + (f[x] + h[(s \ {x}) \ {y}]) /\ h[s \ {x}] = f[y] + h[(s \ {x}) \ {y}]
    BY <2>4, <2>7, <2>8
  <2> HIDE DEF Bad, SplitsAt
  <2>11. h[s] = f[x] + h[s \ {x}]
    BY <2>9, <2>10
  <2> QED
    BY <2>3, <2>11
<1>2. ASSUME NEW s \in SUBSET S
      PROVE  SplitsAt(s)
  <2>1. Cardinality(s) \in Nat
    BY Smaller
  <2> QED
    BY <1>1, <2>1
<1> QED
  BY <1>2 DEF Splits

\* The sum of a function over a finite set: the value at any element and the
\* sum of the rest.
LEMMA SumOfNone ==
  ASSUME NEW f
  PROVE  SumFunctionOnSet(f, {}) = 0
<1> DEFINE h == [s \in SUBSET {} |-> 0]
<1>1. \A s \in SUBSET {} : s = {}
  OBVIOUS
<1>2. Sums(f, {}, h) /\ h[{}] = 0
  BY <1>1 DEF Sums
<1> QED
  BY <1>2, SumIs, FS_EmptySet

LEMMA SumStep ==
  ASSUME NEW S, IsFiniteSet(S), NEW f, \A x \in S : f[x] \in Nat
  PROVE  /\ SumFunctionOnSet(f, S) \in Nat
         /\ \A x \in S : /\ SumFunctionOnSet(f, S) = f[x] + SumFunctionOnSet(f, S \ {x})
                         /\ SumFunctionOnSet(f, S \ {x}) \in Nat
<1>1. PICK h \in [SUBSET S -> Nat] : Sums(f, S, h)
  BY SumsExist
<1>2. ASSUME NEW T \in SUBSET S
      PROVE  SumFunctionOnSet(f, T) = h[T]
  <2>1. IsFiniteSet(T)
    BY FS_Subset
  <2>2. PICK i \in [SUBSET T -> Nat] : Sums(f, T, i)
    BY <2>1, SumsExist
  <2>3. SumFunctionOnSet(f, T) = i[T]
    BY <2>1, <2>2, SumIs
  <2>4. h[T] = i[T]
    BY <1>1, <2>2, SumsAgree
  <2> QED
    BY <2>3, <2>4
<1>3. \A x \in S : h[S] = f[x] + h[S \ {x}]
  <2>1. Splits(f, S, h)
    BY <1>1, AnyFirst
  <2> QED
    BY <2>1 DEF Splits
<1> QED
  BY <1>2, <1>3

\* Functions that agree have the same sum.
LEMMA SumAgrees ==
  ASSUME NEW S, IsFiniteSet(S), NEW f, \A x \in S : f[x] \in Nat,
         NEW g, \A x \in S : f[x] = g[x]
  PROVE  SumFunctionOnSet(f, S) = SumFunctionOnSet(g, S)
<1>1. PICK h \in [SUBSET S -> Nat] : Sums(f, S, h)
  BY SumsExist
<1>2. \A x \in S : g[x] \in Nat
  OBVIOUS
<1>3. PICK i \in [SUBSET S -> Nat] : Sums(g, S, i)
  BY <1>2, SumsExist
<1>4. h[S] = i[S]
  BY <1>1, <1>3, SumsAgree
<1> QED
  BY <1>1, <1>3, <1>4, SumIs

\* Sets of subsets that take any element more hold the whole.
LEMMA Accumulate ==
  ASSUME NEW S, IsFiniteSet(S), NEW G, {} \in G,
         \A s \in SUBSET S : \A x \in S \ s : s \in G => s \cup {x} \in G
  PROVE  S \in G
<1> DEFINE Bad == {n \in Nat : \E s \in SUBSET S : Cardinality(s) = n /\ s \notin G}
<1>1. Bad = {}
  <2> SUFFICES ASSUME Bad # {}
               PROVE  FALSE
    OBVIOUS
  <2>1. PICK n \in Bad : \A m \in Bad : n <= m
    BY LeastNatural
  <2>2. PICK s \in SUBSET S : Cardinality(s) = n /\ s \notin G
    BY <2>1
  <2>3. PICK x \in s : TRUE
    BY <2>2
  <2>4. /\ n \in Nat /\ n >= 1 /\ Cardinality(s \ {x}) = n - 1 /\ s \ {x} \in SUBSET S
    BY <2>2, Smaller
  <2>5. n - 1 \in Nat /\ ~(n <= n - 1)
    BY <2>4
  <2>6. n - 1 \notin Bad
    BY <2>1, <2>5
  <2>7. s \ {x} \in G
    BY <2>4, <2>5, <2>6
  <2>8. s = (s \ {x}) \cup {x} /\ x \in S \ (s \ {x})
    BY <2>3
  <2> QED
    BY <2>2, <2>4, <2>7, <2>8
<1> QED
  BY <1>1, Smaller

\* What a part adds.
LEMMA SumWith ==
  ASSUME NEW S, IsFiniteSet(S), NEW f, \A x \in S : f[x] \in Nat,
         NEW s \in SUBSET S, NEW x \in S \ s
  PROVE  SumFunctionOnSet(f, s \cup {x}) = f[x] + SumFunctionOnSet(f, s)
<1>1. IsFiniteSet(s \cup {x}) /\ \A y \in s \cup {x} : f[y] \in Nat
  <2>1. s \cup {x} \in SUBSET S
    OBVIOUS
  <2> QED
    BY <2>1, FS_Subset
<1>2. (s \cup {x}) \ {x} = s
  OBVIOUS
<1> QED
  BY <1>1, <1>2, SumStep

\* No value is greater than the sum, and a sum of values above 0 is.
LEMMA SumAtLeast ==
  ASSUME NEW S, IsFiniteSet(S), NEW f, \A x \in S : f[x] \in Nat, NEW x \in S
  PROVE  f[x] <= SumFunctionOnSet(f, S) /\ SumFunctionOnSet(f, S) \in Nat
<1>1. SumFunctionOnSet(f, S) = f[x] + SumFunctionOnSet(f, S \ {x})
      /\ SumFunctionOnSet(f, S \ {x}) \in Nat /\ f[x] \in Nat
  BY SumStep
<1> QED
  BY <1>1

\* The sum by classes: key sorts S into K.
Classes(S, key, f, K) ==
    [k \in K |-> SumFunctionOnSet(f, {x \in S : key[x] = k})]
LEMMA SumByClass ==
  ASSUME NEW S, IsFiniteSet(S), NEW f, \A x \in S : f[x] \in Nat,
         NEW K, IsFiniteSet(K), NEW key, \A x \in S : key[x] \in K
  PROVE  SumFunctionOnSet(Classes(S, key, f, K), K) = SumFunctionOnSet(f, S)
<1> DEFINE G == {s \in SUBSET S : SumFunctionOnSet(Classes(s, key, f, K), K)
                                    = SumFunctionOnSet(f, s)}
<1>1. {} \in G
  <2> DEFINE c == Classes({}, key, f, K)
  <2>1. \A k \in K : c[k] = 0
    <3>1. \A k : {x \in {} : key[x] = k} = {}
      OBVIOUS
    <3> QED
      BY <3>1, SumOfNone DEF Classes
  <2> HIDE DEF c
  <2> DEFINE GK == {s \in SUBSET K : SumFunctionOnSet(c, s) = 0}
  <2>2. {} \in GK
    BY SumOfNone
  <2>3. ASSUME NEW s \in SUBSET K, NEW k \in K \ s, s \in GK
        PROVE  s \cup {k} \in GK
    <3>1. SumFunctionOnSet(c, s \cup {k}) = c[k] + SumFunctionOnSet(c, s)
      BY <2>1, SumWith
    <3> QED
      BY <2>1, <2>3, <3>1
  <2> HIDE DEF GK
  <2>4. K \in GK
    BY <2>2, <2>3, Accumulate
  <2> QED
    BY <2>4, SumOfNone DEF c, GK
<1>2. ASSUME NEW s \in SUBSET S, NEW x \in S \ s, s \in G
      PROVE  s \cup {x} \in G
  <2> DEFINE t == s \cup {x}
             c == Classes(s, key, f, K)
             d == Classes(t, key, f, K)
             q == key[x]
             In(r, k) == {y \in r : key[y] = k}
  <2>0. t \in SUBSET S /\ q \in K
    OBVIOUS
  <2>1. \A r \in SUBSET S : \A k \in K :
           /\ In(r, k) \in SUBSET S
           /\ Classes(r, key, f, K)[k] = SumFunctionOnSet(f, In(r, k))
           /\ Classes(r, key, f, K)[k] \in Nat
    <3> SUFFICES ASSUME NEW r \in SUBSET S, NEW k \in K
                 PROVE  /\ In(r, k) \in SUBSET S
                        /\ Classes(r, key, f, K)[k] = SumFunctionOnSet(f, In(r, k))
                        /\ Classes(r, key, f, K)[k] \in Nat
      OBVIOUS
    <3>1. In(r, k) \in SUBSET S /\ Classes(r, key, f, K)[k] = SumFunctionOnSet(f, In(r, k))
      BY DEF Classes
    <3>2. IsFiniteSet(In(r, k)) /\ \A y \in In(r, k) : f[y] \in Nat
      BY <3>1, FS_Subset
    <3> HIDE DEF In
    <3>3. SumFunctionOnSet(f, In(r, k)) \in Nat
      BY <3>2, SumStep
    <3> QED
      BY <3>1, <3>3
  <2>2. \A k \in K \ {q} : c[k] = d[k]
    <3>1. \A k \in K \ {q} : In(s, k) = In(t, k)
      OBVIOUS
    <3> QED
      BY <2>0, <2>1, <3>1
  <2>3. d[q] = f[x] + c[q]
    <3>1. In(t, q) = In(s, q) \cup {x} /\ x \in S \ In(s, q) /\ In(s, q) \in SUBSET S
      OBVIOUS
    <3>2. SumFunctionOnSet(f, In(s, q) \cup {x}) = f[x] + SumFunctionOnSet(f, In(s, q))
      <4> HIDE DEF In
      <4> QED
        BY <3>1, SumWith
    <3> QED
      BY <2>0, <2>1, <3>1, <3>2
  <2>4. /\ \A k \in K : c[k] \in Nat /\ d[k] \in Nat
    BY <2>0, <2>1
  <2> HIDE DEF c, d
  <2>5. /\ SumFunctionOnSet(d, K) = d[q] + SumFunctionOnSet(d, K \ {q})
        /\ SumFunctionOnSet(c, K) = c[q] + SumFunctionOnSet(c, K \ {q})
        /\ SumFunctionOnSet(c, K \ {q}) \in Nat
    BY <2>0, <2>4, SumStep
  <2>6. SumFunctionOnSet(d, K \ {q}) = SumFunctionOnSet(c, K \ {q})
    <3>1. IsFiniteSet(K \ {q})
      BY FS_Subset
    <3> QED
      BY <2>2, <2>4, <3>1, SumAgrees
  <2>7. SumFunctionOnSet(f, t) = f[x] + SumFunctionOnSet(f, s)
    BY SumWith
  <2>8. SumFunctionOnSet(c, K) = SumFunctionOnSet(f, s) /\ f[x] \in Nat /\ c[q] \in Nat
    BY <1>2, <2>0, <2>4 DEF c
  <2>9. SumFunctionOnSet(d, K) = SumFunctionOnSet(f, t)
    <3> HIDE DEF t, q
    <3> QED
      BY <2>3, <2>5, <2>6, <2>7, <2>8
  <2> QED
    BY <2>0, <2>9 DEF d
<1> HIDE DEF G
<1>3. S \in G
  BY <1>1, <1>2, Accumulate
<1> QED
  BY <1>3 DEF G

\* A sum over the images, if no two elements have the same.
LEMMA SumOfImages ==
  ASSUME NEW S, IsFiniteSet(S), NEW f, NEW e, NEW g,
         \A x \in S : f[x] \in Nat /\ g[e[x]] = f[x],
         \A x, y \in S : e[x] = e[y] => x = y
  PROVE  SumFunctionOnSet(g, {e[x] : x \in S}) = SumFunctionOnSet(f, S)
<1> DEFINE E(s) == {e[x] : x \in s}
           G == {s \in SUBSET S : /\ IsFiniteSet(E(s))
                                  /\ SumFunctionOnSet(g, E(s)) = SumFunctionOnSet(f, s)}
<1>1. {} \in G
  <2>1. E({}) = {}
    OBVIOUS
  <2> QED
    BY <2>1, SumOfNone, FS_EmptySet
<1>2. ASSUME NEW s \in SUBSET S, NEW x \in S \ s, s \in G
      PROVE  s \cup {x} \in G
  <2>1. E(s \cup {x}) = E(s) \cup {e[x]} /\ e[x] \notin E(s)
    OBVIOUS
  <2> DEFINE F == E(s)
  <2>2. IsFiniteSet(F \cup {e[x]})
    BY <1>2, FS_AddElement
  <2>3. \A y \in F \cup {e[x]} : g[y] \in Nat
    OBVIOUS
  <2>4. /\ e[x] \in (F \cup {e[x]}) \ F /\ F \in SUBSET (F \cup {e[x]})
    BY <2>1
  <2>5. SumFunctionOnSet(g, F \cup {e[x]}) = g[e[x]] + SumFunctionOnSet(g, F)
    <3> HIDE DEF F
    <3> QED
      BY <2>2, <2>3, <2>4, SumWith
  <2>6. SumFunctionOnSet(f, s \cup {x}) = f[x] + SumFunctionOnSet(f, s)
    BY SumWith
  <2>7. SumFunctionOnSet(g, F) = SumFunctionOnSet(f, s) /\ g[e[x]] = f[x]
    BY <1>2
  <2>8. SumFunctionOnSet(g, E(s \cup {x})) = SumFunctionOnSet(f, s \cup {x})
    BY <2>1, <2>5, <2>6, <2>7
  <2>9. IsFiniteSet(E(s \cup {x})) /\ s \cup {x} \in SUBSET S
    BY <2>1, <2>2
  <2> HIDE DEF E
  <2> QED
    BY <2>8, <2>9
<1> HIDE DEF G
<1>3. S \in G
  BY <1>1, <1>2, Accumulate
<1> QED
  BY <1>3 DEF G

-----------------------------------------------------------------------------
(***************************************************************************)
(* The schedule is finite, and of its kinds.                               *)
(***************************************************************************)
\* Finitely many kinds and ends make finitely many runs.
LEMMA FewRuns ==
  ASSUME NEW kinds, IsFiniteSet(kinds), IsFiniteSet(devices), NEW R, \A r \in R : Joins(r, kinds)
  PROVE  IsFiniteSet(R)
<1> DEFINE at == [d \in devices |-> d.tag]
           ends == kinds \X (Landing \X Landing)
           run == [x \in ends |-> PlainRun(x[1], x[2][1], x[2][2])]
<1>1. IsFiniteSet(Landing)
  <2>1. IsFiniteSet({at[d] : d \in devices})
    BY ImageIsFinite
  <2>2. Landing = {at[d] : d \in devices} \cup {EmsGateway.tag}
    BY DEF Landing, Tags
  <2> QED
    BY <2>1, <2>2, FS_AddElement
<1>2. IsFiniteSet(ends)
  BY <1>1, FS_Product
<1>3. IsFiniteSet({run[x] : x \in ends})
  <2> HIDE DEF ends
  <2>1. DOMAIN run = ends
    OBVIOUS
  <2> HIDE DEF run
  <2> QED
    BY <1>2, <2>1, ImageIsFinite
<1>4. ASSUME NEW r \in R
      PROVE  \E x \in ends : r = run[x]
  <2>1. Joins(r, kinds)
    OBVIOUS
  <2>2. PICK kind \in kinds : \E from \in Landing : \E to \in Landing : r = PlainRun(kind, from, to)
    BY <2>1 DEF Joins
  <2>3. PICK from \in Landing : \E to \in Landing : r = PlainRun(kind, from, to)
    BY <2>2
  <2>4. PICK to \in Landing : r = PlainRun(kind, from, to)
    BY <2>3
  <2>5. <<kind, <<from, to>>>> \in ends
    OBVIOUS
  <2>6. run[<<kind, <<from, to>>>>] = PlainRun(kind, from, to)
    BY <2>5
  <2> QED
    BY <2>4, <2>5, <2>6
<1>5. R \subseteq {run[x] : x \in ends}
  BY <1>4
<1> HIDE DEF ends, run
<1> QED
  BY <1>3, <1>5, PartIsSmaller

LEMMA ScheduleTyped ==
  ASSUME ManifestInv, ScheduleInv, stage \in Scheduled
  PROVE  /\ IsFiniteSet(cables) /\ IsFiniteSet(hoses)
         /\ \A r \in cables : r.kind \in CableKinds /\ r.port \in Nat
         /\ \A r \in hoses : r.kind \in HoseKinds
<1> DEFINE plain == {r \in cables : r \notin PatchCables}
           P == {d \in devices : d.polled}
           patch == [d \in P |-> PatchOf(d)]
<1>1. IsFiniteSet(CableKinds) /\ IsFiniteSet(HoseKinds)
  <2>1. CableKinds = {"feeder"} \cup {"pcs_dc"} \cup {"pdu_cord"} \cup {"branch"} \cup {"node_cord"}
                        \cup {"switch_cord"} \cup {"copper"} \cup {"fiber"}
    BY DEF CableKinds
  <2>2. HoseKinds = {"primary"} \cup {"secondary"}
    BY DEF HoseKinds
  <2>3. /\ IsFiniteSet({"feeder"}) /\ IsFiniteSet({"primary"})
    BY FS_Singleton
  <2>4. IsFiniteSet({"feeder"} \cup {"pcs_dc"} \cup {"pdu_cord"} \cup {"branch"})
    BY <2>3, FS_AddElement
  <2>5. IsFiniteSet({"feeder"} \cup {"pcs_dc"} \cup {"pdu_cord"} \cup {"branch"} \cup {"node_cord"}
                        \cup {"switch_cord"} \cup {"copper"} \cup {"fiber"})
    BY <2>4, FS_AddElement
  <2>6. IsFiniteSet({"primary"} \cup {"secondary"})
    BY <2>3, FS_AddElement
  <2> QED
    BY <2>1, <2>2, <2>5, <2>6
<1>2. IsFiniteSet(devices)
  BY DevicesDiffer
<1>3. /\ \A r \in plain : Joins(r, CableKinds)
      /\ \A r \in hoses : Joins(r, HoseKinds)
  BY CablesLand
<1>4. IsFiniteSet(plain) /\ IsFiniteSet(hoses)
  <2> HIDE DEF plain
  <2> QED
    BY <1>1, <1>2, <1>3, FewRuns
<1>5. PatchCables = {patch[d] : d \in P}
  BY PatchesAre
<1>6. IsFiniteSet(PatchCables)
  <2>1. IsFiniteSet(P)
    BY <1>2, PartIsSmaller
  <2>2. DOMAIN patch = P
    OBVIOUS
  <2> HIDE DEF patch, P
  <2> QED
    BY <1>5, <2>1, <2>2, ImageIsFinite
<1>7. IsFiniteSet(cables)
  <2>1. IsFiniteSet(plain \cup PatchCables)
    BY <1>4, <1>6, FS_Union
  <2> QED
    BY <2>1, PartIsSmaller
<1>8. \A r \in PatchCables : r.kind = "copper" /\ r.port \in Nat
  BY <1>5, PatchIs
<1>9. \A r \in plain : r.kind \in CableKinds /\ r.port \in Nat
  <2>1. \A r \in plain : r.kind \in CableKinds /\ r.port = 0
    BY <1>3, JoinsLand
  <2> QED
    BY <2>1
<1>10. \A r \in hoses : r.kind \in HoseKinds
  BY <1>3, JoinsLand
<1>11. \A r \in cables : r.kind \in CableKinds /\ r.port \in Nat
  BY <1>8, <1>9 DEF CableKinds
<1> QED
  BY <1>4, <1>7, <1>10, <1>11

-----------------------------------------------------------------------------
(***************************************************************************)
(* What bom.yaml files and lines are made of.                              *)
(***************************************************************************)
\* Finite, and nothing listed zero times.
IsYaml(y) ==
    /\ IsFiniteSet(y.parts) /\ IsFiniteSet(y.plates)
    /\ \A p \in y.parts : p.qty \in Nat \ {0} /\ IsFiniteSet(p.tags)
    /\ \A p \in y.plates : p.qty \in Nat \ {0}

YamlShape(y) ==
    DOMAIN y = {"parts", "plates"} /\ \A p \in y.parts : DOMAIN p = {"part", "qty", "tags"}

Fields == {"section", "path", "part", "qty", "ref", "note", "unit", "source"}
IsLine(l) ==
    /\ DOMAIN l = Fields
    /\ l.section \in {"compute", "grid", "site", "field"} /\ l.path \in Paths
    /\ l.qty \in Nat \ {0}

IsGroup(g) ==
    /\ g.first \in Nat /\ g.last \in Nat /\ g.first <= g.last
    /\ IsYaml(g.yaml)

\* A line before it is priced: the fields it was made of, and its note.
Blank(l) == l = [Line(l.section, l.path, l.part, l.qty, l.ref) EXCEPT !.note = l.note]

LEMMA LineIs ==
  ASSUME NEW section \in {"compute", "grid", "site", "field"}, NEW path \in Paths, NEW part,
         NEW qty \in Nat \ {0}, NEW ref
  PROVE  /\ IsLine(Line(section, path, part, qty, ref))
         /\ Line(section, path, part, qty, ref).unit = None
         /\ Line(section, path, part, qty, ref).part = part
         /\ Line(section, path, part, qty, ref).path = path
         /\ Line(section, path, part, qty, ref).section = section
         /\ Line(section, path, part, qty, ref).qty = qty
         /\ Line(section, path, part, qty, ref).ref = ref
         /\ Line(section, path, part, qty, ref).note = None
         /\ Blank(Line(section, path, part, qty, ref))
<1>1. Blank(Line(section, path, part, qty, ref))
  BY DEF Blank, Line
<1> QED
  BY <1>1 DEF Line, IsLine, Fields

\* A topology's bom.yaml lists each template as often as there are devices.
LEMMA YamlIs ==
  ASSUME NEW T \in Seq(Entries), NEW untagged, NEW plates, IsFiniteSet(plates),
         \A p \in plates : p.qty \in Nat \ {0}
  PROVE  IsYaml(BomYaml(T, untagged, plates))
<1> DEFINE D == 1 .. Len(T)
           templates == {T[i].template : i \in D}
           entry == [t \in templates |-> [part |-> t, qty |-> Cardinality(TagsOf(T, t)), tags |-> TagsOf(T, t)]]
           other == [part |-> untagged, qty |-> 2, tags |-> {}]
           y == BomYaml(T, untagged, plates)
<1>1. DOMAIN T = D /\ IsFiniteSet(D)
  BY LenProperties, FS_Interval
<1>2. y.parts = {entry[t] : t \in templates} \cup {other} /\ y.plates = plates
  <2>1. y.parts = {[part |-> t, qty |-> Cardinality(TagsOf(T, t)), tags |-> TagsOf(T, t)] : t \in templates}
                     \cup {other}
    BY <1>1 DEF BomYaml
  <2> QED
    BY <2>1 DEF BomYaml
<1>3. ASSUME NEW t \in templates
      PROVE  IsFiniteSet(TagsOf(T, t)) /\ Cardinality(TagsOf(T, t)) \in Nat \ {0}
  <2> DEFINE at == {j \in D : T[j].template = t}
             tag == [i \in at |-> <<T[i].name, T[i].k>>]
  <2>1. IsFiniteSet(at)
    BY <1>1, PartIsSmaller
  <2>2. TagsOf(T, t) = {tag[i] : i \in at}
    BY <1>1 DEF TagsOf
  <2>3. PICK i \in D : t = T[i].template
    OBVIOUS
  <2>4. i \in at
    BY <2>3
  <2>5. DOMAIN tag = at
    OBVIOUS
  <2> HIDE DEF at, tag
  <2>6. tag[i] \in TagsOf(T, t)
    BY <2>2, <2>4
  <2>7. IsFiniteSet({tag[j] : j \in at})
    BY <2>1, <2>5, ImageIsFinite
  <2>8. IsFiniteSet(TagsOf(T, t))
    BY <2>2, <2>7
  <2> QED
    BY <2>6, <2>8, FS_CardinalityType, FS_EmptySet
<1>4. IsFiniteSet(y.parts)
  <2>0. DOMAIN entry = templates
    OBVIOUS
  <2> HIDE DEF entry, other
  <2>1. IsFiniteSet(templates)
    <3> DEFINE f == [i \in D |-> T[i].template]
    <3>1. templates = {f[i] : i \in D} /\ DOMAIN f = D
      OBVIOUS
    <3> HIDE DEF templates, f, D
    <3> QED
      BY <1>1, <3>1, ImageIsFinite
  <2> HIDE DEF templates
  <2>2. IsFiniteSet({entry[t] : t \in templates})
    BY <2>0, <2>1, ImageIsFinite
  <2> QED
    BY <1>2, <2>2, FS_AddElement
<1>5. \A t \in templates : entry[t].qty \in Nat \ {0} /\ IsFiniteSet(entry[t].tags)
  BY <1>3
<1>6. other.qty \in Nat \ {0} /\ IsFiniteSet(other.tags)
  BY FS_EmptySet
<1> HIDE DEF y, entry, other, templates
<1>7. \A p \in y.parts : p.qty \in Nat \ {0} /\ IsFiniteSet(p.tags)
  BY <1>2, <1>5, <1>6
<1> QED
  BY <1>2, <1>4, <1>7 DEF IsYaml, y

\* What is dropped is not listed, and what stays is listed as often.
LEMMA WithoutIs ==
  ASSUME NEW y, IsYaml(y), YamlShape(y), NEW drop
  PROVE  IsYaml(Without(y, drop)) /\ Without(y, drop).plates = y.plates
<1> DEFINE S == {q \in y.parts : q.tags = {} \/ ~(q.tags \subseteq drop)}
           cut == [p \in S |-> IF p.tags \cap drop = {} THEN p
                               ELSE [p EXCEPT !.qty = Cardinality(p.tags \ drop), !.tags = @ \ drop]]
           z == Without(y, drop)
<1>1. z.parts = {cut[p] : p \in S} /\ z.plates = y.plates
  <2>1. {cut[p] : p \in S} = {IF p.tags \cap drop = {} THEN p
                              ELSE [p EXCEPT !.qty = Cardinality(p.tags \ drop), !.tags = @ \ drop] : p \in S}
    OBVIOUS
  <2>2. z = [y EXCEPT !.parts = {cut[p] : p \in S}]
    BY <2>1 DEF Without
  <2> HIDE DEF z, cut, S
  <2> QED
    BY <2>2 DEF YamlShape
<1>2. IsFiniteSet(S)
  BY PartIsSmaller DEF IsYaml
<1>3. IsFiniteSet({cut[p] : p \in S})
  <2>1. DOMAIN cut = S
    OBVIOUS
  <2> HIDE DEF cut, S
  <2> QED
    BY <1>2, <2>1, ImageIsFinite
<1>4. ASSUME NEW p \in S
      PROVE  cut[p].qty \in Nat \ {0} /\ IsFiniteSet(cut[p].tags)
  <2>1. p \in y.parts /\ p.qty \in Nat \ {0} /\ IsFiniteSet(p.tags) /\ DOMAIN p = {"part", "qty", "tags"}
    BY DEF IsYaml, YamlShape
  <2>2. CASE p.tags \cap drop = {}
    BY <2>1, <2>2
  <2>3. CASE p.tags \cap drop # {}
    <3>1. IsFiniteSet(p.tags \ drop) /\ p.tags \ drop # {}
      BY <2>1, <2>3, FS_Difference
    <3>2. Cardinality(p.tags \ drop) \in Nat \ {0}
      BY <3>1, FS_CardinalityType, FS_EmptySet
    <3>3. cut[p] = [p EXCEPT !.qty = Cardinality(p.tags \ drop), !.tags = @ \ drop]
      BY <2>3
    <3>4. cut[p].qty = Cardinality(p.tags \ drop) /\ cut[p].tags = p.tags \ drop
      <4> HIDE DEF cut
      <4> QED
        BY <2>1, <3>3
    <3> QED
      BY <3>1, <3>2, <3>4
  <2> QED
    BY <2>2, <2>3
<1> HIDE DEF cut, S, z
<1>5. \A p \in z.parts : p.qty \in Nat \ {0} /\ IsFiniteSet(p.tags)
  BY <1>1, <1>4
<1> QED
  BY <1>1, <1>3, <1>5 DEF IsYaml, z

-----------------------------------------------------------------------------
(***************************************************************************)
(* The groups of containers, and the lines of a section.                   *)
(***************************************************************************)
LEMMA TimesPositive ==
  ASSUME NEW a \in Nat \ {0}, NEW b \in Nat \ {0}
  PROVE  a * b \in Nat \ {0}
OBVIOUS

\* The sum of positive values over some elements.
LEMMA SumPositive ==
  ASSUME NEW S, IsFiniteSet(S), S # {}, NEW f, DOMAIN f = S, \A x \in S : f[x] \in Nat \ {0}
  PROVE  SumFunction(f) \in Nat \ {0}
<1>1. PICK x \in S : TRUE
  OBVIOUS
<1>2. f[x] <= SumFunctionOnSet(f, S) /\ SumFunctionOnSet(f, S) \in Nat
  BY SumAtLeast
<1>3. SumFunction(f) = SumFunctionOnSet(f, S)
  BY DEF SumFunction
<1> QED
  BY <1>1, <1>2, <1>3

LEMMA YamlsAre ==
  /\ IsYaml(ComputeBom) /\ IsYaml(PrimaryBom) /\ IsYaml(FeederBom)
  /\ YamlShape(ComputeBom) /\ YamlShape(PrimaryBom) /\ YamlShape(FeederBom)
<1> DEFINE few == {[part |-> "CD", qty |-> 1], [part |-> "DLC", qty |-> 7], [part |-> "CG", qty |-> 1]}
           two == {[part |-> "CG", qty |-> 2], [part |-> "MV", qty |-> 1]}
<1>1. /\ IsFiniteSet(few) /\ IsFiniteSet(two)
      /\ \A p \in few : p.qty \in Nat \ {0}
      /\ \A p \in two : p.qty \in Nat \ {0}
  <2>1. /\ \A p \in few : p.qty = 1 \/ p.qty = 7
        /\ \A p \in two : p.qty = 2 \/ p.qty = 1
    OBVIOUS
  <2>2. IsFiniteSet(few)
    BY AtMostThree
  <2>3. IsFiniteSet(two)
    <3> DEFINE a == [part |-> "CG", qty |-> 2]
               b == [part |-> "MV", qty |-> 1]
    <3>1. two \subseteq {a, b, b}
      OBVIOUS
    <3> HIDE DEF a, b, two
    <3> QED
      BY <3>1, AtMostThree
  <2> QED
    BY <2>1, <2>2, <2>3
<1> HIDE DEF few, two
<1>2. /\ ComputeBom = BomYaml(ComputeTopology(order.variant), "cable_gland", few)
      /\ PrimaryBom = BomYaml(PrimaryTopology(FALSE), "cable_gland", two)
      /\ FeederBom = BomYaml(FeederTopology, "cable_gland", two)
  BY DEF ComputeBom, PrimaryBom, FeederBom, few, two
<1>3. /\ ComputeTopology(order.variant) \in Seq(Entries)
      /\ PrimaryTopology(FALSE) \in Seq(Entries)
      /\ FeederTopology \in Seq(Entries)
  BY ComputeTagsDiffer, PrimaryTagsDiffer, FeederTagsDiffer DEF IsTopology
<1>4. IsYaml(ComputeBom) /\ IsYaml(PrimaryBom) /\ IsYaml(FeederBom)
  BY <1>1, <1>2, <1>3, YamlIs
<1>5. \A T, u, P : YamlShape(BomYaml(T, u, P))
  BY DEF BomYaml, YamlShape
<1>6. YamlShape(ComputeBom) /\ YamlShape(PrimaryBom) /\ YamlShape(FeederBom)
  BY <1>2, <1>5
<1> QED
  BY <1>4, <1>6

LEMMA GroupsAre ==
  ASSUME order \in Orders, site = Resolution(order)
  PROVE  /\ IsFiniteSet(ComputeGroups) /\ IsFiniteSet(GridGroups)
         /\ \A g \in ComputeGroups \cup GridGroups : IsGroup(g)
         /\ FullContainers \in Nat /\ FullContainers <= site.compute
<1>1. /\ site.compute \in Nat \ {0} /\ site.grid \in Nat \ {0}
  BY SiteIsSized
<1>2. FullContainers \in Nat /\ FullContainers <= site.compute
  BY <1>1 DEF FullContainers
<1> DEFINE cut == Without(ComputeBom, DroppedTags(NodesIn(site.nodes, site.compute)))
           c1 == Group("C", 1, FullContainers, ComputeBom)
           c2 == Group("C", FullContainers + 1, site.compute, cut)
           g1 == Group("G", 1, 1, PrimaryBom)
           g2 == Group("G", 2, site.grid, FeederBom)
<1>3. IsYaml(cut)
  BY YamlsAre, WithoutIs
<1>4. \A g \in {c1, c2, g1, g2} : /\ g.first \in Nat /\ g.last \in Nat
                                  /\ IsYaml(g.yaml)
  <2> HIDE DEF cut
  <2> QED
    BY <1>1, <1>2, <1>3, YamlsAre DEF Group
<1>5. ComputeGroups = {g \in {c1, c2} : g.first <= g.last}
  BY DEF ComputeGroups
<1>6. \A g \in GridGroups : g = g1 \/ (g = g2 /\ g.first <= g.last)
  BY DEF GridGroups
<1>7. g1.first <= g1.last
  BY DEF Group
<1> HIDE DEF c1, c2, g1, g2
<1>8. IsFiniteSet(ComputeGroups) /\ IsFiniteSet(GridGroups)
  <2>1. ComputeGroups \subseteq {c1, c2, c2} /\ GridGroups \subseteq {g1, g2, g2}
    BY <1>5, <1>6
  <2> QED
    BY <2>1, AtMostThree
<1> QED
  BY <1>2, <1>4, <1>5, <1>6, <1>7, <1>8 DEF IsGroup

WithPart(groups, part) == {g \in groups : \E p \in g.yaml.parts : p.part = part}
PartOf(g, part) == CHOOSE p \in g.yaml.parts : p.part = part
PartQty(groups, part) ==
    SumFunction([g \in WithPart(groups, part) |-> PartOf(g, part).qty * CountOf(g)])
PartRef(groups, part) ==
    RefDes(WithPart(groups, part), [g \in WithPart(groups, part) |-> PartOf(g, part).tags])
PartsIn(groups) == UNION {{p.part : p \in g.yaml.parts} : g \in groups}
Plated(groups, part) == {g \in groups : \E p \in g.yaml.plates : p.part = part}
PlateOf(g, part) == CHOOSE p \in g.yaml.plates : p.part = part
PlateQty(groups, part) ==
    SumFunction([g \in Plated(groups, part) |-> PlateOf(g, part).qty * CountOf(g)])
PlatesIn(groups) == UNION {{p.part : p \in g.yaml.plates} : g \in groups}
ShellQty(groups) == SumFunction([g \in groups |-> CountOf(g)])

LEMMA SectionIs ==
  ASSUME NEW section, NEW shell, NEW groups
  PROVE  SectionLines(section, shell, groups) =
            IF groups = {} THEN {}
            ELSE {FabricatedLine(section, shell, ShellQty(groups), Span(groups))}
                 \cup {PartLine(section, part, PartQty(groups, part), PartRef(groups, part)) :
                          part \in PartsIn(groups)}
                 \cup {FabricatedLine(section, part, PlateQty(groups, part), Span(Plated(groups, part))) :
                          part \in PlatesIn(groups)}
BY DEF SectionLines, ShellQty, PartQty, PartRef, PartsIn, PlateQty, PlatesIn, WithPart, PartOf,
       Plated, PlateOf

LEMMA CountsAre ==
  ASSUME NEW groups, IsFiniteSet(groups), groups # {}, \A g \in groups : IsGroup(g)
  PROVE  /\ ShellQty(groups) \in Nat \ {0}
         /\ \A part \in PartsIn(groups) : PartQty(groups, part) \in Nat \ {0}
         /\ \A part \in PlatesIn(groups) : PlateQty(groups, part) \in Nat \ {0}
         /\ IsFiniteSet(PartsIn(groups)) /\ IsFiniteSet(PlatesIn(groups))
<1>1. \A g \in groups : CountOf(g) \in Nat \ {0}
  BY DEF CountOf, IsGroup
<1>2. ShellQty(groups) \in Nat \ {0}
  <2> DEFINE f == [g \in groups |-> CountOf(g)]
  <2>1. DOMAIN f = groups /\ \A g \in groups : f[g] \in Nat \ {0}
    BY <1>1
  <2> HIDE DEF f
  <2>2. SumFunction(f) \in Nat \ {0}
    BY <2>1, SumPositive
  <2> QED
    BY <2>2 DEF f, ShellQty
<1>3. ASSUME NEW part \in PartsIn(groups)
      PROVE  PartQty(groups, part) \in Nat \ {0}
  <2> DEFINE S == WithPart(groups, part)
             f == [g \in S |-> PartOf(g, part).qty * CountOf(g)]
  <2>1. IsFiniteSet(S) /\ S # {}
    BY PartIsSmaller DEF WithPart, PartsIn
  <2>2. ASSUME NEW g \in S
        PROVE  f[g] \in Nat \ {0}
    <3>1. PartOf(g, part) \in g.yaml.parts /\ g \in groups
      BY DEF PartOf, WithPart
    <3>2. PartOf(g, part).qty \in Nat \ {0}
      BY <3>1 DEF IsGroup, IsYaml
    <3> QED
      BY <1>1, <3>1, <3>2, TimesPositive
  <2>3. DOMAIN f = S
    OBVIOUS
  <2> HIDE DEF f, S
  <2>4. SumFunction(f) \in Nat \ {0}
    BY <2>1, <2>2, <2>3, SumPositive
  <2> QED
    BY <2>4 DEF f, S, PartQty
<1>4. ASSUME NEW part \in PlatesIn(groups)
      PROVE  PlateQty(groups, part) \in Nat \ {0}
  <2> DEFINE S == Plated(groups, part)
             f == [g \in S |-> PlateOf(g, part).qty * CountOf(g)]
  <2>1. IsFiniteSet(S) /\ S # {}
    BY PartIsSmaller DEF Plated, PlatesIn
  <2>2. ASSUME NEW g \in S
        PROVE  f[g] \in Nat \ {0}
    <3>1. PlateOf(g, part) \in g.yaml.plates /\ g \in groups
      BY DEF PlateOf, Plated
    <3>2. PlateOf(g, part).qty \in Nat \ {0}
      BY <3>1 DEF IsGroup, IsYaml
    <3> QED
      BY <1>1, <3>1, <3>2, TimesPositive
  <2>3. DOMAIN f = S
    OBVIOUS
  <2> HIDE DEF f, S
  <2>4. SumFunction(f) \in Nat \ {0}
    BY <2>1, <2>2, <2>3, SumPositive
  <2> QED
    BY <2>4 DEF f, S, PlateQty
<1>5. IsFiniteSet(PartsIn(groups))
  <2> DEFINE names == [g \in groups |-> {p.part : p \in g.yaml.parts}]
  <2>1. ASSUME NEW g \in groups
        PROVE  IsFiniteSet(names[g])
    <3> DEFINE P == g.yaml.parts
               f == [p \in P |-> p.part]
    <3>1. IsFiniteSet(P) /\ DOMAIN f = P /\ names[g] = {f[p] : p \in P}
      BY DEF IsGroup, IsYaml
    <3> HIDE DEF P, f
    <3>2. IsFiniteSet({f[p] : p \in P})
      BY <3>1, ImageIsFinite
    <3> QED
      BY <3>1, <3>2
  <2>2. PartsIn(groups) = UNION {names[g] : g \in groups} /\ DOMAIN names = groups
    BY DEF PartsIn
  <2> HIDE DEF names
  <2>3. IsFiniteSet({names[g] : g \in groups})
    BY <2>2, ImageIsFinite
  <2> QED
    BY <2>1, <2>2, <2>3, FS_UNION
<1>6. IsFiniteSet(PlatesIn(groups))
  <2> DEFINE names == [g \in groups |-> {p.part : p \in g.yaml.plates}]
  <2>1. ASSUME NEW g \in groups
        PROVE  IsFiniteSet(names[g])
    <3> DEFINE P == g.yaml.plates
               f == [p \in P |-> p.part]
    <3>1. IsFiniteSet(P) /\ DOMAIN f = P /\ names[g] = {f[p] : p \in P}
      BY DEF IsGroup, IsYaml
    <3> HIDE DEF P, f
    <3>2. IsFiniteSet({f[p] : p \in P})
      BY <3>1, ImageIsFinite
    <3> QED
      BY <3>1, <3>2
  <2>2. PlatesIn(groups) = UNION {names[g] : g \in groups} /\ DOMAIN names = groups
    BY DEF PlatesIn
  <2> HIDE DEF names
  <2>3. IsFiniteSet({names[g] : g \in groups})
    BY <2>2, ImageIsFinite
  <2> QED
    BY <2>1, <2>2, <2>3, FS_UNION
<1> QED
  BY <1>2, <1>3, <1>4, <1>5, <1>6

IsUnpriced(l) == IsLine(l) /\ l.unit = None /\ Blank(l)

LEMMA SectionLinesAre ==
  ASSUME NEW section \in {"compute", "grid", "site", "field"}, NEW shell, NEW groups,
         IsFiniteSet(groups), \A g \in groups : IsGroup(g)
  PROVE  /\ IsFiniteSet(SectionLines(section, shell, groups))
         /\ \A l \in SectionLines(section, shell, groups) : IsUnpriced(l) /\ l.section = section
<1>1. CASE groups = {}
  BY <1>1, SectionIs, FS_EmptySet
<1>2. CASE groups # {}
  <2> DEFINE parts == PartsIn(groups)
             plates == PlatesIn(groups)
             part == [p \in parts |-> PartLine(section, p, PartQty(groups, p), PartRef(groups, p))]
             plate == [p \in plates |-> FabricatedLine(section, p, PlateQty(groups, p), Span(Plated(groups, p)))]
             first == FabricatedLine(section, shell, ShellQty(groups), Span(groups))
  <2>1. SectionLines(section, shell, groups)
          = {first} \cup {part[p] : p \in parts} \cup {plate[p] : p \in plates}
    BY <1>2, SectionIs
  <2>2. /\ ShellQty(groups) \in Nat \ {0}
        /\ \A p \in parts : PartQty(groups, p) \in Nat \ {0}
        /\ \A p \in plates : PlateQty(groups, p) \in Nat \ {0}
        /\ IsFiniteSet(parts) /\ IsFiniteSet(plates)
    BY <1>2, CountsAre
  <2>3. /\ \A p, ref : \A qty \in Nat \ {0} :
              /\ IsUnpriced(PartLine(section, p, qty, ref))
              /\ PartLine(section, p, qty, ref).section = section
              /\ IsUnpriced(FabricatedLine(section, p, qty, ref))
              /\ FabricatedLine(section, p, qty, ref).section = section
    <3>1. {"engineered_to_order", "catalog", "custom_fabrication"} \subseteq Paths
      BY DEF Paths, PURCHASED
    <3> QED
      BY <3>1, LineIs DEF PartLine, FabricatedLine, IsUnpriced
  <2>4. /\ IsUnpriced(first) /\ first.section = section
        /\ \A p \in parts : IsUnpriced(part[p]) /\ part[p].section = section
        /\ \A p \in plates : IsUnpriced(plate[p]) /\ plate[p].section = section
    BY <2>2, <2>3
  <2>5. DOMAIN part = parts /\ DOMAIN plate = plates
    OBVIOUS
  <2> HIDE DEF first, part, plate, parts, plates
  <2>6. IsFiniteSet({part[p] : p \in parts}) /\ IsFiniteSet({plate[p] : p \in plates})
    BY <2>2, <2>5, ImageIsFinite
  <2>7. IsFiniteSet({first} \cup {part[p] : p \in parts} \cup {plate[p] : p \in plates})
    BY <2>6, FS_Union, FS_Singleton
  <2> QED
    BY <2>1, <2>4, <2>7
<1> QED
  BY <1>1, <1>2

LEMMA NoteKeeps ==
  ASSUME NEW l, IsLine(l), Blank(l)
  PROVE  /\ Blank(PanelNote(l))
         /\ IsLine(PanelNote(l)) /\ PanelNote(l).unit = l.unit
         /\ PanelNote(l).qty = l.qty /\ PanelNote(l).part = l.part
         /\ PanelNote(l).section = l.section /\ PanelNote(l).path = l.path
         /\ PanelNote(l).ref = l.ref
<1> DEFINE note == [container |-> site.compute, servers |-> NodesIn(site.nodes, site.compute),
                    pdus |-> 2 * PdusPerSide(NODES_PER_COMPUTE_CONTAINER)
                               - Cardinality({t \in DroppedTags(NodesIn(site.nodes, site.compute)) :
                                                 t[1] # "NODE"})]
<1>1. PanelNote(l) = IF Partial /\ l.part = "panelboard" THEN [l EXCEPT !.note = note] ELSE l
  BY DEF PanelNote
<1> HIDE DEF note
<1>2. Blank(PanelNote(l))
  BY <1>1 DEF Blank, Line
<1> QED
  BY <1>1, <1>2 DEF IsLine, Fields

LEMMA SiteLinesAre ==
  ASSUME site.compute \in Nat \ {0}
  PROVE  /\ IsFiniteSet(SiteLines)
         /\ \A l \in SiteLines : IsUnpriced(l) /\ l.section = "site"
                                 /\ l.path \in {"customer_supplied", "by_others"}
<1> DEFINE here(name) == {RangeOf(name, 0, 0, Whole)}
           each == {RangeOf("C", 1, site.compute, Whole)}
           battery == Line("site", "customer_supplied", "battery", 1, {RangeOf("BESS", 1, 1, Whole)})
<1>1. SiteLines =
        {battery} \cup {ByOthers("site_mv", 1, here("SITE-MV"))} \cup {ByOthers("poi_ct_pt", 1, here("POI-CT/PT"))}
        \cup {ByOthers("ems_host", 1, here("EMS-GW"))} \cup {ByOthers("pump", site.compute, each)}
        \cup {ByOthers("tank", site.compute, each)} \cup {ByOthers("step_up", 1, here("T-BESS"))}
        \cup {ByOthers("mv_disconnect", 1, here("Q-BESS"))}
  BY DEF SiteLines
<1>2. /\ "site" \in {"compute", "grid", "site", "field"}
      /\ "customer_supplied" \in Paths /\ "by_others" \in Paths
  BY DEF Paths
<1>3. \A part, ref : \A qty \in Nat \ {0} :
         /\ IsUnpriced(ByOthers(part, qty, ref)) /\ ByOthers(part, qty, ref).section = "site"
         /\ ByOthers(part, qty, ref).path = "by_others"
  BY <1>2, LineIs DEF ByOthers, IsUnpriced
<1>4. IsUnpriced(battery) /\ battery.section = "site" /\ battery.path = "customer_supplied"
  BY <1>2, LineIs DEF IsUnpriced
<1>5. 1 \in Nat \ {0}
  OBVIOUS
<1> HIDE DEF battery, here, each
<1>6. \A l \in SiteLines : IsUnpriced(l) /\ l.section = "site"
                           /\ l.path \in {"customer_supplied", "by_others"}
  BY <1>1, <1>3, <1>4, <1>5
<1> DEFINE few == {battery} \cup {ByOthers("site_mv", 1, here("SITE-MV"))} \cup {ByOthers("poi_ct_pt", 1, here("POI-CT/PT"))}
           more == few \cup {ByOthers("ems_host", 1, here("EMS-GW"))} \cup {ByOthers("pump", site.compute, each)}
           most == more \cup {ByOthers("tank", site.compute, each)} \cup {ByOthers("step_up", 1, here("T-BESS"))}
<1>7. IsFiniteSet(few)
  <2>1. IsFiniteSet({battery})
    BY FS_Singleton
  <2> QED
    BY <2>1, FS_AddElement
<1> HIDE DEF few
<1>8. IsFiniteSet(more)
  BY <1>7, FS_AddElement
<1> HIDE DEF more
<1>9. IsFiniteSet(most)
  BY <1>8, FS_AddElement
<1>10. SiteLines = most \cup {ByOthers("mv_disconnect", 1, here("Q-BESS"))}
  BY <1>1 DEF most, more, few
<1> HIDE DEF most
<1>11. IsFiniteSet(SiteLines)
  BY <1>9, <1>10, FS_AddElement
<1> QED
  BY <1>6, <1>11

LEMMA LinesAre ==
  ASSUME ManifestInv, ScheduleInv, stage \in Scheduled
  PROVE  IsFiniteSet(Lines) /\ \A l \in Lines : IsUnpriced(l)
<1>0. /\ order \in Orders /\ options \in Options /\ site = Resolution(order)
      /\ site.compute \in Nat \ {0}
  BY ScheduledSite
<1> DEFINE compute == SectionLines("compute", "shell_compute", ComputeGroups)
           grid == SectionLines("grid", "shell_grid", GridGroups)
           both == compute \cup grid
           noted == [l \in both |-> PanelNote(l)]
<1>1. IsFiniteSet(both) /\ \A l \in both : IsUnpriced(l)
  <2>1. /\ IsFiniteSet(compute) /\ IsFiniteSet(grid)
        /\ \A l \in compute : IsUnpriced(l)
        /\ \A l \in grid : IsUnpriced(l)
    <3>1. /\ IsFiniteSet(ComputeGroups) /\ IsFiniteSet(GridGroups)
          /\ \A g \in ComputeGroups : IsGroup(g)
          /\ \A g \in GridGroups : IsGroup(g)
      BY <1>0, GroupsAre
    <3> QED
      BY <3>1, SectionLinesAre
  <2> HIDE DEF compute, grid
  <2> QED
    BY <2>1, FS_Union
<1>2. IsFiniteSet({noted[l] : l \in both}) /\ \A l \in {noted[k] : k \in both} : IsUnpriced(l)
  <2>1. DOMAIN noted = both /\ \A l \in both : IsUnpriced(noted[l])
    BY <1>1, NoteKeeps DEF IsUnpriced
  <2> HIDE DEF noted, both
  <2> QED
    BY <1>1, <2>1, ImageIsFinite
<1>3. IsFiniteSet(SiteLines) /\ \A l \in SiteLines : IsUnpriced(l)
  BY <1>0, SiteLinesAre
<1>4. IsFiniteSet(PcsLines) /\ \A l \in PcsLines : IsUnpriced(l)
  <2>1. CASE options.coupling # "dc_external_pcs"
    BY <2>1, FS_EmptySet DEF PcsLines
  <2>2. CASE options.coupling = "dc_external_pcs"
    <3> DEFINE l == PartLine("site", "pcs", options.pcs, {RangeOf("PCS", 1, options.pcs, Whole)})
    <3>1. PcsLines = {l} /\ options.pcs \in Nat \ {0}
      BY <1>0, <2>2 DEF PcsLines, Options
    <3>2. IsUnpriced(l)
      <4>1. "engineered_to_order" \in Paths /\ "catalog" \in Paths
        BY DEF Paths, PURCHASED
      <4> QED
        BY <3>1, <4>1, LineIs DEF PartLine, IsUnpriced
    <3> HIDE DEF l
    <3> QED
      BY <3>1, <3>2, FS_Singleton
  <2> QED
    BY <2>1, <2>2
<1>5. IsFiniteSet(FieldLines) /\ \A l \in FieldLines : IsUnpriced(l)
  <2> DEFINE runs == cables \cup hoses
             kind == [r \in runs |-> r.kind]
             kinds == {r.kind : r \in runs}
             line == [k \in kinds |-> Line("field", "field_supplied", k, Cardinality(RunsOfKind(k)), {})]
  <2>1. IsFiniteSet(runs)
    BY ScheduleTyped, FS_Union
  <2>2. IsFiniteSet(kinds)
    <3>1. DOMAIN kind = runs /\ kinds = {kind[r] : r \in runs}
      OBVIOUS
    <3> HIDE DEF kind, runs, kinds
    <3> QED
      BY <2>1, <3>1, ImageIsFinite
  <2>3. FieldLines = {line[k] : k \in kinds} /\ DOMAIN line = kinds
    BY DEF FieldLines
  <2>4. ASSUME NEW k \in kinds
        PROVE  IsUnpriced(line[k])
    <3>1. RunsOfKind(k) # {} /\ RunsOfKind(k) \subseteq runs
      BY DEF RunsOfKind
    <3> HIDE DEF runs
    <3>2. Cardinality(RunsOfKind(k)) \in Nat \ {0}
      BY <2>1, <3>1, PartIsSmaller, FS_EmptySet
    <3>3. "field_supplied" \in Paths
      BY DEF Paths, PURCHASED
    <3> QED
      BY <3>2, <3>3, LineIs DEF IsUnpriced
  <2> HIDE DEF line, kinds
  <2> QED
    BY <2>2, <2>3, <2>4, ImageIsFinite
<1>6. Lines = {noted[l] : l \in both} \cup SiteLines \cup PcsLines \cup FieldLines
  <2>1. {PanelNote(l) : l \in both} = {noted[l] : l \in both}
    OBVIOUS
  <2> QED
    BY <2>1 DEF Lines
<1> HIDE DEF noted, both
<1> QED
  BY <1>2, <1>3, <1>4, <1>5, <1>6, FS_Union

-----------------------------------------------------------------------------
(***************************************************************************)
(* The prices of the lines.                                                *)
(***************************************************************************)
Bought(l) == l.path \in PURCHASED
IsPriced(l) == IsLine(l) /\ (l.unit # None => l.unit \in Nat /\ l.source \in DOMAIN BAND)
OnePrice(lines) ==
    \A l \in lines : \A m \in lines :
        Bought(l) /\ Bought(m) /\ l.part = m.part => l.unit = m.unit
\* l priced anew.
Reprices(m, l) ==
    /\ m.section = l.section /\ m.path = l.path /\ m.part = l.part /\ m.qty = l.qty
    /\ m.ref = l.ref /\ m.note = l.note

LEMMA Greatest ==
  ASSUME NEW n \in Nat, NEW S \in SUBSET (1 .. n), S # {}
  PROVE  Max(S) \in S
<1> DEFINE R == {i \in Nat : \E x \in S : i = n - x}
<1>1. R \in SUBSET Nat /\ R # {}
  <2>1. PICK x \in S : x \in 1 .. n
    OBVIOUS
  <2>2. n - x \in R
    BY <2>1
  <2> HIDE DEF R
  <2>3. R # {}
    BY <2>2
  <2> QED
    BY <2>3 DEF R
<1>2. PICK i \in R : \A j \in R : i <= j
  <2> HIDE DEF R
  <2> QED
    BY <1>1, LeastNatural
<1>3. PICK x \in S : i = n - x
  OBVIOUS
<1>4. \A y \in S : n - y \in R
  OBVIOUS
<1>5. \A y \in S : x >= y
  BY <1>2, <1>3, <1>4
<1> QED
  BY <1>5 DEF Max

LEMMA Lowest ==
  ASSUME NEW S \in SUBSET Nat, S # {}
  PROVE  Min(S) \in S
<1>1. PICK x \in S : \A y \in S : x <= y
  BY LeastNatural
<1> QED
  BY <1>1 DEF Min

\* A line is priced as its part is: by the whole order's quantity of it.
LEMMA BookPriceIs ==
  ASSUME IsPriceBook(book), NEW lines, NEW l, IsUnpriced(l),
         Listed(l) => BreaksReached(l.part, PriceQty(lines, l)) # {}
  PROVE  IsPriced(BookPrice(lines, l)) /\ Reprices(BookPrice(lines, l), l)
<1>1. CASE ~Listed(l)
  BY <1>1 DEF BookPrice, IsPriced, IsUnpriced, Reprices
<1>2. CASE Listed(l)
  <2> DEFINE S == BreaksReached(l.part, PriceQty(lines, l))
             pick == book[l.part][Max(S)]
  <2>1. book[l.part] \in Seq(Breaks)
    BY <1>2 DEF Listed, IsPriceBook
  <2>2. Len(book[l.part]) \in Nat /\ S \in SUBSET (1 .. Len(book[l.part])) /\ S # {}
    BY <1>2, <2>1 DEF BreaksReached
  <2>3. BookPrice(lines, l) = [l EXCEPT !.unit = pick.usd, !.source = pick.source]
    BY <1>2 DEF BookPrice
  <2> HIDE DEF S
  <2>4. Max(S) \in 1 .. Len(book[l.part])
    BY <2>2, Greatest
  <2>5. pick \in Breaks
    BY <2>1, <2>4
  <2> HIDE DEF pick
  <2>6. pick.usd \in Nat /\ pick.source \in DOMAIN BAND
    BY <2>5 DEF Breaks, BAND
  <2> QED
    BY <2>3, <2>6 DEF IsPriced, IsUnpriced, IsLine, Fields, Reprices
<1> QED
  BY <1>1, <1>2

LEMMA BookPriceOfPart ==
  ASSUME NEW lines, NEW l, IsUnpriced(l), NEW m, IsUnpriced(m),
         Bought(l), Bought(m), l.part = m.part
  PROVE  BookPrice(lines, l).unit = BookPrice(lines, m).unit
<1> DEFINE pick == book[l.part][Max(BreaksReached(l.part, PriceQty(lines, l)))]
<1>1. PriceQty(lines, l) = PriceQty(lines, m)
  BY DEF PriceQty
<1>2. Listed(l) <=> Listed(m)
  BY DEF Listed, Bought
<1>3. CASE Listed(l)
  <2>1. /\ BookPrice(lines, l) = [l EXCEPT !.unit = pick.usd, !.source = pick.source]
        /\ BookPrice(lines, m) = [m EXCEPT !.unit = pick.usd, !.source = pick.source]
    BY <1>1, <1>2, <1>3 DEF BookPrice
  <2> HIDE DEF pick
  <2> QED
    BY <2>1 DEF IsUnpriced, IsLine, Fields
<1>4. CASE ~Listed(l)
  BY <1>2, <1>4 DEF BookPrice, IsUnpriced
<1> QED
  BY <1>3, <1>4

LEMMA LivePriceIs ==
  ASSUME AreOffers(market), NEW l, IsPriced(l)
  PROVE  IsPriced(LivePrice(l)) /\ Reprices(LivePrice(l), l)
<1> DEFINE S == {o.usd : o \in PricedOffers(l.part)}
<1>1. CASE l.part \notin CatalogParts \cap DOMAIN market \/ PricedOffers(l.part) = {}
  BY <1>1 DEF LivePrice, IsPriced, Reprices
<1>2. CASE l.part \in CatalogParts \cap DOMAIN market /\ PricedOffers(l.part) # {}
  <2>1. market[l.part] \subseteq [error: BOOLEAN, usd: Nat]
    BY <1>2 DEF AreOffers
  <2>2. S \in SUBSET Nat /\ S # {}
    BY <1>2, <2>1 DEF PricedOffers
  <2>3. LivePrice(l) = [l EXCEPT !.unit = Min(S), !.source = "distributor"]
    BY <1>2 DEF LivePrice
  <2> HIDE DEF S
  <2>4. Min(S) \in Nat
    BY <2>2, Lowest
  <2>5. "distributor" \in DOMAIN BAND
    BY DEF BAND
  <2> QED
    BY <2>3, <2>4, <2>5 DEF IsPriced, IsLine, Fields, Reprices
<1> QED
  BY <1>1, <1>2

LEMMA LivePriceOfPart ==
  ASSUME NEW l, IsPriced(l), NEW m, IsPriced(m), l.part = m.part, l.unit = m.unit
  PROVE  LivePrice(l).unit = LivePrice(m).unit
<1> DEFINE low == Min({o.usd : o \in PricedOffers(l.part)})
           none == l.part \notin CatalogParts \cap DOMAIN market \/ PricedOffers(l.part) = {}
<1>1. /\ LivePrice(l) = IF none THEN l ELSE [l EXCEPT !.unit = low, !.source = "distributor"]
      /\ LivePrice(m) = IF none THEN m ELSE [m EXCEPT !.unit = low, !.source = "distributor"]
  BY DEF LivePrice
<1> HIDE DEF low, none
<1> QED
  BY <1>1 DEF IsPriced, IsLine, Fields

-----------------------------------------------------------------------------
(***************************************************************************)
(* The bill of materials: finite lines, each priced or not, one price for  *)
(* all lines of a part that is bought, and the budget of these lines.      *)
(***************************************************************************)
Billed == {"offers", "drawings", "done"}
IsBom(b) ==
    /\ IsFiniteSet(b.lines)
    /\ \A l \in b.lines : IsPriced(l)
    /\ OnePrice(b.lines)
    /\ b.budget = OrderBudget(b.lines)
BomInv ==
    /\ IsPriceBook(book) /\ (market # None => AreOffers(market))
    /\ stage \notin Billed => bom = None
    /\ stage \in Billed => IsBom(bom)

LEMMA BookedBom ==
  ASSUME ManifestInv, ScheduleInv, stage = "bom", BomInv, ~NoBreak,
         NEW b, b = [lines |-> {BookPrice(Lines, line) : line \in Lines},
                     budget |-> OrderBudget({BookPrice(Lines, line) : line \in Lines})]
  PROVE  IsBom(b)
<1> DEFINE price == [l \in Lines |-> BookPrice(Lines, l)]
           priced == {price[l] : l \in Lines}
<1>1. IsFiniteSet(Lines) /\ \A l \in Lines : IsUnpriced(l)
  BY LinesAre DEF Scheduled
<1>2. \A l \in Lines : IsPriced(price[l]) /\ Reprices(price[l], l)
  <2> SUFFICES ASSUME NEW l \in Lines
               PROVE  IsPriced(price[l]) /\ Reprices(price[l], l)
    OBVIOUS
  <2>1. Listed(l) => BreaksReached(l.part, PriceQty(Lines, l)) # {}
    BY DEF NoBreak
  <2> QED
    BY <1>1, <2>1, BookPriceIs DEF BomInv
<1>3. \A l, m \in Lines : Bought(l) /\ Bought(m) /\ l.part = m.part => price[l].unit = price[m].unit
  BY <1>1, BookPriceOfPart
<1>4. b.lines = priced /\ b.budget = OrderBudget(b.lines) /\ DOMAIN price = Lines
  OBVIOUS
<1> HIDE DEF price
<1>5. IsFiniteSet(priced)
  BY <1>1, <1>4, ImageIsFinite
<1>6. OnePrice(priced)
  BY <1>2, <1>3 DEF OnePrice, Reprices, Bought
<1> QED
  BY <1>2, <1>4, <1>5, <1>6 DEF IsBom

LEMMA OfferedBom ==
  ASSUME IsBom(bom), AreOffers(market),
         NEW b, b = [lines |-> {LivePrice(line) : line \in bom.lines},
                     budget |-> OrderBudget({LivePrice(line) : line \in bom.lines})]
  PROVE  IsBom(b)
<1> DEFINE price == [l \in bom.lines |-> LivePrice(l)]
           priced == {price[l] : l \in bom.lines}
<1>1. IsFiniteSet(bom.lines) /\ \A l \in bom.lines : IsPriced(l)
  BY DEF IsBom
<1>2. \A l \in bom.lines : IsPriced(price[l]) /\ Reprices(price[l], l)
  BY <1>1, LivePriceIs
<1>3. \A l, m \in bom.lines : Bought(l) /\ Bought(m) /\ l.part = m.part => price[l].unit = price[m].unit
  BY <1>1, LivePriceOfPart DEF IsBom, OnePrice
<1>4. b.lines = priced /\ b.budget = OrderBudget(b.lines) /\ DOMAIN price = bom.lines
  OBVIOUS
<1> HIDE DEF price
<1>5. IsFiniteSet(priced)
  BY <1>1, <1>4, ImageIsFinite
<1>6. OnePrice(priced)
  BY <1>2, <1>3 DEF OnePrice, Reprices, Bought
<1> QED
  BY <1>2, <1>4, <1>5, <1>6 DEF IsBom

LEMMA InitBom == PkgInit => BomInv
<1> SUFFICES ASSUME PkgInit
             PROVE  BomInv
  OBVIOUS
<1>1. PICK c \in Cases : /\ order = c.order /\ options = c.options /\ release = c.release
                         /\ book = c.book /\ market = c.market
  BY DEF PkgInit
<1>2. stage = "order" /\ bom = None
  BY DEF PkgInit, DtmInit
<1> QED
  BY <1>1, <1>2, CasesAssumption DEF BomInv, Billed

LEMMA StepBom == ManifestInv /\ ScheduleInv /\ BomInv /\ [PkgNext]_pkgVars => BomInv'
<1> SUFFICES ASSUME ManifestInv, ScheduleInv, BomInv, [PkgNext]_pkgVars
             PROVE  BomInv'
  OBVIOUS
<1>0. ASSUME UNCHANGED <<book, market, bom>>, stage \in Billed <=> stage' \in Billed
      PROVE  BomInv'
  <2>1. UNCHANGED IsPriceBook(book) /\ UNCHANGED AreOffers(market) /\ UNCHANGED IsBom(bom)
    BY <1>0
  <2> QED
    BY <1>0, <2>1 DEF BomInv
<1>1. CASE Generate /\ UNCHANGED <<cables, hoses, book, market, bom, sheets>>
  <2>1. stage \notin Billed /\ stage' \notin Billed
    BY <1>1 DEF Generate, Take, EmitCompute, EmitGrid, EmitSite, ContainersOut, GenerateFails, Billed
  <2> QED
    BY <1>0, <1>1, <2>1
<1>2. CASE (Schedule \/ ScheduleFails) /\ UNCHANGED <<book, market, bom, sheets>>
  <2>1. stage \notin Billed /\ stage' \notin Billed
    BY <1>2 DEF Schedule, ScheduleFails, Billed
  <2> QED
    BY <1>0, <1>2, <2>1
<1>3. CASE GenerateBom
  <2>1. /\ stage = "bom" /\ stage' = "offers" /\ ~NoBreak /\ UNCHANGED <<book, market>>
        /\ bom' = [lines |-> {BookPrice(Lines, line) : line \in Lines},
                   budget |-> OrderBudget({BookPrice(Lines, line) : line \in Lines})]
    BY <1>3 DEF GenerateBom
  <2>2. IsBom(bom')
    BY <2>1, BookedBom
  <2> QED
    BY <2>1, <2>2 DEF BomInv, Billed
<1>4. CASE BomFails
  BY <1>0, <1>4 DEF BomFails, Billed
<1>5. CASE AttachOffers
  <2>1. stage = "offers" /\ stage' = "drawings" /\ UNCHANGED <<book, market>> /\ IsBom(bom)
    BY <1>5 DEF AttachOffers, BomInv, Billed
  <2>2. CASE market = None
    BY <1>0, <1>5, <2>1, <2>2 DEF AttachOffers, Billed
  <2>3. CASE market # None
    <3>1. bom' = [lines |-> {LivePrice(line) : line \in bom.lines},
                  budget |-> OrderBudget({LivePrice(line) : line \in bom.lines})]
      BY <1>5, <2>3 DEF AttachOffers
    <3>2. IsBom(bom')
      BY <2>1, <2>3, <3>1, OfferedBom DEF BomInv
    <3> QED
      BY <2>1, <3>2 DEF BomInv, Billed
  <2> QED
    BY <2>2, <2>3
<1>6. CASE DrawSheets
  BY <1>0, <1>6 DEF DrawSheets, Billed
<1>7. CASE UNCHANGED pkgVars
  BY <1>0, <1>7 DEF pkgVars
<1> QED
  BY <1>1, <1>2, <1>3, <1>4, <1>5, <1>6, <1>7 DEF PkgNext

PackageInv == ManifestInv /\ ScheduleInv /\ BomInv

LEMMA PackageHolds == PkgSpec => []PackageInv
<1>1. PkgInit => PackageInv
  BY InitManifest, InitSchedule, InitBom DEF PackageInv
<1>2. PackageInv /\ [PkgNext]_pkgVars => PackageInv'
  BY StepManifest, StepSchedule, StepBom DEF PackageInv
<1> QED
  BY <1>1, <1>2, PTL DEF PkgSpec

-----------------------------------------------------------------------------
(***************************************************************************)
(* The shapes of the artifacts.                                            *)
(***************************************************************************)
LEMMA CounterIs ==
  ASSUME ManifestInv
  PROVE  counter \in [SlugNames -> Nat]
<1>1. counter = [s \in SlugNames |-> 0] => counter \in [SlugNames -> Nat]
  OBVIOUS
<1>2. EmitInv \/ SiteInv => counter \in [SlugNames -> Nat]
  BY DEF EmitInv, SiteInv, BoxInv
<1> QED
  BY <1>1, <1>2 DEF ManifestInv, Stages, Manifested

LEMMA SlugsAreCounted ==
  ASSUME ManifestInv
  PROVE  /\ \A d \in devices : d.id[1] = d.template /\ d.id[2] <= counter[d.template]
         /\ \A b \in buses : b.members \subseteq {d.id : d \in devices}
<1>1. CASE devices = {} /\ buses = {}
  BY <1>1
<1>2. CASE EmitInv
  <2>1. BoxInv(devices, counter) /\ \A b \in buses : b.members \subseteq {d.id : d \in devices}
    BY <1>2 DEF EmitInv
  <2> QED
    BY <2>1, BoxedDevices DEF ManifestInv
<1>3. CASE SiteInv
  <2>1. /\ BoxInv(Boxed, counter) /\ devices = Boxed \cup (Pad \cup Utility)
        /\ \A d \in devices : d.id[2] <= counter[d.template]
    BY <1>3 DEF SiteInv
  <2>2. \A d \in Boxed : d.id[1] = d.template
    BY <2>1, BoxedDevices DEF ManifestInv
  <2>3. \A d \in Pad \cup Utility : d.id[1] = d.template
    BY SiteDevices DEF ManifestInv
  <2>4. \A b \in buses : b.members \subseteq {d.id : d \in devices}
    BY <1>3 DEF SiteInv, Resolves
  <2> QED
    BY <2>1, <2>2, <2>3, <2>4
<1> QED
  BY <1>1, <1>2, <1>3 DEF ManifestInv, Stages, Manifested

RunsTyped ==
    /\ \A r \in cables : r.kind \in CableKinds /\ r.port \in Nat
    /\ \A r \in hoses : r.kind \in HoseKinds

\* A failed run keeps the schedule it had.
LEMMA RunsAreTyped == PkgSpec => []RunsTyped
<1>1. PkgInit => RunsTyped
  BY DEF PkgInit, RunsTyped
<1>2. PackageInv /\ stage = "bom" => RunsTyped
  BY ScheduleTyped DEF PackageInv, Scheduled, RunsTyped
<1>3. ASSUME RunsTyped, [PkgNext]_pkgVars, PackageInv', (PackageInv /\ stage = "bom" => RunsTyped)'
      PROVE  RunsTyped'
  <2>1. CASE UNCHANGED <<cables, hoses>>
    BY <1>3, <2>1 DEF RunsTyped
  <2>2. CASE Schedule
    BY <1>3, <2>2 DEF Schedule
  <2>3. Schedule \/ UNCHANGED <<cables, hoses>>
    BY <1>3 DEF PkgNext, pkgVars, Generate, ScheduleFails, scheduleVars, GenerateBom, BomFails,
                AttachOffers, DrawSheets
  <2> QED
    BY <2>1, <2>2, <2>3
<1> QED
  BY <1>1, <1>2, <1>3, PackageHolds, PTL DEF PkgSpec

\* Whatever the order, the release and the price list, the artifacts of the
\* package have their shapes: no slug is beyond its counter, every parent is
\* a module and every bus member a device of the manifest, every run has a
\* cable type and a port number, and every BOM line a path and a quantity.
THEOREM PackageIsTyped == PkgSpec => []PkgTypeOK
<1>1. PackageInv /\ RunsTyped => PkgTypeOK
  <2> SUFFICES ASSUME PackageInv, RunsTyped
               PROVE  PkgTypeOK
    OBVIOUS
  <2>0. ManifestInv /\ ScheduleInv /\ BomInv
    BY DEF PackageInv
  <2>1. /\ options \in Options /\ release \in Releases
        /\ stage \in {"order", "emit", "schedule", "bom", "offers", "drawings", "done", "failed"}
    BY <2>0 DEF ManifestInv, Stages
  <2>2. counter \in [SlugNames -> Nat]
    BY <2>0, CounterIs
  <2>3. \A d \in devices :
          /\ d \in Devices
          /\ d.id[1] = d.template /\ d.id[2] <= counter[d.template]
          /\ d.parent # None => d.parent \in {m.id : m \in {e \in devices : e.parent = None}}
    BY <2>0, DevicesAreTyped, SlugsAreCounted DEF ModuleIds
  <2>4. \A b \in buses : b.members \subseteq {d.id : d \in devices}
    BY <2>0, SlugsAreCounted
  <2>5. /\ \A r \in cables : r.kind \in CableKinds /\ r.port \in Nat
        /\ \A r \in hoses : r.kind \in HoseKinds
    BY DEF RunsTyped
  <2>6. bom # None => \A line \in bom.lines : line.path \in Paths /\ line.qty \in Nat \ {0}
    BY <2>0 DEF BomInv, IsBom, IsPriced, IsLine
  <2> QED
    BY <2>1, <2>2, <2>3, <2>4, <2>5, <2>6 DEF PkgTypeOK
<1> QED
  BY <1>1, PackageHolds, RunsAreTyped, PTL

-----------------------------------------------------------------------------
(***************************************************************************)
(* The sums of the bill of materials.                                      *)
(***************************************************************************)
LEMMA Distribute ==
  ASSUME NEW c \in Nat, NEW a \in Nat, NEW b \in Nat
  PROVE  c * (a + b) = c * a + c * b
OBVIOUS

LEMMA SumScaled ==
  ASSUME NEW S, IsFiniteSet(S), NEW f, \A x \in S : f[x] \in Nat,
         NEW c \in Nat, NEW g, \A x \in S : g[x] = c * f[x]
  PROVE  SumFunctionOnSet(g, S) = c * SumFunctionOnSet(f, S)
<1> DEFINE G == {s \in SUBSET S : SumFunctionOnSet(g, s) = c * SumFunctionOnSet(f, s)}
<1>0. \A x \in S : g[x] \in Nat
  OBVIOUS
<1>1. {} \in G
  BY SumOfNone
<1>2. ASSUME NEW s \in SUBSET S, NEW x \in S \ s, s \in G
      PROVE  s \cup {x} \in G
  <2>1. /\ SumFunctionOnSet(f, s \cup {x}) = f[x] + SumFunctionOnSet(f, s)
        /\ SumFunctionOnSet(g, s \cup {x}) = g[x] + SumFunctionOnSet(g, s)
    BY <1>0, SumWith
  <2>2. SumFunctionOnSet(f, s) \in Nat
    <3>1. IsFiniteSet(s) /\ \A y \in s : f[y] \in Nat
      BY FS_Subset
    <3> QED
      BY <3>1, SumStep
  <2>3. c * (f[x] + SumFunctionOnSet(f, s)) = c * f[x] + c * SumFunctionOnSet(f, s)
    BY <2>2, Distribute
  <2> QED
    BY <1>2, <2>1, <2>3
<1> HIDE DEF G
<1>3. S \in G
  BY <1>1, <1>2, Accumulate
<1> QED
  BY <1>3 DEF G

BoughtIn(lines) == {line \in lines : line.path \in PURCHASED}
PricedIn(lines) == {line \in BoughtIn(lines) : line.unit # None}
CostOf(line) == line.unit * line.qty
Costs(lines) == [p \in PricedIn(lines) |-> CostOf(p)]
Ordered(lines) == [l \in lines |-> l.qty]

LEMMA TotalIs ==
  ASSUME NEW lines
  PROVE  OrderBudget(lines).total = SumFunctionOnSet(Costs(lines), PricedIn(lines))
BY DEF OrderBudget, SumFunction, Costs, PricedIn, BoughtIn, CostOf

LEMMA CostsAre ==
  ASSUME NEW lines, IsFiniteSet(lines), \A l \in lines : IsPriced(l)
  PROVE  /\ IsFiniteSet(BoughtIn(lines)) /\ IsFiniteSet(PricedIn(lines))
         /\ \A p \in PricedIn(lines) : Costs(lines)[p] \in Nat /\ Costs(lines)[p] = p.unit * p.qty
         /\ \A l \in lines : Ordered(lines)[l] = l.qty /\ l.qty \in Nat
<1>1. IsFiniteSet(BoughtIn(lines)) /\ IsFiniteSet(PricedIn(lines))
  BY FS_Subset DEF BoughtIn, PricedIn
<1>2. \A p \in PricedIn(lines) : Costs(lines)[p] = p.unit * p.qty /\ p.unit \in Nat /\ p.qty \in Nat
  BY DEF PricedIn, BoughtIn, Costs, CostOf, IsPriced, IsLine
<1>3. \A l \in lines : Ordered(lines)[l] = l.qty /\ l.qty \in Nat
  BY DEF Ordered, IsPriced, IsLine
<1> QED
  BY <1>1, <1>2, <1>3

\* The total of the sections is the total of the order.
LEMMA SectionsAddUp ==
  ASSUME IsBom(bom)
  PROVE  SumFunction([i \in DOMAIN Sections |-> Subtotal(i)]) = OrderBudget(bom.lines).total
<1> DEFINE lines == bom.lines
           P == PricedIn(lines)
           f == Costs(lines)
           K == 1 .. 4
           key == [l \in P |-> SectionNo(l)]
           c == Classes(P, key, f, K)
           sub == [i \in DOMAIN Sections |-> Subtotal(i)]
           In(i) == {line \in lines : line.section = Sections[i]}
<1>1. IsFiniteSet(lines) /\ \A l \in lines : IsPriced(l)
  BY DEF IsBom
<1>2. IsFiniteSet(P) /\ \A p \in P : f[p] \in Nat /\ p \in lines
  BY <1>1, CostsAre DEF PricedIn, BoughtIn
<1>3. DOMAIN Sections = K /\ IsFiniteSet(K)
  <2>1. IsFiniteSet(1 .. 4)
    <3>1. \A n \in Nat : IsFiniteSet(1 .. n)
      BY FS_Interval
    <3>2. 4 \in Nat
      OBVIOUS
    <3> QED
      BY <3>1, <3>2
  <2>2. DOMAIN Sections = 1 .. 4
    BY DEF Sections
  <2> QED
    BY <2>1, <2>2
<1>4. \A p \in P : \A i \in K : key[p] \in K /\ (key[p] = i <=> p.section = Sections[i])
  <2>1. \A p \in P : p.section \in {"compute", "grid", "site", "field"}
    BY <1>1, <1>2 DEF IsPriced, IsLine
  <2>2. /\ Sections[1] = "compute" /\ Sections[2] = "grid"
        /\ Sections[3] = "site" /\ Sections[4] = "field"
    BY DEF Sections
  <2>3. \A i, j \in K : Sections[i] = Sections[j] => i = j
    BY <2>2
  <2>4. \A p \in P : \E i \in K : Sections[i] = p.section
    BY <2>1, <2>2
  <2>5. \A p \in P : key[p] = CHOOSE i \in K : Sections[i] = p.section
    BY <1>3 DEF SectionNo
  <2> QED
    BY <2>3, <2>4, <2>5
<1>5. \A i \in K : c[i] = sub[i] /\ sub[i] \in Nat
  <2> SUFFICES ASSUME NEW i \in K
               PROVE  c[i] = sub[i] /\ sub[i] \in Nat
    OBVIOUS
  <2>1. sub[i] = SumFunctionOnSet(Costs(In(i)), PricedIn(In(i)))
    BY <1>3, TotalIs DEF Subtotal
  <2>2. PricedIn(In(i)) = {p \in P : key[p] = i}
    BY <1>4 DEF PricedIn, BoughtIn
  <2>3. \A p \in PricedIn(In(i)) : Costs(In(i))[p] = f[p]
    BY DEF Costs, PricedIn, BoughtIn
  <2>4. IsFiniteSet(PricedIn(In(i))) /\ \A p \in PricedIn(In(i)) : Costs(In(i))[p] \in Nat
    <3>1. IsFiniteSet(In(i)) /\ \A l \in In(i) : IsPriced(l)
      BY <1>1, FS_Subset
    <3> HIDE DEF In
    <3> QED
      BY <3>1, CostsAre
  <2>5. c[i] = SumFunctionOnSet(f, {p \in P : key[p] = i})
    BY DEF Classes
  <2> HIDE DEF In, sub, c, f
  <2>6. SumFunctionOnSet(Costs(In(i)), PricedIn(In(i))) = SumFunctionOnSet(f, PricedIn(In(i)))
    BY <2>3, <2>4, SumAgrees
  <2>7. SumFunctionOnSet(Costs(In(i)), PricedIn(In(i))) \in Nat
    BY <2>4, SumStep
  <2> QED
    BY <2>1, <2>2, <2>5, <2>6, <2>7
<1>6. SumFunctionOnSet(c, K) = SumFunctionOnSet(f, P)
  <2>1. \A p \in P : key[p] \in K
    BY <1>4
  <2> HIDE DEF P, f, K, key
  <2> QED
    BY <1>2, <1>3, <2>1, SumByClass
<1>7. SumFunctionOnSet(sub, K) = SumFunctionOnSet(c, K)
  <2> HIDE DEF sub, c, K
  <2> QED
    BY <1>3, <1>5, SumAgrees
<1>8. SumFunction(sub) = SumFunctionOnSet(sub, K)
  BY <1>3 DEF SumFunction
<1> QED
  BY <1>6, <1>7, <1>8, TotalIs

\* The line whose price the roll-up shows for a part.
FirstOf(lines, part) ==
    CHOOSE line \in BoughtIn(lines) :
        /\ line.part = part
        /\ \A l \in BoughtIn(lines) : l.part = part => SectionNo(line) <= SectionNo(l)
RowOf(lines, part) ==
    [part |-> part, qty |-> OrderQty(BoughtIn(lines), part), unit |-> FirstOf(lines, part).unit]
PartsOf(lines) == {l.part : l \in lines}

LEMMA RowsAre ==
  ASSUME NEW lines
  PROVE  RollupRows(lines) = {RowOf(lines, p) : p \in PartsOf(BoughtIn(lines))}
BY DEF RollupRows, RowOf, FirstOf, PartsOf, BoughtIn

LEMMA SectionsNumbered ==
  ASSUME NEW l, IsLine(l)
  PROVE  SectionNo(l) \in 1 .. 4
<1>1. l.section \in {"compute", "grid", "site", "field"}
  BY DEF IsLine
<1>2. /\ DOMAIN Sections = 1 .. 4
      /\ Sections[1] = "compute" /\ Sections[2] = "grid"
      /\ Sections[3] = "site" /\ Sections[4] = "field"
  BY DEF Sections
<1>3. \E i \in 1 .. 4 : Sections[i] = l.section
  BY <1>1, <1>2
<1> QED
  BY <1>2, <1>3 DEF SectionNo

\* The first line of a part is there, and all its lines have its price.
LEMMA FirstIs ==
  ASSUME NEW lines, \A l \in lines : IsPriced(l), OnePrice(lines), NEW k \in BoughtIn(lines)
  PROVE  FirstOf(lines, k.part).unit = k.unit
<1> DEFINE S == {l \in BoughtIn(lines) : l.part = k.part}
           N == {i \in Nat : \E l \in S : i = SectionNo(l)}
<1>1. \A l \in S : SectionNo(l) \in Nat
  BY SectionsNumbered DEF BoughtIn, IsPriced
<1>2. k \in S
  OBVIOUS
<1>3. N \in SUBSET Nat /\ N # {}
  <2>1. SectionNo(k) \in N
    BY <1>1, <1>2
  <2> HIDE DEF N
  <2>2. N # {}
    BY <2>1
  <2> QED
    BY <2>2 DEF N
<1>4. PICK i \in N : \A j \in N : i <= j
  <2> HIDE DEF N
  <2> QED
    BY <1>3, LeastNatural
<1>5. PICK l \in S : i = SectionNo(l)
  OBVIOUS
<1>6. \A m \in S : SectionNo(m) \in N
  BY <1>1
<1>7. \A m \in S : SectionNo(l) <= SectionNo(m)
  BY <1>4, <1>5, <1>6
<1>8. FirstOf(lines, k.part) \in S
  <2>1. \E line \in BoughtIn(lines) :
           /\ line.part = k.part
           /\ \A m \in BoughtIn(lines) : m.part = k.part => SectionNo(line) <= SectionNo(m)
    BY <1>5, <1>7
  <2> QED
    BY <2>1 DEF FirstOf
<1> QED
  BY <1>8 DEF OnePrice, BoughtIn, Bought

LEMMA PartsAddUp ==
  ASSUME NEW lines, IsFiniteSet(lines), \A l \in lines : IsPriced(l), OnePrice(lines)
  PROVE  LET rows == {r \in RollupRows(lines) : r.unit # None}
         IN  SumFunction([r \in rows |-> r.unit * r.qty]) = OrderBudget(lines).total
<1> DEFINE B == BoughtIn(lines)
           P == PricedIn(lines)
           f == Costs(lines)
           parts == PartsOf(P)
           key == [l \in P |-> l.part]
           c == Classes(P, key, f, parts)
           row == [p \in parts |-> RowOf(lines, p)]
           rows == {r \in RollupRows(lines) : r.unit # None}
           g == [r \in rows |-> r.unit * r.qty]
           With(p) == {l \in P : key[l] = p}
<1>1. /\ IsFiniteSet(B) /\ IsFiniteSet(P)
      /\ \A p \in P : f[p] \in Nat /\ f[p] = p.unit * p.qty
      /\ \A l \in lines : Ordered(lines)[l] = l.qty /\ l.qty \in Nat
  BY CostsAre
<1>2. IsFiniteSet(parts) /\ DOMAIN key = P /\ \A l \in P : key[l] \in parts
  <2>1. parts = {key[l] : l \in P} /\ DOMAIN key = P
    BY DEF PartsOf
  <2> HIDE DEF key, P, parts
  <2> QED
    BY <1>1, <2>1, ImageIsFinite
<1>3. \A p \in parts : \A l \in B : l.part = p => l \in P /\ l.unit = FirstOf(lines, p).unit
  <2> SUFFICES ASSUME NEW p \in parts, NEW l \in B, l.part = p
               PROVE  l \in P /\ l.unit = FirstOf(lines, p).unit
    OBVIOUS
  <2>1. PICK k \in P : k.part = p
    BY DEF PartsOf
  <2>2. l.unit = k.unit /\ k.unit # None
    BY <2>1 DEF OnePrice, PricedIn, BoughtIn, Bought
  <2> QED
    BY <2>2, FirstIs DEF PricedIn
<1>4. rows = {row[p] : p \in parts}
  <2>1. ASSUME NEW p \in parts
        PROVE  row[p] \in rows
    <3>1. PICK k \in P : k.part = p
      BY DEF PartsOf
    <3>2. k \in B /\ k.unit # None
      BY DEF PricedIn
    <3>3. RowOf(lines, p).unit # None
      BY <1>3, <3>1, <3>2 DEF RowOf
    <3>4. p \in PartsOf(B)
      BY <3>1, <3>2 DEF PartsOf
    <3>5. RowOf(lines, p) \in RollupRows(lines)
      BY <3>4, RowsAre
    <3> QED
      BY <3>3, <3>5
  <2>2. ASSUME NEW r \in rows
        PROVE  \E p \in parts : r = row[p]
    <3>1. PICK p \in PartsOf(B) : r = RowOf(lines, p)
      BY RowsAre
    <3>2. PICK k \in B : k.part = p
      BY DEF PartsOf
    <3>3. k.unit = RowOf(lines, p).unit
      BY <3>2, FirstIs DEF RowOf
    <3>4. k \in P
      BY <3>1, <3>3 DEF PricedIn
    <3>5. p \in parts
      BY <3>2, <3>4 DEF PartsOf
    <3> QED
      BY <3>1, <3>5
  <2> HIDE DEF rows, row, parts
  <2> QED
    BY <2>1, <2>2
<1>5. \A p \in parts : c[p] \in Nat /\ g[row[p]] = c[p]
  <2> SUFFICES ASSUME NEW p \in parts
               PROVE  c[p] \in Nat /\ g[row[p]] = c[p]
    OBVIOUS
  <2> DEFINE u == FirstOf(lines, p).unit
             q == Ordered(With(p))
  <2>1. c[p] = SumFunctionOnSet(f, With(p))
    BY DEF Classes
  <2>2. IsFiniteSet(With(p)) /\ \A l \in With(p) : f[l] \in Nat
    BY <1>1, FS_Subset
  <2>3. {l \in B : l.part = p} = With(p)
    BY <1>3 DEF PricedIn
  <2>4. OrderQty(B, p) = SumFunctionOnSet(q, With(p))
    BY <2>3 DEF OrderQty, QtyOf, SumFunction, Ordered
  <2>5. \A l \in With(p) : q[l] \in Nat /\ f[l] = u * q[l]
    <3>1. \A l \in With(p) : l \in lines /\ l \in B /\ l.part = p /\ q[l] = l.qty
      BY DEF PricedIn, BoughtIn, Ordered
    <3> QED
      BY <1>1, <1>3, <3>1
  <2>6. u \in Nat
    <3>1. PICK k \in P : k.part = p
      BY DEF PartsOf
    <3>2. k \in B /\ k \in lines /\ k.unit # None
      BY DEF PricedIn, BoughtIn
    <3> QED
      BY <1>3, <3>1, <3>2 DEF IsPriced
  <2>7. SumFunctionOnSet(f, With(p)) = u * SumFunctionOnSet(q, With(p))
    <3> HIDE DEF With, f, q, u
    <3> QED
      BY <2>2, <2>5, <2>6, SumScaled
  <2>8. c[p] \in Nat
    <3> HIDE DEF With, f, c
    <3> QED
      BY <2>1, <2>2, SumStep
  <2>9. row[p] \in rows /\ row[p].unit = u /\ row[p].qty = OrderQty(B, p)
    <3>1. row[p] \in rows
      <4> HIDE DEF row, rows, parts
      <4> QED
        BY <1>4
    <3> QED
      BY <3>1 DEF RowOf
  <2>10. g[row[p]] = u * OrderQty(B, p)
    <3> HIDE DEF row, rows, u
    <3> QED
      BY <2>9
  <2> QED
    BY <2>1, <2>4, <2>7, <2>8, <2>10
<1>6. SumFunctionOnSet(g, {row[p] : p \in parts}) = SumFunctionOnSet(c, parts)
  <2>1. \A p, r \in parts : row[p] = row[r] => p = r
    <3>1. \A p \in parts : row[p].part = p
      BY DEF RowOf
    <3> QED
      BY <3>1
  <2> HIDE DEF g, row, parts, c
  <2> QED
    BY <1>2, <1>5, <2>1, SumOfImages
<1>7. SumFunctionOnSet(c, parts) = SumFunctionOnSet(f, P)
  <2> HIDE DEF P, f, parts, key
  <2> QED
    BY <1>1, <1>2, SumByClass
<1>8. SumFunction(g) = SumFunctionOnSet(g, rows)
  BY DEF SumFunction
<1>9. SumFunction(g) = OrderBudget(lines).total
  <2>1. OrderBudget(lines).total = SumFunctionOnSet(f, P)
    BY TotalIs
  <2> HIDE DEF g, rows, f, P, row, c, parts
  <2> QED
    BY <1>4, <1>6, <1>7, <1>8, <2>1
<1> QED
  BY <1>9

\* However the lines of an order fall into parts and sections, and whatever
\* the price list and the offers say: the budget in bom.json, the purchase
\* roll-up priced by the first line of each part and the total of the
\* sections are one sum (book_price, live_price, rollup_sheet, _sections).
THEOREM SumsOfTheOrderAgree == PkgSpec => []RollupIsTheBudget
<1>1. PackageInv => RollupIsTheBudget
  <2> SUFFICES ASSUME PackageInv, stage \in {"offers", "drawings"}
               PROVE  LET rows == {r \in RollupRows(bom.lines) : r.unit # None}
                      IN  /\ bom.budget = OrderBudget(bom.lines)
                          /\ SumFunction([r \in rows |-> r.unit * r.qty]) = bom.budget.total
                          /\ SumFunction([i \in DOMAIN Sections |-> Subtotal(i)]) = bom.budget.total
    BY DEF RollupIsTheBudget
  <2>1. IsBom(bom)
    BY DEF PackageInv, BomInv, Billed
  <2>2. bom.budget = OrderBudget(bom.lines)
    BY <2>1 DEF IsBom
  <2>3. LET rows == {r \in RollupRows(bom.lines) : r.unit # None}
        IN  SumFunction([r \in rows |-> r.unit * r.qty]) = OrderBudget(bom.lines).total
    BY <2>1, PartsAddUp DEF IsBom
  <2>4. SumFunction([i \in DOMAIN Sections |-> Subtotal(i)]) = OrderBudget(bom.lines).total
    BY <2>1, SectionsAddUp
  <2> QED
    BY <2>2, <2>3, <2>4
<1> QED
  BY <1>1, PackageHolds, PTL

-----------------------------------------------------------------------------
(***************************************************************************)
(* A whole release and price list: no step of the run can fail.            *)
(***************************************************************************)
\* The devices of the containers have a template of the catalog.
LEMMA KnownTemplates ==
  ASSUME release \in Releases, site.grid \in Nat \ {0}, Sound,
         BoxInv(devices, counter), counter["grid_module"] <= Len(GridVariants)
  PROVE  ~UnknownTemplate
<1>1. /\ \A e \in ComputeEntries(order.variant) : e.template \in Templates
      /\ \A e \in PrimaryEntries(FALSE) : e.template \in Templates
  <2>1. \A e \in ComputeEntries(order.variant) : e.template \in Templates
    BY DEF ComputeEntries, Many, Entry, NodeTemplate, Templates
  <2>2. \A e \in PrimaryEntries(FALSE) : e.template \in Templates
    BY DEF PrimaryEntries, FeederEntries, Entry, Templates
  <2> QED
    BY <2>1, <2>2
<1>2. release.newTemplate = FALSE /\ Complete
  BY DEF Sound, Releases
<1>3. ModT("G") = "grid_module"
  BY DEF ModT, KindOf, ModuleTemplate
<1>4. \A box \in Boxes : \A no \in 1 .. counter[ModT(box)] : \A e \in KeptEntries(box, no) :
         e.template \in Templates
  <2> SUFFICES ASSUME NEW box \in Boxes, NEW no \in 1 .. counter[ModT(box)],
                      NEW e \in KeptEntries(box, no)
               PROVE  e.template \in Templates
    OBVIOUS
  <2>1. CASE box = "C"
    <3>1. e \in ComputeEntries(order.variant)
      BY <1>2, <2>1, KeptInContainer DEF Complete
    <3> QED
      BY <1>1, <3>1
  <2>2. CASE box = "G"
    <3>1. no \in 1 .. Len(GridVariants)
      <4>1. counter["grid_module"] \in Nat
        BY TemplatesApart DEF BoxInv, ContainerTemplates
      <4>2. Len(GridVariants) \in Nat
        BY GridVariantsAre
      <4> QED
        BY <1>3, <2>2, <4>1, <4>2
    <3>2. GridVariants[no] \in release.topology
      BY <1>2, <3>1, GridVariantsAre DEF Complete
    <3>3. e \in GridEntries(no)
      BY <2>2, <3>1, <3>2, KeptInContainer
    <3>4. GridEntries(no) \subseteq PrimaryEntries(FALSE)
      BY <1>2 DEF GridEntries, PrimaryEntries
    <3> QED
      BY <1>1, <3>3, <3>4
  <2> QED
    BY <2>1, <2>2 DEF Boxes
<1>5. ASSUME NEW d \in devices
      PROVE  d.template \in Templates
  <2>1. PICK box \in Boxes : \E no \in 1 .. counter[ModT(box)] : Fits(d, box, no, counter)
    BY DEF BoxInv, AllPlaced
  <2>2. PICK no \in 1 .. counter[ModT(box)] : Fits(d, box, no, counter)
    BY <2>1
  <2>3. CASE d = ModuleOf(box, no)
    <3>1. d.template = ModT(box)
      BY <2>3, ModuleFields
    <3>2. ModT(box) \in ContainerTemplates
      BY ModTIsIn
    <3> QED
      BY <3>1, <3>2, TemplatesApart
  <2>4. CASE \E e \in KeptEntries(box, no) : \E n : d = EntryDevice(box, no, e, n)
    <3>1. PICK e \in KeptEntries(box, no) : \E n : d = EntryDevice(box, no, e, n)
      BY <2>4
    <3>2. d.template = e.template
      BY <3>1, EntryFields
    <3> QED
      BY <1>4, <3>2
  <2> QED
    BY <2>2, <2>3, <2>4 DEF Fits
<1> QED
  BY <1>5 DEF UnknownTemplate

\* The transformer and the switchboard of grid container k are the k-th.
LEMMA GridSlugs ==
  ASSUME release \in Releases, site.grid \in Nat \ {0}, Complete,
         BoxInv(devices, counter), GridNumbered(devices, counter),
         counter["grid_module"] <= Len(GridVariants),
         NEW k \in 1 .. counter["grid_module"], NEW t \in {"transformer", "lv_switchboard"}
  PROVE  \E d \in devices : d.id = <<t, k>>
<1>1. ModT("G") = "grid_module" /\ "G" \in Boxes
  BY DEF ModT, KindOf, ModuleTemplate, Boxes
<1>2. k \in 1 .. Len(GridVariants)
  <2>1. counter["grid_module"] \in Nat
    BY TemplatesApart DEF BoxInv, ContainerTemplates
  <2>2. Len(GridVariants) \in Nat
    BY GridVariantsAre
  <2> QED
    BY <2>1, <2>2
<1>3. KeptEntries("G", k) = GridEntries(k)
  <2>1. GridVariants[k] \in release.topology
    BY <1>2, GridVariantsAre DEF Complete
  <2> QED
    BY <1>2, <2>1, KeptInContainer
<1>4. PICK e \in KeptEntries("G", k) : e.template = t
  BY <1>3, GridEntriesOnce
<1>5. PICK n \in 1 .. counter[t] : EntryDevice("G", k, e, n) \in devices
  BY <1>1, <1>4 DEF BoxInv, AllBuilt
<1> DEFINE d == EntryDevice("G", k, e, n)
<1>6. d.id = <<t, n>> /\ d.tag = <<"G", k, e.name, e.k>> /\ d.template = t
  BY <1>4, EntryFields
<1>7. d \in devices
  BY <1>5
<1> HIDE DEF d
<1>8. d.id[2] = d.tag[2]
  BY <1>6, <1>7 DEF GridNumbered
<1>9. n = k
  BY <1>6, <1>8
<1> QED
  BY <1>6, <1>7, <1>9

\* The validators of the manifest pass.
LEMMA SiteResolves ==
  ASSUME order \in Orders, release \in Releases, options \in Options, site = Resolution(order),
         EmitInv, Complete, counter["grid_module"] = site.grid, counter[ModT("C")] = site.compute
  PROVE  Resolves(AllDevices, buses \cup Joining)
<1> DEFINE new == Pad \cup Utility
           ids == {d.id : d \in AllDevices}
           bus == SiteBus((CHOOSE d \in Pad : d.parent = None).id)
<1>1. /\ BoxInv(devices, counter) /\ counter["grid_module"] <= Len(GridVariants)
      /\ GridNumbered(devices, counter)
      /\ \A b \in buses : b.members \subseteq {d.id : d \in devices}
  BY DEF EmitInv
<1>2. /\ site.compute \in Nat \ {0} /\ site.grid \in Nat \ {0}
      /\ site.feeds = ComputeFeeds(site.compute, site.grid)
  BY SiteIsSized
<1>3. AllDevices = devices \cup new
  <2>1. AllDevices = {d \in devices : \A e \in new : e.id # d.id} \cup new
    BY DEF AllDevices, Put
  <2>2. \A d \in devices : d.id[1] = d.template /\ d.template \in LeafTemplates \cup ContainerTemplates
    BY <1>1, BoxedDevices
  <2>3. \A d \in new : d.template \in PadTemplates \cup UtilityTemplates /\ d.id[1] = d.template
    BY SiteDevices
  <2> HIDE DEF new
  <2>4. \A d \in devices : \A e \in new : e.id # d.id
    BY <2>2, <2>3, TemplatesApart
  <2> QED
    BY <2>1, <2>4
<1>4. ModuleIds(devices) \subseteq ids /\ ModuleIds(Pad) \subseteq ids
  BY <1>3 DEF ModuleIds
<1>5. \A d \in AllDevices : d.parent # None => d.parent \in ids
  <2>1. \A d \in devices : d.parent # None => d.parent \in ModuleIds(devices)
    BY <1>1, BoxedTyped
  <2>2. \A d \in Pad \cup Utility : d.parent # None => d.parent \in ModuleIds(Pad)
    BY PadTyped
  <2> HIDE DEF ids
  <2> QED
    BY <1>3, <1>4, <2>1, <2>2
<1>6. \A b \in buses : b.members \subseteq ids
  BY <1>1, <1>3
<1>7. \A b \in LvMainBuses : b.members \subseteq ids
  <2> SUFFICES ASSUME NEW k \in 1 .. site.grid
               PROVE  LvMain(k).members \subseteq ids
    BY DEF LvMainBuses
  <2>1. \A t \in {"transformer", "lv_switchboard"} : <<t, k>> \in ids
    <3>1. \A t \in {"transformer", "lv_switchboard"} : \E d \in devices : d.id = <<t, k>>
      BY <1>1, <1>2, GridSlugs
    <3> QED
      BY <1>3, <3>1
  <2>2. \A n \in site.feeds[k] : ComputeModule(n) \in ids
    <3> SUFFICES ASSUME NEW n \in site.feeds[k]
                 PROVE  ComputeModule(n) \in ids
      OBVIOUS
    <3>1. n \in 1 .. counter[ModT("C")]
      BY <1>2 DEF ComputeFeeds
    <3>2. ModuleOf("C", n) \in devices
      BY <1>1, <3>1 DEF BoxInv, AllBuilt, Boxes
    <3>3. ComputeModule(n) = <<ModT("C"), n>>
      BY <1>1, <3>2, ComputeModuleIs DEF BoxInv
    <3>4. ModuleOf("C", n).id = <<ModT("C"), n>>
      BY ModuleFields
    <3> QED
      BY <1>3, <3>2, <3>3, <3>4
  <2>3. LvMain(k).members = {<<"transformer", k>>, <<"lv_switchboard", k>>}
                               \cup {ComputeModule(n) : n \in site.feeds[k]}
    BY DEF LvMain
  <2> HIDE DEF ids
  <2> QED
    BY <2>1, <2>2, <2>3
<1>8. bus.members \subseteq ids
  <2>1. bus.members = Ids("poi_meter") \cup Ids("switchgear") \cup {PadModule.id}
    BY PadDevices DEF SiteBus
  <2>2. PadModule \in AllDevices
    BY <1>3, PadDevices
  <2>3. \A t : Ids(t) \subseteq ids
    BY <1>3 DEF Ids
  <2> HIDE DEF bus
  <2> QED
    BY <2>1, <2>2, <2>3
<1>9. Joining = LvMainBuses \cup {bus}
  BY DEF Joining
<1> HIDE DEF ids, bus
<1>10. \A b \in buses \cup Joining : b.members \subseteq ids
  BY <1>6, <1>7, <1>8, <1>9
<1>11. {d.parent : d \in AllDevices} \subseteq ids \cup {None}
  BY <1>5
<1>12. UNION {b.members : b \in buses \cup Joining} \subseteq ids
  BY <1>10
<1> QED
  BY <1>11, <1>12 DEF Resolves, ids

LEMMA GenerateServes ==
  ASSUME ManifestInv, Sound
  PROVE  ~GenerateFails
<1> SUFFICES ASSUME GenerateFails
             PROVE  FALSE
  OBVIOUS
<1>1. /\ stage = "emit" /\ order \in Orders /\ release \in Releases /\ options \in Options
      /\ site = Resolution(order) /\ EmitInv
  BY DEF GenerateFails, ManifestInv
<1>2. BoxInv(devices, counter) /\ counter["grid_module"] <= Len(GridVariants)
  BY <1>1 DEF EmitInv
<1>3. site.compute \in Nat \ {0} /\ site.grid \in Nat \ {0}
  BY <1>1, SiteIsSized
<1>4. Len(GridVariants) = site.grid
  BY <1>1, <1>3, GridVariantsAre DEF Sound
<1>5. ~NoFeederVariant
  BY DEF NoFeederVariant, Sound
<1>6. ~UnknownTemplate
  BY <1>1, <1>2, <1>3, KnownTemplates
<1>7. /\ Emitted(ComputeModules) = site.compute /\ Emitted({"grid_module"}) = Len(GridVariants)
      /\ ZipFails \/ ~Resolves(AllDevices, buses \cup Joining)
  BY <1>5, <1>6 DEF GenerateFails, ContainersOut
<1>8. counter[ModT("C")] = site.compute /\ counter["grid_module"] = site.grid
  <2>1. /\ ModulesIn("C") = ComputeModules /\ ModulesIn("G") = {"grid_module"}
        /\ ModT("G") = "grid_module"
    BY DEF ModulesIn, ModT, KindOf, ModuleTemplate
  <2> QED
    BY <1>2, <1>4, <1>7, <2>1 DEF BoxInv, Counted, Emitted, Boxes
<1>9. ~ZipFails
  <2>1. GridNumbered(devices, counter)
    BY <1>1 DEF EmitInv, Sound
  <2> QED
    BY <1>8, <2>1 DEF GridNumbered, ZipFails
<1>10. Resolves(AllDevices, buses \cup Joining)
  BY <1>1, <1>8, SiteResolves DEF Sound
<1> QED
  BY <1>7, <1>9, <1>10

\* The management switch of a container is there.
LEMMA SwitchIsThere ==
  ASSUME ManifestInv, SiteInv, order \in Orders, site = Resolution(order), Complete,
         NEW box \in Boxes, NEW no \in 1 .. counter[ModT(box)]
  PROVE  /\ One(ModuleOf(box, no), MgmtSwitches) # None
         /\ One(ModuleOf(box, no), MgmtSwitches).tag = <<box, no, "SW-MGMT", 1>>
<1> DEFINE sw == Entry("SW-MGMT", 1, IF box = "C" THEN "mgmt_switch" ELSE "grid_mgmt_switch", FALSE)
<1>1. /\ release \in Releases /\ BoxInv(Boxed, counter)
      /\ counter[ModT("C")] = site.compute /\ counter["grid_module"] = Len(GridVariants)
      /\ site.grid \in Nat \ {0}
  BY SiteIsSized DEF ManifestInv, SiteInv
<1>2. sw \in KeptEntries(box, no) /\ \A f \in KeptEntries(box, no) : f.template \in MgmtSwitches => f = sw
  <2>1. CASE box = "C"
    <3>1. KeptEntries("C", no) = ComputeKept(no)
      BY <1>1, <2>1, ComputeKeptIs DEF Complete
    <3>2. sw \in ComputeKept(no)
      BY <2>1 DEF ComputeKept, Singles
    <3>3. \A f \in ComputeKept(no) : f.template # "grid_mgmt_switch"
      BY DEF ComputeKept, Singles, Many, Entry, NodeTemplate
    <3>4. \A f \in ComputeKept(no) : f.template = "mgmt_switch" => f = sw
      BY <2>1, SinglesAre
    <3> QED
      BY <2>1, <3>1, <3>2, <3>3, <3>4 DEF MgmtSwitches
  <2>2. CASE box = "G"
    <3>1. no \in 1 .. Len(GridVariants)
      BY <1>1, <2>2 DEF ModT, KindOf, ModuleTemplate
    <3>2. GridVariants[no] \in release.topology
      BY <1>1, <3>1, GridVariantsAre DEF Complete
    <3>3. KeptEntries("G", no) = GridEntries(no)
      BY <1>1, <3>1, <3>2, KeptInContainer
    <3>4. sw \in GridEntries(no)
      BY <2>2 DEF GridEntries, PrimaryEntries, FeederEntries
    <3>5. \A f \in PrimaryEntries(release.newTemplate) :
             f.template \in {"mgmt_switch", "grid_mgmt_switch"} => f = sw
      BY <2>2 DEF PrimaryEntries, FeederEntries, Entry
    <3>6. GridEntries(no) \subseteq PrimaryEntries(release.newTemplate)
      BY DEF GridEntries, PrimaryEntries
    <3> QED
      BY <2>2, <3>3, <3>4, <3>5, <3>6 DEF MgmtSwitches
  <2> QED
    BY <2>1, <2>2 DEF Boxes
<1>3. sw.template \in MgmtSwitches
  BY DEF MgmtSwitches, Entry
<1>4. sw.name = "SW-MGMT" /\ sw.k = 1
  BY DEF Entry
<1> HIDE DEF sw
<1>5. One(ModuleOf(box, no), MgmtSwitches) = Child(box, no, sw)
  BY <1>2, <1>3, OneIs
<1>6. Child(box, no, sw) \in devices /\ Child(box, no, sw).tag = <<box, no, "SW-MGMT", 1>>
  <2>1. Holds(box, no)
    BY ChildrenAre
  <2> QED
    BY <1>2, <1>4, <2>1 DEF Holds, ChildrenOf
<1> QED
  BY <1>5, <1>6, DevicesAreTyped

LEMMA ScheduleServes ==
  ASSUME ManifestInv, Sound
  PROVE  ~ScheduleFails
<1> SUFFICES ASSUME ScheduleFails
             PROVE  FALSE
  OBVIOUS
<1>1. /\ stage = "schedule" /\ order \in Orders /\ release \in Releases /\ options \in Options
      /\ site = Resolution(order) /\ SiteInv /\ Complete
      /\ NoGrid \/ NowhereToPatch
  BY DEF ScheduleFails, ManifestInv, Manifested, Sound
<1>2. site.grid \in Nat \ {0}
  BY <1>1, SiteIsSized
<1>3. Len(GridVariants) = site.grid
  BY <1>1, <1>2, GridVariantsAre DEF Sound
<1>4. Containers("grid") = [k \in 1 .. site.grid |-> ModuleOf("G", k)]
  BY <1>1, <1>3, ContainersAre
<1>5. ~NoGrid /\ Containers("grid")[1] = ModuleOf("G", 1)
  <2>1. 1 \in 1 .. site.grid
    BY <1>2
  <2>2. DOMAIN Containers("grid") # {}
    BY <1>4, <2>1
  <2>3. DOMAIN <<>> = {}
    OBVIOUS
  <2>4. Containers("grid") # <<>>
    BY <2>2, <2>3
  <2> QED
    BY <1>4, <2>1, <2>4 DEF NoGrid
<1>6. 1 \in 1 .. counter[ModT("G")] /\ "G" \in Boxes
  BY <1>1, <1>2, <1>3 DEF SiteInv, ModT, KindOf, ModuleTemplate, Boxes
<1>7. G1 # None
  BY <1>1, <1>5, <1>6, SwitchIsThere DEF G1
<1>8. ASSUME NEW m \in Modules
      PROVE  SwitchOf(m) # None
  <2>1. CASE Kind(m.template) = "bess"
    BY <1>7, <2>1 DEF SwitchOf
  <2>2. CASE Kind(m.template) # "bess"
    <3>1. m # PadModule
      BY <2>2, KindsHold DEF KindsAre
    <3>2. PICK box \in Boxes : \E no \in 1 .. counter[ModT(box)] : m = ModuleOf(box, no)
      BY <1>1, <3>1, ModulesOfSite
    <3>3. PICK no \in 1 .. counter[ModT(box)] : m = ModuleOf(box, no)
      BY <3>2
    <3> QED
      BY <1>1, <2>2, <3>3, SwitchIsThere DEF SwitchOf
  <2> QED
    BY <2>1, <2>2
<1> QED
  BY <1>1, <1>5, <1>8 DEF NowhereToPatch

LEMMA BomServes ==
  ASSUME ManifestInv, ScheduleInv, BomInv, Sound
  PROVE  ~BomFails
<1> SUFFICES ASSUME BomFails
             PROVE  FALSE
  OBVIOUS
<1>1. stage = "bom" /\ (NoSpec \/ NoBreak)
  BY DEF BomFails
<1>2. IsFiniteSet(Lines) /\ \A l \in Lines : IsUnpriced(l)
  BY <1>1, LinesAre DEF Scheduled
<1>3. ~NoSpec
  BY DEF NoSpec, Sound
<1>4. ASSUME NEW l \in Lines, Listed(l)
      PROVE  BreaksReached(l.part, PriceQty(Lines, l)) # {}
  <2> DEFINE S == {line \in Lines : line.part = l.part}
             f == [line \in S |-> line.qty]
  <2>1. IsFiniteSet(S) /\ l \in S /\ \A k \in S : f[k] \in Nat /\ f[k] >= 1
    BY <1>2, FS_Subset DEF IsUnpriced, IsLine
  <2>2. PriceQty(Lines, l) = SumFunctionOnSet(f, S)
    BY DEF PriceQty, OrderQty, QtyOf, SumFunction
  <2> HIDE DEF f, S
  <2>3. PriceQty(Lines, l) \in Nat /\ PriceQty(Lines, l) >= 1
    <3>1. f[l] <= SumFunctionOnSet(f, S) /\ SumFunctionOnSet(f, S) \in Nat
      BY <2>1, SumAtLeast
    <3> QED
      BY <2>1, <2>2, <3>1
  <2>4. book[l.part][1].min = 1 /\ book[l.part] \in Seq(Breaks) \ {<<>>}
    BY <1>4 DEF Sound, Listed, BomInv, IsPriceBook
  <2>5. 1 \in DOMAIN book[l.part]
    BY <2>4
  <2>6. 1 \in BreaksReached(l.part, PriceQty(Lines, l))
    BY <2>3, <2>4, <2>5 DEF BreaksReached
  <2> QED
    BY <2>6
<1>5. ~NoBreak
  BY <1>4 DEF NoBreak
<1> QED
  BY <1>1, <1>3, <1>5

\* An order over a whole release and price list always ends with a package:
\* of any size, on any grid profile, with any offers, no strict zip, no
\* validator, no look-up and no division of generate, power_cables,
\* comms_cables and book_price fails.
THEOREM OrdersAreServed == PkgSpec => []SoundOrdersAreServed
<1>1. PkgInit => SoundOrdersAreServed
  BY DEF PkgInit, DtmInit, SoundOrdersAreServed
<1>2. PackageInv /\ SoundOrdersAreServed /\ [PkgNext]_pkgVars => SoundOrdersAreServed'
  <2> SUFFICES ASSUME PackageInv, SoundOrdersAreServed, [PkgNext]_pkgVars, stage' = "failed"
               PROVE  ~Sound'
    BY DEF SoundOrdersAreServed
  <2>0. ManifestInv /\ ScheduleInv /\ BomInv
    BY DEF PackageInv
  <2>1. UNCHANGED <<release, book>>
    BY DEF PkgNext, pkgVars, Generate, Take, EmitCompute, EmitGrid, EmitSite, GenerateFails,
           Schedule, ScheduleFails, GenerateBom, BomFails, AttachOffers, DrawSheets
  <2>2. Sound' = Sound
    BY <2>1 DEF Sound, Complete
  <2>3. CASE stage = "failed"
    BY <2>2, <2>3 DEF SoundOrdersAreServed
  <2>4. CASE stage # "failed"
    <3>1. GenerateFails \/ ScheduleFails \/ BomFails
      BY <2>4 DEF PkgNext, pkgVars, Generate, Take, EmitCompute, EmitGrid, EmitSite,
                  Schedule, GenerateBom, AttachOffers, DrawSheets
    <3> QED
      BY <2>0, <2>2, <3>1, GenerateServes, ScheduleServes, BomServes
  <2> QED
    BY <2>3, <2>4
<1> QED
  BY <1>1, <1>2, PackageHolds, PTL DEF PkgSpec

-----------------------------------------------------------------------------
(***************************************************************************)
(* What a bom.yaml lists of a template, and what a reference designator    *)
(* covers.                                                                 *)
(***************************************************************************)
\* The tags of a template that a bom.yaml lists are E, none if it has no
\* part of that template.
ListsTags(y, t, E) ==
    /\ IsFiniteSet(E)
    /\ E # {} <=> \E p \in y.parts : p.part = t
    /\ \A p \in y.parts : p.part = t => p.tags = E /\ p.qty = Cardinality(E)
IsTagSet(E) == IsFiniteSet(E) /\ \A u \in E : u = <<u[1], u[2]>>
Block(box, g, E) == {Tag(box, n, u[1], u[2]) : n \in g.first .. g.last, u \in E}

LEMMA TagsAreFinite ==
  ASSUME NEW T \in Seq(Entries), NEW t
  PROVE  /\ IsTagSet(TagsOf(T, t))
         /\ TagsOf(T, t) # {} <=> t \in {T[i].template : i \in DOMAIN T}
         /\ \A u : u \in TagsOf(T, t) <=>
               \E e \in EntriesIn(T) : e.template = t /\ u = <<e.name, e.k>>
<1> DEFINE D == 1 .. Len(T)
           at == {j \in D : T[j].template = t}
           tag == [i \in at |-> <<T[i].name, T[i].k>>]
<1>1. DOMAIN T = D /\ IsFiniteSet(D)
  BY LenProperties, FS_Interval
<1>2. TagsOf(T, t) = {tag[i] : i \in at}
  BY <1>1 DEF TagsOf
<1>3. TagsOf(T, t) # {} <=> t \in {T[i].template : i \in DOMAIN T}
  BY <1>1, <1>2
<1>4. \A u \in TagsOf(T, t) : u = <<u[1], u[2]>>
  BY <1>1 DEF TagsOf
<1>5. \A u : u \in TagsOf(T, t) <=> \E e \in EntriesIn(T) : e.template = t /\ u = <<e.name, e.k>>
  BY <1>1 DEF TagsOf, EntriesIn
<1>6. IsFiniteSet(TagsOf(T, t))
  <2>1. IsFiniteSet(at)
    BY <1>1, PartIsSmaller
  <2>2. DOMAIN tag = at
    OBVIOUS
  <2> HIDE DEF at, tag
  <2> QED
    BY <1>2, <2>1, <2>2, ImageIsFinite
<1> QED
  BY <1>3, <1>4, <1>5, <1>6 DEF IsTagSet

\* A bom.yaml lists of a template the tags its topology has.
LEMMA YamlLists ==
  ASSUME NEW T \in Seq(Entries), NEW untagged, NEW plates, NEW t, t # untagged
  PROVE  ListsTags(BomYaml(T, untagged, plates), t, TagsOf(T, t))
<1> DEFINE y == BomYaml(T, untagged, plates)
           templates == {T[i].template : i \in DOMAIN T}
<1>1. y.parts = {[part |-> s, qty |-> Cardinality(TagsOf(T, s)), tags |-> TagsOf(T, s)] : s \in templates}
                  \cup {[part |-> untagged, qty |-> 2, tags |-> {}]}
  BY DEF BomYaml
<1>2. \A p \in y.parts : p.part = t => p.tags = TagsOf(T, t) /\ p.qty = Cardinality(TagsOf(T, t))
  BY <1>1
<1>3. t \in templates => \E p \in y.parts : p.part = t
  <2> DEFINE q == [part |-> t, qty |-> Cardinality(TagsOf(T, t)), tags |-> TagsOf(T, t)]
  <2>1. t \in templates => q \in y.parts
    BY <1>1
  <2>2. q.part = t
    OBVIOUS
  <2> HIDE DEF q, templates, y
  <2> QED
    BY <2>1, <2>2
<1>4. ASSUME NEW p \in y.parts, p.part = t
      PROVE  t \in templates
  <2>1. \/ \E s \in templates : p.part = s
        \/ p.part = untagged
    <3> HIDE DEF templates
    <3> QED
      BY <1>1
  <2> QED
    BY <1>4, <2>1
<1> HIDE DEF y
<1> QED
  BY <1>2, <1>3, <1>4, TagsAreFinite DEF ListsTags, y, IsTagSet

\* A container that is left with fewer servers lists what stays.
LEMMA WithoutLists ==
  ASSUME NEW T \in Seq(Entries), NEW untagged, NEW plates, NEW t, t # untagged, NEW drop
  PROVE  ListsTags(Without(BomYaml(T, untagged, plates), drop), t, TagsOf(T, t) \ drop)
<1> DEFINE y == BomYaml(T, untagged, plates)
           w == Without(y, drop)
           E == TagsOf(T, t)
           S == {q \in y.parts : q.tags = {} \/ ~(q.tags \subseteq drop)}
           cut(p) == IF p.tags \cap drop = {} THEN p
                     ELSE [p EXCEPT !.qty = Cardinality(p.tags \ drop), !.tags = @ \ drop]
<1>1. ListsTags(y, t, E) /\ YamlShape(y)
  <2>1. YamlShape(y)
    BY DEF BomYaml, YamlShape
  <2> QED
    BY <2>1, YamlLists
<1>2. w.parts = {cut(p) : p \in S}
  BY <1>1 DEF Without, YamlShape
<1>3. IsFiniteSet(E \ drop)
  BY <1>1, FS_Subset DEF ListsTags
<1>4. \A p \in S : cut(p).part = p.part
  BY <1>1 DEF YamlShape
<1>5. \A p \in S : p.part = t => cut(p).tags = E \ drop /\ cut(p).qty = Cardinality(E \ drop)
  <2> SUFFICES ASSUME NEW p \in S, p.part = t
               PROVE  cut(p).tags = E \ drop /\ cut(p).qty = Cardinality(E \ drop)
    OBVIOUS
  <2>1. p.tags = E /\ p.qty = Cardinality(E) /\ DOMAIN p = {"part", "qty", "tags"}
    BY <1>1 DEF ListsTags, YamlShape
  <2>2. CASE E \cap drop = {}
    <3>1. E \ drop = E
      BY <2>2
    <3> QED
      BY <2>1, <2>2, <3>1
  <2>3. CASE E \cap drop # {}
    BY <2>1, <2>3
  <2> QED
    BY <2>2, <2>3
<1>6. E \ drop # {} <=> \E p \in S : p.part = t
  BY <1>1 DEF ListsTags
<1> HIDE DEF S, cut, w, E
<1>7. \A p \in w.parts : p.part = t => p.tags = E \ drop /\ p.qty = Cardinality(E \ drop)
  BY <1>2, <1>4, <1>5
<1>8. E \ drop # {} <=> \E p \in w.parts : p.part = t
  BY <1>2, <1>4, <1>6
<1> QED
  BY <1>3, <1>7, <1>8 DEF ListsTags, w, E

\* A group needs of a template its tags once for each container.
LEMMA BlockSize ==
  ASSUME NEW box, NEW g, IsGroup(g), NEW E, IsTagSet(E)
  PROVE  IsFiniteSet(Block(box, g, E)) /\ Cardinality(Block(box, g, E)) = Cardinality(E) * CountOf(g)
<1> DEFINE N == g.first .. g.last
           S == N \X E
           f == [x \in S |-> Tag(box, x[1], x[2][1], x[2][2])]
<1>1. g.first \in Nat /\ g.last \in Nat /\ g.first <= g.last
  BY DEF IsGroup
<1>2. IsFiniteSet(N) /\ Cardinality(N) = CountOf(g)
  <2>1. g.first \in Int /\ g.last \in Int /\ ~(g.first > g.last)
    BY <1>1
  <2> HIDE DEF N
  <2>2. /\ IsFiniteSet(g.first .. g.last)
        /\ Cardinality(g.first .. g.last) = IF g.first > g.last THEN 0 ELSE g.last - g.first + 1
    BY <2>1, FS_Interval
  <2> QED
    BY <2>1, <2>2 DEF N, CountOf
<1>3. IsFiniteSet(S) /\ Cardinality(S) = Cardinality(N) * Cardinality(E)
  BY <1>2, FS_Product DEF IsTagSet
<1>4. Block(box, g, E) = {f[x] : x \in S} /\ DOMAIN f = S
  <2>1. ASSUME NEW n \in N, NEW u \in E
        PROVE  <<n, u>> \in S /\ f[<<n, u>>] = Tag(box, n, u[1], u[2])
    OBVIOUS
  <2>2. ASSUME NEW x \in S
        PROVE  x[1] \in N /\ x[2] \in E /\ f[x] = Tag(box, x[1], x[2][1], x[2][2])
    OBVIOUS
  <2>3. DOMAIN f = S
    OBVIOUS
  <2>4. Block(box, g, E) = {Tag(box, n, u[1], u[2]) : n \in N, u \in E}
    BY DEF Block
  <2> HIDE DEF f, S, N
  <2>5. ASSUME NEW b \in Block(box, g, E)
        PROVE  b \in {f[x] : x \in S}
    <3>1. PICK n \in N : \E u \in E : b = Tag(box, n, u[1], u[2])
      BY <2>4
    <3>2. PICK u \in E : b = Tag(box, n, u[1], u[2])
      BY <3>1
    <3>3. <<n, u>> \in S /\ f[<<n, u>>] = b
      BY <2>1, <3>2
    <3> QED
      BY <3>3
  <2>6. {f[x] : x \in S} \subseteq Block(box, g, E)
    BY <2>2, <2>4
  <2> QED
    BY <2>3, <2>5, <2>6
<1>5. \A x, y \in S : f[x] = f[y] => x = y
  <2> SUFFICES ASSUME NEW x \in S, NEW y \in S, f[x] = f[y]
               PROVE  x = y
    OBVIOUS
  <2>1. x[1] = y[1] /\ x[2][1] = y[2][1] /\ x[2][2] = y[2][2]
    BY DEF Tag
  <2>2. x[2] = <<x[2][1], x[2][2]>> /\ y[2] = <<y[2][1], y[2][2]>>
    BY DEF IsTagSet
  <2>3. x[2] = y[2]
    BY <2>1, <2>2
  <2> QED
    BY <2>1, <2>3
<1> HIDE DEF f, S
<1>6. IsFiniteSet(Block(box, g, E)) /\ Cardinality(Block(box, g, E)) = Cardinality(S)
  BY <1>3, <1>4, <1>5, ImageIsAsLarge
<1>7. Cardinality(E) \in Nat /\ Cardinality(N) \in Nat
  BY <1>2, FS_CardinalityType DEF IsTagSet
<1> HIDE DEF N
<1> QED
  BY <1>2, <1>3, <1>6, <1>7

\* One group of containers, or one and the next.
Adjacent(box, groups) ==
    /\ \A g \in groups : IsGroup(g) /\ g.prefix = box
    /\ \E g \in groups : \/ groups = {g}
                         \/ \E h \in groups : groups = {g, h} /\ g.last + 1 = h.first
Numbers2(groups) == UNION {g.first .. g.last : g \in groups}

\* The range of adjacent groups covers their containers.
LEMMA SpanIs ==
  ASSUME NEW box, NEW groups, Adjacent(box, groups)
  PROVE  \E first, last : /\ Span(groups) = {RangeOf(box, first, last, Whole)}
                          /\ first .. last = Numbers2(groups)
<1> DEFINE F == {g.first : g \in groups}
           L == {g.last : g \in groups}
<1>1. PICK g \in groups : \/ groups = {g}
                          \/ \E h \in groups : groups = {g, h} /\ g.last + 1 = h.first
  BY DEF Adjacent
<1>2. PICK h \in groups : groups = {g, h} /\ (h = g \/ g.last + 1 = h.first)
  BY <1>1
<1>3. /\ g.first \in Nat /\ g.last \in Nat /\ g.first <= g.last
      /\ h.first \in Nat /\ h.last \in Nat /\ h.first <= h.last
  BY DEF Adjacent, IsGroup
<1>4. Min(F) = g.first
  <2>1. F = {g.first, h.first} /\ g.first <= h.first
    BY <1>2, <1>3
  <2> QED
    BY <1>3, <2>1 DEF Min
<1>5. Max(L) = h.last
  <2>1. L = {g.last, h.last} /\ g.last <= h.last
    BY <1>2, <1>3
  <2> QED
    BY <1>3, <2>1 DEF Max
<1>6. (CHOOSE x \in groups : TRUE).prefix = box
  <2>1. (CHOOSE x \in groups : TRUE) \in groups
    OBVIOUS
  <2> QED
    BY <2>1 DEF Adjacent
<1>7. Span(groups) = {RangeOf(box, g.first, h.last, Whole)}
  BY <1>4, <1>5, <1>6 DEF Span
<1>8. Numbers2(groups) = (g.first .. g.last) \cup (h.first .. h.last)
  BY <1>2 DEF Numbers2
<1>9. g.first .. h.last = Numbers2(groups)
  <2>1. h = g \/ g.last + 1 = h.first
    BY <1>2
  <2>2. ASSUME NEW n
        PROVE  n \in g.first .. h.last <=> n \in g.first .. g.last \/ n \in h.first .. h.last
    BY <1>3, <2>1
  <2> QED
    BY <1>8, <2>2
<1> QED
  BY <1>7, <1>9

LEMMA RangeTags ==
  ASSUME NEW prefix, NEW first, NEW last, NEW E
  PROVE  RangeOf(prefix, first, last, E).tags = E
BY DEF RangeOf

LEMMA RangeRetagged ==
  ASSUME NEW prefix, NEW first, NEW last, NEW E, NEW G
  PROVE  [RangeOf(prefix, first, last, E) EXCEPT !.tags = G] = RangeOf(prefix, first, last, G)
BY DEF RangeOf

\* The tags of E in the containers N.
Spread(box, N, E) == {Tag(box, n, u[1], u[2]) : n \in N, u \in E}

LEMMA SpreadIs ==
  ASSUME NEW box, NEW N, NEW E
  PROVE  \A x : x \in Spread(box, N, E) <=> \E n \in N : \E u \in E : x = Tag(box, n, u[1], u[2])
<1>1. ASSUME NEW n \in N, NEW u \in E
      PROVE  Tag(box, n, u[1], u[2]) \in Spread(box, N, E)
  BY DEF Spread
<1>2. ASSUME NEW x \in Spread(box, N, E)
      PROVE  \E n \in N : \E u \in E : x = Tag(box, n, u[1], u[2])
  BY DEF Spread
<1> QED
  BY <1>1, <1>2

LEMMA RangeIs ==
  ASSUME NEW prefix, NEW first, NEW last, NEW E
  PROVE  Covers({RangeOf(prefix, first, last, E)}) = Spread(prefix, first .. last, E)
<1>1. /\ RangeOf(prefix, first, last, E).tags = E
      /\ RangeOf(prefix, first, last, E).prefix = prefix
      /\ RangeOf(prefix, first, last, E).first = first
      /\ RangeOf(prefix, first, last, E).last = last
  BY DEF RangeOf
<1> QED
  BY <1>1 DEF Covers, Spread

\* What a set of ranges covers is what each of them covers.
LEMMA CoversEach ==
  ASSUME NEW ref
  PROVE  \A x : x \in Covers(ref) <=> \E r \in ref : x \in Covers({r})
BY DEF Covers

\* The tags of E in the containers of the groups.
Blocks(box, groups, T) == UNION {Block(box, g, T[g]) : g \in groups}

\* Merged into one range or not, a reference designator covers the tags of
\* each container.
LEMMA RefCovers ==
  ASSUME NEW box, NEW held, Adjacent(box, held), NEW T, \A g \in held : T[g] # {}
  PROVE  Covers(RefDes(held, T)) = Blocks(box, held, T)
<1> DEFINE tags == {T[g] : g \in held}
           ranges == IF Cardinality(tags) = 1
                     THEN {[r EXCEPT !.tags = CHOOSE s \in tags : TRUE] : r \in Span(held)}
                     ELSE {RangeOf(g.prefix, g.first, g.last, T[g]) : g \in held}
           named == {r \in ranges : r.tags # {}}
<1>0. /\ \A g \in held : g.prefix = box
      /\ held # {}
  BY DEF Adjacent
<1>1. RefDes(held, T) = IF named = {} THEN Span(held) ELSE named
  BY DEF RefDes
<1>2. CASE Cardinality(tags) = 1
  <2>1. PICK E : \A g \in held : T[g] = E
    <3>1. IsFiniteSet(tags)
      <4>1. PICK g \in held, h \in held : held = {g, h}
        BY DEF Adjacent
      <4>2. tags = {T[g], T[h]}
        BY <4>1
      <4>3. IsFiniteSet({T[g]} \cup {T[h]})
        BY FS_Singleton, FS_Union
      <4>4. {T[g]} \cup {T[h]} = tags
        BY <4>2
      <4> HIDE DEF tags
      <4> QED
        BY <4>3, <4>4
    <3>2. \E E : tags = {E}
      <4> HIDE DEF tags
      <4> QED
        BY <1>2, <3>1, FS_Singleton
    <3> QED
      BY <3>2
  <2>2. tags = {E} /\ E # {}
    BY <1>0, <2>1
  <2>3. (CHOOSE s \in tags : TRUE) = E
    BY <2>2
  <2>4. PICK first, last : /\ Span(held) = {RangeOf(box, first, last, Whole)}
                           /\ first .. last = Numbers2(held)
    BY SpanIs
  <2>5. ranges = {RangeOf(box, first, last, E)}
    <3>1. ranges = {[r EXCEPT !.tags = E] : r \in {RangeOf(box, first, last, Whole)}}
      BY <1>2, <2>3, <2>4
    <3> QED
      BY <3>1, RangeRetagged
  <2>6. RefDes(held, T) = {RangeOf(box, first, last, E)}
    <3>1. RangeOf(box, first, last, E).tags # {}
      BY <2>2, RangeTags
    <3> HIDE DEF ranges
    <3> QED
      BY <1>1, <2>5, <3>1
  <2>7. \A x : x \in Covers(RefDes(held, T)) <=>
           \E n \in Numbers2(held) : \E u \in E : x = Tag(box, n, u[1], u[2])
    <3>1. Covers(RefDes(held, T)) = Spread(box, Numbers2(held), E)
      BY <2>4, <2>6, RangeIs
    <3> QED
      BY <3>1, SpreadIs
  <2>8. \A x : x \in Blocks(box, held, T) <=>
           \E n \in Numbers2(held) : \E u \in E : x = Tag(box, n, u[1], u[2])
    BY <2>1 DEF Blocks, Block, Numbers2
  <2> QED
    BY <2>7, <2>8
<1>3. CASE Cardinality(tags) # 1
  <2>1. ranges = {RangeOf(box, g.first, g.last, T[g]) : g \in held}
    BY <1>0, <1>3
  <2>2. RefDes(held, T) = {RangeOf(box, g.first, g.last, T[g]) : g \in held}
    <3>1. \A g \in held : RangeOf(box, g.first, g.last, T[g]).tags # {}
      BY RangeTags
    <3>2. \A r \in ranges : r.tags # {}
      BY <2>1, <3>1
    <3>3. ranges # {}
      <4>1. PICK g \in held : TRUE
        BY <1>0
      <4>2. RangeOf(box, g.first, g.last, T[g]) \in ranges
        BY <2>1
      <4> HIDE DEF ranges
      <4> QED
        BY <4>2
    <3>4. RefDes(held, T) = ranges
      <4> HIDE DEF ranges
      <4> QED
        BY <1>1, <3>2, <3>3
    <3> QED
      BY <2>1, <3>4
  <2>3. ASSUME NEW g \in held
        PROVE  \A x : x \in Covers({RangeOf(box, g.first, g.last, T[g])}) <=> x \in Block(box, g, T[g])
    <3>1. Block(box, g, T[g]) = Spread(box, g.first .. g.last, T[g])
      BY DEF Block, Spread
    <3> QED
      BY <3>1, RangeIs
  <2>4. \A x : x \in Covers(RefDes(held, T)) <=>
           \E g \in held : x \in Covers({RangeOf(box, g.first, g.last, T[g])})
    <3> DEFINE R == {RangeOf(box, g.first, g.last, T[g]) : g \in held}
    <3>1. \A x : x \in Covers(R) <=> \E r \in R : x \in Covers({r})
      BY CoversEach
    <3> QED
      BY <2>2, <3>1
  <2> QED
    BY <2>3, <2>4 DEF Blocks
<1> QED
  BY <1>2, <1>3

-----------------------------------------------------------------------------
(***************************************************************************)
(* What the groups of containers of a section bill of a template.          *)
(***************************************************************************)
LEMMA SumOfOne ==
  ASSUME NEW x, NEW f, DOMAIN f = {x}, f[x] \in Nat
  PROVE  SumFunction(f) = f[x]
<1>1. IsFiniteSet({x}) /\ \A y \in {x} : f[y] \in Nat
  BY FS_Singleton
<1>2. SumFunctionOnSet(f, {x}) = f[x] + SumFunctionOnSet(f, {x} \ {x})
  BY <1>1, SumStep
<1>3. {x} \ {x} = {}
  OBVIOUS
<1>4. SumFunctionOnSet(f, {}) = 0
  BY SumOfNone
<1> QED
  BY <1>2, <1>3, <1>4 DEF SumFunction

LEMMA SumOfTwo ==
  ASSUME NEW x, NEW y, x # y, NEW f, DOMAIN f = {x, y}, f[x] \in Nat, f[y] \in Nat
  PROVE  SumFunction(f) = f[x] + f[y]
<1>1. IsFiniteSet({x, y}) /\ \A z \in {x, y} : f[z] \in Nat
  <2>1. IsFiniteSet({x} \cup {y})
    BY FS_Singleton, FS_Union
  <2>2. {x, y} = {x} \cup {y}
    OBVIOUS
  <2> QED
    BY <2>1, <2>2
<1>2. SumFunctionOnSet(f, {x, y}) = f[x] + SumFunctionOnSet(f, {x, y} \ {x})
  BY <1>1, SumStep
<1>3. {x, y} \ {x} = {y} /\ {y} \ {y} = {}
  OBVIOUS
<1>4. IsFiniteSet({y}) /\ \A z \in {y} : f[z] \in Nat
  BY FS_Singleton
<1>5. SumFunctionOnSet(f, {y}) = f[y] + SumFunctionOnSet(f, {y} \ {y})
  BY <1>4, SumStep
<1>6. SumFunctionOnSet(f, {}) = 0
  BY SumOfNone
<1> QED
  <2>1. SumFunctionOnSet(f, {y}) = f[y]
    BY <1>3, <1>5, <1>6
  <2>2. SumFunction(f) = SumFunctionOnSet(f, {x, y})
    BY DEF SumFunction
  <2>3. SumFunctionOnSet(f, {x, y} \ {x}) = f[y]
    BY <1>3, <2>1
  <2> QED
    BY <1>2, <2>2, <2>3

\* Each group lists the tags E[g] of the template t.
AllList(groups, t, E) ==
    \A g \in groups : IsTagSet(E[g]) /\ ListsTags(g.yaml, t, E[g])

\* The groups that list a template are those with a tag of it.
LEMMA GroupsWith ==
  ASSUME NEW box, NEW groups, Adjacent(box, groups), NEW t, NEW E, AllList(groups, t, E)
  PROVE  /\ WithPart(groups, t) = {g \in groups : E[g] # {}}
         /\ \A g \in WithPart(groups, t) :
               PartOf(g, t).qty = Cardinality(E[g]) /\ PartOf(g, t).tags = E[g]
         /\ WithPart(groups, t) # {} => Adjacent(box, WithPart(groups, t))
<1> DEFINE W == WithPart(groups, t)
<1>1. ASSUME NEW g \in groups
      PROVE  g \in W <=> E[g] # {}
  BY DEF AllList, ListsTags, WithPart
<1>2. W = {g \in groups : E[g] # {}}
  BY <1>1 DEF WithPart
<1>3. ASSUME NEW g \in W
      PROVE  PartOf(g, t).qty = Cardinality(E[g]) /\ PartOf(g, t).tags = E[g]
  <2>1. g \in groups /\ \E p \in g.yaml.parts : p.part = t
    BY DEF WithPart
  <2>2. PartOf(g, t) \in g.yaml.parts /\ PartOf(g, t).part = t
    BY <2>1 DEF PartOf
  <2> QED
    BY <2>1, <2>2 DEF AllList, ListsTags
<1>4. ASSUME W # {}
      PROVE  Adjacent(box, W)
  <2>1. W \subseteq groups
    BY DEF WithPart
  <2> HIDE DEF W
  <2>2. \A g \in W : IsGroup(g) /\ g.prefix = box
    BY <2>1 DEF Adjacent
  <2>3. PICK g \in groups : \/ groups = {g}
                            \/ \E h \in groups : groups = {g, h} /\ g.last + 1 = h.first
    BY DEF Adjacent
  <2>4. PICK h \in groups : groups = {g, h} /\ (h = g \/ g.last + 1 = h.first)
    BY <2>3
  <2>5. \/ W = {g} \/ W = {h}
        \/ W = {g, h} /\ g.last + 1 = h.first
    BY <1>4, <2>1, <2>4
  <2> QED
    BY <2>2, <2>5 DEF Adjacent
<1> QED
  BY <1>2, <1>3, <1>4

\* The blocks of one group and of the next have no tag in common.
LEMMA BlocksSize ==
  ASSUME NEW box, NEW groups, Adjacent(box, groups), NEW E, \A g \in groups : IsTagSet(E[g]),
         NEW f, DOMAIN f = groups, \A g \in groups : f[g] = Cardinality(E[g]) * CountOf(g)
  PROVE  IsFiniteSet(Blocks(box, groups, E)) /\ Cardinality(Blocks(box, groups, E)) = SumFunction(f)
<1>1. PICK g \in groups : \/ groups = {g}
                          \/ \E h \in groups : groups = {g, h} /\ g.last + 1 = h.first
  BY DEF Adjacent
<1> DEFINE B(k) == Block(box, k, E[k])
<1>2. ASSUME NEW k \in groups
      PROVE  /\ k.first \in Nat /\ k.last \in Nat /\ k.first <= k.last
             /\ IsFiniteSet(B(k)) /\ Cardinality(B(k)) = f[k] /\ f[k] \in Nat
  <2>1. IsGroup(k) /\ IsTagSet(E[k])
    BY DEF Adjacent
  <2>2. IsFiniteSet(B(k)) /\ Cardinality(B(k)) = f[k]
    BY <2>1, BlockSize
  <2>3. Cardinality(B(k)) \in Nat
    BY <2>2, FS_CardinalityType
  <2> QED
    BY <2>1, <2>2, <2>3 DEF IsGroup
<1>3. Blocks(box, groups, E) = UNION {B(k) : k \in groups}
  BY DEF Blocks
<1>4. CASE groups = {g}
  <2>1. Blocks(box, groups, E) = B(g)
    BY <1>3, <1>4
  <2>2. SumFunction(f) = f[g]
    BY <1>2, <1>4, SumOfOne
  <2> QED
    BY <1>2, <2>1, <2>2
<1>5. ASSUME NEW h \in groups, groups = {g, h}, g.last + 1 = h.first
      PROVE  IsFiniteSet(Blocks(box, groups, E)) /\ Cardinality(Blocks(box, groups, E)) = SumFunction(f)
  <2>1. g # h
    BY <1>2, <1>5
  <2>2. SumFunction(f) = f[g] + f[h]
    BY <1>2, <1>5, <2>1, SumOfTwo
  <2>3. Blocks(box, groups, E) = B(g) \cup B(h)
    BY <1>3, <1>5
  <2>4. B(g) \cap B(h) = {}
    <3> SUFFICES ASSUME NEW x \in B(g), x \in B(h)
                 PROVE  FALSE
      OBVIOUS
    <3>1. B(g) = Spread(box, g.first .. g.last, E[g]) /\ B(h) = Spread(box, h.first .. h.last, E[h])
      BY DEF Block, Spread
    <3> DEFINE N == g.first .. g.last
               M == h.first .. h.last
    <3>6. x \in Spread(box, N, E[g]) /\ x \in Spread(box, M, E[h])
      BY <3>1
    <3> HIDE DEF B, N, M
    <3>2. PICK n \in N : \E u \in E[g] : x = Tag(box, n, u[1], u[2])
      BY <3>6, SpreadIs
    <3>3. PICK m \in M : \E u \in E[h] : x = Tag(box, m, u[1], u[2])
      BY <3>6, SpreadIs
    <3>4. x[2] = n /\ x[2] = m
      BY <3>2, <3>3 DEF Tag
    <3>5. n <= g.last /\ h.first <= m /\ n \in Int /\ m \in Int
      BY <1>2 DEF N, M
    <3> QED
      BY <1>2, <1>5, <3>4, <3>5
  <2> HIDE DEF B
  <2>5. /\ IsFiniteSet(B(g) \cup B(h))
        /\ Cardinality(B(g) \cup B(h)) = Cardinality(B(g)) + Cardinality(B(h)) - Cardinality(B(g) \cap B(h))
    BY <1>2, FS_Union
  <2>6. Cardinality(B(g) \cap B(h)) = 0
    BY <2>4, FS_EmptySet
  <2> QED
    BY <1>2, <2>2, <2>3, <2>5, <2>6
<1> QED
  BY <1>1, <1>4, <1>5

\* The line of a part counts and names the tags of its groups.
LEMMA PartBills ==
  ASSUME NEW box, NEW groups, Adjacent(box, groups), NEW t, NEW E, AllList(groups, t, E),
         WithPart(groups, t) # {}
  PROVE  /\ IsFiniteSet(Blocks(box, groups, E))
         /\ PartQty(groups, t) = Cardinality(Blocks(box, groups, E))
         /\ Covers(PartRef(groups, t)) = Blocks(box, groups, E)
<1> DEFINE W == WithPart(groups, t)
           f == [g \in W |-> PartOf(g, t).qty * CountOf(g)]
           T == [g \in W |-> PartOf(g, t).tags]
<1>1. /\ W = {g \in groups : E[g] # {}}
      /\ \A g \in W : PartOf(g, t).qty = Cardinality(E[g]) /\ PartOf(g, t).tags = E[g]
      /\ Adjacent(box, W)
  BY GroupsWith
<1>2. DOMAIN f = W /\ \A g \in W : f[g] = Cardinality(E[g]) * CountOf(g)
  BY <1>1
<1>3. \A g \in W : T[g] = E[g] /\ T[g] # {} /\ IsTagSet(E[g])
  BY <1>1 DEF AllList
<1>4. PartQty(groups, t) = SumFunction(f) /\ PartRef(groups, t) = RefDes(W, T)
  BY DEF PartQty, PartRef
<1> HIDE DEF W, f, T
<1>5. Blocks(box, W, T) = Blocks(box, W, E)
  BY <1>3 DEF Blocks
<1>6. Blocks(box, W, E) = Blocks(box, groups, E)
  <2>1. ASSUME NEW g \in groups, g \notin W
        PROVE  Block(box, g, E[g]) = {}
    BY <1>1, <2>1 DEF Block
  <2> QED
    BY <1>1, <2>1 DEF Blocks
<1>7. IsFiniteSet(Blocks(box, W, E)) /\ Cardinality(Blocks(box, W, E)) = SumFunction(f)
  BY <1>1, <1>2, <1>3, BlocksSize
<1>8. Covers(RefDes(W, T)) = Blocks(box, W, T)
  BY <1>1, <1>3, RefCovers
<1> QED
  BY <1>4, <1>5, <1>6, <1>7, <1>8

-----------------------------------------------------------------------------
(***************************************************************************)
(* The groups of a section against the containers of the site: the groups  *)
(* number the containers, and list for each what is kept in it.            *)
(***************************************************************************)
GroupsOf(box) == IF box = "C" THEN ComputeGroups ELSE GridGroups
CountIn(box) == IF box = "C" THEN site.compute ELSE site.grid
\* The topology tags of a template that a container is built with.
KeptTags(box, no, t) == {<<e.name, e.k>> : e \in {f \in KeptEntries(box, no) : f.template = t}}

LEMMA KeptTagsAre ==
  ASSUME NEW box, NEW no, NEW t
  PROVE  \A u : u \in KeptTags(box, no, t) <=>
            \E e \in KeptEntries(box, no) : e.template = t /\ u = <<e.name, e.k>>
BY DEF KeptTags

LEMMA NothingDropped ==
  DroppedTags(7) = {}
<1>1. NODES_PER_COMPUTE_CONTAINER = 7 /\ PdusPerSide(7) \in Int
  BY DEF NODES_PER_COMPUTE_CONTAINER, PdusPerSide, CeilDiv, NODES_PER_PDU
<1>2. \A n \in Int : n + 1 .. n = {}
  OBVIOUS
<1>3. 7 + 1 .. 7 = {} /\ PdusPerSide(7) + 1 .. PdusPerSide(7) = {}
  BY <1>1, <1>2
<1> QED
  BY <1>1, <1>3 DEF DroppedTags

\* Every container before the last one, and the last unless partial, holds 7.
LEMMA FullAre ==
  ASSUME order \in Orders, site = Resolution(order)
  PROVE  /\ \A no \in 1 .. FullContainers : NodesIn(site.nodes, no) = 7
         /\ FullContainers \in {site.compute, site.compute - 1}
<1>1. /\ site.nodes \in Nat /\ site.compute \in Nat \ {0}
      /\ site.nodes <= 7 * site.compute /\ 7 * (site.compute - 1) < site.nodes
  BY SiteIsSized
<1>2. FullContainers \in {site.compute, site.compute - 1}
  BY DEF FullContainers
<1>3. ASSUME NEW no \in 1 .. FullContainers
      PROVE  NodesIn(site.nodes, no) = 7
  <2>1. NodesIn(site.nodes, no) = IF 7 <= site.nodes - 7 * (no - 1) THEN 7 ELSE site.nodes - 7 * (no - 1)
    BY DEF NodesIn, AtMost, NODES_PER_COMPUTE_CONTAINER
  <2>2. no \in Int /\ no <= site.compute
    BY <1>1, <1>2
  <2>3. CASE no < site.compute
    BY <1>1, <2>1, <2>2, <2>3
  <2>4. CASE no = site.compute
    <3>1. ~Partial
      BY <1>1, <2>4 DEF FullContainers
    <3>2. ~(NodesIn(site.nodes, no) < 7)
      BY <2>4, <3>1 DEF Partial, NODES_PER_COMPUTE_CONTAINER
    <3> QED
      BY <1>1, <2>1, <2>2, <3>2
  <2> QED
    BY <1>1, <2>2, <2>3, <2>4
<1> QED
  BY <1>2, <1>3

\* The compute groups number the containers C1..CN.
LEMMA ComputeGroupsAre ==
  ASSUME order \in Orders, site = Resolution(order)
  PROVE  /\ Adjacent("C", ComputeGroups)
         /\ \A n : n \in Numbers2(ComputeGroups) <=> n \in 1 .. site.compute
         /\ \A g \in ComputeGroups : \A no \in g.first .. g.last :
               \/ g.yaml = ComputeBom /\ NodesIn(site.nodes, no) = 7
               \/ /\ no = site.compute
                  /\ g.yaml = Without(ComputeBom, DroppedTags(NodesIn(site.nodes, site.compute)))
<1> DEFINE cut == Without(ComputeBom, DroppedTags(NodesIn(site.nodes, site.compute)))
           full == FullContainers
           c1 == Group("C", 1, full, ComputeBom)
           c2 == Group("C", full + 1, site.compute, cut)
<1>1. /\ site.compute \in Nat \ {0} /\ full \in Nat
      /\ full \in {site.compute, site.compute - 1}
      /\ \A no \in 1 .. full : NodesIn(site.nodes, no) = 7
      /\ \A g \in ComputeGroups : IsGroup(g)
  BY SiteIsSized, GroupsAre, FullAre
<1>2. /\ c1.prefix = "C" /\ c1.first = 1 /\ c1.last = full /\ c1.yaml = ComputeBom
      /\ c2.prefix = "C" /\ c2.first = full + 1 /\ c2.last = site.compute /\ c2.yaml = cut
  BY DEF Group
<1>3. ComputeGroups = {g \in {c1, c2} : g.first <= g.last}
  BY DEF ComputeGroups
<1> HIDE DEF c1, c2, cut, full
<1>4. \/ full = site.compute /\ ComputeGroups = {c1}
      \/ full = 0 /\ site.compute = 1 /\ ComputeGroups = {c2}
      \/ full = site.compute - 1 /\ full # 0 /\ ComputeGroups = {c1, c2} /\ c1.last + 1 = c2.first
  <2>1. CASE full = site.compute
    BY <1>1, <1>2, <1>3, <2>1
  <2>2. CASE full = 0 /\ site.compute = 1
    BY <1>1, <1>2, <1>3, <2>2
  <2>3. CASE full = site.compute - 1 /\ full # 0
    BY <1>1, <1>2, <1>3, <2>3
  <2> QED
    BY <1>1, <2>1, <2>2, <2>3
<1>5. Adjacent("C", ComputeGroups)
  <2>1. \A g \in ComputeGroups : IsGroup(g) /\ g.prefix = "C"
    BY <1>1, <1>2, <1>3
  <2> QED
    BY <1>4, <2>1 DEF Adjacent
<1>6. \A n : n \in Numbers2(ComputeGroups) <=> \E g \in ComputeGroups : n \in g.first .. g.last
  BY DEF Numbers2
<1>7. \A n : n \in Numbers2(ComputeGroups) <=> n \in 1 .. site.compute
  BY <1>1, <1>2, <1>4, <1>6
<1>8. ASSUME NEW g \in ComputeGroups, NEW no \in g.first .. g.last
      PROVE  \/ g.yaml = ComputeBom /\ NodesIn(site.nodes, no) = 7
             \/ no = site.compute /\ g.yaml = cut
  <2>1. CASE g = c1
    BY <1>1, <1>2, <2>1
  <2>2. CASE g = c2
    BY <1>1, <1>2, <2>2
  <2> QED
    BY <1>3, <2>1, <2>2
<1> QED
  BY <1>5, <1>7, <1>8 DEF cut

\* A compute group lists what each of its containers keeps.
LEMMA ComputeLists ==
  ASSUME order \in Orders, release \in Releases, site = Resolution(order),
         "compute" \in release.topology, NEW t, t # "cable_gland",
         NEW g \in ComputeGroups, NEW no \in g.first .. g.last
  PROVE  ListsTags(g.yaml, t, KeptTags("C", no, t)) /\ IsTagSet(KeptTags("C", no, t))
<1> DEFINE T == ComputeTopology(order.variant)
           drop == DroppedTags(NodesIn(site.nodes, no))
<1>1. T \in Seq(Entries) /\ EntriesIn(T) = ComputeEntries(order.variant)
  BY ComputeEntriesAre
<1>2. KeptEntries("C", no) = {e \in ComputeEntries(order.variant) : <<e.name, e.k>> \notin drop}
  BY KeptInContainer DEF Drop
<1>3. IsTagSet(TagsOf(T, t)) /\ \A u : u \in TagsOf(T, t) <=>
         \E e \in ComputeEntries(order.variant) : e.template = t /\ u = <<e.name, e.k>>
  BY <1>1, TagsAreFinite
<1> HIDE DEF T, drop
<1>4. KeptTags("C", no, t) = TagsOf(T, t) \ drop
  <2>1. \A u : u \in KeptTags("C", no, t) <=>
           \E e \in KeptEntries("C", no) : e.template = t /\ u = <<e.name, e.k>>
    BY KeptTagsAre
  <2> QED
    BY <1>2, <1>3, <2>1
<1>5. \E plates : ComputeBom = BomYaml(T, "cable_gland", plates)
  BY DEF ComputeBom, T
<1>6. ListsTags(ComputeBom, t, TagsOf(T, t)) /\ ListsTags(Without(ComputeBom, drop), t, TagsOf(T, t) \ drop)
  BY <1>1, <1>5, YamlLists, WithoutLists
<1>7. \/ g.yaml = ComputeBom /\ drop = {}
      \/ g.yaml = Without(ComputeBom, drop)
  BY ComputeGroupsAre, NothingDropped DEF drop
<1>8. TagsOf(T, t) \ {} = TagsOf(T, t)
  OBVIOUS
<1>9. ListsTags(g.yaml, t, TagsOf(T, t) \ drop)
  BY <1>6, <1>7, <1>8
<1>10. IsTagSet(TagsOf(T, t) \ drop)
  BY <1>3, FS_Subset DEF IsTagSet
<1> QED
  BY <1>4, <1>9, <1>10

\* The primary has no template the catalog lacks: its device would.
LEMMA NothingNew ==
  ASSUME ManifestInv, ScheduleInv, stage \in Scheduled, Complete
  PROVE  ~release.newTemplate
<1>1. /\ release \in Releases /\ options \in Options /\ SiteInv
      /\ site.grid \in Nat \ {0} /\ release.primary /\ Len(GridVariants) = site.grid
  BY ScheduledSite
<1> SUFFICES ASSUME release.newTemplate
             PROVE  FALSE
  OBVIOUS
<1> DEFINE new == Entry("NEW", 1, "new_template", FALSE)
<1>2. GridVariants[1] = "primary" /\ 1 \in 1 .. Len(GridVariants)
  BY <1>1, GridVariantsAre
<1>3. KeptEntries("G", 1) = GridEntries(1)
  BY <1>1, <1>2, KeptInContainer DEF Complete
<1>4. new \in GridEntries(1)
  BY <1>1 DEF GridEntries, PrimaryEntries
<1>5. 1 \in 1 .. counter[ModT("G")]
  <2>1. ModT("G") = "grid_module"
    BY DEF ModT, KindOf, ModuleTemplate
  <2> QED
    BY <1>1, <1>2, <2>1 DEF SiteInv
<1>6. PICK n : EntryDevice("G", 1, new, n) \in devices
  <2> HIDE DEF new
  <2> QED
    BY <1>1, <1>3, <1>4, <1>5, PlacedAreDevices DEF Boxes
<1>7. EntryDevice("G", 1, new, n).template = "new_template"
  BY EntryFields DEF Entry
<1>8. EntryDevice("G", 1, new, n).template \in Templates
  BY <1>1, <1>6 DEF SiteInv
<1> QED
  BY <1>7, <1>8, TemplatesApart

\* The grid groups number the containers G1..GM.
LEMMA GridGroupsAre ==
  ASSUME ManifestInv, ScheduleInv, stage \in Scheduled, Complete
  PROVE  /\ Adjacent("G", GridGroups)
         /\ \A n : n \in Numbers2(GridGroups) <=> n \in 1 .. site.grid
         /\ \A g \in GridGroups : \A no \in g.first .. g.last :
               \/ g.yaml = PrimaryBom /\ no = 1
               \/ g.yaml = FeederBom /\ no \in 2 .. site.grid
<1> DEFINE g1 == Group("G", 1, 1, PrimaryBom)
           g2 == Group("G", 2, site.grid, FeederBom)
<1>1. /\ site.grid \in Nat \ {0} /\ release.primary
      /\ \A g \in GridGroups : IsGroup(g)
  BY ScheduledSite, GroupsAre
<1>2. /\ g1.prefix = "G" /\ g1.first = 1 /\ g1.last = 1 /\ g1.yaml = PrimaryBom
      /\ g2.prefix = "G" /\ g2.first = 2 /\ g2.last = site.grid /\ g2.yaml = FeederBom
  BY DEF Group
<1>3. GridGroups = {g1} \cup {g \in {g2} : g.first <= g.last}
  BY <1>1 DEF GridGroups
<1> HIDE DEF g1, g2
<1>4. \/ site.grid = 1 /\ GridGroups = {g1}
      \/ site.grid >= 2 /\ GridGroups = {g1, g2} /\ g1.last + 1 = g2.first
  <2>1. CASE site.grid = 1
    <3>1. ~(g2.first <= g2.last)
      BY <1>2, <2>1
    <3> QED
      BY <1>3, <2>1, <3>1
  <2>2. CASE site.grid >= 2
    <3>1. g2.first <= g2.last /\ g1.last + 1 = g2.first
      BY <1>1, <1>2, <2>2
    <3> QED
      BY <1>3, <2>2, <3>1
  <2> QED
    BY <1>1, <2>1, <2>2
<1>5. Adjacent("G", GridGroups)
  <2>1. \A g \in GridGroups : IsGroup(g) /\ g.prefix = "G"
    BY <1>1, <1>2, <1>3
  <2> QED
    BY <1>4, <2>1 DEF Adjacent
<1>6. \A n : n \in Numbers2(GridGroups) <=> \E g \in GridGroups : n \in g.first .. g.last
  BY DEF Numbers2
<1>7. \A n : n \in Numbers2(GridGroups) <=> n \in 1 .. site.grid
  BY <1>1, <1>2, <1>4, <1>6
<1>8. ASSUME NEW g \in GridGroups, NEW no \in g.first .. g.last
      PROVE  \/ g.yaml = PrimaryBom /\ no = 1
             \/ g.yaml = FeederBom /\ no \in 2 .. site.grid
  <2>1. CASE g = g1
    BY <1>1, <1>2, <2>1
  <2>2. CASE g = g2
    BY <1>1, <1>2, <2>2
  <2> QED
    BY <1>3, <2>1, <2>2
<1> QED
  BY <1>5, <1>7, <1>8

\* A grid group lists what each of its containers keeps.
LEMMA GridLists ==
  ASSUME ManifestInv, ScheduleInv, stage \in Scheduled, Complete, NEW t, t # "cable_gland",
         NEW g \in GridGroups, NEW no \in g.first .. g.last
  PROVE  ListsTags(g.yaml, t, KeptTags("G", no, t)) /\ IsTagSet(KeptTags("G", no, t))
<1>1. /\ release \in Releases /\ SiteInv
      /\ site.grid \in Nat \ {0} /\ release.primary /\ Len(GridVariants) = site.grid
  BY ScheduledSite
<1>2. \/ g.yaml = PrimaryBom /\ no = 1
      \/ g.yaml = FeederBom /\ no \in 2 .. site.grid
  BY GridGroupsAre
<1>3. KeptEntries("G", no) = GridEntries(no)
  <2>0. no \in 1 .. site.grid
    BY <1>1, <1>2
  <2>1. no \in 1 .. Len(GridVariants) /\ GridVariants[no] \in {"primary", "feeder"}
    BY <1>1, <2>0, GridVariantsAre
  <2> QED
    BY <1>1, <2>1, KeptInContainer DEF Complete
<1>4. ASSUME NEW T \in Seq(Entries), EntriesIn(T) = GridEntries(no),
             \E plates : g.yaml = BomYaml(T, "cable_gland", plates)
      PROVE  ListsTags(g.yaml, t, KeptTags("G", no, t)) /\ IsTagSet(KeptTags("G", no, t))
  <2>1. IsTagSet(TagsOf(T, t)) /\ \A u : u \in TagsOf(T, t) <=>
           \E e \in GridEntries(no) : e.template = t /\ u = <<e.name, e.k>>
    BY <1>4, TagsAreFinite
  <2>2. KeptTags("G", no, t) = TagsOf(T, t)
    <3>1. \A u : u \in KeptTags("G", no, t) <=>
             \E e \in KeptEntries("G", no) : e.template = t /\ u = <<e.name, e.k>>
      BY KeptTagsAre
    <3> QED
      BY <1>3, <2>1, <3>1
  <2>3. ListsTags(g.yaml, t, TagsOf(T, t))
    BY <1>4, YamlLists
  <2> QED
    BY <2>1, <2>2, <2>3
<1>5. CASE g.yaml = PrimaryBom /\ no = 1
  <2>1. GridEntries(no) = PrimaryEntries(FALSE)
    BY <1>1, <1>5, NothingNew DEF GridEntries, Releases
  <2>2. \E plates : g.yaml = BomYaml(PrimaryTopology(FALSE), "cable_gland", plates)
    BY <1>5 DEF PrimaryBom
  <2> QED
    BY <1>4, <2>1, <2>2, GridEntriesAre
<1>6. CASE g.yaml = FeederBom /\ no \in 2 .. site.grid
  <2>1. GridEntries(no) = FeederEntries
    BY <1>6 DEF GridEntries
  <2>2. \E plates : g.yaml = BomYaml(FeederTopology, "cable_gland", plates)
    BY <1>6 DEF FeederBom
  <2> QED
    BY <1>4, <2>1, <2>2, GridEntriesAre
<1> QED
  BY <1>2, <1>5, <1>6

\* The tags the containers of a section are built with, of one template.
BuiltTags(box, t) ==
    UNION {{<<box, no, e.name, e.k>> : e \in {f \in KeptEntries(box, no) : f.template = t}} :
              no \in 1 .. CountIn(box)}

LEMMA BuiltTagsAre ==
  ASSUME NEW box, NEW t
  PROVE  \A x : x \in BuiltTags(box, t) <=>
            \E no \in 1 .. CountIn(box) : \E u \in KeptTags(box, no, t) : x = Tag(box, no, u[1], u[2])
<1>1. ASSUME NEW x \in BuiltTags(box, t)
      PROVE  \E no \in 1 .. CountIn(box) : \E u \in KeptTags(box, no, t) : x = Tag(box, no, u[1], u[2])
  <2>1. PICK no \in 1 .. CountIn(box) :
           x \in {<<box, no, e.name, e.k>> : e \in {f \in KeptEntries(box, no) : f.template = t}}
    BY DEF BuiltTags
  <2>2. PICK e \in KeptEntries(box, no) : e.template = t /\ x = <<box, no, e.name, e.k>>
    BY <2>1
  <2>3. <<e.name, e.k>> \in KeptTags(box, no, t)
    BY <2>2, KeptTagsAre
  <2>4. x = Tag(box, no, <<e.name, e.k>>[1], <<e.name, e.k>>[2])
    BY <2>2 DEF Tag
  <2> QED
    BY <2>3, <2>4
<1>2. ASSUME NEW no \in 1 .. CountIn(box), NEW u \in KeptTags(box, no, t)
      PROVE  Tag(box, no, u[1], u[2]) \in BuiltTags(box, t)
  <2>1. PICK e \in KeptEntries(box, no) : e.template = t /\ u = <<e.name, e.k>>
    BY KeptTagsAre
  <2>2. Tag(box, no, u[1], u[2]) = <<box, no, e.name, e.k>>
    BY <2>1 DEF Tag
  <2>3. <<box, no, e.name, e.k>>
          \in {<<box, no, f.name, f.k>> : f \in {f \in KeptEntries(box, no) : f.template = t}}
    BY <2>1
  <2> QED
    BY <2>2, <2>3 DEF BuiltTags
<1> QED
  BY <1>1, <1>2

\* A bom.yaml lists one set of tags of a template.
LEMMA ListedOnce ==
  ASSUME NEW y, NEW t, NEW E, NEW F, ListsTags(y, t, E), ListsTags(y, t, F)
  PROVE  E = F
BY DEF ListsTags

LEMMA SectionGroups ==
  ASSUME ManifestInv, ScheduleInv, stage \in Scheduled, Complete, NEW box \in Boxes
  PROVE  /\ Adjacent(box, GroupsOf(box))
         /\ \A n : n \in Numbers2(GroupsOf(box)) <=> n \in 1 .. CountIn(box)
<1>1. order \in Orders /\ site = Resolution(order)
  BY ScheduledSite
<1> QED
  BY <1>1, ComputeGroupsAre, GridGroupsAre DEF GroupsOf, CountIn, Boxes

LEMMA SectionLists ==
  ASSUME ManifestInv, ScheduleInv, stage \in Scheduled, Complete, NEW box \in Boxes,
         NEW t, t # "cable_gland", NEW g \in GroupsOf(box), NEW no \in g.first .. g.last
  PROVE  ListsTags(g.yaml, t, KeptTags(box, no, t)) /\ IsTagSet(KeptTags(box, no, t))
<1>1. /\ order \in Orders /\ release \in Releases /\ site = Resolution(order)
      /\ "compute" \in release.topology
  BY ScheduledSite DEF Complete
<1> QED
  BY <1>1, ComputeLists, GridLists DEF GroupsOf, Boxes

\* A section bills of a template the tags its containers are built with.
LEMMA SectionBills ==
  ASSUME ManifestInv, ScheduleInv, stage \in Scheduled, Complete, NEW box \in Boxes,
         NEW t, t # "cable_gland"
  PROVE  /\ WithPart(GroupsOf(box), t) # {} <=> BuiltTags(box, t) # {}
         /\ BuiltTags(box, t) # {} =>
               /\ PartQty(GroupsOf(box), t) = Cardinality(BuiltTags(box, t))
               /\ Covers(PartRef(GroupsOf(box), t)) = BuiltTags(box, t)
<1> DEFINE groups == GroupsOf(box)
           E == [g \in groups |-> KeptTags(box, g.first, t)]
<1>1. /\ Adjacent(box, groups)
      /\ \A n : n \in Numbers2(groups) <=> n \in 1 .. CountIn(box)
  BY SectionGroups
<1>2. ASSUME NEW g \in groups
      PROVE  /\ IsTagSet(E[g]) /\ ListsTags(g.yaml, t, E[g])
             /\ \A no \in g.first .. g.last : KeptTags(box, no, t) = E[g]
  <2>1. g.first \in g.first .. g.last
    BY <1>1 DEF Adjacent, IsGroup
  <2>2. IsTagSet(E[g]) /\ ListsTags(g.yaml, t, E[g])
    BY <2>1, SectionLists
  <2>3. ASSUME NEW no \in g.first .. g.last
        PROVE  KeptTags(box, no, t) = E[g]
    <3>1. ListsTags(g.yaml, t, KeptTags(box, no, t))
      BY SectionLists
    <3> HIDE DEF E
    <3> QED
      BY <2>2, <3>1, ListedOnce
  <2> QED
    BY <2>2, <2>3
<1> HIDE DEF groups, E
<1>3. AllList(groups, t, E)
  BY <1>2 DEF AllList
<1>4. Blocks(box, groups, E) = BuiltTags(box, t)
  <2>1. \A x : x \in Blocks(box, groups, E) <=> \E g \in groups : x \in Block(box, g, E[g])
    BY DEF Blocks
  <2>2. ASSUME NEW g \in groups
        PROVE  \A x : x \in Block(box, g, E[g]) <=>
                  \E n \in g.first .. g.last : \E u \in E[g] : x = Tag(box, n, u[1], u[2])
    <3> DEFINE N == g.first .. g.last
    <3>1. Block(box, g, E[g]) = Spread(box, N, E[g])
      BY DEF Block, Spread
    <3> HIDE DEF N
    <3>2. \A x : x \in Block(box, g, E[g]) <=>
                  \E n \in N : \E u \in E[g] : x = Tag(box, n, u[1], u[2])
      BY <3>1, SpreadIs
    <3> QED
      BY <3>2 DEF N
  <2>3. \A n : n \in 1 .. CountIn(box) <=> \E g \in groups : n \in g.first .. g.last
    BY <1>1 DEF Numbers2
  <2>4. \A x : x \in BuiltTags(box, t) <=>
            \E no \in 1 .. CountIn(box) : \E u \in KeptTags(box, no, t) : x = Tag(box, no, u[1], u[2])
    BY BuiltTagsAre
  <2>5. ASSUME NEW x \in Blocks(box, groups, E)
        PROVE  x \in BuiltTags(box, t)
    <3>1. PICK g \in groups : x \in Block(box, g, E[g])
      BY <2>1
    <3>2. PICK n \in g.first .. g.last : \E u \in E[g] : x = Tag(box, n, u[1], u[2])
      BY <2>2, <3>1
    <3>3. n \in 1 .. CountIn(box) /\ KeptTags(box, n, t) = E[g]
      BY <1>2, <2>3
    <3> QED
      BY <2>4, <3>2, <3>3
  <2>6. ASSUME NEW x \in BuiltTags(box, t)
        PROVE  x \in Blocks(box, groups, E)
    <3>1. PICK n \in 1 .. CountIn(box) : \E u \in KeptTags(box, n, t) : x = Tag(box, n, u[1], u[2])
      BY <2>4
    <3>2. PICK g \in groups : n \in g.first .. g.last
      BY <2>3
    <3>3. KeptTags(box, n, t) = E[g]
      BY <1>2, <3>2
    <3>4. x \in Block(box, g, E[g])
      BY <2>2, <3>1, <3>2, <3>3
    <3> QED
      BY <2>1, <3>4
  <2> QED
    BY <2>5, <2>6
<1>5. WithPart(groups, t) = {g \in groups : E[g] # {}}
  BY <1>1, <1>3, GroupsWith
<1>6. WithPart(groups, t) # {} <=> BuiltTags(box, t) # {}
  <2>1. ASSUME NEW g \in groups, E[g] # {}
        PROVE  BuiltTags(box, t) # {}
    <3>1. PICK u \in E[g] : TRUE
      BY <2>1
    <3>2. g.first \in g.first .. g.last
      BY <1>1 DEF Adjacent, IsGroup
    <3>3. Tag(box, g.first, u[1], u[2]) \in Block(box, g, E[g])
      BY <3>2 DEF Block
    <3>4. Tag(box, g.first, u[1], u[2]) \in BuiltTags(box, t)
      BY <1>4, <3>3 DEF Blocks
    <3> QED
      BY <3>4
  <2>2. ASSUME NEW x \in BuiltTags(box, t)
        PROVE  \E g \in groups : E[g] # {}
    <3>1. PICK g \in groups : x \in Block(box, g, E[g])
      BY <1>4 DEF Blocks
    <3> QED
      BY <3>1 DEF Block
  <2> QED
    BY <1>5, <2>1, <2>2
<1>7. ASSUME BuiltTags(box, t) # {}
      PROVE  /\ PartQty(groups, t) = Cardinality(BuiltTags(box, t))
             /\ Covers(PartRef(groups, t)) = BuiltTags(box, t)
  BY <1>1, <1>3, <1>4, <1>6, <1>7, PartBills
<1> QED
  BY <1>6, <1>7 DEF groups

-----------------------------------------------------------------------------
(***************************************************************************)
(* What is built, by its tags.                                             *)
(***************************************************************************)
ComputeLeaves == {"rack", "panelboard", "gpu_node", "gpu_node_h100", "cdu", "network_switch",
                  "mgmt_switch", "pdu", "dc_external"}
GridLeaves == LeafTemplates \ ComputeLeaves
LeavesIn(box) == IF box = "C" THEN ComputeLeaves ELSE GridLeaves

\* A template is of compute containers or of grid containers.
LEMMA KeptLeaves ==
  ASSUME ManifestInv, ScheduleInv, stage \in Scheduled, Complete, NEW box \in Boxes,
         NEW no \in 1 .. CountIn(box), NEW e \in KeptEntries(box, no)
  PROVE  e.template \in LeavesIn(box)
<1>1. /\ order \in Orders /\ release \in Releases /\ site = Resolution(order)
      /\ site.grid \in Nat \ {0} /\ Len(GridVariants) = site.grid
  BY ScheduledSite
<1>2. CASE box = "C"
  <2>1. e \in ComputeEntries(order.variant)
    BY <1>1, <1>2, KeptInContainer DEF Complete
  <2>2. e \in {Entry("RACK", 1, "rack", FALSE), Entry("PNL", 1, "panelboard", FALSE),
               Entry("CDU", 1, "cdu", TRUE), Entry("SW-DATA", 1, "network_switch", TRUE),
               Entry("SW-MGMT", 1, "mgmt_switch", FALSE), Entry("DC", 1, "dc_external", TRUE)}
        \/ \E n : \E name : \E t \in {NodeTemplate(order.variant), "pdu"} : e \in Many(n, name, t)
    BY <2>1 DEF ComputeEntries
  <2>3. e.template \in ComputeLeaves
    BY <2>2 DEF Entry, Many, ComputeLeaves, NodeTemplate
  <2> QED
    BY <1>2, <2>3 DEF LeavesIn
<1>3. CASE box = "G"
  <2>1. e \in GridEntries(no)
    <3>1. no \in 1 .. Len(GridVariants) /\ GridVariants[no] \in {"primary", "feeder"}
      BY <1>1, <1>3, GridVariantsAre DEF CountIn
    <3> QED
      BY <1>1, <1>3, <3>1, KeptInContainer DEF Complete
  <2>2. e.template \in {"switchgear", "protective_relay", "transformer", "lv_switchboard",
                        "grid_mgmt_switch", "poi_meter", "new_template"}
    BY <2>1 DEF GridEntries, PrimaryEntries, FeederEntries, Entry
  <2> QED
    BY <1>3, <2>2 DEF LeavesIn, GridLeaves, LeafTemplates, ComputeLeaves
<1> QED
  BY <1>2, <1>3 DEF Boxes

\* So no other container is built with it.
LEMMA BuiltInBox ==
  ASSUME ManifestInv, ScheduleInv, stage \in Scheduled, Complete, NEW box \in Boxes,
         NEW t, t \notin LeavesIn(box)
  PROVE  BuiltTags(box, t) = {}
<1> SUFFICES ASSUME NEW x \in BuiltTags(box, t)
             PROVE  FALSE
  OBVIOUS
<1>1. PICK no \in 1 .. CountIn(box) : \E e \in KeptEntries(box, no) : e.template = t
  BY DEF BuiltTags
<1> QED
  BY <1>1, KeptLeaves

LEMMA CountsInBoxes ==
  ASSUME ManifestInv, ScheduleInv, stage \in Scheduled, Complete, NEW box \in Boxes
  PROVE  counter[ModT(box)] = CountIn(box)
<1>1. SiteInv /\ Len(GridVariants) = site.grid
  BY ScheduledSite
<1>2. ModT("G") = "grid_module"
  BY DEF ModT, KindOf, ModuleTemplate
<1> QED
  BY <1>1, <1>2 DEF SiteInv, CountIn, Boxes

\* A device that is billed is one of a container, or a PCS.
LEMMA LeavesAre ==
  ASSUME ManifestInv, ScheduleInv, stage \in Scheduled, Complete, NEW d \in Leaves
  PROVE  \/ \E box \in Boxes : d.template \in LeavesIn(box) /\ d.tag \in BuiltTags(box, d.template)
         \/ d.template = "pcs" /\ \E n \in 1 .. Pcss : d = PadPcs(n)
<1>1. options \in Options /\ SiteInv /\ release \in Releases
  BY ScheduledSite
<1>2. Placed(d) /\ d.parent # None /\ d.template \notin {"bess_rack", "bess_catl"}
  BY <1>1, DevicesPlaced DEF Leaves
<1>3. CASE IsModule(d)
  BY <1>2, <1>3, ModuleFields DEF IsModule
<1>4. CASE IsEntry(d)
  <2>1. PICK box \in Boxes : \E no \in 1 .. counter[ModT(box)] :
           \E e \in KeptEntries(box, no) : \E n \in 1 .. counter[e.template] :
              d = EntryDevice(box, no, e, n)
    BY <1>4 DEF IsEntry
  <2>2. PICK no \in 1 .. CountIn(box) :
           \E e \in KeptEntries(box, no) : \E n \in 1 .. counter[e.template] :
              d = EntryDevice(box, no, e, n)
    BY <2>1, CountsInBoxes
  <2>3. PICK e \in KeptEntries(box, no) : \E n : d = EntryDevice(box, no, e, n)
    BY <2>2
  <2>4. d.tag = <<box, no, e.name, e.k>> /\ d.template = e.template
    BY <2>3, EntryFields
  <2>5. d.tag \in {<<box, no, f.name, f.k>> : f \in {f \in KeptEntries(box, no) : f.template = d.template}}
    BY <2>4
  <2>6. d.tag \in BuiltTags(box, d.template)
    BY <2>5 DEF BuiltTags
  <2>7. d.template \in LeavesIn(box)
    BY <2>4, KeptLeaves
  <2> QED
    BY <2>6, <2>7
<1>5. CASE d \in Pad
  <2>1. \/ d = PadModule
        \/ d = PadCatl
        \/ \E n \in 1 .. Racks : d = PadRack(n)
        \/ \E n \in 1 .. Pcss : d = PadPcs(n)
    BY <1>1, <1>5, PadIs
  <2> QED
    BY <1>2, <2>1, PadModuleFields, PadLeafFields
<1>6. CASE d = PadModule
  BY <1>2, <1>6, PadModuleFields
<1> QED
  BY <1>2, <1>3, <1>4, <1>5, <1>6 DEF Placed

\* The billed devices of a template are those its containers are built with.
LEMMA BuiltAre ==
  ASSUME ManifestInv, ScheduleInv, stage \in Scheduled, Complete, NEW box \in Boxes,
         NEW t \in LeavesIn(box)
  PROVE  {d.tag : d \in {e \in Leaves : e.template = t}} = BuiltTags(box, t)
<1>1. options \in Options /\ SiteInv /\ release \in Releases
  BY ScheduledSite
<1>2. LeavesIn("C") \cap LeavesIn("G") = {} /\ "pcs" \notin LeavesIn("C") \cup LeavesIn("G")
  BY DEF LeavesIn, ComputeLeaves, GridLeaves, LeafTemplates
<1>3. ASSUME NEW d \in Leaves, d.template = t
      PROVE  d.tag \in BuiltTags(box, t)
  BY <1>2, <1>3, LeavesAre DEF Boxes
<1>4. ASSUME NEW x \in BuiltTags(box, t)
      PROVE  \E d \in Leaves : d.template = t /\ d.tag = x
  <2>1. PICK no \in 1 .. CountIn(box) :
           x \in {<<box, no, e.name, e.k>> : e \in {f \in KeptEntries(box, no) : f.template = t}}
    BY DEF BuiltTags
  <2>2. PICK e \in KeptEntries(box, no) : e.template = t /\ x = <<box, no, e.name, e.k>>
    BY <2>1
  <2>3. PICK n : EntryDevice(box, no, e, n) \in devices
    BY <1>1, CountsInBoxes, PlacedAreDevices
  <2>4. /\ EntryDevice(box, no, e, n).tag = x /\ EntryDevice(box, no, e, n).template = t
        /\ EntryDevice(box, no, e, n).parent = <<ModT(box), no>>
    BY <2>2, EntryFields
  <2>5. <<ModT(box), no>> # None
    <3>1. <<ModT(box), no>> \in SlugNames \X Nat
      <4>1. no \in Nat
        BY <1>1, ScheduledSite DEF CountIn
      <4> QED
        BY <4>1, ModTIsIn
    <3> QED
      BY <3>1, NoneAssumption
  <2>6. t \notin {"bess_rack", "bess_catl"}
    BY DEF LeavesIn, ComputeLeaves, GridLeaves, LeafTemplates
  <2> QED
    BY <2>3, <2>4, <2>5, <2>6 DEF Leaves
<1> QED
  BY <1>3, <1>4

\* As many devices as tags.
LEMMA BuiltCount ==
  ASSUME ManifestInv, NEW S \in SUBSET devices
  PROVE  IsFiniteSet(S) /\ Cardinality({d.tag : d \in S}) = Cardinality(S)
<1>1. IsFiniteSet(devices) /\ TagsDiffer(devices)
  BY DevicesDiffer
<1>2. IsFiniteSet(S)
  BY <1>1, PartIsSmaller
<1> DEFINE f == [d \in S |-> d.tag]
           T == {d.tag : d \in S}
<1>3. T = {f[d] : d \in S} /\ DOMAIN f = S /\ \A d, e \in S : f[d] = f[e] => d = e
  BY <1>1 DEF TagsDiffer
<1> HIDE DEF f, T
<1>4. Cardinality(T) = Cardinality(S)
  BY <1>2, <1>3, ImageIsAsLarge
<1> QED
  BY <1>2, <1>4 DEF T

-----------------------------------------------------------------------------
(***************************************************************************)
(* The line of a part among the lines of the order.                        *)
(***************************************************************************)
SectionOf(box) == IF box = "C" THEN "compute" ELSE "grid"
ShellOf(box) == IF box = "C" THEN "shell_compute" ELSE "shell_grid"
SectionIn(box) == SectionLines(SectionOf(box), ShellOf(box), GroupsOf(box))
BoxLine(box, t) ==
    PartLine(SectionOf(box), t, PartQty(GroupsOf(box), t), PartRef(GroupsOf(box), t))
Plates == {"CD", "DLC", "CG", "MV"}

\* Where a line of the order comes from.
LEMMA LinesAreThose ==
  \A l : l \in Lines <=>
    \/ \E box \in Boxes : \E k \in SectionIn(box) : l = PanelNote(k)
    \/ l \in SiteLines \/ l \in PcsLines \/ l \in FieldLines
<1> DEFINE C == SectionLines("compute", "shell_compute", ComputeGroups)
           G == SectionLines("grid", "shell_grid", GridGroups)
<1>1. SectionIn("C") = C /\ SectionIn("G") = G
  BY DEF SectionIn, SectionOf, ShellOf, GroupsOf
<1>2. Lines = {PanelNote(line) : line \in C \cup G} \cup SiteLines \cup PcsLines \cup FieldLines
  BY DEF Lines
<1> HIDE DEF C, G
<1> QED
  BY <1>1, <1>2 DEF Boxes

\* The plates of a section, which are no equipment.
LEMMA PlatesAre ==
  ASSUME ManifestInv, ScheduleInv, stage \in Scheduled, Complete, NEW box \in Boxes
  PROVE  PlatesIn(GroupsOf(box)) \subseteq Plates
<1>1. order \in Orders /\ site = Resolution(order)
  BY ScheduledSite
<1>2. /\ \A p \in ComputeBom.plates : p.part \in Plates
      /\ \A p \in PrimaryBom.plates : p.part \in Plates
      /\ \A p \in FeederBom.plates : p.part \in Plates
  BY DEF ComputeBom, PrimaryBom, FeederBom, BomYaml, Plates
<1>3. \A drop : Without(ComputeBom, drop).plates = ComputeBom.plates
  BY YamlsAre, WithoutIs
<1>4. ASSUME NEW g \in GroupsOf(box)
      PROVE  \A p \in g.yaml.plates : p.part \in Plates
  <2>1. g.first \in g.first .. g.last
    BY SectionGroups DEF Adjacent, IsGroup
  <2>2. \/ \E drop : g.yaml \in {ComputeBom, Without(ComputeBom, drop)}
        \/ g.yaml \in {PrimaryBom, FeederBom}
    BY <1>1, <2>1, ComputeGroupsAre, GridGroupsAre DEF GroupsOf, Boxes
  <2> QED
    BY <1>2, <1>3, <2>2
<1> QED
  BY <1>4 DEF PlatesIn

\* A line of a section is its shell, a plate, or the one of its part.
LEMMA SectionParts ==
  ASSUME ManifestInv, ScheduleInv, stage \in Scheduled, Complete, NEW box \in Boxes
  PROVE  /\ \A l \in SectionIn(box) :
               \/ l.part \in Plates \cup {ShellOf(box)}
               \/ WithPart(GroupsOf(box), l.part) # {} /\ l = BoxLine(box, l.part)
         /\ \A t : WithPart(GroupsOf(box), t) # {} => BoxLine(box, t) \in SectionIn(box)
         /\ \A l \in SectionIn(box) : l.note = None
<1> DEFINE groups == GroupsOf(box)
           section == SectionOf(box)
           shell == ShellOf(box)
<1>1. groups # {}
  BY SectionGroups DEF Adjacent
<1>2. SectionIn(box) =
        {FabricatedLine(section, shell, ShellQty(groups), Span(groups))}
        \cup {BoxLine(box, part) : part \in PartsIn(groups)}
        \cup {FabricatedLine(section, part, PlateQty(groups, part), Span(Plated(groups, part))) :
                 part \in PlatesIn(groups)}
  BY <1>1, SectionIs DEF SectionIn, BoxLine
<1>3. \A part : part \in PartsIn(groups) <=> WithPart(groups, part) # {}
  BY DEF PartsIn, WithPart
<1>4. \A part, qty, ref : /\ FabricatedLine(section, part, qty, ref).part = part
                          /\ FabricatedLine(section, part, qty, ref).note = None
  BY DEF FabricatedLine, Line
<1>5. \A part : BoxLine(box, part).part = part /\ BoxLine(box, part).note = None
  BY DEF BoxLine, PartLine, Line
<1>6. PlatesIn(groups) \subseteq Plates
  BY PlatesAre
<1> HIDE DEF groups, section, shell
<1>7. ASSUME NEW l \in SectionIn(box)
      PROVE  /\ \/ l.part \in Plates \cup {shell}
                \/ WithPart(groups, l.part) # {} /\ l = BoxLine(box, l.part)
             /\ l.note = None
  <2>1. CASE l = FabricatedLine(section, shell, ShellQty(groups), Span(groups))
    BY <1>4, <2>1
  <2>2. CASE \E part \in PartsIn(groups) : l = BoxLine(box, part)
    BY <1>3, <1>5, <2>2
  <2>3. CASE \E part \in PlatesIn(groups) :
               l = FabricatedLine(section, part, PlateQty(groups, part), Span(Plated(groups, part)))
    BY <1>4, <1>6, <2>3
  <2> QED
    BY <1>2, <2>1, <2>2, <2>3
<1>8. ASSUME NEW t, WithPart(groups, t) # {}
      PROVE  BoxLine(box, t) \in SectionIn(box)
  BY <1>2, <1>3, <1>8
<1> QED
  BY <1>7, <1>8 DEF groups, shell

LEMMA SectionUnpriced ==
  ASSUME ManifestInv, ScheduleInv, stage \in Scheduled, Complete, NEW box \in Boxes,
         NEW l \in SectionIn(box)
  PROVE  IsUnpriced(l)
<1>1. order \in Orders /\ site = Resolution(order)
  BY ScheduledSite
<1>2. \A g \in GroupsOf(box) : IsGroup(g)
  BY SectionGroups DEF Adjacent
<1>3. IsFiniteSet(GroupsOf(box))
  BY <1>1, GroupsAre DEF GroupsOf
<1>4. SectionOf(box) \in {"compute", "grid", "site", "field"}
  BY DEF SectionOf
<1> QED
  BY <1>2, <1>3, <1>4, SectionLinesAre DEF SectionIn

\* No other line is one of a container's equipment.
LEMMA OtherParts ==
  ASSUME ManifestInv, ScheduleInv, stage \in Scheduled
  PROVE  /\ \A l \in SiteLines \cup FieldLines : l.part \notin LeafTemplates \cup {"pcs"} /\ l.note = None
         /\ \A l \in PcsLines : l.part = "pcs" /\ l.note = None
         /\ (Plates \cup {"shell_compute", "shell_grid"}) \cap (LeafTemplates \cup {"pcs"}) = {}
<1>1. \A l \in SiteLines :
         /\ l.part \in {"battery", "site_mv", "poi_ct_pt", "ems_host", "pump", "tank", "step_up",
                        "mv_disconnect"}
         /\ l.note = None
  BY DEF SiteLines, ByOthers, Line
<1>2. \A l \in PcsLines : l.part = "pcs" /\ l.note = None
  BY DEF PcsLines, PartLine, Line
<1>3. \A l \in FieldLines : l.part \in CableKinds \cup HoseKinds /\ l.note = None
  <2>1. \A r \in cables \cup hoses : r.kind \in CableKinds \cup HoseKinds
    BY ScheduleTyped
  <2>2. \A l \in FieldLines : \E r \in cables \cup hoses :
           l = Line("field", "field_supplied", r.kind, Cardinality(RunsOfKind(r.kind)), {})
    BY DEF FieldLines
  <2>3. \A l \in FieldLines : \E r \in cables \cup hoses : l.part = r.kind /\ l.note = None
    BY <2>2 DEF Line
  <2> QED
    BY <2>1, <2>3
<1>4. (CableKinds \cup HoseKinds \cup {"battery", "site_mv", "poi_ct_pt", "ems_host", "pump", "tank",
                                      "step_up", "mv_disconnect"}
        \cup Plates \cup {"shell_compute", "shell_grid"}) \cap (LeafTemplates \cup {"pcs"}) = {}
  BY DEF CableKinds, HoseKinds, Plates, LeafTemplates
<1> QED
  BY <1>1, <1>2, <1>3, <1>4

\* An equipment has one line, of as many as are built.
LEMMA LineOfPart ==
  ASSUME ManifestInv, ScheduleInv, stage \in Scheduled, Complete, NEW box \in Boxes,
         NEW t \in LeavesIn(box), BuiltTags(box, t) # {}
  PROVE  \E l \in Lines : /\ {k \in Lines : k.part = t} = {l}
                          /\ l.qty = Cardinality(BuiltTags(box, t))
                          /\ Covers(l.ref) = BuiltTags(box, t)
<1> DEFINE l == PanelNote(BoxLine(box, t))
<1>1. t \in LeafTemplates /\ t # "cable_gland" /\ t # "pcs" /\ t \notin LeavesIn("C") \cap LeavesIn("G")
  BY DEF LeavesIn, ComputeLeaves, GridLeaves, LeafTemplates
<1>2. /\ WithPart(GroupsOf(box), t) # {}
      /\ PartQty(GroupsOf(box), t) = Cardinality(BuiltTags(box, t))
      /\ Covers(PartRef(GroupsOf(box), t)) = BuiltTags(box, t)
  BY <1>1, SectionBills
<1>3. BoxLine(box, t) \in SectionIn(box)
  BY <1>2, SectionParts
<1>4. /\ l.part = t /\ l.qty = PartQty(GroupsOf(box), t) /\ l.ref = PartRef(GroupsOf(box), t)
  BY DEF PanelNote, BoxLine, PartLine, Line
<1>5. l \in Lines
  BY <1>3, LinesAreThose
<1>6. ASSUME NEW k \in Lines, k.part = t
      PROVE  k = l
  <2>1. k \notin SiteLines /\ k \notin FieldLines /\ k \notin PcsLines
    BY <1>1, <1>6, OtherParts
  <2>2. PICK b \in Boxes : \E m \in SectionIn(b) : k = PanelNote(m)
    BY <2>1, LinesAreThose
  <2>3. PICK m \in SectionIn(b) : k = PanelNote(m)
    BY <2>2
  <2>4. m.part = t
    <3>1. IsUnpriced(m)
      BY SectionUnpriced
    <3> QED
      BY <1>6, <2>3, <3>1, NoteKeeps DEF IsUnpriced
  <2>5. WithPart(GroupsOf(b), t) # {} /\ m = BoxLine(b, t)
    BY <1>1, <2>4, SectionParts, OtherParts DEF ShellOf
  <2>6. BuiltTags(b, t) # {}
    BY <1>1, <2>5, SectionBills
  <2>7. b = box
    BY <1>1, <2>6, BuiltInBox DEF Boxes
  <2> QED
    BY <2>3, <2>5, <2>7
<1> HIDE DEF l
<1> QED
  BY <1>2, <1>4, <1>5, <1>6

\* So have the PCS.
LEMMA LineOfPcs ==
  ASSUME ManifestInv, ScheduleInv, stage \in Scheduled, Complete, Pcss # 0
  PROVE  \E l \in Lines : /\ {k \in Lines : k.part = "pcs"} = {l}
                          /\ l.qty = options.pcs
                          /\ Covers(l.ref) = {PadPcs(n).tag : n \in 1 .. options.pcs}
<1> DEFINE l == PartLine("site", "pcs", options.pcs, {RangeOf("PCS", 1, options.pcs, Whole)})
<1>1. PcsLines = {l} /\ Pcss = options.pcs
  BY DEF PcsLines, Pcss
<1>2. l.part = "pcs" /\ l.qty = options.pcs /\ l.ref = {RangeOf("PCS", 1, options.pcs, Whole)}
  BY DEF PartLine, Line
<1>3. Covers(l.ref) = {PadPcs(n).tag : n \in 1 .. options.pcs}
  <2> DEFINE N == 1 .. options.pcs
  <2>1. Covers(l.ref) = Spread("PCS", N, Whole)
    <3>1. Covers({RangeOf("PCS", 1, options.pcs, Whole)}) = Spread("PCS", 1 .. options.pcs, Whole)
      BY RangeIs
    <3> HIDE DEF l
    <3> QED
      BY <1>2, <3>1
  <2>2. \A n : PadPcs(n).tag = Tag("PCS", n, Itself, 0)
    BY PadLeafFields DEF Tag
  <2> HIDE DEF N, l
  <2>3. \A x : x \in Covers(l.ref) <=> \E n \in N : x = Tag("PCS", n, Itself, 0)
    <3>1. \A x : x \in Covers(l.ref) <=> \E n \in N : \E u \in Whole : x = Tag("PCS", n, u[1], u[2])
      BY <2>1, SpreadIs
    <3> QED
      BY <3>1 DEF Whole
  <2>4. Covers(l.ref) = {PadPcs(n).tag : n \in N}
    BY <2>2, <2>3
  <2> QED
    BY <2>4 DEF N
<1> HIDE DEF l
<1>4. l \in Lines
  BY <1>1, LinesAreThose
<1>5. ASSUME NEW k \in Lines, k.part = "pcs"
      PROVE  k = l
  <2>1. k \notin SiteLines /\ k \notin FieldLines
    BY <1>5, OtherParts
  <2>2. CASE k \in PcsLines
    BY <1>1, <2>2
  <2>3. CASE \E b \in Boxes : \E m \in SectionIn(b) : k = PanelNote(m)
    <3>1. PICK b \in Boxes : \E m \in SectionIn(b) : k = PanelNote(m)
      BY <2>3
    <3>2. PICK m \in SectionIn(b) : k = PanelNote(m)
      BY <3>1
    <3>3. WithPart(GroupsOf(b), "pcs") = {}
      <4>1. "pcs" \notin LeavesIn(b)
        BY DEF LeavesIn, ComputeLeaves, GridLeaves, LeafTemplates
      <4>2. BuiltTags(b, "pcs") = {}
        BY <4>1, BuiltInBox
      <4> QED
        BY <4>2, SectionBills
    <3>4. m.part # "pcs"
      <4>1. ShellOf(b) \in {"shell_compute", "shell_grid"}
        BY DEF ShellOf
      <4> QED
        BY <3>3, <4>1, SectionParts, OtherParts
    <3>5. k.part = m.part
      <4>1. IsUnpriced(m)
        BY SectionUnpriced
      <4> QED
        BY <3>2, <4>1, NoteKeeps DEF IsUnpriced
    <3> QED
      BY <1>5, <3>4, <3>5
  <2> QED
    BY <2>1, <2>2, <2>3, LinesAreThose
<1> QED
  BY <1>2, <1>3, <1>4, <1>5

-----------------------------------------------------------------------------
(***************************************************************************)
(* The lines of the BOM are the lines of the order, priced: each once.     *)
(***************************************************************************)
Bills(priced, lines) ==
    /\ \A m \in priced : \E l \in lines : Reprices(m, l)
    /\ \A l \in lines : \E m \in priced : Reprices(m, l)
    /\ \A m \in priced : \A n \in priced : Reprices(m, n) => m = n
BillInv == stage \in Billed => Bills(bom.lines, Lines)

\* The schedule and the order are what the lines are derived from.
LEMMA SameLines ==
  ASSUME UNCHANGED <<order, site, options, release, cables, hoses>>
  PROVE  Lines' = Lines
<1>1. Partial' = Partial /\ FullContainers' = FullContainers
  BY DEF Partial, FullContainers
<1>2. /\ ComputeBom' = ComputeBom /\ PrimaryBom' = PrimaryBom /\ FeederBom' = FeederBom
  BY DEF ComputeBom, PrimaryBom, FeederBom
<1>3. ComputeGroups' = ComputeGroups /\ GridGroups' = GridGroups
  BY <1>1, <1>2 DEF ComputeGroups, GridGroups
<1>4. \A section, shell, groups : SectionLines(section, shell, groups)' = SectionLines(section, shell, groups)
  BY DEF SectionLines
<1>5. \A l : PanelNote(l)' = PanelNote(l)
  BY <1>1 DEF PanelNote
<1>6. SiteLines' = SiteLines /\ PcsLines' = PcsLines
  BY DEF SiteLines, PcsLines
<1>7. FieldLines' = FieldLines
  BY DEF FieldLines, RunsOfKind
<1> QED
  BY <1>3, <1>4, <1>5, <1>6, <1>7 DEF Lines

\* A line not yet priced is told by its other fields.
LEMMA BlankOnce ==
  ASSUME NEW l, IsUnpriced(l), NEW k, IsUnpriced(k), Reprices(l, k)
  PROVE  l = k
BY DEF IsUnpriced, Blank, Reprices

\* book_price leaves each line once.
LEMMA BookBills ==
  ASSUME ManifestInv, ScheduleInv, stage = "bom", BomInv, ~NoBreak,
         NEW priced, priced = {BookPrice(Lines, line) : line \in Lines}
  PROVE  Bills(priced, Lines)
<1>1. \A l \in Lines : IsUnpriced(l)
  BY LinesAre DEF Scheduled
<1>2. ASSUME NEW l \in Lines
      PROVE  Reprices(BookPrice(Lines, l), l)
  <2>1. Listed(l) => BreaksReached(l.part, PriceQty(Lines, l)) # {}
    BY DEF NoBreak
  <2> QED
    BY <1>1, <2>1, BookPriceIs DEF BomInv
<1>3. ASSUME NEW m \in priced, NEW n \in priced, Reprices(m, n)
      PROVE  m = n
  <2>1. PICK l \in Lines : m = BookPrice(Lines, l)
    OBVIOUS
  <2>2. PICK k \in Lines : n = BookPrice(Lines, k)
    OBVIOUS
  <2>3. Reprices(l, k)
    BY <1>2, <1>3, <2>1, <2>2 DEF Reprices
  <2> QED
    BY <1>1, <2>1, <2>2, <2>3, BlankOnce
<1> QED
  BY <1>2, <1>3 DEF Bills

\* live_price leaves each line once.
LEMMA OffersBill ==
  ASSUME IsBom(bom), AreOffers(market), Bills(bom.lines, Lines),
         NEW priced, priced = {LivePrice(line) : line \in bom.lines}
  PROVE  Bills(priced, Lines)
<1>1. ASSUME NEW l \in bom.lines
      PROVE  Reprices(LivePrice(l), l)
  BY LivePriceIs DEF IsBom
<1>2. ASSUME NEW m \in priced, NEW n \in priced, Reprices(m, n)
      PROVE  m = n
  <2>1. PICK l \in bom.lines : m = LivePrice(l)
    OBVIOUS
  <2>2. PICK k \in bom.lines : n = LivePrice(k)
    OBVIOUS
  <2>3. Reprices(l, k)
    BY <1>1, <1>2, <2>1, <2>2 DEF Reprices
  <2> QED
    BY <2>1, <2>2, <2>3 DEF Bills
<1>3. ASSUME NEW m \in priced
      PROVE  \E l \in Lines : Reprices(m, l)
  <2>1. PICK k \in bom.lines : m = LivePrice(k)
    OBVIOUS
  <2>2. PICK l \in Lines : Reprices(k, l)
    BY DEF Bills
  <2> QED
    BY <1>1, <2>1, <2>2 DEF Reprices
<1>4. ASSUME NEW l \in Lines
      PROVE  \E m \in priced : Reprices(m, l)
  <2>1. PICK k \in bom.lines : Reprices(k, l)
    BY DEF Bills
  <2>2. LivePrice(k) \in priced
    OBVIOUS
  <2> QED
    BY <1>1, <2>1, <2>2 DEF Reprices
<1> QED
  BY <1>2, <1>3, <1>4 DEF Bills

LEMMA StepBill == ManifestInv /\ ScheduleInv /\ BomInv /\ BillInv /\ [PkgNext]_pkgVars => BillInv'
<1> SUFFICES ASSUME ManifestInv, ScheduleInv, BomInv, BillInv, [PkgNext]_pkgVars
             PROVE  BillInv'
  OBVIOUS
<1>0. ASSUME UNCHANGED bom, UNCHANGED <<order, site, options, release, cables, hoses>>,
             stage' \in Billed => stage \in Billed
      PROVE  BillInv'
  BY <1>0, SameLines DEF BillInv
<1>1. CASE Generate
  BY <1>1 DEF Generate, Take, EmitCompute, EmitGrid, EmitSite, ContainersOut, GenerateFails, Billed, BillInv
<1>2. CASE Schedule \/ ScheduleFails
  BY <1>2 DEF Schedule, ScheduleFails, Billed, BillInv
<1>3. CASE GenerateBom
  <2>1. /\ stage = "bom" /\ ~NoBreak /\ UNCHANGED <<order, site, options, release, cables, hoses>>
        /\ bom' = [lines |-> {BookPrice(Lines, line) : line \in Lines},
                   budget |-> OrderBudget({BookPrice(Lines, line) : line \in Lines})]
    BY <1>3 DEF GenerateBom
  <2>2. Bills(bom'.lines, Lines)
    BY <2>1, BookBills
  <2>3. Lines' = Lines
    BY <2>1, SameLines
  <2> QED
    BY <2>2, <2>3 DEF BillInv
<1>4. CASE BomFails
  BY <1>4 DEF BomFails, Billed, BillInv
<1>5. CASE AttachOffers
  <2>1. /\ stage = "offers" /\ IsBom(bom) /\ Bills(bom.lines, Lines)
        /\ UNCHANGED <<order, site, options, release, cables, hoses>>
    BY <1>5 DEF AttachOffers, BomInv, BillInv, Billed
  <2>2. CASE market = None
    BY <1>0, <1>5, <2>1, <2>2 DEF AttachOffers, Billed
  <2>3. CASE market # None
    <3>1. bom' = [lines |-> {LivePrice(line) : line \in bom.lines},
                  budget |-> OrderBudget({LivePrice(line) : line \in bom.lines})]
      BY <1>5, <2>3 DEF AttachOffers
    <3>2. Bills(bom'.lines, Lines)
      BY <2>1, <2>3, <3>1, OffersBill DEF BomInv
    <3>3. Lines' = Lines
      BY <2>1, SameLines
    <3> QED
      BY <3>2, <3>3 DEF BillInv
  <2> QED
    BY <2>2, <2>3
<1>6. CASE DrawSheets
  BY <1>0, <1>6 DEF DrawSheets, Billed
<1>7. CASE UNCHANGED pkgVars
  BY <1>0, <1>7 DEF pkgVars
<1> QED
  BY <1>1, <1>2, <1>3, <1>4, <1>5, <1>6, <1>7 DEF PkgNext

LEMMA InitBill == PkgInit => BillInv
BY DEF PkgInit, DtmInit, BillInv, Billed

-----------------------------------------------------------------------------
(***************************************************************************)
(* The note to the panel builder against the PDUs of the last container.   *)
(***************************************************************************)
Sided(a, b) == {<<s, i>> : s \in Sides, i \in a .. b}
LastPdus == {d \in devices : d.template = "pdu" /\ d.tag[2] = site.compute}
DroppedPdus == {t \in DroppedTags(Held(site.compute)) : t[1] # "NODE"}

LEMMA SidedCount ==
  ASSUME NEW a \in Nat, NEW b \in Nat, a <= b + 1
  PROVE  IsFiniteSet(Sided(a, b)) /\ Cardinality(Sided(a, b)) = 2 * (b + 1 - a)
<1> DEFINE N == a .. b
<1>1. IsFiniteSet(N) /\ Cardinality(N) = b + 1 - a
  <2>1. a \in Int /\ b \in Int
    OBVIOUS
  <2> HIDE DEF N
  <2>2. /\ IsFiniteSet(a .. b)
        /\ Cardinality(a .. b) = IF a > b THEN 0 ELSE b - a + 1
    BY <2>1, FS_Interval
  <2> QED
    BY <2>1, <2>2 DEF N
<1>2. IsFiniteSet(Sides) /\ Cardinality(Sides) = 2
  <2> DEFINE f == [i \in 1 .. 2 |-> IF i = 1 THEN "PDU-A" ELSE "PDU-B"]
  <2>1. /\ DOMAIN f = 1 .. 2 /\ Sides = {f[i] : i \in 1 .. 2}
        /\ \A i, j \in 1 .. 2 : f[i] = f[j] => i = j
    BY DEF Sides
  <2> HIDE DEF f
  <2> QED
    BY <2>1, ListIsAsLong
<1>3. Sided(a, b) = Sides \X N
  BY DEF Sided
<1> HIDE DEF N
<1>4. IsFiniteSet(Sides \X N) /\ Cardinality(Sides \X N) = Cardinality(Sides) * Cardinality(N)
  BY <1>1, <1>2, FS_Product
<1> QED
  BY <1>1, <1>2, <1>3, <1>4

\* The PDUs of the last container are 1..p on each side.
LEMMA LastPduTags ==
  ASSUME ManifestInv, ScheduleInv, stage \in Scheduled, Complete
  PROVE  \A x : x \in {d.tag : d \in LastPdus} <=>
            \E s \in Sides : \E i \in 1 .. PdusPerSide(Held(site.compute)) :
               x = <<"C", site.compute, s, i>>
<1> DEFINE c == site.compute
           p == PdusPerSide(Held(c))
<1>1. /\ order \in Orders /\ release \in Releases /\ options \in Options
      /\ site = Resolution(order) /\ SiteInv /\ c \in Nat \ {0}
  BY ScheduledSite
<1>2. KeptEntries("C", c) = ComputeKept(c)
  BY <1>1, ComputeKeptIs DEF Complete
<1>3. counter[ModT("C")] = c /\ "C" \in Boxes /\ c \in 1 .. c
  BY <1>1 DEF SiteInv, Boxes
<1> HIDE DEF c, p
<1>4. ASSUME NEW d \in LastPdus
      PROVE  \E s \in Sides : \E i \in 1 .. p : d.tag = <<"C", c, s, i>>
  <2>1. Placed(d) /\ d.template = "pdu" /\ d.tag[2] = c
    BY <1>1, DevicesPlaced DEF LastPdus, c
  <2>2. IsEntry(d)
    <3>1. ~IsModule(d)
      <4>1. \A box \in Boxes : ModT(box) # "pdu"
        BY ModTIsIn DEF ContainerTemplates, ComputeModules
      <4> QED
        BY <2>1, <4>1, ModuleFields DEF IsModule
    <3>2. d # PadModule
      BY <2>1, PadModuleFields
    <3>3. d \notin Pad
      <4>1. ASSUME d \in Pad
            PROVE  FALSE
        <5>1. \/ d = PadModule
              \/ d = PadCatl
              \/ \E n \in 1 .. Racks : d = PadRack(n)
              \/ \E n \in 1 .. Pcss : d = PadPcs(n)
          BY <1>1, <4>1, PadIs
        <5> QED
          BY <2>1, <3>2, <5>1, PadLeafFields
      <4> QED
        BY <4>1
    <3>4. d.template \notin UtilityTemplates
      BY <2>1 DEF UtilityTemplates
    <3> QED
      BY <2>1, <3>1, <3>2, <3>3, <3>4 DEF Placed
  <2>3. PICK box \in Boxes : \E no \in 1 .. counter[ModT(box)] :
           \E e \in KeptEntries(box, no) : \E n \in 1 .. counter[e.template] :
              d = EntryDevice(box, no, e, n)
    BY <2>2 DEF IsEntry
  <2>4. PICK no \in 1 .. CountIn(box) :
           \E e \in KeptEntries(box, no) : \E n \in 1 .. counter[e.template] :
              d = EntryDevice(box, no, e, n)
    BY <2>3, CountsInBoxes
  <2>5. PICK e \in KeptEntries(box, no) : \E n : d = EntryDevice(box, no, e, n)
    BY <2>4
  <2>6. d.tag = <<box, no, e.name, e.k>> /\ e.template = "pdu"
    BY <2>1, <2>5, EntryFields
  <2>7. box = "C"
    <3>1. "pdu" \notin LeavesIn("G")
      BY DEF LeavesIn, GridLeaves, ComputeLeaves
    <3> QED
      BY <2>6, <3>1, KeptLeaves DEF Boxes
  <2>8. no = c
    BY <2>1, <2>6
  <2>9. IsPdu(c, e)
    BY <1>2, <2>6, <2>7, <2>8, SinglesAre
  <2>10. PICK s \in Sides : \E i \in 1 .. p : e = PduE(s, i)
    BY <2>9 DEF IsPdu, p
  <2>11. PICK i \in 1 .. p : e = PduE(s, i)
    BY <2>10
  <2>12. e.name = s /\ e.k = i
    BY <2>11 DEF PduE, Entry
  <2> QED
    BY <2>6, <2>7, <2>8, <2>12
<1>5. ASSUME NEW s \in Sides, NEW i \in 1 .. p
      PROVE  \E d \in LastPdus : d.tag = <<"C", c, s, i>>
  <2> DEFINE e == PduE(s, i)
  <2>1. e \in KeptEntries("C", c)
    <3>1. e \in Many(p, s, "pdu")
      BY DEF Many, PduE
    <3> QED
      BY <1>2, <3>1 DEF ComputeKept, Sides, p
  <2>2. e.name = s /\ e.k = i /\ e.template = "pdu"
    BY DEF PduE, Entry
  <2> HIDE DEF e
  <2>3. PICK n : EntryDevice("C", c, e, n) \in devices
    BY <1>1, <1>3, <2>1, PlacedAreDevices
  <2>4. /\ EntryDevice("C", c, e, n).tag = <<"C", c, s, i>>
        /\ EntryDevice("C", c, e, n).template = "pdu"
    BY <2>2, EntryFields
  <2> QED
    BY <2>3, <2>4 DEF LastPdus, c
<1>6. \A x : x \in {d.tag : d \in LastPdus} <=>
         \E s \in Sides : \E i \in 1 .. p : x = <<"C", c, s, i>>
  <2>1. ASSUME NEW x, NEW d \in LastPdus, x = d.tag
        PROVE  \E s \in Sides : \E i \in 1 .. p : x = <<"C", c, s, i>>
    BY <1>4, <2>1
  <2>2. ASSUME NEW x, NEW s \in Sides, NEW i \in 1 .. p, x = <<"C", c, s, i>>
        PROVE  x \in {d.tag : d \in LastPdus}
    BY <1>5, <2>2
  <2> QED
    BY <2>1, <2>2
<1> QED
  BY <1>6 DEF c, p

\* They are as many as the note counts.
LEMMA LastPdusAre ==
  ASSUME ManifestInv, ScheduleInv, stage \in Scheduled, Complete
  PROVE  Cardinality(LastPdus) = 2 * PdusPerSide(NODES_PER_COMPUTE_CONTAINER) - Cardinality(DroppedPdus)
<1> DEFINE c == site.compute
           p == PdusPerSide(Held(c))
           T == {d.tag : d \in LastPdus}
           S == Sided(1, p)
           f == [x \in S |-> <<"C", c, x[1], x[2]>>]
<1>1. order \in Orders /\ site = Resolution(order) /\ c \in Nat \ {0}
  BY ScheduledSite
<1>2. p \in 1 .. 3
  <2>1. c \in 1 .. site.compute
    BY <1>1
  <2> QED
    BY <1>1, <2>1, HeldIs
<1>3. PdusPerSide(NODES_PER_COMPUTE_CONTAINER) = 3
  BY DEF PdusPerSide, CeilDiv, NODES_PER_COMPUTE_CONTAINER, NODES_PER_PDU
<1>4. DroppedPdus = Sided(p + 1, 3)
  BY <1>3 DEF DroppedPdus, DroppedTags, Sided, Sides
<1>5. IsFiniteSet(S) /\ Cardinality(S) = 2 * p
  <2> HIDE DEF p
  <2>1. 1 \in Nat /\ p \in Nat /\ 1 <= p + 1
    BY <1>2
  <2>2. IsFiniteSet(Sided(1, p)) /\ Cardinality(Sided(1, p)) = 2 * (p + 1 - 1)
    BY <2>1, SidedCount
  <2> QED
    BY <2>1, <2>2
<1>6. Cardinality(Sided(p + 1, 3)) = 2 * (3 - p)
  <2> HIDE DEF p
  <2>1. p + 1 \in Nat /\ 3 \in Nat /\ p + 1 <= 3 + 1
    BY <1>2
  <2>2. Cardinality(Sided(p + 1, 3)) = 2 * (3 + 1 - (p + 1))
    BY <2>1, SidedCount
  <2> QED
    BY <1>2, <2>2
<1>7. /\ DOMAIN f = S
      /\ \A s \in Sides : \A i \in 1 .. p : <<s, i>> \in S /\ f[<<s, i>>] = <<"C", c, s, i>>
      /\ \A x \in S : x[1] \in Sides /\ x[2] \in 1 .. p /\ f[x] = <<"C", c, x[1], x[2]>>
      /\ \A x, y \in S : f[x] = f[y] => x = y
  <2> HIDE DEF p, c
  <2> QED
    BY DEF Sided
<1>8. \A x : x \in T <=> \E s \in Sides : \E i \in 1 .. p : x = <<"C", c, s, i>>
  BY LastPduTags
<1>9. LastPdus \in SUBSET devices
  BY DEF LastPdus
<1>10. Cardinality(T) = Cardinality(LastPdus)
  BY <1>9, BuiltCount
<1> HIDE DEF T, S, f, p, c
<1>11. T = {f[x] : x \in S}
  <2>1. ASSUME NEW x \in T
        PROVE  x \in {f[y] : y \in S}
    <3>1. PICK s \in Sides : \E i \in 1 .. p : x = <<"C", c, s, i>>
      BY <1>8
    <3>2. PICK i \in 1 .. p : x = <<"C", c, s, i>>
      BY <3>1
    <3>3. <<s, i>> \in S /\ f[<<s, i>>] = x
      BY <1>7, <3>2
    <3> QED
      BY <3>3
  <2>2. ASSUME NEW y \in S
        PROVE  f[y] \in T
    <3>1. y[1] \in Sides /\ y[2] \in 1 .. p /\ f[y] = <<"C", c, y[1], y[2]>>
      BY <1>7
    <3> QED
      BY <1>8, <3>1
  <2> QED
    BY <2>1, <2>2
<1>12. Cardinality(T) = Cardinality(S)
  BY <1>5, <1>7, <1>11, ImageIsAsLarge
<1> QED
  BY <1>2, <1>3, <1>4, <1>5, <1>6, <1>10, <1>12

\* A line has a note for the last container only, which is then partial.
LEMMA NotesAre ==
  ASSUME ManifestInv, ScheduleInv, stage \in Scheduled, Complete, NEW l \in Lines, l.note # None
  PROVE  /\ Partial /\ l.note.container = site.compute /\ l.note.servers = Held(site.compute)
         /\ l.note.pdus = Cardinality(LastPdus)
<1>1. l \notin SiteLines /\ l \notin FieldLines /\ l \notin PcsLines
  BY OtherParts
<1>2. PICK box \in Boxes : \E k \in SectionIn(box) : l = PanelNote(k)
  BY <1>1, LinesAreThose
<1>3. PICK k \in SectionIn(box) : l = PanelNote(k)
  BY <1>2
<1>4. k.note = None /\ DOMAIN k = Fields
  BY SectionParts, SectionUnpriced DEF IsUnpriced, IsLine
<1>5. Partial /\ k.part = "panelboard"
  BY <1>3, <1>4 DEF PanelNote
<1>6. l.note = [container |-> site.compute, servers |-> Held(site.compute),
                pdus |-> 2 * PdusPerSide(NODES_PER_COMPUTE_CONTAINER) - Cardinality(DroppedPdus)]
  BY <1>3, <1>4, <1>5 DEF PanelNote, Fields, Held, DroppedPdus
<1> QED
  BY <1>5, <1>6, LastPdusAre

-----------------------------------------------------------------------------
(***************************************************************************)
(* What is billed is what is built.                                        *)
(***************************************************************************)
LEMMA BillsHold == PkgSpec => []BillInv
<1>1. PackageInv /\ BillInv /\ [PkgNext]_pkgVars => BillInv'
  BY StepBill DEF PackageInv
<1> QED
  BY <1>1, InitBill, PackageHolds, PTL DEF PkgSpec

\* A part that has one line before it is priced has one line after.
LEMMA BilledOnce ==
  ASSUME ManifestInv, ScheduleInv, BomInv, BillInv, stage \in Billed,
         NEW t, NEW l \in Lines, {k \in Lines : k.part = t} = {l}
  PROVE  /\ QtyOf({m \in bom.lines : m.part = t}) = l.qty
         /\ UNION {Covers(m.ref) : m \in {m \in bom.lines : m.part = t}} = Covers(l.ref)
<1>1. Bills(bom.lines, Lines) /\ IsBom(bom)
  BY DEF BillInv, BomInv
<1>2. PICK m \in bom.lines : Reprices(m, l)
  BY <1>1 DEF Bills
<1>3. l.part = t
  OBVIOUS
<1>4. m.part = t /\ m.qty = l.qty /\ m.ref = l.ref
  BY <1>2, <1>3 DEF Reprices
<1>5. ASSUME NEW n \in bom.lines, n.part = t
      PROVE  n = m
  <2>1. PICK k \in Lines : Reprices(n, k)
    BY <1>1 DEF Bills
  <2>2. k = l
    BY <1>5, <2>1 DEF Reprices
  <2>3. Reprices(n, m)
    BY <1>2, <2>1, <2>2 DEF Reprices
  <2> QED
    BY <1>1, <2>3 DEF Bills
<1>6. {n \in bom.lines : n.part = t} = {m}
  BY <1>4, <1>5
<1>7. QtyOf({m}) = l.qty
  <2> DEFINE f == [line \in {m} |-> line.qty]
  <2>1. m.qty \in Nat
    BY <1>1 DEF IsBom, IsPriced, IsLine
  <2>2. DOMAIN f = {m} /\ f[m] = m.qty
    OBVIOUS
  <2> HIDE DEF f
  <2>3. SumFunction(f) = m.qty
    BY <2>1, <2>2, SumOfOne
  <2> QED
    BY <1>4, <2>3 DEF f, QtyOf
<1>8. UNION {Covers(n.ref) : n \in {m}} = Covers(l.ref)
  BY <1>4
<1> QED
  BY <1>6, <1>7, <1>8

BuiltOf(t) == {d \in Leaves : d.template = t}
BilledOf(t) == {line \in bom.lines : line.part = t}

\* What is billed of a container's equipment is what is built.
LEMMA BilledInBox ==
  ASSUME ManifestInv, ScheduleInv, BomInv, BillInv, stage \in Scheduled \cap Billed, Complete,
         NEW box \in Boxes, NEW t \in LeavesIn(box), BuiltTags(box, t) # {}
  PROVE  /\ QtyOf(BilledOf(t)) = Cardinality(BuiltOf(t))
         /\ UNION {Covers(line.ref) : line \in BilledOf(t)} = {d.tag : d \in BuiltOf(t)}
<1>1. PICK l \in Lines : /\ {k \in Lines : k.part = t} = {l}
                         /\ l.qty = Cardinality(BuiltTags(box, t))
                         /\ Covers(l.ref) = BuiltTags(box, t)
  BY LineOfPart
<1>2. /\ QtyOf(BilledOf(t)) = l.qty
      /\ UNION {Covers(m.ref) : m \in BilledOf(t)} = Covers(l.ref)
  BY <1>1, BilledOnce DEF BilledOf
<1>3. {d.tag : d \in BuiltOf(t)} = BuiltTags(box, t)
  BY BuiltAre DEF BuiltOf
<1>4. Cardinality({d.tag : d \in BuiltOf(t)}) = Cardinality(BuiltOf(t))
  <2>1. BuiltOf(t) \in SUBSET devices
    BY DEF BuiltOf, Leaves
  <2> QED
    BY <2>1, BuiltCount
<1> QED
  BY <1>1, <1>2, <1>3, <1>4

\* So it is for the PCS.
LEMMA BilledPcs ==
  ASSUME ManifestInv, ScheduleInv, BomInv, BillInv, stage \in Scheduled \cap Billed, Complete,
         Pcss # 0
  PROVE  /\ QtyOf(BilledOf("pcs")) = Cardinality(BuiltOf("pcs"))
         /\ UNION {Covers(line.ref) : line \in BilledOf("pcs")} = {d.tag : d \in BuiltOf("pcs")}
<1> DEFINE N == 1 .. options.pcs
           T == {PadPcs(n).tag : n \in N}
           f == [n \in N |-> PadPcs(n).tag]
<1>1. options \in Options /\ SiteInv /\ Pcss = options.pcs /\ options.pcs \in Nat
  <2>1. options \in Options /\ SiteInv
    BY ScheduledSite
  <2> QED
    BY <2>1 DEF Pcss, Options
<1>2. PICK l \in Lines : /\ {k \in Lines : k.part = "pcs"} = {l}
                         /\ l.qty = options.pcs /\ Covers(l.ref) = T
  BY LineOfPcs
<1>3. /\ QtyOf(BilledOf("pcs")) = l.qty
      /\ UNION {Covers(m.ref) : m \in BilledOf("pcs")} = Covers(l.ref)
  BY <1>2, BilledOnce DEF BilledOf
<1>4. /\ DOMAIN f = N /\ T = {f[n] : n \in N}
      /\ \A i, j \in N : f[i] = f[j] => i = j
  <2>1. \A n : PadPcs(n).tag = <<"PCS", n, Itself, 0>>
    BY PadLeafFields
  <2>2. \A n \in N : f[n] = <<"PCS", n, Itself, 0>>
    BY <2>1
  <2>3. DOMAIN f = N /\ T = {f[n] : n \in N}
    OBVIOUS
  <2> HIDE DEF f, N, T
  <2> QED
    BY <2>2, <2>3
<1> HIDE DEF T, f
<1>5. Cardinality(T) = options.pcs
  BY <1>1, <1>4, ListIsAsLong
<1>6. {d.tag : d \in BuiltOf("pcs")} = T
  <2>1. ASSUME NEW d \in BuiltOf("pcs")
        PROVE  d.tag \in T
    <3>1. d \in Leaves /\ d.template = "pcs" /\ "pcs" \notin LeavesIn("C") \cup LeavesIn("G")
      BY DEF BuiltOf, LeavesIn, ComputeLeaves, GridLeaves, LeafTemplates
    <3>2. PICK n \in 1 .. Pcss : d = PadPcs(n)
      BY <3>1, LeavesAre DEF Boxes
    <3> QED
      BY <1>1, <3>2 DEF T
  <2>2. ASSUME NEW n \in N
        PROVE  PadPcs(n) \in BuiltOf("pcs")
    <3>1. PadPcs(n) \in Pad
      BY <1>1, PadIs
    <3>2. PadPcs(n) \in devices
      BY <1>1, <3>1 DEF SiteInv
    <3>3. PadModule.id # None
      BY PadModuleFields, NoneAssumption
    <3> QED
      BY <3>2, <3>3, PadLeafFields DEF BuiltOf, Leaves
  <2> HIDE DEF N
  <2> QED
    BY <2>1, <2>2 DEF T
<1>7. Cardinality({d.tag : d \in BuiltOf("pcs")}) = Cardinality(BuiltOf("pcs"))
  <2>1. BuiltOf("pcs") \in SUBSET devices
    BY DEF BuiltOf, Leaves
  <2> QED
    BY <2>1, BuiltCount
<1> QED
  BY <1>2, <1>3, <1>5, <1>6, <1>7

\* What is billed is what is built, for orders of any size and any price
\* list: each equipment's quantity and reference designators are the devices
\* of the manifest, however the servers leave the last container, and the
\* note to the panel builder counts its PDUs (container_groups, ref_des and
\* with_partial_panel_note against emit_container).
THEOREM BomNamesWhatIsBuilt == PkgSpec => []BomNamesTheDevices
<1>1. PackageInv /\ BillInv => BomNamesTheDevices
  <2> SUFFICES ASSUME ManifestInv, ScheduleInv, BomInv, BillInv, stage = "drawings", Complete
               PROVE  /\ \A t \in {d.template : d \in Leaves} :
                            /\ QtyOf(BilledOf(t)) = Cardinality(BuiltOf(t))
                            /\ UNION {Covers(line.ref) : line \in BilledOf(t)}
                                 = {d.tag : d \in BuiltOf(t)}
                      /\ \A line \in bom.lines : line.note # None =>
                            line.note.pdus = Cardinality({d \in devices :
                                d.template = "pdu" /\ d.tag[2] = line.note.container})
    BY DEF BomNamesTheDevices, PackageInv, BilledOf, BuiltOf
  <2>1. stage \in Scheduled \cap Billed
    BY DEF Scheduled, Billed
  <2>2. ASSUME NEW d \in Leaves, NEW t, t = d.template
        PROVE  /\ QtyOf(BilledOf(t)) = Cardinality(BuiltOf(t))
               /\ UNION {Covers(line.ref) : line \in BilledOf(t)} = {e.tag : e \in BuiltOf(t)}
    <3>1. CASE \E box \in Boxes : t \in LeavesIn(box) /\ d.tag \in BuiltTags(box, t)
      <4>1. PICK box \in Boxes : t \in LeavesIn(box) /\ d.tag \in BuiltTags(box, t)
        BY <3>1
      <4>2. BuiltTags(box, t) # {}
        BY <4>1
      <4> QED
        BY <2>1, <4>1, <4>2, BilledInBox
    <3>2. CASE t = "pcs" /\ \E n \in 1 .. Pcss : d = PadPcs(n)
      <4>1. Pcss # 0
        BY <3>2
      <4> QED
        BY <2>1, <3>2, <4>1, BilledPcs
    <3> QED
      BY <2>1, <2>2, <3>1, <3>2, LeavesAre
  <2>3. ASSUME NEW line \in bom.lines, line.note # None
        PROVE  line.note.pdus = Cardinality({d \in devices :
                   d.template = "pdu" /\ d.tag[2] = line.note.container})
    <3>1. PICK l \in Lines : Reprices(line, l)
      BY <2>1 DEF BillInv, Bills
    <3>2. l.note = line.note
      BY <3>1 DEF Reprices
    <3>3. l.note.container = site.compute /\ l.note.pdus = Cardinality(LastPdus)
      BY <2>1, <2>3, <3>2, NotesAre
    <3> QED
      BY <3>2, <3>3 DEF LastPdus
  <2> QED
    BY <2>2, <2>3
<1> QED
  BY <1>1, BillsHold, PackageHolds, PTL

-----------------------------------------------------------------------------
(***************************************************************************)
(* The slugs of a container's servers are in the order of their tags.      *)
(***************************************************************************)
NodesAt(T, t) ==
    /\ T \in Seq(Entries)
    /\ \A i \in 1 .. Len(T) : T[i].name = "NODE" => T[i].k = i - 2 /\ T[i].template = t
NodesInOrder(D) ==
    \A d \in D : \A e \in D :
       /\ d.tag[1] = "C" /\ e.tag[1] = "C" /\ d.tag[2] = e.tag[2]
       /\ d.tag[3] = "NODE" /\ e.tag[3] = "NODE" /\ d.tag[4] < e.tag[4]
       => d.id[2] < e.id[2]

LEMMA NodesStay ==
  ASSUME NEW S, NEW t, NodesAt(S, t),
         NEW U \in Seq(Entries), \A i \in 1 .. Len(U) : U[i].name # "NODE"
  PROVE  NodesAt(S \o U, t)
<1> DEFINE ST == S \o U
<1>1. /\ ST \in Seq(Entries)
      /\ Len(ST) = Len(S) + Len(U)
      /\ \A i \in 1 .. Len(S) + Len(U) : ST[i] = IF i <= Len(S) THEN S[i] ELSE U[i - Len(S)]
  <2>1. S \in Seq(Entries)
    BY DEF NodesAt
  <2> QED
    BY <2>1, ConcatProperties
<1>2. Len(S) \in Nat /\ Len(U) \in Nat
  BY LenProperties DEF NodesAt
<1>3. \A i \in 1 .. Len(ST) :
         \/ i \in 1 .. Len(S) /\ ST[i] = S[i]
         \/ i - Len(S) \in 1 .. Len(U) /\ ST[i] = U[i - Len(S)]
  BY <1>1, <1>2
<1> HIDE DEF ST
<1>4. \A i \in 1 .. Len(ST) : ST[i].name = "NODE" => ST[i].k = i - 2 /\ ST[i].template = t
  BY <1>3 DEF NodesAt
<1> QED
  BY <1>1, <1>4 DEF NodesAt, ST

LEMMA ComputeNodesAt ==
  ASSUME NEW v
  PROVE  NodesAt(ComputeTopology(v), NodeTemplate(v))
<1> DEFINE rack == Entry("RACK", 1, "rack", FALSE)
           pnl == Entry("PNL", 1, "panelboard", FALSE)
           cdu == Entry("CDU", 1, "cdu", TRUE)
           data == Entry("SW-DATA", 1, "network_switch", TRUE)
           mgmt == Entry("SW-MGMT", 1, "mgmt_switch", FALSE)
           dc == Entry("DC", 1, "dc_external", TRUE)
           t == NodeTemplate(v)
           nodes == [i \in 1 .. NODES_PER_COMPUTE_CONTAINER |-> Entry("NODE", i, t, TRUE)]
           pduA == [i \in 1 .. 3 |-> Entry("PDU-A", i, "pdu", TRUE)]
           pduB == [i \in 1 .. 3 |-> Entry("PDU-B", i, "pdu", TRUE)]
           T1 == << rack, pnl >> \o nodes
           T2 == T1 \o << cdu, data, mgmt >>
           T3 == T2 \o pduA
           T4 == T3 \o pduB
           Other(U) == U \in Seq(Entries) /\ \A i \in 1 .. Len(U) : U[i].name # "NODE"
<1>1. /\ rack \in Entries /\ pnl \in Entries /\ cdu \in Entries
      /\ data \in Entries /\ mgmt \in Entries /\ dc \in Entries
  BY DEF Entry, Entries, EntryNames, LeafTemplates
<1>2. /\ rack.name # "NODE" /\ pnl.name # "NODE" /\ cdu.name # "NODE"
      /\ data.name # "NODE" /\ mgmt.name # "NODE" /\ dc.name # "NODE"
  BY DEF Entry
<1>3. ASSUME NEW side \in Sides, NEW U, U = [i \in 1 .. 3 |-> Entry(side, i, "pdu", TRUE)]
      PROVE  Other(U)
  <2>1. \A i \in 1 .. 3 : U[i] \in Entries /\ U[i].name # "NODE"
    BY <1>3 DEF Entry, Entries, EntryNames, LeafTemplates, Sides
  <2>2. U \in [1 .. 3 -> Entries]
    BY <1>3, <2>1
  <2>3. U \in Seq(Entries)
    BY <2>2, SeqDef
  <2>4. Len(U) = 3
    BY <2>2, <2>3, LenProperties
  <2> QED
    BY <2>1, <2>3, <2>4
<1>4. Other(pduA) /\ Other(pduB)
  BY <1>3 DEF Sides
<1>5. nodes \in Seq(Entries) /\ Len(nodes) = 7
      /\ \A i \in 1 .. 7 : nodes[i].k = i /\ nodes[i].template = t
  <2>1. NODES_PER_COMPUTE_CONTAINER = 7 /\ t \in LeafTemplates
    BY DEF NODES_PER_COMPUTE_CONTAINER, NodeTemplate, LeafTemplates
  <2> HIDE DEF t
  <2>2. nodes = [i \in 1 .. 7 |-> Entry("NODE", i, t, TRUE)]
    BY <2>1
  <2> HIDE DEF nodes
  <2>3. \A i \in 1 .. 7 : nodes[i] \in Entries /\ nodes[i].k = i /\ nodes[i].template = t
    BY <2>1, <2>2 DEF Entry, Entries, EntryNames
  <2>4. nodes \in [1 .. 7 -> Entries]
    BY <2>2, <2>3
  <2>5. nodes \in Seq(Entries)
    BY <2>4, SeqDef
  <2>6. Len(nodes) = 7
    BY <2>4, <2>5, LenProperties
  <2> QED
    BY <2>3, <2>5, <2>6
<1> HIDE DEF rack, pnl, cdu, data, mgmt, dc, nodes, pduA, pduB, t
<1>6. Other(<< cdu, data, mgmt >>) /\ Other(<< dc >>)
  <2>1. ASSUME NEW U, U = << cdu, data, mgmt >>
        PROVE  Other(U)
    <3>1. U \in Seq(Entries) /\ Len(U) = 3 /\ U[1] = cdu /\ U[2] = data /\ U[3] = mgmt
      BY <1>1, <2>1
    <3>2. \A i \in 1 .. 3 : i = 1 \/ i = 2 \/ i = 3
      OBVIOUS
    <3> QED
      BY <1>2, <3>1, <3>2
  <2>2. ASSUME NEW U, U = << dc >>
        PROVE  Other(U)
    <3>1. U \in Seq(Entries) /\ Len(U) = 1 /\ U[1] = dc
      BY <1>1, <2>2
    <3>2. \A i \in 1 .. 1 : i = 1
      OBVIOUS
    <3> QED
      BY <1>2, <3>1, <3>2
  <2> QED
    BY <2>1, <2>2
<1>7. NodesAt(T1, t)
  <2>1. ASSUME NEW R, R = << rack, pnl >>
        PROVE  /\ R \in Seq(Entries) /\ Len(R) = 2
               /\ \A i \in 1 .. 2 : R[i].name # "NODE"
    <3>1. R \in Seq(Entries) /\ Len(R) = 2 /\ R[1] = rack /\ R[2] = pnl
      BY <1>1, <2>1
    <3>2. \A i \in 1 .. 2 : i = 1 \/ i = 2
      OBVIOUS
    <3> QED
      BY <1>2, <3>1, <3>2
  <2> DEFINE R == << rack, pnl >>
  <2>2. R \in Seq(Entries) /\ Len(R) = 2 /\ \A i \in 1 .. 2 : R[i].name # "NODE"
    BY <2>1
  <2> HIDE DEF R
  <2> DEFINE U == R \o nodes
  <2>3. /\ U \in Seq(Entries)
        /\ Len(U) = Len(R) + Len(nodes)
        /\ \A i \in 1 .. Len(R) + Len(nodes) :
              U[i] = IF i <= Len(R) THEN R[i] ELSE nodes[i - Len(R)]
    BY <1>5, <2>2, ConcatProperties
  <2> HIDE DEF U
  <2>4. Len(U) = 9 /\ U \in Seq(Entries)
        /\ \A i \in 1 .. 9 : U[i] = IF i <= 2 THEN R[i] ELSE nodes[i - 2]
    <3>1. Len(R) = 2 /\ Len(nodes) = 7
      BY <1>5, <2>2
    <3>2. 2 + 7 = 9
      OBVIOUS
    <3> QED
      BY <2>3, <3>1, <3>2
  <2>5. ASSUME NEW i \in 1 .. 9, U[i].name = "NODE"
        PROVE  U[i].k = i - 2 /\ U[i].template = t
    <3>1. CASE i <= 2
      BY <2>2, <2>4, <2>5, <3>1
    <3>2. CASE ~(i <= 2)
      <4>1. U[i] = nodes[i - 2] /\ i - 2 \in 1 .. 7
        BY <2>4, <3>2
      <4> QED
        BY <1>5, <4>1
    <3> QED
      BY <3>1, <3>2
  <2>6. NodesAt(U, t)
    BY <2>4, <2>5 DEF NodesAt
  <2> QED
    BY <2>6 DEF U, R
<1> HIDE DEF T1
<1>8. NodesAt(T2, t)
  BY <1>6, <1>7, NodesStay
<1> HIDE DEF T2
<1>9. NodesAt(T3, t)
  BY <1>4, <1>8, NodesStay
<1> HIDE DEF T3
<1>10. NodesAt(T4, t)
  BY <1>4, <1>9, NodesStay
<1> HIDE DEF T4
<1>11. NodesAt(T4 \o << dc >>, t)
  BY <1>6, <1>10, NodesStay
<1> QED
  BY <1>11 DEF T4, T3, T2, T1, rack, pnl, cdu, data, mgmt, dc, nodes, pduA, pduB, t,
               ComputeTopology

\* Later entries of a template have later numbers.
LEMMA NthGrows ==
  ASSUME NEW topology, NEW n \in Nat, NEW kept, kept \subseteq 1 .. n,
         NEW i \in kept, NEW j \in kept, i < j, topology[i].template = topology[j].template
  PROVE  Nth(topology, kept, i) < Nth(topology, kept, j)
<1> DEFINE A == {x \in kept : x <= i /\ topology[x].template = topology[i].template}
           B == {x \in kept : x <= j /\ topology[x].template = topology[j].template}
<1>1. IsFiniteSet(kept)
  <2>1. IsFiniteSet(1 .. n)
    BY FS_Interval
  <2> QED
    BY <2>1, PartIsSmaller
<1>2. \A x \in kept : x \in Int
  OBVIOUS
<1>3. A \subseteq B /\ j \in B /\ j \notin A /\ B \subseteq kept
  <2>1. \A x \in kept : x <= i => x <= j
    BY <1>2
  <2>2. j <= j /\ ~(j <= i)
    BY <1>2
  <2> QED
    BY <2>1, <2>2
<1>4. Nth(topology, kept, i) = Cardinality(A) /\ Nth(topology, kept, j) = Cardinality(B)
  BY DEF Nth
<1> HIDE DEF A, B
<1>5. IsFiniteSet(B)
  BY <1>1, <1>3, PartIsSmaller
<1>6. A # B
  BY <1>3
<1>7. Cardinality(A) < Cardinality(B)
  BY <1>3, <1>5, <1>6, PartIsSmaller
<1> QED
  BY <1>4, <1>7

LEMMA NewNodesInOrder ==
  ASSUME release \in Releases, counter \in [SlugNames -> Nat],
         NEW no, no = counter[ModT("C")] + 1
  PROVE  NodesInOrder(NewChildren("C", no))
<1> DEFINE T == FetchTopology(Variant("C", no))
           kept == Kept(T, Drop("C", no))
           nth(i) == counter[T[i].template] + Nth(T, kept, i)
           M == NewModule("C", no)
<1>1. T = None \/ T = ComputeTopology(order.variant)
  BY DEF Variant, FetchTopology
<1>2. CASE T = None
  <2>1. kept = {}
    BY <1>2 DEF Kept
  <2>2. NewChildren("C", no) = {}
    <3> HIDE DEF T
    <3> QED
      BY <2>1 DEF NewChildren, Children, T
  <2> QED
    BY <2>2 DEF NodesInOrder
<1>3. CASE T = ComputeTopology(order.variant) /\ T # None
  <2>1. NodesAt(T, NodeTemplate(order.variant))
    BY <1>3, ComputeNodesAt
  <2>2. DOMAIN T = 1 .. Len(T) /\ Len(T) \in Nat /\ T \in Seq(Entries)
    BY <2>1, LenProperties DEF NodesAt
  <2>3. kept \subseteq 1 .. Len(T)
    BY <1>3, <2>2 DEF Kept
  <2>4. M = ModuleOf("C", no)
    BY NewModuleIs DEF Boxes
  <2>5. M.tag[1] = "C" /\ M.tag[2] = no /\ M.id = <<ModT("C"), no>>
    <3> HIDE DEF M
    <3>1. M.tag = <<"C", no, Itself, 0>> /\ M.id = <<ModT("C"), no>>
      BY <2>4, ModuleFields
    <3> QED
      BY <3>1
  <2>6. NewChildren("C", no) = {EntryDevice("C", no, T[i], nth(i)) : i \in kept}
    <3>1. NewChildren("C", no) = {LET entry == T[i]
                      IN  Device(AssignSlug(entry.template, Nth(T, kept, i)),
                                 Tag(M.tag[1], M.tag[2], entry.name, entry.k),
                                 entry.template, M.id, entry.polled) : i \in kept}
      BY DEF NewChildren, Children
    <3> HIDE DEF T, kept, M
    <3> QED
      BY <2>5, <3>1 DEF EntryDevice, AssignSlug
  <2>7. \A i \in kept : /\ Nth(T, kept, i) \in Nat
                        /\ counter[T[i].template] \in Nat
    <3>1. \A i \in kept : T[i] \in Entries
      <4> HIDE DEF T, kept
      <4> QED
        BY <2>2, <2>3
    <3>2. \A i \in kept : counter[T[i].template] \in Nat
      <4> HIDE DEF T, kept
      <4> QED
        BY <3>1, LeavesAreNoModules DEF Entries
    <3> HIDE DEF T, kept
    <3> QED
      BY <2>2, <2>3, <3>2, NthIsANumber
  <2>8. \A i \in kept : /\ EntryDevice("C", no, T[i], nth(i)).tag = <<"C", no, T[i].name, T[i].k>>
                        /\ EntryDevice("C", no, T[i], nth(i)).id = <<T[i].template, nth(i)>>
    BY EntryFields
  <2> HIDE DEF T, kept, M
  <2>9. ASSUME NEW i \in kept, NEW j \in kept, T[i].name = "NODE", T[j].name = "NODE",
               T[i].k < T[j].k
        PROVE  nth(i) < nth(j)
    <3>1. /\ T[i].k = i - 2 /\ T[j].k = j - 2 /\ i \in Int /\ j \in Int
          /\ T[i].template = T[j].template
      BY <2>1, <2>2, <2>3, <2>9 DEF NodesAt
    <3>2. i < j
      BY <2>9, <3>1
    <3>3. Nth(T, kept, i) < Nth(T, kept, j)
      BY <2>2, <2>3, <3>1, <3>2, NthGrows
    <3> QED
      BY <2>7, <3>1, <3>3
  <2> HIDE DEF nth
  <2> SUFFICES ASSUME NEW d \in NewChildren("C", no), NEW e \in NewChildren("C", no),
                      d.tag[3] = "NODE", e.tag[3] = "NODE", d.tag[4] < e.tag[4]
               PROVE  d.id[2] < e.id[2]
    BY DEF NodesInOrder
  <2>10. PICK i \in kept : d = EntryDevice("C", no, T[i], nth(i))
    BY <2>6
  <2>11. PICK j \in kept : e = EntryDevice("C", no, T[j], nth(j))
    BY <2>6
  <2>12. /\ d.tag = <<"C", no, T[i].name, T[i].k>> /\ d.id = <<T[i].template, nth(i)>>
         /\ e.tag = <<"C", no, T[j].name, T[j].k>> /\ e.id = <<T[j].template, nth(j)>>
    BY <2>8, <2>10, <2>11
  <2> QED
    BY <2>9, <2>12
<1> QED
  BY <1>1, <1>2, <1>3

-----------------------------------------------------------------------------
(***************************************************************************)
(* What the sheets take from the manifest but the earlier invariants do    *)
(* not keep: the order of the servers' slugs, and that a bus of a whole    *)
(* release joins two devices or more, each of a template that is listed.   *)
(***************************************************************************)
ListedTemplates ==
    {"poi_meter", "switchgear", "protective_relay", "transformer", "lv_switchboard",
     "compute_module", "compute_module_h100", "bess_module", "bess_module_dc"}
JoinsTwo(b) ==
    /\ IsFiniteSet(b.members)
    /\ b.members \subseteq ListedTemplates \X Nat
    /\ \E m \in b.members : \E o \in b.members : m # o
Joined2 == \A b \in buses : JoinsTwo(b)
GridBuilt == Complete /\ Len(GridVariants) # 0
DrawnInv == NodesInOrder(devices) /\ (GridBuilt => Joined2)

LEMMA NodesBesides ==
  ASSUME NEW D, NEW N, NodesInOrder(D), NodesInOrder(N),
         \A d \in D : \A e \in N : ~(d.tag[1] = e.tag[1] /\ d.tag[2] = e.tag[2])
  PROVE  NodesInOrder(D \cup N)
<1> SUFFICES ASSUME NEW d \in D \cup N, NEW e \in D \cup N,
                    d.tag[1] = "C", e.tag[1] = "C", d.tag[2] = e.tag[2],
                    d.tag[3] = "NODE", e.tag[3] = "NODE", d.tag[4] < e.tag[4]
             PROVE  d.id[2] < e.id[2]
  BY DEF NodesInOrder
<1>1. d \in D <=> e \in D
  <2>1. d \in D => e \notin N
    OBVIOUS
  <2>2. e \in D => d \notin N
    OBVIOUS
  <2> QED
    BY <2>1, <2>2
<1>2. CASE d \in D /\ e \in D
  BY <1>2 DEF NodesInOrder
<1>3. CASE d \in N /\ e \in N
  BY <1>3 DEF NodesInOrder
<1> QED
  BY <1>1, <1>2, <1>3

\* The feeder bus of a container that has one.
LEMMA FeederBusIs ==
  ASSUME order \in Orders, release \in Releases, counter \in [SlugNames -> Nat], Complete,
         site = Resolution(order),
         NEW box \in Boxes, NEW no, no = counter[ModT(box)] + 1,
         box = "G" => no \in 1 .. Len(GridVariants),
         EmitContainer(KindOf(box), box, no, Variant(box, no), Drop(box, no)),
         NEW b \in buses', b \notin buses
  PROVE  JoinsTwo(b)
<1> DEFINE topology == FetchTopology(Variant(box, no))
           children == NewChildren(box, no)
           joined == {c \in children :
                        c.template \in {"switchgear", "protective_relay", "transformer"}}
           main == [id |-> AssignSlug("ac_main", 1), members |-> {d.id : d \in joined}]
           feeder == IF KindOf(box) = "grid" /\ topology # None THEN {main} ELSE {}
<1>1. buses' = buses \cup feeder
  BY DEF EmitContainer, NewModule, NewChildren
<1>2. b = main /\ box = "G"
  <2> HIDE DEF main
  <2> QED
    BY <1>1 DEF KindOf, Boxes
<1>3. b.members = {d.id : d \in joined}
  BY <1>2
<1>4. Contents(box, no)
  BY Container
<1>5. IsFiniteSet(b.members)
  <2> HIDE DEF children
  <2>1. IsFiniteSet(children)
    BY <1>4 DEF Contents, children
  <2>2. IsFiniteSet(joined)
    BY <2>1, PartIsSmaller
  <2> DEFINE f == [d \in joined |-> d.id]
  <2>3. {d.id : d \in joined} = {f[d] : d \in joined}
    OBVIOUS
  <2> HIDE DEF joined
  <2>4. DOMAIN f = joined
    OBVIOUS
  <2> HIDE DEF f
  <2>5. IsFiniteSet({f[d] : d \in joined})
    BY <2>2, <2>4, ImageIsFinite
  <2> QED
    BY <1>3, <2>3, <2>5
<1>6. \A d \in children : d.id[1] = d.template /\ d.id \in SlugNames \X Nat
  <2> SUFFICES ASSUME NEW d \in children
               PROVE  d.id[1] = d.template /\ d.id \in SlugNames \X Nat
    OBVIOUS
  <2>1. PICK e \in KeptEntries(box, no) : \E n :
           d = EntryDevice(box, no, e, n) /\ Fresh(box, no, e.template, n)
    BY <1>4 DEF Contents, children
  <2>2. PICK n : d = EntryDevice(box, no, e, n) /\ Fresh(box, no, e.template, n)
    BY <2>1
  <2>3. e.template \in SlugNames /\ n \in Nat
    BY <2>2, KeptEntriesAre, LeavesAreNoModules DEF KeptAreEntries, Fresh
  <2>4. d.id = <<e.template, n>> /\ d.template = e.template
    BY <2>2, EntryFields
  <2> QED
    BY <2>3, <2>4
<1>7. b.members \subseteq ListedTemplates \X Nat
  <2>1. ASSUME NEW d \in joined
        PROVE  d.id \in ListedTemplates \X Nat
    <3>1. d.id[1] \in ListedTemplates /\ d.id \in SlugNames \X Nat
      BY <1>6 DEF ListedTemplates
    <3> QED
      BY <3>1
  <2> HIDE DEF joined
  <2> QED
    BY <1>3, <2>1
<1>8. \A t \in {"switchgear", "protective_relay"} : \E d \in joined : d.id[1] = t
  <2> SUFFICES ASSUME NEW t \in {"switchgear", "protective_relay"}
               PROVE  \E d \in joined : d.id[1] = t
    OBVIOUS
  <2>1. KeptEntries(box, no) = GridEntries(no)
    <3>1. site.grid \in Nat \ {0}
      BY SiteIsSized
    <3>2. GridVariants[no] \in release.topology
      <4>1. no \in 1 .. Len(GridVariants)
        BY <1>2
      <4>2. GridVariants[no] \in {"primary", "feeder"}
        BY <3>1, <4>1, GridVariantsAre
      <4> QED
        BY <4>2 DEF Complete
    <3> QED
      BY <1>2, <3>1, <3>2, KeptInContainer
  <2>2. \E e \in KeptEntries(box, no) : e.template = t
    <3>1. Entry("SWG", 1, "switchgear", FALSE) \in FeederEntries
          /\ Entry("RLY", 1, "protective_relay", TRUE) \in FeederEntries
      BY DEF FeederEntries
    <3>2. FeederEntries \subseteq GridEntries(no)
      BY DEF GridEntries, PrimaryEntries
    <3>3. Entry("SWG", 1, "switchgear", FALSE).template = "switchgear"
          /\ Entry("RLY", 1, "protective_relay", TRUE).template = "protective_relay"
      BY DEF Entry
    <3> QED
      BY <2>1, <3>1, <3>2, <3>3
  <2>3. PICK e \in KeptEntries(box, no) : e.template = t
    BY <2>2
  <2>4. PICK n : EntryDevice(box, no, e, n) \in children
    BY <1>4 DEF Contents, children
  <2>5. /\ EntryDevice(box, no, e, n).template = t
        /\ EntryDevice(box, no, e, n).id = <<t, n>>
    BY <2>3, EntryFields
  <2> HIDE DEF children
  <2>6. EntryDevice(box, no, e, n) \in joined
    BY <2>4, <2>5
  <2> HIDE DEF joined
  <2> QED
    BY <2>5, <2>6
<1>9. \E m \in b.members : \E o \in b.members : m # o
  <2> HIDE DEF joined
  <2>1. PICK d \in joined : d.id[1] = "switchgear"
    BY <1>8
  <2>2. PICK e \in joined : e.id[1] = "protective_relay"
    BY <1>8
  <2>3. d.id \in b.members /\ e.id \in b.members /\ d.id # e.id
    BY <1>3, <2>1, <2>2
  <2> QED
    BY <2>3
<1> QED
  BY <1>5, <1>7, <1>9 DEF JoinsTwo

LEMMA NewTags ==
  ASSUME release \in Releases, BoxInv(devices, counter),
         NEW box \in Boxes, NEW no, no = counter[ModT(box)] + 1
  PROVE  \A d \in {ModuleOf(box, no)} \cup NewChildren(box, no) :
            d.tag[1] = box /\ d.tag[2] = no
<1> DEFINE new == {ModuleOf(box, no)} \cup NewChildren(box, no)
<1>1. /\ IsFiniteSet(new) /\ IdsDiffer(new) /\ TagsDiffer(new)
      /\ \A d \in new : d.tag[1] = box /\ d.tag[2] = no
      /\ \A d \in devices : \A e \in new : d.id # e.id
      /\ \A d \in new : d.template \in ContainerTemplates => d = ModuleOf(box, no)
  BY NewSlugs
<1> QED
  BY <1>1

LEMMA DrawnContainer ==
  ASSUME order \in Orders, release \in Releases, site = Resolution(order), EmitInv,
         DrawnInv, UNCHANGED <<order, site, release>>,
         NEW box \in Boxes, NEW no, no = Emitted(ModulesIn(box)) + 1,
         box = "G" => no <= Len(GridVariants),
         EmitContainer(KindOf(box), box, no, Variant(box, no), Drop(box, no))
  PROVE  DrawnInv'
<1>1. BoxInv(devices, counter) /\ counter \in [SlugNames -> Nat]
  BY DEF EmitInv, BoxInv
<1>2. /\ no = counter[ModT(box)] + 1
      /\ devices' = devices \cup {ModuleOf(box, no)} \cup NewChildren(box, no)
  BY <1>1, Emission
<1> DEFINE new == {ModuleOf(box, no)} \cup NewChildren(box, no)
<1>3. no \in Nat \ {0} /\ counter[ModT(box)] \in Nat
  BY <1>1, <1>2, ModTIsIn
<1>4. \A d \in new : d.tag[1] = box /\ d.tag[2] = no
  BY <1>1, <1>2, NewTags
<1>5. ASSUME NEW d \in devices
      PROVE  ~(d.tag[1] = box /\ d.tag[2] = no)
  <2>1. PICK b \in Boxes : \E n \in 1 .. counter[ModT(b)] : Fits(d, b, n, counter)
    BY <1>1 DEF BoxInv, AllPlaced
  <2>2. PICK n \in 1 .. counter[ModT(b)] : Fits(d, b, n, counter)
    BY <2>1
  <2>3. d.tag[1] = b /\ d.tag[2] = n
    BY <2>2, FitTags
  <2> QED
    BY <1>2, <1>3, <2>3
<1>6. NodesInOrder(new)
  <2>1. CASE box = "C"
    <3>1. NodesInOrder(NewChildren(box, no))
      BY <1>1, <1>2, <2>1, NewNodesInOrder
    <3>2. ModuleOf(box, no).tag[3] # "NODE"
      <4>1. ModuleOf(box, no).tag = <<box, no, Itself, 0>>
        BY ModuleFields
      <4> QED
        BY <4>1 DEF Itself
    <3> QED
      BY <3>1, <3>2 DEF NodesInOrder
  <2>2. CASE box # "C"
    <3> HIDE DEF new
    <3> QED
      BY <1>4, <2>2 DEF NodesInOrder
  <2> QED
    BY <2>1, <2>2
<1>7. NodesInOrder(devices')
  <2>1. devices' = devices \cup new
    BY <1>2
  <2> HIDE DEF new
  <2>2. NodesInOrder(devices)
    BY DEF DrawnInv
  <2>3. \A d \in devices : \A e \in new : ~(d.tag[1] = e.tag[1] /\ d.tag[2] = e.tag[2])
    BY <1>4, <1>5
  <2>4. NodesInOrder(devices \cup new)
    BY <1>6, <2>2, <2>3, NodesBesides
  <2> QED
    BY <2>1, <2>4
<1>8. ASSUME GridBuilt'
      PROVE  Joined2'
  <2>1. GridVariants' = GridVariants
    BY SameContainers
  <2>2. GridBuilt
    BY <1>8, <2>1 DEF GridBuilt, Complete
  <2>3. Complete /\ Joined2
    BY <2>2 DEF GridBuilt, DrawnInv
  <2>4. box = "G" => no \in 1 .. Len(GridVariants)
    <3>1. Len(GridVariants) \in Int
      BY SiteIsSized, GridVariantsAre
    <3> QED
      BY <1>3, <3>1
  <2>5. ASSUME NEW b \in buses'
        PROVE  JoinsTwo(b)
    <3>1. CASE b \in buses
      BY <2>3, <3>1 DEF Joined2
    <3>2. CASE b \notin buses
      BY <1>1, <1>2, <2>3, <2>4, <3>2, FeederBusIs
    <3> QED
      BY <3>1, <3>2
  <2> QED
    BY <2>5 DEF Joined2, JoinsTwo
<1>9. NodesInOrder(devices)'
  BY <1>7 DEF NodesInOrder
<1> QED
  BY <1>8, <1>9 DEF DrawnInv

\* The buses that join the containers.
LEMMA LvBusJoins ==
  ASSUME order \in Orders, site = Resolution(order), NEW k \in 1 .. site.grid
  PROVE  JoinsTwo(LvBus(k))
<1> DEFINE fed == {<<ModT("C"), n>> : n \in site.feeds[k]}
           own == {<<"transformer", k>>, <<"lv_switchboard", k>>}
           members == LvBus(k).members
<1>1. /\ site.compute \in Nat \ {0} /\ site.grid \in Nat \ {0}
      /\ site.feeds = ComputeFeeds(site.compute, site.grid)
  BY SiteIsSized
<1>2. members = own \cup fed
  BY DEF LvBus
<1>3. site.feeds[k] \subseteq 1 .. site.compute
  BY <1>1 DEF ComputeFeeds
<1>4. IsFiniteSet(fed)
  <2> DEFINE S == site.feeds[k]
             f == [n \in S |-> <<ModT("C"), n>>]
  <2>1. IsFiniteSet(1 .. site.compute)
    <3>1. 1 \in Int /\ site.compute \in Int
      BY <1>1
    <3> QED
      BY <3>1, FS_Interval
  <2>2. IsFiniteSet(S)
    BY <1>3, <2>1, PartIsSmaller
  <2>3. DOMAIN f = S /\ fed = {f[n] : n \in S}
    OBVIOUS
  <2> HIDE DEF f, S, fed
  <2>4. IsFiniteSet({f[n] : n \in S})
    BY <2>2, <2>3, ImageIsFinite
  <2> QED
    BY <2>3, <2>4
<1>5. IsFiniteSet(own)
  <2>1. own = {<<"transformer", k>>} \cup {<<"lv_switchboard", k>>}
    OBVIOUS
  <2>2. IsFiniteSet({<<"transformer", k>>}) /\ IsFiniteSet({<<"lv_switchboard", k>>})
    BY FS_Singleton
  <2> HIDE DEF own
  <2> QED
    BY <2>1, <2>2, FS_Union
<1>6. IsFiniteSet(members)
  <2> HIDE DEF own, fed, members
  <2> QED
    BY <1>2, <1>4, <1>5, FS_Union
<1>7. members \subseteq ListedTemplates \X Nat
  <2>1. ModT("C") \in ListedTemplates
    BY ModTIsIn DEF Boxes, ModulesIn, ComputeModules, ListedTemplates
  <2>2. fed \subseteq ListedTemplates \X Nat
    BY <1>3, <2>1
  <2>3. own \subseteq ListedTemplates \X Nat
    BY DEF ListedTemplates
  <2> HIDE DEF own, fed, members
  <2> QED
    BY <1>2, <2>2, <2>3
<1>8. \E m \in members : \E o \in members : m # o
  <2>1. <<"transformer", k>> \in members /\ <<"lv_switchboard", k>> \in members
    BY <1>2
  <2>2. <<"transformer", k>> # <<"lv_switchboard", k>>
    OBVIOUS
  <2> HIDE DEF members
  <2> QED
    BY <2>1, <2>2
<1> QED
  BY <1>6, <1>7, <1>8 DEF JoinsTwo

LEMMA SiteBusJoins ==
  ASSUME order \in Orders, release \in Releases, options \in Options, site = Resolution(order),
         EmitInv, GridBuilt, counter["grid_module"] = Len(GridVariants),
         NEW b, b = SiteBus(PadModule.id)
  PROVE  JoinsTwo(b)
<1>1. b.members = Ids("poi_meter") \cup Ids("switchgear") \cup {PadModule.id}
  BY DEF SiteBus
<1>2. BoxInv(devices, counter) /\ IsFiniteSet(devices) /\ AllBuilt(devices, counter)
  BY DEF EmitInv, BoxInv
<1>3. ASSUME NEW t \in {"poi_meter", "switchgear"}
      PROVE  IsFiniteSet(Ids(t)) /\ Ids(t) \subseteq ListedTemplates \X Nat
  <2> DEFINE S == {e \in devices : e.template = t}
             f == [d \in S |-> d.id]
  <2>1. IsFiniteSet(S)
    BY <1>2, PartIsSmaller
  <2>2. Ids(t) = {f[d] : d \in S} /\ DOMAIN f = S
    BY DEF Ids
  <2>3. \A d \in S : d.id \in ListedTemplates \X Nat
    <3> SUFFICES ASSUME NEW d \in S
                 PROVE  d.id \in ListedTemplates \X Nat
      OBVIOUS
    <3>1. d \in Devices /\ d.id[1] = t
      BY <1>2, BoxedTyped, BoxedDevices
    <3>2. d.id \in SlugNames \X Nat
      BY <3>1 DEF Devices
    <3>3. t \in ListedTemplates
      BY DEF ListedTemplates
    <3> QED
      BY <3>1, <3>2, <3>3
  <2>4. \A d \in S : f[d] \in ListedTemplates \X Nat
    BY <2>3
  <2> HIDE DEF f, S
  <2>5. IsFiniteSet({f[d] : d \in S})
    BY <2>1, <2>2, ImageIsFinite
  <2> QED
    BY <2>2, <2>4, <2>5
<1>4. PadModule.id \in ListedTemplates \X Nat /\ PadModule.id[1] \in {"bess_module", "bess_module_dc"}
  <2>1. /\ PadModule.id[1] = PadModule.template /\ PadModule.id \in SlugNames \X Nat
        /\ PadModule.template \in {"bess_module", "bess_module_dc"}
    BY PadModuleFields
  <2> QED
    BY <2>1 DEF ListedTemplates
<1>5. IsFiniteSet(b.members)
  <2>1. IsFiniteSet(Ids("poi_meter") \cup Ids("switchgear"))
    BY <1>3, FS_Union
  <2> QED
    BY <1>1, <2>1, FS_AddElement
<1>6. b.members \subseteq ListedTemplates \X Nat
  BY <1>1, <1>3, <1>4
<1>7. \E d \in devices : d.template = "switchgear" /\ d.id[1] = "switchgear"
  <2> DEFINE swg == Entry("SWG", 1, "switchgear", FALSE)
  <2>1. site.grid \in Nat \ {0}
    BY SiteIsSized
  <2>2. Len(GridVariants) \in Nat \ {0} /\ ModT("G") = "grid_module"
    <3>1. Len(GridVariants) \in Nat
      BY <2>1, GridVariantsAre
    <3> QED
      BY <3>1 DEF GridBuilt, ModT, ModuleTemplate, KindOf
  <2>3. 1 \in 1 .. counter[ModT("G")] /\ 1 \in 1 .. Len(GridVariants)
    BY <2>2
  <2>4. GridVariants[1] \in release.topology
    <3>1. GridVariants[1] \in {"primary", "feeder"}
      BY <2>1, <2>3, GridVariantsAre
    <3> QED
      BY <3>1 DEF Complete, GridBuilt
  <2>5. KeptEntries("G", 1) = GridEntries(1)
    BY <2>1, <2>3, <2>4, KeptInContainer
  <2>6. swg \in KeptEntries("G", 1) /\ swg.template = "switchgear"
    BY <2>5 DEF GridEntries, PrimaryEntries, FeederEntries, Entry
  <2> HIDE DEF swg
  <2>7. PICK n \in 1 .. counter[swg.template] : EntryDevice("G", 1, swg, n) \in devices
    BY <1>2, <2>3, <2>6 DEF AllBuilt, Boxes
  <2>8. /\ EntryDevice("G", 1, swg, n).template = "switchgear"
        /\ EntryDevice("G", 1, swg, n).id = <<"switchgear", n>>
    BY <2>6, EntryFields
  <2> QED
    BY <2>7, <2>8
<1>8. \E m \in b.members : \E o \in b.members : m # o
  <2>1. PICK d \in devices : d.template = "switchgear" /\ d.id[1] = "switchgear"
    BY <1>7
  <2>2. d.id \in Ids("switchgear")
    BY <2>1 DEF Ids
  <2>3. d.id \in b.members /\ PadModule.id \in b.members /\ d.id # PadModule.id
    BY <1>1, <1>4, <2>1, <2>2
  <2> QED
    BY <2>3
<1> QED
  BY <1>5, <1>6, <1>8 DEF JoinsTwo

LEMMA DrawnSite ==
  ASSUME order \in Orders, release \in Releases, options \in Options, site = Resolution(order),
         EmitInv, EmitSite, DrawnInv
  PROVE  DrawnInv'
<1> DEFINE new == Pad \cup Utility
<1>1. /\ UNCHANGED <<order, site, options, release>>
      /\ devices' = AllDevices /\ buses' = buses \cup Joining
      /\ Emitted({"grid_module"}) = Len(GridVariants)
      /\ Emitted(ComputeModules) = site.compute
  BY DEF EmitSite, ContainersOut
<1>2. /\ BoxInv(devices, counter) /\ TagsDiffer(devices) /\ AllBuilt(devices, counter)
  BY DEF EmitInv, BoxInv
<1>3. counter["grid_module"] = Len(GridVariants) /\ counter[ModT("C")] = site.compute
  <2>1. /\ ModulesIn("C") = ComputeModules /\ ModulesIn("G") = {"grid_module"}
        /\ ModT("G") = "grid_module"
    BY DEF ModulesIn, ModT, KindOf, ModuleTemplate
  <2> QED
    BY <1>1, <1>2, <2>1 DEF BoxInv, Counted, Emitted, Boxes
<1>4. NodesInOrder(devices')
  <2>1. NodesInOrder(devices)
    BY DEF DrawnInv
  <2>2. \A d \in new : d.tag[1] \notin Boxes
    BY SiteDevices
  <2>3. devices' \subseteq devices \cup new
    BY <1>1 DEF AllDevices, Put
  <2> HIDE DEF new
  <2> QED
    BY <2>1, <2>2, <2>3 DEF NodesInOrder, Boxes
<1>5. ASSUME GridBuilt'
      PROVE  Joined2'
  <2>1. GridVariants' = GridVariants
    BY <1>1, SameContainers
  <2>2. GridBuilt
    BY <1>1, <1>5, <2>1 DEF GridBuilt, Complete
  <2>3. Joined2
    BY <2>2 DEF DrawnInv
  <2>4. ASSUME NEW b \in LvMainBuses
        PROVE  JoinsTwo(b)
    <3>1. PICK k \in 1 .. site.grid : b = LvMain(k)
      BY <2>4 DEF LvMainBuses
    <3>2. site.compute \in Nat /\ site.feeds = ComputeFeeds(site.compute, site.grid)
      BY SiteIsSized
    <3>3. \A n \in site.feeds[k] : n \in 1 .. counter[ModT("C")]
      BY <1>3, <3>2 DEF ComputeFeeds
    <3>4. \A n \in site.feeds[k] : ModuleOf("C", n) \in devices
      BY <1>2, <3>3 DEF AllBuilt, Boxes
    <3>5. \A n \in site.feeds[k] : ComputeModule(n) = <<ModT("C"), n>>
      BY <1>2, <3>4, ComputeModuleIs
    <3>6. LvMain(k) = LvBus(k)
      BY <3>5 DEF LvMain, LvBus
    <3> QED
      BY <3>1, <3>6, LvBusJoins
  <2>5. JoinsTwo(SiteBus(PadModule.id))
    BY <1>3, <2>2, SiteBusJoins
  <2>6. Joining = LvMainBuses \cup {SiteBus(PadModule.id)}
    BY PadDevices DEF Joining
  <2>7. \A b \in buses' : JoinsTwo(b)
    BY <1>1, <2>3, <2>4, <2>5, <2>6 DEF Joined2
  <2> QED
    BY <2>7 DEF Joined2, JoinsTwo
<1>6. NodesInOrder(devices)'
  BY <1>4 DEF NodesInOrder
<1> QED
  BY <1>5, <1>6 DEF DrawnInv

LEMMA InitDrawn == PkgInit => DrawnInv
<1> SUFFICES ASSUME PkgInit PROVE DrawnInv
  OBVIOUS
<1>1. devices = {} /\ buses = {}
  BY DEF PkgInit, DtmInit
<1> QED
  BY <1>1 DEF DrawnInv, NodesInOrder, Joined2

LEMMA StepDrawn == ManifestInv /\ DrawnInv /\ [PkgNext]_pkgVars => DrawnInv'
<1> SUFFICES ASSUME ManifestInv, DrawnInv, [PkgNext]_pkgVars PROVE DrawnInv'
  OBVIOUS
<1>1. order \in Orders /\ release \in Releases /\ options \in Options
  BY DEF ManifestInv
<1>2. CASE Take
  <2>1. devices' = {} /\ buses' = {}
    BY <1>2 DEF Take, ManifestInv
  <2> QED
    BY <2>1 DEF DrawnInv, NodesInOrder, Joined2
<1>3. CASE EmitCompute
  <2> DEFINE no == Emitted(ModulesIn("C")) + 1
  <2>1. ModulesIn("C") = ComputeModules /\ KindOf("C") = "compute"
    BY DEF ModulesIn, KindOf
  <2>2. /\ EmitContainer(KindOf("C"), "C", no, Variant("C", no), Drop("C", no))
        /\ UNCHANGED <<order, site, release>>
    BY <1>3, <2>1 DEF EmitCompute, Variant, Drop
  <2>3. site = Resolution(order) /\ EmitInv
    BY <1>3 DEF EmitCompute, ManifestInv
  <2> HIDE DEF no
  <2> QED
    BY <1>1, <2>2, <2>3, DrawnContainer DEF Boxes, no
<1>4. CASE EmitGrid
  <2> DEFINE no == Emitted(ModulesIn("G")) + 1
  <2>1. ModulesIn("G") = {"grid_module"} /\ KindOf("G") = "grid"
    BY DEF ModulesIn, KindOf
  <2>2. /\ EmitContainer(KindOf("G"), "G", no, Variant("G", no), Drop("G", no))
        /\ UNCHANGED <<order, site, release>>
        /\ Emitted(ModulesIn("G")) < Len(GridVariants)
    BY <1>4, <2>1 DEF EmitGrid, Variant, Drop, GridNo
  <2>3. site = Resolution(order) /\ EmitInv
    BY <1>4 DEF EmitGrid, ManifestInv
  <2>4. no <= Len(GridVariants)
    <3>1. Emitted(ModulesIn("G")) = counter[ModT("G")]
      BY <2>3 DEF EmitInv, BoxInv, Counted, Emitted, Boxes
    <3>2. counter[ModT("G")] \in Nat /\ Len(GridVariants) \in Int
      BY <1>1, <2>3, SiteIsSized, GridVariantsAre, ModTIsIn DEF EmitInv, BoxInv, Boxes
    <3> HIDE DEF no
    <3>3. no = counter[ModT("G")] + 1 /\ counter[ModT("G")] < Len(GridVariants)
      BY <2>2, <3>1 DEF no
    <3> QED
      BY <3>2, <3>3
  <2> HIDE DEF no
  <2> QED
    BY <1>1, <2>2, <2>3, <2>4, DrawnContainer DEF Boxes, no
<1>5. CASE EmitSite
  <2>1. site = Resolution(order) /\ EmitInv
    BY <1>5 DEF EmitSite, ContainersOut, ManifestInv
  <2> QED
    BY <1>1, <1>5, <2>1, DrawnSite
<1>6. CASE UNCHANGED <<order, site, release, devices, buses>>
  <2>1. GridVariants' = GridVariants
    BY <1>6, SameContainers
  <2>2. GridBuilt' = GridBuilt /\ Joined2' = Joined2 /\ NodesInOrder(devices)' = NodesInOrder(devices)
    BY <1>6, <2>1 DEF GridBuilt, Complete, Joined2, JoinsTwo, NodesInOrder
  <2> QED
    BY <2>2 DEF DrawnInv
<1>7. ASSUME GenerateFails \/ Schedule \/ ScheduleFails \/ GenerateBom \/ BomFails
               \/ AttachOffers \/ DrawSheets \/ UNCHANGED pkgVars
      PROVE  UNCHANGED <<order, site, release, devices, buses>>
  BY <1>7 DEF GenerateFails, Schedule, ScheduleFails, GenerateBom, BomFails, AttachOffers,
              DrawSheets, pkgVars
<1> QED
  BY <1>2, <1>3, <1>4, <1>5, <1>6, <1>7 DEF PkgNext, Generate

-----------------------------------------------------------------------------
(***************************************************************************)
(* A bus path of the HMI: the members of a bus in the order they are       *)
(* listed, and that the source the path begins at is not where it ends.    *)
(***************************************************************************)
Below(S, rank, d) == {e \in S : rank[e] < rank[d]}

LEMMA RankedPlaces ==
  ASSUME NEW S, IsFiniteSet(S), NEW rank,
         \A d \in S : rank[d] \in Nat,
         \A d, e \in S : rank[d] = rank[e] => d = e,
         NEW i \in 1 .. Cardinality(S)
  PROVE  Ranked(S, rank)[i] \in S /\ Cardinality(Below(S, rank, Ranked(S, rank)[i])) = i - 1
<1> DEFINE upTo(d) == {e \in S : rank[e] <= rank[d]}
           f == [d \in S |-> Cardinality(upTo(d))]
           T == {f[d] : d \in S}
           N == Cardinality(S)
<1>1. \A d \in S : upTo(d) = Below(S, rank, d) \cup {d} /\ d \notin Below(S, rank, d)
  <2> SUFFICES ASSUME NEW d \in S
               PROVE  upTo(d) = Below(S, rank, d) \cup {d} /\ d \notin Below(S, rank, d)
    OBVIOUS
  <2>1. \A e \in S : rank[e] <= rank[d] <=> rank[e] < rank[d] \/ e = d
    OBVIOUS
  <2> QED
    BY <2>1 DEF Below
<1>2. N \in Nat
  BY FS_CardinalityType
<1>3. /\ \A d \in S : f[d] \in Nat \ {0} /\ f[d] <= N
      /\ \A d, e \in S : f[d] = f[e] => d = e
  BY Places
<1>4. DOMAIN f = S
  OBVIOUS
<1>5. \A d \in S : f[d] = Cardinality(upTo(d))
  OBVIOUS
<1>6. T = {f[d] : d \in S}
  OBVIOUS
<1> HIDE DEF f, T
<1>7. IsFiniteSet(T) /\ Cardinality(T) = N
  BY <1>3, <1>4, <1>6, ImageIsAsLarge
<1>8. T \subseteq 1 .. N
  <2>1. \A d \in S : f[d] \in 1 .. N
    <3> HIDE DEF N
    <3> QED
      BY <1>2, <1>3
  <2> QED
    BY <1>6, <2>1
<1>9. T = 1 .. N
  <2> HIDE DEF N
  <2>1. 1 \in Int /\ N \in Int
    BY <1>2
  <2>2. IsFiniteSet(1 .. N)
    BY <2>1, FS_Interval
  <2>3. Cardinality(1 .. N) = N
    <3>1. Cardinality(1 .. N) = IF 1 > N THEN 0 ELSE N - 1 + 1
      BY <2>1, FS_Interval
    <3> QED
      BY <1>2, <3>1
  <2>4. T # 1 .. N => Cardinality(T) < Cardinality(1 .. N)
    BY <1>8, <2>2, PartIsSmaller
  <2> QED
    BY <1>2, <1>7, <2>3, <2>4
<1>10. PICK d \in S : f[d] = i
  BY <1>6, <1>9
<1>11. Cardinality(Below(S, rank, d)) = i - 1
  <2> DEFINE B == Below(S, rank, d)
  <2>1. IsFiniteSet(B) /\ Cardinality(B) \in Nat
    BY PartIsSmaller DEF Below
  <2>2. upTo(d) = B \cup {d} /\ d \notin B
    BY <1>1
  <2> HIDE DEF B, upTo
  <2>3. Cardinality(upTo(d)) = Cardinality(B) + 1
    BY <2>1, <2>2, FS_AddElement
  <2>4. Cardinality(upTo(d)) = i
    BY <1>5, <1>10
  <2> QED
    BY <2>1, <2>3, <2>4 DEF B
<1>12. Ranked(S, rank)[i] = CHOOSE e \in S : Cardinality({x \in S : rank[x] < rank[e]}) = i - 1
  BY DEF Ranked
<1> HIDE DEF N
<1>13. Cardinality({x \in S : rank[x] < rank[d]}) = i - 1
  BY <1>11 DEF Below
<1> QED
  BY <1>12, <1>13 DEF Below

LEMMA ListingNumbered ==
  /\ \A m \in ListedTemplates \X Nat : ListPlace(m) \in 1 .. 9 /\ Listing[ListPlace(m)] = m[1]
  /\ Listing[1] = "poi_meter"
<1>1. DOMAIN Listing = 1 .. 9
  BY DEF Listing
<1>2. /\ Listing[1] = "poi_meter" /\ Listing[2] = "switchgear" /\ Listing[3] = "protective_relay"
      /\ Listing[4] = "transformer" /\ Listing[5] = "lv_switchboard"
      /\ Listing[6] = "compute_module" /\ Listing[7] = "compute_module_h100"
      /\ Listing[8] = "bess_module" /\ Listing[9] = "bess_module_dc"
  BY DEF Listing
<1>3. \A t \in ListedTemplates : \E i \in 1 .. 9 : Listing[i] = t
  BY <1>2 DEF ListedTemplates
<1> QED
  BY <1>1, <1>2, <1>3 DEF ListPlace

LEMMA ListedInOrder ==
  /\ \A a \in ListedTemplates \X Nat : \A b \in ListedTemplates \X Nat :
        /\ a # b => ListedBefore(a, b) \/ ListedBefore(b, a)
        /\ ~(ListedBefore(a, b) /\ ListedBefore(b, a)) /\ ~ListedBefore(a, a)
        /\ ListedBefore(a, b) /\ b[1] = "poi_meter" => a[1] = "poi_meter"
  /\ \A a \in ListedTemplates \X Nat : \A b \in ListedTemplates \X Nat :
        \A c \in ListedTemplates \X Nat :
           ListedBefore(a, b) /\ ListedBefore(b, c) => ListedBefore(a, c)
<1> DEFINE Ids2 == ListedTemplates \X Nat
<1>1. \A a \in Ids2 : /\ ListPlace(a) \in 1 .. 9 /\ Listing[ListPlace(a)] = a[1]
                      /\ a[2] \in Nat /\ a = <<a[1], a[2]>>
  BY ListingNumbered
<1>2. \A a \in Ids2 : ListPlace(a) \in Int /\ a[2] \in Int /\ ListPlace(a) >= 1
  BY <1>1
<1>3. \A a \in Ids2 : \A b \in Ids2 : ListPlace(a) = ListPlace(b) /\ a[2] = b[2] => a = b
  <2> HIDE DEF Ids2
  <2> QED
    BY <1>1
<1>4. \A b \in Ids2 : b[1] = "poi_meter" => ListPlace(b) = 1
  <2> SUFFICES ASSUME NEW b \in Ids2, b[1] = "poi_meter" PROVE ListPlace(b) = 1
    OBVIOUS
  <2>1. DOMAIN Listing = 1 .. 9 /\ Listing[1] = "poi_meter"
        /\ \A i \in 2 .. 9 : Listing[i] # "poi_meter"
    <3>1. \A i \in 2 .. 9 : i = 2 \/ i = 3 \/ i = 4 \/ i = 5 \/ i = 6 \/ i = 7 \/ i = 8 \/ i = 9
      OBVIOUS
    <3>2. /\ Listing[2] = "switchgear" /\ Listing[3] = "protective_relay"
          /\ Listing[4] = "transformer" /\ Listing[5] = "lv_switchboard"
          /\ Listing[6] = "compute_module" /\ Listing[7] = "compute_module_h100"
          /\ Listing[8] = "bess_module" /\ Listing[9] = "bess_module_dc"
      BY DEF Listing
    <3>3. DOMAIN Listing = 1 .. 9 /\ Listing[1] = "poi_meter"
      BY DEF Listing
    <3> QED
      BY <3>1, <3>2, <3>3
  <2> QED
    BY <1>1, <2>1
<1>5. \A a \in Ids2 : ListPlace(a) = 1 => a[1] = "poi_meter"
  BY <1>1, ListingNumbered
<1> HIDE DEF Ids2
<1>6. \A a \in Ids2 : \A b \in Ids2 :
        /\ a # b => ListedBefore(a, b) \/ ListedBefore(b, a)
        /\ ~(ListedBefore(a, b) /\ ListedBefore(b, a)) /\ ~ListedBefore(a, a)
  BY <1>2, <1>3 DEF ListedBefore
<1>7. \A a \in Ids2 : \A b \in Ids2 :
        ListedBefore(a, b) /\ b[1] = "poi_meter" => a[1] = "poi_meter"
  <2> SUFFICES ASSUME NEW a \in Ids2, NEW b \in Ids2, ListedBefore(a, b), b[1] = "poi_meter"
               PROVE  a[1] = "poi_meter"
    OBVIOUS
  <2>1. ListPlace(b) = 1
    BY <1>4
  <2>2. ListPlace(a) = 1
    BY <1>2, <2>1 DEF ListedBefore
  <2> QED
    BY <1>5, <2>2
<1>8. \A a \in Ids2 : \A b \in Ids2 : \A c \in Ids2 :
        ListedBefore(a, b) /\ ListedBefore(b, c) => ListedBefore(a, c)
  BY <1>2 DEF ListedBefore
<1> QED
  BY <1>6, <1>7, <1>8 DEF Ids2

LEMMA PathHasTwoEnds ==
  ASSUME NEW bus, JoinsTwo(bus)
  PROVE  BusPath(bus).from # BusPath(bus).to
<1> DEFINE M == bus.members
           before(d) == {m \in M : ListedBefore(m, d)}
           rank == [d \in M |-> Cardinality(before(d))]
           N == Cardinality(M)
           list == Members(bus)
           from == SourceIndex(list)
           to == IF Len(list) = 2 THEN 3 - from ELSE Len(list)
<1>1. /\ IsFiniteSet(M) /\ \A m \in M : m \in ListedTemplates \X Nat
  BY DEF JoinsTwo
<1>2. /\ \A a \in M : \A b \in M :
            /\ a # b => ListedBefore(a, b) \/ ListedBefore(b, a)
            /\ ~(ListedBefore(a, b) /\ ListedBefore(b, a)) /\ ~ListedBefore(a, a)
            /\ ListedBefore(a, b) /\ b[1] = "poi_meter" => a[1] = "poi_meter"
      /\ \A a \in M : \A b \in M : \A c \in M :
            ListedBefore(a, b) /\ ListedBefore(b, c) => ListedBefore(a, c)
  <2> HIDE DEF M
  <2> QED
    BY <1>1, ListedInOrder
<1>3. N \in Nat /\ N >= 2
  <2>1. PICK a \in M : \E b \in M : a # b
    BY DEF JoinsTwo
  <2>2. PICK b \in M : a # b
    BY <2>1
  <2> HIDE DEF M
  <2>3. N \in Nat
    BY <1>1, FS_CardinalityType
  <2>4. {a} \subseteq M /\ {a} # M
    BY <2>2
  <2>5. Cardinality({a}) < N
    BY <1>1, <2>4, PartIsSmaller
  <2>6. Cardinality({a}) = 1
    BY FS_Singleton
  <2> HIDE DEF N
  <2> QED
    BY <2>3, <2>5, <2>6
<1>4. list = Ranked(M, rank)
  BY DEF Members
<1>5. \A d \in M : rank[d] = Cardinality(before(d))
  OBVIOUS
<1> HIDE DEF M, rank, N, list
<1>6. \A d \in M : before(d) \subseteq M /\ IsFiniteSet(before(d)) /\ rank[d] \in Nat
  BY <1>1, <1>5, PartIsSmaller
<1>7. ASSUME NEW a \in M, NEW b \in M, ListedBefore(a, b)
      PROVE  rank[a] < rank[b]
  <2>1. before(a) \subseteq before(b) /\ a \in before(b) /\ a \notin before(a)
    BY <1>2, <1>7
  <2>2. before(a) # before(b)
    BY <2>1
  <2>3. IsFiniteSet(before(b))
    BY <1>6
  <2>4. before(a) \subseteq before(b)
    BY <2>1
  <2> HIDE DEF before
  <2>5. Cardinality(before(a)) < Cardinality(before(b))
    BY <2>2, <2>3, <2>4, PartIsSmaller
  <2> QED
    BY <1>5, <2>5
<1>8. \A a, b \in M : rank[a] = rank[b] => a = b
  <2> SUFFICES ASSUME NEW a \in M, NEW b \in M, rank[a] = rank[b], a # b PROVE FALSE
    OBVIOUS
  <2>1. rank[a] < rank[b] \/ rank[b] < rank[a]
    BY <1>2, <1>7
  <2>2. rank[a] \in Nat /\ rank[b] \in Nat
    BY <1>6
  <2> HIDE DEF before
  <2> QED
    BY <2>1, <2>2
<1>9. \A i \in 1 .. N : list[i] \in M /\ Cardinality(Below(M, rank, list[i])) = i - 1
  BY <1>1, <1>4, <1>6, <1>8, RankedPlaces DEF N
<1>10. DOMAIN list = 1 .. N /\ Len(list) = N
  <2>1. list = [i \in 1 .. N |->
            CHOOSE d \in M : Cardinality({e \in M : rank[e] < rank[d]}) = i - 1]
    BY <1>4 DEF Ranked, N
  <2>2. DOMAIN list = 1 .. N
    BY <2>1
  <2>3. list \in [1 .. N -> M]
    BY <1>9, <2>1
  <2>4. list \in Seq(M)
    BY <1>3, <2>3, SeqDef
  <2> QED
    BY <1>3, <2>2, <2>4, LenProperties
<1>11. \A i, j \in 1 .. N : i # j => list[i] # list[j]
  BY <1>9
<1>12. from \in 1 .. N
  <2> DEFINE measured == {i \in DOMAIN list : list[i][1] \in MeasuresPower}
  <2>1. from = IF measured = {} THEN 1 ELSE Min(measured)
    BY DEF SourceIndex
  <2>2. measured \in SUBSET Nat /\ measured \subseteq 1 .. N
    BY <1>10
  <2> HIDE DEF measured, from
  <2>3. measured # {} => Min(measured) \in measured
    BY <2>2, Lowest
  <2> QED
    BY <1>3, <2>1, <2>2, <2>3
<1>13. N >= 3 => from # N
  <2> SUFFICES ASSUME N >= 3, from = N PROVE FALSE
    OBVIOUS
  <2> DEFINE measured == {i \in DOMAIN list : list[i][1] \in MeasuresPower}
  <2>1. from = IF measured = {} THEN 1 ELSE Min(measured)
    BY DEF SourceIndex
  <2>2. measured \in SUBSET Nat /\ measured \subseteq 1 .. N
    BY <1>10
  <2>3. \A i \in 1 .. N : i \in measured <=> list[i][1] = "poi_meter"
    <3>1. \A i \in 1 .. N : list[i][1] \in ListedTemplates
      <4>1. \A i \in 1 .. N : list[i] \in ListedTemplates \X Nat
        BY <1>1, <1>9
      <4> QED
        BY <4>1
    <3>2. ListedTemplates \cap MeasuresPower = {"poi_meter"}
      BY DEF ListedTemplates, MeasuresPower
    <3> QED
      BY <1>10, <3>1, <3>2
  <2> HIDE DEF measured, from
  <2>4. measured # {}
    BY <1>3, <2>1
  <2>5. Min(measured) \in measured /\ Min(measured) = N
    BY <2>1, <2>2, <2>4, Lowest
  <2>6. \A j \in measured : N <= j
    <3>1. PICK least \in measured : \A y \in measured : least <= y
      BY <2>2, <2>4, LeastNatural
    <3>2. Min(measured) = CHOOSE x \in measured : \A y \in measured : x <= y
      BY DEF Min
    <3> QED
      BY <2>5, <3>1, <3>2
  <2>7. list[N][1] = "poi_meter"
    BY <1>3, <2>2, <2>3, <2>5
  <2>8. ListedBefore(list[1], list[N])
    <3>1. 1 \in 1 .. N /\ N \in 1 .. N /\ 1 # N
      BY <1>3
    <3>2. list[1] \in M /\ list[N] \in M /\ list[1] # list[N]
      BY <1>9, <1>11, <3>1
    <3>3. Cardinality(Below(M, rank, list[1])) = 0
      BY <1>9, <3>1
    <3>4. list[N] \notin Below(M, rank, list[1])
      <4> DEFINE B == Below(M, rank, list[1])
      <4>1. IsFiniteSet(B)
        BY <1>1, PartIsSmaller DEF Below
      <4>2. Cardinality(B) = 0
        BY <3>3
      <4> HIDE DEF B
      <4>3. B = {}
        BY <4>1, <4>2, FS_EmptySet
      <4> QED
        BY <4>3 DEF B
    <3>5. ~(rank[list[N]] < rank[list[1]])
      BY <3>2, <3>4 DEF Below
    <3> QED
      BY <1>2, <1>7, <3>2, <3>5
  <2>9. list[1][1] = "poi_meter"
    <3>1. list[1] \in M /\ list[N] \in M
      BY <1>3, <1>9
    <3> QED
      BY <1>2, <2>7, <2>8, <3>1
  <2>10. 1 \in measured
    BY <1>3, <2>3, <2>9
  <2> QED
    BY <1>3, <2>6, <2>10
<1>14. to \in 1 .. N /\ to # from
  <2> HIDE DEF from
  <2>1. CASE N = 2
    <3>1. from = 1 \/ from = 2
      BY <1>12, <2>1
    <3> QED
      BY <1>10, <2>1, <3>1
  <2>2. CASE N # 2
    <3>1. N >= 3
      BY <1>3, <2>2
    <3> QED
      BY <1>3, <1>10, <1>13, <2>2, <3>1
  <2> QED
    BY <2>1, <2>2
<1>15. BusPath(bus) = [bus |-> bus.id, from |-> list[from], to |-> list[to]]
  BY DEF BusPath, list
<1> HIDE DEF from, to
<1> QED
  BY <1>11, <1>12, <1>14, <1>15

-----------------------------------------------------------------------------
(***************************************************************************)
(* The one-line: the ranges of its labels are the feeds.                   *)
(***************************************************************************)
LEMMA LabelIs ==
  ASSUME NEW a \in Nat, NEW b \in Nat
  PROVE  ComputeLabel(a .. b) = a .. b
<1>1. CASE a > b
  <2>1. a .. b = {}
    BY <1>1
  <2> QED
    BY <2>1 DEF ComputeLabel
<1>2. CASE a <= b
  <2> DEFINE S == a .. b
  <2>1. a \in S /\ b \in S /\ \A x \in S : a <= x /\ x <= b /\ x \in Int
    BY <1>2
  <2>2. S # {}
    BY <2>1
  <2> HIDE DEF S
  <2>3. Min(S) = a
    <3>1. Min(S) = CHOOSE x \in S : \A y \in S : x <= y
      BY DEF Min
    <3>2. \A x \in S : (\A y \in S : x <= y) => x = a
      BY <2>1
    <3> QED
      BY <2>1, <3>1, <3>2
  <2>4. Max(S) = b
    <3>1. Max(S) = CHOOSE x \in S : \A y \in S : x >= y
      BY DEF Max
    <3>2. \A x \in S : (\A y \in S : x >= y) => x = b
      BY <2>1
    <3>3. \A y \in S : b >= y
      BY <2>1
    <3> QED
      BY <2>1, <3>1, <3>2, <3>3
  <2> QED
    BY <2>2, <2>3, <2>4 DEF ComputeLabel, S
<1> QED
  BY <1>1, <1>2

Share == PerGrid(site.compute, site.grid)

LEMMA FeedsAreRanges ==
  ASSUME order \in Orders, site = Resolution(order)
  PROVE  /\ \E b \in Nat : site.feeds[1] = 1 .. b
         /\ UNION {site.feeds[k] : k \in 2 .. site.grid} = Share + 1 .. site.compute
         /\ Share \in Nat \ {0}
<1> DEFINE c == site.compute
           g == site.grid
           p == Share
<1>1. /\ c \in Nat \ {0} /\ g \in Nat \ {0}
      /\ site.feeds = ComputeFeeds(c, g)
  BY SiteIsSized
<1>2. p \in Nat \ {0} /\ c <= g * p
  <2>1. LET r == Resolution(order)
            most == IF order.variant = "B200" THEN 10 ELSE 12
        IN  /\ PerGrid(r.compute, r.grid) \in 1 .. most
            /\ r.compute <= r.grid * PerGrid(r.compute, r.grid)
    BY FedShare
  <2>2. p \in 1 .. (IF order.variant = "B200" THEN 10 ELSE 12) /\ c <= g * p
    BY <2>1 DEF Share
  <2> QED
    BY <2>2
<1>3. PerGrid(c, g) = p
  BY DEF Share
<1>4. \A n \in 1 .. c : Cardinality({k \in 1 .. g : n \in site.feeds[k]}) = 1
  <2> HIDE DEF c, g, p
  <2> QED
    BY <1>1, <1>2, <1>3, SliceOfContainer
<1>5. \A k \in 1 .. g : site.feeds[k] = {n \in 1 .. c : (k - 1) * p < n /\ n <= k * p}
  <2> HIDE DEF c, g, p
  <2> QED
    BY <1>1, <1>3 DEF ComputeFeeds
<1> HIDE DEF c, g, p
<1>6. \A n : n \in site.feeds[1] <=> n \in 1 .. c /\ n <= p
  <2>1. 1 \in 1 .. g
    BY <1>1
  <2>2. site.feeds[1] = {n \in 1 .. c : (1 - 1) * p < n /\ n <= 1 * p}
    BY <1>5, <2>1
  <2>3. (1 - 1) * p = 0 /\ 1 * p = p
    BY <1>2
  <2> QED
    BY <1>1, <1>2, <2>2, <2>3
<1>7. \E b \in Nat : site.feeds[1] = 1 .. b
  <2>1. CASE p <= c
    <3>1. \A n : n \in site.feeds[1] <=> n \in 1 .. p
      BY <1>1, <1>2, <1>6, <2>1
    <3> QED
      BY <1>2, <3>1
  <2>2. CASE c < p
    <3>1. \A n : n \in site.feeds[1] <=> n \in 1 .. c
      BY <1>1, <1>2, <1>6, <2>2
    <3> QED
      BY <1>1, <3>1
  <2> QED
    BY <1>1, <1>2, <2>1, <2>2
<1>8. \A n \in 1 .. c : (\E k \in 2 .. g : n \in site.feeds[k]) <=> n > p
  <2> SUFFICES ASSUME NEW n \in 1 .. c
               PROVE  (\E k \in 2 .. g : n \in site.feeds[k]) <=> n > p
    OBVIOUS
  <2> DEFINE K == {k \in 1 .. g : n \in site.feeds[k]}
  <2>1. Cardinality(K) = 1
    BY <1>4
  <2>2. K \subseteq 1 .. g
    OBVIOUS
  <2>3. IsFiniteSet(K)
    <3>1. 1 \in Int /\ g \in Int
      BY <1>1
    <3>2. IsFiniteSet(1 .. g)
      BY <3>1, FS_Interval
    <3> QED
      BY <2>2, <3>2, PartIsSmaller
  <2>4. \A k \in 1 .. g : k \in K <=> n \in site.feeds[k]
    OBVIOUS
  <2> HIDE DEF K
  <2>5. PICK j : K = {j}
    BY <2>1, <2>3, FS_Singleton
  <2>6. 1 \in K <=> n <= p
    BY <1>1, <1>6, <2>4
  <2>7. (\E k \in 2 .. g : n \in site.feeds[k]) <=> \E k \in K : k # 1
    <3>1. ASSUME NEW k \in 2 .. g, n \in site.feeds[k]
          PROVE  k \in K /\ k # 1
      BY <2>4, <3>1
    <3>2. ASSUME NEW k \in K, k # 1
          PROVE  k \in 2 .. g /\ n \in site.feeds[k]
      BY <2>2, <2>4, <3>2
    <3> QED
      BY <3>1, <3>2
  <2>8. n > p <=> ~(n <= p)
    BY <1>1, <1>2
  <2> QED
    BY <2>5, <2>6, <2>7, <2>8
<1>9. UNION {site.feeds[k] : k \in 2 .. g} = p + 1 .. c
  <2>1. \A k \in 2 .. g : site.feeds[k] \subseteq 1 .. c
    BY <1>5
  <2>2. \A n : n \in UNION {site.feeds[k] : k \in 2 .. g}
                 <=> n \in 1 .. c /\ \E k \in 2 .. g : n \in site.feeds[k]
    BY <2>1
  <2>3. \A n : n \in UNION {site.feeds[k] : k \in 2 .. g} <=> n \in 1 .. c /\ n > p
    BY <1>8, <2>2
  <2>4. \A n : n \in p + 1 .. c <=> n \in 1 .. c /\ n > p
    BY <1>1, <1>2
  <2> QED
    BY <2>3, <2>4
<1> QED
  BY <1>2, <1>7, <1>9 DEF p, c, g

FedOver(grids) == {r.to[2] : r \in {c \in cables : c.kind = "feeder" /\ c.from[2] \in grids}}

LEMMA FedOverAre ==
  ASSUME ManifestInv, ScheduleInv, stage \in Scheduled, Complete, NEW K
  PROVE  FedOver(K) = UNION {site.feeds[k] : k \in K \cap (1 .. site.grid)}
<1>1. cables = CablesNow
  BY DEF ScheduleInv
<1>2. \A r \in cables : r.kind = "feeder" <=> r \in FeederCables
  <2>1. \A r \in ComputeCables : r.kind # "feeder"
    BY CableKindsAre DEF ComputeCables
  <2> QED
    BY <1>1, <2>1, CableKindsAre DEF CablesNow
<1>3. FeederCables \subseteq cables
  BY <1>1 DEF CablesNow
<1>4. ASSUME NEW j \in 1 .. site.grid, NEW m \in site.feeds[j]
      PROVE  LET r == Run("feeder", Child("G", j, Swbd), Child("C", m, Pnl))
             IN  r.from[2] = j /\ r.to[2] = m
  <2>1. Child("G", j, Swbd).tag = <<"G", j, "SWBD", 1>>
    BY SwbdIs
  <2>2. m \in 1 .. site.compute
    BY ScheduledSite DEF ComputeFeeds
  <2>3. Child("C", m, Pnl).tag = <<"C", m, "PNL", 1>>
    BY <2>2, PnlIs
  <2>4. LET r == Run("feeder", Child("G", j, Swbd), Child("C", m, Pnl))
        IN  r.from = <<"G", j, "SWBD", 1>> /\ r.to = <<"C", m, "PNL", 1>>
    BY <2>1, <2>3, RunIs DEF RunFields
  <2> QED
    BY <2>4
<1>5. ASSUME NEW n \in FedOver(K)
      PROVE  n \in UNION {site.feeds[k] : k \in K \cap (1 .. site.grid)}
  <2>1. PICK r \in cables : r.kind = "feeder" /\ r.from[2] \in K /\ n = r.to[2]
    BY DEF FedOver
  <2>2. PICK j \in 1 .. site.grid : \E m \in site.feeds[j] :
           r = Run("feeder", Child("G", j, Swbd), Child("C", m, Pnl))
    BY <1>2, <2>1, FeedersAre
  <2>3. PICK m \in site.feeds[j] : r = Run("feeder", Child("G", j, Swbd), Child("C", m, Pnl))
    BY <2>2
  <2>4. r.from[2] = j /\ r.to[2] = m
    BY <1>4, <2>3
  <2> QED
    BY <2>1, <2>4
<1>6. ASSUME NEW k \in K \cap (1 .. site.grid), NEW n \in site.feeds[k]
      PROVE  n \in FedOver(K)
  <2> DEFINE r == Run("feeder", Child("G", k, Swbd), Child("C", n, Pnl))
  <2>1. r \in FeederCables
    BY FeedersAre
  <2>2. r.from[2] = k /\ r.to[2] = n
    BY <1>4
  <2> HIDE DEF r
  <2>3. r \in cables /\ r.kind = "feeder"
    BY <1>2, <1>3, <2>1
  <2> QED
    BY <2>2, <2>3 DEF FedOver
<1> QED
  BY <1>5, <1>6

LEMMA OneLineIs ==
  ASSUME ManifestInv, ScheduleInv, stage \in Scheduled, Complete
  PROVE  SiteOneLine.primary = FedOver({1}) /\ SiteOneLine.rest = FedOver(2 .. site.grid)
<1>1. /\ order \in Orders /\ site = Resolution(order) /\ site.grid \in Nat \ {0}
      /\ site.compute \in Nat \ {0}
      /\ site.feeds = ComputeFeeds(site.compute, site.grid)
  BY ScheduledSite
<1>2. /\ SiteOneLine.primary = ComputeLabel(site.feeds[1])
      /\ SiteOneLine.rest = ComputeLabel(UNION {site.feeds[k] : k \in 2 .. site.grid})
  BY <1>1 DEF SiteOneLine
<1>3. SiteOneLine.primary = site.feeds[1]
  <2>1. PICK b \in Nat : site.feeds[1] = 1 .. b
    BY <1>1, FeedsAreRanges
  <2> QED
    BY <1>2, <2>1, LabelIs
<1>4. SiteOneLine.rest = UNION {site.feeds[k] : k \in 2 .. site.grid}
  <2>1. /\ UNION {site.feeds[k] : k \in 2 .. site.grid} = Share + 1 .. site.compute
        /\ Share + 1 \in Nat /\ site.compute \in Nat
    BY <1>1, FeedsAreRanges
  <2> QED
    BY <1>2, <2>1, LabelIs
<1>5. FedOver({1}) = site.feeds[1]
  <2>1. {1} \cap (1 .. site.grid) = {1}
    BY <1>1
  <2>2. FedOver({1}) = UNION {site.feeds[k] : k \in {1}}
    BY <2>1, FedOverAre
  <2> QED
    BY <2>2
<1>6. FedOver(2 .. site.grid) = UNION {site.feeds[k] : k \in 2 .. site.grid}
  <2>1. (2 .. site.grid) \cap (1 .. site.grid) = 2 .. site.grid
    BY <1>1
  <2>2. FedOver(2 .. site.grid) = UNION {site.feeds[k] : k \in (2 .. site.grid) \cap (1 .. site.grid)}
    BY FedOverAre
  <2> QED
    BY <2>1, <2>2
<1> QED
  BY <1>3, <1>4, <1>5, <1>6

LEMMA PcsAreLeaves ==
  ASSUME ManifestInv, ScheduleInv, stage \in Scheduled
  PROVE  BuiltOf("pcs") = {d \in devices : d.template \in {"pcs"}}
<1>0. options \in Options /\ SiteInv /\ release \in Releases
  BY ScheduledSite
<1>1. ASSUME NEW d \in devices, d.template = "pcs"
      PROVE  d.parent # None
  <2>2. d.parent = None => d \in Pad
    <3>1. Placed(d)
      BY <1>0, DevicesPlaced
    <3>2. ~(\E box \in Boxes : \E no \in 1 .. counter[ModT(box)] : d = ModuleOf(box, no))
      BY <1>1, ModuleFields, ModTIsIn, TemplatesApart DEF PadTemplates
    <3>3. ~IsEntry(d)
      <4> SUFFICES ASSUME IsEntry(d) PROVE FALSE
        OBVIOUS
      <4>1. PICK box \in Boxes : \E no \in 1 .. counter[ModT(box)] :
               \E e \in KeptEntries(box, no) : \E n \in 1 .. counter[e.template] :
                  d = EntryDevice(box, no, e, n)
        BY DEF IsEntry
      <4>2. PICK no \in 1 .. counter[ModT(box)] :
               \E e \in KeptEntries(box, no) : \E n \in 1 .. counter[e.template] :
                  d = EntryDevice(box, no, e, n)
        BY <4>1
      <4>3. PICK e \in KeptEntries(box, no) : \E n \in 1 .. counter[e.template] :
                  d = EntryDevice(box, no, e, n)
        BY <4>2
      <4>4. d.template = e.template /\ e.template \in LeafTemplates
        BY <4>3, EntryFields, KeptEntriesAre, ScheduledSite DEF KeptAreEntries
      <4> QED
        BY <1>1, <4>4, TemplatesApart DEF PadTemplates
    <3>4. "pcs" \notin UtilityTemplates
      BY DEF UtilityTemplates
    <3> QED
      BY <1>1, <3>1, <3>2, <3>3, <3>4, PadDevices, <1>0 DEF Placed, IsModule
  <2>3. d \in Pad => d = PadModule \/ d.parent = PadModule.id
    BY <1>0, PadDevices
  <2>4. PadModule.id # None /\ PadModule.template # "pcs"
    BY PadModuleFields, NoneAssumption
  <2> QED
    BY <1>1, <2>2, <2>3, <2>4
<1> QED
  BY <1>1 DEF BuiltOf, Leaves

\* The PCS drawn are those on the pad.
LEMMA PcsDrawn ==
  ASSUME ManifestInv, ScheduleInv, BomInv, BillInv, stage \in Scheduled \cap Billed, Complete
  PROVE  SiteOneLine.pcs = Emitted({"pcs"})
<1>1. order \in Orders /\ options \in Options /\ SiteInv
  BY ScheduledSite
<1>2. SiteOneLine.pcs = IF options.coupling # "dc_external_pcs" THEN 0
                        ELSE QtyOf(BilledOf("pcs"))
  BY DEF SiteOneLine, BilledOf
<1>3. CASE Pcss # 0
  <2>1. options.coupling = "dc_external_pcs"
    BY <1>3 DEF Pcss
  <2>2. QtyOf(BilledOf("pcs")) = Cardinality(BuiltOf("pcs"))
    BY <1>3, BilledPcs
  <2>3. BuiltOf("pcs") = {d \in devices : d.template \in {"pcs"}}
    BY PcsAreLeaves
  <2> QED
    BY <1>2, <2>1, <2>2, <2>3 DEF Emitted
<1>4. CASE Pcss = 0
  <2>1. options.coupling # "dc_external_pcs"
    BY <1>1, <1>4 DEF Pcss, Options
  <2>2. BuiltOf("pcs") = {}
    <3> SUFFICES ASSUME NEW d \in BuiltOf("pcs") PROVE FALSE
      OBVIOUS
    <3>1. d \in Leaves /\ d.template = "pcs"
      BY DEF BuiltOf
    <3>2. \/ \E box \in Boxes : d.template \in LeavesIn(box)
          \/ \E n \in 1 .. Pcss : d = PadPcs(n)
      BY <3>1, LeavesAre
    <3>3. \A box \in Boxes : "pcs" \notin LeavesIn(box)
      BY DEF Boxes, LeavesIn, ComputeLeaves, GridLeaves, LeafTemplates
    <3> QED
      BY <1>4, <3>1, <3>2, <3>3
  <2>3. {d \in devices : d.template \in {"pcs"}} = {}
    BY <2>2, PcsAreLeaves
  <2> QED
    BY <1>2, <2>1, <2>3, FS_EmptySet DEF Emitted
<1> QED
  BY <1>3, <1>4

-----------------------------------------------------------------------------
(***************************************************************************)
(* The management network: what a sheet draws on a switch is patched to    *)
(* it.                                                                     *)
(***************************************************************************)
\* Only a module has the template of one.
LEMMA KindedAre ==
  ASSUME ManifestInv, ScheduleInv, stage \in Scheduled,
         NEW d \in devices, Kind(d.template) # "none"
  PROVE  IsModule(d) \/ d = PadModule
<1>1. release \in Releases /\ options \in Options /\ SiteInv
  BY ScheduledSite
<1>2. Placed(d)
  BY <1>1, DevicesPlaced
<1>3. ~IsEntry(d)
  <2> SUFFICES ASSUME IsEntry(d) PROVE FALSE
    OBVIOUS
  <2>1. PICK box \in Boxes : \E no \in 1 .. counter[ModT(box)] :
           \E e \in KeptEntries(box, no) : \E n \in 1 .. counter[e.template] :
              d = EntryDevice(box, no, e, n)
    BY DEF IsEntry
  <2>2. PICK no \in 1 .. counter[ModT(box)] :
           \E e \in KeptEntries(box, no) : \E n \in 1 .. counter[e.template] :
              d = EntryDevice(box, no, e, n)
    BY <2>1
  <2>3. PICK e \in KeptEntries(box, no) : \E n \in 1 .. counter[e.template] :
              d = EntryDevice(box, no, e, n)
    BY <2>2
  <2>4. d.template = e.template /\ e.template \in LeafTemplates
    BY <1>1, <2>3, EntryFields, KeptEntriesAre DEF KeptAreEntries
  <2> QED
    BY <2>4, KindsHold DEF KindsAre
<1>4. ~(d \in Pad /\ d.parent = PadModule.id)
  <2> SUFFICES ASSUME d \in Pad, d.parent = PadModule.id
               PROVE  FALSE
    OBVIOUS
  <2>1. d # PadModule
    BY PadModuleFields, NoneAssumption
  <2>2. d.template \in {"bess_rack", "bess_catl", "pcs"}
    BY <1>1, <2>1, PadIs, PadLeafFields
  <2> QED
    BY <2>2 DEF Kind, ComputeModules
<1> QED
  BY <1>2, <1>3, <1>4, KindsHold DEF Placed, KindsAre

LEMMA BatteryIs ==
  ASSUME ManifestInv, ScheduleInv, stage \in Scheduled
  PROVE  BatteryModules = {PadModule}
<1>1. release \in Releases /\ options \in Options /\ SiteInv
  BY ScheduledSite
<1>2. PadModule \in devices /\ Kind(PadModule.template) = "bess"
  BY <1>1, PlacedAreDevices, KindsHold DEF KindsAre
<1>3. ASSUME NEW d \in devices, Kind(d.template) = "bess"
      PROVE  d = PadModule
  <2>1. IsModule(d) => \E box \in Boxes : d.template = ModT(box)
    BY ModuleFields DEF IsModule
  <2>2. \A box \in Boxes : Kind(ModT(box)) # "bess"
    BY KindsHold DEF KindsAre, KindOf, Boxes
  <2> QED
    BY <1>3, <2>1, <2>2, KindedAre
<1> QED
  BY <1>2, <1>3 DEF BatteryModules

LEMMA FirstComputeIs ==
  ASSUME ManifestInv, ScheduleInv, stage \in Scheduled, Complete
  PROVE  FirstComputeModule = ModuleOf("C", 1)
<1>1. /\ release \in Releases /\ options \in Options /\ SiteInv
      /\ site.compute \in Nat \ {0}
  BY ScheduledSite
<1>2. counter[ModT("C")] = site.compute
  BY <1>1 DEF SiteInv
<1> DEFINE first == ModuleOf("C", 1)
           found == {e \in devices : e.template \in ComputeModules}
<1>3. \A d \in found : \E no \in 1 .. site.compute : d = ModuleOf("C", no)
  <2> SUFFICES ASSUME NEW d \in devices, d.template \in ComputeModules
               PROVE  \E no \in 1 .. site.compute : d = ModuleOf("C", no)
    OBVIOUS
  <2>1. Kind(d.template) = "compute"
    BY DEF Kind, ComputeModules
  <2>2. d # PadModule
    BY <2>1, KindsHold DEF KindsAre
  <2>3. IsModule(d)
    BY <2>1, <2>2, KindedAre
  <2>4. PICK box \in Boxes : \E no \in 1 .. counter[ModT(box)] : d = ModuleOf(box, no)
    BY <2>3 DEF IsModule
  <2>5. d.template = ModT(box)
    BY <2>4, ModuleFields
  <2>6. box = "C"
    BY <2>1, <2>5, KindsHold DEF KindsAre, KindOf, Boxes
  <2> QED
    BY <1>2, <2>4, <2>6
<1>4. \A no \in 1 .. site.compute : /\ ModuleOf("C", no) \in found
                                    /\ ModuleOf("C", no).template = ModT("C")
                                    /\ ModuleOf("C", no).id[2] = no
  <2>1. ModT("C") \in ComputeModules
    BY ModTIsIn DEF Boxes, ModulesIn
  <2>2. \A no \in 1 .. site.compute : ModuleOf("C", no) \in devices
    BY <1>1, <1>2, PlacedAreDevices DEF Boxes
  <2>3. \A no : ModuleOf("C", no).template = ModT("C") /\ ModuleOf("C", no).id = <<ModT("C"), no>>
    BY ModuleFields
  <2> QED
    BY <2>1, <2>2, <2>3
<1>5. 1 \in 1 .. site.compute
  BY <1>1
<1>6. FirstComputeModule =
        CHOOSE d \in found : \A e \in devices : e.template = d.template => d.id[2] <= e.id[2]
  BY DEF FirstComputeModule
<1>7. \A e \in devices : e.template = ModT("C") => e \in found
  <2>1. ModT("C") \in ComputeModules
    BY ModTIsIn DEF Boxes, ModulesIn
  <2> QED
    BY <2>1
<1>8. found \subseteq devices
  OBVIOUS
<1> HIDE DEF found
<1>9. \A e \in devices : e.template = first.template => first.id[2] <= e.id[2]
  <2> SUFFICES ASSUME NEW e \in devices, e.template = ModT("C")
               PROVE  1 <= e.id[2]
    BY <1>4, <1>5
  <2>1. PICK no \in 1 .. site.compute : e = ModuleOf("C", no)
    BY <1>3, <1>7
  <2> QED
    BY <1>1, <1>4, <2>1
<1>10. ASSUME NEW d \in found, \A e \in devices : e.template = d.template => d.id[2] <= e.id[2]
       PROVE  d = first
  <2>1. PICK no \in 1 .. site.compute : d = ModuleOf("C", no)
    BY <1>3
  <2>2. no <= 1
    BY <1>4, <1>5, <1>8, <1>10, <2>1
  <2>3. no = 1
    BY <1>1, <2>2
  <2> QED
    BY <2>1, <2>3
<1> QED
  BY <1>4, <1>5, <1>6, <1>9, <1>10

\* The switch of a container and the container's place in the schedule.
SwitchTag(box, no) == <<box, no, "SW-MGMT", 1>>
LEMMA ContainerSwitch ==
  ASSUME ManifestInv, ScheduleInv, stage \in Scheduled, Complete,
         NEW box \in Boxes, NEW no \in 1 .. CountIn(box)
  PROVE  /\ no \in 1 .. counter[ModT(box)]
         /\ ModuleOf(box, no) \in Modules /\ ModuleOf(box, no) # PadModule
         /\ SwitchOf(ModuleOf(box, no)) = One(ModuleOf(box, no), MgmtSwitches)
         /\ One(ModuleOf(box, no), MgmtSwitches) # None
         /\ One(ModuleOf(box, no), MgmtSwitches).tag = SwitchTag(box, no)
<1>1. /\ release \in Releases /\ options \in Options /\ SiteInv /\ order \in Orders
      /\ site = Resolution(order)
  BY ScheduledSite
<1>2. no \in 1 .. counter[ModT(box)]
  BY CountsInBoxes
<1>3. ModuleOf(box, no) \in Modules
  BY <1>1, <1>2, ModulesOfSite
<1>4. ModuleOf(box, no) # PadModule
  <2>1. ModuleOf(box, no).tag = <<box, no, Itself, 0>> /\ PadModule.tag = <<"BESS", 0, Itself, 0>>
    BY ModuleFields, PadModuleFields
  <2> QED
    BY <2>1 DEF Boxes
<1> QED
  BY <1>1, <1>2, <1>3, <1>4, SwitchesAre, SwitchIsThere DEF SwitchTag

LEMMA SiteModules ==
  ASSUME ManifestInv, ScheduleInv, stage \in Scheduled, Complete, NEW m \in Modules, m # PadModule
  PROVE  \E box \in Boxes : \E no \in 1 .. CountIn(box) : m = ModuleOf(box, no)
<1>1. release \in Releases /\ options \in Options /\ SiteInv
  BY ScheduledSite
<1>2. PICK box \in Boxes : \E no \in 1 .. counter[ModT(box)] : m = ModuleOf(box, no)
  BY <1>1, ModulesOfSite
<1>3. counter[ModT(box)] = CountIn(box)
  BY CountsInBoxes
<1> QED
  BY <1>2, <1>3

PatchedTo(box, no) ==
    {r.from : r \in {c \in cables : c.port # 0 /\ c.to = Tag(box, no, "SW-MGMT", 1)}}
PolledTags(m) == {d.tag : d \in Polled(m)}

LEMMA PatchedAre ==
  ASSUME ManifestInv, ScheduleInv, stage \in Scheduled, Complete,
         NEW box \in Boxes, NEW no \in 1 .. CountIn(box)
  PROVE  PatchedTo(box, no) =
            PolledTags(ModuleOf(box, no))
              \cup (IF box = "G" /\ no = 1 THEN PolledTags(PadModule) ELSE {})
<1> DEFINE m == ModuleOf(box, no)
<1>0. /\ release \in Releases /\ options \in Options /\ SiteInv /\ site.grid \in Nat \ {0}
  BY ScheduledSite
<1>1. \A r : r \in cables /\ r.port # 0 <=> \E d \in devices : d.polled /\ r = PatchOf(d)
  <2>1. PatchCables \subseteq cables
    BY DEF ScheduleInv, CablesNow
  <2>2. \A r \in cables : r.port # 0 <=> r \in PatchCables
    BY CablesLand
  <2>3. PatchCables = {PatchOf(d) : d \in {e \in devices : e.polled}}
    BY PatchesAre
  <2> QED
    BY <2>1, <2>2, <2>3
<1>2. /\ 1 \in 1 .. CountIn("G") /\ "G" \in Boxes
      /\ ModuleOf("G", 1) \in Modules
      /\ One(ModuleOf("G", 1), MgmtSwitches).tag = SwitchTag("G", 1)
  <2>1. 1 \in 1 .. CountIn("G") /\ "G" \in Boxes
    BY <1>0 DEF CountIn, Boxes
  <2> QED
    BY <2>1, ContainerSwitch
<1>3. /\ m \in Modules /\ m # PadModule
  BY ContainerSwitch
<1>4. PadModule \in Modules
  BY <1>0, ModulesOfSite
<1>5. ASSUME NEW d \in devices, d.polled
      PROVE  /\ Home(d) = PadModule => PatchOf(d).to = SwitchTag("G", 1)
             /\ Home(d) # PadModule =>
                   \E b \in Boxes : \E n \in 1 .. CountIn(b) :
                      Home(d) = ModuleOf(b, n) /\ PatchOf(d).to = SwitchTag(b, n)
  <2>1. Home(d) \in Modules /\ PatchOf(d).to = SwitchOf(Home(d)).tag
    BY <1>0, <1>5, HomesAre, PatchIs
  <2>2. Home(d) = PadModule => PatchOf(d).to = SwitchTag("G", 1)
    BY <1>2, <1>4, <2>1, SwitchesAre
  <2>3. ASSUME Home(d) # PadModule
        PROVE  \E b \in Boxes : \E n \in 1 .. CountIn(b) :
                  Home(d) = ModuleOf(b, n) /\ PatchOf(d).to = SwitchTag(b, n)
    <3>1. PICK b \in Boxes : \E n \in 1 .. CountIn(b) : Home(d) = ModuleOf(b, n)
      BY <2>1, <2>3, SiteModules
    <3>2. PICK n \in 1 .. CountIn(b) : Home(d) = ModuleOf(b, n)
      BY <3>1
    <3>3. SwitchOf(ModuleOf(b, n)).tag = SwitchTag(b, n)
      BY ContainerSwitch
    <3> QED
      BY <2>1, <3>2, <3>3
  <2> QED
    BY <2>2, <2>3
<1>6. \A b, n, c, k : SwitchTag(b, n) = SwitchTag(c, k) <=> b = c /\ n = k
  BY DEF SwitchTag
<1>7. \A mm : \A d : d \in Polled(mm) => d \in devices /\ d.polled
  BY DEF Polled, ChildrenOf
<1>8. ASSUME NEW d \in devices, d.polled
      PROVE  PatchOf(d).to = SwitchTag(box, no) <=>
                d \in Polled(m) \/ (box = "G" /\ no = 1 /\ d \in Polled(PadModule))
  <2>1. /\ d \in Polled(m) <=> Home(d) = m
        /\ d \in Polled(PadModule) <=> Home(d) = PadModule
    BY <1>0, <1>3, <1>4, <1>8, HomesAre
  <2>2. CASE Home(d) = PadModule
    <3>1. PatchOf(d).to = SwitchTag("G", 1)
      BY <1>5, <1>8, <2>2
    <3> QED
      BY <1>3, <1>6, <2>1, <2>2, <3>1
  <2>3. CASE Home(d) # PadModule
    <3>1. PICK b \in Boxes : \E n \in 1 .. CountIn(b) :
             Home(d) = ModuleOf(b, n) /\ PatchOf(d).to = SwitchTag(b, n)
      BY <1>5, <1>8, <2>3
    <3>2. PICK n \in 1 .. CountIn(b) :
             Home(d) = ModuleOf(b, n) /\ PatchOf(d).to = SwitchTag(b, n)
      BY <3>1
    <3>3. ModuleOf(b, n) = m <=> b = box /\ n = no
      <4>1. /\ ModuleOf(b, n).tag = <<b, n, Itself, 0>>
            /\ ModuleOf(box, no).tag = <<box, no, Itself, 0>>
        BY ModuleFields
      <4> QED
        BY <4>1
    <3> QED
      BY <1>6, <2>1, <2>3, <3>2, <3>3
  <2> QED
    BY <2>2, <2>3
<1>9. \A x : x \in PatchedTo(box, no) <=>
          \E d \in devices : d.polled /\ PatchOf(d).to = SwitchTag(box, no) /\ x = d.tag
  <2>1. ASSUME NEW x \in PatchedTo(box, no)
        PROVE  \E d \in devices : d.polled /\ PatchOf(d).to = SwitchTag(box, no) /\ x = d.tag
    <3>1. PICK r \in cables : r.port # 0 /\ r.to = SwitchTag(box, no) /\ x = r.from
      BY DEF PatchedTo, Tag, SwitchTag
    <3>2. PICK d \in devices : d.polled /\ r = PatchOf(d)
      BY <1>1, <3>1
    <3> QED
      BY <3>1, <3>2, PatchIs
  <2>2. ASSUME NEW d \in devices, d.polled, PatchOf(d).to = SwitchTag(box, no)
        PROVE  d.tag \in PatchedTo(box, no)
    <3>1. PatchOf(d) \in cables /\ PatchOf(d).port # 0
      BY <1>1, <2>2
    <3>2. PatchOf(d).from = d.tag
      BY <2>2, PatchIs
    <3>3. PatchOf(d) \in {c \in cables : c.port # 0 /\ c.to = Tag(box, no, "SW-MGMT", 1)}
      BY <2>2, <3>1 DEF Tag, SwitchTag
    <3> QED
      BY <3>2, <3>3 DEF PatchedTo
  <2> QED
    BY <2>1, <2>2
<1>10. \A x : x \in PolledTags(m) <=> \E d \in Polled(m) : x = d.tag
  BY DEF PolledTags
<1>11. \A x : x \in PolledTags(PadModule) <=> \E d \in Polled(PadModule) : x = d.tag
  BY DEF PolledTags
<1> HIDE DEF m
<1>12. ASSUME NEW x \in PatchedTo(box, no)
       PROVE  x \in PolledTags(m) \/ (box = "G" /\ no = 1 /\ x \in PolledTags(PadModule))
  <2>1. PICK d \in devices : d.polled /\ PatchOf(d).to = SwitchTag(box, no) /\ x = d.tag
    BY <1>9
  <2> QED
    BY <1>8, <1>10, <1>11, <2>1
<1>13. ASSUME NEW x, x \in PolledTags(m) \/ (box = "G" /\ no = 1 /\ x \in PolledTags(PadModule))
       PROVE  x \in PatchedTo(box, no)
  <2>1. PICK d : /\ x = d.tag
                 /\ d \in Polled(m) \/ (box = "G" /\ no = 1 /\ d \in Polled(PadModule))
    BY <1>10, <1>11, <1>13
  <2>2. d \in devices /\ d.polled
    BY <1>7, <2>1
  <2> QED
    BY <1>8, <1>9, <2>1, <2>2
<1>14. PatchedTo(box, no) =
            PolledTags(m) \cup (IF box = "G" /\ no = 1 THEN PolledTags(PadModule) ELSE {})
  BY <1>12, <1>13
<1> QED
  BY <1>14 DEF m

LEMMA NetworkedAre ==
  ASSUME NEW m
  PROVE  Networked(m.id) = PolledTags(m)
BY DEF Networked, PolledTags, Polled, ChildrenOf

LEMMA BatteryNetworked ==
  ASSUME ManifestInv, ScheduleInv, stage \in Scheduled
  PROVE  SiteNetwork.battery = PolledTags(PadModule)
<1>1. options \in Options /\ SiteInv
  BY ScheduledSite
<1>2. {m.id : m \in BatteryModules} = {PadModule.id}
  BY BatteryIs
<1>3. SiteNetwork.battery = {d.tag : d \in {e \in devices : e.parent \in {m.id : m \in BatteryModules}}}
  BY DEF SiteNetwork
<1>4. {e \in devices : e.parent \in {PadModule.id}} = Polled(PadModule)
  <2>1. \A d \in devices : d.parent = PadModule.id => d \in Pad /\ d # PadModule
    BY <1>1, PadChildrenAre, PadModuleFields, NoneAssumption
  <2>2. Polled(PadModule) = Pad \ {PadModule}
    BY <1>1, PadChildrenAre
  <2>3. \A d \in Polled(PadModule) : d \in devices /\ d.parent = PadModule.id
    BY DEF Polled, ChildrenOf
  <2> QED
    BY <2>1, <2>2, <2>3
<1> QED
  BY <1>2, <1>3, <1>4 DEF PolledTags

\* A feeder container polls its relay alone.
LEMMA FeederPolls ==
  ASSUME ManifestInv, ScheduleInv, stage \in Scheduled, Complete, NEW k \in 2 .. site.grid
  PROVE  PatchedTo("G", k) = {Tag("G", k, "RLY", 1)}
<1>1. /\ release \in Releases /\ options \in Options /\ SiteInv
      /\ site.grid \in Nat \ {0} /\ release.primary /\ Len(GridVariants) = site.grid
  BY ScheduledSite
<1>2. k \in 1 .. site.grid /\ k # 1 /\ k \in 1 .. CountIn("G") /\ "G" \in Boxes
  BY <1>1 DEF CountIn, Boxes
<1>3. PatchedTo("G", k) = PolledTags(ModuleOf("G", k))
  BY <1>2, PatchedAre
<1>4. KeptEntries("G", k) = FeederEntries
  <2>1. GridVariants[k] \in release.topology
    BY <1>1, <1>2, GridVariantsAre DEF Complete
  <2>2. KeptEntries("G", k) = GridEntries(k)
    BY <1>1, <1>2, <2>1, KeptInContainer
  <2> QED
    BY <1>2, <2>2 DEF GridEntries
<1> DEFINE rly == Entry("RLY", 1, "protective_relay", TRUE)
<1>5. /\ rly \in FeederEntries /\ rly.polled /\ rly.name = "RLY" /\ rly.k = 1
      /\ \A e \in FeederEntries : e.polled => e = rly
  BY DEF FeederEntries, Entry
<1> HIDE DEF rly
<1>6. Holds("G", k)
  <2>1. k \in 1 .. counter[ModT("G")]
    BY <1>2, ContainerSwitch
  <2> QED
    BY <1>1, <1>2, <2>1, ChildrenAre
<1>7. Polled(ModuleOf("G", k)) = {Child("G", k, rly)}
  <2>1. Child("G", k, rly) \in ChildrenOf(ModuleOf("G", k)) /\ Child("G", k, rly).polled
    BY <1>4, <1>5, <1>6 DEF Holds
  <2>2. ASSUME NEW d \in ChildrenOf(ModuleOf("G", k)), d.polled
        PROVE  d = Child("G", k, rly)
    <3>1. PICK e \in KeptEntries("G", k) : d = Child("G", k, e)
      BY <1>6 DEF Holds
    <3>2. Child("G", k, e).polled = e.polled
      BY <1>6 DEF Holds
    <3>3. e.polled
      BY <2>2, <3>1, <3>2
    <3> QED
      BY <1>4, <1>5, <3>1, <3>3
  <2> QED
    BY <2>1, <2>2 DEF Polled
<1>8. Child("G", k, rly).tag = Tag("G", k, "RLY", 1)
  BY <1>4, <1>5, <1>6 DEF Holds, Tag
<1> QED
  BY <1>3, <1>7, <1>8 DEF PolledTags

LEMMA G1Is ==
  ASSUME ManifestInv, ScheduleInv, stage \in Scheduled, Complete
  PROVE  /\ G1 = One(ModuleOf("G", 1), MgmtSwitches)
         /\ G1 # None /\ G1.tag = SwitchTag("G", 1)
         /\ ModuleOf("G", 1) \in Modules
<1>1. /\ release \in Releases /\ options \in Options /\ SiteInv
      /\ site.grid \in Nat \ {0} /\ Len(GridVariants) = site.grid
  BY ScheduledSite
<1>2. ~NoGrid
  BY DEF ScheduleInv
<1>3. 1 \in 1 .. site.grid /\ 1 \in 1 .. CountIn("G") /\ "G" \in Boxes
  BY <1>1 DEF CountIn, Boxes
<1>4. Containers("grid")[1] = ModuleOf("G", 1)
  <2>1. Containers("grid") = [k \in 1 .. site.grid |-> ModuleOf("G", k)]
    BY <1>1, ContainersAre
  <2> QED
    BY <1>3, <2>1
<1>5. G1 = One(ModuleOf("G", 1), MgmtSwitches)
  BY <1>2, <1>4 DEF G1
<1> QED
  BY <1>3, <1>5, ContainerSwitch

\* The battery pad has no switch of its own.
LEMMA NoPadSwitch ==
  ASSUME ManifestInv, ScheduleInv, stage \in Scheduled
  PROVE  One(PadModule, MgmtSwitches) = None
<1>1. options \in Options /\ SiteInv
  BY ScheduledSite
<1>2. \A d \in devices : d.parent = PadModule.id => d \in Pad
  BY <1>1, PadChildrenAre
<1>3. \A d \in Pad : d.template \in PadTemplates
  BY <1>1, PadDevices
<1>4. PadTemplates \cap MgmtSwitches = {}
  BY DEF PadTemplates, MgmtSwitches
<1>5. Of(PadModule, MgmtSwitches) = {}
  BY <1>2, <1>3, <1>4 DEF Of, ChildrenOf
<1> QED
  BY <1>5 DEF One

Fibered == {r.from : r \in {c \in cables : c.kind = "fiber"}}

LEMMA FiberedAre ==
  ASSUME ManifestInv, ScheduleInv, stage \in Scheduled, Complete
  PROVE  {Tag(u[1], u[2], "SW-MGMT", 1) : u \in SiteNetwork.uplinks} = Fibered
<1> DEFINE far == {n \in Modules : One(n, MgmtSwitches) \notin {None, G1}}
           U == SiteNetwork.uplinks
<1>1. site.compute \in Nat \ {0} /\ site.grid \in Nat \ {0}
  BY ScheduledSite
<1>2. \A r : r \in cables /\ r.kind = "fiber" <=>
          \E m \in far : r = Run("fiber", One(m, MgmtSwitches), G1)
  <2>1. cables = CablesNow
    BY DEF ScheduleInv
  <2>2. \A r \in cables : r.kind = "fiber" => r \in Uplinks
    <3>1. \A r \in ComputeCables : r.kind # "fiber"
      BY CableKindsAre DEF ComputeCables
    <3> QED
      BY <2>1, <3>1, CableKindsAre DEF CablesNow
  <2>3. Uplinks \subseteq cables
    BY <2>1 DEF CablesNow
  <2>4. Uplinks = {Run("fiber", One(m, MgmtSwitches), G1) : m \in far} \cup {Run("copper", G1, EmsGateway)}
    BY G1Is DEF Uplinks
  <2>5. /\ Run("copper", G1, EmsGateway).kind # "fiber"
        /\ \A m : Run("fiber", One(m, MgmtSwitches), G1).kind = "fiber"
    BY RunIs DEF RunFields
  <2> QED
    BY <2>2, <2>3, <2>4, <2>5
<1>3. \A m : m \in far <=> \E box \in Boxes : \E no \in 1 .. CountIn(box) :
                              m = ModuleOf(box, no) /\ <<box, no>> # <<"G", 1>>
  <2>1. ASSUME NEW m \in far
        PROVE  \E box \in Boxes : \E no \in 1 .. CountIn(box) :
                  m = ModuleOf(box, no) /\ <<box, no>> # <<"G", 1>>
    <3>1. m # PadModule
      BY NoPadSwitch
    <3>2. PICK box \in Boxes : \E no \in 1 .. CountIn(box) : m = ModuleOf(box, no)
      BY <3>1, SiteModules
    <3>3. PICK no \in 1 .. CountIn(box) : m = ModuleOf(box, no)
      BY <3>2
    <3>4. <<box, no>> # <<"G", 1>>
      BY <3>3, G1Is
    <3> QED
      BY <3>3, <3>4
  <2>2. ASSUME NEW box \in Boxes, NEW no \in 1 .. CountIn(box), <<box, no>> # <<"G", 1>>
        PROVE  ModuleOf(box, no) \in far
    <3>1. /\ ModuleOf(box, no) \in Modules
          /\ One(ModuleOf(box, no), MgmtSwitches) # None
          /\ One(ModuleOf(box, no), MgmtSwitches).tag = SwitchTag(box, no)
      BY ContainerSwitch
    <3>2. SwitchTag(box, no) # SwitchTag("G", 1)
      BY <2>2 DEF SwitchTag
    <3> QED
      BY <3>1, <3>2, G1Is
  <2> QED
    BY <2>1, <2>2
<1>4. \A u : u \in U <=> \E box \in Boxes : \E no \in 1 .. CountIn(box) :
                            u = <<box, no>> /\ <<box, no>> # <<"G", 1>>
  <2>1. U = {<<"G", k>> : k \in 2 .. site.grid} \cup {<<"C", n>> : n \in 1 .. site.compute}
    BY DEF SiteNetwork
  <2>2. \A k : k \in 2 .. site.grid <=> k \in 1 .. site.grid /\ k # 1
    BY <1>1
  <2> HIDE DEF U
  <2> QED
    BY <2>1, <2>2 DEF Boxes, CountIn
<1> HIDE DEF U, far
<1>5. ASSUME NEW box \in Boxes, NEW no \in 1 .. CountIn(box), <<box, no>> # <<"G", 1>>
      PROVE  Run("fiber", One(ModuleOf(box, no), MgmtSwitches), G1).from = SwitchTag(box, no)
  BY ContainerSwitch, RunIs DEF RunFields
<1>6. ASSUME NEW x \in Fibered
      PROVE  \E u \in U : x = Tag(u[1], u[2], "SW-MGMT", 1)
  <2>1. PICK r \in cables : r.kind = "fiber" /\ x = r.from
    BY DEF Fibered
  <2>2. PICK m \in far : r = Run("fiber", One(m, MgmtSwitches), G1)
    BY <1>2, <2>1
  <2>3. PICK box \in Boxes : \E no \in 1 .. CountIn(box) :
           m = ModuleOf(box, no) /\ <<box, no>> # <<"G", 1>>
    BY <1>3
  <2>4. PICK no \in 1 .. CountIn(box) : m = ModuleOf(box, no) /\ <<box, no>> # <<"G", 1>>
    BY <2>3
  <2>5. x = SwitchTag(box, no)
    BY <1>5, <2>1, <2>2, <2>4
  <2>6. <<box, no>> \in U
    BY <1>4, <2>4
  <2> QED
    BY <2>5, <2>6 DEF SwitchTag, Tag
<1>7. ASSUME NEW u \in U
      PROVE  Tag(u[1], u[2], "SW-MGMT", 1) \in Fibered
  <2>1. PICK box \in Boxes : \E no \in 1 .. CountIn(box) :
           u = <<box, no>> /\ <<box, no>> # <<"G", 1>>
    BY <1>4
  <2>2. PICK no \in 1 .. CountIn(box) : u = <<box, no>> /\ <<box, no>> # <<"G", 1>>
    BY <2>1
  <2> DEFINE r == Run("fiber", One(ModuleOf(box, no), MgmtSwitches), G1)
  <2>3. ModuleOf(box, no) \in far
    BY <1>3, <2>2
  <2>4. r \in cables /\ r.kind = "fiber"
    BY <1>2, <2>3
  <2>5. r.from = SwitchTag(box, no)
    BY <1>5, <2>2
  <2> HIDE DEF r
  <2>6. SwitchTag(box, no) \in Fibered
    BY <2>4, <2>5 DEF Fibered
  <2> QED
    BY <2>2, <2>6 DEF SwitchTag, Tag
<1>8. {Tag(u[1], u[2], "SW-MGMT", 1) : u \in U} = Fibered
  BY <1>6, <1>7
<1> QED
  BY <1>8 DEF U

\* The sheets of the management network are those of the schedule.
LEMMA NetworkIs ==
  ASSUME ManifestInv, ScheduleInv, stage \in Scheduled, Complete
  PROVE  /\ SiteNetwork.primary \cup SiteNetwork.battery = PatchedTo("G", 1)
         /\ SiteNetwork.relays = UNION {PatchedTo("G", k) : k \in 2 .. site.grid}
         /\ ContainerNetwork = PatchedTo("C", 1)
<1>1. /\ 1 \in 1 .. CountIn("G") /\ 1 \in 1 .. CountIn("C") /\ "G" \in Boxes /\ "C" \in Boxes
  BY ScheduledSite DEF CountIn, Boxes
<1>2. SiteNetwork.primary = PolledTags(ModuleOf("G", 1))
  <2>1. ModT("G") = "grid_module"
    BY DEF ModT, KindOf, ModuleTemplate
  <2>2. ModuleOf("G", 1).id = <<"grid_module", 1>>
    <3>1. ModuleOf("G", 1).id = <<ModT("G"), 1>>
      BY ModuleFields
    <3> QED
      BY <2>1, <3>1
  <2>3. SiteNetwork.primary = Networked(<<"grid_module", 1>>)
    BY DEF SiteNetwork
  <2>4. Networked(ModuleOf("G", 1).id) = PolledTags(ModuleOf("G", 1))
    BY NetworkedAre
  <2> QED
    BY <2>2, <2>3, <2>4
<1>3. SiteNetwork.primary \cup SiteNetwork.battery = PatchedTo("G", 1)
  BY <1>1, <1>2, BatteryNetworked, PatchedAre
<1>4. SiteNetwork.relays = UNION {PatchedTo("G", k) : k \in 2 .. site.grid}
  <2>1. SiteNetwork.relays = {Tag("G", k, "RLY", 1) : k \in 2 .. site.grid}
    BY DEF SiteNetwork
  <2> QED
    BY <2>1, FeederPolls
<1>5. ContainerNetwork = PatchedTo("C", 1)
  BY <1>1, FirstComputeIs, NetworkedAre, PatchedAre DEF ContainerNetwork
<1> QED
  BY <1>3, <1>4, <1>5

-----------------------------------------------------------------------------
(***************************************************************************)
(* The coolant loops: the plates of C1 and its hoses.                      *)
(***************************************************************************)
\* What is listed by ascending rank is ranked as it is listed.
LEMMA RankedAscending ==
  ASSUME NEW n \in Nat, NEW f, DOMAIN f = 1 .. n, NEW rank,
         \A i \in 1 .. n : rank[f[i]] \in Nat,
         \A i, j \in 1 .. n : i < j => rank[f[i]] < rank[f[j]]
  PROVE  Ranked({f[i] : i \in 1 .. n}, rank) = [i \in 1 .. n |-> f[i]]
<1> DEFINE S == {f[i] : i \in 1 .. n}
           below(d) == {e \in S : rank[e] < rank[d]}
<1>1. \A i, j \in 1 .. n : rank[f[j]] < rank[f[i]] <=> j < i
  <2> SUFFICES ASSUME NEW i \in 1 .. n, NEW j \in 1 .. n
               PROVE  rank[f[j]] < rank[f[i]] <=> j < i
    OBVIOUS
  <2>1. rank[f[i]] \in Nat /\ rank[f[j]] \in Nat
    OBVIOUS
  <2>2. /\ i < j => rank[f[i]] < rank[f[j]]
        /\ j < i => rank[f[j]] < rank[f[i]]
        /\ i = j => rank[f[i]] = rank[f[j]]
    OBVIOUS
  <2> QED
    BY <2>1, <2>2
<1>2. \A i, j \in 1 .. n : f[i] = f[j] => i = j
  <2> SUFFICES ASSUME NEW i \in 1 .. n, NEW j \in 1 .. n, f[i] = f[j]
               PROVE  i = j
    OBVIOUS
  <2>1. ~(rank[f[i]] < rank[f[j]]) /\ ~(rank[f[j]] < rank[f[i]])
    OBVIOUS
  <2>2. ~(i < j) /\ ~(j < i)
    BY <1>1, <2>1
  <2> QED
    BY <2>2
<1>3. Cardinality(S) = n
  BY <1>2, ListIsAsLong
<1>4. ASSUME NEW i \in 1 .. n
      PROVE  Cardinality(below(f[i])) = i - 1
  <2> DEFINE g == [j \in 1 .. i - 1 |-> f[j]]
  <2>1. i - 1 \in Nat /\ \A j \in 1 .. i - 1 : j \in 1 .. n
    OBVIOUS
  <2>2. below(f[i]) = {f[j] : j \in 1 .. i - 1}
    <3>1. ASSUME NEW e \in below(f[i])
          PROVE  e \in {f[j] : j \in 1 .. i - 1}
      <4>1. PICK j \in 1 .. n : e = f[j]
        OBVIOUS
      <4>2. j < i
        BY <1>1, <4>1
      <4>3. j \in 1 .. i - 1
        BY <4>2
      <4> QED
        BY <4>1, <4>3
    <3>2. ASSUME NEW j \in 1 .. i - 1
          PROVE  f[j] \in below(f[i])
      <4>1. j \in 1 .. n /\ j < i
        OBVIOUS
      <4> QED
        BY <1>1, <4>1
    <3> QED
      BY <3>1, <3>2
  <2>3. DOMAIN g = 1 .. i - 1 /\ \A j \in 1 .. i - 1 : g[j] = f[j]
    OBVIOUS
  <2>4. \A j, k \in 1 .. i - 1 : g[j] = g[k] => j = k
    BY <1>2, <2>1, <2>3
  <2>5. below(f[i]) = {g[j] : j \in 1 .. i - 1}
    BY <2>2, <2>3
  <2> HIDE DEF g, below
  <2> QED
    BY <2>1, <2>3, <2>4, <2>5, ListIsAsLong
<1>5. ASSUME NEW i \in 1 .. n
      PROVE  (CHOOSE d \in S : Cardinality(below(d)) = i - 1) = f[i]
  <2>1. f[i] \in S
    OBVIOUS
  <2>2. \A d \in S : Cardinality(below(d)) = i - 1 => d = f[i]
    <3> SUFFICES ASSUME NEW j \in 1 .. n, Cardinality(below(f[j])) = i - 1
                 PROVE  f[j] = f[i]
      OBVIOUS
    <3>1. j - 1 = i - 1
      BY <1>4
    <3> QED
      BY <3>1
  <2> HIDE DEF below, S
  <2> QED
    BY <1>4, <2>1, <2>2
<1>6. Ranked(S, rank) = [i \in 1 .. Cardinality(S) |->
                           CHOOSE d \in S : Cardinality(below(d)) = i - 1]
  BY DEF Ranked
<1> HIDE DEF below, S
<1>7. Ranked(S, rank) = [i \in 1 .. n |-> f[i]]
  BY <1>3, <1>5, <1>6
<1> QED
  BY <1>7 DEF S

CduE == Entry("CDU", 1, "cdu", TRUE)
DcE == Entry("DC", 1, "dc_external", TRUE)
CduOf(no) == Child("C", no, CduE)
CoolerOf(no) == Child("C", no, DcE)
NodeOf(no, i) == Child("C", no, NodeE(i))

\* The loops of a compute container.
LEMMA LoopsOf ==
  ASSUME ManifestInv, ScheduleInv, stage \in Scheduled, Complete, NEW no \in 1 .. site.compute
  PROVE  /\ One(ModuleOf("C", no), {"cdu"}) = CduOf(no) /\ CduOf(no) # None
         /\ One(ModuleOf("C", no), DryCoolers) = CoolerOf(no) /\ CoolerOf(no) # None
         /\ Of(ModuleOf("C", no), NodeTemplates) = {NodeOf(no, i) : i \in 1 .. Held(no)}
         /\ CduOf(no).tag = <<"C", no, "CDU", 1>> /\ CoolerOf(no).tag = <<"C", no, "DC", 1>>
         /\ \A i \in 1 .. Held(no) : /\ NodeOf(no, i).tag = <<"C", no, "NODE", i>>
                                     /\ NodeOf(no, i) \in devices
                                     /\ NodeOf(no, i).id[2] \in Nat
<1>1. /\ order \in Orders /\ release \in Releases /\ options \in Options /\ SiteInv
      /\ site = Resolution(order) /\ "compute" \in release.topology
  BY ScheduledSite DEF Complete
<1>2. no \in 1 .. counter[ModT("C")] /\ "C" \in Boxes
  BY <1>1 DEF SiteInv, Boxes
<1>3. Holds("C", no)
  BY <1>1, <1>2, ChildrenAre
<1>4. KeptEntries("C", no) = ComputeKept(no)
  BY <1>1, ComputeKeptIs
<1>5. /\ CduE \in ComputeKept(no) /\ DcE \in ComputeKept(no)
      /\ CduE.template = "cdu" /\ DcE.template = "dc_external"
      /\ CduE.name = "CDU" /\ CduE.k = 1 /\ DcE.name = "DC" /\ DcE.k = 1
  BY DEF ComputeKept, Singles, CduE, DcE, Entry
<1>6. \A f \in ComputeKept(no) : /\ f.template = "cdu" => f = CduE
                                 /\ f.template \in DryCoolers => f = DcE
  BY SinglesAre DEF CduE, DcE
<1>7. \A i \in 1 .. Held(no) : /\ NodeE(i) \in ComputeKept(no) /\ NodeE(i).template \in NodeTemplates
                               /\ NodeE(i).name = "NODE" /\ NodeE(i).k = i
  BY DEF ComputeKept, Many, NodeE, Entry, NodeTemplate, NodeTemplates
<1>8. /\ One(ModuleOf("C", no), {"cdu"}) = CduOf(no)
      /\ One(ModuleOf("C", no), DryCoolers) = CoolerOf(no)
  <2>1. One(ModuleOf("C", no), {"cdu"}) = CduOf(no)
    <3>1. \A f \in KeptEntries("C", no) : f.template \in {"cdu"} => f = CduE
      BY <1>4, <1>6
    <3>2. CduE \in KeptEntries("C", no) /\ CduE.template \in {"cdu"}
      BY <1>4, <1>5
    <3> QED
      BY <1>1, <1>2, <3>1, <3>2, OneIs DEF CduOf
  <2>2. One(ModuleOf("C", no), DryCoolers) = CoolerOf(no)
    <3>1. \A f \in KeptEntries("C", no) : f.template \in DryCoolers => f = DcE
      BY <1>4, <1>6
    <3>2. DcE \in KeptEntries("C", no) /\ DcE.template \in DryCoolers
      BY <1>4, <1>5 DEF DryCoolers
    <3> QED
      BY <1>1, <1>2, <3>1, <3>2, OneIs DEF CoolerOf
  <2> QED
    BY <2>1, <2>2
<1>9. \A e \in ComputeKept(no) :
         /\ Child("C", no, e) \in ChildrenOf(ModuleOf("C", no))
         /\ Child("C", no, e) \in devices
         /\ Child("C", no, e).tag = <<"C", no, e.name, e.k>>
         /\ Child("C", no, e).template = e.template
  BY <1>3, <1>4 DEF Holds, ChildrenOf
<1>10. /\ CduOf(no).tag = <<"C", no, "CDU", 1>> /\ CoolerOf(no).tag = <<"C", no, "DC", 1>>
       /\ CduOf(no) # None /\ CoolerOf(no) # None
  BY <1>5, <1>9, DevicesAreTyped DEF CduOf, CoolerOf
<1>11. \A i \in 1 .. Held(no) : /\ NodeOf(no, i).tag = <<"C", no, "NODE", i>>
                                /\ NodeOf(no, i) \in devices
                                /\ NodeOf(no, i) \in ChildrenOf(ModuleOf("C", no))
                                /\ NodeOf(no, i).template \in NodeTemplates
  BY <1>7, <1>9 DEF NodeOf
<1>12. \A i \in 1 .. Held(no) : NodeOf(no, i).id[2] \in Nat
  <2> SUFFICES ASSUME NEW i \in 1 .. Held(no)
               PROVE  NodeOf(no, i).id[2] \in Nat
    OBVIOUS
  <2>1. \E n \in Nat : Child("C", no, NodeE(i)).id = <<NodeE(i).template, n>>
    BY <1>3, <1>4, <1>7 DEF Holds
  <2> QED
    BY <2>1 DEF NodeOf
<1>13. Of(ModuleOf("C", no), NodeTemplates) = {NodeOf(no, i) : i \in 1 .. Held(no)}
  <2>1. ASSUME NEW d \in ChildrenOf(ModuleOf("C", no)), d.template \in NodeTemplates
        PROVE  d \in {NodeOf(no, i) : i \in 1 .. Held(no)}
    <3>1. PICK e \in ComputeKept(no) : d = Child("C", no, e)
      BY <1>3, <1>4 DEF Holds
    <3>2. e.template \in NodeTemplates
      BY <1>9, <2>1, <3>1
    <3>3. PICK i \in 1 .. Held(no) : e = NodeE(i)
      BY <3>2, SinglesAre
    <3> QED
      BY <3>1, <3>3 DEF NodeOf
  <2>2. \A d : d \in Of(ModuleOf("C", no), NodeTemplates) <=>
            d \in ChildrenOf(ModuleOf("C", no)) /\ d.template \in NodeTemplates
    BY DEF Of
  <2> QED
    BY <1>11, <2>1, <2>2
<1> QED
  BY <1>8, <1>10, <1>11, <1>12, <1>13

\* The plates are drawn in tag order.
LEMMA PlatesDrawn ==
  ASSUME ManifestInv, ScheduleInv, stage \in Scheduled, Complete, NodesInOrder(devices)
  PROVE  /\ CoolantLoops.cdu = CduOf(1) /\ CoolantLoops.cooler = CoolerOf(1)
         /\ CoolantLoops.plates = [i \in 1 .. Held(1) |-> NodeOf(1, i)]
<1> DEFINE nodes == Of(FirstComputeModule, NodeTemplates)
           rank == [d \in nodes |-> d.id[2]]
           f == [i \in 1 .. Held(1) |-> NodeOf(1, i)]
<1>1. /\ order \in Orders /\ site = Resolution(order) /\ site.compute \in Nat \ {0}
      /\ 1 \in 1 .. site.compute
  BY ScheduledSite
<1>2. Held(1) \in Nat
  BY <1>1, HeldIs
<1>3. /\ nodes = {f[i] : i \in 1 .. Held(1)}
      /\ CoolantLoops.cdu = CduOf(1) /\ CoolantLoops.cooler = CoolerOf(1)
      /\ CoolantLoops.plates = Ranked(nodes, rank)
  BY <1>1, LoopsOf, FirstComputeIs DEF CoolantLoops
<1>4. \A i \in 1 .. Held(1) : /\ f[i] \in nodes
                              /\ f[i] = NodeOf(1, i)
                              /\ rank[f[i]] = f[i].id[2]
  BY <1>3
<1>5. DOMAIN f = 1 .. Held(1)
  OBVIOUS
<1> HIDE DEF nodes, rank, f
<1>6. \A i \in 1 .. Held(1) : /\ rank[f[i]] \in Nat
                              /\ f[i].tag = <<"C", 1, "NODE", i>>
                              /\ f[i] \in devices
  BY <1>1, <1>4, LoopsOf
<1>7. \A i, j \in 1 .. Held(1) : i < j => rank[f[i]] < rank[f[j]]
  <2> SUFFICES ASSUME NEW i \in 1 .. Held(1), NEW j \in 1 .. Held(1), i < j
               PROVE  f[i].id[2] < f[j].id[2]
    BY <1>4
  <2>1. /\ f[i].tag = <<"C", 1, "NODE", i>> /\ f[j].tag = <<"C", 1, "NODE", j>>
        /\ f[i] \in devices /\ f[j] \in devices
    BY <1>6
  <2> QED
    BY <2>1 DEF NodesInOrder
<1>8. Ranked({f[i] : i \in 1 .. Held(1)}, rank) = [i \in 1 .. Held(1) |-> f[i]]
  BY <1>2, <1>5, <1>6, <1>7, RankedAscending
<1> QED
  BY <1>3, <1>4, <1>8

\* Only a compute container has a CDU.
LEMMA CduModules ==
  ASSUME ManifestInv, ScheduleInv, stage \in Scheduled, Complete, NEW m \in Modules
  PROVE  One(m, {"cdu"}) # None <=> \E no \in 1 .. site.compute : m = ModuleOf("C", no)
<1>1. /\ order \in Orders /\ release \in Releases /\ options \in Options /\ SiteInv
  BY ScheduledSite
<1>2. CASE m = PadModule
  <2>1. \A d \in devices : d.parent = PadModule.id => d \in Pad
    BY <1>1, PadChildrenAre
  <2>2. \A d \in Pad : d.template \in PadTemplates
    BY <1>1, PadDevices
  <2>3. Of(PadModule, {"cdu"}) = {}
    BY <2>1, <2>2 DEF Of, ChildrenOf, PadTemplates
  <2>4. One(PadModule, {"cdu"}) = None
    BY <2>3 DEF One
  <2>5. \A no : ModuleOf("C", no) # PadModule
    <3>1. \A no : ModuleOf("C", no).tag = <<"C", no, Itself, 0>>
      BY ModuleFields
    <3>2. PadModule.tag = <<"BESS", 0, Itself, 0>>
      BY PadModuleFields
    <3> QED
      BY <3>1, <3>2
  <2> QED
    BY <1>2, <2>4, <2>5
<1>3. CASE m # PadModule
  <2>1. PICK box \in Boxes : \E no \in 1 .. CountIn(box) : m = ModuleOf(box, no)
    BY <1>3, SiteModules
  <2>2. PICK no \in 1 .. CountIn(box) : m = ModuleOf(box, no)
    BY <2>1
  <2>3. CASE box = "C"
    BY <2>2, <2>3, LoopsOf DEF CountIn
  <2>4. CASE box = "G"
    <3>1. no \in 1 .. counter[ModT("G")] /\ "G" \in Boxes
      BY <2>2, <2>4, ContainerSwitch
    <3>2. \A e \in KeptEntries("G", no) : e.template \notin {"cdu"}
      <4>1. \A e \in KeptEntries("G", no) : e.template \in LeavesIn("G")
        BY <2>2, <2>4, <3>1, KeptLeaves
      <4>2. "cdu" \notin LeavesIn("G")
        BY DEF LeavesIn, GridLeaves, ComputeLeaves
      <4> QED
        BY <4>1, <4>2
    <3>3. One(ModuleOf("G", no), {"cdu"}) = None
      BY <1>1, <3>1, <3>2, OneIsNone
    <3>4. \A n : ModuleOf("C", n) # ModuleOf("G", no)
      <4>1. \A n : ModuleOf("C", n).tag = <<"C", n, Itself, 0>>
        BY ModuleFields
      <4>2. ModuleOf("G", no).tag = <<"G", no, Itself, 0>>
        BY ModuleFields
      <4> QED
        BY <4>1, <4>2
    <3> QED
      BY <2>2, <2>4, <3>3, <3>4
  <2> QED
    BY <2>3, <2>4 DEF Boxes
<1> QED
  BY <1>2, <1>3

HosedTo(kind, tag) == {h.to : h \in {g \in hoses : g.kind = kind /\ g.from = tag}}

LEMMA HosesAre ==
  ASSUME ManifestInv, ScheduleInv, stage \in Scheduled, Complete
  PROVE  \A r : r \in hoses <=> \E no \in 1 .. site.compute :
            \/ r = Run("primary", CoolerOf(no), CduOf(no))
            \/ r = Run("primary", CduOf(no), CoolerOf(no))
            \/ \E i \in 1 .. Held(no) : \/ r = Run("secondary", CduOf(no), NodeOf(no, i))
                                        \/ r = Run("secondary", NodeOf(no, i), CduOf(no))
<1> DEFINE loops(m) == Loops(One(m, {"cdu"}), One(m, DryCoolers), Of(m, NodeTemplates))
<1>1. \A r : r \in hoses <=> \E m \in Modules : One(m, {"cdu"}) # None /\ r \in loops(m)
  <2>1. hoses = Hoses
    BY DEF ScheduleInv
  <2> QED
    BY <2>1 DEF Hoses
<1>2. ASSUME NEW no \in 1 .. site.compute
      PROVE  \A r : r \in loops(ModuleOf("C", no)) <=>
                \/ r = Run("primary", CoolerOf(no), CduOf(no))
                \/ r = Run("primary", CduOf(no), CoolerOf(no))
                \/ \E i \in 1 .. Held(no) : \/ r = Run("secondary", CduOf(no), NodeOf(no, i))
                                            \/ r = Run("secondary", NodeOf(no, i), CduOf(no))
  <2>1. loops(ModuleOf("C", no)) =
          Loops(CduOf(no), CoolerOf(no), {NodeOf(no, i) : i \in 1 .. Held(no)})
    BY LoopsOf
  <2>2. CoolerOf(no) # None
    BY LoopsOf
  <2> HIDE DEF loops
  <2> QED
    BY <2>1, <2>2 DEF Loops
<1>3. \A no \in 1 .. site.compute : ModuleOf("C", no) \in Modules
  <2>1. "C" \in Boxes /\ CountIn("C") = site.compute
    BY DEF Boxes, CountIn
  <2> QED
    BY <2>1, ContainerSwitch
<1> HIDE DEF loops
<1>4. \A r : r \in hoses <=> \E no \in 1 .. site.compute : r \in loops(ModuleOf("C", no))
  BY <1>1, <1>3, CduModules
<1> QED
  BY <1>2, <1>4

LEMMA HosesDrawn ==
  ASSUME ManifestInv, ScheduleInv, stage \in Scheduled, Complete
  PROVE  /\ HosedTo("secondary", CduOf(1).tag) = {NodeOf(1, i).tag : i \in 1 .. Held(1)}
         /\ HosedTo("primary", CduOf(1).tag) = {CoolerOf(1).tag}
<1>1. 1 \in 1 .. site.compute
  BY ScheduledSite
<1>2. \A no \in 1 .. site.compute :
         /\ CduOf(no).tag = <<"C", no, "CDU", 1>> /\ CoolerOf(no).tag = <<"C", no, "DC", 1>>
         /\ \A i \in 1 .. Held(no) : NodeOf(no, i).tag = <<"C", no, "NODE", i>>
  BY LoopsOf
<1>3. ASSUME NEW r \in hoses, r.from = CduOf(1).tag
      PROVE  \/ r.kind = "primary" /\ r.to = CoolerOf(1).tag
             \/ r.kind = "secondary" /\ \E i \in 1 .. Held(1) : r.to = NodeOf(1, i).tag
  <2>1. PICK no \in 1 .. site.compute :
            \/ r = Run("primary", CoolerOf(no), CduOf(no))
            \/ r = Run("primary", CduOf(no), CoolerOf(no))
            \/ \E i \in 1 .. Held(no) : \/ r = Run("secondary", CduOf(no), NodeOf(no, i))
                                        \/ r = Run("secondary", NodeOf(no, i), CduOf(no))
    BY HosesAre
  <2>2. r.from = <<"C", 1, "CDU", 1>>
    BY <1>1, <1>2, <1>3
  <2>3. CASE r = Run("primary", CoolerOf(no), CduOf(no))
    <3>1. r.from = <<"C", no, "DC", 1>>
      BY <1>2, <2>3, RunIs DEF RunFields
    <3> QED
      BY <2>2, <3>1
  <2>4. CASE r = Run("primary", CduOf(no), CoolerOf(no))
    <3>1. /\ r.from = <<"C", no, "CDU", 1>> /\ r.to = CoolerOf(no).tag
          /\ r.kind = "primary"
      BY <1>2, <2>4, RunIs DEF RunFields
    <3>2. no = 1
      BY <2>2, <3>1
    <3> QED
      BY <3>1, <3>2
  <2>5. CASE \E i \in 1 .. Held(no) : \/ r = Run("secondary", CduOf(no), NodeOf(no, i))
                                      \/ r = Run("secondary", NodeOf(no, i), CduOf(no))
    <3>1. PICK i \in 1 .. Held(no) : \/ r = Run("secondary", CduOf(no), NodeOf(no, i))
                                     \/ r = Run("secondary", NodeOf(no, i), CduOf(no))
      BY <2>5
    <3>2. CASE r = Run("secondary", CduOf(no), NodeOf(no, i))
      <4>1. /\ r.from = <<"C", no, "CDU", 1>> /\ r.to = NodeOf(no, i).tag
            /\ r.kind = "secondary"
        BY <1>2, <3>2, RunIs DEF RunFields
      <4>2. no = 1
        BY <2>2, <4>1
      <4> QED
        BY <4>1, <4>2
    <3>3. CASE r = Run("secondary", NodeOf(no, i), CduOf(no))
      <4>1. r.from = <<"C", no, "NODE", i>>
        BY <1>2, <3>3, RunIs DEF RunFields
      <4> QED
        BY <2>2, <4>1
    <3> QED
      BY <3>1, <3>2, <3>3
  <2> QED
    BY <2>1, <2>3, <2>4, <2>5
<1>4. ASSUME NEW i \in 1 .. Held(1)
      PROVE  NodeOf(1, i).tag \in HosedTo("secondary", CduOf(1).tag)
  <2> DEFINE r == Run("secondary", CduOf(1), NodeOf(1, i))
  <2>1. r \in hoses
    BY <1>1, HosesAre
  <2>2. r.kind = "secondary" /\ r.from = CduOf(1).tag /\ r.to = NodeOf(1, i).tag
    BY RunIs DEF RunFields
  <2> HIDE DEF r
  <2> QED
    BY <2>1, <2>2 DEF HosedTo
<1>5. CoolerOf(1).tag \in HosedTo("primary", CduOf(1).tag)
  <2> DEFINE r == Run("primary", CduOf(1), CoolerOf(1))
  <2>1. r \in hoses
    BY <1>1, HosesAre
  <2>2. r.kind = "primary" /\ r.from = CduOf(1).tag /\ r.to = CoolerOf(1).tag
    BY RunIs DEF RunFields
  <2> HIDE DEF r
  <2> QED
    BY <2>1, <2>2 DEF HosedTo
<1>6. ASSUME NEW x \in HosedTo("secondary", CduOf(1).tag)
      PROVE  \E i \in 1 .. Held(1) : x = NodeOf(1, i).tag
  <2>1. PICK r \in hoses : r.kind = "secondary" /\ r.from = CduOf(1).tag /\ x = r.to
    BY DEF HosedTo
  <2> QED
    BY <1>3, <2>1
<1>7. ASSUME NEW x \in HosedTo("primary", CduOf(1).tag)
      PROVE  x = CoolerOf(1).tag
  <2>1. PICK r \in hoses : r.kind = "primary" /\ r.from = CduOf(1).tag /\ x = r.to
    BY DEF HosedTo
  <2> QED
    BY <1>3, <2>1
<1> QED
  BY <1>4, <1>5, <1>6, <1>7

-----------------------------------------------------------------------------
(***************************************************************************)
(* The note on the last container, and the sheets of an order.             *)
(***************************************************************************)
\* The tags of the last container's devices of some templates.
InLast(templates) ==
    {d.tag : d \in {e \in devices : e.tag[2] = site.compute /\ e.template \in templates}}

LEMMA LastNodesAre ==
  ASSUME ManifestInv, ScheduleInv, stage \in Scheduled, Complete
  PROVE  Cardinality(InLast(NodeTemplates)) = Held(site.compute)
<1> DEFINE c == site.compute
           f == [i \in 1 .. Held(c) |-> <<"C", c, "NODE", i>>]
<1>1. /\ order \in Orders /\ SiteInv /\ site = Resolution(order)
      /\ c \in Nat \ {0} /\ c \in 1 .. c
  BY ScheduledSite
<1>2. Held(c) \in Nat
  BY <1>1, HeldIs
<1>3. ASSUME NEW x \in InLast(NodeTemplates)
      PROVE  \E i \in 1 .. Held(c) : x = f[i]
  <2>1. PICK d \in devices : d.tag[2] = c /\ d.template \in NodeTemplates /\ x = d.tag
    BY DEF InLast
  <2>2. \E no \in 1 .. c : \E i \in 1 .. Held(no) : d.tag = <<"C", no, "NODE", i>>
    BY <1>1, <2>1, NodesAre
  <2>3. PICK no \in 1 .. c : \E i \in 1 .. Held(no) : d.tag = <<"C", no, "NODE", i>>
    BY <2>2
  <2>4. PICK i \in 1 .. Held(no) : d.tag = <<"C", no, "NODE", i>>
    BY <2>3
  <2>5. no = c
    BY <2>1, <2>4
  <2> QED
    BY <2>1, <2>4, <2>5
<1>4. ASSUME NEW i \in 1 .. Held(c)
      PROVE  f[i] \in InLast(NodeTemplates)
  <2>1. NodeOf(c, i).tag = <<"C", c, "NODE", i>> /\ NodeOf(c, i) \in devices
    BY <1>1, LoopsOf
  <2>2. NodeOf(c, i) \in Of(ModuleOf("C", c), NodeTemplates)
    BY <1>1, LoopsOf
  <2>3. NodeOf(c, i).template \in NodeTemplates
    BY <2>2 DEF Of
  <2>4. f[i] = NodeOf(c, i).tag /\ NodeOf(c, i).tag[2] = c
    BY <2>1
  <2> HIDE DEF f
  <2> QED
    BY <2>1, <2>3, <2>4 DEF InLast
<1>5. DOMAIN f = 1 .. Held(c) /\ \A i, j \in 1 .. Held(c) : f[i] = f[j] => i = j
  OBVIOUS
<1> HIDE DEF f
<1>6. InLast(NodeTemplates) = {f[i] : i \in 1 .. Held(c)}
  BY <1>3, <1>4
<1> QED
  BY <1>2, <1>5, <1>6, ListIsAsLong

LEMMA NoteIs ==
  ASSUME ManifestInv, ScheduleInv, stage \in Scheduled, Complete
  PROVE  \/ /\ PartialContainerNote = None
            /\ Cardinality(InLast(NodeTemplates)) = NODES_PER_COMPUTE_CONTAINER
         \/ /\ PartialContainerNote # None
            /\ PartialContainerNote.servers = Cardinality(InLast(NodeTemplates))
            /\ PartialContainerNote.pdus = InLast({"pdu"})
<1> DEFINE c == site.compute
           pdus == {Tag("C", c, side, i) : side \in Sides, i \in 1 .. PdusPerSide(Held(c))}
<1>1. /\ order \in Orders /\ site = Resolution(order)
      /\ c \in Nat \ {0} /\ c \in 1 .. c
  BY ScheduledSite
<1>2. Held(c) \in Nat /\ PdusPerSide(Held(c)) \in Nat
  BY <1>1, HeldIs
<1>3. GpusDelivered \div GPUS_PER_NODE = site.nodes
  <2>1. site.nodes \in Nat
    BY <1>1, SiteIsSized
  <2> QED
    BY <2>1 DEF GpusDelivered, GPUS_PER_NODE
<1>4. PartialContainerNote =
        IF Held(c) = NODES_PER_COMPUTE_CONTAINER THEN None
        ELSE [servers |-> Held(c), pdus |-> pdus]
  BY <1>3 DEF PartialContainerNote, Held, PdusPerSide, Sides
<1>5. pdus = InLast({"pdu"})
  <2>1. \A x : x \in {d.tag : d \in LastPdus} <=>
            \E s \in Sides : \E i \in 1 .. PdusPerSide(Held(c)) : x = <<"C", c, s, i>>
    BY LastPduTags
  <2>2. InLast({"pdu"}) = {d.tag : d \in LastPdus}
    BY DEF InLast, LastPdus
  <2>3. \A x : x \in pdus <=>
            \E s \in Sides : \E i \in 1 .. PdusPerSide(Held(c)) : x = <<"C", c, s, i>>
    BY DEF Tag
  <2> HIDE DEF pdus
  <2> QED
    BY <2>1, <2>2, <2>3
<1>6. [servers |-> Held(c), pdus |-> pdus] # None
  <2>1. \A s \in Sides : \A i \in 1 .. PdusPerSide(Held(c)) :
           Tag("C", c, s, i) \in TagWords \X Nat \X TagWords \X Nat
    BY <1>1, <1>2 DEF Tag, TagWords, EntryNames, Sides
  <2>2. pdus \in SUBSET (TagWords \X Nat \X TagWords \X Nat)
    BY <2>1
  <2> HIDE DEF pdus
  <2>3. [servers |-> Held(c), pdus |-> pdus]
          \in [servers: Nat, pdus: SUBSET (TagWords \X Nat \X TagWords \X Nat)]
    BY <1>2, <2>2
  <2> QED
    BY <2>3, NoNoteAssumption
<1> HIDE DEF pdus
<1>7. Cardinality(InLast(NodeTemplates)) = Held(c)
  BY LastNodesAre
<1> QED
  BY <1>4, <1>5, <1>6, <1>7

\* SheetsShowTheSite of given sheets.
Shown(drawn) ==
    LET plates == drawn.coolant.plates
    IN  /\ drawn.oneLine.primary = FedOver({1})
        /\ drawn.oneLine.rest = FedOver(2 .. site.grid)
        /\ drawn.oneLine.pcs = Emitted({"pcs"})
        /\ drawn.network.primary \cup drawn.network.battery = PatchedTo("G", 1)
        /\ drawn.network.relays = UNION {PatchedTo("G", k) : k \in 2 .. site.grid}
        /\ {Tag(u[1], u[2], "SW-MGMT", 1) : u \in drawn.network.uplinks} = Fibered
        /\ drawn.container = PatchedTo("C", 1)
        /\ HosedTo("secondary", drawn.coolant.cdu.tag) = {plates[i].tag : i \in DOMAIN plates}
        /\ HosedTo("primary", drawn.coolant.cdu.tag) = {drawn.coolant.cooler.tag}
        /\ \A i \in DOMAIN plates : plates[i].tag = Tag("C", 1, "NODE", i)
        /\ \A p \in drawn.paths : p.from # p.to
        /\ IF drawn.partial = None
           THEN Cardinality(InLast(NodeTemplates)) = NODES_PER_COMPUTE_CONTAINER
           ELSE /\ drawn.partial.servers = Cardinality(InLast(NodeTemplates))
                /\ drawn.partial.pdus = InLast({"pdu"})

LEMMA SheetsAreShown == SheetsShowTheSite <=> (stage = "done" /\ Complete => Shown(sheets))
BY DEF SheetsShowTheSite, Shown, FedOver, PatchedTo, Fibered, HosedTo, InLast

\* What DrawSheets draws.
Drawn == [oneLine |-> SiteOneLine, partial |-> PartialContainerNote,
          network |-> SiteNetwork, container |-> ContainerNetwork,
          coolant |-> CoolantLoops,
          paths |-> {BusPath(bus) : bus \in buses}]

LEMMA DrawnAreShown ==
  ASSUME ManifestInv, ScheduleInv, BomInv, BillInv, DrawnInv, stage = "drawings", Complete
  PROVE  Shown(Drawn)
<1>1. stage \in Scheduled \cap Billed
  BY DEF Scheduled, Billed
<1>2. /\ Drawn.oneLine = SiteOneLine /\ Drawn.partial = PartialContainerNote
      /\ Drawn.network = SiteNetwork /\ Drawn.container = ContainerNetwork
      /\ Drawn.coolant = CoolantLoops /\ Drawn.paths = {BusPath(bus) : bus \in buses}
  BY DEF Drawn
<1> DEFINE plates == CoolantLoops.plates
<1>3. \A p \in Drawn.paths : p.from # p.to
  <2>1. GridBuilt
    BY <1>1, ScheduledSite DEF GridBuilt
  <2>2. \A bus \in buses : JoinsTwo(bus)
    BY <2>1 DEF DrawnInv, Joined2
  <2> QED
    BY <1>2, <2>2, PathHasTwoEnds
<1>4. /\ SiteOneLine.primary = FedOver({1}) /\ SiteOneLine.rest = FedOver(2 .. site.grid)
      /\ SiteOneLine.pcs = Emitted({"pcs"})
  BY <1>1, OneLineIs, PcsDrawn
<1>5. /\ SiteNetwork.primary \cup SiteNetwork.battery = PatchedTo("G", 1)
      /\ SiteNetwork.relays = UNION {PatchedTo("G", k) : k \in 2 .. site.grid}
      /\ {Tag(u[1], u[2], "SW-MGMT", 1) : u \in SiteNetwork.uplinks} = Fibered
      /\ ContainerNetwork = PatchedTo("C", 1)
  BY <1>1, NetworkIs, FiberedAre
<1>6. /\ CoolantLoops.cdu = CduOf(1) /\ CoolantLoops.cooler = CoolerOf(1)
      /\ DOMAIN plates = 1 .. Held(1)
      /\ \A i \in 1 .. Held(1) : plates[i] = NodeOf(1, i)
  BY <1>1, PlatesDrawn DEF DrawnInv
<1> HIDE DEF plates
<1>7. /\ HosedTo("secondary", CoolantLoops.cdu.tag) = {plates[i].tag : i \in DOMAIN plates}
      /\ HosedTo("primary", CoolantLoops.cdu.tag) = {CoolantLoops.cooler.tag}
  BY <1>1, <1>6, HosesDrawn
<1>8. \A i \in DOMAIN plates : plates[i].tag = Tag("C", 1, "NODE", i)
  <2>1. 1 \in 1 .. site.compute
    BY <1>1, ScheduledSite
  <2> QED
    BY <1>1, <1>6, <2>1, LoopsOf DEF Tag
<1>9. IF PartialContainerNote = None
      THEN Cardinality(InLast(NodeTemplates)) = NODES_PER_COMPUTE_CONTAINER
      ELSE /\ PartialContainerNote.servers = Cardinality(InLast(NodeTemplates))
           /\ PartialContainerNote.pdus = InLast({"pdu"})
  BY <1>1, NoteIs
<1> QED
  BY <1>2, <1>3, <1>4, <1>5, <1>7, <1>8, <1>9 DEF Shown, plates

\* The artifacts do not change any more.
LEMMA SameSite ==
  ASSUME UNCHANGED <<site, devices, cables, hoses>>
  PROVE  /\ \A K : FedOver(K)' = FedOver(K)
         /\ \A T : Emitted(T)' = Emitted(T) /\ InLast(T)' = InLast(T)
         /\ \A box, no : PatchedTo(box, no)' = PatchedTo(box, no)
         /\ Fibered' = Fibered
         /\ \A kind, tag : HosedTo(kind, tag)' = HosedTo(kind, tag)
BY DEF FedOver, Emitted, InLast, PatchedTo, Fibered, HosedTo

LEMMA StillShown ==
  ASSUME UNCHANGED <<site, devices, cables, hoses>>, NEW drawn, Shown(drawn)
  PROVE  Shown(drawn)'
BY SameSite DEF Shown

\* The sheets are those of the manifest and the BOM when they are drawn, and
\* nothing changes after.
LEMMA StepSheets ==
  PackageInv /\ BillInv /\ DrawnInv /\ SheetsShowTheSite /\ [PkgNext]_pkgVars
    => SheetsShowTheSite'
<1> SUFFICES ASSUME ManifestInv, ScheduleInv, BomInv, BillInv, DrawnInv, SheetsShowTheSite,
                    [PkgNext]_pkgVars
             PROVE  SheetsShowTheSite'
  BY DEF PackageInv
<1>0. SheetsShowTheSite' <=> (stage' = "done" /\ Complete' => Shown(sheets)')
  BY DEF SheetsShowTheSite, Shown, FedOver, PatchedTo, Fibered, HosedTo, InLast
<1>1. CASE DrawSheets
  <2> SUFFICES ASSUME Complete'
               PROVE  Shown(sheets)'
    BY <1>0
  <2>1. /\ stage = "drawings" /\ sheets' = Drawn
        /\ UNCHANGED <<site, release, devices, cables, hoses>>
    BY <1>1 DEF DrawSheets, Drawn
  <2>2. Complete
    BY <2>1 DEF Complete
  <2>3. Shown(Drawn)
    BY <2>1, <2>2, DrawnAreShown
  <2>4. PICK drawn : drawn = Drawn
    OBVIOUS
  <2>5. Shown(drawn)
    BY <2>3, <2>4
  <2>6. Shown(drawn)'
    BY <2>1, <2>5, StillShown
  <2>7. sheets' = drawn
    BY <2>1, <2>4
  <2> QED
    BY <2>6, <2>7 DEF Shown
<1>2. CASE UNCHANGED pkgVars
  <2> SUFFICES ASSUME stage' = "done", Complete'
               PROVE  Shown(sheets)'
    BY <1>0
  <2>1. /\ UNCHANGED <<site, release, stage, devices, cables, hoses>> /\ sheets' = sheets
    BY <1>2 DEF pkgVars
  <2>2. Shown(sheets)
    BY <2>1, SheetsAreShown DEF Complete
  <2>3. PICK drawn : drawn = sheets
    OBVIOUS
  <2>4. Shown(drawn)
    BY <2>2, <2>3
  <2>5. Shown(drawn)'
    BY <2>1, <2>4, StillShown
  <2>6. sheets' = drawn
    BY <2>1, <2>3
  <2> QED
    BY <2>5, <2>6 DEF Shown
<1>3. ASSUME Generate \/ Schedule \/ ScheduleFails \/ GenerateBom \/ BomFails \/ AttachOffers
      PROVE  stage' # "done"
  BY <1>3 DEF Generate, Take, EmitCompute, EmitGrid, EmitSite, GenerateFails, ContainersOut,
              Schedule, ScheduleFails, GenerateBom, BomFails, AttachOffers
<1> QED
  BY <1>0, <1>1, <1>2, <1>3 DEF PkgNext

\* The sheets of an order of any size show the site that is built, whatever
\* the release: the ranges and counts of the one-line are the feeders and the
\* PCS, what a switch is drawn with is what is patched to it, the plates and
\* the cooler of C1 are those its CDU has hoses to, every bus path has two
\* ends and the note on the last container names its servers and PDUs
\* (_sld_site_sheet, _comms_site_sheet, _comms_compute_sheet, _pid_kit, _svg
\* and partial_container_note).
THEOREM SheetsShowWhatIsBuilt == PkgSpec => []SheetsShowTheSite
<1>1. PkgInit => SheetsShowTheSite
  BY DEF PkgInit, DtmInit, SheetsShowTheSite
<1>2. PackageInv /\ DrawnInv /\ [PkgNext]_pkgVars => DrawnInv'
  BY StepDrawn DEF PackageInv
<1> QED
  BY <1>1, <1>2, InitDrawn, StepSheets, BillsHold, PackageHolds, PTL DEF PkgSpec
=============================================================================
