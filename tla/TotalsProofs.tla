----------------------------- MODULE TotalsProofs -----------------------------
(***************************************************************************)
(* The laws of sums.  A total is the size of a union of disjoint sets of   *)
(* tallies, so each law is one of cardinalities.                           *)
(***************************************************************************)
EXTENDS Totals, FiniteSetTheorems, WellFoundedInduction, TLAPS

\* f assigns a natural to every member of S.
Summable(f, S) == \A x \in S : f[x] \in Nat

AllTallies(f, S) == UNION {Tallies(f, x) : x \in S}

\* A member has f[x] tallies.
LEMMA TalliesOf ==
  ASSUME NEW f, NEW x, f[x] \in Nat
  PROVE  IsFiniteSet(Tallies(f, x)) /\ Cardinality(Tallies(f, x)) = f[x]
<1>1. IsFiniteSet(1 .. f[x]) /\ Cardinality(1 .. f[x]) = f[x]
  BY FS_Interval
<1>2. IsFiniteSet({x}) /\ Cardinality({x}) = 1
  BY FS_Singleton
<1>3. /\ IsFiniteSet({x} \X (1 .. f[x]))
      /\ Cardinality({x} \X (1 .. f[x])) = Cardinality({x}) * Cardinality(1 .. f[x])
  BY <1>1, <1>2, FS_Product
<1>4. 1 * f[x] = f[x]
  OBVIOUS
<1> QED
  BY <1>1, <1>2, <1>3, <1>4 DEF Tallies

\* The tallies of a finite set are finitely many.
LEMMA TalliesFinite ==
  ASSUME NEW f, NEW S, IsFiniteSet(S), Summable(f, S)
  PROVE  IsFiniteSet(AllTallies(f, S))
<1> DEFINE T == {Tallies(f, x) : x \in S}
           g == [x \in S |-> Tallies(f, x)]
<1>1. g \in Surjection(S, T)
  BY DEF Surjection
<1>2. IsFiniteSet(T)
  BY <1>1, FS_Surjection
<1>3. \A t \in T : IsFiniteSet(t)
  BY TalliesOf DEF Summable
<1> QED
  BY <1>2, <1>3, FS_UNION DEF AllTallies

\* A total is a natural.
LEMMA TotalType ==
  ASSUME NEW f, NEW S, IsFiniteSet(S), Summable(f, S)
  PROVE  Total(f, S) \in Nat
BY TalliesFinite, FS_CardinalityType DEF AllTallies, Total

\* The total of no amounts is none.
LEMMA TotalEmpty ==
  ASSUME NEW f
  PROVE  Total(f, {}) = 0
<1>1. UNION {Tallies(f, x) : x \in {}} = {}
  OBVIOUS
<1> QED
  BY <1>1, FS_EmptySet DEF Total

\* Only what is added up matters.
LEMMA TotalSame ==
  ASSUME NEW f, NEW g, NEW S, \A x \in S : f[x] = g[x]
  PROVE  Total(f, S) = Total(g, S)
<1>1. {Tallies(f, x) : x \in S} = {Tallies(g, x) : x \in S}
  BY DEF Tallies
<1> QED
  BY <1>1 DEF Total

\* Totals of disjoint sets add up.
LEMMA TotalUnion ==
  ASSUME NEW f, NEW S, NEW T, IsFiniteSet(S), IsFiniteSet(T), S \cap T = {},
         Summable(f, S), Summable(f, T)
  PROVE  Total(f, S \cup T) = Total(f, S) + Total(f, T)
<1>1. AllTallies(f, S \cup T) = AllTallies(f, S) \cup AllTallies(f, T)
  BY DEF AllTallies
<1>2. AllTallies(f, S) \cap AllTallies(f, T) = {}
  BY DEF AllTallies, Tallies
<1>3. IsFiniteSet(AllTallies(f, S)) /\ IsFiniteSet(AllTallies(f, T))
  BY TalliesFinite
<1>4. Cardinality(AllTallies(f, S) \cap AllTallies(f, T)) = 0
  BY <1>2, FS_EmptySet
<1>5. Cardinality(AllTallies(f, S)) \in Nat /\ Cardinality(AllTallies(f, T)) \in Nat
  BY <1>3, FS_CardinalityType
<1>6. Cardinality(AllTallies(f, S \cup T)) = Cardinality(AllTallies(f, S)) + Cardinality(AllTallies(f, T))
  <2>1. PICK A, B : A = AllTallies(f, S) /\ B = AllTallies(f, T)
    OBVIOUS
  <2>2. Cardinality(A \cup B) = Cardinality(A) + Cardinality(B) - Cardinality(A \cap B)
    BY <2>1, <1>3, FS_Union
  <2>3. Cardinality(A \cap B) = 0 /\ Cardinality(A) \in Nat /\ Cardinality(B) \in Nat
    BY <2>1, <1>4, <1>5
  <2>4. Cardinality(A \cup B) = Cardinality(A) + Cardinality(B)
    BY <2>2, <2>3
  <2> QED
    BY <2>1, <2>4, <1>1
<1> QED
  BY <1>6 DEF AllTallies, Total

\* The total of one amount is that amount.
LEMMA TotalSingle ==
  ASSUME NEW f, NEW x, f[x] \in Nat
  PROVE  Total(f, {x}) = f[x]
<1>1. UNION {Tallies(f, y) : y \in {x}} = Tallies(f, x)
  OBVIOUS
<1> QED
  BY <1>1, TalliesOf DEF Total

\* A member more adds its amount.
LEMMA TotalAdd ==
  ASSUME NEW f, NEW S, NEW x, IsFiniteSet(S), x \notin S, Summable(f, S), f[x] \in Nat
  PROVE  Total(f, S \cup {x}) = Total(f, S) + f[x]
<1>1. IsFiniteSet({x}) /\ S \cap {x} = {} /\ Summable(f, {x})
  BY FS_Singleton DEF Summable
<1> QED
  BY <1>1, TotalUnion, TotalSingle

\* A member less takes its amount, which the total is never below.
LEMMA TotalRemove ==
  ASSUME NEW f, NEW S, NEW x \in S, IsFiniteSet(S), Summable(f, S)
  PROVE  /\ Total(f, S) = Total(f, S \ {x}) + f[x]
         /\ Total(f, S \ {x}) \in Nat
         /\ f[x] <= Total(f, S)
<1>1. IsFiniteSet(S \ {x}) /\ x \notin S \ {x} /\ Summable(f, S \ {x}) /\ f[x] \in Nat
  BY FS_RemoveElement DEF Summable
<1>2. (S \ {x}) \cup {x} = S
  OBVIOUS
<1>3. Total(f, S) = Total(f, S \ {x}) + f[x]
  BY <1>1, <1>2, TotalAdd
<1>4. Total(f, S \ {x}) \in Nat
  BY <1>1, TotalType
<1> QED
  BY <1>1, <1>3, <1>4

\* A part is no more than the whole.
LEMMA TotalPart ==
  ASSUME NEW f, NEW S, NEW T, T \subseteq S, IsFiniteSet(S), Summable(f, S)
  PROVE  IsFiniteSet(T) /\ Total(f, T) <= Total(f, S)
<1>1. IsFiniteSet(T) /\ IsFiniteSet(S \ T)
  BY FS_Subset, FS_Difference
<1>2. Summable(f, T) /\ Summable(f, S \ T) /\ T \cap (S \ T) = {} /\ T \cup (S \ T) = S
  BY DEF Summable
<1>3. Total(f, S) = Total(f, T) + Total(f, S \ T)
  BY <1>1, <1>2, TotalUnion
<1>4. Total(f, T) \in Nat /\ Total(f, S \ T) \in Nat
  BY <1>1, <1>2, TotalType
<1> QED
  BY <1>1, <1>3, <1>4

\* When one amount changes the total changes with it.
LEMMA TotalChange ==
  ASSUME NEW f, NEW g, NEW S, NEW x \in S, IsFiniteSet(S), Summable(f, S), g[x] \in Nat,
         \A y \in S : y # x => g[y] = f[y]
  PROVE  /\ Total(g, S) = Total(f, S) - f[x] + g[x]
         /\ f[x] <= Total(f, S)
<1>1. Summable(g, S)
  BY DEF Summable
<1>2. /\ Total(f, S) = Total(f, S \ {x}) + f[x] /\ Total(f, S \ {x}) \in Nat
      /\ Total(g, S) = Total(g, S \ {x}) + g[x] /\ f[x] <= Total(f, S)
  BY <1>1, TotalRemove
<1>3. Total(g, S \ {x}) = Total(f, S \ {x})
  BY TotalSame
<1> QED
  BY <1>2, <1>3 DEF Summable

\* A set of naturals that is not empty has a least member.
LEMMA LeastMember ==
  ASSUME NEW S, S \subseteq Nat, S # {}
  PROVE  \E x \in S : \A y \in S : x <= y
<1>1. PICK x \in S : \A y \in S : <<y, x>> \notin OpToRel(<, Nat)
  BY WFMin, NatLessThanWellFounded
<1>2. \A y \in S : ~ (y < x)
  BY <1>1 DEF OpToRel
<1> QED
  BY <1>2

\* Place by place, sums add up.
LEMMA TotalPlus ==
  ASSUME NEW f, NEW g, NEW h, NEW n \in Nat, Summable(f, 1 .. n), Summable(g, 1 .. n),
         \A i \in 1 .. n : h[i] = f[i] + g[i]
  PROVE  Total(h, 1 .. n) = Total(f, 1 .. n) + Total(g, 1 .. n)
<1> DEFINE Plus(m) == Total(h, 1 .. m) = Total(f, 1 .. m) + Total(g, 1 .. m)
           wrong == {m \in 0 .. n : ~Plus(m)}
<1> SUFFICES ASSUME wrong # {} PROVE FALSE
  OBVIOUS
<1>1. PICK m \in wrong : \A k \in wrong : m <= k
  <2>1. wrong \subseteq Nat /\ wrong # {}
    OBVIOUS
  <2> HIDE DEF wrong
  <2> QED
    BY <2>1, LeastMember
<1>2. m \in 0 .. n /\ ~Plus(m)
  OBVIOUS
<1>3. Plus(0)
  <2>1. 1 .. 0 = {}
    OBVIOUS
  <2> QED
    BY <2>1, TotalEmpty
<1>4. m # 0
  BY <1>2, <1>3
<1>5. PICK k \in 0 .. n : k = m - 1
  BY <1>2, <1>4
<1>6. Plus(k)
  BY <1>1, <1>5
<1> HIDE DEF wrong
<1>7. IsFiniteSet(1 .. k) /\ m \notin 1 .. k /\ 1 .. m = (1 .. k) \cup {m}
  <2>1. k \in Int /\ m = k + 1 /\ k >= 0
    BY <1>2, <1>5
  <2>2. IsFiniteSet(1 .. k)
    BY <2>1, FS_Interval
  <2>3. m \notin 1 .. k /\ 1 .. m = (1 .. k) \cup {m}
    BY ONLY <2>1
  <2> QED
    BY <2>2, <2>3
<1>8. /\ f[m] \in Nat /\ g[m] \in Nat /\ h[m] = f[m] + g[m]
      /\ Summable(f, 1 .. k) /\ Summable(g, 1 .. k) /\ Summable(h, 1 .. k) /\ h[m] \in Nat
  BY <1>2, <1>4, <1>5 DEF Summable
<1>9. /\ Total(f, 1 .. m) = Total(f, 1 .. k) + f[m]
      /\ Total(g, 1 .. m) = Total(g, 1 .. k) + g[m]
      /\ Total(h, 1 .. m) = Total(h, 1 .. k) + h[m]
  <2>1. PICK S : S = 1 .. k
    OBVIOUS
  <2>2. ASSUME NEW F, Summable(F, S), F[m] \in Nat PROVE Total(F, S \cup {m}) = Total(F, S) + F[m]
    BY ONLY <1>7, <2>1, <2>2, TotalAdd
  <2>3. /\ Summable(f, S) /\ f[m] \in Nat /\ Summable(g, S) /\ g[m] \in Nat
        /\ Summable(h, S) /\ h[m] \in Nat /\ 1 .. m = S \cup {m}
    BY <1>7, <1>8, <2>1
  <2> QED
    BY ONLY <2>1, <2>2, <2>3
<1>10. Total(f, 1 .. k) \in Nat /\ Total(g, 1 .. k) \in Nat
  BY <1>7, <1>8, TotalType
<1>11. Plus(m)
  BY <1>6, <1>8, <1>9, <1>10
<1> QED
  BY <1>2, <1>11

\* Nothing adds up to nothing.
LEMMA TotalZero ==
  ASSUME NEW f, NEW S, \A x \in S : f[x] = 0
  PROVE  Total(f, S) = 0
<1>1. \A x \in S : Tallies(f, x) = {}
  BY DEF Tallies
<1>2. UNION {Tallies(f, x) : x \in S} = {}
  BY <1>1
<1> QED
  BY <1>2, FS_EmptySet DEF Total

\* A total is that of a part and of the rest.
LEMMA TotalSplit ==
  ASSUME NEW f, NEW S, NEW T, T \subseteq S, IsFiniteSet(S), Summable(f, S)
  PROVE  /\ IsFiniteSet(T) /\ IsFiniteSet(S \ T) /\ Summable(f, T) /\ Summable(f, S \ T)
         /\ Total(f, S) = Total(f, T) + Total(f, S \ T)
         /\ Total(f, T) \in Nat /\ Total(f, S \ T) \in Nat
<1>1. IsFiniteSet(T) /\ IsFiniteSet(S \ T)
  BY FS_Subset, FS_Difference
<1>2. Summable(f, T) /\ Summable(f, S \ T) /\ T \cap (S \ T) = {} /\ T \cup (S \ T) = S
  BY DEF Summable
<1>3. Total(f, S) = Total(f, T) + Total(f, S \ T)
  BY <1>1, <1>2, TotalUnion
<1>4. Total(f, T) \in Nat /\ Total(f, S \ T) \in Nat
  BY <1>1, <1>2, TotalType
<1> QED
  BY <1>1, <1>2, <1>3, <1>4

\* The members of a set may be renamed.
LEMMA TotalRename ==
  ASSUME NEW f, NEW g, NEW h, NEW S, NEW T, IsFiniteSet(S), Summable(f, S), h \in [S -> T],
         \A x, y \in S : h[x] = h[y] => x = y, \A t \in T : \E x \in S : h[x] = t,
         \A x \in S : g[h[x]] = f[x]
  PROVE  IsFiniteSet(T) /\ Summable(g, T) /\ Total(g, T) = Total(f, S)
<1> DEFINE A == AllTallies(f, S)
           B == AllTallies(g, T)
           m == [z \in A |-> <<h[z[1]], z[2]>>]
<1>1. IsFiniteSet(A)
  BY TalliesFinite
<1>2. \A z : z \in A <=> \E x \in S : \E k \in 1 .. f[x] : z = <<x, k>>
  BY DEF AllTallies, Tallies
<1>3. \A z : z \in B <=> \E t \in T : \E k \in 1 .. g[t] : z = <<t, k>>
  BY DEF AllTallies, Tallies
<1>4. m \in [A -> B]
  <2>1. ASSUME NEW z \in A PROVE m[z] \in B
    <3>1. PICK x \in S, k \in Int : k \in 1 .. f[x] /\ z = <<x, k>>
      BY <1>2
    <3>2. m[z] = <<h[x], k>> /\ h[x] \in T /\ k \in 1 .. g[h[x]]
      BY <3>1
    <3> QED
      BY <3>2, <1>3
  <2> QED
    BY <2>1
<1>5. ASSUME NEW y \in A, NEW z \in A, m[y] = m[z] PROVE y = z
  <2>1. PICK x1 \in S, k1 \in Int : k1 \in 1 .. f[x1] /\ y = <<x1, k1>>
    BY <1>2
  <2>2. PICK x2 \in S, k2 \in Int : k2 \in 1 .. f[x2] /\ z = <<x2, k2>>
    BY <1>2
  <2>3. m[y] = <<h[x1], k1>> /\ m[z] = <<h[x2], k2>>
    BY <2>1, <2>2
  <2>4. h[x1] = h[x2] /\ k1 = k2
    BY <1>5, <2>3
  <2> QED
    BY <2>1, <2>2, <2>4
<1>6. ASSUME NEW z \in B PROVE \E y \in A : m[y] = z
  <2>1. PICK t \in T, k \in Int : k \in 1 .. g[t] /\ z = <<t, k>>
    BY <1>3
  <2>2. PICK x \in S : h[x] = t
    OBVIOUS
  <2>3. k \in 1 .. f[x]
    BY <2>1, <2>2
  <2>4. <<x, k>> \in A
    BY <1>2, <2>3
  <2>5. m[<<x, k>>] = z
    BY <2>1, <2>2, <2>4
  <2> QED
    BY <2>4, <2>5
<1>7. m \in Bijection(A, B)
  <2> HIDE DEF m, A, B
  <2>1. m \in Injection(A, B)
    BY <1>4, <1>5 DEF Injection, IsInjective
  <2>2. m \in Surjection(A, B)
    BY <1>4, <1>6 DEF Surjection
  <2> QED
    BY <2>1, <2>2 DEF Bijection
<1>8. Cardinality(B) = Cardinality(A)
  <2>1. ExistsBijection(A, B)
    BY <1>7 DEF ExistsBijection
  <2> HIDE DEF m, A, B
  <2> QED
    BY <1>1, <2>1, FS_Bijection
<1>9. Total(g, T) = Total(f, S)
  BY <1>8 DEF Total, AllTallies
<1>10. IsFiniteSet(T)
  <2>1. h \in Surjection(S, T)
    BY DEF Surjection
  <2> QED
    BY <2>1, FS_Surjection
<1>11. Summable(g, T)
  BY DEF Summable
<1> QED
  BY <1>9, <1>10, <1>11
===============================================================================
