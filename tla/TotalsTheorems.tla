---------------------------- MODULE TotalsTheorems ----------------------------
(***************************************************************************)
(* Laws of Total, of division, and of the extreme elements of sets of      *)
(* numbers.  A sum is a cardinality, so its laws are those of the          *)
(* library's FiniteSetTheorems about unions and products.                  *)
(***************************************************************************)
EXTENDS Totals, FiniteSetsExt, FiniteSetTheorems, WellFoundedInduction, TLAPS

(* A nonempty set of naturals has a least element, and Min is it.          *)
LEMMA MinNat ==
  ASSUME NEW S \in SUBSET Nat, S # {}
  PROVE  Min(S) \in S /\ \A y \in S : Min(S) <= y
<1> DEFINE R == OpToRel(<, Nat)
<1>1. R = {p \in Nat \X Nat : p[1] < p[2]}
  BY DEF OpToRel
<1>2. IsWellFoundedOn(R, Nat)
  BY NatLessThanWellFounded
<1> HIDE DEF R
<1>3. PICK x \in S : \A y \in S : ~ (<<y, x>> \in R)
  BY <1>2, WFMin, S \subseteq Nat, Zenon
<1>4. ASSUME NEW y \in S
      PROVE  x <= y
  <2>1. x \in Nat /\ y \in Nat
    OBVIOUS
  <2>2. <<y, x>> \notin R
    BY <1>3
  <2>3. ~ (y < x)
    BY <1>1, <2>1, <2>2
  <2>4. QED
    BY <2>1, <2>3
<1>5. QED
  BY <1>4 DEF Min

(* A nonempty bounded set of naturals has a greatest element, and Max is   *)
(* it.                                                                     *)
LEMMA MaxNat ==
  ASSUME NEW n \in Nat, NEW S \in SUBSET (0 .. n), S # {}
  PROVE  Max(S) \in S /\ \A y \in S : Max(S) >= y
<1> DEFINE D == {n - y : y \in S}
<1>1. D \in SUBSET Nat /\ D # {}
  <2>1. \A y \in S : n - y \in Nat
    OBVIOUS
  <2>2. QED
    BY <2>1
<1>2. PICK m \in D : \A d \in D : m <= d
  BY <1>1, MinNat
<1>3. n - m \in S /\ \A y \in S : n - m >= y
  BY <1>2
<1>4. QED
  BY <1>3 DEF Max

-------------------------------------------------------------------------------

(* The tokens of a finite set are finite when no value exceeds b, and so   *)
(* the total is a natural number.                                          *)
LEMMA TotalType ==
  ASSUME NEW S, IsFiniteSet(S), NEW f, NEW b \in Nat,
         \A x \in S : f[x] \in 0 .. b
  PROVE  IsFiniteSet(Units(S, f)) /\ Total(S, f) \in Nat
<1>1. IsFiniteSet(1 .. b)
  BY FS_Interval
<1>2. IsFiniteSet(S \X (1 .. b))
  BY <1>1, FS_Product
<1>3. Units(S, f) \subseteq S \X (1 .. b)
  BY DEF Units
<1>4. IsFiniteSet(Units(S, f))
  BY <1>2, <1>3, FS_Subset
<1>5. QED
  BY <1>4, FS_CardinalityType DEF Total

(* The same for a function whose values are naturals, bounded or not.      *)
LEMMA TotalNat ==
  ASSUME NEW S, IsFiniteSet(S), NEW f, \A x \in S : f[x] \in Nat
  PROVE  IsFiniteSet(Units(S, f)) /\ Total(S, f) \in Nat
<1> DEFINE tokens == [x \in S |-> {x} \X (1 .. f[x])]
           T == {tokens[x] : x \in S}
<1>1. IsFiniteSet(T)
  <2>1. tokens \in Surjection(S, T)
    BY DEF Surjection
  <2> QED BY <2>1, FS_Surjection DEF ExistsSurjection
<1>2. \A t \in T : IsFiniteSet(t)
  <2>1. ASSUME NEW x \in S PROVE IsFiniteSet(tokens[x])
    <3> HIDE DEF tokens
    <3>1. IsFiniteSet({x})
      BY FS_Singleton
    <3>2. f[x] \in Int /\ 1 \in Int
      OBVIOUS
    <3>3. IsFiniteSet(1 .. f[x])
      BY <3>2, FS_Interval
    <3>4. IsFiniteSet({x} \X (1 .. f[x]))
      BY <3>1, <3>3, FS_Product
    <3> QED BY <3>4 DEF tokens
  <2> QED BY <2>1
<1>3. Units(S, f) = UNION T
  BY DEF Units
<1>4. IsFiniteSet(Units(S, f))
  BY <1>1, <1>2, <1>3, FS_UNION
<1> QED BY <1>4, FS_CardinalityType DEF Total

(* The total of nothing is zero.                                           *)
LEMMA TotalEmpty ==
  ASSUME NEW f
  PROVE  Total({}, f) = 0
<1>1. Units({}, f) = {}
  BY DEF Units
<1>2. QED
  BY <1>1, FS_EmptySet DEF Total

(* Only the values on S matter.                                            *)
LEMMA TotalCongruence ==
  ASSUME NEW S, NEW f, NEW g, \A x \in S : f[x] = g[x]
  PROVE  Total(S, f) = Total(S, g)
<1>1. Units(S, f) = Units(S, g)
  BY DEF Units
<1>2. QED
  BY <1>1 DEF Total

(* The total of one row is its value.                                      *)
LEMMA TotalSingleton ==
  ASSUME NEW a, NEW f, f[a] \in Nat
  PROVE  Total({a}, f) = f[a]
<1>1. Units({a}, f) = {a} \X (1 .. f[a])
  BY DEF Units
<1>2. IsFiniteSet({a}) /\ Cardinality({a}) = 1
  BY FS_Singleton
<1>3. IsFiniteSet(1 .. f[a]) /\ Cardinality(1 .. f[a]) = f[a]
  BY FS_Interval
<1>4. Cardinality({a} \X (1 .. f[a])) = 1 * f[a]
  BY <1>2, <1>3, FS_Product
<1>5. 1 * f[a] = f[a]
  OBVIOUS
<1>6. QED
  BY <1>1, <1>4, <1>5 DEF Total

(* The total of two disjoint sets is the sum of their totals.              *)
LEMMA TotalDisjointUnion ==
  ASSUME NEW S, IsFiniteSet(S), NEW T, IsFiniteSet(T), S \cap T = {},
         NEW f, \A x \in S \cup T : f[x] \in Nat
  PROVE  Total(S \cup T, f) = Total(S, f) + Total(T, f)
<1>1. Units(S \cup T, f) = Units(S, f) \cup Units(T, f)
  BY DEF Units
<1>2. Units(S, f) \cap Units(T, f) = {}
  BY DEF Units
<1>3. /\ IsFiniteSet(Units(S, f)) /\ Total(S, f) \in Nat
      /\ IsFiniteSet(Units(T, f)) /\ Total(T, f) \in Nat
  BY TotalNat
<1>4. Cardinality(Units(S, f) \cup Units(T, f)) =
        Cardinality(Units(S, f)) + Cardinality(Units(T, f)) - 0
  BY <1>2, <1>3, FS_Union, FS_EmptySet
<1>5. Total(S \cup T, f) = Total(S, f) + Total(T, f) - 0
  BY <1>1, <1>4 DEF Total
<1>6. QED
  BY <1>3, <1>5

(* Removing rows takes their total away.                                   *)
LEMMA TotalDifference ==
  ASSUME NEW S, IsFiniteSet(S), NEW T \in SUBSET S,
         NEW f, \A x \in S : f[x] \in Nat
  PROVE  Total(S, f) = Total(S \ T, f) + Total(T, f)
<1>1. IsFiniteSet(T) /\ IsFiniteSet(S \ T)
  BY FS_Subset
<1>2. (S \ T) \cup T = S /\ (S \ T) \cap T = {}
  OBVIOUS
<1>3. Total((S \ T) \cup T, f) = Total(S \ T, f) + Total(T, f)
  BY <1>1, <1>2, TotalDisjointUnion
<1>4. QED
  BY <1>2, <1>3

(* Fewer rows never total more.                                            *)
LEMMA TotalMonotone ==
  ASSUME NEW S, IsFiniteSet(S), NEW T \in SUBSET S,
         NEW f, \A x \in S : f[x] \in Nat
  PROVE  Total(T, f) <= Total(S, f)
<1>1. IsFiniteSet(T) /\ IsFiniteSet(S \ T)
  BY FS_Subset
<1>2. Total(T, f) \in Nat /\ Total(S \ T, f) \in Nat
  BY <1>1, TotalNat
<1>3. Total(S, f) = Total(S \ T, f) + Total(T, f)
  BY TotalDifference
<1>4. QED
  BY <1>2, <1>3

-------------------------------------------------------------------------------

(* The elements of a finite set in a strict total order have places        *)
(* 1, 2, ...; below[x] are the elements before x.                          *)
LEMMA Places ==
  ASSUME NEW S, IsFiniteSet(S), NEW below,
         \A x \in S : below[x] \in SUBSET S /\ x \notin below[x],
         \A x, y \in S : x \in below[y] => below[x] \subseteq below[y],
         \A x, y \in S : x = y \/ x \in below[y] \/ y \in below[x],
         NEW place, place = [x \in S |-> Cardinality(below[x]) + 1]
  PROVE  /\ Cardinality(S) \in Nat
         /\ \A x \in S : place[x] \in 1 .. Cardinality(S)
         /\ \A x, y \in S : x \in below[y] => place[x] < place[y]
         /\ \A x, y \in S : place[x] = place[y] => x = y
         /\ \A k \in 1 .. Cardinality(S) : \E x \in S : place[x] = k
<1> DEFINE n == Cardinality(S)
<1>1. n \in Nat
  BY FS_CardinalityType
<1>2. ASSUME NEW x \in S
      PROVE  /\ IsFiniteSet(below[x]) /\ Cardinality(below[x]) \in Nat
             /\ place[x] = Cardinality(below[x]) + 1 /\ place[x] \in 1 .. n
  <2>1. IsFiniteSet(below[x]) /\ Cardinality(below[x]) \in Nat /\ Cardinality(below[x]) <= n
    BY FS_Subset, FS_CardinalityType
  <2>2. below[x] # S
    OBVIOUS
  <2>3. Cardinality(below[x]) # n
    BY <2>2, FS_Subset
  <2>4. QED
    BY <1>1, <2>1, <2>3
<1>3. ASSUME NEW x \in S, NEW y \in S, x \in below[y]
      PROVE  place[x] < place[y]
  <2>1. below[x] \in SUBSET below[y] /\ below[x] # below[y]
    BY <1>3
  <2>2. IsFiniteSet(below[y]) /\ Cardinality(below[y]) \in Nat /\ Cardinality(below[x]) \in Nat
    BY <1>2
  <2>3. Cardinality(below[x]) <= Cardinality(below[y]) /\ Cardinality(below[x]) # Cardinality(below[y])
    BY <2>1, <2>2, FS_Subset
  <2>4. QED
    BY <1>2, <2>2, <2>3
<1>4. ASSUME NEW x \in S, NEW y \in S, place[x] = place[y]
      PROVE  x = y
  <2>1. place[x] \in Nat /\ place[y] \in Nat
    BY <1>1, <1>2
  <2>2. ~ place[x] < place[y] /\ ~ place[y] < place[x]
    BY <1>4, <2>1
  <2>3. QED
    BY <1>3, <2>2
<1>5. place \in Injection(S, 1 .. n)
  <2>1. place \in [S -> 1 .. n]
    BY <1>2
  <2>2. QED
    BY <1>4, <2>1 DEF Injection, IsInjective
<1>6. IsFiniteSet(1 .. n) /\ Cardinality(1 .. n) = n
  BY <1>1, FS_Interval
<1>7. place \in Surjection(S, 1 .. n)
  <2> HIDE DEF n
  <2>1. QED
    BY <1>5, <1>6, FS_Injection DEF n
<1>8. QED
  BY <1>1, <1>2, <1>3, <1>4, <1>7 DEF Surjection

(* What the elements are by their places: the sequence of an ORDER BY.     *)
LEMMA Ranked ==
  ASSUME NEW S, IsFiniteSet(S), NEW below,
         \A x \in S : below[x] \in SUBSET S /\ x \notin below[x],
         \A x, y \in S : x \in below[y] => below[x] \subseteq below[y],
         \A x, y \in S : x = y \/ x \in below[y] \/ y \in below[x]
  PROVE  LET n == Cardinality(S)
             r == Ordered(S, below)
         IN  /\ n \in Nat
             /\ r \in [1 .. n -> S]
             /\ \A k, m \in 1 .. n : k < m => r[k] \in below[r[m]]
             /\ \A x \in S : \E k \in 1 .. n : r[k] = x
<1> DEFINE place == [x \in S |-> Cardinality(below[x]) + 1]
           n == Cardinality(S)
           r == Ordered(S, below)
<1>1. /\ n \in Nat
      /\ \A x \in S : place[x] \in 1 .. n
      /\ \A x, y \in S : x \in below[y] => place[x] < place[y]
      /\ \A x, y \in S : place[x] = place[y] => x = y
      /\ \A k \in 1 .. n : \E x \in S : place[x] = k
  <2>1. place = [x \in S |-> Cardinality(below[x]) + 1]
    OBVIOUS
  <2> HIDE DEF place, n
  <2>2. QED
    BY <2>1, Places DEF n
<1>2. \A x \in S : place[x] = Cardinality(below[x]) + 1
  OBVIOUS
<1> HIDE DEF place, n, r
<1>3. \A k \in 1 .. n : r[k] \in S /\ place[r[k]] = k
  <2> SUFFICES ASSUME NEW k \in 1 .. n PROVE r[k] \in S /\ place[r[k]] = k
    OBVIOUS
  <2>1. PICK e \in S : Cardinality(below[e]) + 1 = k
    BY <1>1, <1>2
  <2>2. r[k] = CHOOSE x \in S : Cardinality(below[x]) + 1 = k
    BY DEF n, r, Ordered
  <2>3. r[k] \in S /\ Cardinality(below[r[k]]) + 1 = k
    BY <2>1, <2>2, Zenon
  <2>4. QED
    BY <1>2, <2>3
<1>4. ASSUME NEW k \in 1 .. n, NEW m \in 1 .. n, k < m
      PROVE  r[k] \in below[r[m]]
  <2> DEFINE e == r[k]
             f == r[m]
  <2>1. e \in S /\ f \in S /\ place[e] = k /\ place[f] = m
    BY <1>3
  <2> HIDE DEF e, f
  <2>2. e # f /\ f \notin below[e]
    BY <1>1, <1>4, <2>1
  <2>3. e \in below[f]
    BY <2>1, <2>2
  <2>4. QED
    BY <2>3 DEF e, f
<1>5. ASSUME NEW e \in S
      PROVE  \E k \in 1 .. n : r[k] = e
  <2>1. place[e] \in 1 .. n
    BY <1>1
  <2>2. r[place[e]] \in S /\ place[r[place[e]]] = place[e]
    BY <1>3, <2>1
  <2>3. r[place[e]] = e
    BY <1>1, <2>2
  <2>4. QED
    BY <2>1, <2>3
<1>6. r = [k \in 1 .. n |-> r[k]]
  BY DEF n, r, Ordered
<1>7. r \in [1 .. n -> S]
  BY <1>3, <1>6
<1>8. QED
  BY <1>1, <1>4, <1>5, <1>7 DEF n, r

(* There is a first and a last element.                                    *)
LEMMA FirstAndLast ==
  ASSUME NEW S, IsFiniteSet(S), S # {}, NEW below,
         \A x \in S : below[x] \in SUBSET S /\ x \notin below[x],
         \A x, y \in S : x \in below[y] => below[x] \subseteq below[y],
         \A x, y \in S : x = y \/ x \in below[y] \/ y \in below[x]
  PROVE  /\ \E x \in S : \A y \in S : y \notin below[x]
         /\ \E x \in S : \A y \in S : x \notin below[y]
<1> DEFINE r == Ordered(S, below)
           n == Cardinality(S)
<1>1. /\ n \in Nat
      /\ r \in [1 .. n -> S]
      /\ \A k, m \in 1 .. n : k < m => r[k] \in below[r[m]]
      /\ \A x \in S : \E k \in 1 .. n : r[k] = x
  BY Ranked
<1>2. n # 0
  BY FS_EmptySet
<1> HIDE DEF r, n
<1>3. 1 \in 1 .. n /\ n \in 1 .. n
  BY <1>1, <1>2
<1>4. \A x, y \in S : x \in below[y] => y \notin below[x]
  OBVIOUS
<1>5. ASSUME NEW y \in S PROVE y \notin below[r[1]] /\ r[n] \notin below[y]
  <2>1. PICK k \in 1 .. n : r[k] = y
    BY <1>1
  <2>2. k = 1 \/ 1 < k
    OBVIOUS
  <2>3. k = n \/ k < n
    BY <1>1
  <2>4. r[1] \in S /\ r[n] \in S
    BY <1>1, <1>3
  <2>5. y \notin below[r[1]]
    BY <1>1, <1>3, <1>4, <2>1, <2>2, <2>4
  <2>6. r[n] \notin below[y]
    BY <1>1, <1>3, <1>4, <2>1, <2>3, <2>4
  <2>7. QED
    BY <2>5, <2>6
<1>6. r[1] \in S /\ r[n] \in S
  BY <1>1, <1>3
<1>7. QED
  BY <1>5, <1>6

(* Math.max and Math.min of some numbers.                                  *)
LEMMA Extremes ==
  ASSUME NEW S \in SUBSET Int, IsFiniteSet(S), S # {}
  PROVE  /\ Max(S) \in S /\ \A y \in S : y <= Max(S)
         /\ Min(S) \in S /\ \A y \in S : Min(S) <= y
<1> DEFINE below == [x \in S |-> {y \in S : y < x}]
<1>1. \A x, y \in S : x \in Int /\ y \in Int /\ (y \in below[x] <=> y < x)
  OBVIOUS
<1>2. \A x \in S : below[x] \in SUBSET S
  OBVIOUS
<1> HIDE DEF below
<1>3. \A x \in S : below[x] \in SUBSET S /\ x \notin below[x]
  BY <1>1, <1>2
<1>4. \A x, y \in S : x \in below[y] => below[x] \subseteq below[y]
  BY <1>1, <1>2
<1>5. \A x, y \in S : x = y \/ x \in below[y] \/ y \in below[x]
  BY <1>1
<1>6. /\ \E x \in S : \A y \in S : y \notin below[x]
      /\ \E x \in S : \A y \in S : x \notin below[y]
  BY <1>3, <1>4, <1>5, FirstAndLast
<1>7. PICK a \in S : \A y \in S : a <= y
  <2>1. PICK a \in S : \A y \in S : y \notin below[a]
    BY <1>6
  <2>2. \A y \in S : ~ y < a
    BY <1>1, <2>1
  <2>3. \A y \in S : a <= y
    BY <1>1, <2>2
  <2>4. QED
    BY <2>3
<1>8. PICK b \in S : \A y \in S : b >= y
  <2>1. PICK b \in S : \A y \in S : b \notin below[y]
    BY <1>6
  <2>2. \A y \in S : ~ b < y
    BY <1>1, <2>1
  <2>3. \A y \in S : b >= y
    BY <1>1, <2>2
  <2>4. QED
    BY <2>3
<1>9. Max(S) \in S /\ \A y \in S : Max(S) >= y
  BY <1>8, Zenon DEF Max
<1>10. Min(S) \in S /\ \A y \in S : Min(S) <= y
  BY <1>7, Zenon DEF Min
<1>11. \A x, y \in S : x >= y => y <= x
  BY <1>1
<1>12. QED
  BY <1>9, <1>10, <1>11

(* A total of totals: what is added up over the parts of a partition is    *)
(* what there is in all.                                                   *)
Whole(C, part) == UNION {part[c] : c \in C}

LEMMA TotalPartition ==
  ASSUME NEW C, NEW part, \A c \in C : IsFiniteSet(part[c]),
         \A c, d \in C : c # d => part[c] \cap part[d] = {},
         IsFiniteSet(C), NEW f, \A c \in C : f[c] = Cardinality(part[c])
  PROVE  IsFiniteSet(Whole(C, part)) /\ Total(C, f) = Cardinality(Whole(C, part))
<1> DEFINE all == UNION {part[c] : c \in C}
           num == [c \in C |-> CHOOSE g : g \in Bijection(1 .. f[c], part[c])]
           map == [u \in Units(C, f) |-> num[u[1]][u[2]]]
<1>1. ASSUME NEW c \in C
      PROVE  f[c] \in Nat /\ num[c] \in Bijection(1 .. f[c], part[c])
  <2>1. f[c] \in Nat /\ Bijection(1 .. f[c], part[c]) # {}
    BY FS_CardinalityType DEF ExistsBijection
  <2>2. PICK b : b \in Bijection(1 .. f[c], part[c])
    BY <2>1
  <2>3. num[c] = CHOOSE g : g \in Bijection(1 .. f[c], part[c])
    OBVIOUS
  <2> HIDE DEF num
  <2>4. num[c] \in Bijection(1 .. f[c], part[c])
    BY <2>2, <2>3, Zenon
  <2>5. QED
    BY <2>1, <2>4
<1> HIDE DEF num
<1>2. ASSUME NEW c \in C
      PROVE  /\ \A k \in 1 .. f[c] : num[c][k] \in part[c]
             /\ \A k, m \in 1 .. f[c] : num[c][k] = num[c][m] => k = m
             /\ \A x \in part[c] : \E k \in 1 .. f[c] : num[c][k] = x
  BY <1>1 DEF Bijection, Injection, Surjection, IsInjective
<1>3. /\ \A u \in Units(C, f) : u[1] \in C /\ u[2] \in 1 .. f[u[1]] /\ u = <<u[1], u[2]>>
      /\ \A c \in C : \A k \in 1 .. f[c] : <<c, k>> \in Units(C, f)
  BY DEF Units
<1>4. \A u \in Units(C, f) : map[u] \in all /\ map[u] \in part[u[1]]
  BY <1>2, <1>3
<1>5. ASSUME NEW u \in Units(C, f), NEW v \in Units(C, f), map[u] = map[v]
      PROVE  u = v
  <2>1. u[1] \in C /\ v[1] \in C
    BY <1>3
  <2>2. u[1] = v[1]
    BY <1>4, <1>5, <2>1
  <2>3. u[2] = v[2]
    BY <1>2, <1>3, <1>5, <2>2
  <2>4. QED
    BY <1>3, <2>2, <2>3
<1>6. ASSUME NEW x \in all
      PROVE  \E u \in Units(C, f) : map[u] = x
  <2>1. PICK c \in C : x \in part[c]
    OBVIOUS
  <2>2. PICK k \in 1 .. f[c] : num[c][k] = x
    BY <1>2, <2>1
  <2>3. <<c, k>> \in Units(C, f)
    BY <1>3
  <2>4. map[<<c, k>>] = x
    BY <2>2, <2>3
  <2>5. QED
    BY <2>3, <2>4
<1>7. map \in Bijection(Units(C, f), all)
  <2>1. map \in [Units(C, f) -> all]
    BY <1>4
  <2> HIDE DEF map, all
  <2>2. QED
    BY <1>5, <1>6, <2>1 DEF Bijection, Injection, Surjection, IsInjective
<1>8. IsFiniteSet(Units(C, f))
  BY <1>1, TotalNat
<1>9. ExistsBijection(Units(C, f), all)
  BY <1>7 DEF ExistsBijection
<1> HIDE DEF map, all
<1>10. IsFiniteSet(all) /\ Cardinality(all) = Cardinality(Units(C, f))
  BY <1>8, <1>9, FS_Bijection
<1>11. QED
  BY <1>10 DEF Total, all, Whole

(* A total of numbers between lo and hi is between as many times lo and hi.*)
LEMMA TotalBetween ==
  ASSUME NEW S, IsFiniteSet(S), NEW f, NEW lo \in Nat, NEW hi \in Nat,
         \A x \in S : f[x] \in Nat /\ lo <= f[x] /\ f[x] <= hi
  PROVE  /\ Cardinality(S) \in Nat /\ Total(S, f) \in Nat
         /\ Cardinality(S) * lo <= Total(S, f)
         /\ Total(S, f) <= Cardinality(S) * hi
<1> DEFINE U == Units(S, f)
           L == S \X (1 .. lo)
           H == S \X (1 .. hi)
<1>1. L \subseteq U /\ U \subseteq H
  BY DEF Units
<1>2. /\ IsFiniteSet(1 .. lo) /\ Cardinality(1 .. lo) = lo
      /\ IsFiniteSet(1 .. hi) /\ Cardinality(1 .. hi) = hi
  <2>1. \A b \in Nat : IsFiniteSet(1 .. b) /\ Cardinality(1 .. b) = b
    <3> SUFFICES ASSUME NEW b \in Nat PROVE IsFiniteSet(1 .. b) /\ Cardinality(1 .. b) = b
      OBVIOUS
    <3>1. 1 \in Int /\ b \in Int
      OBVIOUS
    <3>2. QED
      BY <3>1, FS_Interval
  <2>2. QED
    BY <2>1
<1>3. /\ IsFiniteSet(L) /\ Cardinality(L) = Cardinality(S) * lo
      /\ IsFiniteSet(H) /\ Cardinality(H) = Cardinality(S) * hi
  BY <1>2, FS_Product
<1>4. IsFiniteSet(U) /\ Cardinality(U) \in Nat
  BY TotalNat DEF Total
<1>5. Cardinality(S) \in Nat
  BY FS_CardinalityType
<1> HIDE DEF U, L, H
<1>6. Cardinality(L) <= Cardinality(U)
  BY <1>1, <1>4, FS_Subset
<1>7. Cardinality(U) <= Cardinality(H)
  BY <1>1, <1>3, FS_Subset
<1>8. QED
  BY <1>3, <1>4, <1>5, <1>6, <1>7 DEF Total, U

-------------------------------------------------------------------------------

(* A set of values of a function on a finite set is finite.                *)
LEMMA FiniteValues ==
  ASSUME NEW D, IsFiniteSet(D), NEW f, NEW T, \A t \in T : \E x \in D : f[x] = t
  PROVE  IsFiniteSet(T)
<1> DEFINE E == {x \in D : f[x] \in T}
           g == [x \in E |-> f[x]]
<1>1. IsFiniteSet(E)
  BY FS_Subset
<1>2. g \in Surjection(E, T)
  BY DEF Surjection
<1> HIDE DEF E, g
<1>3. QED
  BY <1>1, <1>2, FS_Surjection

(* Totals over the parts of a partition add up to the total of all.        *)
LEMMA TotalOfTotals ==
  ASSUME NEW C, IsFiniteSet(C), NEW part, NEW S, IsFiniteSet(S),
         \A c \in C : part[c] \in SUBSET S,
         \A c, d \in C : c # d => part[c] \cap part[d] = {},
         NEW g, \A x \in S : g[x] \in Nat,
         NEW f, \A c \in C : f[c] = Total(part[c], g)
  PROVE  Total(C, f) = Total(Whole(C, part), g)
<1> DEFINE u == [c \in C |-> Units(part[c], g)]
<1>1. \A c \in C : u[c] = Units(part[c], g)
  OBVIOUS
<1>2. \A A : \A t \in Units(A, g) : t[1] \in A
  BY DEF Units
<1>3. Whole(C, u) = Units(Whole(C, part), g)
  BY DEF Whole, Units
<1> HIDE DEF u
<1>4. ASSUME NEW c \in C
      PROVE  IsFiniteSet(u[c]) /\ f[c] = Cardinality(u[c])
  <2>1. IsFiniteSet(part[c]) /\ \A x \in part[c] : g[x] \in Nat
    BY FS_Subset
  <2>2. IsFiniteSet(Units(part[c], g))
    BY <2>1, TotalNat
  <2>3. QED
    BY <1>1, <2>2 DEF Total
<1>5. \A c, d \in C : c # d => u[c] \cap u[d] = {}
  BY <1>1, <1>2
<1>6. Total(C, f) = Cardinality(Whole(C, u))
  BY <1>4, <1>5, TotalPartition
<1>7. QED
  BY <1>3, <1>6 DEF Total

(* Math.max(0, .) and the like.                                            *)
LEMMA MaxPair ==
  ASSUME NEW a \in Int, NEW b \in Int
  PROVE  /\ Max({a, b}) = IF a <= b THEN b ELSE a
         /\ Min({a, b}) = IF a <= b THEN a ELSE b
<1>1. IsFiniteSet({a} \cup {b})
  BY FS_Singleton, FS_AddElement
<1>2. {a} \cup {b} = {a, b} /\ {a, b} \in SUBSET Int /\ {a, b} # {}
  OBVIOUS
<1>3. /\ Max({a, b}) \in {a, b} /\ \A y \in {a, b} : y <= Max({a, b})
      /\ Min({a, b}) \in {a, b} /\ \A y \in {a, b} : Min({a, b}) <= y
  BY <1>1, <1>2, Extremes
<1>4. QED
  BY <1>3

-------------------------------------------------------------------------------

(* Division rounds down.                                                   *)
LEMMA DivIs ==
  ASSUME NEW a \in Int, NEW d \in Nat \ {0}
  PROVE  /\ a \div d \in Int
         /\ d * (a \div d) \in Int
         /\ d * (a \div d) <= a
         /\ a < d * (a \div d) + d
<1>1. a \div d \in Int /\ a % d \in 0 .. d - 1 /\ a = d * (a \div d) + (a % d)
  OBVIOUS
<1> DEFINE q == a \div d
           r == a % d
<1>2. d * q \in Int
  BY <1>1
<1> HIDE DEF q, r
<1>3. d * q <= a /\ a < d * q + d
  BY <1>1, <1>2 DEF q, r
<1>4. QED
  BY <1>1, <1>2, <1>3 DEF q

LEMMA DivUnique ==
  ASSUME NEW a \in Int, NEW d \in Nat \ {0}, NEW q \in Int, d * q <= a, a < d * q + d
  PROVE  a \div d = q
<1> DEFINE p == a \div d
<1>1. p \in Int /\ d * p \in Int /\ d * p <= a /\ a < d * p + d /\ d * q \in Int
  BY DivIs
<1> HIDE DEF p
<1>2. CASE p < q
  <2>1. p + 1 <= q
    BY <1>1, <1>2
  <2>2. d * (p + 1) <= d * q
    BY <1>1, <2>1
  <2>3. d * (p + 1) = d * p + d
    BY <1>1
  <2>4. QED
    BY <1>1, <2>2, <2>3
<1>3. CASE q < p
  <2>1. q + 1 <= p
    BY <1>1, <1>3
  <2>2. d * (q + 1) <= d * p
    BY <1>1, <2>1
  <2>3. d * (q + 1) = d * q + d
    OBVIOUS
  <2>4. QED
    BY <1>1, <2>2, <2>3
<1>4. CASE p = q
  BY <1>4 DEF p
<1>5. QED
  BY <1>1, <1>2, <1>3, <1>4

LEMMA DivMonotone ==
  ASSUME NEW a \in Int, NEW b \in Int, NEW d \in Nat \ {0}, a <= b
  PROVE  a \div d <= b \div d
<1> DEFINE p == a \div d
           q == b \div d
<1>1. p \in Int /\ d * p \in Int /\ d * p <= a /\ a < d * p + d
  BY DivIs
<1>2. q \in Int /\ d * q \in Int /\ d * q <= b /\ b < d * q + d
  BY DivIs
<1> HIDE DEF p, q
<1>3. CASE q < p
  <2>1. q + 1 <= p
    BY <1>1, <1>2, <1>3
  <2>2. d * (q + 1) <= d * p
    BY <1>1, <1>2, <2>1
  <2>3. d * (q + 1) = d * q + d
    BY <1>2
  <2>4. QED
    BY <1>1, <1>2, <2>2, <2>3
<1>4. QED
  BY <1>1, <1>2, <1>3 DEF p, q

LEMMA DivBack ==
  ASSUME NEW a \in Int, NEW b \in Int, NEW d \in Nat \ {0}, a \div d >= b \div d
  PROVE  a >= b - d + 1
<1> DEFINE p == a \div d
           q == b \div d
<1>1. p \in Int /\ d * p \in Int /\ d * p <= a /\ a < d * p + d
  BY DivIs
<1>2. q \in Int /\ d * q \in Int /\ d * q <= b /\ b < d * q + d
  BY DivIs
<1>3. q <= p
  BY <1>1, <1>2
<1> HIDE DEF p, q
<1>4. d * q <= d * p
  BY <1>1, <1>2, <1>3
<1>5. QED
  BY <1>1, <1>2, <1>4

===============================================================================
