----------------------------- MODULE OrderTheorems -----------------------------
(***************************************************************************)
(* What a customer order can count on: it is served at once and exactly,   *)
(* and what has been fulfilled of it stays fulfilled.                      *)
(*                                                                         *)
(* createOrderTx packs a line in a loop, so that its allocations sum to    *)
(* the quantity asked is a fact about a loop.  The proof avoids induction  *)
(* by numbering the units of the line: the units of pending job j follow   *)
(* the space before j, those of the m-th batch follow m full batches, and  *)
(* every number from 1 to the quantity is hit exactly once.  That these    *)
(* shares are those of the loop itself is PackingIsLoop.                   *)
(***************************************************************************)
EXTENDS OrderReports, PackingLoop, BackendTheorems

(* The rows of S, each f[x] numbers long and starting after start[x], use  *)
(* no number twice and none but 1 .. n.                                    *)
Apart(S, f, start, n) ==
  /\ \A x \in S : \A k \in 1 .. f[x] : start[x] + k \in 1 .. n
  /\ \A x \in S, y \in S : \A k \in 1 .. f[x], m \in 1 .. f[y] :
       start[x] + k = start[y] + m => x = y

(* They leave none out.                                                    *)
Covered(S, f, start, n) ==
  \A i \in 1 .. n : \E x \in S : start[x] < i /\ i <= start[x] + f[x]

(* Numbering the units of rows that lie apart is an injection.             *)
LEMMA UnitsNumbered ==
  ASSUME NEW S, NEW f, NEW start, NEW n \in Nat,
         \A x \in S : f[x] \in Nat /\ start[x] \in Nat,
         Apart(S, f, start, n)
  PROVE  [u \in Units(S, f) |-> start[u[1]] + u[2]] \in Injection(Units(S, f), 1 .. n)
<1> DEFINE number == [u \in Units(S, f) |-> start[u[1]] + u[2]]
<1>1. ASSUME NEW u \in Units(S, f)
      PROVE  u[1] \in S /\ u[2] \in 1 .. f[u[1]] /\ u = <<u[1], u[2]>>
  BY DEF Units
<1>2. number \in [Units(S, f) -> 1 .. n]
  BY <1>1 DEF Apart
<1>3. ASSUME NEW u \in Units(S, f), NEW v \in Units(S, f), number[u] = number[v]
      PROVE  u = v
  <2>1. u[1] = v[1]
    BY <1>1, <1>3 DEF Apart
  <2>2. u[2] \in Int /\ v[2] \in Int /\ start[u[1]] \in Int
    BY <1>1
  <2>3. start[u[1]] + u[2] = start[v[1]] + v[2]
    BY <1>3
  <2> HIDE DEF number
  <2>4. u[2] = v[2]
    BY <2>1, <2>2, <2>3
  <2>5. QED
    BY <1>1, <2>1, <2>4
<1>4. QED
  BY <1>2, <1>3 DEF Injection, IsInjective

(* Rows that lie apart and leave no number of 1 .. n out sum to n.         *)
LEMMA TotalOfTiling ==
  ASSUME NEW S, NEW f, NEW start, NEW n \in Nat,
         \A x \in S : f[x] \in Nat /\ start[x] \in Nat,
         Apart(S, f, start, n), Covered(S, f, start, n)
  PROVE  Total(S, f) = n
<1> DEFINE number == [u \in Units(S, f) |-> start[u[1]] + u[2]]
<1>1. number \in Injection(Units(S, f), 1 .. n)
  BY UnitsNumbered
<1>2. ASSUME NEW i \in 1 .. n
      PROVE  \E u \in Units(S, f) : number[u] = i
  <2>1. PICK x \in S : start[x] < i /\ i <= start[x] + f[x]
    BY DEF Covered
  <2>2. <<x, i - start[x]>> \in Units(S, f)
    BY <2>1 DEF Units
  <2>3. number[<<x, i - start[x]>>] = i
    BY <2>1, <2>2
  <2>4. QED
    BY <2>2, <2>3
<1>3. number \in Surjection(Units(S, f), 1 .. n)
  BY <1>1, <1>2 DEF Injection, Surjection
<1>4. IsFiniteSet(1 .. n) /\ Cardinality(1 .. n) = n
  BY FS_Interval
<1> HIDE DEF number
<1>5. QED
  BY <1>1, <1>3, <1>4, FS_Injection DEF Total

(* Rows that lie apart in 1 .. n and sum to n leave no number out.         *)
LEMMA TilingOfTotal ==
  ASSUME NEW S, NEW f, NEW start, NEW n \in Nat,
         \A x \in S : f[x] \in Nat /\ start[x] \in Nat,
         Apart(S, f, start, n), Total(S, f) = n
  PROVE  Covered(S, f, start, n)
<1> DEFINE number == [u \in Units(S, f) |-> start[u[1]] + u[2]]
<1>1. number \in Injection(Units(S, f), 1 .. n)
  BY UnitsNumbered
<1>2. IsFiniteSet(1 .. n) /\ Cardinality(1 .. n) = n
  BY FS_Interval
<1>3. number \in Surjection(Units(S, f), 1 .. n)
  <2> HIDE DEF number
  <2>1. QED
    BY <1>1, <1>2, FS_Injection DEF Total
<1>4. ASSUME NEW i \in 1 .. n
      PROVE  \E x \in S : start[x] < i /\ i <= start[x] + f[x]
  <2>1. PICK u \in Units(S, f) : number[u] = i
    BY <1>3 DEF Surjection
  <2>2. PICK x \in S : u \in {x} \X (1 .. f[x])
    BY DEF Units
  <2>3. i = start[x] + u[2] /\ u[2] \in 1 .. f[x]
    BY <2>1, <2>2
  <2>4. QED
    BY <2>3
<1>5. QED
  BY <1>4 DEF Covered

(* A row that is added takes the total up by its value at least.           *)
LEMMA TotalStep ==
  ASSUME NEW B, IsFiniteSet(B), NEW A \in SUBSET B, NEW j \in B \ A,
         NEW f, NEW b \in Nat, \A x \in B : f[x] \in 0 .. b
  PROVE  /\ Total(A, f) \in Nat /\ Total(B, f) \in Nat
         /\ Total(A, f) + f[j] <= Total(B, f)
<1>1. IsFiniteSet(A) /\ IsFiniteSet({j}) /\ IsFiniteSet(A \cup {j})
  BY FS_Subset, FS_Singleton, FS_AddElement
<1>2. Total(A, f) \in Nat /\ Total(B, f) \in Nat
  BY <1>1, TotalType
<1>3. Total({j}, f) = f[j]
  BY TotalSingleton
<1>4. Total(A \cup {j}, f) = Total(A, f) + Total({j}, f)
  BY <1>1, TotalDisjointUnion
<1>5. Total(A \cup {j}, f) <= Total(B, f)
  BY TotalMonotone
<1>6. QED
  BY <1>2, <1>3, <1>4, <1>5

-------------------------------------------------------------------------------

(* The spaces of the pending jobs of a pipeline follow one another.        *)
LEMMA SpacesOrdered ==
  ASSUME TypeOK, NEW p, NEW j \in PendingJobs(p)
  PROVE  /\ SpaceBefore(p, j) \in Nat /\ Space(p)[j] \in Nat
         /\ Total(PendingJobs(p), Space(p)) \in Nat
         /\ SpaceBefore(p, j) + Space(p)[j] <= Total(PendingJobs(p), Space(p))
         /\ \A i \in PendingJobs(p) :
              i < j => SpaceBefore(p, i) + Space(p)[i] <= SpaceBefore(p, j)
<1> DEFINE S == PendingJobs(p)
           before(k) == {i \in S : i < k}
           f == Space(p)
<1>1. /\ S \subseteq Nat /\ IsFiniteSet(S) /\ MaxCapacity \in Nat
      /\ \A i \in S : f[i] \in 0 .. MaxCapacity
  BY PendingFinite, SpaceType, BoundsAssumption DEF JobIds, Capacity
<1>2. \A k : IsFiniteSet(before(k)) /\ SpaceBefore(p, k) = Total(before(k), f)
  BY <1>1, FS_Subset DEF SpaceBefore
<1>3. before(j) \in SUBSET S /\ j \in S \ before(j)
  BY <1>1
<1>4. ASSUME NEW i \in S, i < j
      PROVE  /\ before(i) \in SUBSET before(j) /\ i \in before(j) \ before(i)
             /\ \A x \in before(j) : f[x] \in 0 .. MaxCapacity
  BY <1>1, <1>4
<1> HIDE DEF S, before, f
<1>5. /\ Total(before(j), f) \in Nat /\ Total(S, f) \in Nat
      /\ Total(before(j), f) + f[j] <= Total(S, f)
  BY <1>1, <1>3, TotalStep
<1>6. ASSUME NEW i \in S, i < j
      PROVE  Total(before(i), f) + f[i] <= Total(before(j), f)
  <2>1. IsFiniteSet(before(j))
    BY <1>2
  <2>2. /\ before(i) \in SUBSET before(j) /\ i \in before(j) \ before(i)
        /\ \A x \in before(j) : f[x] \in 0 .. MaxCapacity
    BY <1>4, <1>6
  <2>3. MaxCapacity \in Nat
    BY <1>1
  <2>4. QED
    BY <2>1, <2>2, <2>3, TotalStep
<1>7. QED
  BY <1>1, <1>2, <1>5, <1>6 DEF S, f

(* They leave no unit of the whole space out.                              *)
LEMMA SpacesCover ==
  ASSUME TypeOK, NEW p, NEW i \in 1 .. Total(PendingJobs(p), Space(p))
  PROVE  \E j \in PendingJobs(p) :
           SpaceBefore(p, j) < i /\ i <= SpaceBefore(p, j) + Space(p)[j]
<1> DEFINE S == PendingJobs(p)
           f == Space(p)
           start == [j \in S |-> SpaceBefore(p, j)]
           n == Total(S, f)
<1>1. S \subseteq Nat /\ n \in Nat
  BY PendingFinite, SpaceTotalType DEF JobIds
<1>2. \A j \in S : f[j] \in Nat /\ start[j] \in Nat /\ start[j] + f[j] <= n
  BY SpacesOrdered
<1>3. \A j \in S, k \in S : j < k => start[j] + f[j] <= start[k]
  BY SpacesOrdered
<1> HIDE DEF S, f, start, n
<1>4. Apart(S, f, start, n)
  <2>1. ASSUME NEW x \in S, NEW k \in 1 .. f[x]
        PROVE  start[x] + k \in 1 .. n
    BY <1>1, <1>2
  <2>2. ASSUME NEW x \in S, NEW y \in S, NEW k \in 1 .. f[x], NEW m \in 1 .. f[y],
               start[x] + k = start[y] + m
        PROVE  x = y
    <3>1. /\ start[x] \in Nat /\ start[y] \in Nat /\ f[x] \in Nat /\ f[y] \in Nat
          /\ x \in Nat /\ y \in Nat
      BY <1>1, <1>2
    <3>2. ~ x < y
      BY <1>3, <2>2, <3>1
    <3>3. ~ y < x
      BY <1>3, <2>2, <3>1
    <3>4. QED
      BY <3>1, <3>2, <3>3
  <2>3. QED
    BY <2>1, <2>2 DEF Apart
<1>5. Covered(S, f, start, n)
  BY <1>1, <1>2, <1>4, TilingOfTotal DEF n
<1>6. i \in 1 .. n
  BY DEF n, S, f
<1>7. PICK j \in S : start[j] < i /\ i <= start[j] + f[j]
  BY <1>5, <1>6 DEF Covered
<1>8. QED
  BY <1>7 DEF S, f, start

-------------------------------------------------------------------------------

(* A multiple of c below x is that of a number below the rounded-up        *)
(* quotient.                                                               *)
LEMMA BelowCeiling ==
  ASSUME NEW c \in Nat \ {0}, NEW x \in Nat, NEW m \in Nat, m * c < x
  PROVE  m < (x + c - 1) \div c
<1> DEFINE q == (x + c - 1) \div c
<1>1. q \in Nat /\ x + c - 1 < (q + 1) * c
  OBVIOUS
<1> HIDE DEF q
<1>2. SUFFICES ASSUME q <= m
               PROVE  FALSE
  BY <1>1 DEF q
<1>3. (q + 1) * c <= (m + 1) * c
  BY <1>1, <1>2
<1>4. (m + 1) * c = m * c + c
  OBVIOUS
<1>5. (q + 1) * c \in Nat /\ m * c \in Nat /\ (m + 1) * c \in Nat
  BY <1>1
<1>6. QED
  BY <1>1, <1>3, <1>4, <1>5

(* A smaller number has a smaller multiple, by c at least.                 *)
LEMMA MultiplesApart ==
  ASSUME NEW c \in Nat, NEW k \in Nat, NEW m \in Nat, k < m
  PROVE  k * c + c <= m * c /\ k * c \in Nat /\ m * c \in Nat
<1>1. (k + 1) * c <= m * c
  OBVIOUS
<1>2. (k + 1) * c = k * c + c
  OBVIOUS
<1>3. QED
  BY <1>1, <1>2

(* The quantity of each type's batches is a number.                        *)
LEMMA BatchesType ==
  ASSUME TypeOK, NEW need, IsRequest(need), NEW u \in Served(need)
  PROVE  Batches(need)[u] = BatchCount(PipelineOf(u), need[u])
         /\ Batches(need)[u] \in 0 .. MaxUnits + MaxCapacity
<1>1. Servable(u) /\ need[u] \in Quantity
  BY ServedRequest
<1>2. EffectiveCapacity(PipelineOf(u)) # NULL
  BY <1>1, ServedPipeline DEF NULL
<1>3. QED
  BY <1>1, <1>2, BatchCountType DEF Batches

(* The batches of the lines follow one another in the order of the lines.  *)
LEMMA BatchesOrdered ==
  ASSUME TypeOK, NEW need, IsRequest(need), NEW n, NEW rank \in Injection(DOMAIN need, 1 .. n),
         n \in Nat, NEW t \in Served(need)
  PROVE  /\ FirstId(need, rank, t) \in Nat \ {0} /\ LastId(need) \in Int
         /\ Batches(need)[t] \in Nat
         /\ FirstId(need, rank, t) + Batches(need)[t] - 1 <= LastId(need)
         /\ \A u \in Served(need) :
              rank[t] < rank[u] => FirstId(need, rank, t) + Batches(need)[t]
                                     <= FirstId(need, rank, u)
<1> DEFINE S == Served(need)
           f == Batches(need)
           before(k) == {u \in S : rank[u] < rank[k]}
           bound == MaxUnits + MaxCapacity
           next == NextId(DOMAIN jobs)
<1>1. /\ IsFiniteSet(S) /\ bound \in Nat
      /\ \A u \in S : f[u] \in 0 .. bound /\ rank[u] \in Int
  BY ServedRequest, BatchesType, BoundsAssumption DEF Injection, Served
<1>2. next \in Nat \ {0}
  BY NextIdFresh, BoundsAssumption DEF TypeOK, IsTable, JobIds
<1>3. /\ \A k : IsFiniteSet(before(k))
      /\ \A k : FirstId(need, rank, k) = next + Total(before(k), f)
      /\ LastId(need) = next + Total(S, f) - 1
  BY <1>1, FS_Subset DEF FirstId, LastId
<1>4. before(t) \in SUBSET S /\ t \in S \ before(t)
  BY <1>1
<1>5. ASSUME NEW u \in S, rank[t] < rank[u]
      PROVE  /\ before(t) \in SUBSET before(u) /\ t \in before(u) \ before(t)
             /\ \A x \in before(u) : f[x] \in 0 .. bound
  BY <1>1, <1>5
<1> HIDE DEF S, f, before, bound, next
<1>6. /\ Total(before(t), f) \in Nat /\ Total(S, f) \in Nat
      /\ Total(before(t), f) + f[t] <= Total(S, f)
  BY <1>1, <1>4, TotalStep
<1>7. ASSUME NEW u \in S, rank[t] < rank[u]
      PROVE  Total(before(t), f) + f[t] <= Total(before(u), f) /\ Total(before(u), f) \in Nat
  BY <1>1, <1>3, <1>5, <1>7, TotalStep
<1>8. f[t] \in Nat
  BY <1>1, <1>4
<1>9. ASSUME NEW u \in S, rank[t] < rank[u]
      PROVE  FirstId(need, rank, t) + f[t] <= FirstId(need, rank, u)
  BY <1>2, <1>3, <1>6, <1>7, <1>8, <1>9
<1>10. /\ FirstId(need, rank, t) \in Nat \ {0} /\ LastId(need) \in Int
       /\ FirstId(need, rank, t) + f[t] - 1 <= LastId(need)
  BY <1>2, <1>3, <1>6, <1>8
<1>11. QED
  BY <1>8, <1>9, <1>10 DEF S, f

-------------------------------------------------------------------------------

(* What the batches of a served line are numbered with.                    *)
LEMMA LineFacts ==
  ASSUME TypeOK, NEW need, IsRequest(need), NEW t \in Served(need)
  PROVE  /\ EffectiveCapacity(PipelineOf(t)) \in Nat \ {0}
         /\ Leftover(PipelineOf(t), need[t]) \in Nat
         /\ need[t] \in Nat \ {0}
<1>1. Servable(t) /\ need[t] \in Quantity
  BY ServedRequest
<1>2. need[t] \in Nat \ {0}
  BY <1>1, BoundsAssumption DEF Quantity
<1>3. EffectiveCapacity(PipelineOf(t)) \in 1 .. MaxCapacity
  BY <1>1, ServedPipeline
<1>4. Leftover(PipelineOf(t), need[t]) \in Nat
  BY <1>2, LeftoverType
<1>5. QED
  BY <1>2, <1>3, <1>4, BoundsAssumption

(* The m-th batch of a line, for every m full ones the leftover exceeds,   *)
(* has an id: the bound on the ids keeps no batch out.                     *)
LEMMA BatchIdsFilled ==
  ASSUME TypeOK, NEW need, IsRequest(need), NEW n \in Nat,
         NEW rank \in Injection(DOMAIN need, 1 .. n),
         LastId(need) <= MaxJobs, NEW t \in Served(need), NEW m \in Nat,
         m * EffectiveCapacity(PipelineOf(t)) < Leftover(PipelineOf(t), need[t])
  PROVE  FirstId(need, rank, t) + m \in BatchIds(need, rank, t)
<1> DEFINE p == PipelineOf(t)
           c == EffectiveCapacity(p)
           x == Leftover(p, need[t])
           first == FirstId(need, rank, t)
<1>1. c \in Nat \ {0} /\ x \in Nat
  BY LineFacts
<1>2. /\ first \in Nat \ {0} /\ LastId(need) \in Int
      /\ first + Batches(need)[t] - 1 <= LastId(need)
  BY BatchesOrdered
<1>3. Batches(need)[t] = (x + c - 1) \div c
  BY BatchesType DEF BatchCount
<1>4. m * c < x
  OBVIOUS
<1>5. BatchIds(need, rank, t) = {j \in JobIds : first <= j /\ (j - first) * c < x}
  BY DEF BatchIds
<1> HIDE DEF p, c, x, first
<1>6. m < (x + c - 1) \div c /\ (x + c - 1) \div c \in Int
  BY <1>1, <1>4, BelowCeiling
<1>7. first + m \in JobIds
  BY <1>1, <1>2, <1>3, <1>6, BoundsAssumption DEF JobIds
<1>8. (first + m) - first = m
  BY <1>2
<1>9. QED
  BY <1>2, <1>4, <1>5, <1>7, <1>8 DEF first

(* Two lines share no batch.                                               *)
LEMMA BatchIdsApart ==
  ASSUME TypeOK, NEW need, IsRequest(need), NEW n \in Nat,
         NEW rank \in Injection(DOMAIN need, 1 .. n),
         NEW t \in Served(need), NEW u \in Served(need),
         NEW j \in BatchIds(need, rank, t), j \in BatchIds(need, rank, u)
  PROVE  t = u
<1>1. ASSUME NEW v \in Served(need), j \in BatchIds(need, rank, v)
      PROVE  /\ FirstId(need, rank, v) <= j
             /\ j < FirstId(need, rank, v) + Batches(need)[v]
  <2> DEFINE p == PipelineOf(v)
             c == EffectiveCapacity(p)
             x == Leftover(p, need[v])
             first == FirstId(need, rank, v)
  <2>1. c \in Nat \ {0} /\ x \in Nat /\ first \in Nat
    BY LineFacts, BatchesOrdered
  <2>2. j \in Nat /\ first <= j /\ (j - first) * c < x
    BY <1>1 DEF BatchIds, JobIds
  <2>3. Batches(need)[v] = (x + c - 1) \div c
    BY BatchesType DEF BatchCount
  <2> HIDE DEF p, c, x, first
  <2>4. j - first \in Nat
    BY <2>1, <2>2
  <2>5. j - first < (x + c - 1) \div c /\ (x + c - 1) \div c \in Int
    BY <2>1, <2>2, <2>4, BelowCeiling
  <2>6. QED
    BY <2>1, <2>2, <2>3, <2>5 DEF first
<1>2. \A v \in Served(need), w \in Served(need) :
        rank[v] < rank[w]
          => FirstId(need, rank, v) + Batches(need)[v] <= FirstId(need, rank, w)
  BY BatchesOrdered
<1>3. \A v \in Served(need) : FirstId(need, rank, v) \in Nat /\ Batches(need)[v] \in Nat
  BY BatchesOrdered
<1>4. j \in Nat
  BY DEF BatchIds, JobIds
<1>5. ~ rank[t] < rank[u]
  BY <1>1, <1>2, <1>3, <1>4
<1>6. ~ rank[u] < rank[t]
  BY <1>1, <1>2, <1>3, <1>4
<1>7. rank[t] \in Nat /\ rank[u] \in Nat /\ (rank[t] = rank[u] => t = u)
  BY DEF Injection, IsInjective, Served
<1>8. QED
  BY <1>5, <1>6, <1>7

(* The jobs an order inserts for a line are its batches.                   *)
LEMMA NewJobsOfLine ==
  ASSUME TypeOK, NEW need, IsRequest(need), NEW n \in Nat,
         NEW rank \in Injection(DOMAIN need, 1 .. n), NEW t \in Served(need), NEW j
  PROVE  /\ j \in BatchIds(need, rank, t)
              <=> /\ j \in DOMAIN NewJobs(need, rank)
                  /\ NewJobs(need, rank)[j].productType = t
         /\ j \in BatchIds(need, rank, t)
              => NewJobs(need, rank)[j].quantity
                   = Batch(PipelineOf(t), need[t], j - FirstId(need, rank, t))
<1>1. DOMAIN NewJobs(need, rank) = UNION {BatchIds(need, rank, u) : u \in Served(need)}
  BY DEF NewJobs
<1>2. ASSUME NEW u \in Served(need), j \in BatchIds(need, rank, u)
      PROVE  /\ j \in DOMAIN NewJobs(need, rank)
             /\ NewJobs(need, rank)[j].productType = u
             /\ NewJobs(need, rank)[j].quantity
                  = Batch(PipelineOf(u), need[u], j - FirstId(need, rank, u))
  <2> DEFINE v == CHOOSE w \in Served(need) : j \in BatchIds(need, rank, w)
  <2>1. v \in Served(need) /\ j \in BatchIds(need, rank, v)
    BY <1>2
  <2>2. j \in DOMAIN NewJobs(need, rank)
    BY <1>1, <1>2
  <2>3. NewJobs(need, rank)[j] =
          [pipeline |-> PipelineOf(v), productType |-> v,
           quantity |-> Batch(PipelineOf(v), need[v], j - FirstId(need, rank, v)),
           status |-> "pending"]
    BY <2>2 DEF NewJobs
  <2> HIDE DEF v
  <2>4. v = u
    BY <1>2, <2>1, BatchIdsApart
  <2>5. QED
    BY <2>2, <2>3, <2>4
<1>3. QED
  BY <1>1, <1>2

-------------------------------------------------------------------------------

(* The number of units of the line of type t that come before its share of *)
(* job j.                                                                  *)
StartOf(need, rank, t, j) ==
  LET p == PipelineOf(t)
  IN  IF j \in PendingJobs(p)
      THEN SpaceBefore(p, j)
      ELSE Total(PendingJobs(p), Space(p))
             + (j - FirstId(need, rank, t)) * EffectiveCapacity(p)

(* A pending job gives what packIntoJob puts into it.                      *)
LEMMA PendingShare ==
  ASSUME TypeOK, NEW need, IsRequest(need), NEW rank, NEW t \in Served(need),
         NEW j \in PendingJobs(PipelineOf(t))
  PROVE  Share(need, NewJobs(need, rank), t, j) = Packed(PipelineOf(t), need[t], j)
<1>1. j \in DOMAIN jobs
  BY DEF PendingJobs, JobsUsing
<1>2. j \notin DOMAIN NewJobs(need, rank)
  BY <1>1, NewJobsType
<1>3. QED
  BY <1>2 DEF Share

(* The units of a share: in the space of a pending job, or in a batch      *)
(* beyond the space of all pending jobs.                                   *)
LEMMA ShareUnits ==
  ASSUME TypeOK, NEW need, IsRequest(need), NEW n \in Nat,
         NEW rank \in Injection(DOMAIN need, 1 .. n), NEW t \in Served(need), NEW j,
         Share(need, NewJobs(need, rank), t, j) > 0
  PROVE  LET p     == PipelineOf(t)
             share == Share(need, NewJobs(need, rank), t, j)
             start == StartOf(need, rank, t, j)
         IN  /\ share \in Nat /\ start \in Nat /\ start + share <= need[t]
             /\ \/ /\ j \in PendingJobs(p) /\ start = SpaceBefore(p, j)
                   /\ share <= Space(p)[j]
                \/ /\ j \in BatchIds(need, rank, t) /\ j \notin PendingJobs(p)
                   /\ start = Total(PendingJobs(p), Space(p))
                                + (j - FirstId(need, rank, t)) * EffectiveCapacity(p)
                   /\ share <= EffectiveCapacity(p)
<1> DEFINE p     == PipelineOf(t)
           share == Share(need, NewJobs(need, rank), t, j)
           start == StartOf(need, rank, t, j)
           c     == EffectiveCapacity(p)
           x     == Leftover(p, need[t])
           first == FirstId(need, rank, t)
           space == Total(PendingJobs(p), Space(p))
<1>1. c \in Nat \ {0} /\ x \in Nat /\ need[t] \in Nat /\ first \in Nat
  BY LineFacts, BatchesOrdered
<1>2. space \in Nat /\ x = Positive(need[t] - space)
  BY SpaceTotalType DEF Leftover
<1>3. CASE j \in PendingJobs(p)
  <2>1. start = SpaceBefore(p, j) /\ start \in Nat /\ Space(p)[j] \in Nat
    BY <1>3, SpacesOrdered DEF StartOf
  <2>2. share = Packed(p, need[t], j) /\ share > 0
    BY <1>3, PendingShare
  <2>3. share = Lesser(Space(p)[j], Positive(need[t] - start))
    BY <2>1, <2>2 DEF Packed
  <2> HIDE DEF p, share, start
  <2>4. share \in Nat /\ share <= Space(p)[j] /\ start + share <= need[t]
    BY <1>1, <2>1, <2>2, <2>3 DEF Lesser, Positive
  <2>5. QED
    BY <1>3, <2>1, <2>4 DEF p, share, start
<1>4. CASE j \notin PendingJobs(p)
  <2>1. /\ j \in DOMAIN NewJobs(need, rank)
        /\ NewJobs(need, rank)[j].productType = t
        /\ share = NewJobs(need, rank)[j].quantity
    BY <1>4, ShareFromJob
  <2>2. j \in BatchIds(need, rank, t) /\ share = Batch(p, need[t], j - first)
    BY <2>1, NewJobsOfLine
  <2>3. start = space + (j - first) * c
    BY <1>4 DEF StartOf
  <2>4. j \in Nat /\ first <= j /\ (j - first) * c < x
    BY <2>2 DEF BatchIds, JobIds
  <2>5. share = Lesser(c, x - (j - first) * c) /\ share > 0
    BY <2>2 DEF Batch
  <2> HIDE DEF p, share, start, c, x, first, space
  <2>6. j - first \in Nat
    BY <1>1, <2>4
  <2>7. (j - first) * c \in Nat
    BY <1>1, <2>6
  <2>8. share \in Nat /\ share <= c /\ start \in Nat /\ start + share <= need[t]
    BY <1>1, <1>2, <2>3, <2>4, <2>5, <2>7 DEF Lesser, Positive
  <2>9. QED
    BY <1>4, <2>2, <2>3, <2>8 DEF p, share, start, c, first, space
<1>5. QED
  BY <1>3, <1>4

(* No unit of the line is in two shares.                                   *)
LEMMA SharesApart ==
  ASSUME TypeOK, NEW need, IsRequest(need), NEW n \in Nat,
         NEW rank \in Injection(DOMAIN need, 1 .. n), NEW t \in Served(need),
         NEW i, Share(need, NewJobs(need, rank), t, i) > 0,
         NEW k \in 1 .. Share(need, NewJobs(need, rank), t, i),
         NEW j, Share(need, NewJobs(need, rank), t, j) > 0,
         NEW m \in 1 .. Share(need, NewJobs(need, rank), t, j),
         StartOf(need, rank, t, i) + k = StartOf(need, rank, t, j) + m
  PROVE  i = j
<1> DEFINE p        == PipelineOf(t)
           share(a) == Share(need, NewJobs(need, rank), t, a)
           start(a) == StartOf(need, rank, t, a)
           c        == EffectiveCapacity(p)
           first    == FirstId(need, rank, t)
           space    == Total(PendingJobs(p), Space(p))
           pend     == PendingJobs(p)
           batches  == BatchIds(need, rank, t)
<1>1. ASSUME NEW a, share(a) > 0
      PROVE  /\ share(a) \in Nat /\ start(a) \in Nat
             /\ \/ a \in pend /\ start(a) = SpaceBefore(p, a) /\ share(a) <= Space(p)[a]
                \/ /\ a \in batches /\ start(a) = space + (a - first) * c
                   /\ share(a) <= c
  BY <1>1, ShareUnits
<1>2. \A a \in pend :
        /\ a \in Nat /\ SpaceBefore(p, a) \in Nat /\ Space(p)[a] \in Nat
        /\ SpaceBefore(p, a) + Space(p)[a] <= space
        /\ \A b \in pend : b < a => SpaceBefore(p, b) + Space(p)[b] <= SpaceBefore(p, a)
  BY SpacesOrdered, PendingFinite DEF JobIds
<1>3. c \in Nat /\ first \in Nat /\ space \in Nat
  BY LineFacts, BatchesOrdered, SpaceTotalType
<1>4. \A a \in batches : a \in Nat /\ a - first \in Nat
  BY <1>3 DEF BatchIds, JobIds
<1>5. share(i) > 0 /\ share(j) > 0 /\ start(i) + k = start(j) + m
      /\ k \in 1 .. share(i) /\ m \in 1 .. share(j)
  OBVIOUS
<1> HIDE DEF p, share, start, c, first, space, pend, batches
<1>6. ASSUME NEW a \in batches, NEW b \in batches, a < b
      PROVE  space + (a - first) * c + c <= space + (b - first) * c
             /\ (a - first) * c \in Nat /\ (b - first) * c \in Nat
  <2>1. a - first \in Nat /\ b - first \in Nat /\ a - first < b - first
    BY <1>3, <1>4, <1>6
  <2>2. (a - first) * c + c <= (b - first) * c /\ (a - first) * c \in Nat
        /\ (b - first) * c \in Nat
    BY <1>3, <2>1, MultiplesApart
  <2>3. QED
    BY <1>3, <2>2
<1>7. \A a \in batches : (a - first) * c \in Nat
  BY <1>3, <1>4
<1>8. CASE i \in pend /\ j \in pend /\ start(i) = SpaceBefore(p, i) /\ share(i) <= Space(p)[i]
           /\ start(j) = SpaceBefore(p, j) /\ share(j) <= Space(p)[j]
  <2>1. ~ i < j
    BY <1>1, <1>2, <1>5, <1>8
  <2>2. ~ j < i
    BY <1>1, <1>2, <1>5, <1>8
  <2>3. QED
    BY <1>2, <1>8, <2>1, <2>2
<1>9. ASSUME NEW a \in pend, start(a) = SpaceBefore(p, a), share(a) <= Space(p)[a],
             NEW b \in batches, start(b) = space + (b - first) * c, share(a) \in Nat,
             NEW u \in 1 .. share(a), NEW v \in Nat \ {0}
      PROVE  start(a) + u # start(b) + v
  BY <1>2, <1>3, <1>7, <1>9
<1>10. CASE i \in batches /\ j \in batches
            /\ start(i) = space + (i - first) * c /\ share(i) <= c
            /\ start(j) = space + (j - first) * c /\ share(j) <= c
  <2>1. ~ i < j
    BY <1>1, <1>3, <1>5, <1>6, <1>10
  <2>2. ~ j < i
    BY <1>1, <1>3, <1>5, <1>6, <1>10
  <2>3. QED
    BY <1>4, <1>10, <2>1, <2>2
<1>11. k \in Nat \ {0} /\ m \in Nat \ {0} /\ share(i) \in Nat /\ share(j) \in Nat
  BY <1>1, <1>5
<1>12. QED
  BY <1>1, <1>5, <1>8, <1>9, <1>10, <1>11

(* Every unit of the line is in some share.                                *)
LEMMA SharesCover ==
  ASSUME TypeOK, NEW need, IsRequest(need), NEW n \in Nat,
         NEW rank \in Injection(DOMAIN need, 1 .. n), NEW t \in Served(need),
         LastId(need) <= MaxJobs, NEW i \in 1 .. need[t]
  PROVE  \E j \in JobIds :
           /\ Share(need, NewJobs(need, rank), t, j) > 0
           /\ StartOf(need, rank, t, j) < i
           /\ i <= StartOf(need, rank, t, j) + Share(need, NewJobs(need, rank), t, j)
<1> DEFINE p        == PipelineOf(t)
           c        == EffectiveCapacity(p)
           x        == Leftover(p, need[t])
           first    == FirstId(need, rank, t)
           space    == Total(PendingJobs(p), Space(p))
           new      == NewJobs(need, rank)
<1>1. c \in Nat \ {0} /\ x \in Nat /\ need[t] \in Nat \ {0} /\ first \in Nat \ {0}
  BY LineFacts, BatchesOrdered
<1>2. space \in Nat /\ x = Positive(need[t] - space)
  BY SpaceTotalType DEF Leftover
<1>3. CASE i <= space
  <2>1. i \in 1 .. space
    BY <1>2, <1>3
  <2>2. PICK j \in PendingJobs(p) :
          SpaceBefore(p, j) < i /\ i <= SpaceBefore(p, j) + Space(p)[j]
    BY <2>1, SpacesCover
  <2>3. SpaceBefore(p, j) \in Nat /\ Space(p)[j] \in Nat
    BY SpacesOrdered
  <2>4. Share(need, new, t, j) = Lesser(Space(p)[j], Positive(need[t] - SpaceBefore(p, j)))
    BY PendingShare DEF Packed
  <2>5. StartOf(need, rank, t, j) = SpaceBefore(p, j)
    BY DEF StartOf
  <2>6. j \in JobIds
    BY PendingFinite
  <2> HIDE DEF p, new
  <2>7. /\ Share(need, new, t, j) > 0
        /\ i <= SpaceBefore(p, j) + Share(need, new, t, j)
    BY <1>1, <2>2, <2>3, <2>4 DEF Lesser, Positive
  <2>8. QED
    BY <2>2, <2>5, <2>6, <2>7 DEF new
<1>4. CASE i > space
  <2> DEFINE y == i - space - 1
             m == y \div c
             j == first + m
  <2>1. y \in Nat /\ y < x /\ x = need[t] - space
    BY <1>1, <1>2, <1>4 DEF Positive
  <2>2. m \in Nat /\ m * c <= y /\ y < m * c + c
    <3> HIDE DEF y, c
    <3>1. QED
      BY <1>1, <2>1
  <2>3. m * c < x /\ m * c \in Nat
    <3> HIDE DEF y, c, m, x
    <3>1. m * c \in Nat
      BY <1>1, <2>2
    <3>2. QED
      BY <1>1, <2>1, <2>2, <3>1
  <2> HIDE DEF m
  <2>4. j \in BatchIds(need, rank, t)
    BY <2>2, <2>3, BatchIdsFilled
  <2>5. /\ j \in DOMAIN new /\ new[j].productType = t
        /\ new[j].quantity = Batch(p, need[t], j - first)
    BY <2>4, NewJobsOfLine
  <2>6. j \notin PendingJobs(p)
    BY <2>5, NewJobsType DEF PendingJobs, JobsUsing
  <2>7. Share(need, new, t, j) = Batch(p, need[t], j - first)
    BY <2>5, <2>6 DEF Share
  <2>8. j - first = m
    BY <1>1, <2>2
  <2>9. StartOf(need, rank, t, j) = space + m * c
    BY <2>6, <2>8 DEF StartOf
  <2>10. Share(need, new, t, j) = Lesser(c, x - m * c)
    BY <2>7, <2>8 DEF Batch
  <2>11. j \in JobIds
    BY <2>4 DEF BatchIds
  <2> HIDE DEF p, c, x, first, space, new, j
  <2>12. /\ Share(need, new, t, j) > 0
         /\ space + m * c < i /\ i <= space + m * c + Share(need, new, t, j)
    BY <1>1, <1>2, <2>1, <2>2, <2>3, <2>10 DEF Lesser
  <2>13. QED
    BY <2>9, <2>11, <2>12 DEF new
<1>5. QED
  BY <1>2, <1>3, <1>4

-------------------------------------------------------------------------------

(* The id of a new order is not in use.                                    *)
LEMMA NewOrderFresh ==
  ASSUME TypeOK
  PROVE  NextId(customerOrders) \notin customerOrders
<1>1. /\ NextId(customerOrders) \in Nat
      /\ \A i \in customerOrders : i < NextId(customerOrders) /\ i \in Nat
  BY NextIdFresh, BoundsAssumption DEF TypeOK, OrderIds
<1>2. QED
  BY <1>1

(* The allocations of a line of the new order sum to what it asks for.     *)
LEMMA NewLineServed ==
  ASSUME TypeOK, TypeOK', ReferencesExist, NEW need, IsRequest(need), NEW n \in Nat,
         NEW rank \in Injection(DOMAIN need, 1 .. n), CreateOrder(need, rank),
         NEW t \in DOMAIN need, NEW o, o = NextId(customerOrders)
  PROVE  LineAllocated(<<o, t>>)' = IF Servable(t) THEN need[t] ELSE 0
<1> DEFINE l == <<o, t>>
           S == {r \in AddedBy(need, rank) : r[1] = l}
           f == allocations'
           start == [r \in S |-> StartOf(need, rank, t, r[2])]
<1>1. LineAllocated(l)' = Total(S, f)
  <2>1. \A r \in DOMAIN allocations : r[1] # l
    BY NewOrderFresh DEF ReferencesExist
  <2>2. {r \in DOMAIN allocations' : r[1] = l} = S
    BY <2>1, OrderAddsRows
  <2>3. LineAllocated(l)' = Total({r \in DOMAIN allocations' : r[1] = l}, allocations')
    BY DEF LineAllocated
  <2>4. QED
    BY <2>2, <2>3
<1>2. CASE ~ Servable(t)
  <2>1. S = {}
    BY <1>2 DEF AddedBy, Served
  <2>2. QED
    BY <1>1, <1>2, <2>1, TotalEmpty
<1>3. CASE Servable(t)
  <2>1. t \in Served(need)
    BY <1>3 DEF Served
  <2>2. need[t] \in Nat
    BY <2>1, LineFacts
  <2>3. ASSUME NEW r \in S
        PROVE  /\ r = <<l, r[2]>> /\ r[2] \in JobIds
               /\ Share(need, NewJobs(need, rank), t, r[2]) > 0
               /\ f[r] = Share(need, NewJobs(need, rank), t, r[2])
               /\ start[r] = StartOf(need, rank, t, r[2])
    <3>1. r \in AddedBy(need, rank) /\ r[1] = l
      OBVIOUS
    <3>2. f[r] = Share(need, NewJobs(need, rank), r[1][2], r[2])
      BY <3>1, OrderAddsRow
    <3>3. QED
      BY <3>1, <3>2 DEF AddedBy
  <2>4. ASSUME NEW j \in JobIds, Share(need, NewJobs(need, rank), t, j) > 0
        PROVE  <<l, j>> \in S
    BY <2>1, <2>4 DEF AddedBy
  <2> HIDE DEF S, f, start, l
  <2>5. ASSUME NEW r \in S
        PROVE  f[r] \in Nat /\ start[r] \in Nat /\ start[r] + f[r] <= need[t]
    BY <2>1, <2>3, ShareUnits
  <2>6. Apart(S, f, start, need[t])
    <3>1. ASSUME NEW x \in S, NEW k \in 1 .. f[x]
          PROVE  start[x] + k \in 1 .. need[t]
      BY <2>2, <2>5
    <3>2. ASSUME NEW x \in S, NEW y \in S, NEW k \in 1 .. f[x], NEW m \in 1 .. f[y],
                 start[x] + k = start[y] + m
          PROVE  x = y
      <4>1. x[2] = y[2]
        BY <2>1, <2>3, <3>2, SharesApart
      <4>2. QED
        BY <2>3, <4>1
    <3>3. QED
      BY <3>1, <3>2 DEF Apart
  <2>7. Covered(S, f, start, need[t])
    <3>1. LastId(need) <= MaxJobs
      BY DEF CreateOrder
    <3>2. ASSUME NEW i \in 1 .. need[t]
          PROVE  \E x \in S : start[x] < i /\ i <= start[x] + f[x]
      <4>1. PICK j \in JobIds :
              /\ Share(need, NewJobs(need, rank), t, j) > 0
              /\ StartOf(need, rank, t, j) < i
              /\ i <= StartOf(need, rank, t, j) + Share(need, NewJobs(need, rank), t, j)
        BY <2>1, <3>1, SharesCover
      <4>2. <<l, j>> \in S /\ <<l, j>>[2] = j
        BY <2>4, <4>1
      <4>3. /\ f[<<l, j>>] = Share(need, NewJobs(need, rank), t, j)
            /\ start[<<l, j>>] = StartOf(need, rank, t, j)
        BY <2>3, <4>2
      <4>4. QED
        BY <4>1, <4>2, <4>3
    <3>3. QED
      BY <3>2 DEF Covered
  <2>8. Total(S, f) = need[t]
    BY <2>2, <2>5, <2>6, <2>7, TotalOfTiling
  <2>9. QED
    BY <1>1, <1>3, <2>8 DEF l
<1>4. QED
  BY <1>2, <1>3

(* The lines of the other orders keep what they have.                      *)
LEMMA OldLinesKept ==
  ASSUME TypeOK, ReferencesExist, NEW need, NEW rank, CreateOrder(need, rank),
         NEW l, l[1] # NextId(customerOrders)
  PROVE  /\ {r \in DOMAIN allocations' : r[1] = l} = {r \in DOMAIN allocations : r[1] = l}
         /\ \A r \in DOMAIN allocations : r[1] = l => allocations'[r] = allocations[r]
         /\ LineAllocated(l)' = LineAllocated(l)
<1> DEFINE S == {r \in DOMAIN allocations : r[1] = l}
<1>1. \A r \in AddedBy(need, rank) : r[1] # l
  BY DEF AddedBy
<1>2. {r \in DOMAIN allocations' : r[1] = l} = S
  BY <1>1, OrderAddsRows
<1>3. \A r \in S : allocations'[r] = allocations[r]
  BY <1>1, OrderAddsRows
<1> HIDE DEF S
<1>4. Total(S, allocations') = Total(S, allocations)
  BY <1>3, TotalCongruence
<1>5. LineAllocated(l) = Total(S, allocations)
  BY DEF LineAllocated, S
<1>6. LineAllocated(l)' = Total({r \in DOMAIN allocations' : r[1] = l}, allocations')
  BY DEF LineAllocated
<1>7. QED
  BY <1>2, <1>3, <1>4, <1>5, <1>6 DEF S

(* Only an order request makes an order appear.                            *)
LEMMA OnlyCreateOrderAddsOrders ==
  ASSUME [Next]_vars, NEW o \in customerOrders' \ customerOrders
  PROVE  \E T \in SUBSET ProductTypes :
           \E need \in [T -> Quantity], rank \in Bijection(T, 1 .. Cardinality(T)) :
             CreateOrder(need, rank)
<1>1. ~ CatalogNext
  BY CatalogFrame DEF orderVars
<1>2. ~ JobsNext
  BY DEF JobsNext, CreateJob, DeleteJob, AddAllocation, RemoveAllocation, orderVars
<1>3. ~ EventsNext
  BY DEF EventsNext, CreateEvent, CrashInCreateEvent, orderVars
<1>4. OrdersNext
  BY <1>1, <1>2, <1>3 DEF Next, vars
<1>5. ASSUME NEW i, DeleteOrder(i)
      PROVE  FALSE
  BY <1>5 DEF DeleteOrder
<1>6. QED
  BY <1>4, <1>5 DEF OrdersNext

(* A new order is served at once and exactly, whatever pending jobs there  *)
(* are and however its lines are ordered; no line of another order is      *)
(* touched (autoCreateAndAllocate).                                        *)
THEOREM OrdersServedExactly == Spec => OrderServedExactly
<1>1. ASSUME Consistent, TypeOK', [Next]_vars, NEW o \in customerOrders' \ customerOrders
      PROVE  /\ \A l \in DOMAIN orderLines' :
                  l[1] = o => LineAllocated(l)' = IF Servable(l[2]) THEN orderLines'[l] ELSE 0
             /\ \A l \in DOMAIN orderLines : LineAllocated(l)' = LineAllocated(l)
  <2> USE <1>1 DEF Consistent
  <2>1. PICK T \in SUBSET ProductTypes :
          \E need \in [T -> Quantity], rank \in Bijection(T, 1 .. Cardinality(T)) :
            CreateOrder(need, rank)
    BY OnlyCreateOrderAddsOrders
  <2>2. PICK need \in [T -> Quantity], rank \in Bijection(T, 1 .. Cardinality(T)) :
          CreateOrder(need, rank)
    BY <2>1
  <2>3. IsRequest(need) /\ DOMAIN need = T
    BY DEF IsRequest
  <2>4. Cardinality(T) \in Nat
    <3>1. IsFiniteSet(T)
      BY FS_Subset, FiniteAssumption
    <3>2. QED
      BY <3>1, FS_CardinalityType
  <2>5. rank \in Injection(DOMAIN need, 1 .. Cardinality(T))
    BY <2>3 DEF Bijection
  <2>6. o = NextId(customerOrders)
    BY <2>2 DEF CreateOrder
  <2>7. ASSUME NEW l \in DOMAIN orderLines', l[1] = o
        PROVE  LineAllocated(l)' = IF Servable(l[2]) THEN orderLines'[l] ELSE 0
    <3>1. l \in {o} \X DOMAIN need /\ orderLines'[l] = need[l[2]]
      BY <2>2, <2>6, <2>7, NewOrderFresh DEF CreateOrder, ReferencesExist
    <3>2. l = <<o, l[2]>> /\ l[2] \in DOMAIN need
      BY <3>1
    <3>3. LineAllocated(<<o, l[2]>>)'
            = IF Servable(l[2]) THEN need[l[2]] ELSE 0
      BY <2>2, <2>3, <2>4, <2>5, <2>6, <3>2, NewLineServed
    <3>4. QED
      BY <2>6, <3>1, <3>2, <3>3
  <2>8. ASSUME NEW l \in DOMAIN orderLines
        PROVE  LineAllocated(l)' = LineAllocated(l)
    <3>1. l[1] # NextId(customerOrders)
      BY NewOrderFresh DEF ReferencesExist
    <3>2. QED
      BY <2>2, <3>1, OldLinesKept
  <2>9. QED
    BY <2>7, <2>8
<1>2. Consistent /\ TypeOK' /\ [Next]_vars
        => [\A o \in customerOrders' \ customerOrders :
              /\ \A l \in DOMAIN orderLines' :
                   l[1] = o => LineAllocated(l)' = IF Servable(l[2]) THEN orderLines'[l] ELSE 0
              /\ \A l \in DOMAIN orderLines : LineAllocated(l)' = LineAllocated(l)]_vars
  BY <1>1
<1>3. QED
  BY <1>2, TypeCorrect, ConsistentHolds, PTL DEF Spec, OrderServedExactly

-------------------------------------------------------------------------------

(* A larger row makes no smaller total, and totals are equal only when all *)
(* rows are.                                                               *)
LEMMA TotalPointwise ==
  ASSUME NEW S, IsFiniteSet(S), NEW f, NEW g,
         \A x \in S : f[x] \in Nat /\ g[x] \in Nat /\ f[x] <= g[x]
  PROVE  /\ Total(S, f) \in Nat /\ Total(S, g) \in Nat
         /\ Total(S, f) <= Total(S, g)
         /\ Total(S, f) = Total(S, g) <=> \A x \in S : f[x] = g[x]
<1>1. /\ IsFiniteSet(Units(S, f)) /\ Total(S, f) \in Nat
      /\ IsFiniteSet(Units(S, g)) /\ Total(S, g) \in Nat
  BY TotalNat
<1>2. Units(S, f) \in SUBSET Units(S, g)
  BY DEF Units
<1>3. /\ Cardinality(Units(S, f)) <= Cardinality(Units(S, g))
      /\ Cardinality(Units(S, g)) = Cardinality(Units(S, f)) => Units(S, g) = Units(S, f)
  BY <1>1, <1>2, FS_Subset
<1>4. ASSUME Units(S, g) = Units(S, f), NEW x \in S
      PROVE  f[x] = g[x]
  <2>1. CASE g[x] = 0
    BY <2>1
  <2>2. CASE g[x] # 0
    <3>1. <<x, g[x]>> \in Units(S, g)
      BY <2>2 DEF Units
    <3>2. g[x] \in 1 .. f[x]
      BY <1>4, <3>1 DEF Units
    <3>3. QED
      BY <3>2
  <2>3. QED
    BY <2>1, <2>2
<1>5. (\A x \in S : f[x] = g[x]) => Total(S, f) = Total(S, g)
  BY TotalCongruence
<1>6. QED
  BY <1>1, <1>3, <1>4, <1>5 DEF Total

(* Rows of b at most, or at least, make a total of b times their number at *)
(* most, or at least.                                                      *)
LEMMA TotalBounds ==
  ASSUME NEW S, IsFiniteSet(S), NEW f, \A x \in S : f[x] \in Nat, NEW b \in Nat
  PROVE  /\ (\A x \in S : f[x] <= b) => Total(S, f) <= Cardinality(S) * b
         /\ (\A x \in S : f[x] >= b) => Total(S, f) >= Cardinality(S) * b
<1> DEFINE P == S \X (1 .. b)
<1>1. IsFiniteSet(1 .. b) /\ Cardinality(1 .. b) = b
  BY FS_Interval
<1>2. IsFiniteSet(P) /\ Cardinality(P) = Cardinality(S) * b
  BY <1>1, FS_Product
<1>3. IsFiniteSet(Units(S, f))
  BY TotalNat
<1>4. ASSUME \A x \in S : f[x] <= b
      PROVE  Units(S, f) \in SUBSET P
  BY <1>4 DEF Units
<1>5. ASSUME \A x \in S : f[x] >= b
      PROVE  P \in SUBSET Units(S, f)
  BY <1>5 DEF Units
<1> HIDE DEF P
<1>6. QED
  BY <1>2, <1>3, <1>4, <1>5, FS_Subset DEF Total

(* What integer division by a positive number guarantees.                  *)
LEMMA DivFacts ==
  ASSUME NEW x \in Nat, NEW c \in Nat \ {0}
  PROVE  /\ x \div c \in Nat
         /\ (x \div c) * c \in Nat
         /\ (x \div c) * c <= x
         /\ x < (x \div c) * c + c
OBVIOUS

(* A quotient is the q whose multiple the dividend has reached.            *)
LEMMA DivValue ==
  ASSUME NEW x \in Nat, NEW c \in Nat \ {0}, NEW q \in Nat,
         q * c <= x, x < q * c + c
  PROVE  x \div c = q
<1> DEFINE a == x \div c
<1>1. a \in Nat /\ a * c <= x /\ x < a * c + c /\ a * c \in Nat
  BY DivFacts
<1>2. q * c \in Nat
  OBVIOUS
<1> HIDE DEF a
<1>3. ~ a < q
  <2>1. SUFFICES ASSUME a < q PROVE FALSE
    OBVIOUS
  <2>2. a * c + c <= q * c
    BY <1>1, <2>1, MultiplesApart
  <2>3. QED
    BY <1>1, <1>2, <2>2
<1>4. ~ q < a
  <2>1. SUFFICES ASSUME q < a PROVE FALSE
    OBVIOUS
  <2>2. q * c + c <= a * c
    BY <1>1, <2>1, MultiplesApart
  <2>3. QED
    BY <1>1, <1>2, <2>2
<1>5. QED
  BY <1>1, <1>3, <1>4 DEF a

(* A percentage grows with its part, is 100 for the whole, and below 200   *)
(* units for nothing less.                                                 *)
LEMMA PercentFacts ==
  ASSUME NEW whole \in Nat \ {0}, NEW part \in Nat
  PROVE  /\ Percent(part, whole) \in Nat
         /\ part <= whole => Percent(part, whole) <= 100
         /\ part = whole => Percent(part, whole) = 100
         /\ part <= whole /\ whole < 200 /\ Percent(part, whole) = 100 => part = whole
         /\ \A more \in Nat : part <= more => Percent(part, whole) <= Percent(more, whole)
<1> DEFINE c == 2 * whole
           x(n) == 2 * (100 * n) + whole
<1>1. c \in Nat \ {0} /\ \A n \in Nat : x(n) \in Nat /\ Percent(n, whole) = x(n) \div c
  BY DEF Percent, Rounded
<1>2. \A n \in Nat : part <= n => x(part) <= x(n)
  OBVIOUS
<1>3. 100 * c <= x(whole) /\ x(whole) < 100 * c + c
  OBVIOUS
<1>4. 100 * c <= x(part) /\ whole < 200 => whole <= part
  OBVIOUS
<1> HIDE DEF c, x
<1>5. Percent(whole, whole) = 100
  BY <1>1, <1>3, DivValue
<1>6. \A n \in Nat : part <= n => Percent(part, whole) <= Percent(n, whole)
  <2> SUFFICES ASSUME NEW n \in Nat, part <= n
               PROVE  Percent(part, whole) <= Percent(n, whole)
    OBVIOUS
  <2>1. x(part) \in Int /\ x(n) \in Int /\ x(part) <= x(n)
    BY <1>1, <1>2
  <2>2. x(part) \div c <= x(n) \div c
    BY <1>1, <2>1, DivMonotone
  <2>3. QED
    BY <1>1, <2>2
<1>7. Percent(part, whole) \in Nat /\ Percent(part, whole) * c <= x(part)
  BY <1>1, DivFacts
<1>8. QED
  BY <1>4, <1>5, <1>6, <1>7

-------------------------------------------------------------------------------

(* The share of q that u covers, of the rows L together.                   *)
Covering(L, q, u) ==
  IF L = {} THEN 0
  ELSE Percent(Total(L, [l \in L |-> Lesser(u[l], q[l])]), Total(L, q))

(* The parts of a percentage over several rows: every row counts for what  *)
(* it asks at most.                                                        *)
LEMMA CoveringParts ==
  ASSUME NEW L, IsFiniteSet(L), L # {}, NEW q, NEW u,
         \A l \in L : q[l] \in Nat \ {0} /\ u[l] \in Nat
  PROVE  LET part  == Total(L, [l \in L |-> Lesser(u[l], q[l])])
             whole == Total(L, q)
         IN  /\ part \in Nat /\ whole \in Nat \ {0} /\ part <= whole
             /\ part = whole <=> \A l \in L : u[l] >= q[l]
             /\ \A l \in L : q[l] <= whole
<1> DEFINE f == [l \in L |-> Lesser(u[l], q[l])]
<1>1. \A l \in L : /\ f[l] \in Nat /\ q[l] \in Nat /\ f[l] <= q[l]
                   /\ f[l] = q[l] <=> u[l] >= q[l]
  BY DEF Lesser
<1> HIDE DEF f
<1>2. /\ Total(L, f) \in Nat /\ Total(L, q) \in Nat /\ Total(L, f) <= Total(L, q)
      /\ Total(L, f) = Total(L, q) <=> \A l \in L : f[l] = q[l]
  BY <1>1, TotalPointwise
<1>3. ASSUME NEW l \in L
      PROVE  q[l] <= Total(L, q)
  <2>1. Units({l}, q) \in SUBSET Units(L, q)
    BY DEF Units
  <2>2. IsFiniteSet(Units(L, q))
    BY TotalNat
  <2>3. Total({l}, q) <= Total(L, q)
    BY <2>1, <2>2, FS_Subset DEF Total
  <2>4. QED
    BY <2>3, TotalSingleton
<1>4. Total(L, q) # 0
  BY <1>2, <1>3
<1>5. QED
  BY <1>1, <1>2, <1>3, <1>4 DEF f

(* What the percentage of an order tells.                                  *)
LEMMA CoveringFacts ==
  ASSUME NEW L, IsFiniteSet(L), NEW q, NEW u,
         \A l \in L : q[l] \in Nat \ {0} /\ u[l] \in Nat
  PROVE  /\ Covering(L, q, u) \in Nat /\ Covering(L, q, u) <= 100
         /\ (L # {} /\ \A l \in L : u[l] >= q[l]) => Covering(L, q, u) = 100
         /\ Total(L, q) < 200 /\ Covering(L, q, u) = 100
              => L # {} /\ \A l \in L : u[l] >= q[l]
<1>1. CASE L = {}
  BY <1>1 DEF Covering
<1>2. CASE L # {}
  <2> DEFINE part  == Total(L, [l \in L |-> Lesser(u[l], q[l])])
             whole == Total(L, q)
  <2>1. /\ part \in Nat /\ whole \in Nat \ {0} /\ part <= whole
        /\ part = whole <=> \A l \in L : u[l] >= q[l]
    BY <1>2, CoveringParts
  <2>2. Covering(L, q, u) = Percent(part, whole)
    BY <1>2 DEF Covering
  <2>3. whole = Total(L, q)
    OBVIOUS
  <2> HIDE DEF part, whole
  <2>4. /\ Percent(part, whole) \in Nat /\ Percent(part, whole) <= 100
        /\ part = whole => Percent(part, whole) = 100
        /\ whole < 200 /\ Percent(part, whole) = 100 => part = whole
    BY <2>1, PercentFacts
  <2>5. QED
    BY <1>2, <2>1, <2>2, <2>3, <2>4
<1>3. QED
  BY <1>1, <1>2

(* It grows with the units of the rows.                                    *)
LEMMA CoveringMonotone ==
  ASSUME NEW L, IsFiniteSet(L), NEW q, NEW u, NEW v,
         \A l \in L : q[l] \in Nat \ {0} /\ u[l] \in Nat /\ v[l] \in Nat /\ u[l] <= v[l]
  PROVE  Covering(L, q, u) <= Covering(L, q, v)
<1>1. CASE L = {}
  BY <1>1 DEF Covering
<1>2. CASE L # {}
  <2> DEFINE f == [l \in L |-> Lesser(u[l], q[l])]
             g == [l \in L |-> Lesser(v[l], q[l])]
             whole == Total(L, q)
  <2>1. whole \in Nat \ {0}
    BY <1>2, CoveringParts
  <2>2. \A l \in L : f[l] \in Nat /\ g[l] \in Nat /\ f[l] <= g[l]
    BY DEF Lesser
  <2>3. Covering(L, q, u) = Percent(Total(L, f), whole)
        /\ Covering(L, q, v) = Percent(Total(L, g), whole)
    BY <1>2 DEF Covering
  <2> HIDE DEF f, g, whole
  <2>4. Total(L, f) \in Nat /\ Total(L, g) \in Nat /\ Total(L, f) <= Total(L, g)
    BY <2>2, TotalPointwise
  <2>5. QED
    BY <2>1, <2>3, <2>4, PercentFacts
<1>3. QED
  BY <1>1, <1>2

-------------------------------------------------------------------------------

(* The lines of an order are finitely many and ask for something.          *)
LEMMA LinesType ==
  ASSUME TypeOK
  PROVE  /\ IsFiniteSet(DOMAIN orderLines)
         /\ \A l \in DOMAIN orderLines : orderLines[l] \in Nat \ {0}
         /\ \A o : IsFiniteSet(LinesOf(o)) /\ LinesOf(o) \subseteq DOMAIN orderLines
<1>1. IsFiniteSet(OrderIds)
  BY FS_Interval, BoundsAssumption DEF OrderIds
<1>2. IsFiniteSet(Lines)
  BY <1>1, FS_Product, FiniteAssumption DEF Lines
<1>3. DOMAIN orderLines \in SUBSET Lines
  BY DEF TypeOK, IsTable
<1>4. IsFiniteSet(DOMAIN orderLines)
  BY <1>2, <1>3, FS_Subset
<1>5. \A o : LinesOf(o) \in SUBSET DOMAIN orderLines
  BY DEF LinesOf
<1>6. \A o : IsFiniteSet(LinesOf(o))
  BY <1>4, <1>5, FS_Subset
<1>7. \A l \in DOMAIN orderLines : orderLines[l] \in Nat \ {0}
  BY BoundsAssumption DEF TypeOK, IsTable, Quantity
<1>8. QED
  BY <1>4, <1>5, <1>6, <1>7

(* What is fulfilled of a line is allocated to it.                         *)
LEMMA FulfilledAllocated ==
  ASSUME TypeOK, NEW l
  PROVE  /\ LineFulfilled(l) \in Nat /\ LineAllocated(l) \in Nat
         /\ LineFulfilled(l) <= LineAllocated(l)
<1> DEFINE S == AllocationsOfLine(l)
           T == {r \in S : r[2] \in DOMAIN jobs /\ jobs[r[2]].status = "completed"}
<1>1. /\ S \in SUBSET DOMAIN allocations /\ T \in SUBSET DOMAIN allocations
      /\ T \in SUBSET S
  BY DEF AllocationsOfLine
<1>2. LineFulfilled(l) = Total(T, allocations) /\ LineAllocated(l) = Total(S, allocations)
  BY DEF LineFulfilled, LineAllocated, AllocationsOfLine
<1> HIDE DEF S, T
<1>3. /\ IsFiniteSet(S) /\ Total(S, allocations) \in Nat /\ Total(T, allocations) \in Nat
      /\ \A r \in S : allocations[r] \in 0 .. MaxUnits
  BY <1>1, AllocationTotalType, AllocationsFinite DEF TypeOK
<1>4. Total(T, allocations) <= Total(S, allocations)
  BY <1>1, <1>3, TotalMonotone, BoundsAssumption
<1>5. QED
  BY <1>2, <1>3, <1>4

(* The two percentages computePcts returns.                                *)
LEMMA PctsAreCoverings ==
  ASSUME NEW o
  PROVE  /\ FulfillmentPct(o)
              = Covering(LinesOf(o), orderLines, [l \in LinesOf(o) |-> LineFulfilled(l)])
         /\ AllocationPct(o)
              = Covering(LinesOf(o), orderLines, [l \in LinesOf(o) |-> LineAllocated(l)])
BY DEF FulfillmentPct, AllocationPct, Pct, Covering, Counted, Requested

(* A line reads 100 % when it is fulfilled, and below 200 units only then. *)
LEMMA LinePctFacts ==
  ASSUME TypeOK, NEW l \in DOMAIN orderLines
  PROVE  /\ LineFulfilled(l) >= orderLines[l] => LinePct(l) = 100
         /\ orderLines[l] < 200 /\ LinePct(l) = 100 => LineFulfilled(l) >= orderLines[l]
<1>1. orderLines[l] \in Nat \ {0} /\ LineFulfilled(l) \in Nat
  BY LinesType, FulfilledAllocated
<1> DEFINE part == Lesser(LineFulfilled(l), orderLines[l])
<1>2. /\ part \in Nat /\ part <= orderLines[l]
      /\ part = orderLines[l] <=> LineFulfilled(l) >= orderLines[l]
  BY <1>1 DEF Lesser
<1>3. LinePct(l) = Percent(part, orderLines[l])
  BY DEF LinePct
<1> HIDE DEF part
<1>4. QED
  BY <1>1, <1>2, <1>3, PercentFacts

(* The percentages of an order say of its lines what they seem to.         *)
LEMMA ProgressHonest ==
  ASSUME TypeOK
  PROVE  ProgressIsHonest
<1> SUFFICES ASSUME NEW o \in customerOrders
             PROVE  /\ FulfillmentPct(o) <= AllocationPct(o) /\ AllocationPct(o) <= 100
                    /\ Requested(o) < 200 =>
                         /\ AllocationPct(o) = 100
                              <=> /\ LinesOf(o) # {}
                                  /\ \A l \in LinesOf(o) : LineAllocated(l) >= orderLines[l]
                         /\ FulfillmentPct(o) = 100
                              <=> LinesOf(o) # {} /\ \A l \in LinesOf(o) : LinePct(l) = 100
  BY DEF ProgressIsHonest
<1> DEFINE L == LinesOf(o)
           u == [l \in L |-> LineFulfilled(l)]
           v == [l \in L |-> LineAllocated(l)]
<1>1. /\ IsFiniteSet(L) /\ L \subseteq DOMAIN orderLines
      /\ \A l \in L : /\ orderLines[l] \in Nat \ {0}
                      /\ u[l] \in Nat /\ v[l] \in Nat /\ u[l] <= v[l]
                      /\ u[l] = LineFulfilled(l) /\ v[l] = LineAllocated(l)
  BY LinesType, FulfilledAllocated
<1>2. /\ FulfillmentPct(o) = Covering(L, orderLines, u)
      /\ AllocationPct(o) = Covering(L, orderLines, v)
      /\ Requested(o) = Total(L, orderLines)
  BY PctsAreCoverings DEF Requested
<1>3. \A l \in L : L # {} => orderLines[l] <= Total(L, orderLines)
                             /\ Total(L, orderLines) \in Nat
  <2> HIDE DEF L
  <2>1. QED
    BY <1>1, CoveringParts
<1> HIDE DEF L, u, v
<1>4. Covering(L, orderLines, u) <= Covering(L, orderLines, v)
  BY <1>1, CoveringMonotone
<1>5. /\ Covering(L, orderLines, v) <= 100
      /\ (L # {} /\ \A l \in L : v[l] >= orderLines[l]) => Covering(L, orderLines, v) = 100
      /\ Total(L, orderLines) < 200 /\ Covering(L, orderLines, v) = 100
           => L # {} /\ \A l \in L : v[l] >= orderLines[l]
  BY <1>1, CoveringFacts
<1>6. /\ (L # {} /\ \A l \in L : u[l] >= orderLines[l]) => Covering(L, orderLines, u) = 100
      /\ Total(L, orderLines) < 200 /\ Covering(L, orderLines, u) = 100
           => L # {} /\ \A l \in L : u[l] >= orderLines[l]
  BY <1>1, CoveringFacts
<1>7. ASSUME Total(L, orderLines) < 200, NEW l \in L
      PROVE  u[l] >= orderLines[l] <=> LinePct(l) = 100
  <2>1. orderLines[l] < 200
    BY <1>1, <1>3, <1>7
  <2>2. QED
    BY <1>1, <2>1, LinePctFacts
<1>8. QED
  BY <1>1, <1>2, <1>4, <1>5, <1>6, <1>7 DEF L

-------------------------------------------------------------------------------

(* Ten times an average, rounded, lies between ten times two of the values.*)
LEMMA AverageBetween ==
  ASSUME NEW S, IsFiniteSet(S), S # {}, NEW f, \A x \in S : f[x] \in Nat
  PROVE  LET average == Rounded(10 * Total(S, f), Cardinality(S))
         IN  /\ \E x \in S : average <= 10 * f[x]
             /\ \E x \in S : average >= 10 * f[x]
<1> DEFINE n   == Cardinality(S)
           sum == Total(S, f)
           c   == 2 * n
           A   == Rounded(10 * sum, n)
<1>1. n \in Nat \ {0} /\ sum \in Nat
  BY FS_CardinalityType, FS_EmptySet, TotalNat
<1>2. /\ \A b \in Nat : (\A x \in S : f[x] <= b) => sum <= n * b
      /\ \A b \in Nat : (\A x \in S : f[x] >= b) => sum >= n * b
  BY TotalBounds
<1>3. A = (20 * sum + n) \div c
  BY <1>1 DEF Rounded
<1> HIDE DEF n, sum, A
<1>4. c \in Nat \ {0} /\ 20 * sum + n \in Nat
  BY <1>1
<1>5. /\ A \in Nat /\ A * c \in Nat
      /\ A * c <= 20 * sum + n /\ 20 * sum + n < A * c + c
  BY <1>3, <1>4, DivFacts
<1>6. \A b \in Nat : 20 * (n * b) = (10 * b) * c /\ n * b \in Nat /\ (10 * b) * c \in Nat
  BY <1>1
<1> HIDE DEF c
<1>7. n < c
  BY <1>1 DEF c
<1>8. ASSUME \A x \in S : 10 * f[x] < A
      PROVE  FALSE
  <2> DEFINE b == (A - 1) \div 10
  <2>1. A > 0
    BY <1>5, <1>8
  <2>2. b \in Nat /\ 10 * b < A /\ A <= 10 * b + 10
    BY <1>5, <2>1
  <2> HIDE DEF b
  <2>3. \A x \in S : f[x] <= b
    BY <1>5, <1>8, <2>2
  <2>4. sum <= n * b
    BY <1>2, <2>2, <2>3
  <2>5. 20 * sum + n < (10 * b) * c + c
    BY <1>1, <1>4, <1>6, <1>7, <2>2, <2>4
  <2>6. (10 * b) * c + c <= A * c
    BY <1>4, <1>5, <2>2, MultiplesApart
  <2>7. QED
    BY <1>1, <1>4, <1>5, <1>6, <2>2, <2>5, <2>6
<1>9. ASSUME \A x \in S : 10 * f[x] > A
      PROVE  FALSE
  <2> DEFINE b == A \div 10 + 1
  <2>1. b \in Nat /\ A < 10 * b /\ 10 * b <= A + 10
    BY <1>5
  <2> HIDE DEF b
  <2>2. \A x \in S : f[x] >= b
    BY <1>5, <1>9, <2>1
  <2>3. sum >= n * b
    BY <1>2, <2>1, <2>2
  <2>4. (10 * b) * c <= 20 * sum + n
    BY <1>1, <1>6, <2>1, <2>3
  <2>5. A * c + c <= (10 * b) * c
    BY <1>4, <1>5, <2>1, MultiplesApart
  <2>6. QED
    BY <1>1, <1>4, <1>5, <1>6, <2>1, <2>4, <2>5
<1>10. (\E x \in S : A <= 10 * f[x]) /\ (\E x \in S : A >= 10 * f[x])
  BY <1>5, <1>8, <1>9
<1>11. QED
  BY <1>10 DEF A, n, sum

(* The average number of jobs lies between those of two orders.            *)
LEMMA JobsPerOrder ==
  ASSUME TypeOK, OrdersWithJobs # {}
  PROVE  /\ \E o \in OrdersWithJobs : TenAvgJobsPerOrder <= 10 * JobCount(o)
         /\ \E o \in OrdersWithJobs : TenAvgJobsPerOrder >= 10 * JobCount(o)
<1> DEFINE f == [o \in OrdersWithJobs |-> Cardinality(JobsOfOrder(o))]
<1>1. IsFiniteSet(OrdersWithJobs)
  <2>1. IsFiniteSet(OrderIds)
    BY FS_Interval, BoundsAssumption DEF OrderIds
  <2>2. QED
    BY <2>1, FS_Subset DEF OrdersWithJobs, TypeOK
<1>2. \A o \in OrdersWithJobs : f[o] \in Nat /\ JobCount(o) = f[o]
  <2>1. IsFiniteSet(JobIds)
    BY FS_Interval, BoundsAssumption DEF JobIds
  <2>2. \A o : JobsOfOrder(o) \in SUBSET JobIds
    BY DEF JobsOfOrder, TypeOK, IsTable, AllocKeys
  <2>3. \A o : Cardinality(JobsOfOrder(o)) \in Nat
    BY <2>1, <2>2, FS_Subset, FS_CardinalityType
  <2>4. QED
    BY <2>3 DEF JobCount, OrdersWithJobs
<1>3. TenAvgJobsPerOrder = Rounded(10 * Total(OrdersWithJobs, f), Cardinality(OrdersWithJobs))
  BY DEF TenAvgJobsPerOrder
<1> HIDE DEF f
<1>4. QED
  BY <1>1, <1>2, <1>3, AverageBetween

(* The quantity of a type counts a line once per allocation.               *)
LEMMA QuantityOfType ==
  ASSUME TypeOK, NEW t
  PROVE  /\ TotalQuantity(t) >= Total(LinesOfType(t), orderLines)
         /\ TotalQuantity(t) = Total(LinesOfType(t), orderLines)
              <=> \A l \in LinesOfType(t) : Cardinality(AllocationsOfLine(l)) <= 1
<1> DEFINE L == LinesOfType(t)
           g == [l \in L |-> orderLines[l] * JoinedRows(l)]
<1>1. L \in SUBSET DOMAIN orderLines
  BY DEF LinesOfType
<1>2. IsFiniteSet(L) /\ \A l \in L : orderLines[l] \in Nat \ {0}
  BY <1>1, LinesType, FS_Subset
<1>3. ASSUME NEW l
      PROVE  /\ JoinedRows(l) \in Nat \ {0}
             /\ JoinedRows(l) = 1 <=> Cardinality(AllocationsOfLine(l)) <= 1
  <2>1. AllocationsOfLine(l) \in SUBSET DOMAIN allocations
    BY DEF AllocationsOfLine
  <2>2. IsFiniteSet(AllocationsOfLine(l))
    BY <2>1, AllocationTotalType DEF TypeOK
  <2>3. /\ Cardinality(AllocationsOfLine(l)) \in Nat
        /\ Cardinality(AllocationsOfLine(l)) = 0 <=> AllocationsOfLine(l) = {}
    BY <2>2, FS_CardinalityType, FS_EmptySet
  <2>4. QED
    BY <2>3 DEF JoinedRows
<1>4. ASSUME NEW l \in L
      PROVE  /\ g[l] \in Nat /\ orderLines[l] \in Nat /\ orderLines[l] <= g[l]
             /\ orderLines[l] = g[l] <=> Cardinality(AllocationsOfLine(l)) <= 1
  <2> DEFINE q == orderLines[l]
             k == JoinedRows(l)
  <2>1. g[l] = q * k /\ q \in Nat \ {0} /\ k \in Nat \ {0}
    BY <1>2, <1>3
  <2>2. k = 1 <=> Cardinality(AllocationsOfLine(l)) <= 1
    BY <1>3
  <2>3. \A a \in Nat \ {0}, b \in Nat \ {0} :
          a * b \in Nat /\ a <= a * b /\ (a = a * b <=> b = 1)
    OBVIOUS
  <2> HIDE DEF q, k, g
  <2>4. q * k \in Nat /\ q <= q * k /\ (q = q * k <=> k = 1)
    BY <2>1, <2>3
  <2>5. QED
    BY <2>1, <2>2, <2>4 DEF q
<1>5. TotalQuantity(t) = Total(L, g)
  BY DEF TotalQuantity
<1> HIDE DEF g
<1>6. /\ Total(L, orderLines) <= Total(L, g)
      /\ Total(L, orderLines) \in Nat /\ Total(L, g) \in Nat
      /\ Total(L, orderLines) = Total(L, g) <=> \A l \in L : orderLines[l] = g[l]
  <2> HIDE DEF L
  <2>1. QED
    BY <1>2, <1>4, TotalPointwise
<1>7. QED
  BY <1>4, <1>5, <1>6

(* The jobs of a type are jobs that make it, and units of it are fulfilled *)
(* by such jobs only.                                                      *)
LEMMA JobsOfType ==
  ASSUME TypeOK, ReferencesExist, ProductTypesAgree, NEW t
  PROVE  /\ JobCountOfType(t) <= Cardinality({j \in DOMAIN jobs : jobs[j].productType = t})
         /\ FulfilledQuantity(t) > 0 => JobCountOfType(t) > 0
<1> DEFINE J == {r[2] : r \in {a \in DOMAIN allocations : a[1][2] = t}}
           M == {j \in DOMAIN jobs : jobs[j].productType = t}
           L == LinesOfType(t)
           g == [l \in L |-> LineFulfilled(l) * JoinedRows(l)]
<1>1. J \in SUBSET M
  BY DEF ReferencesExist, ProductTypesAgree
<1>2. IsFiniteSet(M)
  <2>1. IsFiniteSet(JobIds)
    BY FS_Interval, BoundsAssumption DEF JobIds
  <2>2. M \in SUBSET JobIds
    BY DEF TypeOK, IsTable
  <2>3. QED
    BY <2>1, <2>2, FS_Subset
<1>3. JobCountOfType(t) = Cardinality(J)
  BY DEF JobCountOfType
<1>4. ASSUME J = {}
      PROVE  FulfilledQuantity(t) = 0
  <2>1. ASSUME NEW l \in L
        PROVE  g[l] = 0
    <3>1. AllocationsOfLine(l) = {}
      BY <1>4 DEF AllocationsOfLine, LinesOfType
    <3>2. LineFulfilled(l) = 0 /\ JoinedRows(l) = 1
      BY <3>1, TotalEmpty DEF LineFulfilled, JoinedRows
    <3>3. QED
      BY <3>2
  <2>2. Units(L, g) = {}
    <3>1. \A l \in L : 1 .. g[l] = {}
      BY <2>1
    <3>2. QED
      BY <3>1 DEF Units
  <2>3. FulfilledQuantity(t) = Total(L, g)
    BY DEF FulfilledQuantity
  <2>4. QED
    BY <2>2, <2>3, FS_EmptySet DEF Total
<1> HIDE DEF J, M
<1>5. /\ IsFiniteSet(J) /\ Cardinality(J) <= Cardinality(M) /\ Cardinality(J) \in Nat
      /\ Cardinality(J) = 0 <=> J = {}
  BY <1>1, <1>2, FS_Subset, FS_CardinalityType, FS_EmptySet
<1>6. QED
  BY <1>3, <1>4, <1>5 DEF M

(* What addAllocation lets one take is what the job page says is left.     *)
LEMMA LeftAvailable ==
  ASSUME TypeOK, JobNotOverAllocated
  PROVE  LeftIsAvailable
<1> SUFFICES ASSUME NEW j \in DOMAIN jobs
             PROVE  AvailableToAllocate(j) = Available(j)
  BY DEF LeftIsAvailable
<1>1. jobs[j].quantity \in Nat /\ Allocated(j) \in Nat
  BY AllocatedType DEF TypeOK, IsTable, JobRow, Quantity
<1>2. Allocated(j) <= jobs[j].quantity
  BY DEF JobNotOverAllocated
<1>3. QED
  BY <1>1, <1>2 DEF AvailableToAllocate, Available, Positive

(* The figures of the orders and jobs pages agree with one another in      *)
(* every reachable database (customer-orders.service.ts, computePcts;      *)
(* analytics.service.ts, getOrderMetrics; jobs.service.ts, buildJobDetail).*)
THEOREM OrderFiguresHold == Spec => []OrderFiguresAgree
<1>1. Consistent => OrderFiguresAgree
  <2> SUFFICES ASSUME Consistent
               PROVE  OrderFiguresAgree
    OBVIOUS
  <2>1. ProgressIsHonest
    BY ProgressHonest DEF Consistent
  <2>2. MetricsAgree
    BY JobsPerOrder, QuantityOfType, JobsOfType DEF Consistent, MetricsAgree
  <2>3. LeftIsAvailable
    BY LeftAvailable DEF Consistent
  <2>4. QED
    BY <2>1, <2>2, <2>3 DEF OrderFiguresAgree
<1>2. QED
  BY <1>1, ConsistentHolds, PTL

-------------------------------------------------------------------------------

(* What of order o is on completed jobs stays there.                       *)
FulfilledKept(o) ==
  /\ LinesOf(o)' = LinesOf(o)
  /\ \A l \in LinesOf(o) : orderLines'[l] = orderLines[l]
  /\ \A r \in DOMAIN allocations :
       r[1][1] = o /\ r[2] \in DOMAIN jobs /\ jobs[r[2]].status = "completed"
         => /\ r \in DOMAIN allocations' /\ allocations'[r] = allocations[r]
            /\ r[2] \in DOMAIN jobs' /\ jobs'[r[2]].status = "completed"

(* Then no line of the order has less fulfilled.                           *)
LEMMA KeptLine ==
  ASSUME TypeOK, TypeOK', NEW o, FulfilledKept(o), NEW l \in LinesOf(o)
  PROVE  LineFulfilled(l)' \in Nat /\ LineFulfilled(l)' >= LineFulfilled(l)
<1> DEFINE S == {r \in AllocationsOfLine(l) :
                   r[2] \in DOMAIN jobs /\ jobs[r[2]].status = "completed"}
           T == {r \in DOMAIN allocations' :
                   r[1] = l /\ r[2] \in DOMAIN jobs' /\ jobs'[r[2]].status = "completed"}
<1>1. S \in SUBSET T /\ \A r \in S : allocations'[r] = allocations[r]
  BY DEF FulfilledKept, AllocationsOfLine, LinesOf
<1>2. T \in SUBSET DOMAIN allocations'
  OBVIOUS
<1>3. LineFulfilled(l)' = Total(T, allocations')
  <2>1. {r \in AllocationsOfLine(l)' :
           r[2] \in DOMAIN jobs' /\ jobs'[r[2]].status = "completed"} = T
    BY DEF AllocationsOfLine
  <2>2. LineFulfilled(l)' = Total({r \in AllocationsOfLine(l)' :
           r[2] \in DOMAIN jobs' /\ jobs'[r[2]].status = "completed"}, allocations')
    BY DEF LineFulfilled
  <2>3. QED
    BY <2>1, <2>2
<1>4. LineFulfilled(l) = Total(S, allocations)
  BY DEF LineFulfilled
<1> HIDE DEF S, T
<1>5. /\ IsFiniteSet(T) /\ Total(T, allocations') \in Nat
      /\ \A r \in T : allocations'[r] \in 0 .. MaxUnits
  BY <1>2, AllocationsFinite, AllocationTotalType DEF TypeOK
<1>6. Total(S, allocations') <= Total(T, allocations')
  BY <1>1, <1>5, TotalMonotone, BoundsAssumption
<1>7. Total(S, allocations') = Total(S, allocations)
  BY <1>1, TotalCongruence
<1>8. QED
  BY <1>3, <1>4, <1>5, <1>6, <1>7

(* And neither has the order.                                              *)
LEMMA KeptOrder ==
  ASSUME TypeOK, TypeOK', NEW o, FulfilledKept(o)
  PROVE  ~ (FulfillmentPct(o)' < FulfillmentPct(o))
<1> DEFINE L == LinesOf(o)
           u == [l \in L |-> LineFulfilled(l)]
           v == [l \in L |-> LineFulfilled(l)']
<1>1. /\ IsFiniteSet(L)
      /\ \A l \in L : orderLines[l] \in Nat \ {0} /\ orderLines'[l] = orderLines[l]
  BY LinesType DEF FulfilledKept
<1>2. \A l \in L : LineFulfilled(l) \in Nat /\ LineFulfilled(l)' \in Nat
  BY FulfilledAllocated, KeptLine
<1>3. \A l \in L : u[l] \in Nat /\ v[l] \in Nat /\ u[l] <= v[l]
  BY <1>2, KeptLine
<1>4. FulfillmentPct(o) = Covering(L, orderLines, u)
  BY PctsAreCoverings
<1>5. FulfillmentPct(o)' = Covering(L, orderLines', v)
  <2>1. FulfillmentPct(o)' =
          Covering(LinesOf(o)', orderLines', [l \in LinesOf(o)' |-> LineFulfilled(l)'])
    BY DEF FulfillmentPct, Pct, Covering, Counted, Requested
  <2>2. LinesOf(o)' = L
    BY DEF FulfilledKept
  <2>3. QED
    BY <2>1, <2>2
<1> HIDE DEF L, u, v
<1>6. Covering(L, orderLines', v) = Covering(L, orderLines, v)
  <2>1. [l \in L |-> Lesser(v[l], orderLines'[l])] = [l \in L |-> Lesser(v[l], orderLines[l])]
    BY <1>1
  <2>2. Total(L, orderLines') = Total(L, orderLines)
    BY <1>1, TotalCongruence
  <2>3. QED
    BY <2>1, <2>2 DEF Covering
<1>7. Covering(L, orderLines, u) <= Covering(L, orderLines, v)
  BY <1>1, <1>3, CoveringMonotone
<1>8. Covering(L, orderLines, u) \in Nat /\ Covering(L, orderLines, v) \in Nat
  BY <1>1, <1>3, CoveringFacts
<1>9. QED
  BY <1>4, <1>5, <1>6, <1>7, <1>8

(* Requests about jobs keep what is fulfilled, but for the two that take   *)
(* something from the order itself.                                        *)
LEMMA JobsKeepFulfilled ==
  ASSUME TypeOK, JobsNext, NEW o,
         \A j \in JobsOfOrder(o), force \in BOOLEAN : ~ DeleteJob(j, force),
         \A r \in {a \in DOMAIN allocations : a[1][1] = o} : ~ RemoveAllocation(r)
  PROVE  FulfilledKept(o)
<1>1. ASSUME NEW p \in Pipelines, NEW q \in Quantity, CreateJob(p, q)
      PROVE  FulfilledKept(o)
  BY <1>1, NextJobIdFresh DEF CreateJob, orderVars, With, FulfilledKept, LinesOf
<1>2. ASSUME NEW j \in JobIds, NEW force \in BOOLEAN, DeleteJob(j, force)
      PROVE  FulfilledKept(o)
  <2>1. j \notin JobsOfOrder(o)
    BY <1>2
  <2>2. \A r \in DOMAIN allocations : r[1][1] = o => r[2] # j
    BY <2>1 DEF JobsOfOrder
  <2>3. QED
    BY <1>2, <2>2 DEF DeleteJob, Without, AllocationsOf, FulfilledKept, LinesOf
<1>3. ASSUME NEW j \in JobIds, NEW l \in Lines, NEW q \in Quantity, AddAllocation(j, l, q)
      PROVE  FulfilledKept(o)
  BY <1>3 DEF AddAllocation, With, FulfilledKept, LinesOf
<1>4. ASSUME NEW r \in AllocKeys, RemoveAllocation(r)
      PROVE  FulfilledKept(o)
  <2>1. r[1][1] # o
    BY <1>4 DEF RemoveAllocation
  <2>2. QED
    BY <1>4, <2>1 DEF RemoveAllocation, Without, FulfilledKept, LinesOf
<1>5. QED
  BY <1>1, <1>2, <1>3, <1>4 DEF JobsNext

(* A completed job stays completed whatever is scanned.                    *)
LEMMA EventsKeepFulfilled ==
  ASSUME TypeOK, EventsNext, NEW o
  PROVE  FulfilledKept(o)
<1>1. ASSUME NEW j \in DOMAIN jobs, jobs[j].status = "completed"
      PROVE  j \in DOMAIN jobs' /\ jobs'[j].status = "completed"
  <2>1. ASSUME NEW i \in JobIds, NEW s \in Stations, NEW phase \in Phases,
               CreateEvent(i, s, phase)
        PROVE  jobs'[j].status = "completed"
    <3>1. CASE i = j
      <4>1. NextStatus(j, departures') = "completed"
        BY <1>1 DEF NextStatus
      <4>2. QED
        BY <2>1, <3>1, <4>1 DEF CreateEvent, TypeOK, IsTable, JobRow
    <3>2. CASE i # j
      BY <1>1, <2>1, <3>2 DEF CreateEvent
    <3>3. QED
      BY <3>1, <3>2
  <2>2. QED
    BY <1>1, <2>1, EventsFrame DEF EventsNext, CrashInCreateEvent
<1>2. QED
  BY <1>1, EventsFrame DEF FulfilledKept, orderVars, LinesOf

(* Packing a new order neither moves nor reopens what others have.         *)
LEMMA CreateOrderKeepsFulfilled ==
  ASSUME TypeOK, ReferencesExist, NEW need, IsRequest(need), NEW rank,
         CreateOrder(need, rank), NEW o \in customerOrders
  PROVE  FulfilledKept(o)
<1>1. o # NextId(customerOrders)
  BY NewOrderFresh
<1>2. LinesOf(o)' = LinesOf(o) /\ \A l \in LinesOf(o) : orderLines'[l] = orderLines[l]
  BY <1>1 DEF CreateOrder, LinesOf
<1>3. ASSUME NEW r \in DOMAIN allocations, r[1][1] = o
      PROVE  r \in DOMAIN allocations' /\ allocations'[r] = allocations[r]
  <2>1. r \notin AddedBy(need, rank)
    BY <1>1, <1>3 DEF AddedBy
  <2>2. QED
    BY <2>1, OrderAddsRows
<1>4. ASSUME NEW j \in DOMAIN jobs
      PROVE  j \in DOMAIN jobs' /\ jobs'[j].status = jobs[j].status
  <2>1. j \notin DOMAIN NewJobs(need, rank)
    BY NewJobsType
  <2>2. jobs'[j] = [jobs[j] EXCEPT !.quantity = @ + GrowBy(need, j)] /\ j \in DOMAIN jobs'
    BY <2>1 DEF CreateOrder
  <2>3. QED
    BY <2>2 DEF TypeOK, IsTable, JobRow
<1>5. QED
  BY <1>2, <1>3, <1>4 DEF FulfilledKept

(* Deleting an order deletes no job that serves another.                   *)
LEMMA DeleteOrderKeepsFulfilled ==
  ASSUME TypeOK, NEW i \in OrderIds, DeleteOrder(i), NEW o, o # i
  PROVE  FulfilledKept(o)
<1>1. LinesOf(o)' = LinesOf(o) /\ \A l \in LinesOf(o) : orderLines'[l] = orderLines[l]
  BY DEF DeleteOrder, Without, LinesOf
<1>2. ASSUME NEW r \in DOMAIN allocations, r[1][1] = o, r[2] \in DOMAIN jobs
      PROVE  /\ r \in DOMAIN allocations' /\ allocations'[r] = allocations[r]
             /\ r[2] \in DOMAIN jobs' /\ jobs'[r[2]].status = jobs[r[2]].status
  <2>1. r \notin AllocationsOfOrder(i)
    BY <1>2 DEF AllocationsOfOrder
  <2>2. r[2] \notin Doomed(i)
    BY <2>1 DEF Doomed, AllocationsOf
  <2>3. r[2] \in DOMAIN jobs' /\
          jobs'[r[2]] = [jobs[r[2]] EXCEPT !.quantity = @ - SafeDelta(i, r[2])]
    BY <1>2, <2>2 DEF DeleteOrder
  <2>4. jobs'[r[2]].status = jobs[r[2]].status
    BY <1>2, <2>3 DEF TypeOK, IsTable, JobRow
  <2>5. QED
    BY <2>1, <2>3, <2>4 DEF DeleteOrder, Without
<1>3. QED
  BY <1>1, <1>2 DEF FulfilledKept

(* The progress of an order goes back only when somebody deletes one of    *)
(* its jobs or removes one of its allocations.                             *)
THEOREM OrdersKeepProgress == Spec => OrderProgressKept
<1>1. ASSUME Consistent, TypeOK', [Next]_vars, NEW o \in customerOrders \cap customerOrders',
             FulfillmentPct(o)' < FulfillmentPct(o)
      PROVE  \/ \E j \in JobsOfOrder(o), force \in BOOLEAN : DeleteJob(j, force)
             \/ \E r \in {a \in DOMAIN allocations : a[1][1] = o} : RemoveAllocation(r)
  <2> SUFFICES ASSUME \A j \in JobsOfOrder(o), force \in BOOLEAN : ~ DeleteJob(j, force),
                      \A r \in {a \in DOMAIN allocations : a[1][1] = o} : ~ RemoveAllocation(r)
               PROVE  FulfilledKept(o)
    BY <1>1, KeptOrder DEF Consistent
  <2> USE <1>1 DEF Consistent
  <2>1. CASE CatalogNext
    BY <2>1, CatalogFrame DEF FulfilledKept, orderVars, LinesOf
  <2>2. CASE JobsNext
    BY <2>2, JobsKeepFulfilled
  <2>3. CASE EventsNext
    BY <2>3, EventsKeepFulfilled
  <2>4. CASE OrdersNext
    <3>1. ASSUME NEW T \in SUBSET ProductTypes, NEW need \in [T -> Quantity], NEW rank,
                 CreateOrder(need, rank)
          PROVE  FulfilledKept(o)
      <4>1. IsRequest(need)
        BY DEF IsRequest
      <4>2. QED
        BY <3>1, <4>1, CreateOrderKeepsFulfilled
    <3>2. ASSUME NEW i \in OrderIds, DeleteOrder(i)
          PROVE  FulfilledKept(o)
      <4>1. o # i
        BY <3>2 DEF DeleteOrder
      <4>2. QED
        BY <3>2, <4>1, DeleteOrderKeepsFulfilled
    <3>3. QED
      BY <2>4, <3>1, <3>2 DEF OrdersNext
  <2>5. CASE UNCHANGED vars
    BY <2>5 DEF vars, FulfilledKept, LinesOf
  <2>6. QED
    BY <2>1, <2>2, <2>3, <2>4, <2>5 DEF Next
<1>2. Consistent /\ TypeOK' /\ [Next]_vars
        => [\A o \in customerOrders \cap customerOrders' :
              FulfillmentPct(o)' < FulfillmentPct(o)
                => \/ \E j \in JobsOfOrder(o), force \in BOOLEAN : DeleteJob(j, force)
                   \/ \E r \in {a \in DOMAIN allocations : a[1][1] = o} : RemoveAllocation(r)]_vars
  BY <1>1
<1>3. QED
  BY <1>2, TypeCorrect, ConsistentHolds, PTL DEF Spec, OrderProgressKept

-------------------------------------------------------------------------------

(* The first loop runs over the pending jobs: acc is what it has after     *)
(* each.                                                                   *)
LEMMA FillLoop ==
  ASSUME NEW p, NEW need, Cardinality(PendingJobs(p)) \in Nat
  PROVE  LET n == Cardinality(PendingJobs(p))
         IN  \E acc : /\ acc[0] = [remaining |-> need, shares |-> EmptyTable]
                      /\ \A k \in 1 .. n : acc[k] = Visit(p, acc[k - 1], Queue(p)[k])
                      /\ FillPending(p, need) = acc[n]
<1> DEFINE n == Cardinality(PendingJobs(p))
           Turn(f, k) == IF k = 0 THEN [remaining |-> need, shares |-> EmptyTable]
                         ELSE Visit(p, f[k - 1], Queue(p)[k])
           Runs(f, m) == f = [k \in 0 .. m |-> Turn(f, k)]
           Bad == {m \in 0 .. n : ~ \E f : Runs(f, m)}
           after == CHOOSE f : f = [k \in 0 .. n |-> Turn(f, k)]
<1>1. FillPending(p, need) = after[n]
  BY Zenon DEF FillPending
<1>2. \E f : Runs(f, n)
  <2>1. SUFFICES ASSUME Bad # {}
                 PROVE  FALSE
    <3>1. n \in 0 .. n
      OBVIOUS
    <3>2. QED
      BY <3>1
  <2>2. PICK m \in Bad : \A k \in Bad : m <= k
    <3>1. Bad \in SUBSET Nat
      OBVIOUS
    <3> HIDE DEF Bad
    <3>2. QED
      BY <2>1, <3>1, MinNat
  <2>3. m \in 0 .. n /\ ~ \E f : Runs(f, m)
    OBVIOUS
  <2>4. m # 0
    <3> DEFINE f == [k \in 0 .. 0 |-> [remaining |-> need, shares |-> EmptyTable]]
    <3>1. \A k \in 0 .. 0 : k = 0
      OBVIOUS
    <3>2. Runs(f, 0)
      BY <3>1
    <3>3. QED
      BY <2>3, <3>2
  <2>5. m - 1 \in 0 .. n /\ ~ m <= m - 1
    BY <2>3, <2>4
  <2>6. PICK f : Runs(f, m - 1)
    BY <2>2, <2>5
  <2> DEFINE g == [k \in 0 .. m |-> IF k = m THEN Turn(f, m) ELSE f[k]]
  <2>7. ASSUME NEW k \in 0 .. m
        PROVE  g[k] = Turn(g, k)
    <3> HIDE DEF Bad
    <3>1. CASE k = 0
      <4>1. g[0] = f[0] /\ 0 \in 0 .. m - 1
        BY <2>3, <2>4
      <4>2. f[0] = Turn(f, 0)
        BY <2>6, <4>1
      <4>3. QED
        BY <3>1, <4>1, <4>2
    <3>2. CASE k # 0
      <4>1. k - 1 \in 0 .. m /\ k - 1 # m
        BY <2>3, <3>2
      <4>2. g[k - 1] = f[k - 1]
        BY <4>1
      <4>3. g[k] = Turn(f, k)
        <5>1. CASE k = m
          BY <5>1
        <5>2. CASE k # m
          <6>1. k \in 0 .. m - 1
            BY <2>3, <5>2
          <6>2. g[k] = f[k]
            BY <5>2
          <6>3. f[k] = Turn(f, k)
            BY <2>6, <6>1
          <6>4. QED
            BY <6>2, <6>3
        <5>3. QED
          BY <5>1, <5>2
      <4> HIDE DEF g
      <4>4. QED
        BY <3>2, <4>2, <4>3
    <3>3. QED
      BY <3>1, <3>2
  <2>8. Runs(g, m)
    BY <2>7, Zenon
  <2>9. QED
    BY <2>3, <2>8
<1>3. Runs(after, n)
  BY <1>2, Zenon
<1>4. after[0] = [remaining |-> need, shares |-> EmptyTable]
  <2>1. 0 \in 0 .. n
    OBVIOUS
  <2> HIDE DEF after
  <2>2. after[0] = Turn(after, 0)
    BY <1>3, <2>1
  <2>3. QED
    BY <2>2
<1>5. ASSUME NEW k \in 1 .. n
      PROVE  after[k] = Visit(p, after[k - 1], Queue(p)[k])
  <2>1. k \in 0 .. n /\ k # 0
    OBVIOUS
  <2> HIDE DEF after
  <2>2. after[k] = Turn(after, k)
    BY <1>3, <2>1
  <2>3. QED
    BY <2>1, <2>2
<1>6. QED
  BY <1>1, <1>4, <1>5
(* The second loop opens a batch in each turn that has something to do.    *)
LEMMA BatchLoop ==
  ASSUME NEW c, NEW n \in Nat
  PROVE  \E acc : /\ acc[0] = [remaining |-> n, batches |-> <<>>]
                  /\ \A k \in 1 .. n : acc[k] = Open(c, acc[k - 1])
                  /\ OpenBatches(c, n) = acc[n].batches
<1> DEFINE Turn(f, k) == IF k = 0 THEN [remaining |-> n, batches |-> <<>>]
                         ELSE Open(c, f[k - 1])
           Runs(f, m) == f = [k \in 0 .. m |-> Turn(f, k)]
           Bad == {m \in 0 .. n : ~ \E f : Runs(f, m)}
           after == CHOOSE f : f = [k \in 0 .. n |-> Turn(f, k)]
<1>1. OpenBatches(c, n) = after[n].batches
  BY Zenon DEF OpenBatches
<1>2. \E f : Runs(f, n)
  <2>1. SUFFICES ASSUME Bad # {}
                 PROVE  FALSE
    <3>1. n \in 0 .. n
      OBVIOUS
    <3>2. QED
      BY <3>1
  <2>2. PICK m \in Bad : \A k \in Bad : m <= k
    <3>1. Bad \in SUBSET Nat
      OBVIOUS
    <3> HIDE DEF Bad
    <3>2. QED
      BY <2>1, <3>1, MinNat
  <2>3. m \in 0 .. n /\ ~ \E f : Runs(f, m)
    OBVIOUS
  <2>4. m # 0
    <3> DEFINE f == [k \in 0 .. 0 |-> [remaining |-> n, batches |-> <<>>]]
    <3>1. \A k \in 0 .. 0 : k = 0
      OBVIOUS
    <3>2. Runs(f, 0)
      BY <3>1
    <3>3. QED
      BY <2>3, <3>2
  <2>5. m - 1 \in 0 .. n /\ ~ m <= m - 1
    BY <2>3, <2>4
  <2>6. PICK f : Runs(f, m - 1)
    BY <2>2, <2>5
  <2> DEFINE g == [k \in 0 .. m |-> IF k = m THEN Turn(f, m) ELSE f[k]]
  <2>7. ASSUME NEW k \in 0 .. m
        PROVE  g[k] = Turn(g, k)
    <3> HIDE DEF Bad
    <3>1. CASE k = 0
      <4>1. g[0] = f[0] /\ 0 \in 0 .. m - 1
        BY <2>3, <2>4
      <4>2. f[0] = Turn(f, 0)
        BY <2>6, <4>1
      <4>3. QED
        BY <3>1, <4>1, <4>2
    <3>2. CASE k # 0
      <4>1. k - 1 \in 0 .. m /\ k - 1 # m
        BY <2>3, <3>2
      <4>2. g[k - 1] = f[k - 1]
        BY <4>1
      <4>3. g[k] = Turn(f, k)
        <5>1. CASE k = m
          BY <5>1
        <5>2. CASE k # m
          <6>1. k \in 0 .. m - 1
            BY <2>3, <5>2
          <6>2. g[k] = f[k]
            BY <5>2
          <6>3. f[k] = Turn(f, k)
            BY <2>6, <6>1
          <6>4. QED
            BY <6>2, <6>3
        <5>3. QED
          BY <5>1, <5>2
      <4> HIDE DEF g
      <4>4. QED
        BY <3>2, <4>2, <4>3
    <3>3. QED
      BY <3>1, <3>2
  <2>8. Runs(g, m)
    BY <2>7, Zenon
  <2>9. QED
    BY <2>3, <2>8
<1>3. Runs(after, n)
  BY <1>2, Zenon
<1>4. after[0] = [remaining |-> n, batches |-> <<>>]
  <2>1. 0 \in 0 .. n
    OBVIOUS
  <2> HIDE DEF after
  <2>2. after[0] = Turn(after, 0)
    BY <1>3, <2>1
  <2>3. QED
    BY <2>2
<1>5. ASSUME NEW k \in 1 .. n
      PROVE  after[k] = Open(c, after[k - 1])
  <2>1. k \in 0 .. n /\ k # 0
    OBVIOUS
  <2> HIDE DEF after
  <2>2. after[k] = Turn(after, k)
    BY <1>3, <2>1
  <2>3. QED
    BY <2>1, <2>2
<1>6. QED
  BY <1>1, <1>4, <1>5

-------------------------------------------------------------------------------

(* The queue has every pending job once, in the order of the ids.          *)
LEMMA QueueFacts ==
  ASSUME TypeOK, NEW p
  PROVE  LET S == PendingJobs(p)
             n == Cardinality(S)
             r == Queue(p)
         IN  /\ n \in Nat /\ r \in [1 .. n -> S]
             /\ \A k, m \in 1 .. n : k < m => r[k] < r[m]
             /\ \A j \in S : \E k \in 1 .. n : r[k] = j
<1> DEFINE S == PendingJobs(p)
           before == Before(p)
<1>1. IsFiniteSet(S) /\ S \subseteq Nat
  BY PendingFinite DEF JobIds
<1>2. \A j \in S : before[j] = {i \in S : i < j}
  BY DEF Before
<1>3. /\ \A j \in S : before[j] \in SUBSET S /\ j \notin before[j]
      /\ \A i, j \in S : i \in before[j] => before[i] \subseteq before[j]
      /\ \A i, j \in S : i = j \/ i \in before[j] \/ j \in before[i]
  BY <1>1, <1>2
<1>4. \A i, j \in S : i \in before[j] => i < j
  BY <1>2
<1> HIDE DEF S, before
<1>5. LET n == Cardinality(S)
          r == Ordered(S, before)
      IN  /\ n \in Nat
          /\ r \in [1 .. n -> S]
          /\ \A k, m \in 1 .. n : k < m => r[k] \in before[r[m]]
          /\ \A x \in S : \E k \in 1 .. n : r[k] = x
  BY <1>1, <1>3, Ranked
<1>6. QED
  BY <1>4, <1>5 DEF Queue, S, before

(* The space of the jobs that have been visited after k turns.             *)
Visited(p, k) == {Queue(p)[i] : i \in 1 .. k}

SpaceAfter(p, k) == Total(Visited(p, k), Space(p))

(* The jobs before the k-th are those of the turns before.                 *)
LEMMA VisitedBefore ==
  ASSUME TypeOK, NEW p, NEW k \in 1 .. Cardinality(PendingJobs(p))
  PROVE  /\ Visited(p, k - 1) = {i \in PendingJobs(p) : i < Queue(p)[k]}
         /\ Visited(p, k) = Visited(p, k - 1) \cup {Queue(p)[k]}
<1> DEFINE S == PendingJobs(p)
           n == Cardinality(S)
           r == Queue(p)
<1>1. /\ n \in Nat /\ r \in [1 .. n -> S]
      /\ \A i, m \in 1 .. n : i < m => r[i] < r[m]
      /\ \A j \in S : \E i \in 1 .. n : r[i] = j
  BY QueueFacts
<1>2. S \subseteq Nat
  BY PendingFinite DEF JobIds
<1> HIDE DEF S, n, r
<1>3. k \in 1 .. n
  BY DEF n, S
<1>4. ASSUME NEW i \in 1 .. k - 1
      PROVE  r[i] \in S /\ r[i] < r[k]
  <2>1. i \in 1 .. n /\ i < k
    BY <1>1, <1>3
  <2>2. QED
    BY <1>1, <1>3, <2>1
<1>5. ASSUME NEW j \in S, j < r[k]
      PROVE  \E i \in 1 .. k - 1 : r[i] = j
  <2>1. PICK i \in 1 .. n : r[i] = j
    BY <1>1
  <2>2. ~ k < i /\ i # k
    <3>1. r[k] \in Nat /\ j \in Nat
      BY <1>1, <1>2, <1>3
    <3>2. k < i => r[k] < j
      BY <1>1, <1>3, <2>1
    <3>3. QED
      BY <1>5, <2>1, <3>1, <3>2
  <2>3. i \in 1 .. k - 1
    BY <1>1, <1>3, <2>2
  <2>4. QED
    BY <2>1, <2>3
<1>6. {r[i] : i \in 1 .. k - 1} = {j \in S : j < r[k]}
  BY <1>4, <1>5
<1>7. 1 .. k = (1 .. k - 1) \cup {k}
  BY <1>3
<1>8. {r[i] : i \in 1 .. k} = {r[i] : i \in 1 .. k - 1} \cup {r[k]}
  BY <1>7
<1>9. QED
  BY <1>6, <1>8 DEF Visited, S, r

(* Each turn adds the space of its job, and all of them the whole space.   *)
LEMMA SpaceOfTurns ==
  ASSUME TypeOK, NEW p
  PROVE  /\ SpaceAfter(p, 0) = 0
         /\ SpaceAfter(p, Cardinality(PendingJobs(p))) = Total(PendingJobs(p), Space(p))
         /\ \A k \in 1 .. Cardinality(PendingJobs(p)) :
              /\ SpaceAfter(p, k - 1) = SpaceBefore(p, Queue(p)[k])
              /\ SpaceBefore(p, Queue(p)[k]) \in Nat
              /\ SpaceAfter(p, k) = SpaceAfter(p, k - 1) + Space(p)[Queue(p)[k]]
<1> DEFINE S == PendingJobs(p)
           n == Cardinality(S)
           r == Queue(p)
           f == Space(p)
<1>1. /\ n \in Nat /\ r \in [1 .. n -> S]
      /\ \A j \in S : \E i \in 1 .. n : r[i] = j
  BY QueueFacts
<1>2. Visited(p, 0) = {}
  BY DEF Visited
<1>3. Visited(p, n) = S
  <2> HIDE DEF S, n
  <2>1. QED
    BY <1>1 DEF Visited
<1>4. ASSUME NEW k \in 1 .. n
      PROVE  /\ SpaceAfter(p, k - 1) = SpaceBefore(p, r[k])
             /\ SpaceBefore(p, r[k]) \in Nat
             /\ SpaceAfter(p, k) = SpaceAfter(p, k - 1) + f[r[k]]
  <2> DEFINE A == Visited(p, k - 1)
             j == r[k]
  <2>1. A = {i \in S : i < j} /\ Visited(p, k) = A \cup {j}
    BY VisitedBefore
  <2>2. j \in S
    BY <1>1
  <2>3. SpaceBefore(p, j) \in Nat /\ f[j] \in Nat
    BY <2>2, SpacesOrdered
  <2>4. IsFiniteSet(A) /\ IsFiniteSet({j}) /\ A \cap {j} = {}
    <3>1. IsFiniteSet(S) /\ S \subseteq Nat
      BY PendingFinite DEF JobIds
    <3>2. IsFiniteSet(A)
      BY <2>1, <3>1, FS_Subset
    <3>3. j \notin A
      BY <2>1, <2>2, <3>1
    <3>4. QED
      BY <3>2, <3>3, FS_Singleton
  <2>5. \A x \in A \cup {j} : f[x] \in Nat
    BY <2>1, <2>2, SpaceType DEF Capacity
  <2>6. Total({j}, f) = f[j]
    BY <2>3, TotalSingleton
  <2>7. Total(A, f) = SpaceBefore(p, j)
    BY <2>1 DEF SpaceBefore
  <2> HIDE DEF A, j, f
  <2>8. Total(A \cup {j}, f) = Total(A, f) + Total({j}, f)
    BY <2>4, <2>5, TotalDisjointUnion
  <2>9. QED
    BY <2>1, <2>3, <2>6, <2>7, <2>8 DEF SpaceAfter, A, j, f
<1>5. QED
  BY <1>2, <1>3, <1>4, TotalEmpty DEF SpaceAfter

(* What the first loop has after k turns.                                  *)
Given(p, need, k) == {j \in Visited(p, k) : Packed(p, need, j) > 0}

Filled(p, need, k) ==
  [remaining |-> Positive(need - SpaceAfter(p, k)),
   shares    |-> [j \in Given(p, need, k) |-> Packed(p, need, j)]]

LEMMA FilledStep ==
  ASSUME TypeOK, NEW p, NEW need \in Nat, NEW k \in 1 .. Cardinality(PendingJobs(p))
  PROVE  Visit(p, Filled(p, need, k - 1), Queue(p)[k]) = Filled(p, need, k)
<1> DEFINE j == Queue(p)[k]
           A == Visited(p, k - 1)
           before == SpaceBefore(p, j)
           space == EffectiveCapacity(p) - Allocated(j)
           old == Filled(p, need, k - 1)
           new == Filled(p, need, k)
           toAdd == Lesser(space, old.remaining)
<1>1. j \in PendingJobs(p)
  BY QueueFacts
<1>2. Visited(p, k) = A \cup {j} /\ j \notin A
  <2>1. PendingJobs(p) \subseteq Nat
    BY PendingFinite DEF JobIds
  <2>2. QED
    BY <1>1, <2>1, VisitedBefore
<1>3. /\ SpaceAfter(p, k - 1) = before /\ before \in Nat
      /\ SpaceAfter(p, k) = before + Space(p)[j]
  BY SpaceOfTurns
<1>4. space \in Int /\ Space(p)[j] = Positive(space)
  BY <1>1, CapacityType, AllocatedType DEF Space, Capacity
<1>5. Packed(p, need, j) = Lesser(Positive(space), Positive(need - before))
  BY <1>4 DEF Packed
<1>6. /\ old.remaining = Positive(need - before)
      /\ old.shares = [i \in Given(p, need, k - 1) |-> Packed(p, need, i)]
      /\ new = [remaining |-> Positive(need - (before + Positive(space))),
                shares    |-> [i \in Given(p, need, k) |-> Packed(p, need, i)]]
      /\ old = [remaining |-> Positive(need - before),
                shares    |-> [i \in Given(p, need, k - 1) |-> Packed(p, need, i)]]
  BY <1>3, <1>4 DEF Filled
<1>7. Given(p, need, k) = IF Packed(p, need, j) > 0 THEN Given(p, need, k - 1) \cup {j}
                          ELSE Given(p, need, k - 1)
  BY <1>2 DEF Given
<1>8. j \notin Given(p, need, k - 1)
  BY <1>2 DEF Given
<1>9. Visit(p, old, j) = IF old.remaining <= 0 \/ space <= 0 THEN old
                         ELSE [remaining |-> old.remaining - toAdd,
                               shares |-> With(old.shares, j, toAdd)]
  BY DEF Visit
<1>10. CASE old.remaining <= 0 \/ space <= 0
  <2>1. ~ Packed(p, need, j) > 0
    <3> HIDE DEF space, before, old
    <3>1. QED
      BY <1>3, <1>4, <1>5, <1>6, <1>10 DEF Lesser, Positive
  <2>2. Positive(need - (before + Positive(space))) = Positive(need - before)
    <3> HIDE DEF space, before, old
    <3>1. QED
      BY <1>3, <1>4, <1>6, <1>10 DEF Positive
  <2>3. new = old
    BY <1>6, <1>7, <2>1, <2>2
  <2>4. QED
    BY <1>9, <1>10, <2>3
<1>11. CASE ~ (old.remaining <= 0 \/ space <= 0)
  <2>1. /\ toAdd = Packed(p, need, j) /\ Packed(p, need, j) > 0
        /\ old.remaining - toAdd = Positive(need - (before + Positive(space)))
    <3> HIDE DEF space, before, old
    <3>1. QED
      BY <1>3, <1>4, <1>5, <1>6, <1>11 DEF Lesser, Positive, toAdd
  <2>2. With(old.shares, j, toAdd) = [i \in Given(p, need, k) |-> Packed(p, need, i)]
    <3> DEFINE G == Given(p, need, k - 1)
               f(i) == Packed(p, need, i)
    <3>1. old.shares = [i \in G |-> f(i)] /\ Given(p, need, k) = G \cup {j} /\ j \notin G
      BY <1>6, <1>7, <1>8, <2>1
    <3>2. toAdd = f(j)
      BY <2>1
    <3> HIDE DEF G, f, old, toAdd, j
    <3>3. [x \in DOMAIN old.shares \cup {j} |-> IF x = j THEN toAdd ELSE old.shares[x]]
            = [i \in G \cup {j} |-> f(i)]
      BY <3>1, <3>2
    <3>4. QED
      BY <3>1, <3>3 DEF With, f
  <2>3. QED
    BY <1>6, <1>9, <1>11, <2>1, <2>2
<1>12. QED
  BY <1>10, <1>11

LEMMA PendingFilled ==
  ASSUME TypeOK, NEW p, NEW need \in Nat
  PROVE  FillPending(p, need) = Filled(p, need, Cardinality(PendingJobs(p)))
<1> DEFINE n == Cardinality(PendingJobs(p))
<1>1. n \in Nat
  BY QueueFacts
<1>2. PICK acc : /\ acc[0] = [remaining |-> need, shares |-> EmptyTable]
                 /\ \A k \in 1 .. n : acc[k] = Visit(p, acc[k - 1], Queue(p)[k])
                 /\ FillPending(p, need) = acc[n]
  BY <1>1, FillLoop
<1>3. acc[0] = Filled(p, need, 0)
  <2>1. SpaceAfter(p, 0) = 0
    BY SpaceOfTurns
  <2>2. Given(p, need, 0) = {}
    BY DEF Given, Visited
  <2>3. Positive(need - SpaceAfter(p, 0)) = need
    BY <2>1 DEF Positive
  <2>4. [j \in Given(p, need, 0) |-> Packed(p, need, j)] = EmptyTable
    BY <2>2 DEF EmptyTable
  <2>5. QED
    BY <1>2, <2>3, <2>4 DEF Filled
<1> DEFINE Bad == {k \in 0 .. n : acc[k] # Filled(p, need, k)}
<1>4. Bad = {}
  <2>1. SUFFICES ASSUME Bad # {}
                 PROVE  FALSE
    OBVIOUS
  <2>2. PICK m \in Bad : \A k \in Bad : m <= k
    <3>1. Bad \in SUBSET Nat
      OBVIOUS
    <3> HIDE DEF Bad
    <3>2. QED
      BY <2>1, <3>1, MinNat
  <2>3. m \in 0 .. n /\ acc[m] # Filled(p, need, m)
    OBVIOUS
  <2>4. m \in 1 .. n /\ m - 1 \in 0 .. n /\ ~ m <= m - 1
    BY <1>1, <1>3, <2>3
  <2>5. acc[m - 1] = Filled(p, need, m - 1)
    BY <2>2, <2>4
  <2>6. acc[m] = Filled(p, need, m)
    BY <1>2, <2>4, <2>5, FilledStep
  <2>7. QED
    BY <2>3, <2>6
<1>5. n \in 0 .. n
  BY <1>1
<1>6. QED
  BY <1>2, <1>4, <1>5

-------------------------------------------------------------------------------

(* The number of batches: their multiples below x are those of the numbers *)
(* below the rounded-up quotient, which is at most x.                      *)
LEMMA UpToCeiling ==
  ASSUME NEW c \in Nat \ {0}, NEW x \in Nat
  PROVE  /\ (x + c - 1) \div c \in 0 .. x
         /\ \A m \in Nat : m < (x + c - 1) \div c <=> m * c < x
<1> DEFINE q == (x + c - 1) \div c
<1>1. q \in Nat /\ q * c <= x + c - 1
  OBVIOUS
<1>2. ASSUME NEW m \in Nat
      PROVE  m < q <=> m * c < x
  <2>1. m * c < x => m < q
    BY BelowCeiling
  <2>2. ASSUME m < q
        PROVE  m * c < x
    <3> HIDE DEF q
    <3>1. m * c + c <= q * c /\ m * c \in Nat /\ q * c \in Nat
      BY <1>1, <2>2, MultiplesApart
    <3>2. QED
      BY <1>1, <3>1
  <2>3. QED
    BY <2>1, <2>2
<1>3. q <= x
  <2>1. ~ x * c < x
    <3>1. x * 1 <= x * c
      OBVIOUS
    <3>2. x * c \in Nat
      OBVIOUS
    <3>3. QED
      BY <3>1, <3>2
  <2> HIDE DEF q
  <2>2. ~ x < q
    BY <1>2, <2>1
  <2>3. QED
    BY <1>1, <2>2
<1> HIDE DEF q
<1>4. QED
  BY <1>1, <1>2, <1>3 DEF q

(* What the second loop has after k turns.                                 *)
BatchesAfter(c, x, k) ==
  [remaining |-> Positive(x - k * c),
   batches   |-> [m \in 1 .. Lesser(k, (x + c - 1) \div c) |-> Lesser(c, x - (m - 1) * c)]]

LEMMA OpenedStep ==
  ASSUME NEW c \in Nat \ {0}, NEW x \in Nat, NEW k \in Nat \ {0}
  PROVE  Open(c, BatchesAfter(c, x, k - 1)) = BatchesAfter(c, x, k)
<1> DEFINE q == (x + c - 1) \div c
           done == (k - 1) * c
           left == x - done
           batch(m) == Lesser(c, x - (m - 1) * c)
           old == BatchesAfter(c, x, k - 1)
           new == BatchesAfter(c, x, k)
<1>1. /\ q \in Nat /\ k - 1 \in Nat
      /\ k - 1 < q <=> done < x
  BY UpToCeiling
<1>2. done \in Nat /\ k * c = done + c /\ left \in Int
  OBVIOUS
<1>3. /\ old.remaining = Positive(left)
      /\ old.batches = [m \in 1 .. Lesser(k - 1, q) |-> batch(m)]
      /\ old = [remaining |-> Positive(left),
                batches |-> [m \in 1 .. Lesser(k - 1, q) |-> batch(m)]]
      /\ new = [remaining |-> Positive(x - (done + c)),
                batches |-> [m \in 1 .. Lesser(k, q) |-> batch(m)]]
  BY <1>2 DEF BatchesAfter
<1>4. Open(c, old) =
        IF old.remaining <= 0 THEN old
        ELSE [remaining |-> old.remaining - Lesser(c, old.remaining),
              batches |-> Append(old.batches, Lesser(c, old.remaining))]
  BY DEF Open
<1>5. CASE done < x
  <2>1. /\ Positive(left) = left /\ ~ left <= 0
        /\ left - Lesser(c, left) = Positive(x - (done + c))
    <3> HIDE DEF done
    <3>1. QED
      BY <1>2, <1>5 DEF Lesser, Positive
  <2>2. Lesser(k - 1, q) = k - 1 /\ Lesser(k, q) = k
    <3> HIDE DEF q, done
    <3>1. QED
      BY <1>1, <1>5 DEF Lesser
  <2>3. Append([m \in 1 .. k - 1 |-> batch(m)], batch(k)) = [m \in 1 .. k |-> batch(m)]
    <3>1. \A m \in 1 .. k : batch(m) \in Int
      BY DEF Lesser
    <3> HIDE DEF batch
    <3> DEFINE s == [m \in 1 .. k - 1 |-> batch(m)]
    <3>2. s \in Seq(Int) /\ Len(s) = k - 1
      BY <1>1, <3>1
    <3>3. QED
      BY <1>1, <3>1, <3>2
  <2>4. batch(k) = Lesser(c, left)
    OBVIOUS
  <2>5. Open(c, old) = new
    <3> HIDE DEF batch, left, old, new
    <3>1. QED
      BY <1>3, <1>4, <2>1, <2>2, <2>3, <2>4
  <2>6. QED
    BY <2>5
<1>6. CASE ~ done < x
  <2>1. Positive(left) = 0 /\ Positive(x - (done + c)) = 0
    <3> HIDE DEF done
    <3>1. QED
      BY <1>2, <1>6 DEF Positive
  <2>2. Lesser(k - 1, q) = Lesser(k, q)
    <3> HIDE DEF q, done
    <3>1. QED
      BY <1>1, <1>6 DEF Lesser
  <2> DEFINE all == [m \in 1 .. Lesser(k, q) |-> batch(m)]
  <2>3. /\ old = [remaining |-> 0, batches |-> all]
        /\ new = [remaining |-> 0, batches |-> all]
    BY <1>3, <2>1, <2>2
  <2>4. old.remaining <= 0
    BY <2>3
  <2>5. Open(c, old) = new
    <3> HIDE DEF old, new, all
    <3>1. QED
      BY <1>4, <2>3, <2>4
  <2>6. QED
    BY <2>5
<1>7. QED
  BY <1>5, <1>6

LEMMA BatchesOpened ==
  ASSUME NEW c \in Nat \ {0}, NEW x \in Nat
  PROVE  OpenBatches(c, x) = BatchesAfter(c, x, x).batches
<1>1. PICK acc : /\ acc[0] = [remaining |-> x, batches |-> <<>>]
                 /\ \A k \in 1 .. x : acc[k] = Open(c, acc[k - 1])
                 /\ OpenBatches(c, x) = acc[x].batches
  BY BatchLoop
<1>2. acc[0] = BatchesAfter(c, x, 0)
  <2>1. 0 * c = 0 /\ (x + c - 1) \div c \in Nat
    OBVIOUS
  <2>2. Positive(x - 0 * c) = x /\ Lesser(0, (x + c - 1) \div c) = 0
    BY <2>1 DEF Positive, Lesser
  <2>3. [m \in 1 .. 0 |-> Lesser(c, x - (m - 1) * c)] = <<>>
    OBVIOUS
  <2>4. QED
    BY <1>1, <2>2, <2>3 DEF BatchesAfter
<1> DEFINE Bad == {k \in 0 .. x : acc[k] # BatchesAfter(c, x, k)}
<1>3. Bad = {}
  <2>1. SUFFICES ASSUME Bad # {}
                 PROVE  FALSE
    OBVIOUS
  <2>2. PICK m \in Bad : \A k \in Bad : m <= k
    <3>1. Bad \in SUBSET Nat
      OBVIOUS
    <3> HIDE DEF Bad
    <3>2. QED
      BY <2>1, <3>1, MinNat
  <2>3. m \in 0 .. x /\ acc[m] # BatchesAfter(c, x, m)
    OBVIOUS
  <2>4. m \in 1 .. x /\ m - 1 \in 0 .. x /\ ~ m <= m - 1 /\ m \in Nat \ {0}
    BY <1>2, <2>3
  <2>5. acc[m - 1] = BatchesAfter(c, x, m - 1)
    BY <2>2, <2>4
  <2>6. acc[m] = BatchesAfter(c, x, m)
    BY <1>1, <2>4, <2>5, OpenedStep
  <2>7. QED
    BY <2>3, <2>6
<1>4. x \in 0 .. x
  OBVIOUS
<1>5. QED
  BY <1>1, <1>3, <1>4

(* In every typed database the loops give what the operators say.          *)
LEMMA LoopsFollowed == TypeOK => PackingFollowsLoop
<1> SUFFICES ASSUME TypeOK, NEW p \in DOMAIN pipelines, NEW need \in 1 .. 2 * MaxUnits,
                    EffectiveCapacity(p) # NULL
             PROVE  LET filled  == FillPending(p, need)
                        batches == OpenBatches(EffectiveCapacity(p), filled.remaining)
                    IN  /\ \A j \in PendingJobs(p) :
                             Packed(p, need, j) =
                               IF j \in DOMAIN filled.shares THEN filled.shares[j] ELSE 0
                        /\ Len(batches) = BatchCount(p, need)
                        /\ \A m \in DOMAIN batches : batches[m] = Batch(p, need, m - 1)
  BY Zenon DEF PackingFollowsLoop
<1> DEFINE n == Cardinality(PendingJobs(p))
           c == EffectiveCapacity(p)
           x == Leftover(p, need)
           filled == FillPending(p, need)
           batches == OpenBatches(c, filled.remaining)
<1>1. need \in Nat /\ c \in Nat \ {0}
  BY CapacityType, BoundsAssumption DEF Capacity, NULL
<1>2. filled = Filled(p, need, n)
  BY <1>1, PendingFilled
<1>3. Visited(p, n) = PendingJobs(p) /\ SpaceAfter(p, n) = Total(PendingJobs(p), Space(p))
  <2>1. /\ n \in Nat /\ Queue(p) \in [1 .. n -> PendingJobs(p)]
        /\ \A j \in PendingJobs(p) : \E k \in 1 .. n : Queue(p)[k] = j
    BY QueueFacts
  <2>2. QED
    BY <2>1, SpaceOfTurns DEF Visited
<1>4. filled.remaining = x /\ x \in Nat
  <2>1. Total(PendingJobs(p), Space(p)) \in Nat
    BY SpaceTotalType
  <2>2. QED
    BY <1>1, <1>2, <1>3, <2>1 DEF Filled, Leftover, Positive
<1>5. ASSUME NEW j \in PendingJobs(p)
      PROVE  Packed(p, need, j) =
               IF j \in DOMAIN filled.shares THEN filled.shares[j] ELSE 0
  <2>1. DOMAIN filled.shares = Given(p, need, n)
    BY <1>2 DEF Filled
  <2>2. j \in Given(p, need, n) => filled.shares[j] = Packed(p, need, j)
    BY <1>2 DEF Filled
  <2>3. j \notin Given(p, need, n) => Packed(p, need, j) = 0
    <3>1. Packed(p, need, j) \in Nat
      BY <1>1, SpacesOrdered DEF Packed, Lesser, Positive
    <3>2. QED
      BY <1>3, <3>1 DEF Given
  <2>4. QED
    BY <2>1, <2>2, <2>3
<1>6. /\ Len(batches) = BatchCount(p, need)
      /\ \A m \in DOMAIN batches : batches[m] = Batch(p, need, m - 1)
  <2> DEFINE q == (x + c - 1) \div c
             s == [m \in 1 .. q |-> Lesser(c, x - (m - 1) * c)]
  <2>1. q \in 0 .. x
    BY <1>1, <1>4, UpToCeiling
  <2>2. Lesser(x, q) = q
    <3> HIDE DEF q, x
    <3>1. QED
      BY <1>4, <2>1 DEF Lesser
  <2>3. batches = s
    BY <1>1, <1>4, <2>2, BatchesOpened DEF BatchesAfter
  <2>4. BatchCount(p, need) = q /\ \A m : Batch(p, need, m - 1) = Lesser(c, x - (m - 1) * c)
    BY DEF BatchCount, Batch
  <2>5. Len(s) = q /\ DOMAIN s = 1 .. q
    <3> HIDE DEF q
    <3>1. QED
      BY <1>4, <2>1
  <2>6. \A m \in 1 .. q : s[m] = Batch(p, need, m - 1)
    BY <2>4
  <2> HIDE DEF s, q, batches
  <2>7. QED
    BY <2>3, <2>4, <2>5, <2>6
<1>7. QED
  BY <1>5, <1>6

(* createOrderTx gives its lines what the loops of autoCreateAndAllocate   *)
(* give: in every database, for any need, capacity and number of pending   *)
(* jobs, the shares and batches of the model are those of the code's       *)
(* running `remaining`.                                                    *)
THEOREM PackingIsLoop == Spec => []PackingFollowsLoop
<1>1. TypeOK => PackingFollowsLoop
  BY LoopsFollowed
<1>2. QED
  BY <1>1, TypeCorrect, PTL
===============================================================================
