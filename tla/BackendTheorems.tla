--------------------------- MODULE BackendTheorems ----------------------------
(***************************************************************************)
(* Invariants of the backend for every number of jobs, orders, units,      *)
(* stations, pipelines and product types.                                  *)
(*                                                                         *)
(* Those that relate tables rest each on the ones before it: rows that are *)
(* referred to exist; therefore the jobs of a pipeline keep its product    *)
(* type; therefore what an order packs into a job is counted once, and no  *)
(* job is over-allocated.                                                  *)
(***************************************************************************)
EXTENDS Backend, TotalsTheorems

USE BoundsAssumption, PhasesAssumption, FiniteAssumption

(* A table stays a table when a row is added or rows are removed.          *)
LEMMA WithTable ==
  ASSUME NEW t, NEW K, NEW R, IsTable(t, K, R), NEW k \in K, NEW r \in R
  PROVE  IsTable(With(t, k, r), K, R)
BY DEF IsTable, With

(* Deleting rows leaves a table of the same schema.                        *)
LEMMA WithoutTable ==
  ASSUME NEW t, NEW K, NEW R, IsTable(t, K, R), NEW S
  PROVE  IsTable(Without(t, S), K, R)
BY DEF IsTable, Without

(* A new id is positive and greater than every id of the table.            *)
LEMMA NextIdFresh ==
  ASSUME NEW n \in Nat, NEW S \in SUBSET (1 .. n)
  PROVE  /\ NextId(S) \in Nat \ {0}
         /\ \A x \in S : x < NextId(S)
<1> DEFINE m == Max(S \cup {0})
<1>1. S \cup {0} \in SUBSET (0 .. n) /\ S \cup {0} # {}
  OBVIOUS
<1>2. m \in S \cup {0} /\ \A y \in S \cup {0} : m >= y
  BY <1>1, MaxNat
<1>3. NextId(S) = m + 1
  BY DEF NextId
<1> HIDE DEF m
<1>4. QED
  BY <1>2, <1>3

(* The effective capacity is NULL or the capacity of some step.            *)
LEMMA CapacityType ==
  ASSUME TypeOK, NEW p
  PROVE  EffectiveCapacity(p) \in Capacity
<1> DEFINE caps == {pipelineSteps[r] : r \in StepsOf(p)} \ {NULL}
<1>1. caps \in SUBSET Capacity /\ caps \in SUBSET Nat
  BY DEF TypeOK, IsTable, StepsOf, Capacity
<1>2. CASE caps = {}
  BY <1>2 DEF EffectiveCapacity, NULL, Capacity
<1>3. CASE caps # {}
  <2>1. Min(caps) \in caps
    <3> HIDE DEF caps
    <3> QED BY <1>1, <1>3, MinNat
  <2>2. QED
    BY <1>1, <1>3, <2>1 DEF EffectiveCapacity
<1>4. QED
  BY <1>2, <1>3

(* The allocations of a table are finitely many, so their sums are natural *)
(* numbers, before and after a step.                                       *)
LEMMA AllocationsFinite ==
  ASSUME NEW a, IsTable(a, AllocKeys, Quantity)
  PROVE  IsFiniteSet(DOMAIN a) /\ \A r \in DOMAIN a : a[r] \in 0 .. MaxUnits
<1>1. IsFiniteSet(OrderIds) /\ IsFiniteSet(JobIds)
  BY FS_Interval DEF OrderIds, JobIds
<1>2. IsFiniteSet(AllocKeys)
  BY <1>1, FS_Product DEF AllocKeys, Lines
<1>3. QED
  BY <1>2, FS_Subset DEF IsTable, Quantity

(* Any rows of the allocations are finitely many and sum to a number.      *)
LEMMA AllocationTotalType ==
  ASSUME NEW a, IsTable(a, AllocKeys, Quantity), NEW S \in SUBSET DOMAIN a
  PROVE  IsFiniteSet(S) /\ Total(S, a) \in Nat
<1>1. IsFiniteSet(S)
  BY AllocationsFinite, FS_Subset
<1>2. QED
  BY <1>1, AllocationsFinite, TotalType

(* What a job has allocated is a number.                                   *)
LEMMA AllocatedType ==
  ASSUME TypeOK, NEW j
  PROVE  Allocated(j) \in Nat
BY AllocationTotalType DEF Allocated, AllocationsOf, TypeOK

-------------------------------------------------------------------------------

(* What packing computes: spaces and shares of pending jobs lie between    *)
(* zero and the capacity, and so do the units of a new batch.              *)
LEMMA SpaceType ==
  ASSUME TypeOK, NEW p, NEW j \in PendingJobs(p)
  PROVE  /\ Space(p)[j] \in Capacity
         /\ Space(p)[j] > 0 => Space(p)[j] = EffectiveCapacity(p) - Allocated(j)
BY CapacityType, AllocatedType DEF Space, Positive, Capacity

(* The pending jobs of a pipeline are finitely many job ids.               *)
LEMMA PendingFinite ==
  ASSUME TypeOK, NEW p
  PROVE  PendingJobs(p) \subseteq JobIds /\ IsFiniteSet(PendingJobs(p))
<1>1. IsFiniteSet(JobIds)
  BY FS_Interval DEF JobIds
<1>2. PendingJobs(p) \subseteq JobIds
  BY DEF PendingJobs, JobsUsing, TypeOK, IsTable
<1>3. QED
  BY <1>1, <1>2, FS_Subset

(* The space of any of the pending jobs sums to a number.                  *)
LEMMA SpaceTotalType ==
  ASSUME TypeOK, NEW p, NEW S \in SUBSET PendingJobs(p)
  PROVE  Total(S, Space(p)) \in Nat
<1>1. IsFiniteSet(S)
  BY PendingFinite, FS_Subset
<1>2. \A x \in S : Space(p)[x] \in 0 .. MaxCapacity
  BY SpaceType DEF Capacity
<1>3. QED
  BY <1>1, <1>2, TotalType

(* A pending job is never given more than the space it has.                *)
LEMMA PackedType ==
  ASSUME TypeOK, NEW p, NEW need \in Nat, NEW j \in PendingJobs(p)
  PROVE  /\ Packed(p, need, j) \in Capacity
         /\ Packed(p, need, j) <= Space(p)[j]
<1>1. SpaceBefore(p, j) \in Nat
  BY SpaceTotalType DEF SpaceBefore
<1>2. Space(p)[j] \in Capacity
  BY SpaceType
<1>3. QED
  BY <1>1, <1>2 DEF Packed, Lesser, Positive, Capacity

(* The pending jobs never take more than the line needs.                   *)
LEMMA LeftoverType ==
  ASSUME TypeOK, NEW p, NEW need \in Nat
  PROVE  Leftover(p, need) \in Nat /\ Leftover(p, need) <= need
<1>1. Total(PendingJobs(p), Space(p)) \in Nat
  BY SpaceTotalType
<1>2. QED
  BY <1>1 DEF Leftover, Positive

(* Dividing a number by a positive one does not make it larger.            *)
LEMMA DivBound ==
  ASSUME NEW x \in Nat, NEW c \in Nat \ {0}
  PROVE  x \div c \in 0 .. x
OBVIOUS

(* A line opens a bounded number of new batches.                           *)
LEMMA BatchCountType ==
  ASSUME TypeOK, NEW p, EffectiveCapacity(p) # NULL, NEW need \in Quantity
  PROVE  BatchCount(p, need) \in 0 .. MaxUnits + MaxCapacity
<1>1. EffectiveCapacity(p) \in 1 .. MaxCapacity
  BY CapacityType DEF Capacity, NULL
<1>2. Leftover(p, need) \in 0 .. MaxUnits
  BY LeftoverType DEF Quantity
<1>3. Leftover(p, need) + EffectiveCapacity(p) - 1 \in 0 .. MaxUnits + MaxCapacity
  BY <1>1, <1>2
<1>4. BatchCount(p, need) \in 0 .. Leftover(p, need) + EffectiveCapacity(p) - 1
  BY <1>1, <1>3, DivBound DEF BatchCount
<1>5. QED
  BY <1>3, <1>4

(* The pipeline that serves a type makes it and has a capacity.            *)
LEMMA ServedPipeline ==
  ASSUME TypeOK, NEW t, Servable(t)
  PROVE  /\ PipelineOf(t) \in DOMAIN pipelines
         /\ PipelineOf(t) \in Pipelines
         /\ pipelines[PipelineOf(t)] = t
         /\ EffectiveCapacity(PipelineOf(t)) \in 1 .. MaxCapacity
<1>1. PICK p \in DOMAIN pipelines : pipelines[p] = t /\ EffectiveCapacity(p) # NULL
  BY DEF Servable
<1>2. PipelineOf(t) \in DOMAIN pipelines /\ pipelines[PipelineOf(t)] = t
  BY <1>1 DEF PipelineOf
<1>3. PipelineOf(t) = p
  BY <1>1, <1>2 DEF TypeOK, IsInjective
<1>4. EffectiveCapacity(p) \in 1 .. MaxCapacity
  BY <1>1, CapacityType DEF Capacity, NULL
<1>5. QED
  BY <1>2, <1>3, <1>4 DEF TypeOK, IsTable

(* What the lines of a request look like.                                  *)
IsRequest(need) ==
  DOMAIN need \subseteq ProductTypes /\ need \in [DOMAIN need -> Quantity]

(* The lines an order gets packed are finitely many of its own.            *)
LEMMA ServedRequest ==
  ASSUME TypeOK, NEW need, IsRequest(need)
  PROVE  /\ IsFiniteSet(Served(need))
         /\ Served(need) \subseteq ProductTypes
         /\ \A t \in Served(need) : Servable(t) /\ need[t] \in Quantity
<1>1. Served(need) \subseteq ProductTypes
  BY DEF Served, IsRequest
<1>2. IsFiniteSet(Served(need))
  BY <1>1, FS_Subset
<1>3. QED
  BY <1>1, <1>2 DEF Served, IsRequest

(* The batches of an order get ids no job has had below the highest row.   *)
LEMMA FirstIdFresh ==
  ASSUME TypeOK, NEW need, IsRequest(need), NEW rank, NEW t
  PROVE  /\ FirstId(need, rank, t) \in Nat
         /\ \A j \in DOMAIN jobs : j < FirstId(need, rank, t)
<1> DEFINE before == {u \in Served(need) : rank[u] < rank[t]}
<1>1. IsFiniteSet(before)
  BY ServedRequest, FS_Subset
<1>2. ASSUME NEW u \in Served(need)
      PROVE  Batches(need)[u] \in 0 .. MaxUnits + MaxCapacity
  <2>1. Servable(u) /\ need[u] \in Quantity
    BY ServedRequest
  <2>2. EffectiveCapacity(PipelineOf(u)) # NULL
    BY <2>1, ServedPipeline DEF NULL
  <2>3. QED
    BY <2>1, <2>2, BatchCountType DEF Batches
<1>3. Total(before, Batches(need)) \in Nat
  <2>1. \A u \in before : Batches(need)[u] \in 0 .. MaxUnits + MaxCapacity
    BY <1>2
  <2> HIDE DEF before
  <2>2. QED
    BY <1>1, <2>1, TotalType
<1>4. /\ NextId(DOMAIN jobs) \in Nat
      /\ \A j \in DOMAIN jobs : j < NextId(DOMAIN jobs) /\ j \in Nat
  BY NextIdFresh DEF TypeOK, IsTable, JobIds
<1>5. FirstId(need, rank, t) = NextId(DOMAIN jobs) + Total(before, Batches(need))
  BY DEF FirstId
<1> HIDE DEF before
<1>6. QED
  BY <1>3, <1>4, <1>5

(* The jobs an order inserts are new, pending rows of the pipeline that    *)
(* serves their type.                                                      *)
LEMMA NewJobsType ==
  ASSUME TypeOK, NEW need, IsRequest(need), NEW rank,
         NEW j \in DOMAIN NewJobs(need, rank)
  PROVE  /\ j \in JobIds \ DOMAIN jobs
         /\ NewJobs(need, rank)[j] \in JobRow
         /\ NewJobs(need, rank)[j].productType \in Served(need)
         /\ NewJobs(need, rank)[j].pipeline =
              PipelineOf(NewJobs(need, rank)[j].productType)
         /\ NewJobs(need, rank)[j].quantity <=
              EffectiveCapacity(NewJobs(need, rank)[j].pipeline)
         /\ Leftover(NewJobs(need, rank)[j].pipeline,
                     need[NewJobs(need, rank)[j].productType]) > 0
<1> DEFINE t == CHOOSE u \in Served(need) : j \in BatchIds(need, rank, u)
           p == PipelineOf(t)
           first == FirstId(need, rank, t)
           new == NewJobs(need, rank)
<1>1. t \in Served(need) /\ j \in BatchIds(need, rank, t)
  BY DEF NewJobs
<1>2. new[j] = [pipeline |-> p, productType |-> t,
                quantity |-> Batch(p, need[t], j - first), status |-> "pending"]
  BY DEF NewJobs
<1> HIDE DEF t, new
<1>3. /\ t \in ProductTypes /\ need[t] \in Quantity
      /\ p \in Pipelines /\ EffectiveCapacity(p) \in 1 .. MaxCapacity
  BY <1>1, ServedRequest, ServedPipeline
<1> HIDE DEF p
<1>4. first \in Nat /\ \A i \in DOMAIN jobs : i < first
  BY FirstIdFresh
<1>5. j \in JobIds /\ first <= j
      /\ (j - first) * EffectiveCapacity(p) < Leftover(p, need[t])
  BY <1>1 DEF BatchIds, p
<1>6. Leftover(p, need[t]) \in Nat
  BY <1>3, LeftoverType DEF Quantity
<1> HIDE DEF first
<1>7. (j - first) * EffectiveCapacity(p) \in Int
  BY <1>3, <1>4, <1>5 DEF JobIds
<1>8. /\ Batch(p, need[t], j - first) \in 1 .. MaxCapacity
      /\ Batch(p, need[t], j - first) <= EffectiveCapacity(p)
  BY <1>3, <1>5, <1>6, <1>7 DEF Batch, Lesser
<1>9. j \notin DOMAIN jobs
  BY <1>4, <1>5 DEF JobIds
<1>10. Batch(p, need[t], j - first) \in Quantity
  BY <1>8 DEF Quantity
<1>11. new[j] \in JobRow
  BY <1>2, <1>3, <1>10 DEF JobRow, Status
<1>12. Leftover(p, need[t]) > 0
  <2>1. (j - first) * EffectiveCapacity(p) >= 0
    BY <1>3, <1>4, <1>5 DEF JobIds
  <2>2. QED
    BY <1>5, <1>6, <1>7, <2>1
<1>13. QED
  BY <1>1, <1>2, <1>5, <1>8, <1>9, <1>11, <1>12 DEF new, p

(* Packing never grows a job beyond the capacity it is packed to.          *)
LEMMA GrowByType ==
  ASSUME TypeOK, NEW need, IsRequest(need), NEW j \in DOMAIN jobs
  PROVE  /\ GrowBy(need, j) \in Nat
         /\ jobs[j].quantity + GrowBy(need, j) \in Quantity
         /\ GrowBy(need, j) > 0
              => /\ j \in PendingJobs(jobs[j].pipeline)
                 /\ jobs[j].quantity + GrowBy(need, j)
                      <= EffectiveCapacity(jobs[j].pipeline)
<1> DEFINE p == jobs[j].pipeline
           t == pipelines[p]
           toAdd == Packed(p, need[t], j)
<1>1. jobs[j].quantity \in Quantity
  BY DEF TypeOK, IsTable, JobRow
<1>2. CASE t \in Served(need) /\ j \in PendingJobs(p) /\ toAdd > 0
  <2>1. GrowBy(need, j) = Positive(Allocated(j) + toAdd - jobs[j].quantity)
    BY <1>2 DEF GrowBy
  <2> HIDE DEF p
  <2>2. need[t] \in Nat
    BY <1>2, ServedRequest DEF Quantity
  <2> HIDE DEF t
  <2>3. toAdd \in Nat /\ toAdd <= Space(p)[j]
    BY <1>2, <2>2, PackedType DEF Capacity
  <2> HIDE DEF toAdd
  <2>4. Space(p)[j] \in Capacity
        /\ (Space(p)[j] > 0 => Space(p)[j] = EffectiveCapacity(p) - Allocated(j))
    BY <1>2, SpaceType
  <2>5. EffectiveCapacity(p) \in Capacity /\ Allocated(j) \in Nat
    BY CapacityType, AllocatedType
  <2>6. /\ Allocated(j) + toAdd \in 0 .. MaxCapacity
        /\ Allocated(j) + toAdd <= EffectiveCapacity(p)
    BY <1>2, <2>3, <2>4, <2>5 DEF Capacity
  <2>7. QED
    BY <1>1, <1>2, <2>1, <2>3, <2>5, <2>6 DEF Positive, Quantity, p
<1>3. CASE ~ (t \in Served(need) /\ j \in PendingJobs(p) /\ toAdd > 0)
  <2>1. GrowBy(need, j) = 0
    BY <1>3 DEF GrowBy
  <2>2. QED
    BY <1>1, <2>1 DEF Quantity
<1>4. QED
  BY <1>2, <1>3

(* A share is a number of units of one job.                                *)
LEMMA ShareType ==
  ASSUME TypeOK, NEW need, IsRequest(need), NEW rank,
         NEW t \in Served(need), NEW j, Share(need, NewJobs(need, rank), t, j) > 0
  PROVE  Share(need, NewJobs(need, rank), t, j) \in Quantity
<1> DEFINE new == NewJobs(need, rank)
<1>1. CASE j \in PendingJobs(PipelineOf(t))
  <2>1. need[t] \in Nat
    BY ServedRequest DEF Quantity
  <2>2. j \notin DOMAIN new
    BY <1>1, NewJobsType DEF PendingJobs, JobsUsing
  <2>3. Share(need, new, t, j) = Packed(PipelineOf(t), need[t], j)
    BY <1>1, <2>2 DEF Share
  <2>4. Packed(PipelineOf(t), need[t], j) \in Capacity
    BY <1>1, <2>1, PackedType
  <2>5. QED
    BY <2>3, <2>4 DEF Capacity, Quantity
<1>2. CASE /\ j \notin PendingJobs(PipelineOf(t))
           /\ j \in DOMAIN new /\ new[j].productType = t
  <2>1. Share(need, new, t, j) = new[j].quantity
    BY <1>2 DEF Share
  <2>2. new[j] \in JobRow
    BY <1>2, NewJobsType
  <2>3. QED
    BY <2>1, <2>2 DEF JobRow
<1>3. QED
  BY <1>1, <1>2 DEF Share

-------------------------------------------------------------------------------

(* Type correctness, one lemma for each action that needs an argument.     *)
LEMMA SetStepsType ==
  ASSUME TypeOK, stations' \subseteq Stations, NEW p \in Pipelines,
         NEW st \in StepLists, IsStepList(st), SetSteps(p, st)
  PROVE  IsTable(pipelineSteps', StepKeys, Capacity)
<1>1. DOMAIN st \subseteq Stations /\ \A s \in DOMAIN st : st[s] \in Capacity
  BY DEF StepLists
<1>2. QED
  BY <1>1 DEF TypeOK, IsTable, SetSteps, StepsOf, StepKeys

(* A pipeline row of a free product type keeps the unique index.           *)
LEMMA PipelinesType ==
  ASSUME TypeOK, NEW p \in Pipelines, NEW t \in ProductTypes, TypeFree(p, t)
  PROVE  /\ IsTable(With(pipelines, p, t), Pipelines, ProductTypes)
         /\ IsInjective(With(pipelines, p, t))
BY WithTable DEF TypeOK, TypeFree, With, IsInjective

(* Stations and pipelines keep the schema.                                 *)
LEMMA CatalogKeepsType ==
  ASSUME TypeOK, CatalogNext
  PROVE  TypeOK'
<1> USE DEF TypeOK
<1>1. ASSUME NEW s \in Stations, CreateStation(s)
      PROVE  TypeOK'
  BY <1>1 DEF CreateStation, orderVars
<1>2. ASSUME NEW s \in Stations, DeleteStation(s)
      PROVE  TypeOK'
  BY <1>2 DEF DeleteStation, orderVars
<1>3. ASSUME NEW p \in Pipelines, DeletePipeline(p)
      PROVE  TypeOK'
  BY <1>3, WithoutTable DEF DeletePipeline, orderVars, Without, IsInjective
<1>4. ASSUME NEW p \in Pipelines, NEW t \in ProductTypes, UpdatePipeline(p, t)
      PROVE  TypeOK'
  BY <1>4, PipelinesType DEF UpdatePipeline, orderVars
<1>5. ASSUME NEW p \in Pipelines, NEW st \in StepLists, ReplaceSteps(p, st)
      PROVE  TypeOK'
  BY <1>5, SetStepsType DEF ReplaceSteps, orderVars
<1>6. ASSUME NEW p \in Pipelines, NEW st \in StepLists, NEW t \in ProductTypes,
             CreatePipeline(p, t, st)
      PROVE  TypeOK'
  BY <1>6, PipelinesType, SetStepsType DEF CreatePipeline, orderVars
<1>7. ASSUME NEW p \in Pipelines, NEW st \in StepLists, NEW t \in ProductTypes,
             UpdatePipelineAndReplaceSteps(p, t, st)
      PROVE  TypeOK'
  BY <1>7, PipelinesType, SetStepsType DEF UpdatePipelineAndReplaceSteps, orderVars
<1>8. QED
  BY <1>1, <1>2, <1>3, <1>4, <1>5, <1>6, <1>7 DEF CatalogNext

(* Jobs and manual allocations keep the schema.                            *)
LEMMA JobsKeepType ==
  ASSUME TypeOK, JobsNext
  PROVE  TypeOK'
<1> USE DEF TypeOK
<1>1. ASSUME NEW p \in Pipelines, NEW q \in Quantity, CreateJob(p, q)
      PROVE  TypeOK'
  <2>1. NextJobId \in JobIds
    BY <1>1, NextIdFresh DEF CreateJob, NextJobId, IsTable, JobIds
  <2>2. pipelines[p] \in ProductTypes
    BY <1>1 DEF CreateJob, IsTable
  <2>3. [pipeline |-> p, productType |-> pipelines[p],
         quantity |-> q, status |-> "pending"] \in JobRow
    BY <2>2 DEF JobRow, Status
  <2>4. QED
    BY <1>1, <2>1, <2>3, WithTable DEF CreateJob, catalogVars, orderVars
<1>2. ASSUME NEW j \in JobIds, NEW force, DeleteJob(j, force)
      PROVE  TypeOK'
  BY <1>2, WithoutTable DEF DeleteJob, catalogVars
<1>3. ASSUME NEW j \in JobIds, NEW l \in Lines, NEW q \in Quantity, AddAllocation(j, l, q)
      PROVE  TypeOK'
  BY <1>3, WithTable DEF AddAllocation, catalogVars, AllocKeys
<1>4. ASSUME NEW r \in AllocKeys, RemoveAllocation(r)
      PROVE  TypeOK'
  BY <1>4, WithoutTable DEF RemoveAllocation, catalogVars
<1>5. QED
  BY <1>1, <1>2, <1>3, <1>4 DEF JobsNext

(* Tracking events keep the schema.                                        *)
LEMMA EventsKeepType ==
  ASSUME TypeOK, EventsNext
  PROVE  TypeOK'
<1> USE DEF TypeOK
<1>1. ASSUME NEW j \in JobIds, NEW s \in Stations, NEW phase \in Phases,
             InsertEvent(j, s, phase)
      PROVE  departures' \subseteq JobIds \X Stations
  BY <1>1 DEF InsertEvent
<1>2. ASSUME NEW j \in JobIds, NEW s \in Stations, NEW phase \in Phases,
             CreateEvent(j, s, phase)
      PROVE  TypeOK'
  <2>1. j \in DOMAIN jobs => NextStatus(j, departures') \in Status
    BY DEF NextStatus, Status, IsTable, JobRow
  <2>2. IsTable(jobs', JobIds, JobRow)
    BY <1>2, <2>1 DEF CreateEvent, IsTable, JobRow
  <2>3. QED
    BY <1>1, <1>2, <2>2 DEF CreateEvent, catalogVars, orderVars
<1>3. ASSUME NEW j \in JobIds, NEW s \in Stations, NEW phase \in Phases,
             CrashInCreateEvent(j, s, phase)
      PROVE  TypeOK'
  BY <1>1, <1>3 DEF CrashInCreateEvent, catalogVars, orderVars
<1>4. QED
  BY <1>2, <1>3 DEF EventsNext

(* A new order keeps the schema: its rows, the jobs it grows and the       *)
(* batches it opens.                                                       *)
LEMMA CreateOrderKeepsType ==
  ASSUME TypeOK, NEW need, IsRequest(need), NEW rank, CreateOrder(need, rank)
  PROVE  TypeOK'
<1> DEFINE o == NextId(customerOrders)
           asked == {o} \X DOMAIN need
           new == NewJobs(need, rank)
           added == {r \in (({o} \X Served(need)) \X JobIds) :
                       Share(need, new, r[1][2], r[2]) > 0}
<1>1. o \in OrderIds
  <2>1. o \in Nat \ {0}
    BY NextIdFresh DEF TypeOK, OrderIds
  <2>2. QED
    BY <2>1 DEF CreateOrder, OrderIds
<1>2. customerOrders' \subseteq OrderIds
  BY <1>1 DEF CreateOrder, TypeOK
<1>3. IsTable(orderLines', Lines, Quantity)
  <2>1. orderLines' = [l \in DOMAIN orderLines \cup asked |->
                         IF l \in asked THEN need[l[2]] ELSE orderLines[l]]
    BY DEF CreateOrder
  <2> HIDE DEF o
  <2>2. asked \subseteq Lines /\ \A l \in asked : need[l[2]] \in Quantity
    BY <1>1 DEF IsRequest, Lines
  <2> HIDE DEF asked
  <2>3. QED
    BY <2>1, <2>2 DEF IsTable, TypeOK
<1>4. IsTable(jobs', JobIds, JobRow)
  <2>1. jobs' = [j \in DOMAIN jobs \cup DOMAIN new |->
                   IF j \in DOMAIN new THEN new[j]
                   ELSE [jobs[j] EXCEPT !.quantity = @ + GrowBy(need, j)]]
    BY DEF CreateOrder
  <2>2. \A j \in DOMAIN new : j \in JobIds /\ new[j] \in JobRow
    BY NewJobsType
  <2> HIDE DEF new
  <2>3. ASSUME NEW j \in DOMAIN jobs
        PROVE  [jobs[j] EXCEPT !.quantity = @ + GrowBy(need, j)] \in JobRow
    BY GrowByType DEF TypeOK, IsTable, JobRow
  <2>4. QED
    BY <2>1, <2>2, <2>3 DEF IsTable, TypeOK
<1>5. IsTable(allocations', AllocKeys, Quantity)
  <2>1. allocations' = [r \in DOMAIN allocations \cup added |->
                          IF r \in added THEN Share(need, new, r[1][2], r[2])
                          ELSE allocations[r]]
    BY DEF CreateOrder
  <2>2. added \subseteq AllocKeys
    BY <1>1, ServedRequest DEF AllocKeys, Lines
  <2>3. \A r \in added : Share(need, new, r[1][2], r[2]) \in Quantity
    BY ShareType
  <2> HIDE DEF added, new
  <2>4. QED
    BY <2>1, <2>2, <2>3 DEF IsTable, TypeOK
<1>6. UNCHANGED <<stations, pipelines, pipelineSteps, departures>>
  BY DEF CreateOrder, catalogVars
<1>7. QED
  BY <1>2, <1>3, <1>4, <1>5, <1>6 DEF TypeOK

(* The floor of deleteOrderTx: a shared job keeps one unit at least.       *)
LEMMA SafeDeltaType ==
  ASSUME TypeOK, NEW o, NEW j \in DOMAIN jobs
  PROVE  /\ Delta(o, j) \in Nat
         /\ SafeDelta(o, j) \in Nat
         /\ SafeDelta(o, j) <= jobs[j].quantity - 1
<1>1. Delta(o, j) \in Nat
  BY AllocationTotalType DEF Delta, AllocationsOfOrder, TypeOK
<1>2. jobs[j].quantity \in Quantity
  BY DEF TypeOK, IsTable, JobRow
<1>3. QED
  BY <1>1, <1>2 DEF SafeDelta, Lesser, Quantity

(* Deleting an order keeps the schema: a shrunk job keeps one unit.        *)
LEMMA DeleteOrderKeepsType ==
  ASSUME TypeOK, NEW o \in OrderIds, DeleteOrder(o)
  PROVE  TypeOK'
<1>1. ASSUME NEW j \in DOMAIN jobs
      PROVE  [jobs[j] EXCEPT !.quantity = @ - SafeDelta(o, j)] \in JobRow
  BY SafeDeltaType DEF TypeOK, IsTable, JobRow, Quantity
<1>2. IsTable(jobs', JobIds, JobRow)
  BY <1>1 DEF DeleteOrder, TypeOK, IsTable
<1>3. QED
  BY <1>2, WithoutTable DEF DeleteOrder, TypeOK, catalogVars

(* Orders keep the schema.                                                 *)
LEMMA OrdersKeepType ==
  ASSUME TypeOK, OrdersNext
  PROVE  TypeOK'
<1>1. ASSUME NEW T \in SUBSET ProductTypes, NEW need \in [T -> Quantity]
      PROVE  IsRequest(need)
  BY DEF IsRequest
<1>2. QED
  BY <1>1, CreateOrderKeepsType, DeleteOrderKeepsType DEF OrdersNext

(* The empty database has the schema.                                      *)
LEMMA InitType ==
  ASSUME Init
  PROVE  TypeOK
BY DEF Init, TypeOK, EmptyTable, IsTable, IsInjective

(* Every row of every table stays within its schema.                       *)
THEOREM TypeCorrect == Spec => []TypeOK
<1>1. Init => TypeOK
  BY InitType
<1>2. TypeOK /\ [Next]_vars => TypeOK'
  <2> SUFFICES ASSUME TypeOK, [Next]_vars
               PROVE  TypeOK'
    OBVIOUS
  <2>1. CASE CatalogNext
    BY <2>1, CatalogKeepsType
  <2>2. CASE JobsNext
    BY <2>2, JobsKeepType
  <2>3. CASE EventsNext
    BY <2>3, EventsKeepType
  <2>4. CASE OrdersNext
    BY <2>4, OrdersKeepType
  <2>5. CASE UNCHANGED vars
    BY <2>5 DEF vars, TypeOK
  <2>6. QED
    BY <2>1, <2>2, <2>3, <2>4, <2>5 DEF Next
<1>3. QED
  BY <1>1, <1>2, PTL DEF Spec

-------------------------------------------------------------------------------

(* Requests that only change the catalogue of stations and pipelines.      *)
LEMMA CatalogFrame ==
  ASSUME CatalogNext
  PROVE  UNCHANGED <<jobs, orderVars>>
BY DEF CatalogNext, CreateStation, DeleteStation, DeletePipeline, UpdatePipeline,
       ReplaceSteps, CreatePipeline, UpdatePipelineAndReplaceSteps

(* An event changes the status of a job and no other column of any row.    *)
LEMMA EventsFrame ==
  ASSUME TypeOK, EventsNext
  PROVE  /\ UNCHANGED <<catalogVars, orderVars>>
         /\ DOMAIN jobs' = DOMAIN jobs
         /\ \A j \in DOMAIN jobs : /\ jobs'[j].pipeline = jobs[j].pipeline
                                   /\ jobs'[j].productType = jobs[j].productType
                                   /\ jobs'[j].quantity = jobs[j].quantity
<1>1. ASSUME NEW j \in JobIds, NEW s \in Stations, NEW phase \in Phases,
             CreateEvent(j, s, phase)
      PROVE  /\ DOMAIN jobs' = DOMAIN jobs
             /\ \A i \in DOMAIN jobs : /\ jobs'[i].pipeline = jobs[i].pipeline
                                       /\ jobs'[i].productType = jobs[i].productType
                                       /\ jobs'[i].quantity = jobs[i].quantity
  BY <1>1 DEF CreateEvent, TypeOK, IsTable, JobRow
<1>2. QED
  BY <1>1 DEF EventsNext, CreateEvent, CrashInCreateEvent

-------------------------------------------------------------------------------

(* Stations and pipelines keep every reference.                            *)
LEMMA CatalogKeepsReferences ==
  ASSUME TypeOK, ReferencesExist, CatalogNext
  PROVE  ReferencesExist'
<1> USE DEF ReferencesExist
<1>1. ASSUME NEW s \in Stations, CreateStation(s)
      PROVE  ReferencesExist'
  BY <1>1 DEF CreateStation, orderVars
<1>2. ASSUME NEW s \in Stations, DeleteStation(s)
      PROVE  ReferencesExist'
  BY <1>2 DEF DeleteStation, orderVars
<1>3. ASSUME NEW p \in Pipelines, DeletePipeline(p)
      PROVE  ReferencesExist'
  BY <1>3 DEF DeletePipeline, orderVars, Without, StepsOf, JobsUsing
<1>4. ASSUME NEW p \in Pipelines, NEW st, IsStepList(st), SetSteps(p, st),
             p \in DOMAIN pipelines', DOMAIN pipelines \subseteq DOMAIN pipelines',
             UNCHANGED stations
      PROVE  \A r \in DOMAIN pipelineSteps' :
               r[1] \in DOMAIN pipelines' /\ r[2] \in stations'
  BY <1>4 DEF SetSteps, IsStepList
<1>5. ASSUME NEW p \in Pipelines, NEW t \in ProductTypes, UpdatePipeline(p, t)
      PROVE  ReferencesExist'
  BY <1>5 DEF UpdatePipeline, orderVars, With
<1>6. ASSUME NEW p \in Pipelines, NEW st \in StepLists, ReplaceSteps(p, st)
      PROVE  ReferencesExist'
  BY <1>4, <1>6 DEF ReplaceSteps, orderVars
<1>7. ASSUME NEW p \in Pipelines, NEW st \in StepLists, NEW t \in ProductTypes,
             CreatePipeline(p, t, st)
      PROVE  ReferencesExist'
  BY <1>4, <1>7 DEF CreatePipeline, orderVars, With
<1>8. ASSUME NEW p \in Pipelines, NEW st \in StepLists, NEW t \in ProductTypes,
             UpdatePipelineAndReplaceSteps(p, t, st)
      PROVE  ReferencesExist'
  BY <1>4, <1>8 DEF UpdatePipelineAndReplaceSteps, orderVars, With
<1>9. QED
  BY <1>1, <1>2, <1>3, <1>5, <1>6, <1>7, <1>8 DEF CatalogNext

(* Jobs and manual allocations keep every reference.                       *)
LEMMA JobsKeepReferences ==
  ASSUME ReferencesExist, JobsNext
  PROVE  ReferencesExist'
<1> USE DEF ReferencesExist
<1>1. ASSUME NEW p \in Pipelines, NEW q \in Quantity, CreateJob(p, q)
      PROVE  ReferencesExist'
  BY <1>1 DEF CreateJob, catalogVars, orderVars, With
<1>2. ASSUME NEW j \in JobIds, NEW force, DeleteJob(j, force)
      PROVE  ReferencesExist'
  BY <1>2 DEF DeleteJob, catalogVars, Without, AllocationsOf
<1>3. ASSUME NEW j \in JobIds, NEW l \in Lines, NEW q \in Quantity, AddAllocation(j, l, q)
      PROVE  ReferencesExist'
  BY <1>3 DEF AddAllocation, catalogVars, With
<1>4. ASSUME NEW r \in AllocKeys, RemoveAllocation(r)
      PROVE  ReferencesExist'
  BY <1>4 DEF RemoveAllocation, catalogVars, Without
<1>5. QED
  BY <1>1, <1>2, <1>3, <1>4 DEF JobsNext

(* Tracking events keep every reference.                                   *)
LEMMA EventsKeepReferences ==
  ASSUME TypeOK, ReferencesExist, EventsNext
  PROVE  ReferencesExist'
<1>1. \A d \in departures' : d \in departures \/ d[2] \in stations
  BY DEF EventsNext, CreateEvent, CrashInCreateEvent, InsertEvent
<1>2. QED
  BY <1>1, EventsFrame DEF ReferencesExist, catalogVars, orderVars

(* Every share of a new order comes from a job that is there afterwards.   *)
LEMMA ShareFromJob ==
  ASSUME TypeOK, NEW need, IsRequest(need), NEW rank, NEW t \in Served(need), NEW j,
         Share(need, NewJobs(need, rank), t, j) > 0
  PROVE  \/ /\ j \in PendingJobs(PipelineOf(t))
            /\ j \in DOMAIN jobs \ DOMAIN NewJobs(need, rank)
            /\ Share(need, NewJobs(need, rank), t, j) = Packed(PipelineOf(t), need[t], j)
         \/ /\ j \in DOMAIN NewJobs(need, rank)
            /\ j \notin DOMAIN jobs
            /\ NewJobs(need, rank)[j].productType = t
            /\ Share(need, NewJobs(need, rank), t, j) = NewJobs(need, rank)[j].quantity
<1> DEFINE new == NewJobs(need, rank)
<1>1. j \in PendingJobs(PipelineOf(t)) => j \in DOMAIN jobs
  BY DEF PendingJobs, JobsUsing
<1>2. j \in DOMAIN new => j \notin DOMAIN jobs
  BY NewJobsType
<1> HIDE DEF new
<1>3. CASE j \in PendingJobs(PipelineOf(t))
  BY <1>1, <1>2, <1>3 DEF Share, new
<1>4. CASE j \notin PendingJobs(PipelineOf(t))
  BY <1>2, <1>4 DEF Share, new
<1>5. QED
  BY <1>3, <1>4

(* A new order refers to its own lines and to jobs that exist or that it   *)
(* opens.                                                                  *)
LEMMA CreateOrderKeepsReferences ==
  ASSUME TypeOK, ReferencesExist, NEW need, IsRequest(need), NEW rank,
         CreateOrder(need, rank)
  PROVE  ReferencesExist'
<1> DEFINE o == NextId(customerOrders)
           asked == {o} \X DOMAIN need
           new == NewJobs(need, rank)
           added == {r \in (({o} \X Served(need)) \X JobIds) :
                       Share(need, new, r[1][2], r[2]) > 0}
<1>1. /\ customerOrders' = customerOrders \cup {o}
      /\ DOMAIN orderLines' = DOMAIN orderLines \cup asked
      /\ DOMAIN jobs' = DOMAIN jobs \cup DOMAIN new
      /\ DOMAIN allocations' = DOMAIN allocations \cup added
      /\ UNCHANGED <<catalogVars, departures>>
  BY DEF CreateOrder
<1>2. ASSUME NEW j \in DOMAIN jobs'
      PROVE  jobs'[j].pipeline \in DOMAIN pipelines
  <2>1. CASE j \in DOMAIN new
    <3>1. jobs'[j] = new[j]
      BY <2>1 DEF CreateOrder
    <3>2. new[j].productType \in Served(need) /\ new[j].pipeline = PipelineOf(new[j].productType)
      BY <2>1, NewJobsType
    <3>3. Servable(new[j].productType)
      BY <3>2, ServedRequest
    <3>4. QED
      BY <3>1, <3>2, <3>3, ServedPipeline
  <2>2. CASE j \notin DOMAIN new
    <3>1. j \in DOMAIN jobs
      BY <1>1, <2>2
    <3>2. jobs'[j] = [jobs[j] EXCEPT !.quantity = @ + GrowBy(need, j)]
      BY <2>2, <3>1 DEF CreateOrder
    <3>3. jobs'[j].pipeline = jobs[j].pipeline
      BY <3>1, <3>2 DEF TypeOK, IsTable, JobRow
    <3>4. QED
      BY <3>1, <3>3 DEF ReferencesExist
  <2>3. QED
    BY <2>1, <2>2
<1>3. ASSUME NEW r \in added
      PROVE  r[1] \in asked /\ r[2] \in DOMAIN jobs'
  <2>1. r[1] \in asked
    BY DEF Served
  <2>2. r[1][2] \in Served(need) /\ Share(need, new, r[1][2], r[2]) > 0
    OBVIOUS
  <2>3. r[2] \in DOMAIN jobs \cup DOMAIN new
    BY <2>2, ShareFromJob
  <2>4. QED
    BY <1>1, <2>1, <2>3
<1> HIDE DEF o, new, added
<1>4. QED
  BY <1>1, <1>2, <1>3 DEF ReferencesExist, catalogVars

(* Deleting an order leaves no allocation to its lines or to the jobs it   *)
(* deletes.                                                                *)
LEMMA DeleteOrderKeepsReferences ==
  ASSUME TypeOK, ReferencesExist, NEW o \in OrderIds, DeleteOrder(o)
  PROVE  ReferencesExist'
<1>1. /\ DOMAIN jobs' = DOMAIN jobs \ Doomed(o)
      /\ \A j \in DOMAIN jobs' : jobs'[j].pipeline = jobs[j].pipeline
  BY DEF DeleteOrder, TypeOK, IsTable, JobRow
<1>2. ASSUME NEW r \in DOMAIN allocations \ AllocationsOfOrder(o)
      PROVE  r[2] \notin Doomed(o)
  BY DEF Doomed, AllocationsOf
<1>3. QED
  BY <1>1, <1>2 DEF DeleteOrder, ReferencesExist, Without, AllocationsOfOrder, catalogVars

(* Rows that are referred to exist.                                        *)
THEOREM ReferencesHold == Spec => []ReferencesExist
<1>1. Init => ReferencesExist
  BY DEF Init, ReferencesExist, EmptyTable
<1>2. TypeOK /\ ReferencesExist /\ [Next]_vars => ReferencesExist'
  <2> SUFFICES ASSUME TypeOK, ReferencesExist, [Next]_vars
               PROVE  ReferencesExist'
    OBVIOUS
  <2>1. CASE CatalogNext
    BY <2>1, CatalogKeepsReferences
  <2>2. CASE JobsNext
    BY <2>2, JobsKeepReferences
  <2>3. CASE EventsNext
    BY <2>3, EventsKeepReferences
  <2>4. CASE OrdersNext
    <3>1. ASSUME NEW T \in SUBSET ProductTypes, NEW need \in [T -> Quantity]
          PROVE  IsRequest(need)
      BY DEF IsRequest
    <3>2. QED
      BY <2>4, <3>1, CreateOrderKeepsReferences, DeleteOrderKeepsReferences DEF OrdersNext
  <2>5. CASE UNCHANGED vars
    BY <2>5 DEF vars, ReferencesExist
  <2>6. QED
    BY <2>1, <2>2, <2>3, <2>4, <2>5 DEF Next
<1>3. QED
  BY <1>1, <1>2, TypeCorrect, PTL DEF Spec

-------------------------------------------------------------------------------

(* The id of the next job is not in use.                                   *)
LEMMA NextJobIdFresh ==
  ASSUME TypeOK
  PROVE  NextJobId \notin DOMAIN jobs
<1>1. /\ NextId(DOMAIN jobs) \in Nat
      /\ \A j \in DOMAIN jobs : j < NextId(DOMAIN jobs) /\ j \in Nat
  BY NextIdFresh, BoundsAssumption DEF TypeOK, IsTable, JobIds
<1>2. QED
  BY <1>1 DEF NextJobId

(* A pipeline that a job uses keeps its product type.                      *)
LEMMA CatalogKeepsProductTypes ==
  ASSUME TypeOK, ReferencesExist, ProductTypesAgree, CatalogNext
  PROVE  ProductTypesAgree'
<1>1. ASSUME NEW p \in Pipelines, NEW t, p \in DOMAIN pipelines,
             ProductTypeChangeAllowed(p, t), pipelines' = With(pipelines, p, t),
             NEW j \in DOMAIN jobs
      PROVE  pipelines'[jobs[j].pipeline] = jobs[j].productType
  BY <1>1 DEF ProductTypeChangeAllowed, JobsUsing, With, ProductTypesAgree, ReferencesExist
<1>2. ASSUME NEW p \in Pipelines, NEW t, p \notin DOMAIN pipelines,
             pipelines' = With(pipelines, p, t), NEW j \in DOMAIN jobs
      PROVE  pipelines'[jobs[j].pipeline] = jobs[j].productType
  BY <1>2 DEF With, ProductTypesAgree, ReferencesExist
<1>3. ASSUME NEW p \in Pipelines, DeletePipeline(p), NEW j \in DOMAIN jobs
      PROVE  pipelines'[jobs[j].pipeline] = jobs[j].productType
  BY <1>3 DEF DeletePipeline, JobsUsing, Without, ProductTypesAgree, ReferencesExist
<1>4. \A j \in DOMAIN jobs : pipelines'[jobs[j].pipeline] = jobs[j].productType
  BY <1>1, <1>2, <1>3
     DEF CatalogNext, CreateStation, DeleteStation, UpdatePipeline, ReplaceSteps,
         CreatePipeline, UpdatePipelineAndReplaceSteps, ProductTypesAgree
<1>5. QED
  BY <1>4, CatalogFrame DEF ProductTypesAgree, orderVars

(* Jobs and manual allocations keep the product types in agreement.        *)
LEMMA JobsKeepProductTypes ==
  ASSUME TypeOK, ReferencesExist, ProductTypesAgree, JobsNext
  PROVE  ProductTypesAgree'
<1> USE DEF ProductTypesAgree
<1>1. ASSUME NEW p \in Pipelines, NEW q \in Quantity, CreateJob(p, q)
      PROVE  ProductTypesAgree'
  <2>1. NextJobId \notin DOMAIN jobs
    BY NextJobIdFresh
  <2>2. \A r \in DOMAIN allocations : r[2] \in DOMAIN jobs /\ r[2] # NextJobId
    BY <2>1 DEF ReferencesExist
  <2>3. QED
    BY <1>1, <2>1, <2>2 DEF CreateJob, With, catalogVars, orderVars
<1>2. ASSUME NEW j \in JobIds, NEW force, DeleteJob(j, force)
      PROVE  ProductTypesAgree'
  BY <1>2 DEF DeleteJob, Without, AllocationsOf, catalogVars, ReferencesExist
<1>3. ASSUME NEW j \in JobIds, NEW l \in Lines, NEW q \in Quantity, AddAllocation(j, l, q)
      PROVE  ProductTypesAgree'
  BY <1>3 DEF AddAllocation, With, catalogVars
<1>4. ASSUME NEW r \in AllocKeys, RemoveAllocation(r)
      PROVE  ProductTypesAgree'
  BY <1>4 DEF RemoveAllocation, Without, catalogVars
<1>5. QED
  BY <1>1, <1>2, <1>3, <1>4 DEF JobsNext

(* A new order is packed into jobs of the product types it asks for.       *)
LEMMA CreateOrderKeepsProductTypes ==
  ASSUME TypeOK, ReferencesExist, ProductTypesAgree,
         NEW need, IsRequest(need), NEW rank, CreateOrder(need, rank)
  PROVE  ProductTypesAgree'
<1> DEFINE o == NextId(customerOrders)
           new == NewJobs(need, rank)
           added == {r \in (({o} \X Served(need)) \X JobIds) :
                       Share(need, new, r[1][2], r[2]) > 0}
<1>1. /\ DOMAIN jobs' = DOMAIN jobs \cup DOMAIN new
      /\ DOMAIN allocations' = DOMAIN allocations \cup added
      /\ pipelines' = pipelines
      /\ \A j \in DOMAIN new : jobs'[j] = new[j]
  BY DEF CreateOrder, catalogVars
<1>2. ASSUME NEW j \in DOMAIN jobs
      PROVE  /\ j \notin DOMAIN new
             /\ jobs'[j].pipeline = jobs[j].pipeline
             /\ jobs'[j].productType = jobs[j].productType
  <2>1. j \notin DOMAIN new
    BY NewJobsType
  <2>2. jobs'[j] = [jobs[j] EXCEPT !.quantity = @ + GrowBy(need, j)]
    BY <2>1 DEF CreateOrder
  <2>3. QED
    BY <2>1, <2>2 DEF TypeOK, IsTable, JobRow
<1>3. ASSUME NEW j \in DOMAIN new
      PROVE  /\ new[j].productType \in Served(need)
             /\ new[j].productType = pipelines[new[j].pipeline]
  <2>1. /\ new[j].productType \in Served(need)
        /\ new[j].pipeline = PipelineOf(new[j].productType)
    BY NewJobsType
  <2>2. Servable(new[j].productType)
    BY <2>1, ServedRequest
  <2>3. QED
    BY <2>1, <2>2, ServedPipeline
<1>4. ASSUME NEW r \in added
      PROVE  r[1][2] = jobs'[r[2]].productType
  <2>1. r[1][2] \in Served(need) /\ Share(need, new, r[1][2], r[2]) > 0
    OBVIOUS
  <2>2. CASE r[2] \in PendingJobs(PipelineOf(r[1][2])) /\ r[2] \in DOMAIN jobs
    <3>1. Servable(r[1][2])
      BY <2>1, ServedRequest
    <3>2. pipelines[PipelineOf(r[1][2])] = r[1][2]
      BY <3>1, ServedPipeline
    <3>3. jobs[r[2]].pipeline = PipelineOf(r[1][2])
      BY <2>2 DEF PendingJobs, JobsUsing
    <3>4. QED
      BY <1>2, <2>2, <3>2, <3>3 DEF ProductTypesAgree
  <2>3. CASE r[2] \in DOMAIN new /\ new[r[2]].productType = r[1][2]
    BY <1>1, <2>3
  <2>4. QED
    BY <2>1, <2>2, <2>3, ShareFromJob
<1> HIDE DEF new, added
<1>5. \A j \in DOMAIN jobs' : jobs'[j].productType = pipelines'[jobs'[j].pipeline]
  BY <1>1, <1>2, <1>3 DEF ProductTypesAgree
<1>6. ASSUME NEW r \in DOMAIN allocations
      PROVE  r[1][2] = jobs'[r[2]].productType
  <2>1. r[2] \in DOMAIN jobs
    BY DEF ReferencesExist
  <2>2. QED
    BY <1>2, <2>1 DEF ProductTypesAgree
<1>7. QED
  BY <1>1, <1>4, <1>5, <1>6 DEF ProductTypesAgree

(* Deleting an order changes no product type.                              *)
LEMMA DeleteOrderKeepsProductTypes ==
  ASSUME TypeOK, ReferencesExist, ProductTypesAgree, NEW o \in OrderIds, DeleteOrder(o)
  PROVE  ProductTypesAgree'
<1>1. /\ DOMAIN jobs' = DOMAIN jobs \ Doomed(o)
      /\ \A j \in DOMAIN jobs' : /\ jobs'[j].pipeline = jobs[j].pipeline
                                 /\ jobs'[j].productType = jobs[j].productType
  BY DEF DeleteOrder, TypeOK, IsTable, JobRow
<1>2. ASSUME NEW r \in DOMAIN allocations \ AllocationsOfOrder(o)
      PROVE  r[2] \in DOMAIN jobs'
  BY <1>1 DEF Doomed, AllocationsOf, ReferencesExist
<1>3. QED
  BY <1>1, <1>2 DEF DeleteOrder, ProductTypesAgree, Without, catalogVars

(* Product types agree between jobs, their pipelines and the lines they    *)
(* are allocated to.                                                       *)
THEOREM ProductTypesHold == Spec => []ProductTypesAgree
<1>1. Init => ProductTypesAgree
  BY DEF Init, ProductTypesAgree, EmptyTable
<1>2. TypeOK /\ ReferencesExist /\ ProductTypesAgree /\ [Next]_vars => ProductTypesAgree'
  <2> SUFFICES ASSUME TypeOK, ReferencesExist, ProductTypesAgree, [Next]_vars
               PROVE  ProductTypesAgree'
    OBVIOUS
  <2>1. CASE CatalogNext
    BY <2>1, CatalogKeepsProductTypes
  <2>2. CASE JobsNext
    BY <2>2, JobsKeepProductTypes
  <2>3. CASE EventsNext
    BY <2>3, EventsFrame DEF ProductTypesAgree, ReferencesExist, catalogVars, orderVars
  <2>4. CASE OrdersNext
    <3>1. ASSUME NEW T \in SUBSET ProductTypes, NEW need \in [T -> Quantity]
          PROVE  IsRequest(need)
      BY DEF IsRequest
    <3>2. QED
      BY <2>4, <3>1, CreateOrderKeepsProductTypes, DeleteOrderKeepsProductTypes
         DEF OrdersNext
  <2>5. CASE UNCHANGED vars
    BY <2>5 DEF vars, ProductTypesAgree
  <2>6. QED
    BY <2>1, <2>2, <2>3, <2>4, <2>5 DEF Next
<1>3. QED
  BY <1>1, <1>2, TypeCorrect, ReferencesHold, PTL DEF Spec

-------------------------------------------------------------------------------

(* What the allocations of a job sum to when nothing, fewer rows or more   *)
(* rows are there afterwards.                                              *)
LEMMA SameAllocations ==
  ASSUME allocations' = allocations, NEW j
  PROVE  Allocated(j)' = Allocated(j)
BY DEF Allocated, AllocationsOf

(* Deleting allocations never raises what a job has allocated.             *)
LEMMA FewerAllocations ==
  ASSUME TypeOK, NEW S, allocations' = Without(allocations, S), NEW j
  PROVE  /\ Allocated(j)' = Total(AllocationsOf(j) \ S, allocations)
         /\ Allocated(j)' \in Nat
         /\ Allocated(j)' <= Allocated(j)
<1> DEFINE left == AllocationsOf(j) \ S
<1>1. AllocationsOf(j)' = left
  BY DEF AllocationsOf, Without
<1>2. \A r \in left : allocations'[r] = allocations[r]
  BY DEF AllocationsOf, Without
<1>3. IsFiniteSet(AllocationsOf(j))
      /\ \A r \in AllocationsOf(j) : allocations[r] \in 0 .. MaxUnits
  BY AllocationsFinite, AllocationTotalType DEF AllocationsOf, TypeOK
<1>4. left \in SUBSET AllocationsOf(j)
  OBVIOUS
<1> HIDE DEF left
<1>5. Total(left, allocations') = Total(left, allocations)
  BY <1>2, TotalCongruence
<1>6. Total(left, allocations) <= Total(AllocationsOf(j), allocations)
  BY <1>3, <1>4, TotalMonotone, BoundsAssumption
<1>7. Total(left, allocations) \in Nat
  BY <1>4, AllocationTotalType DEF AllocationsOf, TypeOK
<1>8. QED
  BY <1>1, <1>5, <1>6, <1>7 DEF Allocated, left

(* New allocations add to what a job has allocated.                        *)
LEMMA MoreAllocations ==
  ASSUME TypeOK, TypeOK', NEW A, A \cap DOMAIN allocations = {},
         DOMAIN allocations' = DOMAIN allocations \cup A,
         \A r \in DOMAIN allocations : allocations'[r] = allocations[r],
         NEW j
  PROVE  Allocated(j)' = Allocated(j) + Total({r \in A : r[2] = j}, allocations')
<1> DEFINE old == AllocationsOf(j)
           more == {r \in A : r[2] = j}
<1>1. AllocationsOf(j)' = old \cup more /\ old \cap more = {}
  BY DEF AllocationsOf
<1>2. /\ IsFiniteSet(DOMAIN allocations')
      /\ \A r \in DOMAIN allocations' : allocations'[r] \in 0 .. MaxUnits
  BY AllocationsFinite DEF TypeOK
<1>3. /\ IsFiniteSet(old) /\ IsFiniteSet(more)
      /\ \A r \in old \cup more : allocations'[r] \in 0 .. MaxUnits
  BY <1>2, FS_Subset DEF AllocationsOf
<1>4. \A r \in old : allocations'[r] = allocations[r]
  BY DEF AllocationsOf
<1> HIDE DEF old, more
<1>5. Total(old \cup more, allocations') = Total(old, allocations') + Total(more, allocations')
  BY <1>1, <1>3, TotalDisjointUnion, BoundsAssumption
<1>6. Total(old, allocations') = Total(old, allocations)
  BY <1>4, TotalCongruence
<1>7. QED
  BY <1>1, <1>5, <1>6 DEF Allocated, old, more

(* Creating, deleting and allocating by hand over-allocate no job.         *)
LEMMA JobsKeepAllocated ==
  ASSUME TypeOK, TypeOK', ReferencesExist, JobNotOverAllocated, JobsNext
  PROVE  JobNotOverAllocated'
<1>1. ASSUME NEW p \in Pipelines, NEW q \in Quantity, CreateJob(p, q),
             NEW j \in DOMAIN jobs'
      PROVE  Allocated(j)' <= jobs'[j].quantity
  <2>1. Allocated(j)' = Allocated(j)
    BY <1>1, SameAllocations DEF CreateJob, orderVars
  <2>2. CASE j \in DOMAIN jobs
    BY <1>1, <2>1, <2>2, NextJobIdFresh DEF CreateJob, With, JobNotOverAllocated
  <2>3. CASE j = NextJobId
    <3>1. AllocationsOf(j) = {}
      BY <2>3, NextJobIdFresh DEF AllocationsOf, ReferencesExist
    <3>2. Allocated(j) = 0
      BY <3>1, TotalEmpty DEF Allocated
    <3>3. jobs'[j].quantity = q
      BY <1>1, <2>3 DEF CreateJob, With
    <3>4. QED
      BY <2>1, <3>2, <3>3 DEF Quantity
  <2>4. QED
    BY <1>1, <2>2, <2>3 DEF CreateJob, With
<1>2. ASSUME NEW S, allocations' = Without(allocations, S),
             NEW j \in DOMAIN jobs', j \in DOMAIN jobs, jobs'[j] = jobs[j]
      PROVE  Allocated(j)' <= jobs'[j].quantity
  <2>1. Allocated(j)' <= Allocated(j) /\ Allocated(j)' \in Nat
    BY <1>2, FewerAllocations
  <2>2. Allocated(j) \in Nat /\ Allocated(j) <= jobs[j].quantity
    BY <1>2, AllocatedType DEF JobNotOverAllocated
  <2>3. jobs[j].quantity \in Nat
    BY <1>2 DEF TypeOK, IsTable, JobRow, Quantity
  <2>4. QED
    BY <1>2, <2>1, <2>2, <2>3
<1>3. ASSUME NEW i \in JobIds, NEW l \in Lines, NEW q \in Quantity,
             AddAllocation(i, l, q), NEW j \in DOMAIN jobs'
      PROVE  Allocated(j)' <= jobs'[j].quantity
  <2> DEFINE A == {<<l, i>>}
             more == {r \in A : r[2] = j}
  <2>1. /\ A \cap DOMAIN allocations = {}
        /\ DOMAIN allocations' = DOMAIN allocations \cup A
        /\ \A r \in DOMAIN allocations : allocations'[r] = allocations[r]
        /\ allocations'[<<l, i>>] = q
        /\ jobs' = jobs
    BY <1>3 DEF AddAllocation, With
  <2>2. Allocated(j)' = Allocated(j) + Total(more, allocations')
    BY <2>1, MoreAllocations
  <2>3. CASE j = i
    <3>1. more = {<<l, i>>}
      BY <2>3
    <3>2. Total(more, allocations') = q
      BY <2>1, <3>1, TotalSingleton DEF Quantity
    <3>3. q <= jobs[j].quantity - Allocated(j)
      BY <1>3, <2>3 DEF AddAllocation, Available
    <3>4. Allocated(j) \in Nat /\ jobs[j].quantity \in Nat /\ q \in Nat
      BY <2>1, AllocatedType DEF TypeOK, IsTable, JobRow, Quantity
    <3>5. QED
      BY <2>1, <2>2, <3>2, <3>3, <3>4
  <2>4. CASE j # i
    <3>1. more = {}
      BY <2>4
    <3>2. Total(more, allocations') = 0
      BY <3>1, TotalEmpty
    <3>3. QED
      BY <2>1, <2>2, <3>2, AllocatedType DEF JobNotOverAllocated
  <2>5. QED
    BY <2>3, <2>4
<1>4. QED
  BY <1>1, <1>2, <1>3
     DEF JobsNext, DeleteJob, RemoveAllocation, Without, JobNotOverAllocated

(* The allocations an order inserts.                                       *)
AddedBy(need, rank) ==
  {r \in (({NextId(customerOrders)} \X Served(need)) \X JobIds) :
     Share(need, NewJobs(need, rank), r[1][2], r[2]) > 0}

(* The allocations of a new order are those AddedBy names, and the other   *)
(* rows stay.                                                              *)
LEMMA OrderAddsRows ==
  ASSUME NEW need, NEW rank, CreateOrder(need, rank)
  PROVE  /\ DOMAIN allocations' = DOMAIN allocations \cup AddedBy(need, rank)
         /\ \A r \in DOMAIN allocations \ AddedBy(need, rank) :
              allocations'[r] = allocations[r]
BY DEF CreateOrder, AddedBy

(* Each of them holds the share of its job.                                *)
LEMMA OrderAddsRow ==
  ASSUME NEW need, NEW rank, CreateOrder(need, rank), NEW r \in AddedBy(need, rank)
  PROVE  allocations'[r] = Share(need, NewJobs(need, rank), r[1][2], r[2])
BY DEF CreateOrder, AddedBy

(* They are new rows, so they add to what a job has allocated.             *)
LEMMA OrderAddsShares ==
  ASSUME TypeOK, TypeOK', ReferencesExist,
         NEW need, NEW rank, CreateOrder(need, rank), NEW j
  PROVE  Allocated(j)' = Allocated(j)
           + Total({r \in AddedBy(need, rank) : r[2] = j}, allocations')
<1> DEFINE o == NextId(customerOrders)
<1>1. o \notin customerOrders
  <2>1. o \in Nat /\ \A i \in customerOrders : i < o
    BY NextIdFresh, BoundsAssumption DEF TypeOK, OrderIds
  <2>2. QED
    BY <2>1
<1>2. AddedBy(need, rank) \cap DOMAIN allocations = {}
  BY <1>1 DEF ReferencesExist, AddedBy
<1>3. QED
  BY <1>2, OrderAddsRows, MoreAllocations

(* A job that an order packs into grows by what its unallocated units do   *)
(* not cover; a job that it inserts is allocated in full.                  *)
LEMMA CreateOrderKeepsAllocated ==
  ASSUME TypeOK, TypeOK', ReferencesExist, ProductTypesAgree, JobNotOverAllocated,
         NEW need, IsRequest(need), NEW rank, CreateOrder(need, rank)
  PROVE  JobNotOverAllocated'
<1> DEFINE o == NextId(customerOrders)
           new == NewJobs(need, rank)
<1> SUFFICES ASSUME NEW j \in DOMAIN jobs'
             PROVE  Allocated(j)' <= jobs'[j].quantity
  BY DEF JobNotOverAllocated
<1> DEFINE more == {r \in AddedBy(need, rank) : r[2] = j}
<1>1. DOMAIN allocations' = DOMAIN allocations \cup AddedBy(need, rank)
  BY OrderAddsRows
<1>2. ASSUME NEW r \in AddedBy(need, rank)
      PROVE  allocations'[r] = Share(need, new, r[1][2], r[2])
  BY OrderAddsRow
<1>3. DOMAIN jobs' = DOMAIN jobs \cup DOMAIN new
  BY DEF CreateOrder
<1>4. Allocated(j)' = Allocated(j) + Total(more, allocations')
  BY OrderAddsShares
<1>5. ASSUME NEW r \in more
      PROVE  /\ r = <<<<o, r[1][2]>>, j>>
             /\ r[1][2] \in Served(need)
             /\ Share(need, new, r[1][2], j) > 0
             /\ allocations'[r] = Share(need, new, r[1][2], j)
             /\ allocations'[r] \in Nat
  BY <1>1, <1>2 DEF TypeOK, IsTable, Quantity, AddedBy
<1>6. CASE j \in DOMAIN new
  <2>1. j \notin DOMAIN jobs /\ jobs'[j] = new[j] /\ new[j] \in JobRow
    BY <1>6, NewJobsType DEF CreateOrder
  <2>2. AllocationsOf(j) = {}
    BY <2>1 DEF AllocationsOf, ReferencesExist
  <2>3. Allocated(j) = 0
    BY <2>2, TotalEmpty DEF Allocated
  <2>4. ASSUME NEW r \in more
        PROVE  /\ r = <<<<o, new[j].productType>>, j>>
               /\ allocations'[r] = new[j].quantity
    <3>1. /\ new[j].productType = r[1][2]
          /\ Share(need, new, r[1][2], j) = new[j].quantity
      BY <1>5, <2>1, ShareFromJob
    <3>2. QED
      BY <1>5, <3>1
  <2> DEFINE key == <<<<o, new[j].productType>>, j>>
  <2>5. Total(more, allocations') <= new[j].quantity
    <3>1. CASE more = {}
      BY <2>1, <3>1, TotalEmpty DEF JobRow, Quantity
    <3>2. CASE more # {}
      <4>1. more = {key} /\ allocations'[key] = new[j].quantity
        BY <2>4, <3>2
      <4>2. new[j].quantity \in Nat
        BY <2>1 DEF JobRow, Quantity
      <4> HIDE DEF more, key, new
      <4>3. Total({key}, allocations') = new[j].quantity
        BY <4>1, <4>2, TotalSingleton
      <4>4. QED
        BY <4>1, <4>2, <4>3
    <3>3. QED
      BY <3>1, <3>2
  <2>6. Total(more, allocations') \in Nat
    BY <1>1, AllocationTotalType DEF TypeOK
  <2>7. QED
    BY <1>4, <2>1, <2>3, <2>5, <2>6 DEF JobRow, Quantity
<1>7. CASE j \notin DOMAIN new
  <2> DEFINE p == jobs[j].pipeline
             t == pipelines[p]
             toAdd == Packed(p, need[t], j)
             key == <<<<o, t>>, j>>
  <2>1. j \in DOMAIN jobs
    BY <1>3, <1>7
  <2>2. jobs'[j] = [jobs[j] EXCEPT !.quantity = @ + GrowBy(need, j)]
    BY <1>7, <2>1 DEF CreateOrder
  <2>3. jobs'[j].quantity = jobs[j].quantity + GrowBy(need, j)
    BY <2>1, <2>2 DEF TypeOK, IsTable, JobRow
  <2>4. /\ jobs[j].quantity \in Nat /\ GrowBy(need, j) \in Nat
        /\ Allocated(j) \in Nat /\ Allocated(j) <= jobs[j].quantity
    BY <2>1, GrowByType, AllocatedType
       DEF JobNotOverAllocated, TypeOK, IsTable, JobRow, Quantity
  <2>5. ASSUME NEW r \in more
        PROVE  /\ j \in PendingJobs(p) /\ t \in Served(need)
               /\ r = key /\ allocations'[r] = toAdd /\ toAdd > 0 /\ toAdd \in Nat
    <3>1. /\ j \in PendingJobs(PipelineOf(r[1][2]))
          /\ Share(need, new, r[1][2], j) = Packed(PipelineOf(r[1][2]), need[r[1][2]], j)
      BY <1>5, <1>7, ShareFromJob
    <3>2. PipelineOf(r[1][2]) = p
      BY <3>1 DEF PendingJobs, JobsUsing
    <3>3. Servable(r[1][2])
      BY <1>5, ServedRequest
    <3>4. r[1][2] = t
      BY <3>2, <3>3, ServedPipeline
    <3> HIDE DEF t, p
    <3>5. QED
      BY <1>5, <3>1, <3>2, <3>4
  <2>6. CASE more = {}
    <3>1. Total(more, allocations') = 0
      BY <2>6, TotalEmpty
    <3>2. QED
      BY <1>4, <2>3, <2>4, <3>1
  <2>7. CASE more # {}
    <3>1. /\ more = {key} /\ allocations'[key] = toAdd /\ toAdd \in Nat /\ toAdd > 0
          /\ t \in Served(need) /\ j \in PendingJobs(p)
      BY <2>5, <2>7
    <3>2. GrowBy(need, j) = Positive(Allocated(j) + toAdd - jobs[j].quantity)
      BY <3>1 DEF GrowBy
    <3> HIDE DEF more, key, toAdd
    <3>3. Total({key}, allocations') = toAdd
      BY <3>1, TotalSingleton
    <3>4. QED
      BY <1>4, <2>3, <2>4, <3>1, <3>2, <3>3 DEF Positive
  <2>8. QED
    BY <2>6, <2>7
<1>8. QED
  BY <1>6, <1>7

(* Deletion splits what a surviving job has allocated into the units of    *)
(* the order, which it gives back, and those of the others.                *)
LEMMA DeletionSplitsAllocated ==
  ASSUME TypeOK, NEW o \in OrderIds, DeleteOrder(o), NEW j
  PROVE  /\ Allocated(j)' \in Nat /\ Delta(o, j) \in Nat
         /\ Allocated(j) = Allocated(j)' + Delta(o, j)
         /\ j \notin Touched(o) => Delta(o, j) = 0
<1> DEFINE own == {r \in AllocationsOfOrder(o) : r[2] = j}
<1>1. own \in SUBSET AllocationsOf(j)
      /\ AllocationsOf(j) \ own = AllocationsOf(j) \ AllocationsOfOrder(o)
  BY DEF AllocationsOf, AllocationsOfOrder
<1>2. /\ Allocated(j)' = Total(AllocationsOf(j) \ AllocationsOfOrder(o), allocations)
      /\ Allocated(j)' \in Nat
  BY FewerAllocations DEF DeleteOrder
<1>3. /\ IsFiniteSet(AllocationsOf(j))
      /\ \A r \in AllocationsOf(j) : allocations[r] \in 0 .. MaxUnits
      /\ Total(own, allocations) \in Nat
  BY AllocationsFinite, AllocationTotalType DEF AllocationsOf, AllocationsOfOrder, TypeOK
<1>4. j \notin Touched(o) => own = {}
  BY DEF Touched
<1> HIDE DEF own
<1>5. Total(AllocationsOf(j), allocations) =
        Total(AllocationsOf(j) \ own, allocations) + Total(own, allocations)
  BY <1>1, <1>3, TotalDifference, BoundsAssumption
<1>6. own = {} => Total(own, allocations) = 0
  BY TotalEmpty
<1>7. QED
  BY <1>1, <1>2, <1>3, <1>4, <1>5, <1>6 DEF Allocated, Delta, own

(* A job that survives the deletion of an order gives up SafeDelta units.  *)
LEMMA DeletedQuantity ==
  ASSUME TypeOK, NEW o \in OrderIds, DeleteOrder(o), NEW j \in DOMAIN jobs'
  PROVE  /\ j \in DOMAIN jobs /\ jobs[j].quantity \in Quantity
         /\ jobs'[j].quantity = jobs[j].quantity - SafeDelta(o, j)
<1>1. /\ j \in DOMAIN jobs
      /\ jobs'[j] = [jobs[j] EXCEPT !.quantity = @ - SafeDelta(o, j)]
  BY DEF DeleteOrder
<1>2. QED
  BY <1>1 DEF TypeOK, IsTable, JobRow

(* Deleting an order over-allocates no job: what it shrinks a job by it    *)
(* had allocated there.                                                    *)
LEMMA DeleteOrderKeepsAllocated ==
  ASSUME TypeOK, JobNotOverAllocated, NEW o \in OrderIds, DeleteOrder(o)
  PROVE  JobNotOverAllocated'
<1> SUFFICES ASSUME NEW j \in DOMAIN jobs'
             PROVE  Allocated(j)' <= jobs'[j].quantity
  BY DEF JobNotOverAllocated
<1>1. /\ j \in DOMAIN jobs /\ jobs[j].quantity \in Nat \ {0}
      /\ jobs'[j].quantity = jobs[j].quantity - SafeDelta(o, j)
  BY DeletedQuantity DEF Quantity
<1>2. /\ Allocated(j)' \in Nat /\ Delta(o, j) \in Nat
      /\ Allocated(j) = Allocated(j)' + Delta(o, j)
      /\ j \notin Touched(o) => Delta(o, j) = 0
  BY DeletionSplitsAllocated
<1>3. Allocated(j) <= jobs[j].quantity
  BY <1>1 DEF JobNotOverAllocated
<1>4. QED
  BY <1>1, <1>2, <1>3 DEF SafeDelta, Lesser

-------------------------------------------------------------------------------

(* The inductive invariant of the backend: JobNotOverAllocated alone says  *)
(* nothing of a new job, whose id must not be that of allocations left     *)
(* behind, nor of an order packed into a job of another product type.      *)
Consistent ==
  /\ TypeOK
  /\ ReferencesExist
  /\ ProductTypesAgree
  /\ JobNotOverAllocated

(* No step over-allocates a job.                                           *)
LEMMA StepKeepsAllocated ==
  ASSUME Consistent, TypeOK', [Next]_vars
  PROVE  JobNotOverAllocated'
<1> USE DEF Consistent
<1>1. CASE CatalogNext
  BY <1>1, CatalogFrame, SameAllocations DEF JobNotOverAllocated, orderVars
<1>2. CASE JobsNext
  BY <1>2, JobsKeepAllocated
<1>3. CASE EventsNext
  BY <1>3, EventsFrame, SameAllocations DEF JobNotOverAllocated, orderVars
<1>4. CASE OrdersNext
  <2>1. ASSUME NEW T \in SUBSET ProductTypes, NEW need \in [T -> Quantity]
        PROVE  IsRequest(need)
    BY DEF IsRequest
  <2>2. QED
    BY <1>4, <2>1, CreateOrderKeepsAllocated, DeleteOrderKeepsAllocated DEF OrdersNext
<1>5. CASE UNCHANGED vars
  BY <1>5, SameAllocations DEF vars, JobNotOverAllocated
<1>6. QED
  BY <1>1, <1>2, <1>3, <1>4, <1>5 DEF Next

(* No job ever promises more units than it has.                            *)
THEOREM AllocationsCovered == Spec => []JobNotOverAllocated
<1>1. Init => JobNotOverAllocated
  BY DEF Init, JobNotOverAllocated, EmptyTable
<1>2. Consistent /\ TypeOK' /\ [Next]_vars => JobNotOverAllocated'
  BY StepKeepsAllocated
<1>3. QED
  BY <1>1, <1>2, TypeCorrect, ReferencesHold, ProductTypesHold, PTL DEF Spec, Consistent

(* Every reachable database is consistent.                                 *)
THEOREM ConsistentHolds == Spec => []Consistent
BY TypeCorrect, ReferencesHold, ProductTypesHold, AllocationsCovered, PTL DEF Consistent

-------------------------------------------------------------------------------

(* The step of DELETE /orders/:id, seen from the jobs of the other orders. *)
LEMMA DeleteOrderIsolated ==
  ASSUME TypeOK, ReferencesExist, JobNotOverAllocated,
         NEW o \in OrderIds, DeleteOrder(o),
         NEW j \in DOMAIN jobs, NEW r \in AllocationsOf(j), r[1][1] # o
  PROVE  j \in DOMAIN jobs' /\ Available(j)' = Available(j)
<1>1. j \in DOMAIN jobs'
  BY DEF DeleteOrder, Doomed, AllocationsOfOrder
<1>2. r \in AllocationsOf(j)'
  BY DEF DeleteOrder, AllocationsOf, AllocationsOfOrder, Without
<1>3. /\ jobs[j].quantity \in Nat
      /\ jobs'[j].quantity = jobs[j].quantity - SafeDelta(o, j)
  BY <1>1, DeletedQuantity DEF Quantity
<1>4. /\ Allocated(j)' \in Nat /\ Delta(o, j) \in Nat
      /\ Allocated(j) = Allocated(j)' + Delta(o, j)
      /\ j \notin Touched(o) => Delta(o, j) = 0
  BY DeletionSplitsAllocated
<1>5. Allocated(j)' >= 1
  <2>1. IsTable(allocations', AllocKeys, Quantity)
    BY WithoutTable DEF DeleteOrder, TypeOK
  <2>2. /\ IsFiniteSet(AllocationsOf(j)')
        /\ \A x \in AllocationsOf(j)' : allocations'[x] \in 0 .. MaxUnits
        /\ allocations'[r] \in Nat \ {0}
    BY <1>2, <2>1, AllocationsFinite, AllocationTotalType
       DEF AllocationsOf, IsTable, Quantity
  <2>3. Total({r}, allocations') <= Total(AllocationsOf(j)', allocations')
    BY <1>2, <2>2, TotalMonotone, BoundsAssumption
  <2>4. Total({r}, allocations') = allocations'[r]
    BY <2>2, TotalSingleton
  <2>5. QED
    BY <1>4, <2>2, <2>3, <2>4 DEF Allocated
<1>6. Allocated(j) <= jobs[j].quantity
  BY DEF JobNotOverAllocated
<1>7. SafeDelta(o, j) = Delta(o, j)
  BY <1>3, <1>4, <1>5, <1>6 DEF SafeDelta, Lesser
<1>8. QED
  BY <1>1, <1>3, <1>4, <1>7 DEF Available

(* Only DELETE /orders/:id makes an order disappear, and only the one it   *)
(* names.                                                                  *)
LEMMA OnlyDeleteOrderRemovesOrders ==
  ASSUME Next, NEW o \in customerOrders \ customerOrders'
  PROVE  DeleteOrder(o)
<1>1. ~ CatalogNext
  BY CatalogFrame DEF orderVars
<1>2. ~ JobsNext
  BY DEF JobsNext, CreateJob, DeleteJob, AddAllocation, RemoveAllocation, orderVars
<1>3. ~ EventsNext
  BY DEF EventsNext, CreateEvent, CrashInCreateEvent, orderVars
<1>4. OrdersNext
  BY <1>1, <1>2, <1>3 DEF Next
<1>5. ASSUME NEW need, NEW rank, CreateOrder(need, rank)
      PROVE  FALSE
  BY <1>5 DEF CreateOrder
<1>6. QED
  BY <1>4, <1>5 DEF OrdersNext, DeleteOrder

(* Deleting an order leaves the others as they were: the property that     *)
(* makes the floor of one unit in deleteOrderTx dead code.                 *)
THEOREM DeletionIsolation == Spec => DeletionIsolated
<1>1. ASSUME Consistent, [Next]_vars, NEW o \in customerOrders \ customerOrders'
      PROVE  /\ \A r \in DOMAIN allocations :
                  r[1][1] # o => r \in DOMAIN allocations' /\ allocations'[r] = allocations[r]
             /\ \A j \in DOMAIN jobs :
                  (\E r \in AllocationsOf(j) : r[1][1] # o)
                    => j \in DOMAIN jobs' /\ Available(j)' = Available(j)
  <2>1. DeleteOrder(o)
    BY <1>1, OnlyDeleteOrderRemovesOrders DEF vars
  <2>2. o \in OrderIds
    BY <1>1 DEF Consistent, TypeOK
  <2>3. \A r \in DOMAIN allocations :
          r[1][1] # o => r \in DOMAIN allocations' /\ allocations'[r] = allocations[r]
    BY <2>1 DEF DeleteOrder, Without, AllocationsOfOrder
  <2>4. QED
    BY <1>1, <2>1, <2>2, <2>3, DeleteOrderIsolated DEF Consistent
<1>2. Consistent /\ [Next]_vars => [OthersKeepTheirs]_vars
  BY <1>1 DEF OthersKeepTheirs
<1>3. QED
  BY <1>2, ConsistentHolds, PTL DEF Spec, DeletionIsolated

-------------------------------------------------------------------------------

(* However a job disappears, the departures of its tray go with it.        *)
THEOREM DeparturesGoWithJob == Spec => NoDepartureOutlivesJob
<1>1. ASSUME [Next]_vars, NEW j \in DOMAIN jobs \ DOMAIN jobs', NEW d \in departures'
      PROVE  d[1] # j
  <2>1. CASE CatalogNext
    BY <1>1, <2>1, CatalogFrame
  <2>2. CASE JobsNext
    BY <1>1, <2>2 DEF JobsNext, CreateJob, DeleteJob, AddAllocation, RemoveAllocation,
                      With, Without
  <2>3. CASE EventsNext
    BY <1>1, <2>3 DEF EventsNext, CreateEvent, CrashInCreateEvent
  <2>4. CASE OrdersNext
    <3>1. ASSUME NEW need, NEW rank, CreateOrder(need, rank)
          PROVE  FALSE
      BY <1>1, <3>1 DEF CreateOrder
    <3>2. ASSUME NEW o, DeleteOrder(o)
          PROVE  d[1] # j
      BY <1>1, <3>2 DEF DeleteOrder
    <3>3. QED
      BY <2>4, <3>1, <3>2 DEF OrdersNext
  <2>5. QED
    BY <1>1, <2>1, <2>2, <2>3, <2>4 DEF Next, vars
<1>2. [Next]_vars => [DeparturesGo]_vars
  BY <1>1 DEF DeparturesGo
<1>3. QED
  BY <1>2, PTL DEF Spec, NoDepartureOutlivesJob

(* The status of a job moves one state forward at a time, and reaches      *)
(* completed with as many departures as its pipeline has steps.            *)
THEOREM StatusOrder == Spec => StatusMovesForward
<1>1. ASSUME TypeOK, [Next]_vars, NEW j \in DOMAIN jobs \cap DOMAIN jobs',
             jobs'[j].status # jobs[j].status
      PROVE  StatusStep(j)
  <2>1. ~ CatalogNext
    BY <1>1, CatalogFrame
  <2>2. ~ JobsNext
    BY <1>1, NextJobIdFresh
       DEF JobsNext, CreateJob, DeleteJob, AddAllocation, RemoveAllocation, With, Without
  <2>3. ~ OrdersNext
    <3>1. ASSUME NEW T \in SUBSET ProductTypes, NEW need \in [T -> Quantity], NEW rank,
                 CreateOrder(need, rank)
          PROVE  FALSE
      <4>1. IsRequest(need)
        BY DEF IsRequest
      <4>2. j \notin DOMAIN NewJobs(need, rank)
        BY <1>1, <4>1, NewJobsType
      <4>3. jobs'[j] = [jobs[j] EXCEPT !.quantity = @ + GrowBy(need, j)]
        BY <1>1, <3>1, <4>2 DEF CreateOrder
      <4>4. QED
        BY <1>1, <4>3 DEF TypeOK, IsTable, JobRow
    <3>2. ASSUME NEW o, DeleteOrder(o)
          PROVE  FALSE
      <4>1. jobs'[j] = [jobs[j] EXCEPT !.quantity = @ - SafeDelta(o, j)]
        BY <1>1, <3>2 DEF DeleteOrder
      <4>2. QED
        BY <1>1, <4>1 DEF TypeOK, IsTable, JobRow
    <3>3. QED
      BY <3>1, <3>2 DEF OrdersNext
  <2>4. PICK s \in Stations, phase \in Phases : CreateEvent(j, s, phase)
    BY <1>1, <2>1, <2>2, <2>3
       DEF Next, vars, EventsNext, CreateEvent, CrashInCreateEvent, TypeOK, IsTable, JobRow
  <2>5. jobs'[j].status = NextStatus(j, departures')
    BY <1>1, <2>4 DEF CreateEvent, TypeOK, IsTable, JobRow
  <2>6. jobs[j].status \in Status
    BY <1>1 DEF TypeOK, IsTable, JobRow
  <2>7. QED
    BY <1>1, <2>5, <2>6 DEF NextStatus, Status, StatusStep
<1>2. TypeOK /\ [Next]_vars => [StatusStepsOnly]_vars
  BY <1>1 DEF StatusStepsOnly
<1>3. QED
  BY <1>2, TypeCorrect, PTL DEF Spec, StatusMovesForward

-------------------------------------------------------------------------------

(* A line that is larger than the space of the pending jobs fills them all.*)
LEMMA LeftoverFillsJobs ==
  ASSUME TypeOK, NEW p, NEW need \in Nat, Leftover(p, need) > 0, NEW j \in PendingJobs(p)
  PROVE  Packed(p, need, j) = Space(p)[j]
<1> DEFINE before == {i \in PendingJobs(p) : i < j}
           b == before \cup {j}
<1>1. PendingJobs(p) \subseteq Nat /\ IsFiniteSet(PendingJobs(p))
  BY PendingFinite DEF JobIds
<1>2. IsFiniteSet(before) /\ IsFiniteSet({j}) /\ IsFiniteSet(b)
  BY <1>1, FS_Subset
<1>3. \A i \in PendingJobs(p) : Space(p)[i] \in 0 .. MaxCapacity
  BY SpaceType DEF Capacity
<1>4. before \cap {j} = {} /\ b \subseteq PendingJobs(p)
  BY <1>1
<1>5. Space(p)[j] \in Nat /\ Total({j}, Space(p)) = Space(p)[j]
  BY <1>3, TotalSingleton, BoundsAssumption
<1>6. SpaceBefore(p, j) = Total(before, Space(p))
  BY DEF SpaceBefore
<1> HIDE DEF before
<1>7. Total(b, Space(p)) = Total(before, Space(p)) + Total({j}, Space(p))
  BY <1>2, <1>3, <1>4, TotalDisjointUnion, BoundsAssumption
<1> HIDE DEF b
<1>8. Total(b, Space(p)) <= Total(PendingJobs(p), Space(p))
  BY <1>1, <1>3, <1>4, TotalMonotone, BoundsAssumption
<1>9. /\ Total(before, Space(p)) \in Nat /\ Total(PendingJobs(p), Space(p)) \in Nat
      /\ Total(b, Space(p)) \in Nat
  BY <1>4, SpaceTotalType DEF b
<1>10. need > Total(PendingJobs(p), Space(p))
  BY <1>9 DEF Leftover, Positive
<1>11. need - SpaceBefore(p, j) >= Space(p)[j]
  BY <1>5, <1>6, <1>7, <1>8, <1>9, <1>10
<1>12. QED
  BY <1>5, <1>6, <1>9, <1>11 DEF Packed, Lesser, Positive

(* A new order grows pending jobs within capacity and opens batches only   *)
(* when they are full.                                                     *)
LEMMA CreateOrderPacks ==
  ASSUME Consistent, TypeOK', NEW need, IsRequest(need), NEW rank,
         CreateOrder(need, rank)
  PROVE  OrdersPack
<1> USE DEF Consistent
<1> DEFINE o == NextId(customerOrders)
           new == NewJobs(need, rank)
<1>1. ASSUME NEW j \in DOMAIN jobs
      PROVE  PackedInto(j)
  <2>1. j \notin DOMAIN new
    BY NewJobsType
  <2>2. jobs'[j] = [jobs[j] EXCEPT !.quantity = @ + GrowBy(need, j)]
    BY <2>1 DEF CreateOrder
  <2>3. /\ jobs[j].quantity \in Nat
        /\ jobs'[j].quantity = jobs[j].quantity + GrowBy(need, j)
    BY <2>2 DEF TypeOK, IsTable, JobRow, Quantity
  <2>4. QED
    BY <2>3, GrowByType DEF PackedInto, PendingJobs
<1>2. ASSUME NEW k \in DOMAIN jobs' \ DOMAIN jobs
      PROVE  Opened(k)
  <2> DEFINE t == new[k].productType
             p == new[k].pipeline
  <2>1. k \in DOMAIN new /\ jobs'[k] = new[k]
    BY DEF CreateOrder
  <2>2. /\ t \in Served(need) /\ p = PipelineOf(t)
        /\ new[k].quantity <= EffectiveCapacity(p)
        /\ Leftover(p, need[t]) > 0
    BY <2>1, NewJobsType
  <2>3. need[t] \in Nat
    BY <2>2, ServedRequest DEF Quantity
  <2> HIDE DEF t, p
  <2>4. ASSUME NEW j \in PendingJobs(p)
        PROVE  Allocated(j)' >= EffectiveCapacity(p)
    <3> DEFINE more == {r \in AddedBy(need, rank) : r[2] = j}
               key == <<<<o, t>>, j>>
    <3>1. Allocated(j)' = Allocated(j) + Total(more, allocations')
      BY OrderAddsShares
    <3>2. more \in SUBSET DOMAIN allocations'
      <4>1. DOMAIN allocations' = DOMAIN allocations \cup AddedBy(need, rank)
        BY OrderAddsRows
      <4>2. QED
        BY <4>1
    <3>3. /\ IsFiniteSet(more) /\ Total(more, allocations') \in Nat
          /\ \A r \in more : allocations'[r] \in 0 .. MaxUnits
      BY <3>2, AllocationsFinite, AllocationTotalType DEF TypeOK
    <3>4. Allocated(j) \in Nat /\ EffectiveCapacity(p) \in Nat
      BY AllocatedType, CapacityType DEF Capacity
    <3>5. Space(p)[j] = Positive(EffectiveCapacity(p) - Allocated(j))
      BY DEF Space
    <3>6. CASE Space(p)[j] = 0
      BY <3>1, <3>3, <3>4, <3>5, <3>6 DEF Positive
    <3>7. CASE Space(p)[j] # 0
      <4>1. Space(p)[j] > 0 /\ Space(p)[j] = EffectiveCapacity(p) - Allocated(j)
        BY <3>4, <3>5, <3>7 DEF Positive
      <4>2. j \in DOMAIN jobs /\ j \in JobIds /\ j \notin DOMAIN new
        BY NewJobsType DEF PendingJobs, JobsUsing, TypeOK, IsTable
      <4>3. Share(need, new, t, j) = Space(p)[j]
        <5>1. Share(need, new, t, j) = Packed(p, need[t], j)
          BY <2>2, <4>2 DEF Share
        <5>2. QED
          BY <2>2, <2>3, <5>1, LeftoverFillsJobs
      <4>4. key \in more
        BY <2>2, <4>1, <4>2, <4>3 DEF AddedBy
      <4>5. allocations'[key] = Space(p)[j]
        BY <4>3, <4>4, OrderAddsRow
      <4> HIDE DEF more, key
      <4>6. Total({key}, allocations') <= Total(more, allocations')
        BY <3>3, <4>4, TotalMonotone, BoundsAssumption
      <4>7. Total({key}, allocations') = Space(p)[j]
        BY <3>4, <4>1, <4>5, TotalSingleton
      <4>8. QED
        BY <3>1, <3>3, <3>4, <4>1, <4>6, <4>7
    <3>8. QED
      BY <3>6, <3>7
  <2>5. QED
    BY <2>1, <2>2, <2>4 DEF Opened, p
<1>3. QED
  BY <1>1, <1>2 DEF OrdersPack

(* Orders are packed into the space of pending jobs before any batch is    *)
(* opened, and no job is packed beyond the capacity of its pipeline.       *)
THEOREM OrdersPackWithinCapacity == Spec => PackingWithinCapacity
<1>1. ASSUME Consistent, TypeOK', [Next]_vars, customerOrders' \ customerOrders # {}
      PROVE  OrdersPack
  <2>1. ~ CatalogNext
    BY <1>1, CatalogFrame DEF orderVars
  <2>2. ~ JobsNext
    BY <1>1 DEF JobsNext, CreateJob, DeleteJob, AddAllocation, RemoveAllocation, orderVars
  <2>3. ~ EventsNext
    BY <1>1 DEF EventsNext, CreateEvent, CrashInCreateEvent, orderVars
  <2>4. ASSUME NEW T \in SUBSET ProductTypes, NEW need \in [T -> Quantity], NEW rank,
               CreateOrder(need, rank)
        PROVE  OrdersPack
    <3>1. IsRequest(need)
      BY DEF IsRequest
    <3>2. QED
      BY <1>1, <2>4, <3>1, CreateOrderPacks
  <2>5. QED
    BY <1>1, <2>1, <2>2, <2>3, <2>4 DEF Next, vars, OrdersNext, DeleteOrder
<1>2. Consistent /\ TypeOK' /\ [Next]_vars => [OrdersPack]_vars
  BY <1>1 DEF OrdersPack
<1>3. QED
  BY <1>2, TypeCorrect, ConsistentHolds, PTL DEF Spec, PackingWithinCapacity

===============================================================================
