------------------------- MODULE CustomerOrdersService -------------------------
(***************************************************************************)
(* features/customer-orders/customer-orders.service.ts: an order whose     *)
(* lines are packed into pending jobs and new batches as it is created,    *)
(* and the deletion that undoes it.                                        *)
(*                                                                         *)
(* autoCreateAndAllocate is a loop with a running `remaining`.  Here each  *)
(* job's share is given directly: what the loop still needs when it comes  *)
(* to job j is the quantity less the space of the pending jobs before j.   *)
(***************************************************************************)
EXTENDS Database

(* Faulty variant: the query forgets the status.                           *)
PendingJobsAnyStatus(p) == JobsUsing(p)

(* stmtPendingJobs, visited ORDER BY id.                                   *)
PendingJobs(p) == {j \in JobsUsing(p) : jobs[j].status = "pending"}

(* capacity - pj.allocated; a job that is full or above capacity is        *)
(* skipped.                                                                *)
Space(p) ==
  [j \in PendingJobs(p) |-> Positive(EffectiveCapacity(p) - Allocated(j))]

(* Faulty variant: the job itself is counted among those before it.        *)
SpaceUpTo(p, j) == Total({i \in PendingJobs(p) : i <= j}, Space(p))

SpaceBefore(p, j) == Total({i \in PendingJobs(p) : i < j}, Space(p))

(* Faulty variant: remaining is not reduced by what was packed before.     *)
PackedWholeNeed(p, need, j) == Lesser(Space(p)[j], need)

(* toAdd of pending job j for a line of need units.                        *)
Packed(p, need, j) ==
  Lesser(Space(p)[j], Positive(need - SpaceBefore(p, j)))

(* What is left once every pending job has been visited, and the number of *)
(* batches of at most the capacity that take it.                           *)
Leftover(p, need) == Positive(need - Total(PendingJobs(p), Space(p)))

BatchCount(p, need) ==
  (Leftover(p, need) + EffectiveCapacity(p) - 1) \div EffectiveCapacity(p)

(* The units of the batch that follows m full ones.                        *)
Batch(p, need, m) ==
  Lesser(EffectiveCapacity(p), Leftover(p, need) - m * EffectiveCapacity(p))

-------------------------------------------------------------------------------

(* getPipelineByProductType, and the early returns of                      *)
(* autoCreateAndAllocate: no pipeline for t, or none with a capacity.      *)
Servable(t) ==
  \E p \in DOMAIN pipelines : pipelines[p] = t /\ EffectiveCapacity(p) # NULL

PipelineOf(t) == CHOOSE p \in DOMAIN pipelines : pipelines[p] = t

(* The lines of a request are given by need, the quantity asked of each    *)
(* product type, and rank, the place of each type in the array.  A second  *)
(* line of a type breaks UNIQUE(customer_order_id, product_type) and rolls *)
(* the whole order back.                                                   *)
Served(need) == {t \in DOMAIN need : Servable(t)}

(* createJobRaw numbers the batches of the lines one after the other:      *)
(* FirstId(need, rank, t) is the id of the first batch of type t.          *)
(* Faulty variant, FirstIdOfOrder: the next id is read once per order.     *)
Batches(need) == [t \in Served(need) |-> BatchCount(PipelineOf(t), need[t])]

FirstIdOfOrder(need, rank, t) == NextId(DOMAIN jobs)

FirstId(need, rank, t) ==
  NextId(DOMAIN jobs)
    + Total({u \in Served(need) : rank[u] < rank[t]}, Batches(need))

LastId(need) ==
  NextId(DOMAIN jobs) + Total(Served(need), Batches(need)) - 1

BatchIds(need, rank, t) ==
  LET p == PipelineOf(t)
      first == FirstId(need, rank, t)
  IN  {j \in JobIds : /\ first <= j
                      /\ (j - first) * EffectiveCapacity(p) < Leftover(p, need[t])}

(* The jobs createJobRaw inserts for the order.                            *)
NewJobs(need, rank) ==
  [j \in UNION {BatchIds(need, rank, t) : t \in Served(need)} |->
     LET t == CHOOSE u \in Served(need) : j \in BatchIds(need, rank, u)
         p == PipelineOf(t)
     IN  [pipeline |-> p, productType |-> t,
          quantity |-> Batch(p, need[t], j - FirstId(need, rank, t)),
          status |-> "pending"]]

(* The units the line of type t gets from job j, 0 for no allocation; new  *)
(* are the jobs the order inserts.                                         *)
Share(need, new, t, j) ==
  CASE j \in PendingJobs(PipelineOf(t)) -> Packed(PipelineOf(t), need[t], j)
    [] j \in DOMAIN new /\ new[j].productType = t -> new[j].quantity
    [] OTHER -> 0

(* Faulty variant: the unallocated units of the job are not used first.    *)
GrowByShare(need, j) ==
  LET p == jobs[j].pipeline
      t == pipelines[p]
  IN  IF t \in Served(need) /\ j \in PendingJobs(p)
      THEN Packed(p, need[t], j) ELSE 0

(* packIntoJob: the units added to job j that its unallocated units do not *)
(* cover (growBy).                                                         *)
GrowBy(need, j) ==
  LET p == jobs[j].pipeline
      t == pipelines[p]
      toAdd == Packed(p, need[t], j)
  IN  IF t \in Served(need) /\ j \in PendingJobs(p) /\ toAdd > 0
      THEN Positive(Allocated(j) + toAdd - jobs[j].quantity)
      ELSE 0

(* createOrderTx.  Bounds: the ids it needs are at most MaxOrders and      *)
(* MaxJobs.                                                                *)
CreateOrder(need, rank) ==
  LET o     == NextId(customerOrders)
      asked == {o} \X DOMAIN need
      new   == NewJobs(need, rank)
      added == {r \in (({o} \X Served(need)) \X JobIds) :
                  Share(need, new, r[1][2], r[2]) > 0}
  IN  /\ o <= MaxOrders
      /\ LastId(need) <= MaxJobs
      /\ customerOrders' = customerOrders \cup {o}
      /\ orderLines' =
           [l \in DOMAIN orderLines \cup asked |->
              IF l \in asked THEN need[l[2]] ELSE orderLines[l]]
      /\ jobs' =
           [j \in DOMAIN jobs \cup DOMAIN new |->
              IF j \in DOMAIN new THEN new[j]
              ELSE [jobs[j] EXCEPT !.quantity = @ + GrowBy(need, j)]]
      /\ allocations' =
           [r \in DOMAIN allocations \cup added |->
              IF r \in added THEN Share(need, new, r[1][2], r[2])
              ELSE allocations[r]]
      /\ UNCHANGED <<catalogVars, departures>>

-------------------------------------------------------------------------------

AllocationsOfOrder(o) == {r \in DOMAIN allocations : r[1][1] = o}

(* jobDeltas: the units order o holds on job j.                            *)
Delta(o, j) == Total({r \in AllocationsOfOrder(o) : r[2] = j}, allocations)

Touched(o) == {r[2] : r \in AllocationsOfOrder(o)}

(* Faulty variant: the fate of a job is decided after the allocations of   *)
(* the order are gone, so every job it touches goes.                       *)
DoomedShared(o) == Touched(o)

(* jobsToDelete: no other order has an allocation on the job               *)
(* (stmtOtherAllocCount), whatever its status.                             *)
Doomed(o) == {j \in Touched(o) : AllocationsOf(j) \subseteq AllocationsOfOrder(o)}

(* jobsToShrink: a shared job gives up the units of o, but keeps one.      *)
SafeDelta(o, j) ==
  IF j \in Touched(o) THEN Lesser(Delta(o, j), jobs[j].quantity - 1) ELSE 0

(* deleteOrderTx: a doomed job goes with the events of its tray.           *)
DeleteOrder(o) ==
  /\ o \in customerOrders
  /\ allocations' = Without(allocations, AllocationsOfOrder(o))
  /\ jobs' = [j \in DOMAIN jobs \ Doomed(o) |->
                [jobs[j] EXCEPT !.quantity = @ - SafeDelta(o, j)]]
  /\ departures' = {d \in departures : d[1] \notin Doomed(o)}
  /\ orderLines' = Without(orderLines, {l \in DOMAIN orderLines : l[1] = o})
  /\ customerOrders' = customerOrders \ {o}
  /\ UNCHANGED catalogVars
===============================================================================
