------------------------------ MODULE OrderReports ------------------------------
(***************************************************************************)
(* What the program shows of customer orders: the figures                  *)
(* customer-orders.service.ts computes for the list and the detail, those  *)
(* the pages derive from them, what GET /jobs/:id says is left of a job,   *)
(* and the order metrics of analytics.service.ts.  Nothing decides from    *)
(* them; they are pure functions of the database.                          *)
(***************************************************************************)
EXTENDS Backend

(* Math.round of a / b, and of part / whole in percent.                    *)
Rounded(a, b) == (2 * a + b) \div (2 * b)

Percent(part, whole) == Rounded(100 * part, whole)

LinesOf(o) == {l \in DOMAIN orderLines : l[1] = o}

AllocationsOfLine(l) == {r \in DOMAIN allocations : r[1] = l}

(* stmtFulfilledCountByLine: the units on completed jobs (a JOIN).         *)
LineFulfilled(l) ==
  Total({r \in AllocationsOfLine(l) :
           r[2] \in DOMAIN jobs /\ jobs[r[2]].status = "completed"}, allocations)

(* Faulty variant: units beyond the line's quantity count.                 *)
CountedAll(l, units) == units

(* computePcts: a line that has more than it asked for, which manual       *)
(* allocation permits, counts for what it asked.                           *)
Counted(l, units) == Lesser(units, orderLines[l])

Requested(o) == Total(LinesOf(o), orderLines)

Pct(o, units) ==
  IF LinesOf(o) = {} THEN 0
  ELSE Percent(Total(LinesOf(o), [l \in LinesOf(o) |-> Counted(l, units[l])]), Requested(o))

AllocationPct(o)  == Pct(o, [l \in LinesOf(o) |-> LineAllocated(l)])
FulfillmentPct(o) == Pct(o, [l \in LinesOf(o) |-> LineFulfilled(l)])

(* CustomerOrderDetail: the progress of a line, and the number of jobs,    *)
(* which is that of the lines as long as no line has one.                  *)
LinePct(l) == Percent(Lesser(LineFulfilled(l), orderLines[l]), orderLines[l])

JobsOfOrder(o) == {r[2] : r \in {a \in DOMAIN allocations : a[1][1] = o}}

JobCount(o) ==
  IF JobsOfOrder(o) = {} THEN Cardinality(LinesOf(o)) ELSE Cardinality(JobsOfOrder(o))

(* buildJobDetail.                                                         *)
AvailableToAllocate(j) == Positive(jobs[j].quantity - Allocated(j))

-------------------------------------------------------------------------------

(* getOrderMetrics: ten times the average, over the orders that have jobs, *)
(* and the rows of the LEFT JOIN of the lines of a type with their         *)
(* allocations, a line being in as many rows as it has allocations.        *)
OrdersWithJobs == {o \in customerOrders : JobsOfOrder(o) # {}}

TenAvgJobsPerOrder ==
  IF OrdersWithJobs = {} THEN 0
  ELSE Rounded(10 * Total(OrdersWithJobs,
                          [o \in OrdersWithJobs |-> Cardinality(JobsOfOrder(o))]),
               Cardinality(OrdersWithJobs))

LinesOfType(t) == {l \in DOMAIN orderLines : l[2] = t}

JoinedRows(l) == IF AllocationsOfLine(l) = {} THEN 1 ELSE Cardinality(AllocationsOfLine(l))

TotalQuantity(t) ==
  Total(LinesOfType(t), [l \in LinesOfType(t) |-> orderLines[l] * JoinedRows(l)])

FulfilledQuantity(t) ==
  Total(LinesOfType(t), [l \in LinesOfType(t) |-> LineFulfilled(l) * JoinedRows(l)])

JobCountOfType(t) ==
  Cardinality({r[2] : r \in {a \in DOMAIN allocations : a[1][2] = t}})

-------------------------------------------------------------------------------

(* An order reads 100 % only when each of its lines does (up to 199 units, *)
(* from where a missing unit is rounded away): units one line has too many *)
(* do not stand for those another lacks.  No order is further fulfilled    *)
(* than allocated.                                                         *)
ProgressIsHonest ==
  \A o \in customerOrders :
    /\ FulfillmentPct(o) <= AllocationPct(o) /\ AllocationPct(o) <= 100
    /\ Requested(o) < 200 =>
         /\ AllocationPct(o) = 100
              <=> LinesOf(o) # {} /\ \A l \in LinesOf(o) : LineAllocated(l) >= orderLines[l]
         /\ FulfillmentPct(o) = 100
              <=> LinesOf(o) # {} /\ \A l \in LinesOf(o) : LinePct(l) = 100

(* The metrics agree with the orders they sum up: the average number of    *)
(* jobs lies between those of the orders, a type's total is what was       *)
(* ordered of it unless a line has several allocations, and is then more,  *)
(* and a type of which units are fulfilled has jobs.                       *)
MetricsAgree ==
  /\ OrdersWithJobs # {} =>
       /\ \E o \in OrdersWithJobs : TenAvgJobsPerOrder <= 10 * JobCount(o)
       /\ \E o \in OrdersWithJobs : TenAvgJobsPerOrder >= 10 * JobCount(o)
  /\ \A t \in ProductTypes :
       /\ TotalQuantity(t) >= Total(LinesOfType(t), orderLines)
       /\ TotalQuantity(t) = Total(LinesOfType(t), orderLines)
            <=> \A l \in LinesOfType(t) : Cardinality(AllocationsOfLine(l)) <= 1
       /\ JobCountOfType(t) <= Cardinality({j \in DOMAIN jobs : jobs[j].productType = t})
       /\ FulfilledQuantity(t) > 0 => JobCountOfType(t) > 0

(* What the job page says is left of a job is what addAllocation lets one  *)
(* take: its floor of zero never decides.                                  *)
LeftIsAvailable == \A j \in DOMAIN jobs : AvailableToAllocate(j) = Available(j)

(* The figures of the orders and jobs pages, in every database.            *)
OrderFiguresAgree == ProgressIsHonest /\ MetricsAgree /\ LeftIsAvailable

(* What is fulfilled stays fulfilled: an order's figure goes back only     *)
(* when somebody deletes a job or removes an allocation of that order,     *)
(* never by packing, by events or by what happens to the other orders,     *)
(* the stations or the pipelines.                                          *)
OrderProgressKept ==
  [][\A o \in customerOrders \cap customerOrders' :
       FulfillmentPct(o)' < FulfillmentPct(o)
         => \/ \E j \in JobsOfOrder(o), force \in BOOLEAN : DeleteJob(j, force)
            \/ \E r \in {a \in DOMAIN allocations : a[1][1] = o} : RemoveAllocation(r)]_vars
===============================================================================
