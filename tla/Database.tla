------------------------------- MODULE Database -------------------------------
(***************************************************************************)
(* The SQLite schema of the manu-gen backend (backend/src/db.ts): one      *)
(* variable per table, a table being a function from its natural key to    *)
(* the columns the services read.  The key carries the UNIQUE constraints: *)
(*                                                                         *)
(*   pipelines       id                        -> product_type             *)
(*   pipelineSteps   <<pipeline, station>>     -> max_capacity             *)
(*   jobs            id (tray TRAY-<id>)       -> JobRow                   *)
(*   orderLines      <<order, product type>>   -> quantity                 *)
(*   allocations     <<order line, job>>       -> quantity                 *)
(*                                                                         *)
(* tracking_events is kept as the set of <<tray, station>> pairs that have *)
(* a row with phase 'departed', the only thing the backend decides from.   *)
(* A tray code is formatTrayCode(job id), an injection, so a tray is named *)
(* by the id of the job that carries it; the table has no foreign key to   *)
(* jobs, so a pair may name a tray no job carries yet.                     *)
(***************************************************************************)
EXTENDS Integers, FiniteSets, Functions, FiniteSetsExt, Totals

CONSTANTS
  Stations,      \* ids generateId() may return for stations
  Pipelines,     \* ids generateId() may return for pipelines
  ProductTypes,  \* product types named by requests, none of them empty
  MaxJobs,       \* bound: job ids are 1 .. MaxJobs
  MaxOrders,     \* bound: customer order ids are 1 .. MaxOrders
  MaxUnits,      \* bound: no requested quantity is larger
  MaxCapacity,   \* bound: no step capacity is larger
  Phases         \* phases the tracking events of a run have

ASSUME BoundsAssumption ==
  /\ MaxJobs \in Nat
  /\ MaxOrders \in Nat
  /\ MaxUnits \in Nat
  /\ MaxCapacity \in 0 .. MaxUnits

ASSUME PhasesAssumption == Phases \subseteq {"scan", "arrived", "departed"}

ASSUME FiniteAssumption ==
  /\ IsFiniteSet(ProductTypes)
  /\ IsFiniteSet(Pipelines)
  /\ IsFiniteSet(Stations)

VARIABLES
  stations,        \* set of station ids
  pipelines,
  pipelineSteps,
  jobs,
  customerOrders,  \* set of order ids
  orderLines,
  allocations,
  departures       \* set of <<tray, station>> with a 'departed' event

vars == <<stations, pipelines, pipelineSteps, jobs, customerOrders,
          orderLines, allocations, departures>>

catalogVars == <<stations, pipelines, pipelineSteps>>
orderVars   == <<customerOrders, orderLines, allocations>>

-------------------------------------------------------------------------------

JobIds    == 1 .. MaxJobs
OrderIds  == 1 .. MaxOrders
Quantity  == 1 .. MaxUnits
Lines     == OrderIds \X ProductTypes
StepKeys  == Pipelines \X Stations
AllocKeys == Lines \X JobIds

(* max_capacity is NULL or a positive integer (stepSchema: min(1)).        *)
NULL     == 0
Capacity == 0 .. MaxCapacity

Status == {"pending", "in_progress", "completed"}

JobRow == [pipeline : Pipelines, productType : ProductTypes,
           quantity : Quantity, status : Status]

(* t is a table whose keys are in K and whose rows are in R.               *)
IsTable(t, K, R) == DOMAIN t \subseteq K /\ t \in [DOMAIN t -> R]

EmptyTable == [k \in {} |-> NULL]

(* The table t with the row r at key k, and t without the keys of S.       *)
With(t, k, r) == [x \in DOMAIN t \cup {k} |-> IF x = k THEN r ELSE t[x]]

Without(t, S) == [x \in DOMAIN t \ S |-> t[x]]

(* SELECT COALESCE(MAX(id), 0) + 1: the highest id of the table plus one,  *)
(* which is an id used before when the highest row has been deleted.       *)
NextId(S) == Max(S \cup {0}) + 1

-------------------------------------------------------------------------------

(* The queries that several services share.                                *)
StepsOf(p)  == {r \in DOMAIN pipelineSteps : r[1] = p}
StepCount(p) == Cardinality(StepsOf(p))

(* Faulty variant: completed and running jobs do not count as references.  *)
JobsUsingPending(p) ==
  {j \in DOMAIN jobs : jobs[j].pipeline = p /\ jobs[j].status = "pending"}

JobsUsing(p) == {j \in DOMAIN jobs : jobs[j].pipeline = p}

EffectiveCapacity(p) ==
  LET caps == {pipelineSteps[r] : r \in StepsOf(p)} \ {NULL}
  IN  IF caps = {} THEN NULL ELSE Min(caps)

AllocationsOf(j) == {r \in DOMAIN allocations : r[2] = j}

Allocated(j) == Total(AllocationsOf(j), allocations)

LineAllocated(l) == Total({r \in DOMAIN allocations : r[1] = l}, allocations)

(* db.ts creates every table empty.                                        *)
Init ==
  /\ stations = {}
  /\ pipelines = EmptyTable
  /\ pipelineSteps = EmptyTable
  /\ jobs = EmptyTable
  /\ customerOrders = {}
  /\ orderLines = EmptyTable
  /\ allocations = EmptyTable
  /\ departures = {}

(* Every row has the columns its CREATE TABLE and the zod schemas allow,   *)
(* and no two pipelines share a product type (the UNIQUE index that        *)
(* getPipelineByProductType relies on).                                    *)
TypeOK ==
  /\ stations \subseteq Stations
  /\ IsTable(pipelines, Pipelines, ProductTypes)
  /\ IsInjective(pipelines)
  /\ IsTable(pipelineSteps, StepKeys, Capacity)
  /\ IsTable(jobs, JobIds, JobRow)
  /\ customerOrders \subseteq OrderIds
  /\ IsTable(orderLines, Lines, Quantity)
  /\ IsTable(allocations, AllocKeys, Quantity)
  /\ departures \subseteq JobIds \X Stations
===============================================================================
