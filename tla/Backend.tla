-------------------------------- MODULE Backend --------------------------------
(***************************************************************************)
(* The manu-gen backend: the services over one database.  Express handlers *)
(* and better-sqlite3 are synchronous, so a request runs to its end before *)
(* the next one starts and each request is one step; only a process that   *)
(* dies can separate the statements of a handler that opens no transaction *)
(* (CrashInCreateEvent).                                                   *)
(***************************************************************************)
EXTENDS StationsService, PipelinesService, JobsService, CustomerOrdersService

(* The step lists a request may carry.                                     *)
StepLists == UNION {[S -> Capacity] : S \in (SUBSET Stations) \ {{}}}

CatalogNext ==
  \/ \E s \in Stations : CreateStation(s) \/ DeleteStation(s)
  \/ \E p \in Pipelines :
       \/ DeletePipeline(p)
       \/ \E t \in ProductTypes : UpdatePipeline(p, t)
       \/ \E st \in StepLists :
            \/ ReplaceSteps(p, st)
            \/ \E t \in ProductTypes :
                 \/ CreatePipeline(p, t, st)
                 \/ UpdatePipelineAndReplaceSteps(p, t, st)

JobsNext ==
  \/ \E p \in Pipelines, q \in Quantity : CreateJob(p, q)
  \/ \E j \in JobIds, force \in BOOLEAN : DeleteJob(j, force)
  \/ \E j \in JobIds, l \in Lines, q \in Quantity : AddAllocation(j, l, q)
  \/ \E r \in AllocKeys : RemoveAllocation(r)

EventsNext ==
  \E j \in JobIds, s \in Stations, phase \in Phases :
    CreateEvent(j, s, phase) \/ CrashInCreateEvent(j, s, phase)

OrdersNext ==
  \/ \E T \in (SUBSET ProductTypes) \ {{}} :
       \E need \in [T -> Quantity], rank \in Bijection(T, 1 .. Cardinality(T)) :
         CreateOrder(need, rank)
  \/ \E o \in OrderIds : DeleteOrder(o)

Next == CatalogNext \/ JobsNext \/ EventsNext \/ OrdersNext

Spec == Init /\ [][Next]_vars

-------------------------------------------------------------------------------

(* No job promises more units than it has: the allocations of a job never  *)
(* sum to more than its quantity, through packing, manual allocation and   *)
(* the shrinking done by order deletion (availableToAllocate is            *)
(* non-negative, docs/api/job-allocations.md).                             *)
JobNotOverAllocated ==
  \A j \in DOMAIN jobs : Allocated(j) <= jobs[j].quantity

(* What a job makes is what its pipeline makes, and what every line it is  *)
(* allocated to asks for, although product types of pipelines change.      *)
ProductTypesAgree ==
  /\ \A j \in DOMAIN jobs : jobs[j].productType = pipelines[jobs[j].pipeline]
  /\ \A r \in DOMAIN allocations : r[1][2] = jobs[r[2]].productType

(* No handler relies on a foreign key to fail: every row that is referred  *)
(* to exists, whatever was deleted before and in which order.              *)
ReferencesExist ==
  /\ \A r \in DOMAIN pipelineSteps : r[1] \in DOMAIN pipelines /\ r[2] \in stations
  /\ \A j \in DOMAIN jobs : jobs[j].pipeline \in DOMAIN pipelines
  /\ \A l \in DOMAIN orderLines : l[1] \in customerOrders
  /\ \A r \in DOMAIN allocations : r[1] \in DOMAIN orderLines /\ r[2] \in DOMAIN jobs
  /\ \A d \in departures : d[2] \in stations

-------------------------------------------------------------------------------

(* A new order is served at once and exactly: each line gets all its units *)
(* if its product has a pipeline with a capacity, and none otherwise; the  *)
(* lines of the other orders are left alone.                               *)
OrderServedExactly ==
  [][\A o \in customerOrders' \ customerOrders :
       /\ \A l \in DOMAIN orderLines' :
            l[1] = o => LineAllocated(l)' = IF Servable(l[2]) THEN orderLines'[l] ELSE 0
       /\ \A l \in DOMAIN orderLines : LineAllocated(l)' = LineAllocated(l)]_vars

(* An order is packed into space that is there: it grows only pending      *)
(* jobs, never above the capacity of their pipeline, and opens a new batch *)
(* only when every pending job of the pipeline is full.                    *)
PackedInto(j) ==
  jobs'[j].quantity > jobs[j].quantity
    => /\ jobs[j].status = "pending"
       /\ jobs'[j].quantity <= EffectiveCapacity(jobs[j].pipeline)

Opened(k) ==
  LET p == jobs'[k].pipeline
  IN  /\ jobs'[k].quantity <= EffectiveCapacity(p)
      /\ \A j \in PendingJobs(p) : Allocated(j)' >= EffectiveCapacity(p)

OrdersPack ==
  customerOrders' \ customerOrders # {}
    => /\ \A j \in DOMAIN jobs : PackedInto(j)
       /\ \A k \in DOMAIN jobs' \ DOMAIN jobs : Opened(k)

(* Every step packs an order that way (autoCreateAndAllocate).             *)
PackingWithinCapacity == [][OrdersPack]_vars

(* Deleting an order takes nothing from the others: their allocations stay *)
(* as they are, and every job that serves one of them survives with the    *)
(* same unallocated units (so the floor of one unit never decides).        *)
OthersKeepTheirs ==
  \A o \in customerOrders \ customerOrders' :
    /\ \A r \in DOMAIN allocations :
         r[1][1] # o => r \in DOMAIN allocations' /\ allocations'[r] = allocations[r]
    /\ \A j \in DOMAIN jobs :
         (\E r \in AllocationsOf(j) : r[1][1] # o)
           => j \in DOMAIN jobs' /\ Available(j)' = Available(j)

(* Every step keeps what the other orders have (deleteOrderTx).            *)
DeletionIsolated == [][OthersKeepTheirs]_vars

(* The only changes of status: a job starts, or a job that had started     *)
(* completes, with as many stations left behind as its pipeline has steps. *)
StatusStep(j) ==
  \/ jobs[j].status = "pending" /\ jobs'[j].status = "in_progress"
  \/ /\ jobs[j].status = "in_progress" /\ jobs'[j].status = "completed"
     /\ DepartedCount(j, departures') >= StepCount(jobs[j].pipeline)

StatusStepsOnly ==
  \A j \in DOMAIN jobs \cap DOMAIN jobs' :
    jobs'[j].status # jobs[j].status => StatusStep(j)

(* No request skips a state, returns to one or completes a job that its    *)
(* departures do not complete, whatever happens to the pipeline, the       *)
(* stations and the events meanwhile (onTrackingEvent).                    *)
StatusMovesForward == [][StatusStepsOnly]_vars

(* Job ids, and with them tray codes, are given again once the highest job *)
(* is deleted: however a job disappears, by DELETE /jobs/:id or with its   *)
(* order, no departure of its tray stays behind for the next job.          *)
DeparturesGo ==
  \A j \in DOMAIN jobs \ DOMAIN jobs' : \A d \in departures' : d[1] # j

(* Every step takes the departures of the jobs it deletes along.           *)
NoDepartureOutlivesJob == [][DeparturesGo]_vars

-------------------------------------------------------------------------------

(* What the documentation, the tests and the messages say of the status,   *)
(* and the code does not do.                                               *)

(* "Completed - tray scanned out of final station" (PRD, tracking states)  *)
(* and "should transition in_progress to completed when all steps          *)
(* departed" (jobs.service.test.ts): a job becomes completed only when     *)
(* every station of its pipeline has been left.                            *)
CompletedWhenAllStepsDeparted ==
  [][\A j \in DOMAIN jobs \cap DOMAIN jobs' :
       jobs[j].status # "completed" /\ jobs'[j].status = "completed"
         => \A r \in StepsOf(jobs[j].pipeline) : <<j, r[2]>> \in departures']_vars

(* "Cannot delete ...: job is in progress. Use ?force=true to override."   *)
(* (jobs.controller.ts): only a forced DELETE /jobs/:id removes a job that *)
(* is in progress.                                                         *)
InProgressDeletedOnlyByForce ==
  [][\A j \in DOMAIN jobs \ DOMAIN jobs' :
       jobs[j].status = "in_progress" => DeleteJob(j, TRUE)]_vars
===============================================================================
