------------------------------ MODULE JobsService ------------------------------
(***************************************************************************)
(* features/jobs/jobs.service.ts with the guards of jobs.controller.ts,    *)
(* and features/events/events.service.ts, which drives the job status.     *)
(***************************************************************************)
EXTENDS Database

NextJobId == NextId(DOMAIN jobs)

(* createJob: 422 on another product type than the pipeline's or on more   *)
(* units than its effective capacity; nothing is allocated yet.  Bounds:   *)
(* the new id is at most MaxJobs, and q at most MaxUnits.                  *)
CreateJob(p, q) ==
  /\ p \in DOMAIN pipelines
  /\ EffectiveCapacity(p) = NULL \/ q <= EffectiveCapacity(p)
  /\ NextJobId <= MaxJobs
  /\ jobs' = With(jobs, NextJobId,
                  [pipeline |-> p, productType |-> pipelines[p],
                   quantity |-> q, status |-> "pending"])
  /\ UNCHANGED <<catalogVars, orderVars, departures>>

(* Faulty variant: the events of the tray stay behind.                     *)
DeleteJobKeepingEvents(j, force) ==
  /\ j \in DOMAIN jobs
  /\ jobs[j].status = "in_progress" => force
  /\ allocations' = Without(allocations, AllocationsOf(j))
  /\ jobs' = Without(jobs, {j})
  /\ UNCHANGED <<catalogVars, customerOrders, orderLines, departures>>

(* DELETE /jobs/:id: an in-progress job needs ?force=true; deleteJobTx     *)
(* removes its allocations and every event of its tray.                    *)
DeleteJob(j, force) ==
  /\ j \in DOMAIN jobs
  /\ jobs[j].status = "in_progress" => force
  /\ allocations' = Without(allocations, AllocationsOf(j))
  /\ departures' = {d \in departures : d[1] # j}
  /\ jobs' = Without(jobs, {j})
  /\ UNCHANGED <<catalogVars, customerOrders, orderLines>>

-------------------------------------------------------------------------------

(* Faulty variant: what is allocated already is not subtracted.            *)
AvailableQuantity(j) == jobs[j].quantity

(* stmtJobAvailable: j.quantity - SUM(allocations of j).                   *)
Available(j) == jobs[j].quantity - Allocated(j)

(* addAllocationTx: 404 without the job or the line, 422 on a product type *)
(* mismatch or too large a quantity, 409 when the pair is allocated.       *)
AddAllocation(j, l, q) ==
  /\ j \in DOMAIN jobs
  /\ l \in DOMAIN orderLines
  /\ l[2] = jobs[j].productType
  /\ q <= Available(j)
  /\ <<l, j>> \notin DOMAIN allocations
  /\ allocations' = With(allocations, <<l, j>>, q)
  /\ UNCHANGED <<catalogVars, jobs, customerOrders, orderLines, departures>>

RemoveAllocation(r) ==
  /\ r \in DOMAIN allocations
  /\ allocations' = Without(allocations, {r})
  /\ UNCHANGED <<catalogVars, jobs, customerOrders, orderLines, departures>>

-------------------------------------------------------------------------------

(* SELECT COUNT(DISTINCT station_id) of the tray's 'departed' events d.    *)
DepartedCount(j, d) == Cardinality({s \in Stations : <<j, s>> \in d})

(* Faulty variant: the first event of a pending job falls through to the   *)
(* completion test.                                                        *)
NextStatusWithoutReturn(j, d) ==
  LET p == jobs[j].pipeline
  IN  CASE StepCount(p) > 0 /\ DepartedCount(j, d) >= StepCount(p) -> "completed"
        [] jobs[j].status = "pending" -> "in_progress"
        [] OTHER -> jobs[j].status

(* onTrackingEvent: the status of job j after an event, the departures     *)
(* being d.  The first event of a pending job starts it and nothing else;  *)
(* later ones complete it once as many stations have been left as its      *)
(* pipeline has steps.                                                     *)
NextStatus(j, d) ==
  LET p == jobs[j].pipeline
  IN  CASE jobs[j].status = "pending" -> "in_progress"
        [] /\ jobs[j].status = "in_progress"
           /\ StepCount(p) > 0
           /\ DepartedCount(j, d) >= StepCount(p) -> "completed"
        [] OTHER -> jobs[j].status

(* INSERT INTO tracking_events: the station must exist (foreign key), the  *)
(* tray need not.  Only the 'departed' phase adds to departures.           *)
InsertEvent(j, s, phase) ==
  /\ s \in stations
  /\ departures' = IF phase = "departed" THEN departures \cup {<<j, s>>}
                                         ELSE departures

(* POST /events: createEvent inserts the event, then calls onTrackingEvent *)
(* for its tray.                                                           *)
CreateEvent(j, s, phase) ==
  /\ InsertEvent(j, s, phase)
  /\ jobs' = IF j \in DOMAIN jobs
             THEN [jobs EXCEPT ![j].status = NextStatus(j, departures')]
             ELSE jobs
  /\ UNCHANGED <<catalogVars, orderVars>>

(* createEvent opens no transaction: a process that dies between the two   *)
(* statements leaves the event without the status change.                  *)
CrashInCreateEvent(j, s, phase) ==
  /\ InsertEvent(j, s, phase)
  /\ UNCHANGED <<catalogVars, jobs, orderVars>>
===============================================================================
