------------------------------- MODULE EventLog -------------------------------
(***************************************************************************)
(* The tracking part of the backend with the columns that Database leaves  *)
(* out: tracking_events row by row, with the phase and the time of each    *)
(* event, and pipeline steps with their positions and durations.  Backend  *)
(* keeps only the set of departures of this log; that this is enough for   *)
(* every decision the services take is KeepsSummary.                       *)
(*                                                                         *)
(* Times are ticks of the clocks of the eyes, which nothing synchronises:  *)
(* an event may carry any time, whatever was recorded before.              *)
(***************************************************************************)
EXTENDS Integers, FiniteSets, FiniteSetsExt, Functions, TLC

CONSTANTS
  Stations, Pipelines, ProductTypes,
  StepRequests,     \* step lists of the requests: station -> Step
  MaxJobs,       \* bound: job ids are 1 .. MaxJobs
  MaxEvents,     \* bound: ids of tracking_events
  MaxCapacity,   \* bound: no step capacity is larger
  Times,         \* the times events are captured at
  Phases

VARIABLES
  stations,
  pipelines,     \* pipeline -> product type
  steps,         \* <<pipeline, station>> -> Step
  jobs,          \* job -> [pipeline, productType, quantity, status]
  events,        \* id -> Event
  lastEventId    \* what AUTOINCREMENT remembers: ids are not given again

logVars == <<stations, pipelines, steps, jobs, events, lastEventId>>

-------------------------------------------------------------------------------

None == -1   \* null in an answer of the API

JobIds == 1 .. MaxJobs

Step  == [position : Nat \ {0}, maxDuration : Nat \cup {None}, maxCapacity : 0 .. MaxCapacity]
Event == [tray : JobIds, station : Stations, phase : Phases, at : Times]

ASSUME LogAssumption ==
  /\ MaxJobs \in Nat
  /\ MaxCapacity \in 0 .. 1
  /\ Phases \subseteq {"scan", "arrived", "departed"}
  /\ Times \subseteq Int
  /\ IsFiniteSet(Stations) /\ IsFiniteSet(Pipelines) /\ IsFiniteSet(ProductTypes)

ASSUME StepRequestsAssumption ==
  /\ \A st \in StepRequests :
       /\ DOMAIN st \in (SUBSET Stations) \ {{}}
       /\ st \in [DOMAIN st -> Step]
       /\ \A s, u \in DOMAIN st : st[s].position = st[u].position => s = u
       /\ \A s \in DOMAIN st : \A k \in 1 .. st[s].position :
            \E u \in DOMAIN st : st[u].position = k

EmptyTable == [k \in {} |-> None]

Init ==
  /\ stations = {}
  /\ pipelines = EmptyTable
  /\ steps = EmptyTable
  /\ jobs = EmptyTable
  /\ events = EmptyTable
  /\ lastEventId = 0

CreateStation(s) ==
  /\ s \notin stations
  /\ stations' = stations \cup {s}
  /\ UNCHANGED <<pipelines, steps, jobs, events, lastEventId>>

DeleteStation(s) ==
  /\ s \in stations
  /\ \A r \in DOMAIN steps : r[2] # s
  /\ events' = Restrict(events, {e \in DOMAIN events : events[e].station # s})
  /\ stations' = stations \ {s}
  /\ UNCHANGED <<pipelines, steps, jobs, lastEventId>>

StepsOf(p) == {r \in DOMAIN steps : r[1] = p}

SetSteps(p, st) ==
  /\ DOMAIN st \subseteq stations
  /\ steps' = [r \in (DOMAIN steps \ StepsOf(p)) \cup ({p} \X DOMAIN st) |->
                 IF r[1] = p THEN st[r[2]] ELSE steps[r]]

CreatePipeline(p, t, st) ==
  /\ p \notin DOMAIN pipelines
  /\ \A q \in DOMAIN pipelines : pipelines[q] # t
  /\ SetSteps(p, st)
  /\ pipelines' = [q \in DOMAIN pipelines \cup {p} |-> IF q = p THEN t ELSE pipelines[q]]
  /\ UNCHANGED <<stations, jobs, events, lastEventId>>

ReplaceSteps(p, st) ==
  /\ p \in DOMAIN pipelines
  /\ SetSteps(p, st)
  /\ UNCHANGED <<stations, pipelines, jobs, events, lastEventId>>

(* A job of one unit: every capacity is NULL or at least 1, so it fits.    *)
CreateJob(p) ==
  LET j == Max(DOMAIN jobs \cup {0}) + 1
  IN  /\ p \in DOMAIN pipelines
      /\ j <= MaxJobs
      /\ jobs' = [k \in DOMAIN jobs \cup {j} |->
                    IF k = j THEN [pipeline |-> p, productType |-> pipelines[p],
                                   quantity |-> 1, status |-> "pending"]
                    ELSE jobs[k]]
      /\ UNCHANGED <<stations, pipelines, steps, events, lastEventId>>

DeleteJob(j, force) ==
  /\ j \in DOMAIN jobs
  /\ jobs[j].status = "in_progress" => force
  /\ events' = Restrict(events, {e \in DOMAIN events : events[e].tray # j})
  /\ jobs' = Restrict(jobs, DOMAIN jobs \ {j})
  /\ UNCHANGED <<stations, pipelines, steps, lastEventId>>

-------------------------------------------------------------------------------

DepartedRows(j, log) == {e \in DOMAIN log : log[e].tray = j /\ log[e].phase = "departed"}

(* Faulty variant: counts the departures instead of the stations.          *)
DepartureCount(j, log) == Cardinality(DepartedRows(j, log))

(* SELECT COUNT(DISTINCT station_id) of the departed events of the tray.   *)
DepartedStationCount(j, log) == Cardinality({log[e].station : e \in DepartedRows(j, log)})

OnTrackingEvent(j, log) ==
  LET stepCount == Cardinality(StepsOf(jobs[j].pipeline))
  IN  CASE jobs[j].status = "pending" -> "in_progress"
        [] /\ jobs[j].status = "in_progress"
           /\ stepCount > 0
           /\ DepartedStationCount(j, log) >= stepCount -> "completed"
        [] OTHER -> jobs[j].status

(* Faulty variant: the sequence does not advance.                          *)
InsertEventWithStaleId(j, s, phase, at) ==
  LET id == lastEventId + 1
  IN  /\ s \in stations
      /\ id <= MaxEvents
      /\ UNCHANGED lastEventId
      /\ events' = [e \in DOMAIN events \cup {id} |->
                      IF e = id THEN [tray |-> j, station |-> s, phase |-> phase, at |-> at]
                      ELSE events[e]]

(* INSERT INTO tracking_events: the station must exist, the tray need not. *)
InsertEvent(j, s, phase, at) ==
  LET id == lastEventId + 1
  IN  /\ s \in stations
      /\ id <= MaxEvents
      /\ lastEventId' = id
      /\ events' = [e \in DOMAIN events \cup {id} |->
                      IF e = id THEN [tray |-> j, station |-> s, phase |-> phase, at |-> at]
                      ELSE events[e]]

CreateEvent(j, s, phase, at) ==
  /\ InsertEvent(j, s, phase, at)
  /\ jobs' = IF j \in DOMAIN jobs
             THEN [jobs EXCEPT ![j].status = OnTrackingEvent(j, events')]
             ELSE jobs
  /\ UNCHANGED <<stations, pipelines, steps>>

(* The process dies between the insert and the status.                     *)
CrashInCreateEvent(j, s, phase, at) ==
  /\ InsertEvent(j, s, phase, at)
  /\ UNCHANGED <<stations, pipelines, steps, jobs>>

LogNext ==
  \/ \E s \in Stations : CreateStation(s) \/ DeleteStation(s)
  \/ \E p \in Pipelines, st \in StepRequests :
       ReplaceSteps(p, st) \/ \E t \in ProductTypes : CreatePipeline(p, t, st)
  \/ \E p \in Pipelines : CreateJob(p)
  \/ \E j \in JobIds, force \in BOOLEAN : DeleteJob(j, force)
  \/ \E j \in JobIds, s \in Stations, phase \in Phases, at \in Times :
       CreateEvent(j, s, phase, at) \/ CrashInCreateEvent(j, s, phase, at)

LogSpec == Init /\ [][LogNext]_logVars

(* The steps of a pipeline are numbered from 1, one each.                  *)
StepsNumbered ==
  \A r \in DOMAIN steps :
    /\ \A u \in StepsOf(r[1]) : steps[u].position = steps[r].position => u = r
    /\ \A k \in 1 .. steps[r].position : \E u \in StepsOf(r[1]) : steps[u].position = k

(* Rows are typed, no id is above the last one given (so the next one is   *)
(* free: an event never overwrites another), jobs have a pipeline, and     *)
(* steps are numbered.                                                     *)
LogTyped ==
  /\ stations \subseteq Stations
  /\ DOMAIN pipelines \subseteq Pipelines
  /\ DOMAIN steps \subseteq Pipelines \X Stations
  /\ steps \in [DOMAIN steps -> Step]
  /\ lastEventId \in Nat
  /\ DOMAIN events \subseteq 1 .. lastEventId
  /\ events \in [DOMAIN events -> Event]
  /\ DOMAIN jobs \subseteq JobIds
  /\ \A j \in DOMAIN jobs : jobs[j].pipeline \in Pipelines
  /\ StepsNumbered

-------------------------------------------------------------------------------

(* The refinement mapping: a step is its capacity, the log is the set of   *)
(* its departures, and there are no orders.                                *)
StepCapacities == [r \in DOMAIN steps |-> steps[r].maxCapacity]

Departures ==
  {<<events[e].tray, events[e].station>> :
     e \in {x \in DOMAIN events : events[x].phase = "departed"}}

Summary == INSTANCE Backend WITH
  Stations <- Stations, Pipelines <- Pipelines, ProductTypes <- ProductTypes,
  MaxJobs <- MaxJobs, MaxOrders <- 0, MaxUnits <- 1, MaxCapacity <- MaxCapacity,
  Phases <- Phases,
  stations <- stations, pipelines <- pipelines, pipelineSteps <- StepCapacities,
  jobs <- jobs, customerOrders <- {}, orderLines <- EmptyTable,
  allocations <- EmptyTable, departures <- Departures

(* The services decide nothing from the log but the set of departures:     *)
(* with rows, times, repeated and late events the log is still a backend   *)
(* as Backend describes it, so what is proved there holds of it.           *)
KeepsSummary == Summary!Spec
===============================================================================
