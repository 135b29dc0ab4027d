---------------------------- MODULE EventLogTheorems ----------------------------
(***************************************************************************)
(* EventLog implements Backend: every step of the log is a step of the     *)
(* summary that keeps only the departures, for every set of stations,      *)
(* pipelines and step lists, any number of events and any times.           *)
(***************************************************************************)
EXTENDS EventLog, TotalsTheorems

-------------------------------------------------------------------------------

LEMMA LogTypedInit == Init => LogTyped
BY DEF Init, LogTyped, StepsNumbered, EmptyTable

LEMMA SetStepsTyped ==
  ASSUME LogTyped, NEW p \in Pipelines, NEW st \in StepRequests, SetSteps(p, st)
  PROVE  DOMAIN steps' \subseteq Pipelines \X Stations /\ steps' \in [DOMAIN steps' -> Step]
<1>1. st \in [DOMAIN st -> Step] /\ DOMAIN st \subseteq Stations
  BY StepRequestsAssumption
<1>2. QED
  BY <1>1 DEF LogTyped, SetSteps, StepsOf

LEMMA StepsStayNumbered ==
  ASSUME LogTyped, NEW p \in Pipelines, NEW st \in StepRequests, SetSteps(p, st)
  PROVE  StepsNumbered'
<1>1. /\ \A s, u \in DOMAIN st : st[s].position = st[u].position => s = u
      /\ \A s \in DOMAIN st : \A k \in 1 .. st[s].position :
           \E u \in DOMAIN st : st[u].position = k
  BY StepRequestsAssumption
<1>2. /\ \A r \in DOMAIN steps' : r[1] = p => /\ r[2] \in DOMAIN st /\ r = <<p, r[2]>>
                                             /\ steps'[r] = st[r[2]]
      /\ \A s \in DOMAIN st : <<p, s>> \in DOMAIN steps' /\ steps'[<<p, s>>] = st[s]
      /\ \A r : r[1] # p => (r \in DOMAIN steps' <=> r \in DOMAIN steps)
      /\ \A r \in DOMAIN steps : r[1] # p => steps'[r] = steps[r]
  BY DEF SetSteps, StepsOf
<1>3. SUFFICES ASSUME NEW r \in DOMAIN steps'
               PROVE  /\ \A u \in DOMAIN steps' :
                           u[1] = r[1] /\ steps'[u].position = steps'[r].position => u = r
                      /\ \A k \in 1 .. steps'[r].position :
                           \E u \in DOMAIN steps' : u[1] = r[1] /\ steps'[u].position = k
  BY DEF StepsNumbered, StepsOf
<1>4. CASE r[1] = p
  <2>1. ASSUME NEW u \in DOMAIN steps', u[1] = r[1], steps'[u].position = steps'[r].position
        PROVE  u = r
    BY <1>1, <1>2, <1>4, <2>1
  <2>2. ASSUME NEW k \in 1 .. steps'[r].position
        PROVE  \E u \in DOMAIN steps' : u[1] = r[1] /\ steps'[u].position = k
    <3>1. PICK s \in DOMAIN st : st[s].position = k
      BY <1>1, <1>2, <1>4
    <3>2. <<p, s>> \in DOMAIN steps' /\ <<p, s>>[1] = r[1] /\ steps'[<<p, s>>].position = k
      BY <1>2, <1>4, <3>1
    <3>3. QED
      BY <3>2
  <2>3. QED
    BY <2>1, <2>2
<1>5. CASE r[1] # p
  <2>1. r \in DOMAIN steps /\ steps'[r] = steps[r]
    BY <1>2, <1>5
  <2>2. /\ \A u \in DOMAIN steps : u[1] = r[1] /\ steps[u].position = steps[r].position => u = r
        /\ \A k \in 1 .. steps[r].position :
             \E u \in DOMAIN steps : u[1] = r[1] /\ steps[u].position = k
    BY <2>1 DEF LogTyped, StepsNumbered, StepsOf
  <2>3. QED
    BY <1>2, <1>5, <2>1, <2>2
<1>6. QED
  BY <1>4, <1>5

LEMMA StepsKeepNumbers ==
  ASSUME LogTyped, UNCHANGED steps
  PROVE  StepsNumbered'
BY DEF LogTyped, StepsNumbered, StepsOf

LEMMA EventTyped ==
  ASSUME LogTyped, NEW j \in JobIds, NEW s \in Stations, NEW phase \in Phases,
         NEW at \in Times, InsertEvent(j, s, phase, at)
  PROVE  /\ lastEventId' \in Nat
         /\ DOMAIN events' \subseteq 1 .. lastEventId'
         /\ events' \in [DOMAIN events' -> Event]
BY DEF LogTyped, InsertEvent, Event

(* The highest id plus one is an id within the bound.                      *)
LEMMA NewJobId ==
  ASSUME LogTyped, Max(DOMAIN jobs \cup {0}) + 1 <= MaxJobs
  PROVE  Max(DOMAIN jobs \cup {0}) + 1 \in JobIds
<1>1. DOMAIN jobs \cup {0} \in SUBSET (0 .. MaxJobs)
  BY LogAssumption DEF LogTyped, JobIds
<1>2. Max(DOMAIN jobs \cup {0}) \in DOMAIN jobs \cup {0}
  BY <1>1, MaxNat, LogAssumption
<1>3. Max(DOMAIN jobs \cup {0}) \in 0 .. MaxJobs
  BY <1>1, <1>2
<1>4. QED
  BY <1>3, LogAssumption DEF JobIds

LEMMA LogTypedStep == LogTyped /\ [LogNext]_logVars => LogTyped'
<1> SUFFICES ASSUME LogTyped, [LogNext]_logVars PROVE LogTyped'
  OBVIOUS
<1>1. ASSUME NEW s \in Stations, CreateStation(s) PROVE LogTyped'
  BY <1>1, StepsKeepNumbers DEF LogTyped, CreateStation
<1>2. ASSUME NEW s \in Stations, DeleteStation(s) PROVE LogTyped'
  BY <1>2, StepsKeepNumbers DEF LogTyped, DeleteStation, Restrict
<1>3. ASSUME NEW p \in Pipelines, NEW st \in StepRequests, ReplaceSteps(p, st) PROVE LogTyped'
  BY <1>3, SetStepsTyped, StepsStayNumbered DEF LogTyped, ReplaceSteps
<1>4. ASSUME NEW p \in Pipelines, NEW st \in StepRequests, NEW t \in ProductTypes,
             CreatePipeline(p, t, st)
      PROVE  LogTyped'
  BY <1>4, SetStepsTyped, StepsStayNumbered DEF LogTyped, CreatePipeline
<1>5. ASSUME NEW p \in Pipelines, CreateJob(p) PROVE LogTyped'
  <2>1. PICK j \in JobIds : DOMAIN jobs' = DOMAIN jobs \cup {j} /\ jobs'[j].pipeline = p
                           /\ \A k \in DOMAIN jobs \ {j} : jobs'[k] = jobs[k]
    BY <1>5, NewJobId DEF CreateJob
  <2>2. QED
    BY <1>5, <2>1, StepsKeepNumbers DEF LogTyped, CreateJob
<1>6. ASSUME NEW j \in JobIds, NEW force \in BOOLEAN, DeleteJob(j, force) PROVE LogTyped'
  BY <1>6, StepsKeepNumbers DEF LogTyped, DeleteJob, Restrict
<1>7. ASSUME NEW j \in JobIds, NEW s \in Stations, NEW phase \in Phases, NEW at \in Times,
             CreateEvent(j, s, phase, at)
      PROVE  LogTyped'
  BY <1>7, EventTyped, StepsKeepNumbers DEF LogTyped, CreateEvent
<1>8. ASSUME NEW j \in JobIds, NEW s \in Stations, NEW phase \in Phases, NEW at \in Times,
             CrashInCreateEvent(j, s, phase, at)
      PROVE  LogTyped'
  BY <1>8, EventTyped, StepsKeepNumbers DEF LogTyped, CrashInCreateEvent
<1>9. CASE UNCHANGED logVars
  BY <1>9, StepsKeepNumbers DEF LogTyped, logVars
<1>10. QED
  BY <1>1, <1>2, <1>3, <1>4, <1>5, <1>6, <1>7, <1>8, <1>9 DEF LogNext

(* The log is well typed: in particular no event takes the id of another.  *)
THEOREM LogIsTyped == LogSpec => []LogTyped
<1>1. QED
  BY LogTypedInit, LogTypedStep, PTL DEF LogSpec

-------------------------------------------------------------------------------

(* The refinement mapping, action by action.                               *)
LEMMA MemberOfDepartures ==
  \A j, s : <<j, s>> \in Departures <=>
             \E e \in DOMAIN events : /\ events[e].phase = "departed"
                                     /\ events[e].tray = j /\ events[e].station = s
BY DEF Departures

LEMMA DeparturesArePairs ==
  ASSUME LogTyped
  PROVE  Departures \subseteq JobIds \X Stations
BY DEF LogTyped, Event, Departures

LEMMA StationRemoved ==
  ASSUME LogTyped, NEW s \in Stations, DeleteStation(s)
  PROVE  Departures' = {d \in Departures : d[2] # s}
BY DEF Departures, DeleteStation, Restrict, LogTyped, Event

LEMMA TrayRemoved ==
  ASSUME LogTyped, NEW j \in JobIds, NEW force, DeleteJob(j, force)
  PROVE  Departures' = {d \in Departures : d[1] # j}
BY DEF Departures, DeleteJob, Restrict, LogTyped, Event

LEMMA EventInserted ==
  ASSUME LogTyped, NEW j \in JobIds, NEW s \in Stations, NEW phase \in Phases,
         NEW at \in Times, InsertEvent(j, s, phase, at)
  PROVE  Departures' = IF phase = "departed" THEN Departures \cup {<<j, s>>} ELSE Departures
<1>1. lastEventId + 1 \notin DOMAIN events
  BY DEF LogTyped
<1>2. QED
  BY <1>1 DEF InsertEvent, Departures

(* COUNT(DISTINCT station_id) counts the stations departures names.        *)
LEMMA SameCount ==
  ASSUME NEW j \in JobIds, LogTyped'
  PROVE  DepartedStationCount(j, events') = Summary!DepartedCount(j, Departures')
<1>1. {events'[e].station : e \in DepartedRows(j, events')}
        = {s \in Stations : <<j, s>> \in Departures'}
  BY DEF DepartedRows, Departures, LogTyped, Event
<1>2. QED
  BY <1>1 DEF DepartedStationCount, Summary!DepartedCount, Cardinality, Summary!Cardinality

LEMMA SameSteps == \A p : Summary!StepsOf(p) = StepsOf(p)
BY DEF Summary!StepsOf, StepsOf, StepCapacities


(* The tables the log does not have are empty and stay so.                 *)
LEMMA NoAllocations ==
  \A j : Summary!Without(EmptyTable, Summary!AllocationsOf(j)) = EmptyTable
BY DEF Summary!Without, Summary!AllocationsOf, EmptyTable

LEMMA StepsSet ==
  ASSUME LogTyped, NEW p \in Pipelines, NEW st \in StepRequests, SetSteps(p, st)
  PROVE  LET caps == [s \in DOMAIN st |-> st[s].maxCapacity]
         IN  /\ caps \in Summary!StepLists
             /\ Summary!IsStepList(caps)
             /\ Summary!SetSteps(p, caps)
<1> DEFINE caps == [s \in DOMAIN st |-> st[s].maxCapacity]
<1>1. /\ DOMAIN st \in SUBSET Stations /\ DOMAIN st # {}
      /\ st \in [DOMAIN st -> Step] /\ DOMAIN st \subseteq stations
  BY StepRequestsAssumption DEF SetSteps
<1>2. caps \in [DOMAIN st -> 0 .. MaxCapacity]
  BY <1>1 DEF Step
<1>3. caps \in Summary!StepLists
  BY <1>1, <1>2 DEF Summary!StepLists, Summary!Capacity
<1>4. Summary!IsStepList(caps)
  BY <1>1 DEF Summary!IsStepList
<1>5. Summary!SetSteps(p, caps)
  <2>1. DOMAIN steps' = (DOMAIN steps \ StepsOf(p)) \cup ({p} \X DOMAIN st)
    BY DEF SetSteps
  <2>2. \A r \in DOMAIN steps' :
          steps'[r] = IF r[1] = p THEN st[r[2]] ELSE steps[r]
    BY DEF SetSteps
  <2>3. \A r \in DOMAIN steps' : IF r[1] = p THEN r[2] \in DOMAIN st ELSE r \in DOMAIN steps
    BY <2>1 DEF StepsOf
  <2>4. StepCapacities' = [r \in DOMAIN steps' |->
                             IF r[1] = p THEN caps[r[2]] ELSE StepCapacities[r]]
    BY <2>2, <2>3 DEF StepCapacities
  <2>5. DOMAIN StepCapacities = DOMAIN steps
    BY DEF StepCapacities
  <2>6. QED
    BY <2>1, <2>4, <2>5, SameSteps DEF Summary!SetSteps
<1>6. QED
  BY <1>3, <1>4, <1>5

(* A job of one unit fits whatever the capacities are: they are 0 (none)   *)
(* or 1.                                                                   *)
LEMMA UnitFits ==
  ASSUME LogTyped, NEW p \in Pipelines
  PROVE  Summary!EffectiveCapacity(p) = Summary!NULL \/ 1 <= Summary!EffectiveCapacity(p)
<1> DEFINE caps == {StepCapacities[r] : r \in Summary!StepsOf(p)} \ {Summary!NULL}
<1>1. caps \subseteq {1}
  <2>1. \A r \in DOMAIN steps : steps[r].maxCapacity \in 0 .. 1
    BY LogAssumption DEF LogTyped, Step
  <2>2. \A r \in StepsOf(p) : StepCapacities[r] \in 0 .. 1
    BY <2>1 DEF StepCapacities, StepsOf
  <2>3. QED
    BY <2>2, SameSteps DEF Summary!NULL
<1>2. CASE caps = {}
  BY <1>2 DEF Summary!EffectiveCapacity
<1>3. CASE caps = {1}
  BY <1>3 DEF Summary!EffectiveCapacity, Summary!Min
<1>4. QED
  BY <1>1, <1>2, <1>3

LEMMA InitMaps == Init => Summary!Init
BY DEF Init, Summary!Init, EmptyTable, Summary!EmptyTable, Summary!NULL, None,
       StepCapacities, Departures

LEMMA StationMaps ==
  ASSUME LogTyped, NEW s \in Stations
  PROVE  /\ CreateStation(s) => Summary!CreateStation(s)
         /\ DeleteStation(s) => Summary!DeleteStation(s)
<1>1. ASSUME CreateStation(s) PROVE Summary!CreateStation(s)
  BY <1>1 DEF CreateStation, Summary!CreateStation, StepCapacities, Departures,
              Summary!orderVars, EmptyTable
<1>2. ASSUME DeleteStation(s) PROVE Summary!DeleteStation(s)
  BY <1>2, StationRemoved
  DEF DeleteStation, Summary!DeleteStation, StepCapacities, Summary!orderVars, EmptyTable
<1>3. QED
  BY <1>1, <1>2

LEMMA PipelineMaps ==
  ASSUME LogTyped, NEW p \in Pipelines, NEW st \in StepRequests
  PROVE  /\ ReplaceSteps(p, st) => \E caps \in Summary!StepLists : Summary!ReplaceSteps(p, caps)
         /\ \A t \in ProductTypes :
              CreatePipeline(p, t, st)
                => \E caps \in Summary!StepLists : Summary!CreatePipeline(p, t, caps)
<1>1. ASSUME ReplaceSteps(p, st)
      PROVE  \E caps \in Summary!StepLists : Summary!ReplaceSteps(p, caps)
  <2>1. PICK caps \in Summary!StepLists : Summary!IsStepList(caps) /\ Summary!SetSteps(p, caps)
    BY <1>1, StepsSet DEF ReplaceSteps
  <2>2. Summary!ReplaceSteps(p, caps)
    BY <1>1, <2>1 DEF ReplaceSteps, Summary!ReplaceSteps, Departures, Summary!orderVars, EmptyTable
  <2>3. QED
    BY <2>2
<1>2. ASSUME NEW t \in ProductTypes, CreatePipeline(p, t, st)
      PROVE  \E caps \in Summary!StepLists : Summary!CreatePipeline(p, t, caps)
  <2>1. PICK caps \in Summary!StepLists : Summary!IsStepList(caps) /\ Summary!SetSteps(p, caps)
    BY <1>2, StepsSet DEF CreatePipeline
  <2>2. Summary!CreatePipeline(p, t, caps)
    BY <1>2, <2>1
    DEF CreatePipeline, Summary!CreatePipeline, Summary!TypeFree, Summary!With, Departures,
        Summary!orderVars, EmptyTable
  <2>3. QED
    BY <2>2
<1>3. QED
  BY <1>1, <1>2

LEMMA CreateJobMaps ==
  ASSUME LogTyped, NEW p \in Pipelines, CreateJob(p)
  PROVE  Summary!CreateJob(p, 1)
<1>1. Summary!NextJobId = Max(DOMAIN jobs \cup {0}) + 1
  BY DEF Summary!NextJobId, Summary!NextId, Summary!Max, Max
<1>2. UNCHANGED <<StepCapacities, Departures, EmptyTable>>
  BY DEF CreateJob, StepCapacities, Departures, EmptyTable
<1>3. QED
  BY <1>1, <1>2, UnitFits
  DEF CreateJob, Summary!CreateJob, Summary!With, Summary!catalogVars, Summary!orderVars

LEMMA DeleteJobMaps ==
  ASSUME LogTyped, NEW j \in JobIds, NEW force \in BOOLEAN, DeleteJob(j, force)
  PROVE  Summary!DeleteJob(j, force)
<1>1. UNCHANGED <<StepCapacities, EmptyTable>>
  BY DEF DeleteJob, StepCapacities, EmptyTable
<1>2. jobs' = Summary!Without(jobs, {j})
  BY DEF DeleteJob, Restrict, Summary!Without
<1>3. QED
  BY <1>1, <1>2, TrayRemoved, NoAllocations
  DEF DeleteJob, Summary!DeleteJob, Summary!catalogVars

LEMMA EventMaps ==
  ASSUME LogTyped, NEW j \in JobIds, NEW s \in Stations, NEW phase \in Phases, NEW at \in Times
  PROVE  /\ CreateEvent(j, s, phase, at) => Summary!CreateEvent(j, s, phase)
         /\ CrashInCreateEvent(j, s, phase, at) => Summary!CrashInCreateEvent(j, s, phase)
<1>1. ASSUME CreateEvent(j, s, phase, at) PROVE Summary!CreateEvent(j, s, phase)
  <2>1. Summary!InsertEvent(j, s, phase)
    BY <1>1, EventInserted DEF CreateEvent, InsertEvent, Summary!InsertEvent
  <2>2. UNCHANGED <<StepCapacities, EmptyTable>>
    BY <1>1 DEF CreateEvent, StepCapacities, EmptyTable
  <2>3. LogTyped'
    BY <1>1, LogTypedStep DEF LogNext
  <2>4. OnTrackingEvent(j, events') = Summary!NextStatus(j, Departures')
    <3>1. Cardinality(StepsOf(jobs[j].pipeline)) = Summary!StepCount(jobs[j].pipeline)
      BY SameSteps DEF Summary!StepCount, Cardinality, Summary!Cardinality
    <3>2. QED
      BY <2>3, <3>1, SameCount DEF OnTrackingEvent, Summary!NextStatus
  <2>5. QED
    BY <1>1, <2>1, <2>2, <2>4
    DEF CreateEvent, Summary!CreateEvent, Summary!catalogVars, Summary!orderVars
<1>2. ASSUME CrashInCreateEvent(j, s, phase, at) PROVE Summary!CrashInCreateEvent(j, s, phase)
  <2>1. Summary!InsertEvent(j, s, phase)
    BY <1>2, EventInserted DEF CrashInCreateEvent, InsertEvent, Summary!InsertEvent
  <2>2. UNCHANGED <<StepCapacities, EmptyTable>>
    BY <1>2 DEF CrashInCreateEvent, StepCapacities, EmptyTable
  <2>3. QED
    BY <1>2, <2>1, <2>2
    DEF CrashInCreateEvent, Summary!CrashInCreateEvent, Summary!catalogVars, Summary!orderVars
<1>3. QED
  BY <1>1, <1>2

LEMMA StepMaps == LogTyped /\ [LogNext]_logVars => [Summary!Next]_(Summary!vars)
<1> SUFFICES ASSUME LogTyped, [LogNext]_logVars PROVE [Summary!Next]_(Summary!vars)
  OBVIOUS
<1> USE DEF Summary!Next
<1>1. ASSUME NEW s \in Stations, CreateStation(s) \/ DeleteStation(s) PROVE Summary!Next
  BY <1>1, StationMaps DEF Summary!CatalogNext
<1>2. ASSUME NEW p \in Pipelines, NEW st \in StepRequests,
             ReplaceSteps(p, st) \/ \E t \in ProductTypes : CreatePipeline(p, t, st)
      PROVE  Summary!Next
  BY <1>2, PipelineMaps DEF Summary!CatalogNext
<1>3. ASSUME NEW p \in Pipelines, CreateJob(p) PROVE Summary!Next
  BY <1>3, CreateJobMaps DEF Summary!JobsNext, Summary!Quantity
<1>4. ASSUME NEW j \in JobIds, NEW force \in BOOLEAN, DeleteJob(j, force) PROVE Summary!Next
  BY <1>4, DeleteJobMaps DEF Summary!JobsNext, Summary!JobIds, JobIds
<1>5. ASSUME NEW j \in JobIds, NEW s \in Stations, NEW phase \in Phases, NEW at \in Times,
             CreateEvent(j, s, phase, at) \/ CrashInCreateEvent(j, s, phase, at)
      PROVE  Summary!Next
  BY <1>5, EventMaps DEF Summary!EventsNext, Summary!JobIds, JobIds
<1>6. CASE UNCHANGED logVars
  <2>1. UNCHANGED (Summary!vars)
    BY <1>6 DEF logVars, Summary!vars, StepCapacities, Departures, EmptyTable
  <2>2. QED
    BY <2>1
<1>7. QED
  BY <1>1, <1>2, <1>3, <1>4, <1>5, <1>6 DEF LogNext

(* The log implements the summary: what Backend says of jobs and           *)
(* departures holds of the rows, for all stations, pipelines, step lists,  *)
(* times and any number of events.                                         *)
THEOREM LogKeepsSummary == LogSpec => KeepsSummary
<1>1. QED
  BY LogIsTyped, InitMaps, StepMaps, PTL DEF LogSpec, KeepsSummary, Summary!Spec
===============================================================================
