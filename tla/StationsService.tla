---------------------------- MODULE StationsService ----------------------------
(***************************************************************************)
(* features/stations/stations.service.ts, as far as jobs depend on it.     *)
(* Names, locations, slot capacities and eye assignments are not modelled  *)
(* here: no other table depends on them.                                   *)
(***************************************************************************)
EXTENDS Database

(* createStation: a row with a fresh id.                                   *)
CreateStation(s) ==
  /\ s \notin stations
  /\ stations' = stations \cup {s}
  /\ UNCHANGED <<pipelines, pipelineSteps, jobs, orderVars, departures>>

(* deleteStationTx: refused (409) while a pipeline step uses the station;  *)
(* otherwise the events seen at the station go with it.                    *)
DeleteStation(s) ==
  /\ s \in stations
  /\ \A r \in DOMAIN pipelineSteps : r[2] # s
  /\ departures' = {d \in departures : d[2] # s}
  /\ stations' = stations \ {s}
  /\ UNCHANGED <<pipelines, pipelineSteps, jobs, orderVars>>
===============================================================================
