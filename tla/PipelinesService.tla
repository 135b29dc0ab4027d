--------------------------- MODULE PipelinesService ---------------------------
(***************************************************************************)
(* features/pipelines/pipelines.service.ts.  A step list is a function     *)
(* from its stations to their max capacities: the position of a step only  *)
(* orders the display, and a list that names a station twice breaks        *)
(* UNIQUE(pipeline_id, station_id) and rolls the transaction back.         *)
(***************************************************************************)
EXTENDS Database

(* A step list the schema accepts: one step at least, existing stations.   *)
IsStepList(st) ==
  /\ DOMAIN st # {}
  /\ DOMAIN st \subseteq stations

(* The unique index on product_type: no other pipeline has type t.         *)
TypeFree(p, t) == \A q \in DOMAIN pipelines \ {p} : pipelines[q] # t

(* DELETE FROM pipeline_steps WHERE pipeline_id = p, then insertSteps.     *)
SetSteps(p, st) ==
  pipelineSteps' =
    [r \in (DOMAIN pipelineSteps \ StepsOf(p)) \cup ({p} \X DOMAIN st) |->
       IF r[1] = p THEN st[r[2]] ELSE pipelineSteps[r]]

CreatePipeline(p, t, st) ==
  /\ p \notin DOMAIN pipelines
  /\ TypeFree(p, t)
  /\ IsStepList(st)
  /\ pipelines' = With(pipelines, p, t)
  /\ SetSteps(p, st)
  /\ UNCHANGED <<stations, jobs, orderVars, departures>>

(* Faulty variant: the product type may change at any time.                *)
ProductTypeChangeAlwaysAllowed(p, t) == TRUE

(* assertProductTypeChangeAllowed: 422 while a job references p.           *)
ProductTypeChangeAllowed(p, t) == t = pipelines[p] \/ JobsUsing(p) = {}

(* updatePipeline (PATCH): the product type alone.                         *)
UpdatePipeline(p, t) ==
  /\ p \in DOMAIN pipelines
  /\ ProductTypeChangeAllowed(p, t)
  /\ TypeFree(p, t)
  /\ pipelines' = With(pipelines, p, t)
  /\ UNCHANGED <<stations, pipelineSteps, jobs, orderVars, departures>>

(* updatePipelineAndReplaceSteps (PUT): both, in one transaction.          *)
UpdatePipelineAndReplaceSteps(p, t, st) ==
  /\ p \in DOMAIN pipelines
  /\ ProductTypeChangeAllowed(p, t)
  /\ TypeFree(p, t)
  /\ IsStepList(st)
  /\ pipelines' = With(pipelines, p, t)
  /\ SetSteps(p, st)
  /\ UNCHANGED <<stations, jobs, orderVars, departures>>

(* replaceSteps: allowed whatever the jobs of the pipeline are doing.      *)
ReplaceSteps(p, st) ==
  /\ p \in DOMAIN pipelines
  /\ IsStepList(st)
  /\ SetSteps(p, st)
  /\ UNCHANGED <<stations, pipelines, jobs, orderVars, departures>>

(* deletePipelineTx: 409 while a job references the pipeline.              *)
DeletePipeline(p) ==
  /\ p \in DOMAIN pipelines
  /\ JobsUsing(p) = {}
  /\ pipelineSteps' = Without(pipelineSteps, StepsOf(p))
  /\ pipelines' = Without(pipelines, {p})
  /\ UNCHANGED <<stations, jobs, orderVars, departures>>
===============================================================================
