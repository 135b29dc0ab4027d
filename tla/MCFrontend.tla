------------------------------ MODULE MCFrontend ------------------------------
(***************************************************************************)
(* The frontend for TLC.  App.tsx mounts one page at a time and a page     *)
(* loses its local state when it is left, so a behaviour is that of one    *)
(* page, or of the query cache under the screens, chosen at the start; the *)
(* variables of the others are parked in an initial state in which nothing *)
(* that has a fairness condition is enabled.                               *)
(***************************************************************************)
EXTENDS StationPages, PipelinePages, OrderForm, OrderAllocations, JobPages, QueryCache

VARIABLE part

Parts == {"stations", "pipelines", "order form", "allocations", "jobs", "cache"}

pagesVars ==
  <<part, stationPageVars, pipelinePageVars, orderFormVars, orderAllocationVars,
    jobPageVars, queryCacheVars>>

MCJobQuantity == [j \in CardJobs |-> j]

FrontendInit ==
  /\ part \in Parts
  /\ StationPageInit /\ (part # "stations" => rows = [s \in {} |-> NoEye])
  /\ PipelinePageInit
  /\ part # "pipelines" =>
       \A p \in DOMAIN stored :
         /\ p = CHOOSE q \in PipelineIds : TRUE
         /\ stored[p].type = CHOOSE t \in Types : TRUE
         /\ stored[p].steps[1].station = CHOOSE t \in StepStations : TRUE
  /\ OrderFormInit /\ (part # "order form" => DOMAIN catalog = {})
  /\ OrderAllocationInit /\ (part # "allocations" => DOMAIN stock = {})
  /\ JobPageInit /\ (part # "jobs" => existing = {})
  /\ QueryCacheInit /\ (part # "cache" => screen = "orderDetail")

StationsMove    == part = "stations" /\ StationPageNext
PipelinesMove   == part = "pipelines" /\ PipelinePageNext
OrderFormMoves  == part = "order form" /\ OrderFormNext
AllocationsMove == part = "allocations" /\ OrderAllocationNext
JobsMove        == part = "jobs" /\ JobPageNext
CacheMoves      == part = "cache" /\ QueryCacheNext

FrontendNext ==
  /\ part' = part
  /\ \/ /\ StationsMove
        /\ UNCHANGED <<pipelinePageVars, orderFormVars, orderAllocationVars, jobPageVars,
                       queryCacheVars>>
     \/ /\ PipelinesMove
        /\ UNCHANGED <<stationPageVars, orderFormVars, orderAllocationVars, jobPageVars,
                       queryCacheVars>>
     \/ /\ OrderFormMoves
        /\ UNCHANGED <<stationPageVars, pipelinePageVars, orderAllocationVars, jobPageVars,
                       queryCacheVars>>
     \/ /\ AllocationsMove
        /\ UNCHANGED <<stationPageVars, pipelinePageVars, orderFormVars, jobPageVars,
                       queryCacheVars>>
     \/ /\ JobsMove
        /\ UNCHANGED <<stationPageVars, pipelinePageVars, orderFormVars, orderAllocationVars,
                       queryCacheVars>>
     \/ /\ CacheMoves
        /\ UNCHANGED <<stationPageVars, pipelinePageVars, orderFormVars, orderAllocationVars,
                       jobPageVars>>

FrontendSpec ==
  /\ FrontendInit /\ [][FrontendNext]_pagesVars
  /\ JobPageFairness /\ QueryCacheFairness
===============================================================================
