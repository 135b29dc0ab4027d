SPECIFICATION Spec
CONSTANTS
  Stations = {s1}
  Pipelines = {p1}
  ProductTypes = {A}
  MaxJobs = 2
  MaxOrders = 2
  MaxUnits = 3
  MaxCapacity = 3
  Phases = {"departed"}
INVARIANTS TypeOK JobNotOverAllocated PackingFollowsLoop
PROPERTIES OrderServedExactly PackingWithinCapacity DeletionIsolated OrderProgressKept
