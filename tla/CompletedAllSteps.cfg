SPECIFICATION Spec
CONSTANTS
  Stations = {s1, s2}
  Pipelines = {p1}
  ProductTypes = {A}
  MaxJobs = 1
  MaxOrders = 0
  MaxUnits = 1
  MaxCapacity = 1
  Phases = {"arrived", "departed"}
PROPERTIES CompletedWhenAllStepsDeparted
