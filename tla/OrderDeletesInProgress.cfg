SPECIFICATION Spec
CONSTANTS
  Stations = {s1}
  Pipelines = {p1}
  ProductTypes = {A}
  MaxJobs = 1
  MaxOrders = 1
  MaxUnits = 1
  MaxCapacity = 1
  Phases = {"arrived"}
PROPERTIES InProgressDeletedOnlyByForce
