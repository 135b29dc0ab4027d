SPECIFICATION Spec
CONSTANTS
  Stations = {s1, s2}
  Pipelines = {p1, p2}
  ProductTypes = {A, B}
  MaxJobs = 2
  MaxOrders = 1
  MaxUnits = 1
  MaxCapacity = 1
  Phases = {"scan", "departed"}
SYMMETRY Interchangeable
INVARIANTS ProductTypesAgree ReferencesExist OrderFiguresAgree
PROPERTIES StatusMovesForward NoDepartureOutlivesJob
