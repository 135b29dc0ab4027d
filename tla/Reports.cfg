SPECIFICATION LogSpec
CONSTANTS
  Stations = {s1, s2}
  Pipelines = {p1}
  ProductTypes = {A}
  StepRequests <- MCStepRequests
  MaxJobs = 1
  MaxEvents = 3
  MaxCapacity = 0
  Times = {0, 1, 2, 3}
  Phases = {"scan", "arrived", "departed"}
  Asked = {1, 3, 4, 7}
  Second = 2
  Window = 2
  Hour = 2
  HoursShown = 2
SYMMETRY Interchangeable
INVARIANTS LogTyped HistoryFollowsVisits BoardAgreesWithHistory JobPageAgrees VisitsDoNotOverlap DashboardAgreesWithHistory DurationsOrdered ActiveCoversWindow ActivityCounts
PROPERTIES KeepsSummary DangerIsCounted
