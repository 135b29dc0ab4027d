SPECIFICATION FrontendSpec
CONSTANTS
  StationIds = {1, 2}
  Eyes = {"e1"}
  MaxVisits = 1
  PipelineIds = {1, 2}
  StepStations = {1, 2}
  Types = {"A", "B"}
  Minimums = {0, 2}
  Maximums = {0, 1}
  MaxRows = 2
  MaxDrafts = 1
  MaxEdits = 2
  OrderPipelines = {1}
  OrderTypes = {"A", "B"}
  MaxKeys = 2
  MaxOrders = 1
  MaxChanges = 3
  CardJobs = {1, 2}
  JobQuantity <- MCJobQuantity
  Need = 2
  PageJobs = {1, 2}
  MaxPrints = 2
  Screens = {"orderDetail", "jobDetail"}
  Queries = {"jobs", "history"}
  MaxWrites = 2
INVARIANT OneFormOneStation
CHECK_DEADLOCK FALSE
