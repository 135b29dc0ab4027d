SPECIFICATION EyeSpec
CONSTANTS
  Codes = {c1}
  FramesToArrive = 2
  FramesToDepart = 2
  MissGrace = 0
  Stations = {s1, s2}
  NoStation = NoStation
  MaxFailures = 2
  MaxDelayed = 2
INVARIANTS EyeTypeOK BoardFollowsTracker
PROPERTIES ShutdownEnds AssignedEyeRegisters
