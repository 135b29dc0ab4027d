SPECIFICATION EyeSpec
CONSTANTS
  Codes = {c1, c2}
  FramesToArrive = 1
  FramesToDepart = 2
  MissGrace = 0
  Stations = {s1}
  NoStation = NoStation
  MaxFailures = 1
  MaxDelayed = 1
INVARIANTS AttemptsAgree BoardFollowsTracker
