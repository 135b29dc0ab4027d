SPECIFICATION HistorySpec
CONSTANTS
  Codes = {c1}
  FramesToArrive = 3
  FramesToDepart = 3
  MissGrace = 1
PROPERTIES GraceBoundsAllMisses
