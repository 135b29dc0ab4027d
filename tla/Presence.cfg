SPECIFICATION HistorySpec
CONSTANTS
  Codes = {c1, c2}
  FramesToArrive = 3
  FramesToDepart = 3
  MissGrace = 1
INVARIANTS DictsAgree NothingLeftBehind
PROPERTIES KeepsPromise
