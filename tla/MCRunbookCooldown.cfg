CONSTANTS
  Alerts = {a1, a2}
  AlertKey <- MCAlertKey
  Workers = {w1, w2}
  Modes = {"plain"}
  MaxFiresPerHour = 2
  MaxConsecutiveFailures = 2
  MaxFires = 2
  MaxRuns = 2
  MaxFaults = 0
  None = None
SPECIFICATION Spec
INVARIANTS NoDoubleFire
SYMMETRY Symmetry
CHECK_DEADLOCK FALSE
