CONSTANTS
  Alerts = {a1, a2}
  AlertKey <- MCAlertKey
  Workers = {w1, w2}
  Modes = {"plain", "dryFirst"}
  MaxFiresPerHour = 1
  MaxConsecutiveFailures = 2
  MaxFires = 2
  MaxRuns = 2
  MaxFaults = 1
  None = None
SPECIFICATION Spec
INVARIANTS TypeOK RealRunFollowsDryRun SucceededFireRan RunsAreWanted CooldownBound FailureStreakTrips
SYMMETRY Symmetry
CHECK_DEADLOCK FALSE
