CONSTANTS
  Alerts = {a1}
  AlertKey <- MCAlertKey
  Workers = {w1}
  Modes = {"plain", "dryFirst", "incapable"}
  MaxFiresPerHour = 1
  MaxConsecutiveFailures = 1
  MaxFires = 1
  MaxRuns = 2
  MaxFaults = 0
  None = None
SPECIFICATION FairSpec
PROPERTIES FinishedRunsSettle
CHECK_DEADLOCK FALSE
