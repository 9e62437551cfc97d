CONSTANTS
  Devices <- MCDevices
  Rings <- MCRings
  Workers = {w1, w2}
  Outcomes = {"failed", "reboot-deferred"}
  GatewayConfigured = TRUE
  MaxRequests = 4
  MaxCrashes = 1
  None = None
SPECIFICATION Spec
INVARIANTS TypeOK StagesPartition NoStageSkipped ReportedFailuresTrip SettledIsNotRunning NoFalseSuccess RebootRemembered
SYMMETRY WorkerSymmetry
CHECK_DEADLOCK FALSE
