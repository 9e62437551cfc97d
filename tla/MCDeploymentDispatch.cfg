CONSTANTS
  Devices <- MCDevices
  Rings <- MCRings
  Workers = {w1, w2}
  Outcomes = {"failed", "reboot-deferred"}
  GatewayConfigured = TRUE
  MaxRequests = 4
  MaxCrashes = 0
  None = None
SPECIFICATION Spec
PROPERTY DispatchedOnlyFromPending
CHECK_DEADLOCK FALSE
