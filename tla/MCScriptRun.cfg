CONSTANTS
  Workers = {w1, w2}
  MaxChunks = 2
  RUN_OUTPUT_CAP = 2
  AgentReports = {"ok", "timeout", "cancelled"}
  Simulations = {"error"}
  GatewayConfigured = TRUE
SPECIFICATION FairSpec
INVARIANTS TypeOK CancelHolds OutputKept
PROPERTIES MovesAsARun ReportIsFinal ReportEndsRun
CHECK_DEADLOCK FALSE
