CONSTANTS
  Requests = {r1}
  Crons = {t1, t2}
  Alerts = {a1}
  PrimaryChannels = 1
  StepChannels = 1
  ChainLength = 2
  MaxFaults = 0
  MaxSwitches = 0
SPECIFICATION Spec
INVARIANTS NoDoubleEscalation
CHECK_DEADLOCK FALSE
