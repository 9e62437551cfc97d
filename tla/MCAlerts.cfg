CONSTANTS
  Requests = {r1, r2}
  Crons = {t1, t2}
  Alerts = {a1}
  PrimaryChannels = 1
  StepChannels = 1
  ChainLength = 1
  MaxFaults = 1
  MaxSwitches = 1
SPECIFICATION FairSpec
INVARIANTS TypeOK PagesWithinOverlap ResolveHolds
PROPERTIES ClosedIsSilent DueEscalates
CHECK_DEADLOCK FALSE
