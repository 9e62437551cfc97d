SPECIFICATION Spec
CONSTANTS
    w1 = w1
    w2 = w2
    Windows = {w1, w2}
    Devices = {d1}
    Evaluators = {e1, e2}
    Starts <- MCStarts
    Length <- MCLength
    MaxTime = 4
    MaxSwitches = 2
    MaxFaults = 1
INVARIANTS TypeOK EnteredMeansHeld
PROPERTIES OperatorFlagStands ReleaseIsDue Released
CHECK_DEADLOCK FALSE
