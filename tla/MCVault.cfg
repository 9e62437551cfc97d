CONSTANTS
  Workers = {w1, w2}
  Creds = {c1, c2}
  MaxVersion = 3
  REWRAP_BATCH_SIZE = 1
  MaxFaults = 1
  NoCred = NoCred
SPECIFICATION Spec
SYMMETRY Symmetry
INVARIANTS TypeOK OneActiveKey NothingStranded CacheFollowsRotation
PROPERTIES ReplacedIsKept
CHECK_DEADLOCK FALSE
