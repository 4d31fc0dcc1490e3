SPECIFICATION FairSpec
CONSTANTS
  Ids = {1, 2}
  Ports = {3100, 3101}
  Foreign = {3100}
  Loops = {1, 2}
INVARIANTS
  NoOrphan
  PortsDiffer
PROPERTIES
  LiveIsOffered
  DeadNotOffered
CHECK_DEADLOCK FALSE
