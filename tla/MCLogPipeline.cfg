SPECIFICATION FairSpec
CONSTANTS
  Body <- MCBody
  Invalid = "x"
  Raw = {"r"}
  Printed = {"c"}
  Day <- MCDay
  LastDay = 2
  logRetentionMax = 3
  TailLines = 2
  MaxFaults = 1
  MaxStops = 2
INVARIANTS
  AnsweredIsFiled
  FiledInOrder
PROPERTIES
  RestoreIsNewest
  StopEnds
CHECK_DEADLOCK FALSE
