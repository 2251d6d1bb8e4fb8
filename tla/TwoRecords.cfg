SPECIFICATION Spec
CONSTANTS
  MaxVersion = 2
  MaxTime = 2
  MaxFaults = 1
PROPERTY OnlyActiveKey
CHECK_DEADLOCK FALSE
