SPECIFICATION Spec
CONSTANTS
  g1 = g1
  g2 = g2
  Groups <- TwoGroups
  MaxTasks = 4
  EnvEvents = {"create", "toggle", "delete", "terminate", "readError"}
  MaxEvents = 4
PROPERTY
  ExitsOnlyWhenGone
CHECK_DEADLOCK FALSE
