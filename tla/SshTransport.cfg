\* One of the nodes uses the SSH transport; no fault.
CONSTANTS
  Nodes = {n1, n2}
  Domains = {d1}
  Coordinator = coordinator
  Admins = {}
  AutoRotate = TRUE
  OverlappingRotations = FALSE
  MaxVersion = 1
  MaxTime = 1
  EnvEvents = {}
  MaxEvents = 0
  Ssh = {n1}
  PollDuringRotation = FALSE
SPECIFICATION FairSpec
PROPERTIES
  EventuallySynced
