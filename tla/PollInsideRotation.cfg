\* A node may poll between the new version and its key; no fault.
CONSTANTS
  Nodes = {n1, n2}
  Domains = {d1}
  Coordinator = coordinator
  Admins = {}
  AutoRotate = TRUE
  OverlappingRotations = FALSE
  MaxVersion = 2
  MaxTime = 1
  EnvEvents = {}
  MaxEvents = 0
  Ssh = {}
  PollDuringRotation = TRUE
SPECIFICATION Spec
PROPERTIES
  NoEarlyPublication
