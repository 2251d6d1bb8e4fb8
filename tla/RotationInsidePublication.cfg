\* An admin request may rotate while the coordinator publishes; no fault.
CONSTANTS
  Nodes = {n1, n2}
  Domains = {d1}
  Coordinator = coordinator
  Admins = {admin}
  AutoRotate = TRUE
  OverlappingRotations = FALSE
  MaxVersion = 2
  MaxTime = 1
  EnvEvents = {}
  MaxEvents = 0
  Ssh = {}
  PollDuringRotation = FALSE
SPECIFICATION Spec
PROPERTIES
  NoEarlyPublication
