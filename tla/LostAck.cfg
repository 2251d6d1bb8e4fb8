\* One acknowledgment is lost.
CONSTANTS
  Nodes = {n1, n2}
  Domains = {d1}
  Coordinator = coordinator
  Admins = {}
  AutoRotate = TRUE
  OverlappingRotations = FALSE
  MaxVersion = 1
  MaxTime = 1
  EnvEvents = {"ackLost"}
  MaxEvents = 1
  Ssh = {}
  PollDuringRotation = FALSE
SPECIFICATION FairSpec
PROPERTIES
  EventuallySynced
