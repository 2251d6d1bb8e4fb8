\* Automatic rotations, due even before the last one is published; every fault.
CONSTANTS
  Nodes = {n1, n2}
  Domains = {d1}
  Coordinator = coordinator
  Admins = {}
  AutoRotate = TRUE
  OverlappingRotations = TRUE
  MaxVersion = 3
  MaxTime = 2
  EnvEvents = {"dbError", "dnsError", "serverCrash", "reloadError", "agentCrash", "fileError", "ackLost", "ackLate"}
  MaxEvents = 1
  Ssh = {}
  PollDuringRotation = FALSE
SPECIFICATION Spec
SYMMETRY NodeSymmetry
INVARIANTS
  RolloutTypeOK
  SyncedIsCurrent
PROPERTIES
  ImplementsTwoPhase
