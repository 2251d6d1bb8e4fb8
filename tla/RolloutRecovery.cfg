\* Each rotation published before the next; nodes leave and join, every fault.
CONSTANTS
  Nodes = {n1, n2}
  Domains = {d1}
  Coordinator = coordinator
  Admins = {}
  AutoRotate = TRUE
  OverlappingRotations = FALSE
  MaxVersion = 3
  MaxTime = 1
  EnvEvents = {"dbError", "dnsError", "serverCrash", "reloadError", "agentCrash", "fileError", "ackLost", "ackLate", "assign"}
  MaxEvents = 2
  Ssh = {}
  PollDuringRotation = FALSE
SPECIFICATION FairSpec
INVARIANTS
  InSyncServesKey
  AdvertisedKeyRetained
PROPERTIES
  AdvertisedKeyKept
  SyncedUnlessUnacknowledged
  NoKeysForgotten
