\* Two clusters, every fault and command; two events in any order.
SPECIFICATION FairSpec
CONSTANTS
  c1 = c1
  c2 = c2
  Clusters <- TwoClusters
  MaxVersion = 2
  Proxies = {"nginx", "hook"}
  EnvEvents = {"assign", "rotate", "reloadError", "fileError", "crash", "remove", "prune"}
  MaxEvents = 2
INVARIANTS
  EdgeTypeOK
  EntryHasKeys
PROPERTIES
  AssignedServed
  RemovedCleared
  IncludesRecover
