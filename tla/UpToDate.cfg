\* One cluster; a crash and a new assignment, or a command that overlaps a cycle.
SPECIFICATION Spec
CONSTANTS
  c1 = c1
  c2 = c2
  Clusters <- OneCluster
  MaxVersion = 2
  Proxies = {"nginx"}
  EnvEvents = {"assign", "crash", "remove", "prune"}
  MaxEvents = 3
PROPERTY
  UpToDateHasKeys
