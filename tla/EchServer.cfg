\* One coordinator and one admin request at a time, rotating three times.
CONSTANTS
  Nodes = {n1}
  Domains = {d1}
  Coordinator = coordinator
  Admins = {admin}
  AutoRotate = TRUE
  OverlappingRotations = TRUE
  MaxVersion = 3
  MaxTime = 2
  EnvEvents = {"dbError", "dnsError", "serverCrash", "assign"}
  MaxEvents = 2
SPECIFICATION ServerSpec
INVARIANTS
  TypeOK
  OneActiveKey
  VersionsNotShared
  PublishedKeyStored
PROPERTIES
  KeyLifecycle
