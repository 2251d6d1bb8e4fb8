\* One reload fails, so one key is deployed twice.
CONSTANTS
  Nodes = {n1, n2}
  Domains = {d1}
  Coordinator = coordinator
  Admins = {}
  AutoRotate = TRUE
  OverlappingRotations = FALSE
  MaxVersion = 2
  MaxTime = 1
  EnvEvents = {"reloadError"}
  MaxEvents = 1
  Ssh = {}
  PollDuringRotation = FALSE
SPECIFICATION Spec
INVARIANTS
  AdvertisedKeyAlwaysServed
