\* Two addresses, one check at first; every kind of edit, fault and restart.
CONSTANTS
  c1 = c1
  c2 = c2
  Addrs = {a1, a2}
  Managed = {a1, a2}
  Checks = {c1, c2}
  FirstChecks = {c1}
  Exprs <- AllExprs
  Configs <- AllConfigs
  FirstConfig <- Tcp
  RuleChoices <- AllRules
  FirstRules = {}
  Conditions = {"serving", "errors", "silent"}
  ForeignKeys = TRUE
  MaxIps = 4
  MaxStreak = 2
  EnvEvents = {"ips", "checks", "rules", "condition", "record", "stop", "dbFault", "provider"}
  MaxEvents = 2
SPECIFICATION FairSpec
INVARIANTS
  MonitorTypeOK
  StatusAgrees
PROPERTIES
  WithdrawalEarned
  RecordConverges
  AnomaliesConverge
