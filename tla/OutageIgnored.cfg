\* Every address fails a check that is told to look away then.
CONSTANTS
  c1 = c1
  c2 = c2
  Addrs = {a1, a2}
  Managed = {a1, a2}
  Checks = {c1, c2}
  FirstChecks = {c1}
  Exprs <- AllExprs
  Configs <- AllConfigs
  FirstConfig <- TcpBypass
  RuleChoices <- AllRules
  FirstRules = {}
  Conditions = {"serving", "silent"}
  ForeignKeys = TRUE
  MaxIps = 4
  MaxStreak = 2
  EnvEvents = {"condition"}
  MaxEvents = 1
SPECIFICATION Spec
PROPERTIES
  OutageIgnored
