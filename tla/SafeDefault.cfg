\* A group is created for a record that already has addresses; nothing fails.
CONSTANTS
  c1 = c1
  c2 = c2
  Addrs = {a1, a2}
  Managed = {a1, a2}
  Checks = {c1, c2}
  FirstChecks = {c1}
  Exprs <- AllExprs
  Configs <- AllConfigs
  FirstConfig <- Tcp
  RuleChoices <- AllRules
  FirstRules = {}
  Conditions = {"serving"}
  ForeignKeys = TRUE
  MaxIps = 4
  MaxStreak = 2
  EnvEvents = {}
  MaxEvents = 0
SPECIFICATION Spec
PROPERTIES
  SafeDefaultPolicy
