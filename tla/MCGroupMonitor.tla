--------------------------- MODULE MCGroupMonitor ---------------------------
(***************************************************************************)
(* GroupMonitor for TLC: check configurations and rules to choose from.    *)
(***************************************************************************)
EXTENDS GroupMonitor

CONSTANTS c1, c2

Check(protocol, up, down, bypass) ==
  [protocol |-> protocol, up |-> up, down |-> down, bypass |-> bypass]

Tcp == Check("TCP", 2, 2, FALSE)
TcpBypass == Check("TCP", 2, 2, TRUE)
Http == Check("HTTP", 1, 2, FALSE)
Udp == Check("UDP", 2, 1, FALSE)

AllConfigs == {Tcp, TcpBypass, Http, Udp}
TcpOnly == {Tcp}
BypassOnly == {TcpBypass}

(* What the rule builder offers: out when a check fails, unless it fails   *)
(* on every address; in when one of two checks is healthy.                 *)
OutUnlessGlobal ==
  [action |-> "RemoveFromDns",
   expr |-> And(<<CheckFailed(c1), Not(GlobalCheckFailed(c1))>>)]
InWhenHealthy ==
  [action |-> "AddToDns", expr |-> Or(<<CheckHealthy(c1), CheckHealthy(c2)>>)]

AllExprs ==
  {CheckFailed(c1), GlobalCheckFailed(c1), Not(GlobalCheckFailed(c1)),
   CheckHealthy(c1), CheckHealthy(c2), OutUnlessGlobal.expr, InWhenHealthy.expr}

AllRules == {OutUnlessGlobal, InWhenHealthy}
=============================================================================
