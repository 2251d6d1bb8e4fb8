--------------------------- MODULE MCMonitorTasks ---------------------------
(* Small instances of MonitorTasks: interchangeable groups.                *)
EXTENDS MonitorTasks, TLC

CONSTANTS g1, g2

TwoGroups == {g1, g2}
=============================================================================
