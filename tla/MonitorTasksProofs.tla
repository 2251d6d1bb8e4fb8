------------------------- MODULE MonitorTasksProofs -------------------------
(***************************************************************************)
(* Proofs about MonitorTasks for every set of groups and every bound: the  *)
(* types, that a group has one task at a time, and that no task outlives   *)
(* the coordinator.                                                        *)
(*                                                                         *)
(* OneTaskPerGroup is not inductive: a start is safe because a live task   *)
(* that is not in activeTasks exists only once the coordinator is shutting *)
(* down (Known), and a stop is safe because the entry of a group belongs   *)
(* to that group (OwnEntry) and ids of tasks are fresh (Unstarted).        *)
(***************************************************************************)
EXTENDS MonitorTasks, TLAPS

OwnEntry ==
  \A g \in Groups : activeTasks[g] # 0 => tasks[activeTasks[g]].group = g

Known ==
  \A t \in TaskIds : Live(t) =>
     IF pc \in {"shutting", "stopped"}
     THEN t \in waiting
     ELSE activeTasks[tasks[t].group] = t

Unstarted ==
  /\ \A t \in TaskIds : t > started => tasks[t].phase = "none"
  /\ \A g \in Groups : activeTasks[g] <= started

StopEnded == pc = "stopped" => \A t \in waiting : ~Live(t)

Inv == TasksTypeOK /\ OneTaskPerGroup /\ OwnEntry /\ Known /\ Unstarted /\ StopEnded

(* The initial states have no live task.                                   *)
LEMMA InitInv == Init => Inv
<1> SUFFICES ASSUME Init PROVE Inv
  OBVIOUS
<1> USE TasksAssumption
<1>1. \A t \in TaskIds : tasks[t].phase = "none"
  BY DEF Init
<1>2. TasksTypeOK
  <2>1. tasks \in [TaskIds -> [group : Groups, phase : Phases, cancelled : BOOLEAN]]
    BY DEF Init, Phases
  <2>2. groups \in [Groups -> {"new", "enabled", "disabled", "deleted"}]
    BY DEF Init
  <2>3. activeTasks \in [Groups -> 0 .. MaxTasks]
    BY DEF Init
  <2>4. /\ started = 0 /\ pc = "idle" /\ current = {} /\ waiting = {}
        /\ shutdown = FALSE /\ events = 0
    BY DEF Init
  <2>5. started \in 0 .. MaxTasks /\ events \in 0 .. MaxEvents
    BY <2>4
  <2>6. current \subseteq Groups /\ waiting \subseteq TaskIds
    BY <2>4
  <2>7. QED
    BY <2>1, <2>2, <2>3, <2>4, <2>5, <2>6, Zenon DEF TasksTypeOK
<1>3. OneTaskPerGroup /\ Known
  BY <1>1 DEF OneTaskPerGroup, Known, Live
<1>4. OwnEntry /\ Unstarted /\ StopEnded
  BY <1>1 DEF Init, OwnEntry, Unstarted, StopEnded
<1>5. QED
  BY <1>2, <1>3, <1>4 DEF Inv

(* A step that keeps the coordinator's state and starts no task, of no     *)
(* group another one, keeps the invariant.                                 *)
LEMMA TaskFrame ==
  ASSUME Inv, TasksTypeOK', UNCHANGED <<activeTasks, started, pc, waiting>>,
         \A t \in TaskIds : /\ tasks'[t].group = tasks[t].group
                            /\ Live(t)' => Live(t)
                            /\ tasks[t].phase = "none" => tasks'[t].phase = "none"
  PROVE  Inv'
<1> USE TasksAssumption
<1>1. OneTaskPerGroup'
  BY DEF Inv, OneTaskPerGroup
<1>2. OwnEntry'
  <2> SUFFICES ASSUME NEW g \in Groups, activeTasks[g] # 0
               PROVE  tasks'[activeTasks[g]].group = g
    BY DEF OwnEntry
  <2>1. activeTasks[g] \in TaskIds
    BY DEF Inv, TasksTypeOK, TaskIds
  <2>2. QED
    BY <2>1 DEF Inv, OwnEntry
<1>3. Known'
  BY DEF Inv, Known
<1>4. Unstarted'
  BY DEF Inv, Unstarted
<1>5. StopEnded'
  BY DEF Inv, StopEnded, TasksTypeOK
<1>6. QED
  BY <1>1, <1>2, <1>3, <1>4, <1>5 DEF Inv

(* A task only goes from one phase to another.                             *)
LEMMA TaskInv == ASSUME Inv, NEW t \in TaskIds, TaskStep(t) PROVE Inv'
<1> USE TasksAssumption
<1>1. \E phase \in Phases : Live(t) /\ Becomes(t, phase)
  BY DEF TaskStep, ReadGroup, FinishCycle, Wake, Live, Phases
<1>2. UNCHANGED <<groups, activeTasks, started, pc, current, waiting, shutdown>>
  BY DEF TaskStep, ReadGroup, FinishCycle, Wake, coordinator
<1>3. events' \in 0 .. MaxEvents
  BY DEF TaskStep, ReadGroup, FinishCycle, Wake, Event, Inv, TasksTypeOK
<1>4. TasksTypeOK'
  BY <1>1, <1>2, <1>3 DEF Inv, TasksTypeOK, Becomes
<1>5. \A u \in TaskIds : /\ tasks'[u].group = tasks[u].group
                         /\ Live(u)' => Live(u)
                         /\ tasks[u].phase = "none" => tasks'[u].phase = "none"
  BY <1>1 DEF Inv, TasksTypeOK, Becomes, Live
<1>6. QED
  BY <1>2, <1>4, <1>5, TaskFrame

(* The environment touches neither the coordinator nor the tasks.          *)
LEMMA EnvironmentInv == ASSUME Inv, Environment PROVE Inv'
<1> USE TasksAssumption
<1>1. UNCHANGED <<activeTasks, started, pc, current, waiting, tasks>>
  BY DEF Environment, CreateGroup, UpdateGroupEnabled, DeleteGroup, Terminate, coordinator
<1>2. events' \in 0 .. MaxEvents
  BY DEF Environment, CreateGroup, UpdateGroupEnabled, DeleteGroup, Terminate, Event,
         Inv, TasksTypeOK
<1>3. shutdown' \in BOOLEAN
  BY DEF Environment, CreateGroup, UpdateGroupEnabled, DeleteGroup, Terminate,
         Inv, TasksTypeOK
<1>4. groups' \in [Groups -> {"new", "enabled", "disabled", "deleted"}]
  BY DEF Environment, CreateGroup, UpdateGroupEnabled, DeleteGroup, Terminate,
         Inv, TasksTypeOK
<1>5. TasksTypeOK'
  BY <1>1, <1>2, <1>3, <1>4 DEF Inv, TasksTypeOK
<1>6. QED
  BY <1>1, <1>5, TaskFrame DEF Live

(* The coordinator's steps that leave activeTasks alone.                   *)
LEMMA QuietInv ==
  ASSUME Inv, ListAllGroups \/ AllStopped \/ AllStarted \/ Stopped PROVE Inv'
<1> USE TasksAssumption
<1>1. UNCHANGED <<groups, activeTasks, tasks, started, waiting, shutdown, events>>
  BY DEF ListAllGroups, AllStopped, AllStarted, Stopped
<1>2. TasksTypeOK'
  BY <1>1 DEF Inv, TasksTypeOK, ListAllGroups, AllStopped, AllStarted, Stopped
<1>3. pc' \in {"shutting", "stopped"} <=> pc \in {"shutting", "stopped"}
  BY DEF ListAllGroups, AllStopped, AllStarted, Stopped
<1>4. StopEnded'
  BY <1>1 DEF StopEnded, ListAllGroups, AllStopped, AllStarted, Stopped, Live, Inv
<1>5. QED
  BY <1>1, <1>2, <1>3, <1>4 DEF Inv, OneTaskPerGroup, OwnEntry, Known, Unstarted, Live

(* Cancelling changes no phase.                                            *)
LEMMA StopTaskInv == ASSUME Inv, NEW g \in Groups, StopTask(g) PROVE Inv'
<1> USE TasksAssumption
<1>1. activeTasks[g] \in TaskIds
  BY DEF Inv, TasksTypeOK, StopTask, ToStop, TaskIds
<1>2. \A t \in TaskIds : tasks'[t].group = tasks[t].group /\ tasks'[t].phase = tasks[t].phase
  BY DEF Inv, TasksTypeOK, StopTask
<1>3. UNCHANGED <<groups, activeTasks, started, current, shutdown, events>>
      /\ pc' = "waiting" /\ pc = "stopping" /\ waiting' = {activeTasks[g]}
  BY DEF StopTask
<1>4. TasksTypeOK'
  <2>1. tasks' \in [TaskIds -> [group : Groups, phase : Phases, cancelled : BOOLEAN]]
    BY <1>1 DEF Inv, TasksTypeOK, StopTask
  <2>2. QED
    BY <1>1, <1>3, <2>1 DEF Inv, TasksTypeOK
<1>5. OneTaskPerGroup'
  BY <1>2 DEF Inv, OneTaskPerGroup, Live
<1>6. OwnEntry'
  <2> SUFFICES ASSUME NEW h \in Groups, activeTasks[h] # 0
               PROVE  tasks'[activeTasks[h]].group = h
    BY <1>3 DEF OwnEntry
  <2>1. activeTasks[h] \in TaskIds
    BY DEF Inv, TasksTypeOK, TaskIds
  <2>2. QED
    BY <1>2, <2>1 DEF Inv, OwnEntry
<1>7. Known' /\ Unstarted' /\ StopEnded'
  BY <1>2, <1>3 DEF Inv, Known, Unstarted, StopEnded, Live
<1>8. QED
  BY <1>4, <1>5, <1>6, <1>7 DEF Inv

(* The entry goes once its task has returned, so Known does not need it.   *)
LEMMA TaskStoppedInv == ASSUME Inv, TaskStopped PROVE Inv'
<1> USE TasksAssumption
<1>1. UNCHANGED <<groups, tasks, started, current, shutdown, events>>
      /\ pc = "waiting" /\ pc' = "stopping" /\ waiting' = {}
  BY DEF TaskStopped
<1>2. \A g \in Groups : activeTasks'[g] = IF activeTasks[g] \in waiting THEN 0 ELSE activeTasks[g]
  BY DEF TaskStopped
<1>3. TasksTypeOK'
  BY <1>1 DEF Inv, TasksTypeOK, TaskStopped
<1>4. Known'
  <2> SUFFICES ASSUME NEW t \in TaskIds, Live(t) PROVE activeTasks'[tasks[t].group] = t
    BY <1>1 DEF Known, Live
  <2>1. activeTasks[tasks[t].group] = t /\ t \notin waiting
    BY <1>1 DEF Inv, Known, TaskStopped
  <2>2. tasks[t].group \in Groups
    BY DEF Inv, TasksTypeOK
  <2>3. QED
    BY <1>2, <2>1, <2>2
<1>5. OneTaskPerGroup' /\ OwnEntry' /\ Unstarted' /\ StopEnded'
  BY <1>1, <1>2 DEF Inv, OneTaskPerGroup, OwnEntry, Unstarted, StopEnded, Live, TasksTypeOK
<1>6. QED
  BY <1>3, <1>4, <1>5 DEF Inv

(* The group has no entry, so by Known no live task.                       *)
LEMMA StartTaskInv == ASSUME Inv, NEW g \in Groups, StartTask(g) PROVE Inv'
<1> USE TasksAssumption
<1> DEFINE n == started + 1
<1>1. n \in TaskIds /\ n # 0 /\ started \in Nat
  BY DEF Inv, TasksTypeOK, StartTask, TaskIds
<1>2. UNCHANGED <<groups, pc, current, waiting, shutdown, events>>
      /\ pc = "starting" /\ started' = n /\ activeTasks[g] = 0
  BY DEF StartTask, ToStart
<1>3. \A t \in TaskIds : tasks'[t] = IF t = n
                                     THEN [group |-> g, phase |-> "reading", cancelled |-> FALSE]
                                     ELSE tasks[t]
  BY DEF Inv, TasksTypeOK, StartTask
<1>4. \A h \in Groups : activeTasks'[h] = IF h = g THEN n ELSE activeTasks[h]
  BY DEF Inv, TasksTypeOK, StartTask
<1>5. TasksTypeOK'
  <2>1. tasks' \in [TaskIds -> [group : Groups, phase : Phases, cancelled : BOOLEAN]]
    BY <1>1 DEF Inv, TasksTypeOK, StartTask, Phases
  <2>2. activeTasks' \in [Groups -> 0 .. MaxTasks] /\ started' \in 0 .. MaxTasks
    BY <1>1 DEF Inv, TasksTypeOK, StartTask, TaskIds
  <2>3. QED
    BY <1>2, <2>1, <2>2 DEF Inv, TasksTypeOK
<1>6. \A t \in TaskIds : Live(t) => t # n /\ tasks[t].group # g
  <2>1. tasks[n].phase = "none"
    BY <1>1 DEF Inv, Unstarted
  <2>2. \A t \in TaskIds : Live(t) => activeTasks[tasks[t].group] = t
    BY <1>2 DEF Inv, Known
  <2>3. 0 \notin TaskIds
    BY DEF TaskIds
  <2>4. QED
    BY <1>2, <2>1, <2>2, <2>3 DEF Live
<1>7. \A t \in TaskIds : Live(t)' <=> (t = n \/ Live(t))
  BY <1>3 DEF Live
<1>8. OneTaskPerGroup'
  BY <1>3, <1>6, <1>7 DEF Inv, OneTaskPerGroup
<1>9. OwnEntry'
  <2> SUFFICES ASSUME NEW h \in Groups, activeTasks'[h] # 0
               PROVE  tasks'[activeTasks'[h]].group = h
    BY DEF OwnEntry
  <2>1. CASE h = g
    BY <1>1, <1>3, <1>4, <2>1
  <2>2. CASE h # g
    <3>1. activeTasks'[h] = activeTasks[h] /\ activeTasks[h] \in TaskIds /\ activeTasks[h] # n
      BY <1>1, <1>4, <2>2 DEF Inv, TasksTypeOK, TaskIds, Unstarted
    <3>2. QED
      BY <1>3, <3>1 DEF Inv, OwnEntry
  <2>3. QED
    BY <2>1, <2>2
<1>10. Known'
  <2> SUFFICES ASSUME NEW t \in TaskIds, Live(t)' PROVE activeTasks'[tasks'[t].group] = t
    BY <1>2 DEF Known
  <2>1. CASE t = n
    BY <1>3, <1>4, <2>1
  <2>2. CASE t # n
    <3>1. Live(t) /\ tasks'[t] = tasks[t] /\ tasks[t].group \in Groups \ {g}
      BY <1>3, <1>6, <1>7, <2>2 DEF Inv, TasksTypeOK
    <3>2. QED
      BY <1>2, <1>4, <3>1 DEF Inv, Known
  <2>3. QED
    BY <2>1, <2>2
<1>11. Unstarted'
  <2>1. \A t \in TaskIds : t > n => tasks'[t].phase = "none"
    BY <1>1, <1>3 DEF Inv, Unstarted, TaskIds
  <2>2. \A h \in Groups : activeTasks'[h] <= n
    BY <1>1, <1>4 DEF Inv, Unstarted, TasksTypeOK
  <2>3. QED
    BY <1>2, <2>1, <2>2 DEF Unstarted
<1>12. StopEnded'
  BY <1>2 DEF StopEnded
<1>13. QED
  BY <1>5, <1>8, <1>9, <1>10, <1>11, <1>12 DEF Inv

(* Every live task has an entry, so the shutdown waits for all of them.    *)
LEMMA ShutDownInv == ASSUME Inv, ShutDown PROVE Inv'
<1> USE TasksAssumption
<1>1. UNCHANGED <<groups, started, current, shutdown, events>>
      /\ pc = "idle" /\ pc' = "shutting"
      /\ waiting' = {t \in TaskIds : \E g \in Groups : activeTasks[g] = t}
      /\ activeTasks' = [g \in Groups |-> 0]
  BY DEF ShutDown
<1>2. tasks' \in [TaskIds -> [group : Groups, phase : Phases, cancelled : BOOLEAN]]
  BY DEF Inv, TasksTypeOK, ShutDown
<1>3. \A t \in TaskIds : tasks'[t].group = tasks[t].group /\ tasks'[t].phase = tasks[t].phase
  BY DEF Inv, TasksTypeOK, ShutDown
<1>4. TasksTypeOK'
  BY <1>1, <1>2 DEF Inv, TasksTypeOK
<1>5. Known'
  <2> SUFFICES ASSUME NEW t \in TaskIds, Live(t) PROVE t \in waiting'
    BY <1>1, <1>3 DEF Known, Live
  <2>1. activeTasks[tasks[t].group] = t /\ tasks[t].group \in Groups
    BY <1>1 DEF Inv, Known, TasksTypeOK
  <2>2. QED
    BY <1>1, <2>1
<1>6. OneTaskPerGroup'
  BY <1>3 DEF Inv, OneTaskPerGroup, Live
<1>7. OwnEntry' /\ Unstarted' /\ StopEnded'
  BY <1>1, <1>3 DEF Inv, OwnEntry, Unstarted, StopEnded, TasksTypeOK
<1>8. QED
  BY <1>4, <1>5, <1>6, <1>7 DEF Inv

LEMMA NextInv == ASSUME Inv, [Next]_vars PROVE Inv'
<1>1. CASE UNCHANGED vars
  BY <1>1 DEF vars, coordinator, Inv, TasksTypeOK, OneTaskPerGroup, OwnEntry, Known, Unstarted,
              StopEnded, Live
<1>2. CASE Coordinate
  BY <1>2, QuietInv, StopTaskInv, TaskStoppedInv, StartTaskInv, ShutDownInv DEF Coordinate
<1>3. CASE \E t \in TaskIds : TaskStep(t)
  BY <1>3, TaskInv
<1>4. CASE Environment
  BY <1>4, EnvironmentInv
<1>5. QED
  BY <1>1, <1>2, <1>3, <1>4 DEF Next

LEMMA SpecInv == Spec => []Inv
<1>1. QED
  BY InitInv, NextInv, PTL DEF Spec

(* Types, for every set of groups and any number of tasks and events.      *)
THEOREM TasksTyped == Spec => []TasksTypeOK
<1>1. Inv => TasksTypeOK
  BY DEF Inv
<1>2. QED
  BY <1>1, SpecInv, PTL

(* Two goroutines never monitor the same group, however its users toggle   *)
(* and delete it and wherever the coordinator is (coordinator.go:108-113). *)
THEOREM OneTask == Spec => []OneTaskPerGroup
<1>1. Inv => OneTaskPerGroup
  BY DEF Inv
<1>2. QED
  BY <1>1, SpecInv, PTL

(* When Start has returned, every goroutine it ever started has returned   *)
(* too (coordinator.go:73-88).                                             *)
THEOREM CleanShutdown == Spec => []ShutdownIsClean
<1>1. Inv => ShutdownIsClean
  BY DEF Inv, ShutdownIsClean, Known, StopEnded
<1>2. QED
  BY <1>1, SpecInv, PTL
=============================================================================
