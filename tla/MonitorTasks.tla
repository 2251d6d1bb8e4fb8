---------------------------- MODULE MonitorTasks ----------------------------
(***************************************************************************)
(* The coordinator of the monitoring daemon (internal/daemon/coordinator.go*)
(* and the loop of runGroupMonitor in monitor.go): every ten seconds it    *)
(* compares the enabled groups with activeTasks, cancels and waits for the *)
(* tasks of the others, and starts the missing ones.  Users create, toggle *)
(* and delete groups meanwhile (internal/api/groups.go and the group       *)
(* commands of internal/cli/root.go); a group's id is random and never     *)
(* used again.  What a task does in a cycle is the module GroupMonitor.    *)
(***************************************************************************)
EXTENDS Naturals

CONSTANTS
  Groups,     (* ids of groups                                             *)
  MaxTasks,   (* bound on the tasks ever started                           *)
  EnvEvents,  (* kinds of events of the environment that may happen        *)
  MaxEvents   (* bound on their number                                     *)

ASSUME TasksAssumption == MaxTasks \in Nat /\ MaxEvents \in Nat

VARIABLES
  groups,      (* target_groups: enabled, disabled, deleted or not created *)
  activeTasks, (* the task of each group, 0 for none                       *)
  tasks,       (* the goroutines by id: group, phase, cancelled            *)
  started,     (* number of tasks started so far                           *)
  pc,          (* where the coordinator is                                 *)
  current,     (* currentGroupIDs, as last listed                          *)
  waiting,     (* the tasks whose done channel it waits for                *)
  shutdown,    (* the daemon's context is cancelled                        *)
  events       (* events of the environment so far                         *)

coordinator == <<activeTasks, started, pc, current, waiting>>
vars == <<groups, coordinator, tasks, shutdown, events>>

TaskIds == 1 .. MaxTasks
Phases == {"none", "reading", "working", "sleeping", "done", "lost"}

Event(kind) == kind \in EnvEvents /\ events < MaxEvents /\ events' = events + 1

(* A task is live until its goroutine returns and closes done.             *)
Live(t) == tasks[t].phase \in {"reading", "working", "sleeping"}
Cancelled(t) == shutdown \/ tasks[t].cancelled
Enabled(g) == groups[g] = "enabled"

TasksTypeOK ==
  /\ groups \in [Groups -> {"new", "enabled", "disabled", "deleted"}]
  /\ activeTasks \in [Groups -> 0 .. MaxTasks]
  /\ tasks \in [TaskIds -> [group : Groups, phase : Phases, cancelled : BOOLEAN]]
  /\ started \in 0 .. MaxTasks
  /\ pc \in {"idle", "stopping", "waiting", "starting", "shutting", "stopped"}
  /\ current \subseteq Groups /\ waiting \subseteq TaskIds
  /\ shutdown \in BOOLEAN /\ events \in 0 .. MaxEvents

Init ==
  /\ groups \in [Groups -> {"new", "enabled", "disabled"}]
  /\ activeTasks = [g \in Groups |-> 0]
  /\ tasks \in [TaskIds -> [group : Groups, phase : {"none"}, cancelled : {FALSE}]]
  /\ \A t, u \in TaskIds : tasks[t].group = tasks[u].group
  /\ started = 0 /\ pc = "idle" /\ current = {} /\ waiting = {}
  /\ shutdown = FALSE /\ events = 0

(***************************************************************************)
(* A task                                                                  *)
(***************************************************************************)

Becomes(t, phase) == tasks' = [tasks EXCEPT ![t].phase = phase]

(* Mutated form: the task looks at the enabled column itself.              *)
Gone_OrDisabled(t) == ~Enabled(tasks[t].group)

Gone(t) == groups[tasks[t].group] = "deleted"

(* Mutated form: the read is made with a context of its own.               *)
ReadGroup_OtherContext(t) ==
  /\ tasks[t].phase = "reading"
  /\ UNCHANGED <<groups, coordinator, shutdown>>
  /\ \/ Gone(t) /\ Becomes(t, "done") /\ UNCHANGED events
     \/ ~Gone(t) /\ Becomes(t, "working") /\ UNCHANGED events
     \/ ~Gone(t) /\ Event("readError") /\ Becomes(t, "lost")

(* The top of the loop: the context, then GetGroupDirect.  A read that     *)
(* fails ends the task as if the group were gone; its entry stays.         *)
ReadGroup(t) ==
  /\ tasks[t].phase = "reading"
  /\ UNCHANGED <<groups, coordinator, shutdown>>
  /\ \/ (Cancelled(t) \/ Gone(t)) /\ Becomes(t, "done") /\ UNCHANGED events
     \/ ~Cancelled(t) /\ ~Gone(t) /\ Becomes(t, "working") /\ UNCHANGED events
     \/ ~Cancelled(t) /\ Event("readError") /\ Becomes(t, "lost")

(* The probes and the provider's calls are bounded by timeouts.            *)
FinishCycle(t) ==
  /\ tasks[t].phase = "working"
  /\ Becomes(t, "sleeping")
  /\ UNCHANGED <<groups, coordinator, shutdown, events>>

(* The select at the end of a cycle: the interval or the cancellation.     *)
Wake(t) ==
  /\ tasks[t].phase = "sleeping"
  /\ \/ Becomes(t, "reading")
     \/ Cancelled(t) /\ Becomes(t, "done")
  /\ UNCHANGED <<groups, coordinator, shutdown, events>>

TaskStep(t) == ReadGroup(t) \/ FinishCycle(t) \/ Wake(t)

(***************************************************************************)
(* The coordinator                                                         *)
(***************************************************************************)

(* Mutated form: disabled groups are listed too.                           *)
ListAllGroups_AllGroups ==
  /\ pc = "idle" /\ ~shutdown
  /\ current' = {g \in Groups : groups[g] \in {"enabled", "disabled"}}
  /\ pc' = "stopping"
  /\ UNCHANGED <<groups, activeTasks, tasks, started, waiting, shutdown, events>>

(* ListAllGroups at a tick.  A list that fails changes nothing; after      *)
(* the daemon's cancellation it always fails.                              *)
ListAllGroups ==
  /\ pc = "idle" /\ ~shutdown
  /\ current' = {g \in Groups : Enabled(g)}
  /\ pc' = "stopping"
  /\ UNCHANGED <<groups, activeTasks, tasks, started, waiting, shutdown, events>>

ToStop == {g \in Groups \ current : activeTasks[g] # 0}
ToStart == {g \in current : activeTasks[g] = 0}

(* task.cancel(), then the wait for task.done with the mutex held.         *)
StopTask(g) ==
  /\ pc = "stopping" /\ g \in ToStop
  /\ tasks' = [tasks EXCEPT ![activeTasks[g]].cancelled = TRUE]
  /\ waiting' = {activeTasks[g]}
  /\ pc' = "waiting"
  /\ UNCHANGED <<groups, activeTasks, started, current, shutdown, events>>

(* Mutated form: the entry is deleted without waiting for done.            *)
TaskStopped_NotAwaited ==
  /\ pc = "waiting"
  /\ activeTasks' = [g \in Groups |-> IF activeTasks[g] \in waiting THEN 0 ELSE activeTasks[g]]
  /\ waiting' = {}
  /\ pc' = "stopping"
  /\ UNCHANGED <<groups, tasks, started, current, shutdown, events>>

TaskStopped ==
  /\ pc = "waiting" /\ \A t \in waiting : ~Live(t)
  /\ activeTasks' = [g \in Groups |-> IF activeTasks[g] \in waiting THEN 0 ELSE activeTasks[g]]
  /\ waiting' = {}
  /\ pc' = "stopping"
  /\ UNCHANGED <<groups, tasks, started, current, shutdown, events>>

AllStopped ==
  /\ pc = "stopping" /\ ToStop = {}
  /\ pc' = "starting"
  /\ UNCHANGED <<groups, activeTasks, tasks, started, current, waiting, shutdown, events>>

(* The goroutine is started with a context below the daemon's.             *)
StartTask(g) ==
  /\ pc = "starting" /\ g \in ToStart /\ started < MaxTasks
  /\ started' = started + 1
  /\ activeTasks' = [activeTasks EXCEPT ![g] = started + 1]
  /\ tasks' = [tasks EXCEPT ![started + 1] =
                 [group |-> g, phase |-> "reading", cancelled |-> FALSE]]
  /\ UNCHANGED <<groups, pc, current, waiting, shutdown, events>>

AllStarted ==
  /\ pc = "starting" /\ (ToStart = {} \/ started = MaxTasks)
  /\ pc' = "idle"
  /\ UNCHANGED <<groups, activeTasks, tasks, started, current, waiting, shutdown, events>>

(* Mutated form: the tasks are cancelled but not waited for.               *)
ShutDown_NotAwaited ==
  /\ pc = "idle" /\ shutdown
  /\ tasks' = [t \in TaskIds |->
                 [tasks[t] EXCEPT !.cancelled = @ \/ \E g \in Groups : activeTasks[g] = t]]
  /\ activeTasks' = [g \in Groups |-> 0]
  /\ waiting' = {}
  /\ pc' = "shutting"
  /\ UNCHANGED <<groups, started, current, shutdown, events>>

(* The branch of ctx.Done(): every task is cancelled and waited for.       *)
ShutDown ==
  /\ pc = "idle" /\ shutdown
  /\ tasks' = [t \in TaskIds |->
                 [tasks[t] EXCEPT !.cancelled = @ \/ \E g \in Groups : activeTasks[g] = t]]
  /\ activeTasks' = [g \in Groups |-> 0]
  /\ waiting' = {t \in TaskIds : \E g \in Groups : activeTasks[g] = t}
  /\ pc' = "shutting"
  /\ UNCHANGED <<groups, started, current, shutdown, events>>

(* Start returns; main closes the database.                                *)
Stopped ==
  /\ pc = "shutting" /\ \A t \in waiting : ~Live(t)
  /\ pc' = "stopped"
  /\ UNCHANGED <<groups, activeTasks, tasks, started, current, waiting, shutdown, events>>

Coordinate ==
  \/ ListAllGroups
  \/ \E g \in Groups : StopTask(g) \/ StartTask(g)
  \/ TaskStopped \/ AllStopped \/ AllStarted
  \/ ShutDown \/ Stopped

(***************************************************************************)
(* The environment                                                         *)
(***************************************************************************)

CreateGroup(g) ==
  /\ groups[g] = "new" /\ Event("create")
  /\ groups' = [groups EXCEPT ![g] = "enabled"]
  /\ UNCHANGED <<coordinator, tasks, shutdown>>

UpdateGroupEnabled(g, enabled) ==
  /\ groups[g] \in {"enabled", "disabled"} /\ Event("toggle")
  /\ groups' = [groups EXCEPT ![g] = IF enabled THEN "enabled" ELSE "disabled"]
  /\ UNCHANGED <<coordinator, tasks, shutdown>>

DeleteGroup(g) ==
  /\ groups[g] \in {"enabled", "disabled"} /\ Event("delete")
  /\ groups' = [groups EXCEPT ![g] = "deleted"]
  /\ UNCHANGED <<coordinator, tasks, shutdown>>

(* SIGTERM: the server stops and the daemon's context is cancelled.        *)
Terminate ==
  /\ ~shutdown /\ Event("terminate")
  /\ shutdown' = TRUE
  /\ UNCHANGED <<groups, coordinator, tasks>>

Environment ==
  \/ \E g \in Groups : CreateGroup(g) \/ DeleteGroup(g)
  \/ \E g \in Groups, enabled \in BOOLEAN : UpdateGroupEnabled(g, enabled)
  \/ Terminate

Next == Coordinate \/ (\E t \in TaskIds : TaskStep(t)) \/ Environment

Spec == Init /\ [][Next]_vars

(* The ticker goes on and a goroutine that can run does.                   *)
FairSpec == Spec /\ WF_vars(Coordinate) /\ \A t \in TaskIds : WF_vars(TaskStep(t))

(***************************************************************************)
(* Properties                                                              *)
(***************************************************************************)

(* Two tasks never monitor one group at once: they would probe it twice    *)
(* and edit its record against each other, each on its own snapshot        *)
(* (reconcileTasks waits for done before it forgets a task).               *)
OneTaskPerGroup ==
  \A t, u \in TaskIds :
     Live(t) /\ Live(u) /\ tasks[t].group = tasks[u].group => t = u

(* When Start has returned and main closes the database, no task is left   *)
(* that could still use it or edit a record (coordinator.go, ctx.Done()).  *)
ShutdownIsClean == pc = "stopped" => \A t \in TaskIds : ~Live(t)

(* A group that is disabled or deleted for good is left alone: no task     *)
(* goes on editing its record.                                             *)
DisabledGroupStops ==
  \A g \in Groups : <>[]~Enabled(g) => <>[](\A t \in TaskIds : tasks[t].group = g => ~Live(t))

(* A group that stays enabled is monitored, unless its task was lost to a  *)
(* failed read: the entry of a task that has returned counts as active.    *)
EnabledGroupMonitored ==
  \A g \in Groups :
     <>[](Enabled(g) /\ ~shutdown) =>
       <>[](activeTasks[g] # 0 /\ (Live(activeTasks[g]) \/ tasks[activeTasks[g]].phase = "lost"))

(* The shutdown ends: the coordinator, which may be waiting for a task     *)
(* with the mutex held, and every task are done with it.                   *)
ShutdownCompletes == shutdown ~> pc = "stopped"

(* "Group no longer exists in DB. Exiting monitor task." (monitor.go:45):  *)
(* a task that leaves the loop there, not cancelled, has lost its group.   *)
ExitsOnlyWhenGone ==
  [][\A t \in TaskIds :
       (Live(t) /\ ~Live(t)' /\ ~Cancelled(t)) => groups[tasks[t].group] = "deleted"]_vars
=============================================================================
