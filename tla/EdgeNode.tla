------------------------------ MODULE EdgeNode ------------------------------
(***************************************************************************)
(* The storage directory of one edge node with several clusters: the sync  *)
(* cycle of nodem-agent (internal/agent) and the operator's commands       *)
(* "cluster remove" and "cluster prune" (cmd/nodem-agent/cluster.go) work  *)
(* on one state file and one tree of key files without a lock.             *)
(*                                                                         *)
(* The server's answer is taken in one step here; what can happen inside   *)
(* it, and to acknowledgments, is the module EchRollout.  Signatures are   *)
(* valid and answers are not replayed; key number v is that of version v.  *)
(* Any operation on a file may fail (the event "fileError"), also where the*)
(* code discards the error.  An empty directory or a damaged key file      *)
(* counts as none.                                                         *)
(***************************************************************************)
EXTENDS Integers, FiniteSets

CONSTANTS
  Clusters,   (* ids of clusters; each has one name                        *)
  MaxVersion, (* bound on the versions of a cluster's key                  *)
  Proxies,    (* the proxy types an agent may be configured with           *)
  EnvEvents,  (* kinds of events of the environment that may happen        *)
  MaxEvents   (* bound on their number                                     *)

ASSUME EdgeAssumption ==
  /\ MaxVersion \in Nat \ {0} /\ MaxEvents \in Nat
  /\ Proxies \subseteq {"nginx", "hook"}

VARIABLES
  assigned,  (* the clusters the server assigns to the node                *)
  ver,       (* their current versions, 0 before the first key             *)
  proxy,     (* cfg.ProxyType                                              *)
  disk,      (* agent_state.json                                           *)
  files,     (* key files by cluster and layout: cluster_<id> or its name  *)
  includes,  (* the key files ech_includes.conf names                      *)
  loaded,    (* the keys the proxy serves for each cluster                 *)
  pc,        (* where the agent is in its cycle                            *)
  local,     (* localState in memory                                       *)
  plan,      (* the answer: its clusters, their new keys; what to remove   *)
  cmd,       (* the operator's command: step, clusters, state it has read  *)
  events,    (* events of the environment so far                           *)
  unsaved,   (* history: removed clusters whose entry is still on disk     *)
  mixed,     (* history: a command has overlapped a cycle, could not read  *)
             (* the state file, or has met an entry of the older format    *)
  orphaned,  (* history: clusters whose files may have outlived their      *)
             (* entry, after a failed deletion or the loss of the state    *)
  unwritten  (* history: the last write of the includes failed or was cut  *)

server == <<assigned, ver, proxy>>
storage == <<disk, files, includes, loaded>>
agent == <<pc, local, plan>>
history == <<unsaved, mixed>>
failures == <<orphaned, unwritten>>
vars == <<server, storage, agent, cmd, events, history, failures>>

Layouts == {"id", "name"}
NoEntry == -1
Entries == [Clusters -> NoEntry .. MaxVersion]

(* AppliedVersion by key; an entry's key is the cluster's id or, in the    *)
(* older format, its name.                                                 *)
State == [id : Entries, name : Entries]
EmptyState == [id |-> [c \in Clusters |-> NoEntry], name |-> [c \in Clusters |-> NoEntry]]
Torn == [id |-> <<>>, name |-> <<>>]  (* not a State: a file that does not parse *)

KeyDir == [cur : 0 .. MaxVersion, prev : 0 .. MaxVersion]
NoFiles == [cur |-> 0, prev |-> 0]
NoPlan == [clusters |-> {}, new |-> [c \in Clusters |-> 0], remove |-> {}, todo |-> {}]
NoCommand == [step |-> "none", clusters |-> {}, state |-> EmptyState]

Event(kind) == kind \in EnvEvents /\ events < MaxEvents /\ events' = events + 1

(* A file that does not parse is read as no state at all; so is one that   *)
(* cannot be read.                                                         *)
LoadState == IF disk = Torn THEN EmptyState ELSE disk
StatesRead == {LoadState} \cup (IF "fileError" \in EnvEvents THEN {EmptyState} ELSE {})

(* The clusters whose files nothing leads to once the state is lost.       *)
Lost == orphaned \cup {c \in Clusters : LoadState.id[c] # NoEntry}

(* SaveState, whose error every caller discards: the file is as it was, or *)
(* truncated.                                                              *)
Saved(st) == disk' = st /\ UNCHANGED <<events, orphaned>>

SaveFails ==
  /\ Event("fileError")
  /\ disk' \in {disk, Torn}
  /\ orphaned' = IF disk' = Torn THEN Lost ELSE orphaned

KeysOf(d) == {d.cur, d.prev} \ {0}
FilesOf(c) == UNION {KeysOf(files[c][l]) : l \in Layouts}
Dirs == {d \in Clusters \X Layouts : files[d[1]][d[2]].cur # 0}

(* GenerateMasterIncludesConf                                              *)
IncludesWritten == includes' = Dirs /\ unwritten' = FALSE
IncludesFail == UNCHANGED includes /\ unwritten' = TRUE

EdgeTypeOK ==
  /\ assigned \subseteq Clusters /\ ver \in [Clusters -> 0 .. MaxVersion]
  /\ proxy \in Proxies
  /\ disk = Torn \/ disk \in State
  /\ files \in [Clusters -> [Layouts -> KeyDir]]
  /\ includes \subseteq Clusters \X Layouts
  /\ loaded \in [Clusters -> SUBSET (1 .. MaxVersion)]
  /\ pc \in {"idle", "migrating", "saveMigrated", "deciding", "removing", "deploying",
             "reloading", "saving", "reloadRemoved", "down"}
  /\ local \in State
  /\ plan.new \in [Clusters -> 0 .. MaxVersion]
  /\ plan.clusters \cup plan.remove \cup plan.todo \cup cmd.clusters \subseteq Clusters
  /\ cmd.step \in {"none", "remove", "removeSave", "prune", "reload"} /\ cmd.state \in State
  /\ events \in 0 .. MaxEvents /\ unsaved \subseteq Clusters /\ mixed \in BOOLEAN
  /\ orphaned \subseteq Clusters /\ unwritten \in BOOLEAN

(* A node as it is installed, or one whose clusters an older agent stored  *)
(* under their names.                                                      *)
Init ==
  /\ assigned \in SUBSET Clusters /\ ver \in [Clusters -> {0, 1}]
  /\ proxy \in Proxies
  /\ \E legacy \in SUBSET {c \in assigned : ver[c] = 1} :
       LET version(c) == IF c \in legacy THEN 1 ELSE 0
       IN  /\ disk = [EmptyState EXCEPT !.name =
                        [c \in Clusters |-> IF c \in legacy THEN 1 ELSE NoEntry]]
           /\ files = [c \in Clusters |->
                         [l \in Layouts |-> IF l = "name" THEN [NoFiles EXCEPT !.cur = version(c)]
                                                          ELSE NoFiles]]
           /\ includes = IF proxy = "nginx" THEN {<<c, "name">> : c \in legacy} ELSE {}
           /\ loaded = [c \in Clusters |-> {version(c)} \ {0}]
  /\ pc = "idle" /\ local = EmptyState /\ plan = NoPlan
  /\ cmd = NoCommand /\ events = 0 /\ unsaved = {} /\ mixed = FALSE
  /\ orphaned = {} /\ unwritten = FALSE

(***************************************************************************)
(* The agent's cycle                                                       *)
(***************************************************************************)

Goto(step) == pc' = step

EndCycle == Goto("idle") /\ local' = EmptyState /\ plan' = NoPlan

(* The version the server compares with: by id, else by name.              *)
Reported(st, c) == IF st.id[c] # NoEntry THEN st.id[c] ELSE st.name[c]

NewKey(st, c) == c \in assigned /\ ver[c] > 0 /\ Reported(st, c) # ver[c]

(* LoadState, then the pull: SyncNode's answer for every cluster.          *)
Pull ==
  /\ pc = "idle"
  /\ \/ local' = LoadState /\ UNCHANGED <<events, orphaned>>
     \/ local' = EmptyState /\ orphaned' = Lost /\ Event("fileError")
  /\ plan' = [NoPlan EXCEPT
                !.clusters = assigned,
                !.new = [c \in Clusters |-> IF NewKey(local', c) THEN ver[c] ELSE 0]]
  /\ mixed' = (mixed \/ cmd # NoCommand)
  /\ Goto("migrating")
  /\ UNCHANGED <<server, storage, cmd, unsaved, unwritten>>

(* MigrateLegacyClusterFolders, for the clusters of the answer: the rename *)
(* of a directory, whose error is discarded, and, in memory, of an entry.  *)
MigratedEntries(st) ==
  [id   |-> [c \in Clusters |-> IF c \in plan.clusters /\ st.id[c] = NoEntry
                                THEN st.name[c] ELSE st.id[c]],
   name |-> [c \in Clusters |-> IF c \in plan.clusters THEN NoEntry ELSE st.name[c]]]

(* Mutated form: nothing is left under the name, not even an empty record. *)
MigratedDirs_Dropped(d) == [id |-> d["name"]]

MigratedDirs(d) == [id |-> d["name"], name |-> NoFiles]

Renamed == {c \in plan.clusters : files[c]["id"] = NoFiles /\ files[c]["name"] # NoFiles}

MigrateLegacyClusterFolders ==
  /\ pc = "migrating"
  /\ local' = MigratedEntries(local)
  /\ \E failed \in SUBSET Renamed :
       /\ files' = [c \in Clusters |->
                      IF c \in Renamed \ failed THEN MigratedDirs(files[c]) ELSE files[c]]
       /\ IF failed = {} THEN UNCHANGED events ELSE Event("fileError")
  /\ Goto(IF local' # local \/ Renamed # {} THEN "saveMigrated" ELSE "deciding")
  /\ UNCHANGED <<server, disk, includes, loaded, plan, cmd, history, failures>>

(* Both writes may fail, and the cycle goes on.                            *)
SaveMigrated ==
  /\ pc = "saveMigrated"
  /\ \/ Saved(local) /\ IncludesWritten
     \/ SaveFails /\ (IncludesWritten \/ IncludesFail)
     \/ disk' = local /\ UNCHANGED orphaned /\ IncludesFail /\ Event("fileError")
  /\ Goto("deciding")
  /\ UNCHANGED <<server, files, loaded, local, plan, cmd, history>>

(* The clusters with an entry that the answer does not name.  An entry by  *)
(* name is dropped without its directory.                                  *)
Removed == {c \in Clusters \ plan.clusters : local.id[c] # NoEntry}
Updated == {c \in Clusters : plan.new[c] # 0}
Reconciled == [local EXCEPT !.name = [c \in Clusters |->
                 IF c \in plan.clusters THEN local.name[c] ELSE NoEntry]]

(* Nothing to do.  The state is saved for its timestamp, unless the        *)
(* server's clock shows no later second.                                   *)
UpToDate ==
  /\ pc = "deciding" /\ Removed \cup Updated = {}
  /\ Saved(disk) \/ Saved(Reconciled) \/ SaveFails
  /\ EndCycle
  /\ UNCHANGED <<server, files, includes, loaded, cmd, history, unwritten>>

Decide ==
  /\ pc = "deciding" /\ Removed \cup Updated # {}
  /\ local' = Reconciled
  /\ plan' = [plan EXCEPT !.remove = Removed, !.todo = Removed]
  /\ Goto("removing")
  /\ UNCHANGED <<server, storage, cmd, events, history, failures>>

(* RemoveAll of directories.  Its error is logged or discarded: any of     *)
(* their files may stay.                                                   *)

(* Mutated form: the directory of the older layout is deleted only.        *)
WithoutDirs_LegacyOnly(D) ==
  [c \in Clusters |-> [l \in Layouts |->
     IF <<c, l>> \in D /\ l = "name" THEN NoFiles ELSE files[c][l]]]

WithoutDirs(D) ==
  [c \in Clusters |-> [l \in Layouts |-> IF <<c, l>> \in D THEN NoFiles ELSE files[c][l]]]

Leftovers(D) ==
  LET left == {g \in [D -> KeyDir] : \A d \in D :
                 /\ g[d].cur \in {0, files[d[1]][d[2]].cur}
                 /\ g[d].prev \in {0, files[d[1]][d[2]].prev}}
  IN  {[c \in Clusters |-> [l \in Layouts |->
          IF <<c, l>> \in D THEN g[<<c, l>>] ELSE files[c][l]]] : g \in left}

(* RemoveLocally of one cluster: its directories, then the remove trigger  *)
(* of a hook script, whose failure is only logged.                         *)
Unhooked(c) == IF proxy = "hook" THEN [loaded EXCEPT ![c] = {}] ELSE loaded

RemoveDirs(c, D) ==
  /\ \/ files' = WithoutDirs(D) /\ loaded' = Unhooked(c) /\ UNCHANGED <<events, orphaned>>
     \/ /\ proxy = "hook" /\ Event("reloadError")
        /\ files' = WithoutDirs(D) /\ UNCHANGED <<loaded, orphaned>>
     \/ /\ Event("fileError") /\ orphaned' = orphaned \cup {c}
        /\ files' \in Leftovers(D) /\ loaded' \in {loaded, Unhooked(c)}
  /\ unsaved' = unsaved \cup {c}

RemoveLocally(c) ==
  /\ pc = "removing" /\ c \in plan.todo
  /\ RemoveDirs(c, {c} \X Layouts)
  /\ plan' = [plan EXCEPT !.todo = @ \ {c}]
  /\ UNCHANGED <<server, disk, includes, pc, local, cmd, mixed, unwritten>>

AllRemoved ==
  /\ pc = "removing" /\ plan.todo = {}
  /\ plan' = [plan EXCEPT !.todo = Updated]
  /\ Goto(IF Updated = {} THEN "saving" ELSE "deploying")
  /\ UNCHANGED <<server, storage, local, cmd, events, history, failures>>

(* One cluster of DeployLocally: current to previous, then the rename.  A  *)
(* backup that fails leaves the previous key, or a damaged one, and the    *)
(* current key is replaced all the same.                                   *)
Previous(d) == IF d.cur # 0 THEN d.cur ELSE d.prev

DeployLocally(c) ==
  LET old == files[c]["id"]
  IN  /\ pc = "deploying" /\ c \in plan.todo
      /\ \E prev \in {Previous(old), old.prev, 0} :
           /\ files' = [files EXCEPT ![c]["id"] = [cur |-> plan.new[c], prev |-> prev]]
           /\ IF prev = Previous(old) THEN UNCHANGED events
              ELSE old.cur # 0 /\ Event("fileError")
      /\ plan' = [plan EXCEPT !.todo = @ \ {c}]
      /\ orphaned' = orphaned \ {c}
      /\ Goto(IF plan'.todo = {} THEN "reloading" ELSE "deploying")
      /\ UNCHANGED <<server, disk, includes, loaded, local, cmd, history, unwritten>>

(* What a deployment that does not get to the rename may leave.            *)
Backups(c) ==
  {files} \cup {[files EXCEPT ![c]["id"].prev = p] :
                 p \in IF files[c]["id"].cur # 0 THEN {files[c]["id"].cur, 0} ELSE {}}

(* The cycle acknowledges a failure and ends without saving, reloading or  *)
(* regenerating the includes.                                              *)

(* Mutated form: a failed deployment is only logged, as a failed removal   *)
(* is, and the cycle goes on.                                              *)
WriteFails_Logged(c) ==
  /\ pc = "deploying" /\ c \in plan.todo /\ Event("fileError")
  /\ files' \in Backups(c)
  /\ Goto("saving")
  /\ UNCHANGED <<server, disk, includes, loaded, local, plan, cmd, history, failures>>

WriteFails(c) ==
  /\ pc = "deploying" /\ c \in plan.todo /\ Event("fileError")
  /\ files' \in Backups(c)
  /\ EndCycle
  /\ UNCHANGED <<server, disk, includes, loaded, cmd, history, failures>>

(* ReloadLocalProxies, with the clusters it has new keys for.  nginx reads *)
(* the regenerated includes; a hook is run for each of the clusters, up to *)
(* the first that fails.                                                   *)
Served(c) ==
  UNION {KeysOf(files[c][l]) :
           l \in {m \in Layouts : <<c, m>> \in Dirs /\ (proxy = "hook" => m = "id")}}

ServesFiles(S) == [c \in Clusters |-> IF c \in S THEN Served(c) ELSE loaded[c]]

(* Mutated form: the includes are left as they are.                        *)
Reloads_SameIncludes(S) ==
  /\ loaded' = ServesFiles(IF proxy = "nginx" THEN Clusters ELSE S)
  /\ UNCHANGED <<includes, unwritten>>

Reloads(S) ==
  IF proxy = "nginx"
  THEN IncludesWritten /\ loaded' = ServesFiles(Clusters)
  ELSE loaded' = ServesFiles(S) /\ UNCHANGED <<includes, unwritten>>

ReloadBreaks(S) ==
  \/ /\ proxy = "nginx" /\ UNCHANGED loaded
     /\ \/ IncludesWritten /\ Event("reloadError")
        \/ IncludesFail /\ Event("fileError")
  \/ /\ proxy = "hook" /\ Event("reloadError")
     /\ \E done \in SUBSET S : done # S /\ loaded' = ServesFiles(done)
     /\ UNCHANGED <<includes, unwritten>>

Reload ==
  /\ pc = "reloading"
  /\ Reloads(Updated)
  /\ Goto("saving")
  /\ UNCHANGED <<server, disk, files, local, plan, cmd, events, history, orphaned>>

(* Mutated form: a failed reload is only logged.                           *)
ReloadFails_Ignored ==
  /\ pc = "reloading"
  /\ ReloadBreaks(Updated)
  /\ Goto("saving")
  /\ UNCHANGED <<server, disk, files, local, plan, cmd, history, orphaned>>

ReloadFails ==
  /\ pc = "reloading"
  /\ ReloadBreaks(Updated)
  /\ EndCycle
  /\ UNCHANGED <<server, disk, files, cmd, history, orphaned>>

(* A cluster of the answer that has no entry yet and no key gets version 0.*)
NewState ==
  [local EXCEPT !.id = [c \in Clusters |->
     IF c \in plan.remove THEN NoEntry
     ELSE IF c \in Updated THEN plan.new[c]
     ELSE IF c \in plan.clusters /\ local.id[c] = NoEntry THEN 0
     ELSE local.id[c]]]

SaveState ==
  /\ pc = "saving"
  /\ \/ Saved(NewState) /\ unsaved' = unsaved \ (plan.remove \cup Updated)
     \/ SaveFails /\ UNCHANGED unsaved
  /\ IF Updated = {} THEN Goto("reloadRemoved") /\ UNCHANGED <<local, plan>>
                     ELSE EndCycle
  /\ UNCHANGED <<server, files, includes, loaded, cmd, mixed, unwritten>>

(* The reload after a removal; one that fails is not tried again.          *)
ReloadRemoved ==
  /\ pc = "reloadRemoved"
  /\ \/ Reloads({}) /\ UNCHANGED events
     \/ ReloadBreaks({})
  /\ EndCycle
  /\ UNCHANGED <<server, disk, files, cmd, history, orphaned>>

(***************************************************************************)
(* Crash and restart of the agent                                          *)
(***************************************************************************)

(* SaveState truncates the file and writes it in place: a crash inside it  *)
(* leaves a file that does not parse.                                      *)
Saving == pc \in {"saveMigrated", "saving"} \/ (pc = "deciding" /\ Removed \cup Updated = {})

Crash ==
  /\ pc \notin {"idle", "down"} /\ Event("crash")
  /\ disk' \in {disk} \cup (IF Saving THEN {Torn} ELSE {})
  /\ orphaned' = IF disk' = Torn THEN Lost ELSE orphaned
  /\ unsaved' = IF disk' = Torn THEN {} ELSE unsaved
  /\ files' \in {files} \cup (IF pc = "deploying" THEN UNION {Backups(c) : c \in plan.todo} ELSE {})
  /\ Goto("down") /\ local' = EmptyState /\ plan' = NoPlan
  /\ UNCHANGED <<server, includes, loaded, cmd, mixed, unwritten>>

(* main regenerates the includes before the first cycle, and goes on if it *)
(* fails.                                                                  *)
Start ==
  /\ pc = "down"
  /\ IF proxy = "nginx"
     THEN \/ IncludesWritten /\ UNCHANGED events
          \/ IncludesFail /\ Event("fileError")
     ELSE UNCHANGED <<includes, unwritten, events>>
  /\ Goto("idle")
  /\ UNCHANGED <<server, disk, files, loaded, local, plan, cmd, history, orphaned>>

(***************************************************************************)
(* The operator's commands                                                 *)
(***************************************************************************)

(* LoadState, as it begins.                                                *)
Begin(step, clusters, st) ==
  /\ cmd = NoCommand
  /\ cmd' = [step |-> step, clusters |-> clusters, state |-> st]
  /\ mixed' = (mixed \/ pc \notin {"idle", "down"} \/ st # LoadState
                      \/ LoadState.name # EmptyState.name)
  /\ UNCHANGED <<server, storage, agent, unsaved, failures>>

(* cluster remove, by id: the confirmation ...                             *)
ClusterRemove(c) ==
  /\ Event("remove")
  /\ \E st \in StatesRead : Begin("remove", {c}, st)

(* ... the files; the older layout only if the entry tells the name ...    *)
RemoveFiles(c) ==
  /\ cmd.step = "remove" /\ c \in cmd.clusters
  /\ RemoveDirs(c, {c} \X (IF cmd.state.id[c] # NoEntry THEN Layouts ELSE {"id"}))
  /\ cmd' = [cmd EXCEPT !.step = "removeSave"]
  /\ UNCHANGED <<server, disk, includes, agent, mixed, unwritten>>

(* ... the state that was read, without the entry.                         *)
RemoveEntry ==
  /\ cmd.step = "removeSave"
  /\ \/ /\ Saved([cmd.state EXCEPT !.id = [c \in Clusters |->
                    IF c \in cmd.clusters THEN NoEntry ELSE cmd.state.id[c]]])
        /\ unsaved' = unsaved \ cmd.clusters
     \/ SaveFails /\ UNCHANGED unsaved
  /\ cmd' = [cmd EXCEPT !.step = "reload"]
  /\ UNCHANGED <<server, files, includes, loaded, agent, mixed, unwritten>>

(* cluster prune: the directories without an entry ...                     *)
ClusterPrune ==
  /\ Event("prune")
  /\ \E st \in StatesRead :
       Begin("prune", {c \in Clusters : files[c]["id"] # NoFiles /\ st.id[c] = NoEntry}, st)

(* ... which are deleted after the confirmation.                           *)
PruneDirs ==
  /\ cmd.step = "prune"
  /\ \/ files' = WithoutDirs(cmd.clusters \X {"id"}) /\ UNCHANGED <<events, orphaned>>
     \/ /\ files' \in Leftovers(cmd.clusters \X {"id"}) /\ Event("fileError")
        /\ orphaned' = orphaned \cup cmd.clusters
  /\ cmd' = IF cmd.clusters = {} THEN NoCommand ELSE [cmd EXCEPT !.step = "reload"]
  /\ UNCHANGED <<server, disk, includes, loaded, agent, history, unwritten>>

CommandReload ==
  /\ cmd.step = "reload"
  /\ \/ Reloads({}) /\ UNCHANGED events
     \/ ReloadBreaks({})
  /\ cmd' = NoCommand
  /\ UNCHANGED <<server, disk, files, agent, history, orphaned>>

(* The operator does not confirm, or interrupts the command later on.      *)
CommandCut ==
  /\ cmd # NoCommand
  /\ IF cmd.step \in {"remove", "prune"} THEN UNCHANGED events ELSE Event("crash")
  /\ disk' \in {disk} \cup (IF cmd.step = "removeSave" THEN {Torn} ELSE {})
  /\ orphaned' = IF disk' = Torn THEN Lost ELSE orphaned
  /\ unwritten' = (unwritten \/ cmd.step \in {"removeSave", "reload"})
  /\ cmd' = NoCommand
  /\ UNCHANGED <<server, files, includes, loaded, agent, history>>

(***************************************************************************)
(* The server                                                              *)
(***************************************************************************)

Assign(c) ==
  /\ Event("assign")
  /\ assigned' = IF c \in assigned THEN assigned \ {c} ELSE assigned \cup {c}
  /\ UNCHANGED <<ver, proxy, storage, agent, cmd, history, failures>>

Rotate(c) ==
  /\ ver[c] < MaxVersion /\ Event("rotate")
  /\ ver' = [ver EXCEPT ![c] = @ + 1]
  /\ UNCHANGED <<assigned, proxy, storage, agent, cmd, history, failures>>

AgentStep ==
  \/ Pull \/ MigrateLegacyClusterFolders \/ SaveMigrated \/ UpToDate \/ Decide
  \/ \E c \in Clusters : RemoveLocally(c) \/ DeployLocally(c)
  \/ AllRemoved \/ Reload \/ SaveState \/ ReloadRemoved \/ Start

CommandStep ==
  \/ \E c \in Clusters : RemoveFiles(c)
  \/ RemoveEntry \/ PruneDirs \/ CommandReload

Next ==
  \/ AgentStep \/ CommandStep
  \/ ReloadFails \/ Crash \/ ClusterPrune \/ CommandCut
  \/ \E c \in Clusters : WriteFails(c) \/ ClusterRemove(c) \/ Assign(c) \/ Rotate(c)

Spec == Init /\ [][Next]_vars

(* The agent's ticker goes on, also after a restart; a command that nobody *)
(* interrupts runs to its end.                                             *)
FairSpec == Spec /\ WF_vars(AgentStep) /\ WF_vars(CommandStep)

(***************************************************************************)
(* Properties                                                              *)
(***************************************************************************)

Quiet == pc = "idle" /\ cmd = NoCommand

(* Between cycles, an entry means that one of the cluster's directories    *)
(* has that version or a newer one: by the entry alone SyncNode says       *)
(* UP_TO_DATE and DeployLocally is never called again.  (The directory is  *)
(* the older one where a rename failed; every cycle tries it again.)       *)
(* Exempt are a removal that was not saved and a command that overlapped a *)
(* cycle: see UpToDateHasKeys.                                             *)
EntryHasKeys ==
  Quiet /\ ~mixed =>
    \A c \in Clusters \ unsaved : \E l \in Layouts :
      files[c][l].cur >= LoadState.id[c] /\ files[c][l].cur >= LoadState.name[c]

(* "All assigned ECH clusters are up to date." (syncer.go:151): when the   *)
(* agent says so and no command is running, every cluster of the answer    *)
(* whose entry has a version has its key on disk.                          *)
UpToDateHasKeys ==
  [][pc = "deciding" /\ pc' = "idle" /\ cmd = NoCommand =>
       \A c \in plan.clusters : \E l \in Layouts : files[c][l].cur >= local.id[c]]_vars

(* A cluster that stays assigned gets the newest key served in the end,    *)
(* through failing reloads, writes and renames, crashes, state files lost  *)
(* or torn, the older layout, and an operator who removes or prunes it     *)
(* between cycles.                                                         *)
AssignedServed ==
  \A c \in Clusters :
    <>[](c \in assigned \ unsaved /\ ver[c] > 0 /\ ~mixed) => <>[](ver[c] \in loaded[c])

(* A cluster that is taken from the node loses its private keys, unless    *)
(* its entry is lost or its deletion fails: RemovedClusterIDs and the      *)
(* reconciliation go by entries, and no deletion is repeated.              *)
RemovedCleared ==
  \A c \in Clusters :
    (c \notin assigned /\ LoadState.id[c] # NoEntry)
      ~> (c \in assigned \/ FilesOf(c) = {} \/ c \in orphaned \/ mixed)

(* The includes name no file that is gone, except for a while: nginx does  *)
(* not start with them (GenerateMasterIncludesConf runs after every change *)
(* of the directories, or at the next start or cycle).  Exempt are a write *)
(* of the includes that failed or was cut, and clusters that were assigned *)
(* again, or whose entry was lost, before their removal had its reload.    *)
IncludesRecover ==
  (proxy = "nginx" /\ ~(includes \subseteq Dirs))
    ~> (unwritten \/ includes \subseteq Dirs \cup ((orphaned \cup (unsaved \cap assigned)) \X Layouts))
=============================================================================
