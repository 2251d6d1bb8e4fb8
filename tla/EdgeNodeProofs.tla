--------------------------- MODULE EdgeNodeProofs ---------------------------
(***************************************************************************)
(* For any clusters, versions, faults and commands: the types of the edge  *)
(* node's storage, and that between cycles an entry of the state file      *)
(* means that the directory has that key.                                  *)
(*                                                                         *)
(* The property speaks of quiet moments only, between a cycle and the next;*)
(* the invariant that carries it through a cycle says what the copy in     *)
(* memory holds at each of its steps (CycleSteps), that neither it nor the *)
(* state file names a key the directories do not have (DiskHasKeys,        *)
(* MemoryHasKeys), and that the answer's keys are never older than theirs  *)
(* (AnswerIsNewer), without which a deployment could take away a key that  *)
(* the state file still names.                                             *)
(***************************************************************************)
EXTENDS EdgeNode, TLAPS

(* The plan and the command keep their fields.                             *)
RecordsTyped ==
  /\ plan = [clusters |-> plan.clusters, new |-> plan.new,
             remove |-> plan.remove, todo |-> plan.todo]
  /\ cmd = [step |-> cmd.step, clusters |-> cmd.clusters, state |-> cmd.state]
  /\ cmd.step = "none" => cmd = NoCommand

(* No version is ahead of the server.                                      *)
Behind(st) == \A c \in Clusters : st.id[c] <= ver[c] /\ st.name[c] <= ver[c]

VersionsKnown ==
  /\ Behind(LoadState) /\ Behind(local) /\ Behind(cmd.state)
  /\ \A c \in Clusters : plan.new[c] <= ver[c]

(* The answer's keys belong to its clusters and are not older than what    *)
(* the node has on record; what is removed is not in the answer.           *)
AnswerIsNewer ==
  /\ \A c \in Updated :
       /\ c \in plan.clusters
       /\ local.id[c] <= plan.new[c] /\ local.name[c] <= plan.new[c]
       /\ ~mixed => LoadState.id[c] <= plan.new[c] /\ LoadState.name[c] <= plan.new[c]
  /\ plan.remove \cap plan.clusters = {}

(* A command that has met no cycle runs between cycles, on the state file  *)
(* that it has read, in which all entries are by id.                       *)
CommandAlone ==
  ~mixed /\ cmd # NoCommand =>
    /\ pc \in {"idle", "down"}
    /\ \A c \in Clusters : LoadState.name[c] = NoEntry
    /\ cmd.step \in {"remove", "removeSave", "prune"} => cmd.state = LoadState
    /\ cmd.step = "prune" => \A c \in cmd.clusters : cmd.state.id[c] = NoEntry

NoNames(st, S) == \A c \in S : st.name[c] = NoEntry

(* What the copy in memory and the plan are at each step.                  *)
CycleSteps ==
  ~mixed =>
    /\ pc \in {"saveMigrated", "deciding"} => NoNames(local, plan.clusters)
    /\ pc \in {"removing", "deploying", "reloading", "saving"} => NoNames(local, Clusters)
    /\ pc = "deploying" => plan.todo \subseteq Updated
    /\ pc \in {"reloading", "saving"} => plan.todo \cap Updated = {}
    /\ pc \in {"deploying", "reloading", "saving"} =>
         \A c \in Updated \ plan.todo : files[c]["id"].cur = plan.new[c]

(* The directories of a cluster have the key of version v.  It may be      *)
(* under the name, but only as long as nothing is under the id: the next   *)
(* migration moves it then, or tries to.                                   *)
Has(v, dirs) ==
  v > 0 => \/ dirs["id"].cur >= v
           \/ dirs["id"] = NoFiles /\ dirs["name"].cur >= v

HasKeys(st, c, dirs) == Has(st.id[c], dirs) /\ Has(st.name[c], dirs)

DiskHasKeys ==
  ~mixed => \A c \in Clusters \ unsaved : HasKeys(LoadState, c, files[c])

InCycle == pc \in {"migrating", "saveMigrated", "deciding", "removing", "deploying", "reloading", "saving"}

MemoryHasKeys ==
  ~mixed /\ InCycle => \A c \in Clusters \ unsaved : HasKeys(local, c, files[c])

EdgeInv ==
  /\ EdgeTypeOK /\ RecordsTyped /\ VersionsKnown /\ AnswerIsNewer
  /\ CommandAlone /\ CycleSteps /\ DiskHasKeys /\ MemoryHasKeys

(***************************************************************************)
(* Types and the initial states                                            *)
(***************************************************************************)

LEMMA EmptyIs ==
  /\ EmptyState \in State /\ NoFiles \in KeyDir
  /\ \A c \in Clusters : EmptyState.id[c] = NoEntry /\ EmptyState.name[c] = NoEntry
  /\ NoPlan.new \in [Clusters -> 0 .. MaxVersion]
  /\ NoCommand.step = "none" /\ NoCommand.clusters = {} /\ NoCommand.state = EmptyState
BY EdgeAssumption DEF EmptyState, State, Entries, NoEntry, NoFiles, KeyDir, NoPlan, NoCommand

(* What LoadState returns is a state, whatever is in the file.             *)
LEMMA LoadedType == ASSUME EdgeTypeOK PROVE LoadState \in State
BY EmptyIs DEF EdgeTypeOK, LoadState

(* The values at one cluster.                                              *)
LEMMA EntryTypes ==
  ASSUME NEW st \in State, NEW c \in Clusters
  PROVE  st.id[c] \in NoEntry .. MaxVersion /\ st.name[c] \in NoEntry .. MaxVersion
         /\ st.id[c] \in Int /\ st.name[c] \in Int
BY EdgeAssumption DEF State, Entries, NoEntry

LEMMA FileTypes ==
  ASSUME EdgeTypeOK, NEW c \in Clusters, NEW l \in Layouts
  PROVE  files[c][l] \in KeyDir /\ files[c][l].cur \in 0 .. MaxVersion
         /\ files[c][l].prev \in 0 .. MaxVersion /\ files[c][l].cur \in Nat
BY EdgeAssumption DEF EdgeTypeOK, KeyDir

LEMMA Values ==
  ASSUME EdgeTypeOK, NEW c \in Clusters
  PROVE  /\ LoadState.id[c] \in Int /\ LoadState.name[c] \in Int
         /\ local.id[c] \in Int /\ local.name[c] \in Int
         /\ cmd.state.id[c] \in Int /\ cmd.state.name[c] \in Int
         /\ ver[c] \in Nat /\ ver[c] \in 0 .. MaxVersion
         /\ plan.new[c] \in Nat /\ plan.new[c] \in 0 .. MaxVersion
         /\ files[c]["id"].cur \in Nat /\ files[c]["name"].cur \in Nat
<1>1. LoadState \in State /\ local \in State /\ cmd.state \in State
  BY LoadedType DEF EdgeTypeOK
<1>2. "id" \in Layouts /\ "name" \in Layouts
  BY DEF Layouts
<1> QED BY <1>1, <1>2, EntryTypes, FileTypes, EdgeAssumption DEF EdgeTypeOK

LEMMA LostType == ASSUME EdgeTypeOK PROVE Lost \subseteq Clusters
BY DEF EdgeTypeOK, Lost

LEMMA EventType ==
  ASSUME EdgeTypeOK, NEW kind, Event(kind)
  PROVE  events' \in 0 .. MaxEvents
BY EdgeAssumption DEF EdgeTypeOK, Event

LEMMA KeysServed ==
  ASSUME EdgeTypeOK, NEW c \in Clusters
  PROVE  Served(c) \subseteq 1 .. MaxVersion
<1> SUFFICES ASSUME NEW k \in Served(c) PROVE k \in 1 .. MaxVersion
  OBVIOUS
<1>1. PICK l \in Layouts : k \in KeysOf(files[c][l])
  BY DEF Served
<1>2. files[c][l].cur \in 0 .. MaxVersion /\ files[c][l].prev \in 0 .. MaxVersion
  BY FileTypes
<1> QED BY <1>1, <1>2, EdgeAssumption DEF KeysOf

LEMMA DirsType == Dirs \subseteq Clusters \X Layouts
BY DEF Dirs

LEMMA InitInv == Init => EdgeInv
<1> SUFFICES ASSUME Init PROVE EdgeInv
  OBVIOUS
<1>1. PICK legacy \in SUBSET {c \in assigned : ver[c] = 1} :
        /\ disk = [EmptyState EXCEPT !.name =
                     [c \in Clusters |-> IF c \in legacy THEN 1 ELSE NoEntry]]
        /\ files = [c \in Clusters |->
                      [l \in Layouts |-> IF l = "name"
                                         THEN [NoFiles EXCEPT !.cur = IF c \in legacy THEN 1 ELSE 0]
                                         ELSE NoFiles]]
        /\ includes = IF proxy = "nginx" THEN {<<c, "name">> : c \in legacy} ELSE {}
        /\ loaded = [c \in Clusters |-> {IF c \in legacy THEN 1 ELSE 0} \ {0}]
  BY DEF Init
<1>2. /\ assigned \subseteq Clusters /\ ver \in [Clusters -> {0, 1}] /\ proxy \in Proxies
      /\ pc = "idle" /\ local = EmptyState /\ plan = NoPlan
      /\ cmd = NoCommand /\ events = 0 /\ unsaved = {} /\ mixed = FALSE
      /\ orphaned = {} /\ unwritten = FALSE
  BY DEF Init
<1>3. legacy \subseteq Clusters /\ 1 \in 0 .. MaxVersion /\ 0 \in 0 .. MaxEvents
  BY <1>1, <1>2, EdgeAssumption
<1>4. disk = [id |-> [c \in Clusters |-> NoEntry],
              name |-> [c \in Clusters |-> IF c \in legacy THEN 1 ELSE NoEntry]]
  BY <1>1 DEF EmptyState
<1>5. disk \in State
  BY <1>3, <1>4, EdgeAssumption DEF State, Entries, NoEntry
<1>6. ASSUME NEW c \in Clusters
      PROVE  /\ files[c]["id"] = NoFiles
             /\ c \in legacy => files[c]["name"].cur = 1
  BY <1>1 DEF Layouts, NoFiles
<1>7. EdgeTypeOK
  <2>1. files \in [Clusters -> [Layouts -> KeyDir]]
    BY <1>1, <1>3, EdgeAssumption DEF NoFiles, KeyDir
  <2>2. ver \in [Clusters -> 0 .. MaxVersion]
    BY <1>2, <1>3, EdgeAssumption
  <2>3. includes \subseteq Clusters \X Layouts /\ loaded \in [Clusters -> SUBSET (1 .. MaxVersion)]
    BY <1>1, <1>3, EdgeAssumption DEF Layouts
  <2>4. NoPlan.clusters \cup NoPlan.remove \cup NoPlan.todo \cup NoCommand.clusters \subseteq Clusters
    BY DEF NoPlan, NoCommand
  <2> QED BY <1>2, <1>3, <1>5, <2>1, <2>2, <2>3, <2>4, EmptyIs DEF EdgeTypeOK
<1>8. RecordsTyped
  BY <1>2 DEF RecordsTyped, NoPlan, NoCommand
<1>9. \A c \in Clusters : plan.new[c] = 0
  BY <1>2 DEF NoPlan
<1>10. ASSUME NEW c \in Clusters
       PROVE  /\ LoadState.id[c] = NoEntry
              /\ LoadState.name[c] = NoEntry \/ (c \in legacy /\ LoadState.name[c] = 1)
  BY <1>4, EmptyIs DEF LoadState
<1>11. VersionsKnown
  <2>1. \A c \in Clusters : ver[c] \in {0, 1} /\ (c \in legacy => ver[c] = 1)
    BY <1>1, <1>2
  <2> QED BY <1>2, <1>9, <1>10, <2>1, EmptyIs DEF VersionsKnown, Behind, NoEntry
<1>12. AnswerIsNewer
  BY <1>2, <1>9 DEF AnswerIsNewer, Updated, NoPlan
<1>13. DiskHasKeys
  <2>1. ASSUME NEW c \in Clusters PROVE HasKeys(LoadState, c, files[c])
    <3>1. LoadState.id[c] = -1 /\ (LoadState.name[c] = -1 \/ (c \in legacy /\ LoadState.name[c] = 1))
      BY <1>10 DEF NoEntry
    <3>2. files[c]["id"] = NoFiles /\ (c \in legacy => files[c]["name"].cur = 1)
      BY <1>6
    <3> QED BY <3>1, <3>2 DEF HasKeys, Has
  <2> QED BY <2>1 DEF DiskHasKeys
<1>14. CommandAlone /\ CycleSteps /\ MemoryHasKeys
  BY <1>2 DEF CommandAlone, CycleSteps, MemoryHasKeys, InCycle
<1> QED BY <1>7, <1>8, <1>11, <1>12, <1>13, <1>14 DEF EdgeInv

(***************************************************************************)
(* What several actions share                                              *)
(***************************************************************************)

LEMMA LoadedSame == ASSUME disk' = disk PROVE LoadState' = LoadState
BY DEF LoadState

(* A state that was saved is the one that will be read.                    *)
LEMMA LoadedSaved ==
  ASSUME NEW st, st \in State, disk' = st
  PROVE  LoadState' = st
<1>1. CASE st # Torn
  BY <1>1 DEF LoadState
<1>2. CASE st = Torn
  <2>1. st.id = <<>> /\ st.name = <<>> /\ DOMAIN st.id = Clusters /\ DOMAIN st.name = Clusters
    BY <1>2 DEF Torn, State, Entries
  <2>2. Clusters = {}
    BY <2>1
  <2>3. EmptyState = Torn
    BY <2>2 DEF EmptyState, Torn
  <2> QED BY <1>2, <2>3 DEF LoadState
<1> QED BY <1>1, <1>2

LEMMA LoadedTorn == ASSUME disk' = Torn PROVE LoadState' = EmptyState
BY DEF LoadState

LEMMA EmptyHasKeys ==
  ASSUME NEW c \in Clusters, NEW dirs
  PROVE  HasKeys(EmptyState, c, dirs)
BY EmptyIs DEF HasKeys, Has, NoEntry

(* A state that could not be saved is the one before, or lost.             *)
LEMMA SaveFailsTypes ==
  ASSUME EdgeTypeOK, SaveFails
  PROVE  /\ disk' \in {disk, Torn} /\ LoadState' \in {LoadState, EmptyState}
         /\ events' \in 0 .. MaxEvents /\ orphaned' \subseteq Clusters
<1>1. disk' \in {disk, Torn} /\ orphaned' \in {orphaned, Lost} /\ events' \in 0 .. MaxEvents
  BY EventType DEF SaveFails
<1> QED BY <1>1, LoadedSame, LoadedTorn, LostType DEF EdgeTypeOK

LEMMA SavedTypes ==
  ASSUME EdgeTypeOK, NEW st \in State, Saved(st)
  PROVE  /\ disk' = st /\ LoadState' = st
         /\ events' \in 0 .. MaxEvents /\ orphaned' \subseteq Clusters
BY LoadedSaved DEF Saved, EdgeTypeOK

LEMMA EmptyBehind == ASSUME EdgeTypeOK PROVE Behind(EmptyState)
BY EmptyIs, Values DEF Behind, NoEntry

(* Inside a cycle that has met no command there is none.                   *)
LEMMA NoCommandInCycle ==
  ASSUME EdgeInv, ~mixed, pc \notin {"idle", "down"}
  PROVE  cmd = NoCommand /\ cmd.step = "none"
BY EmptyIs DEF EdgeInv, CommandAlone

LEMMA DiskHas ==
  ASSUME EdgeInv, ~mixed, pc \notin {"idle", "down"}, NEW c \in Clusters \ unsaved
  PROVE  HasKeys(LoadState, c, files[c])
BY DEF EdgeInv, DiskHasKeys

(* The cycle is over, by its end or a crash.                               *)
LEMMA EndedInv ==
  ASSUME EdgeInv, pc \notin {"idle", "down"}, pc' \in {"idle", "down"},
         local' = EmptyState, plan' = NoPlan, UNCHANGED <<server, cmd, mixed>>,
         EdgeTypeOK', Behind(LoadState)',
         ~mixed => \A c \in Clusters \ unsaved' : HasKeys(LoadState', c, files'[c])
  PROVE  EdgeInv'
<1> USE DEF EdgeInv, server
<1>1. RecordsTyped'
  BY DEF RecordsTyped, NoPlan
<1>2. \A c \in Clusters : plan'.new[c] = 0
  BY DEF NoPlan
<1>3. VersionsKnown'
  <2>1. Behind(local)'
    BY EmptyBehind DEF Behind
  <2>2. Behind(cmd.state)'
    BY DEF VersionsKnown, Behind
  <2>3. \A c \in Clusters : ver'[c] \in Nat
    BY Values
  <2> QED BY <1>2, <2>1, <2>2, <2>3 DEF VersionsKnown
<1>4. AnswerIsNewer'
  BY <1>2 DEF AnswerIsNewer, Updated, NoPlan
<1>5. CommandAlone' /\ CycleSteps' /\ MemoryHasKeys'
  BY NoCommandInCycle DEF CommandAlone, CycleSteps, MemoryHasKeys, InCycle
<1>6. DiskHasKeys'
  BY DEF DiskHasKeys
<1> QED BY <1>1, <1>3, <1>4, <1>5, <1>6

(* Only what the proxy serves changes, and where the agent is.             *)
LEMMA ServedInv ==
  ASSUME EdgeInv, EdgeTypeOK',
         UNCHANGED <<server, disk, files, local, plan, cmd, history>>,
         \/ pc' = pc
         \/ pc = "reloading" /\ pc' = "saving"
         \/ pc = "down" /\ pc' = "idle"
  PROVE  EdgeInv'
<1> USE DEF EdgeInv, server, history
<1>1. LoadState' = LoadState
  BY LoadedSame
<1>2. RecordsTyped' /\ VersionsKnown' /\ AnswerIsNewer'
  BY <1>1 DEF RecordsTyped, VersionsKnown, Behind, AnswerIsNewer, Updated
<1>3. CommandAlone' /\ DiskHasKeys' /\ MemoryHasKeys'
  BY <1>1 DEF CommandAlone, DiskHasKeys, MemoryHasKeys, InCycle
<1>4. CycleSteps'
  BY <1>1 DEF CycleSteps, Updated, NoNames
<1> QED BY <1>2, <1>3, <1>4

(* Reloads and their failures keep the types.                              *)
LEMMA ReloadTypes ==
  ASSUME EdgeTypeOK, NEW S \in SUBSET Clusters,
         (Reloads(S) /\ UNCHANGED events) \/ ReloadBreaks(S)
  PROVE  /\ includes' \subseteq Clusters \X Layouts
         /\ loaded' \in [Clusters -> SUBSET (1 .. MaxVersion)]
         /\ events' \in 0 .. MaxEvents /\ unwritten' \in BOOLEAN
<1>1. \A T \in SUBSET Clusters : ServesFiles(T) \in [Clusters -> SUBSET (1 .. MaxVersion)]
  BY KeysServed DEF ServesFiles, EdgeTypeOK
<1>2. events' \in 0 .. MaxEvents
  BY EventType DEF ReloadBreaks, EdgeTypeOK
<1>3. includes' \subseteq Clusters \X Layouts /\ unwritten' \in BOOLEAN
  BY DirsType DEF Reloads, ReloadBreaks, IncludesWritten, IncludesFail, EdgeTypeOK
<1>4. loaded' \in [Clusters -> SUBSET (1 .. MaxVersion)]
  BY <1>1 DEF Reloads, ReloadBreaks, EdgeTypeOK
<1> QED BY <1>2, <1>3, <1>4

LEMMA UpdatedType == Updated \in SUBSET Clusters
BY DEF Updated

(***************************************************************************)
(* The agent's cycle                                                       *)
(***************************************************************************)

(* The answer's keys are the server's newest, so none is older than what   *)
(* the state file says.                                                    *)
LEMMA PullInv ==
  ASSUME EdgeInv, Pull
  PROVE  EdgeInv'
<1> USE DEF EdgeInv
<1> DEFINE new == [c \in Clusters |-> IF NewKey(local', c) THEN ver[c] ELSE 0]
<1>1. /\ pc = "idle" /\ pc' = "migrating" /\ local' \in {LoadState, EmptyState}
      /\ plan' = [clusters |-> assigned, new |-> new, remove |-> {}, todo |-> {}]
      /\ UNCHANGED <<assigned, ver, proxy, disk, files, includes, loaded, cmd, unsaved, unwritten>>
      /\ orphaned' \in {orphaned, Lost}
      /\ mixed' = (mixed \/ cmd # NoCommand)
  BY DEF Pull, Goto, NoPlan, server, storage
<1>2. LoadState' = LoadState /\ local' \in State /\ events' \in 0 .. MaxEvents
  BY <1>1, LoadedSame, LoadedType, EmptyIs, EventType DEF Pull, EdgeTypeOK
<1>3. ASSUME NEW c \in Clusters
      PROVE  /\ plan'.new[c] = IF NewKey(local', c) THEN ver[c] ELSE 0
             /\ plan'.new[c] \in 0 .. MaxVersion /\ plan'.new[c] <= ver[c] /\ ver[c] \in Nat
             /\ plan'.new[c] # 0 => plan'.new[c] = ver[c] /\ c \in assigned
  <2>1. plan'.new[c] = IF NewKey(local', c) THEN ver[c] ELSE 0
    BY <1>1
  <2>2. NewKey(local', c) => c \in assigned
    BY DEF NewKey
  <2> QED BY <2>1, <2>2, Values, EdgeAssumption
<1>4. new \in [Clusters -> 0 .. MaxVersion]
  BY <1>1, <1>3
<1>5. EdgeTypeOK' /\ RecordsTyped'
  <2>1. /\ mixed' \in BOOLEAN /\ cmd.clusters \subseteq Clusters /\ assigned \subseteq Clusters
        /\ orphaned' \subseteq Clusters
    BY <1>1, LostType DEF EdgeTypeOK
  <2> HIDE DEF new
  <2>2. EdgeTypeOK'
    BY <1>1, <1>2, <1>4, <2>1 DEF EdgeTypeOK
  <2> QED BY <1>1, <2>2 DEF RecordsTyped
<1>6. VersionsKnown'
  <2>1. Behind(local')
    BY <1>1, EmptyBehind DEF VersionsKnown
  <2> QED BY <1>1, <1>2, <1>3, <2>1 DEF VersionsKnown, Behind
<1>7. AnswerIsNewer'
  <2>1. Behind(local') /\ Behind(LoadState)
    BY <1>1, EmptyBehind DEF VersionsKnown
  <2> QED BY <1>1, <1>2, <1>3, <2>1 DEF AnswerIsNewer, Updated, Behind
<1>8. CommandAlone' /\ CycleSteps'
  BY <1>1, <1>2 DEF CommandAlone, CycleSteps
<1>9. DiskHasKeys' /\ MemoryHasKeys'
  <2> SUFFICES ASSUME ~mixed', NEW c \in Clusters \ unsaved
               PROVE  HasKeys(LoadState, c, files[c]) /\ HasKeys(local', c, files[c])
    BY <1>1, <1>2 DEF DiskHasKeys, MemoryHasKeys
  <2> QED BY <1>1, EmptyHasKeys DEF DiskHasKeys
<1> QED BY <1>5, <1>6, <1>7, <1>8, <1>9

(* One cluster of the migration: what a state says of the key of version n *)
(* under its id, or under its name, is true of the directory under the id, *)
(* and of the directory under the name if it could not be renamed.         *)
LEMMA MigratedHasKeys ==
  ASSUME EdgeTypeOK, NEW st \in State, NEW c \in plan.clusters, c \in Clusters,
         NEW dirs,
         dirs = files[c] \/ (files[c]["id"] = NoFiles /\ dirs = MigratedDirs(files[c])),
         HasKeys(st, c, files[c])
  PROVE  HasKeys(st, c, dirs) /\ HasKeys(MigratedEntries(st), c, dirs)
<1>1. /\ st.id[c] \in Int /\ st.name[c] \in Int
      /\ files[c]["id"].cur \in Nat /\ files[c]["name"].cur \in Nat
  BY EntryTypes, Values
<1>2. HasKeys(st, c, dirs)
  <2>1. CASE files[c]["id"] = NoFiles /\ dirs = MigratedDirs(files[c])
    <3>1. files[c]["id"].cur = 0 /\ dirs["id"] = files[c]["name"]
      BY <2>1 DEF MigratedDirs, NoFiles
    <3> QED BY <1>1, <3>1 DEF HasKeys, Has
  <2> QED BY <2>1
<1>3. /\ MigratedEntries(st).id[c] = IF st.id[c] = NoEntry THEN st.name[c] ELSE st.id[c]
      /\ MigratedEntries(st).name[c] = NoEntry
  BY DEF MigratedEntries
<1> QED BY <1>1, <1>2, <1>3 DEF HasKeys, Has, NoEntry

LEMMA MigratedType ==
  ASSUME EdgeTypeOK, NEW st \in State
  PROVE  MigratedEntries(st) \in State
BY EntryTypes, EdgeAssumption DEF MigratedEntries, State, Entries, NoEntry

LEMMA MigrateInv ==
  ASSUME EdgeInv, MigrateLegacyClusterFolders
  PROVE  EdgeInv'
<1> USE DEF EdgeInv
<1>1. PICK failed \in SUBSET Renamed :
        /\ files' = [c \in Clusters |->
                       IF c \in Renamed \ failed THEN MigratedDirs(files[c]) ELSE files[c]]
        /\ IF failed = {} THEN UNCHANGED events ELSE Event("fileError")
  BY DEF MigrateLegacyClusterFolders
<1>2. /\ pc = "migrating" /\ local' = MigratedEntries(local)
      /\ pc' = IF local' # local \/ Renamed # {} THEN "saveMigrated" ELSE "deciding"
      /\ UNCHANGED <<assigned, ver, proxy, disk, includes, loaded, plan, cmd, unsaved, mixed,
                     orphaned, unwritten>>
  BY DEF MigrateLegacyClusterFolders, Goto, server, history, failures
<1>3. LoadState' = LoadState /\ LoadState \in State /\ local \in State /\ local' \in State
  BY <1>2, LoadedSame, LoadedType, MigratedType DEF EdgeTypeOK
<1>4. files' \in [Clusters -> [Layouts -> KeyDir]]
  <2>1. ASSUME NEW c \in Clusters PROVE MigratedDirs(files[c]) \in [Layouts -> KeyDir]
    <3>1. "id" \in Layouts /\ "name" \in Layouts /\ files[c] \in [Layouts -> KeyDir]
      BY DEF Layouts, EdgeTypeOK
    <3>2. [id |-> files[c]["name"], name |-> NoFiles] \in [Layouts -> KeyDir]
      BY <3>1, EmptyIs DEF Layouts
    <3> QED BY <3>1, <3>2 DEF MigratedDirs
  <2>2. \A c \in Clusters : files[c] \in [Layouts -> KeyDir]
    BY DEF EdgeTypeOK
  <2> QED BY <1>1, <2>1, <2>2
<1>5. EdgeTypeOK' /\ RecordsTyped'
  <2>1. events' \in 0 .. MaxEvents
    BY <1>1, EventType DEF EdgeTypeOK
  <2> QED BY <1>2, <1>3, <1>4, <2>1 DEF EdgeTypeOK, RecordsTyped
<1>6. ASSUME NEW c \in Clusters
      PROVE  /\ local'.id[c] \in {local.id[c], local.name[c]}
             /\ local'.name[c] \in {local.name[c], NoEntry}
             /\ c \in plan.clusters => local'.name[c] = NoEntry
             /\ c \notin plan.clusters => local'.id[c] = local.id[c] /\ local'.name[c] = local.name[c]
             /\ ver[c] \in Nat /\ plan.new[c] \in Nat
  BY <1>2, Values DEF MigratedEntries
<1>7. VersionsKnown'
  BY <1>2, <1>3, <1>6 DEF VersionsKnown, Behind, NoEntry
<1>8. AnswerIsNewer'
  BY <1>2, <1>3, <1>6 DEF AnswerIsNewer, Updated, NoEntry
<1>9. CommandAlone'
  BY <1>2, NoCommandInCycle DEF CommandAlone
<1>10. CycleSteps'
  <2>1. \A c \in plan.clusters : local'.name[c] = NoEntry
    BY <1>6 DEF EdgeTypeOK
  <2> QED BY <1>2, <2>1 DEF CycleSteps, NoNames
<1>11. ASSUME ~mixed, NEW c \in Clusters \ unsaved
       PROVE  HasKeys(LoadState, c, files'[c]) /\ HasKeys(local', c, files'[c])
  <2>1. HasKeys(local, c, files[c]) /\ HasKeys(LoadState, c, files[c])
    BY <1>2, <1>11, DiskHas DEF MemoryHasKeys, InCycle
  <2>2. CASE c \in plan.clusters
    <3>1. files'[c] = files[c] \/ (files[c]["id"] = NoFiles /\ files'[c] = MigratedDirs(files[c]))
      BY <1>1 DEF Renamed
    <3>2. \A dirs : dirs = files'[c] =>
            HasKeys(LoadState, c, dirs) /\ HasKeys(MigratedEntries(local), c, dirs)
      BY <1>3, <2>1, <2>2, <3>1, MigratedHasKeys
    <3> QED BY <1>2, <3>2
  <2>3. CASE c \notin plan.clusters
    <3>1. files'[c] = files[c]
      BY <1>1, <2>3 DEF Renamed
    <3> QED BY <1>6, <2>1, <2>3, <3>1 DEF HasKeys
  <2> QED BY <2>2, <2>3
<1>12. DiskHasKeys' /\ MemoryHasKeys'
  BY <1>2, <1>3, <1>11 DEF DiskHasKeys, MemoryHasKeys
<1> QED BY <1>5, <1>7, <1>8, <1>9, <1>10, <1>12

(* The state is saved, or what was on disk stays or is lost: the cycle     *)
(* goes on with what it has in memory.                                     *)
LEMMA SaveMigratedInv ==
  ASSUME EdgeInv, SaveMigrated
  PROVE  EdgeInv'
<1> USE DEF EdgeInv
<1>1. /\ pc = "saveMigrated" /\ pc' = "deciding"
      /\ UNCHANGED <<assigned, ver, proxy, files, loaded, local, plan, cmd, unsaved, mixed>>
      /\ local \in State
  BY DEF SaveMigrated, Goto, server, history, EdgeTypeOK
<1>2. /\ LoadState' \in {local, LoadState, EmptyState} /\ (disk' = Torn \/ disk' \in State)
      /\ events' \in 0 .. MaxEvents /\ orphaned' \subseteq Clusters
  <2>1. CASE Saved(local)
    BY <1>1, <2>1, SavedTypes
  <2>2. CASE SaveFails
    BY <2>2, SaveFailsTypes DEF EdgeTypeOK
  <2>3. CASE disk' = local /\ UNCHANGED orphaned /\ Event("fileError")
    BY <1>1, <2>3, LoadedSaved, EventType DEF EdgeTypeOK
  <2> QED BY <2>1, <2>2, <2>3 DEF SaveMigrated
<1>3. includes' \subseteq Clusters \X Layouts /\ unwritten' \in BOOLEAN
  BY DirsType DEF SaveMigrated, IncludesWritten, IncludesFail, EdgeTypeOK
<1>4. EdgeTypeOK' /\ RecordsTyped'
  BY <1>1, <1>2, <1>3 DEF EdgeTypeOK, RecordsTyped
<1>5. VersionsKnown'
  BY <1>1, <1>2, EmptyBehind DEF VersionsKnown, Behind
<1>6. AnswerIsNewer'
  <2>1. ASSUME NEW c \in Updated
        PROVE  EmptyState.id[c] <= plan.new[c] /\ EmptyState.name[c] <= plan.new[c]
    BY UpdatedType, Values, EmptyIs DEF NoEntry
  <2> QED BY <1>1, <1>2, <2>1 DEF AnswerIsNewer, Updated
<1>7. CommandAlone' /\ CycleSteps'
  BY <1>1, <1>2, NoCommandInCycle DEF CommandAlone, CycleSteps, NoNames
<1>8. DiskHasKeys' /\ MemoryHasKeys'
  BY <1>1, <1>2, DiskHas, EmptyHasKeys DEF DiskHasKeys, MemoryHasKeys, InCycle
<1> QED BY <1>4, <1>5, <1>6, <1>7, <1>8

(* The reconciliation only drops names.                                    *)
LEMMA ReconciledIs ==
  ASSUME EdgeTypeOK
  PROVE  /\ Reconciled \in State
         /\ Reconciled.id = local.id
         /\ \A c \in Clusters :
              Reconciled.name[c] = IF c \in plan.clusters THEN local.name[c] ELSE NoEntry
<1>1. local \in State
  BY DEF EdgeTypeOK
<1>2. local = [id |-> local.id, name |-> local.name] /\ local.id \in Entries /\ local.name \in Entries
  BY <1>1 DEF State
<1>3. Reconciled = [id |-> local.id,
                    name |-> [c \in Clusters |-> IF c \in plan.clusters THEN local.name[c] ELSE NoEntry]]
  BY <1>2 DEF Reconciled
<1>4. [c \in Clusters |-> IF c \in plan.clusters THEN local.name[c] ELSE NoEntry] \in Entries
  BY <1>2, EdgeAssumption DEF Entries, NoEntry
<1> QED BY <1>2, <1>3, <1>4 DEF State

LEMMA ReconciledHasKeys ==
  ASSUME EdgeTypeOK, NEW c \in Clusters, HasKeys(local, c, files[c])
  PROVE  HasKeys(Reconciled, c, files[c])
BY ReconciledIs DEF HasKeys, Has, NoEntry

LEMMA UpToDateInv ==
  ASSUME EdgeInv, UpToDate
  PROVE  EdgeInv'
<1> USE DEF EdgeInv
<1>1. /\ pc = "deciding" /\ pc' = "idle" /\ local' = EmptyState /\ plan' = NoPlan
      /\ UNCHANGED <<server, files, includes, loaded, cmd, history, unwritten>>
  BY DEF UpToDate, EndCycle, Goto
<1>2. /\ LoadState' \in {LoadState, Reconciled, EmptyState} /\ (disk' = Torn \/ disk' \in State)
      /\ events' \in 0 .. MaxEvents /\ orphaned' \subseteq Clusters
  <2>1. CASE Saved(disk)
    BY <2>1, LoadedSame DEF Saved, EdgeTypeOK
  <2>2. CASE Saved(Reconciled)
    BY <2>2, SavedTypes, ReconciledIs
  <2>3. CASE SaveFails
    BY <2>3, SaveFailsTypes DEF EdgeTypeOK
  <2> QED BY <2>1, <2>2, <2>3 DEF UpToDate
<1>3. Behind(LoadState)'
  BY <1>1, <1>2, ReconciledIs, EmptyBehind, Values DEF VersionsKnown, Behind, server, NoEntry
<1>4. ASSUME ~mixed, NEW c \in Clusters \ unsaved
      PROVE  HasKeys(LoadState', c, files'[c])
  <2>1. HasKeys(LoadState, c, files[c]) /\ HasKeys(local, c, files[c])
    BY <1>1, <1>4, DiskHas DEF MemoryHasKeys, InCycle
  <2> QED BY <1>1, <1>2, <2>1, ReconciledHasKeys, EmptyHasKeys
<1>5. EdgeTypeOK'
  <2>1. NoPlan.clusters \cup NoPlan.remove \cup NoPlan.todo = {}
    BY DEF NoPlan
  <2> QED BY <1>1, <1>2, <2>1, EmptyIs DEF EdgeTypeOK, server, history
<1> QED BY <1>1, <1>3, <1>4, <1>5, EndedInv DEF history

LEMMA DecideInv ==
  ASSUME EdgeInv, Decide
  PROVE  EdgeInv'
<1> USE DEF EdgeInv
<1>1. /\ pc = "deciding" /\ pc' = "removing" /\ local' = Reconciled
      /\ plan' = [clusters |-> plan.clusters, new |-> plan.new, remove |-> Removed, todo |-> Removed]
      /\ UNCHANGED <<assigned, ver, proxy, disk, files, includes, loaded, cmd, events, unsaved, mixed,
                     orphaned, unwritten>>
  BY DEF Decide, Goto, server, storage, history, failures, RecordsTyped
<1>2. LoadState' = LoadState
  BY <1>1, LoadedSame
<1>3. Removed \subseteq Clusters /\ Removed \cap plan.clusters = {}
  BY DEF Removed
<1>4. EdgeTypeOK' /\ RecordsTyped'
  BY <1>1, <1>3, ReconciledIs DEF EdgeTypeOK, RecordsTyped
<1>5. \A c \in Clusters : /\ local'.id[c] = local.id[c]
                          /\ local'.name[c] = IF c \in plan.clusters THEN local.name[c] ELSE NoEntry
  BY <1>1, ReconciledIs
<1>6. VersionsKnown' /\ AnswerIsNewer'
  BY <1>1, <1>2, <1>3, <1>5, Values DEF VersionsKnown, Behind, AnswerIsNewer, Updated, NoEntry
<1>7. CommandAlone' /\ CycleSteps'
  BY <1>1, <1>2, <1>5, NoCommandInCycle DEF CommandAlone, CycleSteps, NoNames
<1>8. DiskHasKeys'
  BY <1>1, <1>2 DEF DiskHasKeys
<1>9. MemoryHasKeys'
  BY <1>1, ReconciledHasKeys DEF MemoryHasKeys, InCycle
<1> QED BY <1>4, <1>6, <1>7, <1>8, <1>9

(***************************************************************************)
(* Removals                                                                *)
(***************************************************************************)

LEMMA WithoutDirsType ==
  ASSUME EdgeTypeOK, NEW D
  PROVE  /\ WithoutDirs(D) \in [Clusters -> [Layouts -> KeyDir]]
         /\ \A c \in Clusters : (\A l \in Layouts : <<c, l>> \notin D) => WithoutDirs(D)[c] = files[c]
<1>1. WithoutDirs(D) \in [Clusters -> [Layouts -> KeyDir]]
  BY EmptyIs, FileTypes DEF WithoutDirs
<1>2. ASSUME NEW c \in Clusters, \A l \in Layouts : <<c, l>> \notin D
      PROVE  WithoutDirs(D)[c] = files[c]
  <2>1. WithoutDirs(D)[c] = [l \in Layouts |-> files[c][l]]
    BY <1>2 DEF WithoutDirs
  <2>2. files[c] \in [Layouts -> KeyDir]
    BY DEF EdgeTypeOK
  <2> QED BY <2>1, <2>2
<1> QED BY <1>1, <1>2

(* A deletion that failed leaves the other directories as they are, too.   *)
LEMMA LeftoversType ==
  ASSUME EdgeTypeOK, NEW D, NEW f \in Leftovers(D)
  PROVE  /\ f \in [Clusters -> [Layouts -> KeyDir]]
         /\ \A c \in Clusters : (\A l \in Layouts : <<c, l>> \notin D) => f[c] = files[c]
<1>1. PICK g \in [D -> KeyDir] :
        f = [c \in Clusters |-> [l \in Layouts |->
               IF <<c, l>> \in D THEN g[<<c, l>>] ELSE files[c][l]]]
  BY DEF Leftovers
<1>2. f \in [Clusters -> [Layouts -> KeyDir]]
  BY <1>1, FileTypes
<1>3. ASSUME NEW c \in Clusters, \A l \in Layouts : <<c, l>> \notin D
      PROVE  f[c] = files[c]
  <2>1. f[c] = [l \in Layouts |-> files[c][l]]
    BY <1>1, <1>3
  <2>2. files[c] \in [Layouts -> KeyDir]
    BY DEF EdgeTypeOK
  <2> QED BY <2>1, <2>2
<1> QED BY <1>2, <1>3

LEMMA RemoveDirsTypes ==
  ASSUME EdgeTypeOK, NEW c \in Clusters, NEW L, RemoveDirs(c, {c} \X L)
  PROVE  /\ files' \in [Clusters -> [Layouts -> KeyDir]]
         /\ \A d \in Clusters : d # c => files'[d] = files[d]
         /\ loaded' \in [Clusters -> SUBSET (1 .. MaxVersion)]
         /\ events' \in 0 .. MaxEvents /\ orphaned' \subseteq Clusters
         /\ unsaved' = unsaved \cup {c}
<1> DEFINE D == {c} \X L
<1>1. files' = WithoutDirs(D) \/ files' \in Leftovers(D)
  BY DEF RemoveDirs
<1>2. \A d \in Clusters : d # c => \A l \in Layouts : <<d, l>> \notin D
  OBVIOUS
<1> HIDE DEF D
<1>3. /\ files' \in [Clusters -> [Layouts -> KeyDir]]
      /\ \A d \in Clusters : d # c => files'[d] = files[d]
  BY <1>1, <1>2, WithoutDirsType, LeftoversType
<1>4. loaded' \in [Clusters -> SUBSET (1 .. MaxVersion)]
  BY DEF RemoveDirs, Unhooked, EdgeTypeOK
<1>5. events' \in 0 .. MaxEvents
  BY EventType DEF RemoveDirs, EdgeTypeOK
<1>6. orphaned' \subseteq Clusters /\ unsaved' = unsaved \cup {c}
  BY DEF RemoveDirs, EdgeTypeOK
<1> QED BY <1>3, <1>4, <1>5, <1>6

(* The cluster's files are gone, or should be, and its entry is not: it is *)
(* unsaved.                                                                *)
LEMMA RemoveLocallyInv ==
  ASSUME EdgeInv, NEW c \in Clusters, RemoveLocally(c)
  PROVE  EdgeInv'
<1> USE DEF EdgeInv
<1>1. /\ pc = "removing"
      /\ plan' = [clusters |-> plan.clusters, new |-> plan.new, remove |-> plan.remove,
                  todo |-> plan.todo \ {c}]
      /\ UNCHANGED <<assigned, ver, proxy, disk, includes, pc, local, cmd, mixed, unwritten>>
  BY DEF RemoveLocally, server, RecordsTyped
<1>2. LoadState' = LoadState
  BY <1>1, LoadedSame
<1>3. /\ files' \in [Clusters -> [Layouts -> KeyDir]]
      /\ \A d \in Clusters : d # c => files'[d] = files[d]
      /\ loaded' \in [Clusters -> SUBSET (1 .. MaxVersion)]
      /\ events' \in 0 .. MaxEvents /\ orphaned' \subseteq Clusters
      /\ unsaved' = unsaved \cup {c}
  BY RemoveDirsTypes DEF RemoveLocally
<1>4. EdgeTypeOK' /\ RecordsTyped'
  BY <1>1, <1>3 DEF EdgeTypeOK, RecordsTyped
<1>5. VersionsKnown' /\ AnswerIsNewer'
  BY <1>1, <1>2 DEF VersionsKnown, Behind, AnswerIsNewer, Updated
<1>6. CommandAlone' /\ CycleSteps'
  BY <1>1, <1>2, NoCommandInCycle DEF CommandAlone, CycleSteps, NoNames
<1>7. DiskHasKeys' /\ MemoryHasKeys'
  BY <1>1, <1>2, <1>3 DEF DiskHasKeys, MemoryHasKeys, InCycle
<1> QED BY <1>4, <1>5, <1>6, <1>7

LEMMA AllRemovedInv ==
  ASSUME EdgeInv, AllRemoved
  PROVE  EdgeInv'
<1> USE DEF EdgeInv
<1>1. /\ pc = "removing" /\ plan.todo = {}
      /\ plan' = [clusters |-> plan.clusters, new |-> plan.new, remove |-> plan.remove,
                  todo |-> Updated]
      /\ pc' = IF Updated = {} THEN "saving" ELSE "deploying"
      /\ UNCHANGED <<assigned, ver, proxy, disk, files, includes, loaded, local, cmd, events, unsaved,
                     mixed, orphaned, unwritten>>
  BY DEF AllRemoved, server, storage, history, failures, RecordsTyped, Goto
<1>2. LoadState' = LoadState /\ Updated' = Updated
  BY <1>1, LoadedSame DEF Updated
<1>3. EdgeTypeOK' /\ RecordsTyped'
  BY <1>1, UpdatedType DEF EdgeTypeOK, RecordsTyped
<1>4. VersionsKnown' /\ AnswerIsNewer'
  BY <1>1, <1>2 DEF VersionsKnown, Behind, AnswerIsNewer
<1>5. CommandAlone' /\ CycleSteps'
  BY <1>1, <1>2, NoCommandInCycle DEF CommandAlone, CycleSteps, NoNames
<1>6. DiskHasKeys' /\ MemoryHasKeys'
  BY <1>1, <1>2 DEF DiskHasKeys, MemoryHasKeys, InCycle
<1> QED BY <1>3, <1>4, <1>5, <1>6

(***************************************************************************)
(* Deployments                                                             *)
(***************************************************************************)

(* The new key is at least what the state file and the memory say, so they *)
(* stay true.                                                              *)
LEMMA DeployInv ==
  ASSUME EdgeInv, NEW c \in Clusters, DeployLocally(c)
  PROVE  EdgeInv'
<1> USE DEF EdgeInv
<1> DEFINE old == files[c]["id"]
<1>1. PICK prev \in {Previous(old), old.prev, 0} :
        /\ files' = [files EXCEPT ![c]["id"] = [cur |-> plan.new[c], prev |-> prev]]
        /\ IF prev = Previous(old) THEN UNCHANGED events ELSE old.cur # 0 /\ Event("fileError")
  BY DEF DeployLocally
<1>2. /\ pc = "deploying" /\ c \in plan.todo
      /\ plan' = [clusters |-> plan.clusters, new |-> plan.new, remove |-> plan.remove,
                  todo |-> plan.todo \ {c}]
      /\ orphaned' = orphaned \ {c}
      /\ pc' = IF plan.todo \ {c} = {} THEN "reloading" ELSE "deploying"
      /\ UNCHANGED <<assigned, ver, proxy, disk, includes, loaded, local, cmd, unsaved, mixed,
                     unwritten>>
  BY DEF DeployLocally, server, history, RecordsTyped, Goto
<1>3. LoadState' = LoadState /\ Updated' = Updated
  BY <1>2, LoadedSame DEF Updated
<1> DEFINE dir == [cur |-> plan.new[c], prev |-> prev]
<1>4. dir \in KeyDir /\ dir.cur = plan.new[c]
  <2>1. "id" \in Layouts
    BY DEF Layouts
  <2>2. /\ old.cur \in 0 .. MaxVersion /\ old.prev \in 0 .. MaxVersion /\ 0 \in 0 .. MaxVersion
        /\ plan.new[c] \in 0 .. MaxVersion
    BY <2>1, FileTypes, Values, EdgeAssumption
  <2>3. Previous(old) \in {old.cur, old.prev}
    BY DEF Previous
  <2> HIDE DEF old
  <2>4. prev \in 0 .. MaxVersion
    BY <1>1, <2>2, <2>3
  <2> QED BY <2>2, <2>4 DEF KeyDir
<1>5. files' = [files EXCEPT ![c]["id"] = dir]
  BY <1>1
<1> HIDE DEF dir
<1>6. files' \in [Clusters -> [Layouts -> KeyDir]]
  BY <1>4, <1>5 DEF EdgeTypeOK
<1>7. /\ files'[c]["id"].cur = plan.new[c]
      /\ \A d \in Clusters : d # c => files'[d] = files[d]
  BY <1>4, <1>5 DEF EdgeTypeOK, Layouts
<1>8. events' \in 0 .. MaxEvents
  BY <1>1, EventType DEF EdgeTypeOK
<1>9. EdgeTypeOK' /\ RecordsTyped'
  BY <1>2, <1>6, <1>8 DEF EdgeTypeOK, RecordsTyped
<1>10. VersionsKnown' /\ AnswerIsNewer'
  BY <1>2, <1>3 DEF VersionsKnown, Behind, AnswerIsNewer
<1>11. CommandAlone'
  BY <1>2, NoCommandInCycle DEF CommandAlone
<1>12. CycleSteps'
  <2> SUFFICES ASSUME ~mixed PROVE CycleSteps'
    BY <1>2 DEF CycleSteps
  <2>1. /\ NoNames(local, Clusters)
        /\ plan.todo \subseteq Updated
        /\ \A d \in Updated \ plan.todo : files[d]["id"].cur = plan.new[d]
    BY <1>2 DEF CycleSteps
  <2>2. /\ NoNames(local, Clusters)'
        /\ plan'.todo = plan.todo \ {c} /\ plan'.new = plan.new
    BY <1>2, <2>1 DEF NoNames
  <2>3. \A d \in Updated' \ plan'.todo : files'[d]["id"].cur = plan'.new[d]
    BY <1>3, <1>7, <2>1, <2>2, UpdatedType
  <2>4. NoNames(local, plan.clusters)'
    BY <1>2, <2>1 DEF NoNames, EdgeTypeOK
  <2> HIDE DEF old
  <2> QED BY <1>2, <1>3, <2>1, <2>2, <2>3, <2>4 DEF CycleSteps
<1>13. ASSUME ~mixed, NEW d \in Clusters \ unsaved
       PROVE  HasKeys(LoadState, d, files'[d]) /\ HasKeys(local, d, files'[d])
  <2>1. CASE d # c
    <3>1. HasKeys(LoadState, d, files[d]) /\ HasKeys(local, d, files[d])
      BY <1>2, <1>13, <2>1, DiskHas DEF MemoryHasKeys, InCycle
    <3> QED BY <1>7, <2>1, <3>1
  <2>2. CASE d = c
    <3>1. c \in Updated
      BY <1>2, <1>13 DEF CycleSteps
    <3>2. /\ LoadState.id[c] <= plan.new[c] /\ LoadState.name[c] <= plan.new[c]
          /\ local.id[c] <= plan.new[c] /\ local.name[c] <= plan.new[c]
      BY <1>13, <3>1 DEF AnswerIsNewer
    <3> QED BY <1>7, <2>2, <3>2, Values DEF HasKeys, Has
  <2> QED BY <2>1, <2>2
<1>14. DiskHasKeys' /\ MemoryHasKeys'
  BY <1>2, <1>3, <1>13 DEF DiskHasKeys, MemoryHasKeys
<1> QED BY <1>9, <1>10, <1>11, <1>12, <1>14

(* A deployment that does not get to the rename leaves the current keys.   *)
LEMMA BackupsType ==
  ASSUME EdgeTypeOK, NEW c \in Clusters, NEW f \in Backups(c)
  PROVE  /\ f \in [Clusters -> [Layouts -> KeyDir]]
         /\ \A d \in Clusters : \A st : HasKeys(st, d, files[d]) => HasKeys(st, d, f[d])
<1> DEFINE old == files[c]["id"]
<1>1. "id" \in Layouts /\ "name" \in Layouts /\ "name" # "id"
  BY DEF Layouts
<1>2. CASE f = files
  BY <1>2 DEF EdgeTypeOK
<1>3. CASE f # files
  <2>1. old.cur # 0 /\ \E p \in {old.cur, 0} : f = [files EXCEPT ![c]["id"].prev = p]
    BY <1>3 DEF Backups
  <2>2. PICK p \in {old.cur, 0} : f = [files EXCEPT ![c]["id"].prev = p]
    BY <2>1
  <2>3. old \in KeyDir /\ p \in 0 .. MaxVersion
    BY <1>1, <2>2, FileTypes, EdgeAssumption
  <2>4. [old EXCEPT !.prev = p] = [cur |-> old.cur, prev |-> p]
    <3> HIDE DEF old
    <3> QED BY <2>3 DEF KeyDir
  <2>5. f = [files EXCEPT ![c]["id"] = [cur |-> old.cur, prev |-> p]]
    <3>1. f = [files EXCEPT ![c]["id"] = [old EXCEPT !.prev = p]]
      BY <2>2
    <3> QED BY <2>4, <3>1
  <2>6. [cur |-> old.cur, prev |-> p] \in KeyDir
    BY <2>3 DEF KeyDir
  <2>7. f \in [Clusters -> [Layouts -> KeyDir]]
    BY <2>5, <2>6 DEF EdgeTypeOK
  <2>8. ASSUME NEW d \in Clusters
        PROVE  /\ f[d]["id"].cur = files[d]["id"].cur /\ f[d]["name"] = files[d]["name"]
               /\ files[d]["id"] = NoFiles => f[d]["id"] = NoFiles
    <3>1. d # c => f[d] = files[d]
      BY <2>5
    <3>2. f[c]["id"] = [cur |-> old.cur, prev |-> p] /\ f[c]["name"] = files[c]["name"]
      BY <1>1, <2>5 DEF EdgeTypeOK
    <3>3. old # NoFiles
      BY <2>1 DEF NoFiles
    <3> QED BY <3>1, <3>2, <3>3
  <2> QED BY <2>7, <2>8 DEF HasKeys, Has
<1> QED BY <1>2, <1>3

LEMMA EndCycleTypes ==
  ASSUME EndCycle
  PROVE  /\ local' \in State /\ pc' = "idle" /\ local' = EmptyState /\ plan' = NoPlan
         /\ plan'.new \in [Clusters -> 0 .. MaxVersion]
         /\ plan'.clusters = {} /\ plan'.remove = {} /\ plan'.todo = {}
BY EmptyIs DEF EndCycle, Goto, NoPlan

LEMMA WriteFailsInv ==
  ASSUME EdgeInv, NEW c \in Clusters, WriteFails(c)
  PROVE  EdgeInv'
<1> USE DEF EdgeInv
<1>1. /\ pc = "deploying" /\ EndCycle /\ files' \in Backups(c)
      /\ UNCHANGED <<assigned, ver, proxy, disk, includes, loaded, cmd, unsaved, mixed,
                     orphaned, unwritten>>
  BY DEF WriteFails, server, history, failures
<1>2. LoadState' = LoadState
  BY <1>1, LoadedSame
<1>3. events' \in 0 .. MaxEvents
  BY EventType DEF WriteFails
<1>4. EdgeTypeOK'
  BY <1>1, <1>3, BackupsType, EndCycleTypes DEF EdgeTypeOK
<1>5. Behind(LoadState)'
  BY <1>1, <1>2 DEF VersionsKnown, Behind
<1>6. ASSUME ~mixed, NEW d \in Clusters \ unsaved'
      PROVE  HasKeys(LoadState', d, files'[d])
  <2>1. HasKeys(LoadState, d, files[d])
    BY <1>1, <1>6, DiskHas
  <2> QED BY <1>1, <1>2, <2>1, BackupsType
<1> QED BY <1>1, <1>4, <1>5, <1>6, EndCycleTypes, EndedInv DEF server

(***************************************************************************)
(* Reloads and the end of a cycle                                          *)
(***************************************************************************)

LEMMA ReloadInv ==
  ASSUME EdgeInv, Reload \/ CommandReload
  PROVE  EdgeInv'
<1> USE DEF EdgeInv
<1>1. CASE Reload
  <2>1. EdgeTypeOK'
    BY <1>1, UpdatedType, ReloadTypes DEF Reload, EdgeTypeOK, Goto, server, history
  <2> QED BY <1>1, <2>1, ServedInv DEF Reload, Goto
<1>2. CASE CommandReload
  <2>1. /\ cmd.step = "reload" /\ cmd' = NoCommand
        /\ UNCHANGED <<assigned, ver, proxy, disk, files, pc, local, plan, unsaved, mixed, orphaned>>
    BY <1>2 DEF CommandReload, server, agent, history
  <2>2. LoadState' = LoadState
    BY <2>1, LoadedSame
  <2>3. EdgeTypeOK'
    <3>1. {} \in SUBSET Clusters
      OBVIOUS
    <3>2. /\ includes' \subseteq Clusters \X Layouts
          /\ loaded' \in [Clusters -> SUBSET (1 .. MaxVersion)]
          /\ events' \in 0 .. MaxEvents /\ unwritten' \in BOOLEAN
      BY <1>2, <3>1, ReloadTypes DEF CommandReload
    <3> QED BY <2>1, <3>2, EmptyIs DEF EdgeTypeOK
  <2>4. RecordsTyped' /\ VersionsKnown' /\ AnswerIsNewer'
    <3>1. Behind(cmd.state)'
      BY <2>1, EmptyIs, EmptyBehind DEF Behind
    <3> QED BY <2>1, <2>2, <3>1 DEF RecordsTyped, NoCommand, VersionsKnown, Behind, AnswerIsNewer, Updated
  <2>5. CommandAlone' /\ CycleSteps'
    BY <2>1, <2>2 DEF CommandAlone, CycleSteps, NoNames, Updated
  <2>6. DiskHasKeys' /\ MemoryHasKeys'
    BY <2>1, <2>2 DEF DiskHasKeys, MemoryHasKeys, InCycle
  <2> QED BY <2>3, <2>4, <2>5, <2>6
<1> QED BY <1>1, <1>2

(* The cycle ends with the files and the state file as they are.           *)
LEMMA ReloadEndsInv ==
  ASSUME EdgeInv, ReloadFails \/ ReloadRemoved
  PROVE  EdgeInv'
<1> USE DEF EdgeInv
<1>1. /\ pc \in {"reloading", "reloadRemoved"} /\ EndCycle
      /\ UNCHANGED <<assigned, ver, proxy, disk, files, cmd, unsaved, mixed, orphaned>>
  BY DEF ReloadFails, ReloadRemoved, server, history
<1>2. /\ includes' \subseteq Clusters \X Layouts
      /\ loaded' \in [Clusters -> SUBSET (1 .. MaxVersion)]
      /\ events' \in 0 .. MaxEvents /\ unwritten' \in BOOLEAN
  <2>1. {} \in SUBSET Clusters
    OBVIOUS
  <2> QED BY <2>1, UpdatedType, ReloadTypes DEF ReloadFails, ReloadRemoved
<1>3. LoadState' = LoadState
  BY <1>1, LoadedSame
<1>4. EdgeTypeOK'
  BY <1>1, <1>2, EndCycleTypes DEF EdgeTypeOK
<1>5. Behind(LoadState)'
  BY <1>1, <1>3 DEF VersionsKnown, Behind
<1>6. ~mixed => \A c \in Clusters \ unsaved' : HasKeys(LoadState', c, files'[c])
  BY <1>1, <1>3, DiskHas
<1> QED BY <1>1, <1>4, <1>5, <1>6, EndCycleTypes, EndedInv DEF server

(* What is saved: no entry for what was removed, the new key's version for *)
(* what was deployed, and otherwise what the memory had.                   *)
LEMMA NewStateIs ==
  ASSUME EdgeTypeOK
  PROVE  /\ NewState \in State /\ NewState.name = local.name
         /\ \A c \in Clusters :
              /\ c \in plan.remove => NewState.id[c] = NoEntry
              /\ c \in Updated \ plan.remove => NewState.id[c] = plan.new[c]
              /\ c \notin Updated \cup plan.remove => NewState.id[c] \in {0, local.id[c]}
              /\ NewState.id[c] \in {NoEntry, plan.new[c], 0, local.id[c]}
<1> DEFINE id == [c \in Clusters |->
                    IF c \in plan.remove THEN NoEntry
                    ELSE IF c \in Updated THEN plan.new[c]
                    ELSE IF c \in plan.clusters /\ local.id[c] = NoEntry THEN 0
                    ELSE local.id[c]]
<1>1. local = [id |-> local.id, name |-> local.name] /\ local.name \in Entries /\ local \in State
  BY DEF EdgeTypeOK, State
<1>2. ASSUME NEW c \in Clusters PROVE id[c] \in NoEntry .. MaxVersion
  <2>1. /\ local.id[c] \in NoEntry .. MaxVersion /\ plan.new[c] \in NoEntry .. MaxVersion
        /\ NoEntry \in NoEntry .. MaxVersion /\ 0 \in NoEntry .. MaxVersion
    BY <1>1, EntryTypes, Values, EdgeAssumption DEF NoEntry
  <2>2. id[c] \in {NoEntry, plan.new[c], 0, local.id[c]}
    OBVIOUS
  <2> HIDE DEF id
  <2> QED BY <2>1, <2>2
<1>3. NewState = [id |-> id, name |-> local.name]
  BY <1>1 DEF NewState
<1>4. id \in Entries
  BY <1>2 DEF Entries
<1>5. ASSUME NEW c \in Clusters
      PROVE  /\ c \in plan.remove => id[c] = NoEntry
             /\ c \in Updated \ plan.remove => id[c] = plan.new[c]
             /\ c \notin Updated \cup plan.remove => id[c] \in {0, local.id[c]}
             /\ id[c] \in {NoEntry, plan.new[c], 0, local.id[c]}
  OBVIOUS
<1> HIDE DEF id
<1>6. NewState \in State /\ NewState.name = local.name /\ NewState.id = id
  BY <1>1, <1>3, <1>4 DEF State
<1> QED BY <1>5, <1>6

LEMMA SaveStateInv ==
  ASSUME EdgeInv, SaveState
  PROVE  EdgeInv'
<1> USE DEF EdgeInv
<1>1. /\ pc = "saving"
      /\ \/ Updated = {} /\ pc' = "reloadRemoved" /\ UNCHANGED <<local, plan>>
         \/ EndCycle
      /\ UNCHANGED <<assigned, ver, proxy, files, includes, loaded, cmd, mixed, unwritten>>
  BY DEF SaveState, Goto, server
<1>2. /\ disk' = Torn \/ disk' \in State
      /\ events' \in 0 .. MaxEvents /\ orphaned' \subseteq Clusters /\ unsaved' \subseteq Clusters
      /\ \/ LoadState' = NewState /\ unsaved' = unsaved \ (plan.remove \cup Updated)
         \/ LoadState' \in {LoadState, EmptyState} /\ unsaved' = unsaved
  <2>1. CASE Saved(NewState) /\ unsaved' = unsaved \ (plan.remove \cup Updated)
    BY <2>1, NewStateIs, SavedTypes DEF EdgeTypeOK
  <2>2. CASE SaveFails /\ UNCHANGED unsaved
    BY <2>2, SaveFailsTypes DEF EdgeTypeOK
  <2> QED BY <2>1, <2>2 DEF SaveState
<1>3. EdgeTypeOK'
  <2>1. CASE pc' = "reloadRemoved" /\ UNCHANGED <<local, plan>>
    BY <1>1, <1>2, <2>1 DEF EdgeTypeOK
  <2>2. CASE EndCycle
    BY <1>1, <1>2, <2>2, EndCycleTypes DEF EdgeTypeOK
  <2> QED BY <1>1, <2>1, <2>2
<1>4. Behind(LoadState)'
  <2>1. ASSUME NEW c \in Clusters
        PROVE  NewState.id[c] <= ver[c] /\ NewState.name[c] <= ver[c]
    <3>1. /\ local.id[c] <= ver[c] /\ local.name[c] <= ver[c] /\ plan.new[c] <= ver[c]
          /\ 0 <= ver[c] /\ NoEntry <= ver[c]
      BY Values DEF VersionsKnown, Behind, NoEntry
    <3>2. NewState.id[c] \in {NoEntry, plan.new[c], 0, local.id[c]}
      BY NewStateIs
    <3> QED BY <3>1, <3>2, NewStateIs
  <2>2. Behind(NewState) /\ Behind(LoadState) /\ Behind(EmptyState)
    BY <2>1, EmptyBehind DEF Behind, VersionsKnown
  <2> QED BY <1>1, <1>2, <2>2 DEF Behind
<1>5. ASSUME ~mixed, NEW c \in Clusters,
             c \notin unsaved \/ c \in plan.remove \cup Updated
      PROVE  HasKeys(NewState, c, files[c])
  <2>1. NewState.name[c] = NoEntry
    BY <1>1, <1>5, NewStateIs DEF CycleSteps, NoNames
  <2>2. Has(NewState.id[c], files[c])
    <3>1. CASE c \in plan.remove
      BY <3>1, NewStateIs DEF NoEntry, Has
    <3>2. CASE c \notin plan.remove /\ c \in Updated
      <4>1. files[c]["id"].cur = plan.new[c]
        BY <1>1, <1>5, <3>2 DEF CycleSteps
      <4>2. NewState.id[c] = plan.new[c]
        BY <3>2, NewStateIs
      <4> QED BY <4>1, <4>2, Values DEF Has
    <3>3. CASE c \notin plan.remove /\ c \notin Updated
      <4>1. NewState.id[c] \in {0, local.id[c]}
        BY <3>3, NewStateIs
      <4>2. HasKeys(local, c, files[c])
        BY <1>1, <1>5, <3>3 DEF MemoryHasKeys, InCycle
      <4> QED BY <4>1, <4>2 DEF HasKeys, Has
    <3> QED BY <3>1, <3>2, <3>3
  <2> QED BY <2>1, <2>2 DEF HasKeys, Has, NoEntry
<1>6. ASSUME ~mixed, NEW c \in Clusters \ unsaved'
      PROVE  HasKeys(LoadState', c, files'[c])
  <2>1. CASE LoadState' = NewState /\ unsaved' = unsaved \ (plan.remove \cup Updated)
    BY <1>1, <1>5, <1>6, <2>1
  <2>2. CASE LoadState' \in {LoadState, EmptyState} /\ unsaved' = unsaved
    BY <1>1, <1>6, <2>2, DiskHas, EmptyHasKeys
  <2> QED BY <1>2, <2>1, <2>2
<1>7. CASE EndCycle
  BY <1>1, <1>3, <1>4, <1>6, <1>7, EndCycleTypes, EndedInv DEF server
<1>8. CASE Updated = {} /\ pc' = "reloadRemoved" /\ UNCHANGED <<local, plan>>
  <2>1. RecordsTyped' /\ AnswerIsNewer'
    BY <1>1, <1>8 DEF RecordsTyped, AnswerIsNewer, Updated
  <2>2. VersionsKnown'
    BY <1>1, <1>4, <1>8 DEF VersionsKnown, Behind
  <2>3. CommandAlone' /\ CycleSteps' /\ MemoryHasKeys'
    BY <1>1, <1>8, NoCommandInCycle DEF CommandAlone, CycleSteps, MemoryHasKeys, InCycle
  <2>4. DiskHasKeys'
    BY <1>1, <1>6 DEF DiskHasKeys
  <2> QED BY <1>3, <2>1, <2>2, <2>3, <2>4
<1> QED BY <1>1, <1>7, <1>8

LEMMA CrashInv ==
  ASSUME EdgeInv, Crash
  PROVE  EdgeInv'
<1> USE DEF EdgeInv
<1>1. /\ pc \notin {"idle", "down"} /\ disk' \in {disk, Torn}
      /\ orphaned' \in {orphaned, Lost}
      /\ unsaved' = IF disk' = Torn THEN {} ELSE unsaved
      /\ files' = files \/ \E c \in plan.todo : files' \in Backups(c)
      /\ pc' = "down" /\ local' = EmptyState /\ plan' = NoPlan
      /\ UNCHANGED <<assigned, ver, proxy, includes, loaded, cmd, mixed, unwritten>>
  BY DEF Crash, Goto, server
<1>2. events' \in 0 .. MaxEvents
  BY EventType DEF Crash
<1>3. (LoadState' = LoadState /\ unsaved' = unsaved) \/ LoadState' = EmptyState
  BY <1>1, LoadedSame, LoadedTorn
<1>4. /\ files' \in [Clusters -> [Layouts -> KeyDir]]
      /\ \A d \in Clusters : \A st : HasKeys(st, d, files[d]) => HasKeys(st, d, files'[d])
  <2>1. plan.todo \subseteq Clusters
    BY DEF EdgeTypeOK
  <2> QED BY <1>1, <2>1, BackupsType DEF EdgeTypeOK
<1>5. EdgeTypeOK'
  <2>1. NoPlan.clusters \cup NoPlan.remove \cup NoPlan.todo = {}
    BY DEF NoPlan
  <2> QED BY <1>1, <1>2, <1>4, <2>1, EmptyIs, LostType DEF EdgeTypeOK
<1>6. Behind(LoadState)'
  BY <1>1, <1>3, EmptyBehind DEF VersionsKnown, Behind
<1>7. ASSUME ~mixed, NEW c \in Clusters \ unsaved'
      PROVE  HasKeys(LoadState', c, files'[c])
  <2>1. CASE LoadState' = LoadState /\ unsaved' = unsaved
    <3>1. HasKeys(LoadState, c, files[c])
      BY <1>1, <1>7, <2>1, DiskHas
    <3> QED BY <1>4, <2>1, <3>1
  <2>2. CASE LoadState' = EmptyState
    BY <2>2, EmptyHasKeys
  <2> QED BY <1>3, <2>1, <2>2
<1> QED BY <1>1, <1>5, <1>6, <1>7, EndedInv DEF server

LEMMA StartInv ==
  ASSUME EdgeInv, Start
  PROVE  EdgeInv'
<1>1. includes' \subseteq Clusters \X Layouts /\ unwritten' \in BOOLEAN /\ events' \in 0 .. MaxEvents
  BY DirsType, EventType DEF EdgeInv, EdgeTypeOK, Start, IncludesWritten, IncludesFail
<1>2. EdgeTypeOK'
  BY <1>1 DEF EdgeInv, EdgeTypeOK, Start, Goto, server, history
<1> QED BY <1>2, ServedInv DEF Start, Goto

(***************************************************************************)
(* The operator's commands                                                 *)
(***************************************************************************)

(* A command begins by reading the state file; one that begins inside a    *)
(* cycle, or meets an entry of the older format, is mixed.                 *)
LEMMA CommandBeginsInv ==
  ASSUME EdgeInv, ClusterPrune \/ \E c \in Clusters : ClusterRemove(c)
  PROVE  EdgeInv'
<1> USE DEF EdgeInv
<1>1. PICK step \in {"remove", "prune"}, S \in SUBSET Clusters, st \in StatesRead :
        /\ Begin(step, S, st)
        /\ step = "prune" => \A c \in S : st.id[c] = NoEntry
  <2>1. ASSUME NEW c \in Clusters, ClusterRemove(c)
        PROVE  \E st \in StatesRead : Begin("remove", {c}, st)
    BY <2>1 DEF ClusterRemove
  <2>2. ASSUME ClusterPrune
        PROVE  \E S \in SUBSET Clusters, st \in StatesRead :
                 Begin("prune", S, st) /\ \A c \in S : st.id[c] = NoEntry
    <3>1. PICK st \in StatesRead :
            Begin("prune", {c \in Clusters : files[c]["id"] # NoFiles /\ st.id[c] = NoEntry}, st)
      BY <2>2 DEF ClusterPrune
    <3> DEFINE S == {c \in Clusters : files[c]["id"] # NoFiles /\ st.id[c] = NoEntry}
    <3>2. S \in SUBSET Clusters /\ (\A c \in S : st.id[c] = NoEntry) /\ Begin("prune", S, st)
      BY <3>1
    <3> HIDE DEF S
    <3> QED BY <3>2
  <2>3. CASE ClusterPrune
    BY <2>2, <2>3
  <2>4. CASE \E c \in Clusters : ClusterRemove(c)
    BY <2>1, <2>4
  <2> QED BY <2>3, <2>4
<1>2. /\ cmd = NoCommand /\ cmd' = [step |-> step, clusters |-> S, state |-> st]
      /\ mixed' = (mixed \/ pc \notin {"idle", "down"} \/ st # LoadState
                          \/ LoadState.name # EmptyState.name)
      /\ UNCHANGED <<assigned, ver, proxy, disk, files, includes, loaded, pc, local, plan, unsaved,
                     orphaned, unwritten>>
      /\ st \in {LoadState, EmptyState}
  BY <1>1 DEF Begin, StatesRead, server, storage, agent, failures
<1>3. LoadState' = LoadState /\ st \in State /\ events' \in 0 .. MaxEvents
  BY <1>2, LoadedSame, LoadedType, EmptyIs, EventType DEF ClusterPrune, ClusterRemove
<1>4. EdgeTypeOK' /\ RecordsTyped'
  <2>1. mixed' \in BOOLEAN
    BY <1>2 DEF EdgeTypeOK
  <2> QED BY <1>2, <1>3, <2>1 DEF EdgeTypeOK, RecordsTyped
<1>5. VersionsKnown' /\ AnswerIsNewer'
  <2>1. Behind(st)
    BY <1>2, EmptyBehind DEF VersionsKnown
  <2> QED BY <1>2, <1>3, <2>1 DEF VersionsKnown, Behind, AnswerIsNewer, Updated
<1>6. CommandAlone' /\ CycleSteps' /\ MemoryHasKeys'
  BY <1>1, <1>2, <1>3, EmptyIs DEF CommandAlone, CycleSteps, MemoryHasKeys, InCycle
<1>7. DiskHasKeys'
  BY <1>2, <1>3 DEF DiskHasKeys
<1> QED BY <1>4, <1>5, <1>6, <1>7

(* The files go before the entry: until it is saved, the state file names  *)
(* keys that the cluster's directories no longer have.                     *)
LEMMA RemoveFilesInv ==
  ASSUME EdgeInv, NEW c \in Clusters, RemoveFiles(c)
  PROVE  EdgeInv'
<1> USE DEF EdgeInv
<1>1. /\ cmd.step = "remove"
      /\ cmd' = [step |-> "removeSave", clusters |-> cmd.clusters, state |-> cmd.state]
      /\ UNCHANGED <<assigned, ver, proxy, disk, includes, pc, local, plan, mixed, unwritten>>
  BY DEF RemoveFiles, server, agent, RecordsTyped
<1>2. LoadState' = LoadState /\ cmd # NoCommand
  BY <1>1, LoadedSame, EmptyIs
<1>3. /\ files' \in [Clusters -> [Layouts -> KeyDir]]
      /\ \A d \in Clusters : d # c => files'[d] = files[d]
      /\ loaded' \in [Clusters -> SUBSET (1 .. MaxVersion)]
      /\ events' \in 0 .. MaxEvents /\ orphaned' \subseteq Clusters
      /\ unsaved' = unsaved \cup {c}
  BY RemoveDirsTypes DEF RemoveFiles
<1>4. EdgeTypeOK' /\ RecordsTyped'
  BY <1>1, <1>3 DEF EdgeTypeOK, RecordsTyped
<1>5. VersionsKnown' /\ AnswerIsNewer'
  BY <1>1, <1>2 DEF VersionsKnown, Behind, AnswerIsNewer, Updated
<1>6. CommandAlone' /\ CycleSteps' /\ MemoryHasKeys'
  BY <1>1, <1>2 DEF CommandAlone, CycleSteps, MemoryHasKeys, InCycle
<1>7. DiskHasKeys'
  BY <1>1, <1>2, <1>3 DEF DiskHasKeys
<1> QED BY <1>4, <1>5, <1>6, <1>7

(* What is saved is the state that was read, without the entry; if it      *)
(* cannot be saved, the cluster stays unsaved.                             *)
LEMMA RemoveEntryInv ==
  ASSUME EdgeInv, RemoveEntry
  PROVE  EdgeInv'
<1> USE DEF EdgeInv
<1> DEFINE id == [c \in Clusters |-> IF c \in cmd.clusters THEN NoEntry ELSE cmd.state.id[c]]
           saved == [id |-> id, name |-> cmd.state.name]
<1>1. /\ cmd.state \in State /\ cmd.state.name \in Entries
      /\ cmd.state = [id |-> cmd.state.id, name |-> cmd.state.name]
  BY DEF EdgeTypeOK, State
<1>2. /\ cmd.step = "removeSave"
      /\ \/ Saved([cmd.state EXCEPT !.id = id]) /\ unsaved' = unsaved \ cmd.clusters
         \/ SaveFails /\ UNCHANGED unsaved
      /\ cmd' = [step |-> "reload", clusters |-> cmd.clusters, state |-> cmd.state]
      /\ UNCHANGED <<assigned, ver, proxy, files, includes, loaded, pc, local, plan, mixed, unwritten>>
  BY DEF RemoveEntry, server, agent, RecordsTyped
<1>3. [cmd.state EXCEPT !.id = id] = saved
  BY <1>1
<1>4. \A c \in Clusters : /\ id[c] \in {NoEntry, cmd.state.id[c]}
                          /\ c \in cmd.clusters => id[c] = NoEntry
                          /\ c \notin cmd.clusters => id[c] = cmd.state.id[c]
  OBVIOUS
<1>5. id \in Entries
  BY <1>1, EntryTypes, EdgeAssumption DEF Entries, NoEntry
<1> HIDE DEF id
<1>6. saved \in State /\ saved.id = id /\ saved.name = cmd.state.name /\ cmd # NoCommand
  BY <1>1, <1>2, <1>5, EmptyIs DEF State
<1> HIDE DEF saved
<1>7. /\ disk' = Torn \/ disk' \in State
      /\ events' \in 0 .. MaxEvents /\ orphaned' \subseteq Clusters /\ unsaved' \subseteq Clusters
      /\ \/ LoadState' = saved /\ unsaved' = unsaved \ cmd.clusters
         \/ LoadState' \in {LoadState, EmptyState} /\ unsaved' = unsaved
  <2>1. CASE Saved(saved) /\ unsaved' = unsaved \ cmd.clusters
    BY <1>6, <2>1, SavedTypes DEF EdgeTypeOK
  <2>2. CASE SaveFails /\ UNCHANGED unsaved
    BY <2>2, SaveFailsTypes DEF EdgeTypeOK
  <2> QED BY <1>2, <1>3, <2>1, <2>2
<1>8. EdgeTypeOK' /\ RecordsTyped'
  BY <1>2, <1>6, <1>7 DEF EdgeTypeOK, RecordsTyped
<1>9. VersionsKnown'
  <2>1. \A c \in Clusters : saved.id[c] <= ver[c] /\ saved.name[c] <= ver[c]
    BY <1>4, <1>6, Values DEF VersionsKnown, Behind, NoEntry
  <2>2. Behind(saved) /\ Behind(LoadState) /\ Behind(EmptyState)
    BY <2>1, EmptyBehind DEF VersionsKnown, Behind
  <2> QED BY <1>2, <1>7, <2>2 DEF VersionsKnown, Behind
<1>10. ~mixed => /\ cmd.state = LoadState /\ pc \in {"idle", "down"}
                 /\ \A c \in Clusters : LoadState.name[c] = NoEntry
  BY <1>2, <1>6 DEF CommandAlone
<1>11. ~mixed => \A c \in Clusters :
         /\ LoadState'.name[c] = NoEntry
         /\ LoadState'.id[c] \in {NoEntry, LoadState.id[c]}
  BY <1>4, <1>6, <1>7, <1>10, EmptyIs
<1>12. AnswerIsNewer'
  <2>1. ASSUME ~mixed, NEW c \in Updated
        PROVE  LoadState'.id[c] <= plan.new[c] /\ LoadState'.name[c] <= plan.new[c]
    BY <1>11, <2>1, UpdatedType, Values DEF AnswerIsNewer, NoEntry
  <2> QED BY <1>2, <2>1 DEF AnswerIsNewer, Updated
<1>13. CommandAlone' /\ CycleSteps' /\ MemoryHasKeys'
  BY <1>2, <1>10, <1>11 DEF CommandAlone, CycleSteps, MemoryHasKeys, InCycle
<1>14. DiskHasKeys'
  <2> SUFFICES ASSUME ~mixed, NEW c \in Clusters \ unsaved' PROVE HasKeys(LoadState', c, files[c])
    BY <1>2 DEF DiskHasKeys
  <2>1. LoadState'.name[c] = NoEntry /\ LoadState'.id[c] \in {NoEntry, LoadState.id[c]}
    BY <1>11
  <2>2. LoadState'.id[c] = NoEntry \/ c \notin unsaved
    BY <1>4, <1>6, <1>7
  <2>3. c \notin unsaved => HasKeys(LoadState, c, files[c])
    BY DEF DiskHasKeys
  <2> QED BY <2>1, <2>2, <2>3 DEF HasKeys, Has, NoEntry
<1> QED BY <1>8, <1>9, <1>12, <1>13, <1>14

(* The directories that are pruned are those of no entry.                  *)
LEMMA PruneDirsInv ==
  ASSUME EdgeInv, PruneDirs
  PROVE  EdgeInv'
<1> USE DEF EdgeInv
<1> DEFINE D == cmd.clusters \X {"id"}
<1>1. /\ cmd.step = "prune"
      /\ files' = WithoutDirs(D) \/ files' \in Leftovers(D)
      /\ orphaned' \in {orphaned, orphaned \cup cmd.clusters}
      /\ cmd' \in {NoCommand, [step |-> "reload", clusters |-> cmd.clusters, state |-> cmd.state]}
      /\ UNCHANGED <<assigned, ver, proxy, disk, includes, loaded, pc, local, plan, unsaved, mixed,
                     unwritten>>
  BY DEF PruneDirs, server, agent, history, RecordsTyped
<1>2. LoadState' = LoadState /\ cmd # NoCommand
  BY <1>1, LoadedSame, EmptyIs
<1>3. \A c \in Clusters : c \notin cmd.clusters => \A l \in Layouts : <<c, l>> \notin D
  OBVIOUS
<1> HIDE DEF D
<1>4. /\ files' \in [Clusters -> [Layouts -> KeyDir]]
      /\ \A c \in Clusters : c \notin cmd.clusters => files'[c] = files[c]
  BY <1>1, <1>3, WithoutDirsType, LeftoversType
<1>5. events' \in 0 .. MaxEvents
  BY EventType DEF PruneDirs, EdgeTypeOK
<1>6. EdgeTypeOK' /\ RecordsTyped'
  <2>1. orphaned' \subseteq Clusters
    BY <1>1 DEF EdgeTypeOK
  <2> QED BY <1>1, <1>4, <1>5, <2>1, EmptyIs DEF EdgeTypeOK, RecordsTyped, NoCommand
<1>7. VersionsKnown'
  <2>1. Behind(cmd.state)'
    BY <1>1, EmptyIs, EmptyBehind DEF VersionsKnown, Behind
  <2> QED BY <1>1, <1>2, <2>1 DEF VersionsKnown, Behind
<1>8. AnswerIsNewer'
  BY <1>1, <1>2 DEF AnswerIsNewer, Updated
<1>9. CommandAlone' /\ CycleSteps' /\ MemoryHasKeys'
  BY <1>1, <1>2 DEF CommandAlone, CycleSteps, MemoryHasKeys, InCycle
<1>10. ASSUME ~mixed, NEW c \in Clusters \ unsaved
       PROVE  HasKeys(LoadState, c, files'[c])
  <2>1. CASE c \in cmd.clusters
    <3>1. LoadState.id[c] = NoEntry /\ LoadState.name[c] = NoEntry
      BY <1>1, <1>2, <1>10, <2>1 DEF CommandAlone
    <3> QED BY <3>1 DEF HasKeys, Has, NoEntry
  <2>2. CASE c \notin cmd.clusters
    <3>1. files'[c] = files[c] /\ HasKeys(LoadState, c, files[c])
      BY <1>4, <1>10, <2>2 DEF DiskHasKeys
    <3> QED BY <3>1
  <2> QED BY <2>1, <2>2
<1>11. DiskHasKeys'
  BY <1>1, <1>2, <1>10 DEF DiskHasKeys
<1> QED BY <1>6, <1>7, <1>8, <1>9, <1>11

(* A command that is interrupted leaves what it has done.                  *)
LEMMA CommandCutInv ==
  ASSUME EdgeInv, CommandCut
  PROVE  EdgeInv'
<1> USE DEF EdgeInv
<1>1. /\ cmd' = NoCommand /\ disk' \in {disk, Torn} /\ orphaned' \in {orphaned, Lost}
      /\ unwritten' = (unwritten \/ cmd.step \in {"removeSave", "reload"})
      /\ disk' = Torn /\ disk' # disk => cmd.step = "removeSave"
      /\ UNCHANGED <<assigned, ver, proxy, files, includes, loaded, pc, local, plan, unsaved, mixed>>
  BY DEF CommandCut, server, agent, history
<1>2. LoadState' \in {LoadState, EmptyState}
  BY <1>1, LoadedSame, LoadedTorn
<1>3. events' \in 0 .. MaxEvents
  BY EventType DEF CommandCut, EdgeTypeOK
<1>4. EdgeTypeOK' /\ RecordsTyped'
  <2>1. unwritten' \in BOOLEAN
    BY <1>1 DEF EdgeTypeOK
  <2>2. /\ NoCommand.step = "none" /\ NoCommand.clusters = {} /\ NoCommand.state \in State
    BY EmptyIs DEF NoCommand
  <2>3. EdgeTypeOK'
    BY <1>1, <1>3, <2>1, <2>2, LostType DEF EdgeTypeOK
  <2>4. RecordsTyped'
    BY <1>1 DEF RecordsTyped, NoCommand
  <2> QED BY <2>3, <2>4
<1>5. VersionsKnown'
  <2>1. Behind(EmptyState) /\ NoCommand.state = EmptyState
    BY EmptyBehind, EmptyIs
  <2> QED BY <1>1, <1>2, <2>1 DEF VersionsKnown, Behind
<1>6. AnswerIsNewer'
  <2>1. ASSUME NEW c \in Updated
        PROVE  EmptyState.id[c] <= plan.new[c] /\ EmptyState.name[c] <= plan.new[c]
    BY UpdatedType, Values, EmptyIs DEF NoEntry
  <2> QED BY <1>1, <1>2, <2>1 DEF AnswerIsNewer, Updated
<1>7. CommandAlone' /\ CycleSteps' /\ MemoryHasKeys'
  BY <1>1 DEF CommandAlone, CycleSteps, MemoryHasKeys, InCycle, NoNames, Updated
<1>8. DiskHasKeys'
  BY <1>1, <1>2, EmptyHasKeys DEF DiskHasKeys
<1> QED BY <1>4, <1>5, <1>6, <1>7, <1>8

(***************************************************************************)
(* The server, and all steps                                               *)
(***************************************************************************)

(* The server's versions only grow.                                        *)
LEMMA ServerInv ==
  ASSUME EdgeInv, NEW c \in Clusters, Assign(c) \/ Rotate(c)
  PROVE  EdgeInv'
<1> USE DEF EdgeInv
<1>1. /\ UNCHANGED <<proxy, disk, files, includes, loaded, pc, local, plan, cmd, unsaved, mixed,
                     orphaned, unwritten>>
      /\ events' \in 0 .. MaxEvents
  BY EventType DEF Assign, Rotate, storage, agent, history, failures
<1>2. assigned' \subseteq Clusters
  BY DEF Assign, Rotate, EdgeTypeOK
<1>3. /\ ver' \in [Clusters -> 0 .. MaxVersion]
      /\ \A d \in Clusters : ver[d] <= ver'[d] /\ ver[d] \in Nat /\ ver'[d] \in Nat
  <2>1. CASE Assign(c)
    BY <2>1, Values DEF Assign, EdgeTypeOK
  <2>2. CASE Rotate(c)
    <3>1. ver[c] < MaxVersion /\ ver' = [ver EXCEPT ![c] = ver[c] + 1] /\ ver[c] + 1 \in 0 .. MaxVersion
      BY <2>2, Values, EdgeAssumption DEF Rotate
    <3> QED BY <3>1, Values DEF EdgeTypeOK
  <2> QED BY <2>1, <2>2
<1>4. LoadState' = LoadState
  BY <1>1, LoadedSame
<1>5. EdgeTypeOK' /\ RecordsTyped'
  BY <1>1, <1>2, <1>3 DEF EdgeTypeOK, RecordsTyped
<1>6. VersionsKnown'
  <2>1. \A d \in Clusters :
          /\ LoadState.id[d] <= ver'[d] /\ LoadState.name[d] <= ver'[d]
          /\ local.id[d] <= ver'[d] /\ local.name[d] <= ver'[d]
          /\ cmd.state.id[d] <= ver'[d] /\ cmd.state.name[d] <= ver'[d]
          /\ plan.new[d] <= ver'[d]
    BY <1>3, Values DEF VersionsKnown, Behind
  <2> QED BY <1>1, <1>4, <2>1 DEF VersionsKnown, Behind
<1>7. AnswerIsNewer' /\ CommandAlone' /\ CycleSteps'
  BY <1>1, <1>4 DEF AnswerIsNewer, CommandAlone, CycleSteps, Updated, NoNames
<1>8. DiskHasKeys' /\ MemoryHasKeys'
  BY <1>1, <1>4 DEF DiskHasKeys, MemoryHasKeys, InCycle
<1> QED BY <1>5, <1>6, <1>7, <1>8

LEMMA StutterInv ==
  ASSUME EdgeInv, UNCHANGED vars
  PROVE  EdgeInv'
<1>1. EdgeTypeOK'
  BY DEF EdgeInv, EdgeTypeOK, vars, server, storage, agent, history, failures
<1> QED BY <1>1, ServedInv DEF vars, storage, agent

LEMMA StepInv ==
  ASSUME EdgeInv, [Next]_vars
  PROVE  EdgeInv'
<1>1. CASE AgentStep
  BY <1>1, PullInv, MigrateInv, SaveMigratedInv, UpToDateInv, DecideInv, RemoveLocallyInv,
     AllRemovedInv, DeployInv, ReloadInv, ReloadEndsInv, SaveStateInv, StartInv DEF AgentStep
<1>2. CASE CommandStep
  BY <1>2, RemoveFilesInv, RemoveEntryInv, PruneDirsInv, ReloadInv DEF CommandStep
<1>3. CASE ReloadFails \/ Crash \/ ClusterPrune \/ CommandCut
  BY <1>3, ReloadEndsInv, CrashInv, CommandBeginsInv, CommandCutInv
<1>4. CASE \E c \in Clusters : WriteFails(c) \/ ClusterRemove(c) \/ Assign(c) \/ Rotate(c)
  BY <1>4, WriteFailsInv, CommandBeginsInv, ServerInv
<1>5. CASE UNCHANGED vars
  BY <1>5, StutterInv
<1> QED BY <1>1, <1>2, <1>3, <1>4, <1>5 DEF Next

(* The inductive invariant holds in every state.                           *)
THEOREM EdgeInvariant == Spec => []EdgeInv
<1>1. Init => EdgeInv
  BY InitInv
<1>2. EdgeInv /\ [Next]_vars => EdgeInv'
  BY StepInv
<1> QED BY <1>1, <1>2, PTL DEF Spec

(* The state file, the directories, the agent's memory and the command     *)
(* stay well typed, a torn state file included.                            *)
THEOREM EdgeTyped == Spec => []EdgeTypeOK
<1>1. EdgeInv => EdgeTypeOK
  BY DEF EdgeInv
<1> QED BY <1>1, EdgeInvariant, PTL

(* Between cycles, what the state file says a cluster has applied is in    *)
(* one of the cluster's directories, through every order of migrations,    *)
(* failing writes, renames, deletions and reloads, crashes, and commands   *)
(* that meet no cycle: the agent would not be given that key again         *)
(* (SyncNode compares versions only).                                      *)
THEOREM EntriesHaveKeys == Spec => []EntryHasKeys
<1>1. EdgeInv => EntryHasKeys
  <2> SUFFICES ASSUME EdgeInv, Quiet, ~mixed, NEW c \in Clusters \ unsaved
               PROVE  \E l \in Layouts :
                        files[c][l].cur >= LoadState.id[c] /\ files[c][l].cur >= LoadState.name[c]
    BY DEF EntryHasKeys
  <2>1. HasKeys(LoadState, c, files[c])
    BY DEF EdgeInv, DiskHasKeys
  <2>2. /\ LoadState.id[c] \in Int /\ LoadState.name[c] \in Int
        /\ files[c]["id"].cur \in Nat /\ files[c]["name"].cur \in Nat
        /\ files[c]["id"] = NoFiles => files[c]["id"].cur = 0
        /\ "id" \in Layouts /\ "name" \in Layouts
    BY Values DEF EdgeInv, NoFiles, Layouts
  <2> QED BY <2>1, <2>2 DEF HasKeys, Has
<1> QED BY <1>1, EdgeInvariant, PTL

(* "All assigned ECH clusters are up to date." (syncer.go:151) holds of    *)
(* every cluster with an entry, but for those whose removal, by a cycle or *)
(* a command, was not saved, by a crash or a failed write, and nodes on    *)
(* which a command has overlapped a cycle, could not read the state file   *)
(* or met the older format.                                                *)
UpToDateUnlessInterrupted ==
  [][pc = "deciding" /\ pc' = "idle" /\ ~mixed =>
       \A c \in plan.clusters \ unsaved : \E l \in Layouts : files[c][l].cur >= local.id[c]]_vars

(* It holds, by what the memory of a cycle says of the directories.        *)
THEOREM UpToDateMeansKeys == Spec => UpToDateUnlessInterrupted
<1>1. EdgeInv => (pc = "deciding" /\ pc' = "idle" /\ ~mixed =>
                    \A c \in plan.clusters \ unsaved : \E l \in Layouts :
                      files[c][l].cur >= local.id[c])
  <2> SUFFICES ASSUME EdgeInv, pc = "deciding", ~mixed, NEW c \in plan.clusters \ unsaved
               PROVE  \E l \in Layouts : files[c][l].cur >= local.id[c]
    OBVIOUS
  <2>1. c \in Clusters
    BY DEF EdgeInv, EdgeTypeOK
  <2>2. HasKeys(local, c, files[c])
    BY <2>1 DEF EdgeInv, MemoryHasKeys, InCycle
  <2>3. /\ local.id[c] \in Int /\ files[c]["id"].cur \in Nat /\ files[c]["name"].cur \in Nat
        /\ "id" \in Layouts /\ "name" \in Layouts
    BY <2>1, Values DEF EdgeInv, Layouts
  <2> QED BY <2>2, <2>3 DEF HasKeys, Has
<1> QED BY <1>1, EdgeInvariant, PTL DEF UpToDateUnlessInterrupted
=============================================================================
