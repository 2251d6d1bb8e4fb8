# nodem in TLA+

nodem is a control plane with two halves. One monitors groups of IP addresses
and keeps a DNS record equal to the healthy ones. The other rotates TLS
Encrypted-Client-Hello (ECH) keys for clusters of edge nodes: it generates a
key, waits until every node of the cluster serves it, and only then publishes
it in the HTTPS records of the cluster's domains. This directory models both,
with the DNS clients under them, the edge agents beside them and the console's
sessions.

Contents: [inventory](#inventory), [modules](#modules),
[state and actions](#how-the-models-correspond-to-the-code), [runs](#runs),
[disagreements](#where-code-and-documents-disagree), [proofs](#proofs),
[plan](#plan), [what is not modelled](#what-is-not-modelled).

## Inventory

| component | state | operations | interacts through | hard behaviour | what makes it correct |
|---|---|---|---|---|---|
| ECH coordinator (`internal/daemon/ech_coordinator.go`) | a snapshot of the clusters per 15 s cycle | rotate a due cluster; check its nodes; publish its domains | cluster store, DNS providers | several statements per rotation, each visible on its own; reads used later; ignored errors; restart between statements | no key in DNS before every node serves it; every domain gets synced |
| cluster and key store (`internal/db/sqlite/ech_*.go`) | `ech_clusters`, `ech_keys`, `ech_cluster_nodes`, `ech_domains` | IncrementClusterVersion, SaveNewECHKey, RecordClusterNodeAck, AreAllNodesInSync, assignments, CRUD | SQL | only SaveNewECHKey and SetNodeClusters are transactions | one ACTIVE and one PREVIOUS key; versions are never shared or reused |
| ECH admin API (`internal/api/ech_admin.go`) | none | TriggerClusterRotation, assignments, CRUD | the same store, concurrently | races with the coordinator and itself | as above |
| pull protocol (`internal/ech/transport/service.go`, `internal/api/ech_agent.go`) | none | SyncNode, AckNode | HTTPS or SSH; store | version label and key are read at different times; acknowledgments get lost or come late | a node that is told it is up to date has the key |
| SSH server (`internal/ech/transport/ssh_server.go`) | none | `sync`, `ack` commands | SyncNode, AckNode | decoding errors are ignored | same effect as HTTPS |
| edge agent (`internal/agent`) | `agent_state.json`, `ech_current.pem`, `ech_previous.pem`, the keys the proxy has loaded | sync cycle: pull, verify, install, reload, acknowledge, save; remove | pull protocol, proxy | crash at any point, failing reloads, repeats | an acknowledged key is served; the key still in DNS is kept; keys of a cluster it left are deleted |
| agent commands (`cmd/nodem-agent/cluster.go`) | the same files | remove, prune | state file | runs beside the agent | no entry without its key files |
| server signing key (`internal/db/sqlite/settings.go`) | two settings | GetOrCreateServerSigningKey | store | first use by several requests | everybody gets the stored pair |
| monitor daemon (`internal/daemon/coordinator.go`) | `activeTasks` | start and stop group tasks | group monitor | a task may end by itself | one task per enabled group |
| group monitor (`internal/daemon/monitor.go`) | thresholds, known anomalies; `check_states`, IP rows | check, evaluate rules, change DNS, report anomalies | store, providers, notifications | parallel checks, stale rows, provider failures | DNS holds what the rules say; one message per transition |
| rule engine (`internal/rules`) | none | Evaluate | group monitor | unknown states | reference semantics of the expressions |
| monitoring store and API | groups, IPs, checks, rules | CRUD, SyncIPs | group monitor | edits during a cycle | no orphans in DNS |
| DNS providers (`internal/provider`) | the remote zone | add, delete, UpdateHTTPSRecord | remote APIs | read-modify-write, delete then add | other records survive |
| setup and sessions (`internal/api/auth.go`, ...) | users, sessions | setup, login, expiry | store | check then act | an ended session stays ended, no other is lost |
| health checkers (`internal/checkers`) | none | RunCheck | group monitor | timeouts, silence | what counts as a success |
| notifications, ECH engine, frontend, command line | - | I/O, cryptography, presentation | - | - | out of scope |

The hazards of each, with the line where they bite, are listed in
`PROJECT.json`.

## Modules

| module | models |
|---|---|
| `EchCluster` | what server and agents share: the nodes and the versions of one cluster's key |
| `EchServer` | the store, the coordinator, admin rotations and node rows of one cluster |
| `EchAgent` | one cluster's sync cycle on every edge node; actions only, composed below |
| `EchRollout` | server and agents joined by SyncNode and AckNode |
| `TwoPhaseRollout` | the abstract promise: install on every node, then publish |
| `EdgeNode` | one node with several clusters: the agent's cycle and the operator's `cluster remove` and `cluster prune` over one state file and one tree of key files |
| `RuleEngine` | rule expressions, their evaluation and the policies: operators |
| `GroupMonitor` | one group's monitor task against the API's edits of its rows; uses `RuleEngine` |
| `MonitorTasks` | the daemon's coordinator and the tasks it starts and stops |
| `DnsService` | the DNS services seen from the clients: fates of a request and how a client reads them |
| `AddressRecord` | the tasks of groups that share an address record, through ListRecords, AddRecord and DeleteRecord of the four clients |
| `HttpsRecord` | the publication of a domain's HTTPS record through UpdateHTTPSRecord of the four clients |
| `SigningKey` | GetOrCreateServerSigningKey under concurrent first use |
| `Console` | setup, users and sessions: requests, their goroutines, the periodic cleanup |
| `MC...` | the modules above for TLC: sets of constants and symmetry |
| `...Proofs` | theorems about the module they are named for; `AdminStoreProofs` about `Console` and `SigningKey` |

`EchRollout` EXTENDS `EchServer` and `EchAgent` and adds the messages. It
implements `TwoPhaseRollout` under the mapping *current* = what GetActiveECHKey
returns, *installed* = the nodes whose proxy has loaded that key, *published* =
the records (definition `ImplementsTwoPhase`).

The same code sometimes appears at two grains. A publication is one step of
`EchRollout` and the requests of its client in `HttpsRecord`; a change of the
address record is one step of `GroupMonitor` and the requests of its client in
`AddressRecord`; a task's cycle is one step of `MonitorTasks` and the module
`GroupMonitor`; a node's files of one cluster are in `EchAgent`, of several, with
the state file and the includes, in `EdgeNode`.

Definitions named `X_Something` next to a definition `X` ("Mutated form") are
plausible bugs of the code. Replacing `X` by one of them makes a property fail,
which shows that the property depends on that code; `PROJECT.json` says which.

## How the models correspond to the code

### Rotation and publication (`EchServer`, `EchAgent`, `EchRollout`)

**Keys.** A key is named by the version it is saved under; 0 is "none". Its
bytes, its signature and its checksum are not modelled: signatures are taken to
be right and every answer an agent acts on to be authentic.

**Server steps.** A step is one SQL statement or transaction, or one call of a
DNS provider. A rotating goroutine (`pc[r]`) goes `idle` (decides) ->
`increment` (version and time, statement one of IncrementClusterVersion) ->
`flag` (nodes OUTDATED) -> `reset` (domains PENDING) -> `save` (SaveNewECHKey)
-> `pending` (domains PENDING again, `last_synced_at` NULL). The statements of
`flag`, `reset` and `pending` may fail and are passed over, as the code ignores
their errors; a failing `increment` or `save` ends the rotation. The coordinator
continues `check` -> `list` -> `getkey` -> `publish`, where for each domain the
provider is called (`UpdateHTTPSRecord`, `UpdateFails`) and then the row is
written (`Mark`). `todo`, `marking`, `key`, `seenRot`, `ver` and `now` are its
locals. `seenRot` is `LastRotatedAt` of its copy of the cluster; after its own
rotation that still has its fraction of a second, which the column drops, and
is modelled as the next second. The reset of the domains, a loop over rows in
the code, is one step; with the one domain of the runs it is exact.

**Agent steps.** `Requested` and `Received` are the two reads of SyncNode (the
label and, later, the key), `Install` replaces the files, `Reload` makes the
proxy load them, `AckSent` is the acknowledgment with whatever the network makes
of it, `SaveState` the state file. A removal is `Remove`, `SaveRemoved`,
`ReloadRemoved`. A crash is possible between any two of them, and inside an
installation or a save. `loaded` is what the proxy serves; for nginx it is
exactly what `ech_includes.conf` names.

**Discarded errors of the agent.** Each has a step of its own, an event
`fileError`. A backup that is not made while the current key is replaced all the
same is `InstallUnbacked` (deployer.go:25-26); a SaveState that leaves the old
file or a truncated one is `SaveFails` and, after a removal, `SaveRemovedFails`
(syncer.go:279, the cycle goes on to the reload); a deletion that leaves files
behind is `RemoveFails` (deployer.go:46, acknowledged and forgotten); a state
file that cannot be read is an empty one (`PollFault`, `StateLost`). A damaged
key file counts as none. Three history variables record what the code cannot
know afterwards, and the properties name them: `unsaved`, a node whose entry
outlived the deletion of the files; `unbacked`, a node without a backup since its
last reload; `orphaned`, a node with files that no entry leads to.

**Environment constants.** They say what a run lets happen, and every one of
them but the bounds stands for an assumption on the deployment:

| constant | meaning |
|---|---|
| `EnvEvents`, `MaxEvents` | which faults and operator actions may happen, and how many in all: `dbError`, `dnsError`, `serverCrash`, `assign`, `reloadError`, `agentCrash`, `fileError`, `ackLost`, `ackLate` |
| `Admins` | concurrent rotate requests; each rotates again and again |
| `OverlappingRotations` | FALSE: a rotation falls due only after the last one was published (the default interval is a week, a cycle takes seconds) |
| `PollDuringRotation` | FALSE: no poll between the increment and the save of one rotation |
| `Ssh` | the nodes on the SSH transport |
| `MaxVersion`, `MaxTime` | bounds: rotations, seconds of the clock |

`PollDuringRotation = FALSE` and `Admins = {}` in the passing rollout runs are
not guaranteed by the code. The run `poll_inside_rotation` and
`RotationInsidePublication.cfg` show what happens without them.

### The edge node's files (`EdgeNode`)

`disk` is `agent_state.json`, or `Torn` after a SaveState that was cut off or failed;
`files` the two key files of each cluster's directory in both layouts (`id`, the
current one, and `name`, which MigrateLegacyClusterFolders moves); `includes` and
`loaded` what nginx would read and what the proxy serves. A cycle goes `Pull`,
migration, `Decide`, `RemoveLocally` per cluster, `DeployLocally`, `Reload`,
`SaveState`, `ReloadRemoved`; a failure leaves it where the code returns. The
commands are `ClusterRemove` (reads the state) -> `RemoveFiles` -> `RemoveEntry`
(writes back what it read, without the cluster) -> `CommandReload`, and
`ClusterPrune` -> `PruneDirs`. There is no lock, and none in the model. The
server's answer is one step; `Rotate` and `Assign` change what it is.

Every operation on a file may fail (event `fileError`), most of them in places
where the code drops the error: the read of the state file, the backup, the
rename of a migrated directory (state.go:95), a deletion, which may leave any of
the files (`Leftovers`), every SaveState, the one of `cluster remove` included
(cluster.go:188), and the includes. A deployment that fails may have damaged the
backup. The operator may interrupt a command between any two of its steps
(`CommandCut`). Merged: a crash or an interrupt in the middle of a deletion is one
after it or before it, a partial deletion being an event of its own; an empty
directory and a damaged key file count as none (nginx may refuse to reload with
the latter; the deployment is then tried again and repairs it).

Histories record the circumstances in which the code loses track; the properties
name them. `unsaved`: clusters whose removal has not got into the state file;
`mixed`: a command overlapped a cycle, could not read the state, or met the older
format (these two are shown to matter in `UpToDate.cfg`); `orphaned`: clusters
whose files may have outlived their entry; `unwritten`: the last write of the
includes failed or was cut off.

### One group's monitor (`GroupMonitor`, `RuleEngine`)

`rows` is `target_ips`, `checkStates` is `check_states`, `checks` and `rules` are
the tables of those names; `snap` is what the task has read; `zone` the record.
A cycle is `BeginCycle` (the reads at the top), `RunChecks` (probes, bypass,
thresholds, UpdateCheckState), `ReadZone` (the states again, ListRecords,
anomalies) and one step per address: `AddIPRecord`, `DeleteIPRecord`,
`ChangeFailed`, `NoteIP`, `ConfirmIP` or `NoteFailed`. Between any two of them users edit rows,
servers change, someone edits the record, the task is stopped or the server
restarts. Merged: the reads at the top of a cycle are one step, and so are the
parallel probes and the writes of their states; the order of the addresses is
arbitrary. A cancelled context fails all later calls, so cancellation is `Stop`,
or `CutChecks` when some of the states have been written.

The task discards the error of nearly every statement. An event `dbFault` is one
that fails: a state that cannot be read or written (`RunChecks`, monitor.go:159 and
:185), all states (`ReadZone`), the write of an anomaly, which the task's map
already takes for done (:252, :262), the read of the anomalies at a start
(`Start`, :29), a row's status (`NoteFailed`), the provider (`NoProvider`);
`provider` is a failing call. In one cycle one state is unread or unwritten per
event; more need more events. Histories say where that matters: `run` is the true
streak of each probe, `lost` the states that a result is missing from, `missed`
the addresses whose anomaly was not written or not read.

Counters stop at `MaxStreak`, which is at or above every threshold.
`ForeignKeys` is whether the schema's ON DELETE CASCADE is enforced. The
connection string asks for it (`repo.go:24`, `_foreign_keys=on`), in the form of
another driver than the one used (`modernc.org/sqlite`), and the only PRAGMA is on one
connection of a migration (`migrate.go:273-277`), so it may well not be. The
theorems hold for both values; the run takes TRUE, and passes with FALSE as well
(495k states).

An expression of `RuleEngine` is a record of the form that
RuleExpr.UnmarshalJSON accepts; `Evaluate` is a recursive function over the
nesting, unknown states included. The constant `Exprs` is the set of expressions it
is defined on, closed under subexpressions.

### Tasks (`MonitorTasks`)

`tasks` are goroutines, `activeTasks` the coordinator's map, `waiting` the tasks
whose `done` it waits for with the mutex held. A task reads its group at the top
of the loop, works, sleeps; the context is seen at the top and in the sleep. The
phase `lost` is a task that returned because the read failed: its entry stays.
Group ids are random and never used again.

### DNS clients (`DnsService`, `AddressRecord`, `HttpsRecord`)

One step is one request. It is done and answered, refused, lost, done with the
answer lost, or, for Technitium, refused behind HTTP 200. Cloudflare adds a record,
or looks its id up and deletes it; Technitium adds and deletes by value; deSEC
lists the set and puts the changed set back; the hook does one thing. Each client
reads the answer as the code does, including the checks it does not make: deSEC's
DeleteRecord ignores the status, AddRecord the error of its list, Technitium the
`status` field, Cloudflare the status of the list in UpdateHTTPSRecord. `wanted`
in `AddressRecord` stands for the decision `GroupMonitor` makes; `up` is what the
checks say, and `Flip` changes it. Two groups may name the same record; the code
does not forbid it, and each knows only its own addresses. That no address is in
two of the groups is an assumption (`AddressAssumption`): the schema is unique per
group only, and two groups with one address would undo each other for good.

For the apex of a zone (`apex`) deSEC's client asks for all record sets of the
zone and takes the addresses of other names (`Elsewhere`) for the apex's own:
`Listed` is what it sees, and what it puts back with its change. A list is a set
here; the same address listed twice, by two names, is sent twice.

`HttpsRecord` has the times as the code has them: `lastRot`, `domain.at` and
`call.at` are whole seconds of `clock`. A rotation notes its time (`NoteRotation`),
later writes it (`IncrementClusterVersion`), later saves its key
(`SaveNewECHKey`); a publication reads the key (`Publish`), then the clock
(`ReadTime`). Each of the three statements that reset or mark the domain may fail
unnoticed. `overtaken` is a history: a key was saved while a publication, or a mark
that stayed, had a time not before the rotation's, so that the comparison of
`Stale` cannot find the domain out of date. One rotation is under way at a time,
and the reads at the top of a publication are one step; `EchServer` has several
rotations and each read apart.

### Signing key and console

`SigningKey` has one step per statement of GetOrCreateServerSigningKey, each of
which may fail; the insert is the transaction with ON CONFLICT DO NOTHING.
`Console` has one step per statement of a request between which another may come:
CheckNoUser and CreateUser, Login and CreateSession, RequireAuth and the handler;
`jobs` are the goroutines a request leaves behind (the update of `last_active`,
the cleanup at login and in the list of sessions). Restart keeps the tables.
Logout discards the error of its DELETE and answers success; a session whose
deletion failed is not counted as ended.

## Runs

Passing, with the number of distinct states:

| run | instance | what it shows |
|---|---|---|
| `server` | 1 node, 1 domain, coordinator and 1 admin, 3 versions, 2 clock values, overlapping rotations, any 2 events; acknowledgments of any label at any time | `OneActiveKey`, `VersionsNotShared`, `PublishedKeyStored`, `KeyLifecycle`: rotations of two goroutines, cut off or failing anywhere, never share a version, and the table of keys stays in order. Three versions are needed for a key to go through all its states while two rotations are open; the keys do not depend on the number of nodes, so one is enough |
| `rollout_safety` (875k) | 2 nodes, 1 domain, 3 versions, 2 clock values, overlapping automatic rotations, any one fault | `ImplementsTwoPhase`; `SyncedIsCurrent`: a domain the coordinator passes over carries the ACTIVE key. One fault is enough for each kind of recovery to be taken, two nodes for one to lag behind |
| `rollout_recovery` (503k) | as above, rotations far apart, any two faults or changes of membership, lost and late acknowledgments and failing file operations among them; fairness | `InSyncServesKey`: a node that counts as in sync with, or reports, the current version serves its key; `AdvertisedKeyRetained` and `AdvertisedKeyKept`: server and nodes keep the key that is in DNS while the next is rolled out; `SyncedUnlessUnacknowledged`: every domain is synced in the end, unless an acknowledgment did not count; `NoKeysForgotten`: an entry leaves a node's state file only after its key files. Rotating twice needs three versions, a second fault may hit the recovery from the first |
| `monitor` (504k) | 2 addresses, a check and one to add, thresholds 1 and 2, TCP, UDP and HTTP, rules of each form, any 2 events; fairness of the task | `StatusAgrees`: the two columns of a row never contradict each other; `WithdrawalEarned`: without rules, an address noted as added is withdrawn only after a check really failed often enough, or a result was lost; `RecordConverges`, `AnomaliesConverge`: once things are left alone the record holds what the policy says, and what is there beside it is reported. Two addresses are what bypassing and the group-wide rules need; the second event hits the recovery from the first |
| `tasks` (90k) | 2 groups, 4 tasks, any 4 events; fairness | `OneTaskPerGroup`, `ShutdownIsClean`, `DisabledGroupStops`, `EnabledGroupMonitored`, `ShutdownCompletes`. Four events disable and enable both groups; tasks beyond the fourth behave like these. The system stops after its shutdown, so deadlock is not checked |
| `agent` (288k) | 2 clusters, 2 versions, nginx or hook, any 2 events among assign, rotate, failing reload and file operation, crash, remove, prune; fairness of agent and command | `EntryHasKeys`: an entry of the state file means the directory has that key; `AssignedServed`, `RemovedCleared`: assigned clusters come to be served, removed ones lose their keys; `IncludesRecover`: nginx's includes do not go on naming files that are gone. Two clusters let one fail while the other is handled |
| `addresses` (210k) | 2 tasks sharing a record, 3 addresses, one of them IPv6, each provider, a name below the zone and, for deSEC, its apex beside another name that has one of the addresses and a fourth, 4 changes of health, 3 faults; fairness of the tasks | `NothingElseRemoved`, `AddressesConverge`: an address leaves DNS only because its own task found it down, or by deSEC's replacing of sets; in the end the record is what the checks decided. One fault can be wasted on a list, one on a change, one on the repair |
| `https` (116k) | each provider, 3 keys, 3 seconds, 3 faults; fairness of the coordinator | `SyncedIsAdvertised`, `KeptAdvertised`, `HttpsConverges`. Three seconds put a rotation before, in and after the second of a publication; three faults can take both resets of a row and one request. A synced domain rests, so deadlock is not checked |
| `console` (313k) | 2 names, 2 sessions, 2 requests at a time, 2 lifetimes, 2 ticks; fairness of the periodic cleanup | `SignedOutStaysOut`, `SessionsKept`, `ExpiredDeleted`: one request can overtake another, and a goroutine both |
| `signing_key` (9k) | 3 callers, 3 pairs, 3 faults | `OneServerKey`, `KeyNeverReplaced`. Two racers and one who comes later; calls that would need a fourth pair stop, so deadlock is not checked |

Violated, each with a finding: `poll_inside_rotation` and `ssh_transport`, see below.

**Fairness.** Weak fairness of what a ticker or a loop of the code drives:
the coordinator's steps (every 15 seconds; a cycle always ends), each agent's
cycle, a monitor's cycle and start, the task coordinator (every 10 seconds), a
task's steps (its probes and calls have timeouts), the session cleanup (every two
minutes), a command that was started, and requests the server has already
received. Nothing is assumed of faults, operators, users, the clock or the due
time of rotations; that events are bounded (`MaxEvents`, `MaxFaults`, `MaxFlips`)
is what "faults stop eventually" means here. No symmetry is used in the runs with
fairness.

**Known limits**: what the code does not keep. Each is a hazard of `PROJECT.json`,
and each exemption is a named conjunct of its property, so that the property
shows nothing else goes wrong.

| property | exempt, or outside the run | why |
|---|---|---|
| `InSyncServesKey` | a node in `unsaved` that reports a version | its files are deleted, its entry is not: assigned again at that version it is answered UP_TO_DATE without a key |
| | a late acknowledgment that reaches the row of a new assignment (more events than `rollout_recovery` has) | AckNode does not tell assignments apart |
| `SyncedIsCurrent` | an admin rotation between the coordinator's read of the key and its SYNCED mark | the mark is not before the rotation |
| `SyncedIsAdvertised`, `HttpsConverges` | `overtaken`: that rotation, in the same second or noted before it | last_synced_at and last_rotated_at are whole seconds |
| `HttpsConverges` | the second record a refused list makes Cloudflare create | nobody deletes it |
| `KeptAdvertised` | Technitium's own deletion | delete, then add |
| `AdvertisedKeyRetained` | two rotations before the first is published | the store keeps two keys |
| `AdvertisedKeyKept` | a node that deployed the same key twice (`cur = prev`) | DeployLocally copies it over its predecessor |
| | a node in `unbacked` | the error of the backup is discarded, or the node deleted its keys |
| `NoKeysForgotten`, `RemovedCleared` | `orphaned` | no deletion is repeated, and the answer is compared with entries only |
| `SyncedUnlessUnacknowledged` | `Unacknowledged` | no acknowledgment is repeated |
| `EntryHasKeys`, `AssignedServed` | `unsaved`, `mixed` | see `UpToDate.cfg` |
| `IncludesRecover` | `unwritten`; `orphaned`, and `unsaved` clusters assigned again | nothing regenerates the includes while there is nothing to deploy or to remove |
| `WithdrawalEarned` | `lost`, until the probe passes and the state is not DOWN | with the write of a success lost, the failures on both sides of it are counted as one streak |
| `AnomaliesConverge` | `missed` | neither a write nor the read at the start is repeated |
| `EnabledGroupMonitored` | a task lost to a failed read | see `TaskLost.cfg` |
| `NothingElseRemoved` | deSEC's putting back of a list without the address | it can only replace sets |
| `AddressesConverge` | `Mixed`: a deSEC record of both IPv4 and IPv6 | every set it is sent is refused |
| | the addresses of other names at a deSEC apex, and all of it while one of them is down in a group (`DeletedInVain`) | the client puts them into the set and cannot take them out; see `Apex.cfg` |
| `OneServerKey` | a caller whose re-read failed | see `CallersDisagree.cfg` |

Discarded errors outside these: the rows of logs (`AddECHLog`, `AddCheckLog`),
notifications and the update of `last_active` decide nothing that is modelled.

## Where code and documents disagree

Two of the disagreements are runs that TLC finds violated, with one property and
only the circumstance that matters. The others are kept as configurations of the
same modules that reproduce them (`tlc -config X.cfg M`). `PROJECT.json` quotes
the lines.

| configuration | module | property | what happens |
|---|---|---|---|
| run `poll_inside_rotation` | `MCEchRollout` | `NoEarlyPublication` | a node that polls after IncrementClusterVersion and before SaveNewECHKey gets the old key labelled with the new version and is never sent the new one, which is then published |
| run `ssh_transport` | `MCEchRollout` | `EventuallySynced` | commands quoted with `%q` are split with `strings.Fields` and decoded without unquoting, so an SSH node's acknowledgments vanish |
| `RotationInsidePublication.cfg` | `MCEchRollout` | `NoEarlyPublication` | GetActiveECHKey in syncClusterDomainsDNS is not tied to the version AreAllNodesInSync was asked about |
| `RepeatedDeployment.cfg` | `MCEchRollout` | `AdvertisedKeyAlwaysServed` | DeployLocally makes `ech_previous.pem` a copy of the key being deployed when it deploys that key a second time |
| `LostAck.cfg` | `MCEchRollout` | `EventuallySynced` | an acknowledgment is sent once and its error ignored |
| `SafeDefault.cfg` | `MCGroupMonitor` | `SafeDefaultPolicy` | an address that is in the record before its row is inserted is withdrawn in the first cycle, though no check is DOWN |
| `OutageIgnored.cfg` | `MCGroupMonitor` | `OutageIgnored` | a bypassed failure counts as a success and makes an address that is DOWN UP |
| `TaskLost.cfg` | `MCMonitorTasks` | `ExitsOnlyWhenGone` | a failed read ends a group's task as if the group were gone, and none is started in its place |
| `Apex.cfg` | `MCAddressRecord` | `OnlyOwnAddresses` | the record of a deSEC zone's own name is given the addresses of the other names of the zone |
| `UpToDate.cfg` | `MCEdgeNode` | `UpToDateHasKeys` | an entry that outlived its files makes the agent call a cluster without key up to date |
| `TwoRecords.cfg` | `MCHttpsRecord` | `OnlyActiveKey` | after a refused list the Cloudflare client creates a second HTTPS record |
| `CallersDisagree.cfg` | `MCSigningKey` | `EveryCallerAgrees` | a caller whose re-read fails returns a pair that is not the stored one |

Further findings have no configuration of their own: they are exemptions named in
properties (deSEC's AddRecord after a failed list, its DeleteRecord that ignores
the status, Technitium's errors behind HTTP 200 and its delete before add), or
outside the models (the "when it went down" of a recovery, and the setup token
that two requests can both use).

## Proofs

All for any values of the constants, under the named assumptions of the modules
(bounds are naturals, the coordinator is not an admin request, and the like).

`EchServerProofs` proves that `ServerSpec` implies always `TypeOK`,
`OneActiveKey`, `VersionsNotShared` and `PublishedKeyStored`, and `KeyLifecycle`.
The argument is one inductive invariant, `ServerInv`. A rotation takes version
`curVer + 1`, which no key has because of `KeysGivenOut` (no key is stored above
`curVer`) and no other rotation has because all hold at most `curVer`. So two
open rotations differ in their version and each saves into an empty row
(`KeysIncrement`, `KeysSave`). `SavedTable` says what the transaction does to
every row, from which one ACTIVE and one PREVIOUS key and the life cycle follow.
Types need this too: that the largest ACTIVE version is a version at all follows
from there being at most one (`ActiveKeyType`). What is in DNS stays stored
because stored keys never disappear (`LifecycleStep`).

`MonitorTasksProofs` proves `OneTaskPerGroup` and `ShutdownIsClean`. That two live
tasks have different groups is not inductive: the coordinator starts a task for a
group without an entry, so one must know that every live task is its group's
entry, or is waited for once the shutdown has emptied the map (`Known`); that an
entry is a task of its group (`OwnEntry`); that ids not yet given out were never
started (`Unstarted`); and that the tasks waited for are done after `stopped`
(`StopEnded`).

`HttpsRecordProofs` proves `SyncedIsAdvertised` and `KeptAdvertised`. The
strengthening: a call is under way only for a domain that would not be passed
over (`CallIsNeeded`), so that no request of it can take an advertised key away from a
domain at rest; a call for a key that is not the active one any more carries a
time before the rotation's, unless it was overtaken, so that its mark will be found
stale (`CallIsCurrent`); a call about to mark SYNCED has its key in the records
(`CallHasWritten`); and a rotation finds a version left (`KeyLeft`). That no
rotation's time is ahead of the clock is part of the first.

`AdminStoreProofs` proves `OneServerKey` and `KeyNeverReplaced` of `SigningKey`. The strengthening:
the two rows are halves of one pair, or both are missing (`OnePair`); a
public key that a caller has read is still the stored one (`ReadIsRow`), because
stored rows never change; and a caller that inserts has generated a pair
(`InsertsItsOwn`).

It also proves `ConsoleTypeOK`, `SignedOutStaysOut` and `SessionsKept` of `Console`.
Inductive is that an ended session has no row, that a row is of an id given out
before, so that a new session never takes the id of an ended one, and that a
request past its read holds what was in a row (`RowsTyped`, `RequestsTyped`). A
goroutine that updates `last_active` late finds a row or does nothing, so it
brings none back.

`AddressRecordProofs` proves `AddressTypeOK` and `NothingElseRemoved`. A call takes
several requests, and what the last one deletes was decided before the first. So
it must be known of every call under way that its address is still to be handled
and, if it is to be deleted, that the cycle saw it in DNS and did not want it
there (`TasksDecided`); requests of other tasks cannot change either. It covers
the apex, where the lists hold other names' addresses too.

### The whole rollout (`EchRolloutProofs`)

Without any hypothesis: the types (`RolloutTypeCorrect`) and the server's
invariant, which every step of a node preserves because all it can write of the
server's is its own row (`NodeSideFrame`). The properties of server and
agents together need conditions the code does not enforce. They are hypotheses on
the environment constants, defined in the module and repeated in each theorem:

| hypothesis | means | needed because |
|---|---|---|
| `OneRotator` | no admin request rotates | two rotations save in any order |
| `PollsWait` | no poll between the increment of the version and the save of its key | run `poll_inside_rotation` |
| `~OverlappingRotations` | a rotation falls due after the last was published | the store keeps two keys |
| `MembersStay` | assignments do not change | the coordinator does not look again for a node assigned after its check; for `InSyncServesKey` see the next row |
| `AcksOnTime` | no acknowledgment arrives after a later step of its node | with a reassignment it reaches the new row: TLC refutes `InSyncServesKey` with `assign`, `ackLate` and three events |
| `OneMarkLost` | at most one ignored error of the database | ResetDomains and MarkPending both lost in the second of a publication leave its mark standing: TLC refutes `SyncedIsCurrent` with two |

| theorem | property | hypotheses |
|---|---|---|
| `InSyncNodesServe` | `InSyncServesKey` | `OneRotator`, `PollsWait`, and `MembersStay` or `AcksOnTime` |
| `AdvertisedRetained` | `AdvertisedKeyRetained` | `OneRotator`, `~OverlappingRotations` |
| `AdvertisedKept` | `AdvertisedKeyKept` | the same |
| `KeysNotForgotten` | `NoKeysForgotten` | none |
| `SyncedCurrent` | `SyncedIsCurrent` | `OneRotator`, `OneMarkLost` |
| `RolloutImplementsTwoPhase` | `ImplementsTwoPhase` | `OneRotator`, `PollsWait`, `MembersStay` |
| `PublicationWaits` | `NoEarlyPublication` | the same |
| `NewestKeyAlwaysServed` | `NewestKeyServed` of `TwoPhaseRollout` | the same |

The passing rollout runs satisfy `OneRotator` and `PollsWait`. The events they
allow are bounded, where the theorems allow any number.

The invariants, each inductive together with the ones before it that it needs:

- `OrderInv`: the newest stored key is the ACTIVE one, and the coordinator's
  copies of version and key are current.
- `BeliefInv`: no version the server, a node or a message holds is ahead of the
  last one whose key is stored; a deployment labelled with the current version is of
  the ACTIVE key; and whoever is said to have the current version serves that key,
  or is a node whose removal has not been saved.
- `RetentionInv`: from the time a rotation falls due until its key is stored,
  every record that stands carries the ACTIVE key.
- `FilesInv`, `DiskInv`: keys reach a node in the order of their versions, and an
  advertised key that a node serves is in one of its two files, or the node has
  no backup (`unbacked`).
- `MemoryInv`: a node that has an entry and deploys a key does so with a version other
  than 0, so that its save does not drop the entry; and a removal about to save
  the state has no files left, or the node is `orphaned`.
- `MarksInv`: a SYNCED mark as new as the rotation belongs to a record with the
  ACTIVE key, except between the save of a key and the statement that resets the
  marks, where none is fresh unless the other reset was lost.
- `PhasesInv`: while the coordinator publishes, every node serves the ACTIVE key.

The refinement follows
step by step: `SaveNewECHKey` is `NewKey`, the reload of a node `InstallOn`, a
provider's call `Publish`, everything else stutters (`PhasesRefined`). That the
phases are enough is proved of `TwoPhaseRollout` alone, from its steps and that no
record carries a key newer than the newest (`TwoPhasesServe`); with the
refinement, no record of the detailed rollout carries the ACTIVE key before every
node serves it.

### One group's monitor (`GroupMonitorProofs`)

`MonitorTypeOK`, `StatusAgrees` and `WithdrawalEarned`, with no hypotheses beyond
the assumptions on the constants: any addresses, checks, rules and thresholds.
`WithdrawalEarned` compares what the task decides with the true streak of the
probes, but the counters it decides by survive edits of thresholds, restarts and
unreadable states. Inductive is `CountsEarned`: the failures counted are no more
than there were in a row; a state that is DOWN was condemned by such a streak;
and when its probe has passed since, no success is missing from the count, so
that it leaves DOWN by the time the streak asks for it. A state in the copy
that a cycle decides by is DOWN only if it was condemned (`SnapEarned`), and with enforced
foreign keys a state belongs to a row and a check that exist (`StatesOwned`).
`CountsEarned` says nothing of a state in `lost`: a result is missing from it, and it says
something again once the probe passes and leaves it not DOWN, because then it
counts no failure.

### The edge node's files (`EdgeNodeProofs`)

`EdgeTypeOK`, `EntryHasKeys` and, for the counterexample of `UpToDate.cfg`, that
removals that were not saved, whether cut off or failed, and commands that overlapped a
cycle, could not read the state or met the older format are the only ways to it
(`UpToDateMeansKeys`). `EntryHasKeys` speaks of moments between cycles only. Through a cycle
it is carried by what each step leaves true: neither the state file nor the copy in memory
names a key the directories lack (`DiskHasKeys`, `MemoryHasKeys`), where a key of the
older layout counts only while nothing is under the id, because the migration
does not overwrite, and stays where it is when a rename fails; the keys of the answer are not older than either
(`AnswerIsNewer`, from no version being ahead of the server, `VersionsKnown`), so
that a deployment never takes away a key that is still named; and a command that has met
no cycle works on the state file as it is (`CommandAlone`).

### Only model-checked

No safety property of a passing run. All liveness, for fairness and ENABLED are
beyond the prover: `SyncedUnlessUnacknowledged`, `RecordConverges`, `AnomaliesConverge`, `DisabledGroupStops`,
`EnabledGroupMonitored`, `ShutdownCompletes`, `AssignedServed`, `RemovedCleared`,
`IncludesRecover`, `AddressesConverge`, `HttpsConverges`, `ExpiredDeleted`. What
`Evaluate` computes for every nesting would take induction over expressions, which
the installed provers cannot do; no theorem depends on it, since `StatusAgrees` and
`WithdrawalEarned` hold whatever the rules answer.

## Plan

Left, in this order:

1. Creating, editing and deleting clusters, domains and nodes during a
   coordinator cycle (`ech_admin.go`).
2. UpdateGroup: a group whose record or provider is edited during a cycle.
3. Several clusters in one coordinator cycle; the agent's replay check.

## What is not modelled

Cryptography and key generation, authentication and signatures, passwords and
cookies, the proxies' own behaviour, the network below a request, logs, the text
and delivery of notifications, migrations, flags, and the frontend: I/O or data
without a protocol of its own. The admin handlers that only insert or delete one
row of the ECH tables, UpdateGroup and the test endpoints are in the plan.
