# HYDRA: a TLA+ model of the control plane

HYDRA runs a VPN/proxy server: it keeps a *desired state* in one JSON document,
applies it to a host (sing-box, Caddy L4, nftables, protocol plugins), bills
traffic to users, limits their devices and cuts off those over their quota.
This directory models the parts where that goes wrong in ways a unit test
hardly reaches: several processes sharing the document, saves and applies that
fail half-way or are killed, stale copies, rollbacks of which a step fails, and
work that must eventually happen.

Contents: [1 The system](#1-the-system) · [2 Modules](#2-modules-and-the-code) ·
[3 Runs](#3-runs) · [4 Proofs](#4-proofs) · [5 Divergences](#5-where-the-code-and-its-documents-disagree) ·
[6 Not modelled](#6-what-is-not-modelled) · [7 Plan](#7-plan)

Sources are named relative to `src/hydra/`.

## 1 The system

### Components, their state and their operations

| Component | State it keeps | Operations | What makes it correct |
|---|---|---|---|
| **Desired-state store** `core/state.py`, `core/state_runtime.py` | `state.json`, `state.json.bak`, an `AppState` in each process | `load_state`, `save_state`, `update_state`, `restore_desired_state` | nobody overwrites a change they have not read; counters and bindings are never rolled back by a stale copy; the backup is close to the primary |
| **State files** `_save_state_unlocked` | the two files, a pending copy, a temporary file, `state.lock` | copy, rename, write, fsync, rename, fsync of the directory | whole files at every moment; a returned save is durable |
| **Apply pipeline** `services/orchestration_service.py`, `services/configuration.py`, `core/apply_transaction.py`, `plugins/executor.py` | `apply.lock`, registered rollbacks, the host | `apply_config`: ten stages, `fail`, rollback, restore | success means the whole host runs the stored configuration; failure undoes what was registered |
| **SNI router** `core/sni_router_*.py` | Caddy configuration, unit, port 443 | `rebuild`, `stop`, `snapshot_runtime`, restore | one owner of port 443, the one the configuration names, also after a reboot |
| **Traffic daemon** `services/traffic_daemon.py`, `traffic_accounting.py` | per-connection records, user counters | one poll every two seconds | every byte of a known user is billed once |
| **Device sessions** `services/device_sessions.py` | addresses of each user with first and last sight | `update_sessions`, `connections_to_close` | only users above the limit lose connections, and the device that came first stays |
| **Sync agent** `services/sync_cycle.py` | `sync_config_pending` and its source, `sync-agent.lock` | limits, maintenance, certificates, apply | a user over the limit is cut off in the end; no block is forgotten |
| **User and plugin lifecycle** `services/user_lifecycle.py`, `plugin_lifecycle.py`, `core/transaction_helpers.py` | registered undo actions, the session's `AppState` | add, remove, block, unblock, rename, set_protocol_enabled; install, uninstall, reinstall, enable, disable, activate_plugin | all or nothing: state, plugins and host together |
| **Subscription server** `services/subscriptions/` | device bindings in the state | register a device, generate configurations | the limit holds, a known client is never refused |
| **Kernel switch** `services/kernel.py` | the sing-box binary, `state.kernel` | switch, prepare, commit, roll back | the binary is the one the state names |
| **Calls and creators** `services/calls*.py`, `headless_creator_pool_*.py` | `state.json` of the pool, creator units of generations a and b, call files, the staged generation in memory | enable, reinstall, rotate, replace a slot, health, disable, uninstall | the old pool serves until the new one is committed; a pool heals by itself; no unit is forgotten |
| **qWDTT** `qwdtt_creator.py`, `creator_sessions.py` | a second pool of the same kind | create rooms, roll back | as above |
| **AntiDPI** `plugins/antidpi/` | `antidpi.json`, `antidpi.lock`, ipset, DROP rule | observe, ban, unban, trust, reconcile | record and ipset agree; an administrator's ban lasts; stored bans are enforced |
| **ipban, fail2ban, honeypot** `plugins/` | external services and sets | ban, unban, list | thin managers |
| **Upgrade** `upgrade.sh` | release directories, the link `/opt/hydra`, the wrapper, a copy of the state, six flags | prepare, stop, copy, migrate, cut over, start, check, roll back, prune | everything or nothing; old code never meets migrated state; stopped services return; the oneshot jobs it leaves alone do no harm |
| **Backup** `core/backup.py` | archives | create, restore | an interrupted restore leaves an installation that works |
| **TUI, CLI, Telegram** `ui/`, `cli*.py`, `services/telegram/` | a long-lived `AppState` | menus that edit, save and apply | they are the sessions of the store |

### How they interact

    TUI  Telegram  CLI            traffic daemon   subscription server   sync agent
      \     |      /                     \                |                /
       load / edit / save                 `-------- update_state ---------'
              \                                   |
               `---------> state.json  <----------'          (state.lock: flock)
                               |
                         apply_config                         (apply.lock: try-lock)
                               |
        sing-box config -> nftables -> frontend -> plugins -> reload -> accounting -> health -> save

Every shared datum is in the state document. A *session* (menu, bot, command)
loads it once and saves it minutes later; a *background writer* loads, changes
and saves it under one lock. Everything that reaches the host goes through
`apply_config`, which one process at a time runs.

### What is hard

* **Stale copies.** Sessions save what they loaded long ago. The store refuses
  that by comparing revisions, merges counters, and has three ways around the
  comparison: a failed save, a plugin command's rollback, and a fallback to the
  backup.
* **Crashes between steps.** A save has eight file operations, an apply ten
  stages, a sync cycle five; nothing is logged ahead, so the next run must make
  do with what it finds.
* **Partial failure.** Rollback callbacks fail too, two services want port 443, and
  some commands fail without anybody looking.
* **Order.** The journal names a connection's user after its first bytes; a
  quota is reset while connections live; counters restart under the same id.
* **Liveness.** A block is written in one update, applied in another step and
  its flag cleared in a third, with conflicts, kills and failures in between.
  The pools of Calls and the bans of AntiDPI rely on a timer to be repaired.
* **Rollbacks that fail.** An undo is a second operation over the same parts,
  with faults of its own, and the next operation starts from what it left.

`PROJECT.json` lists these hazards one by one at their lines.

## 2 Modules and the code

### StateStore (`StateStore.tla`)

One step per operation under `state.lock`. `primary` and `backup` are the files,
`mem[s]` the `AppState` of session `s`, `resets[s]` the private
`_device_binding_resets` of its copy, `snapshot[s]` the copy a plugin command
took. A document is the revision, an abstract configuration, the users, their
counters, device bindings and the users whose quota was reset.

| Action | Code |
|---|---|
| `LoadState`, `Exit`, `EditConfig`, `AddUser`, `RemoveUser`, `ResetDevices` | a session's life: `load_state`, menu edits, `UserLifecycle.add` and `remove` |
| `SaveState` | `save_state`: merge, compare, number, write; or `SaveRejected`, `SaveFails`, `SaveCrashes`, `SaveUnreadable` |
| `BeginCommand`, `CommandSucceeds`, `RollBackCommand` | `PluginCommandService.execute`, `restore_desired_state` |
| `CountTraffic`, `ResetTraffic`, `RegisterDevice`, `UpdateConfig` | `update_state` by the traffic daemon, the quota reset, the subscription server and the sync agent |
| `Damage` | something outside cuts `state.json` short |

Four history variables are not in the code. `edition` numbers the writes of
desired state: it is what "the change I have read" means. `adrift` holds the
sessions whose revision was raised in memory by a save that failed, or that saw
the store fall back to its backup; the properties that hold are about the other
sessions, and section 5 says what an adrift session can do. `issued`
says that a user created again has a new uuid. `disowned` holds the users whose
record was lost: removed from the file, or on record when the file was damaged. A
session adrift or a rollback may put such a user back, with the counters of its copy.

`merge_runtime_state` is `Merge`, `_desired_payload` is `Desired`. The choice
between a save's two atomic effects (`WriteFiles`, `Interrupted`) is justified by
the next module.

### StateFiles (`StateFiles.tla`) implements AtomicFiles (`AtomicFiles.tla`)

The body of `_save_state_unlocked` operation by operation. A file is its content
and an identity, so that a rename and an in-place write differ and an `fsync`
belongs to one file. `onDisk` and `journal` say what a power loss leaves: data
that was not fsynced may be torn or empty, and renames persist in order from the
front (the promise of a journalling file system; the weakest one under which
the code's sequence makes sense). `Fail` runs the `finally` clauses, `Kill` does
not. The refinement mapping shows the abstract module the files as the *next
holder of the lock* sees them: while the lock is held, what its holder found.

### ApplyPipeline (`ApplyPipeline.tla`)

`stage` is where the holder of `apply.lock` is. Every stage of
`ConfigurationApplier.apply` has its success, its failure (`Fail`, which starts
the rollback) and the exceptions that pass `fail` by and reach
`OrchestrationService.apply_config`. `undo` is the set of registered rollback
actions with their priorities; `RollBackOne` runs the one with the lowest number,
and a callback that fails is noted in `lost` and passed over, as the code does.
`host` is what can be observed: the configuration each file and each service
carries, whether the frontend is enabled at boot, the plugins. Port 443 is
explicit (`SingboxCanBind`, `FrontendCanBind`): a service that cannot bind is
`"failed"` and `SystemdRetries` starts it again when the port is free. Other
processes load, edit and save at any moment; `Kill` ends the holder at any stage.
`Tproxy` and `Accounted` are the configurations that need nftables rules and the
traffic daemon, whose unit file and process are `host.unit` and `host.daemon`.
`SetFlag` is the two one-time changes the pipeline makes to the desired state, each
behind its guard and with its save.

Four commands of an apply fail without a trace: `stop` and `disable` of Caddy
(`StopFrontend`), `enable` of Caddy (`RebuildFrontend`), the deletion of the nftables
table (`ApplyNft`) and the stop of the traffic daemon (`StopDaemon`). `ignored` is
history: which of them had no effect the last time they ran. `CommittedEverywhere`
excepts what such a command left and nothing else, and only as long as no later
apply has carried the command out.

### TrafficPoll (`TrafficPoll.tla`)

`Fetch` takes the connections of sing-box outside the lock; `Account` is the
`update_state(account)` of `run_daemon`: `Recorded` rewrites the connection
records (a function whose `place` is the order of the code's dictionary, which
decides between devices first seen together), `Billed` adds their `Delta` to the users, `Session` merges
device sessions, `ToClose` closes connections before the save, which may then
fail; any of the DELETE requests may fail too, and the connection lives on. The environment opens, closes and restarts counters of connections; the
journal names a connection's user at a poll or not. `carried` and `settled` are
history: the bytes really carried, and those billed in earlier quota periods.
`forgotten` is history too: users with an open connection that the API left out of
so many answers that its record was dropped (see section 5).

### SyncCycle (`SyncCycle.tla`)

`phase` walks through `run_sync_cycle`; `copy` is its `AppState`. Each phase that
calls `update_state` is one step, the apply another, and clearing the flag a
third, so that an operator's `block`, `unblock`, settings and quota changes can
fall between any two. `apply_config` is here atomic (`Applies`, `ApplyFails`):
that it either carries everything or undoes it is what ApplyPipeline checks.
`waived` is history: blocks on disk nobody owes an apply (see section 5).

### Lifecycle (`Lifecycle.tla`)

An operation is a `Frame` on `stack`: the steps it has left (`Steps`, one operator
per operation of the code), the undo actions registered so far with their
priorities, and its snapshot. `StepSucceeds` and `StepFails` run the head of the
list: a hook of a plugin, an edit of the session's copy, a save, an apply. An
undo is registered before its step (`Prepared`) or once it succeeded
(`Followed`), exactly where the code has its `add_rollback`. `CallOperation`
pushes the operation that `reinstall` or `activate_plugin` calls; `Return`
commits it, or turns its caller round. A failed frame runs `UndoSucceeds` and
`UndoFails` in order of priority. The host is three sets: `software` (what is
installed), `runtime` (whose `on_enable` is in effect), `served` (what the running
configuration serves, the result of an apply that is here atomic). A hook that
fails may have done its work. `spoiled` is history: a rollback action failed, or
could not have been exact (see section 5).

### UpgradeRelease (`UpgradeRelease.tla`)

`upgrade.sh` command by command: `pc` is the next one, `flags` the six shell
variables the trap reads, `code`, `aside` and `wrapper` what the link, the
directory moved away and the wrapper name, `state` and `copy` the state directory
and the copy beside it, `running` the release each unit was started from.
`Fails` is the `ERR` trap or a signal at any command, `Halfway` the commands that
leave half their work, `Killed` a SIGKILL; `UndoStop` to `Finish` is `rollback`,
whose own commands may be refused. `Tidy` is `cleanup_transient_paths`, which runs
before the traps are removed, `Prune` what comes after. A second run starts from
whatever the first one left.

`capture_active_units` leaves out a oneshot without `RemainAfterExit`
(`hydra-sync-agent.service`, the refresh of the VLESS CDN site), so no run stops one
or starts one. `Oneshots` are these units, `Timer` names the timer of each.
`TimerFires` and `JobEnds` are theirs, at any moment of a run: a job runs the code
/opt/hydra leads to when it begins, and keeps it. `Up` is the other units that run,
`Jobs` the oneshots under way. `Save` is a save by a running unit or job with its own
code, or by the operator between two runs; code older than the state is refused
(`UnsupportedStateVersion`), and a save writes the writer's format.

Three histories: `stray` holds the jobs that were under way when the units were stopped
and have not ended since. `was.late` says that a signal fell among the assignments that
clear the flags, `was.newer` that code newer than the state saved it. `Excused` is
either of the two (section 5).

### CallsPool (`CallsPool.tla`)

A unit is a generation and a slot. `pool` is the pool's `state.json`, `room` the
call files with what the probes know, `up` the running units, `stage[p]` the
`_pool_stage` of a process (the menu keeps its object between operations, the
health job does not), `op` the operation that holds the lease. `Transition` is
`run_native_transition` around `refresh_creator_pool`, `commit_pool`,
`finalize_creator_pool` and `rollback_creator_pool`; `Replacement` is one slot;
`Removal` is disable and uninstall. `Rotate`, `Probe` and `Decide` are `run_health`,
which gives the lease back between its verdict (`decision`) and what follows.
`trouble` is history: commands of an undo that failed, and kills.

### AntiDpi (`AntiDpi.tla`)

`task[p]` is what a process does: its next step, the addresses still to be
handled, and the copies it holds. `Intend` and `Enforce` are the two halves of a
ban under one lock, `UnbanEntry` and `UnbanRecord` those of an unban, in the
opposite order. `Fence`, `Release`, `CheckReleased`, `Restore`, `RestoreEntry` and
`RestoreEnds` are `reconcile_enforcement`; `Trust`, `Distrust` and `Commit` are
commands of an operator, whose `Commit` may find that the desired state has moved
and roll back. `Reboot` empties ipset and iptables. `rewritten` is history: the
addresses whose ban the rollback of another command changed.

### How they fit together

StateFiles shows that a save is atomic to the next holder of the lock; StateStore
uses saves as atomic steps; ApplyPipeline uses `save_state` of StateStore without
counters and files; SyncCycle and Lifecycle use `save_state` and an atomic
`apply_config`; AntiDpi has of the desired state only that a command's save may
conflict, CallsPool that its apply may fail. Only the first of these is a checked
refinement; the others are stated by using the same definitions (`SameDesired`,
`Conflicts`, the numbering). UpgradeRelease treats the document as a format and a
number of edits.

## 3 Runs

| Run | Properties | Bounds | Distinct states |
|---|---|---|---|
| `store` | `TypeOK` `RevisionNamesContent` `BackupOneBehind` `NoLostUpdate` `RevisionCountsChanges` | 2 sessions (one runs commands), 2 configurations, 3 writes of desired state, 1 failed save, 1 damage | 79 330 |
| `runtime` | `CountersOwnedByWriters` `BindingsSurviveStaleSaves` | 2 sessions (one runs commands), 1 user, 1 device, 1 count, 1 failed save | 407 233 |
| `files` | `TypeOK` `PrimaryNeverTorn` `ReturnedSaveSurvives` `BackupWholeWithoutOutage` `SavesAreAtomic` | 2 processes, 4 saves, 2 failures or kills, 2 power losses | 83 484 |
| `apply` | `PipelineTypeOK` `CommittedEverywhere` `FailedApplyRestores` | 2 processes, 3 configurations (one routes with nftables, two have a traffic daemon), 2 plugins, 2 edits, 2 applies, 2 faults | 2 698 624 |
| `billing` | `TypeOK` `NeverOverbilled` `AttributedBytesBilled` | 1 user, 2 connections, 3 bytes, 2 empty answers, 1 restart, 1 failed save, 4 ticks | 803 700 |
| `devices` | `WithinLimitUntouched` `RankSurvivesReconnect` | 1 user with a limit of 1, 3 addresses, 3 connections, 1 failure, 5 ticks | 139 801 |
| `sync` | `TypeOK` `BlocksAreOwed` `AutomaticBlocksStay` `OverLimitIsCut` | 1 user, 2 operations of the operator, 1 job, 1 day, 2 faults | 912 037 |
| `lifecycle` | `Agreement` `CredentialsReady` `FailureRestores` | 2 plugins, one of which needs a domain, 1 user, 2 operations (nested ones extra), 1 foreign save, 1 fault, every consistent initial state | 4 606 179 |
| `upgrade` | `AllOrNothing` `OldCodeNeverMeetsNewState` `StateKept` `ServicesReturn` | a daemon, a timer and its oneshot job, 2 runs, 1 release kept, 3 faults (signals, refusals, kills), 1 save | 498 775 |
| `calls` | `PreviousPoolStands` `SuccessMeansWhole` `NoRoomLeaks` `PoolHeals` `DeadRoomsGo` | 2 slots, menu and health job, 2 operations, 3 faults, 1 dead room | 310 174 |
| `antidpi` | `NoOrphans` `PermanentStands` `BansEnforced` `TrustedReleased` | 2 addresses (one held by Honeypot), collector and 1 operator, 2 commands, 2 faults, 1 conflict | 279 959 |
| `calls_rollback` | `FailureReturnsPool`, violated | as `calls`, 1 fault | |

Why the bounds are enough. The properties of the store compare one copy with
what is stored: two sessions and the background writers give every pairing of a
stale and a fresh copy, and three writes of desired state make a copy two
editions old. A counter is only ever compared with another one: zero and one are
enough to be ahead, behind or reset. An apply never looks at a third process. The three
configurations are the three ways of owning port 443, so two applies go through
every transition between them and from one that was killed; a table and a daemon are
needed in one of the two and not in the other. Two faults make
a stage fail and a rollback callback fail after it, or two unlooked-at commands. In a poll, users interact
only through the daemon's dictionary of connections; two connections let one be
aged out while the other lives, and three addresses exceed the cap of two
remembered sessions. A second user of SyncCycle would interact only through the
revision, which the operator's settings move as well. `Window`, `TTL` and
`MaxSessions` are constants of the code (5 polls, 600 seconds, 32 addresses) made
small, so that their limits are reached.

A lifecycle operation sees others only through what they leave, so two of them
in a row from every consistent state give each pair, and one fault falls on every
step and every undo. An upgrade needs three faults: a signal, a refused command
of the rollback, and a kill that a second run meets. A daemon and a job with its timer
are the kinds of unit the script tells apart, and one save is enough to tell a state
from a copy made before it. Two slots are the smallest
pool in which one room is replaced and the other stays. In `antidpi` an operator
beside the collector gives every interleaving of a command with a
reconciliation; a second operator meets the first only through the lock and the
record, as the collector does.

Each module states its type invariant. The runs `devices`, `lifecycle`, `upgrade`,
`calls` and `antidpi` check deeper properties and leave it out of their
configurations; `billing` checks that of TrafficPoll.

`CHECK_DEADLOCK FALSE` is set where a run stops once the counters that bound it
are used up. In `sync` and `antidpi` the timer can always start another round, so
deadlock is checked there.

**Fairness** is assumed in four runs. In all of them nothing is fair about faults,
kills, conflicts, dead rooms or the commands of an operator; they are bounded.

* `sync`: `WF(StartCycle(FALSE))`, since the timer unit has `OnCalendar=*:0/5` and
  `Persistent=true`; `WF(CycleStep)` and `WF(OperatorStep)`, since a process that
  is not killed goes on.
* `upgrade`: a script that runs goes on (`WF(Upgrade /\ pc # "idle")`,
  `WF(Rollback)`); nobody is obliged to start one.
* `calls`: an operation that runs goes on; the health timer calls `run_health`
  again and again, which rotates a pool that is not whole and probes the slots.
* `antidpi`: systemd starts the collector (`Restart=on-failure`); a process goes on and
  the kernel gives the lock to one that waits for it (`SF(Step(p))`); the loop of
  the collector compares the clock with its last reconciliation in every pass
  (`agent.py:311`), so events cannot postpone it for ever (`SF(Reconcile)`).

Every property of a passing run is checked to fail for a plausible bug: the
definitions marked "Mutant of" in the modules are those bugs (a dropped guard, a
fallback that is missing, an fsync that is skipped, a rollback that stops at its
first failure), and no specification uses them.

## 4 Proofs

### The store

`StateStore_proofs.tla` proves, for any finite or infinite set of sessions, users,
devices and configurations and any bounds, under `StoreAssumption` and
`SentinelAssumption`:

| Theorem | States |
|---|---|
| `StoreInvariant` | `Spec => []StoreInv` |
| `TypeCorrect` | `Spec => []TypeOK` |
| `RevisionsNameContent` | `Spec => []RevisionNamesContent` |
| `BackupFollows` | `Spec => []BackupOneBehind` |
| `LostUpdatesImpossible` | `Spec => NoLostUpdate` |
| `AccountsInvariant` | `Spec => []AccountInv` |
| `RevisionsCountChanges` | `Spec => RevisionCountsChanges` |
| `CountersStayOwned` | `Spec => CountersOwnedByWriters` |
| `BindingsSurvive` | `Spec => BindingsSurviveStaleSaves` |

`RevisionNamesContent` is not inductive: it says nothing of a session that is
behind now and whose number the store may reach later, nor of the backup the
store may fall back to. `StoreInv` adds three conjuncts:

* `EditionsCounted`: no document, on disk or in memory, carries an edition that
  has not been issued yet; the next write is new to everybody.
* `FilesOrdered`: the backup's revision is that of the primary or one less, and
  equal revisions of the two files mean equal editions.
* `SessionsBehind`: a session that is not adrift holds a revision no larger than
  the stored one, and one that equals a file's revision has that file's edition.

Then a save passes the comparison only with the stored revision, hence with the
stored edition, which is `NoLostUpdate`; and it raises the revision by one over
a backup that holds what it replaced, which keeps `FilesOrdered`. Sessions
leave this argument exactly where the code does: by a save that fails after
`state.revision` was raised, and by a fallback to the backup. The proof has one
lemma per action, and each shows the conjuncts the action can disturb.

That a save leaves counters and bindings to the background writers is a statement
about every copy that may still be saved, the snapshots of running commands
included. `AccountInv`, inductive given `StoreInv`, says of each of them:

* `Kept`: it knows only users that were created, and binds no device to a user it
  does not have; so a user the file gains brings no binding of an earlier one.
* `Owned`: for a user who is not disowned, its counter is not above the stored one
  unless a reset is on record, and it is zero if the file never had the user.

`Larger` in `merge_runtime_state` then always picks the stored counter. `Merge`,
`Numbered`, `Restored` and the background writers' documents have lemmas that say what
they do to one user; `StoreMoves` reduces the three action properties to them.
Without `disowned` the property is false, and the proof attempt showed it: a save that
fails sets a session adrift, the user is removed and saved elsewhere, the adrift copy
puts the user back with an old counter, and a third session's copy, whose desired state
now equals the stored one, raises it again. A rollback that writes a snapshot from
before the removal does the same, which the run `runtime` reaches: with the last
disjunct of `CountersOwnedByWriters` removed TLC reports it.

### A save of the state file

`StateFiles_proofs.tla`, for any set of processes and any number of saves, failures,
kills and power losses, under `FilesAssumption` and `SentinelAssumption`:

| Theorem | States |
|---|---|
| `FilesInvariant` | `Spec => []FilesInv` |
| `Typing`, `NeverTorn`, `SaveSurvives`, `BackupWhole` | `[]TypeOK`, `[]PrimaryNeverTorn`, `[]ReturnedSaveSurvives`, `[]BackupWholeWithoutOutage` |
| `SavesAtomic` | `Spec => SavesAreAtomic`, the refinement of AtomicFiles |

None of the three invariants is inductive: a power loss makes a file of the past the
primary again. `Durability` says of every file that may become the primary, the ones
in the unsynced journal included, what `PrimaryNeverTorn` and
`ReturnedSaveSurvives` say of the one that is (`Lasting`). `Progress` says at each step
of a save which of its files are complete and synced, and that until the
last rename the primary is the one that was found. The refinement is then a matter of
where the lock is let go: after the last rename the step is the abstract save, before
it an interrupted one or, if the backup was not replaced either, nothing at all.
A power loss is the abstract one, and a step under the lock changes nothing that the
next holder sees.

### The apply pipeline

`ApplyPipeline_proofs.tla`, for any set of processes, configurations and plugins and any
number of edits, applies, faults and kills, under `PipelineAssumption`:

| Theorem | States |
|---|---|
| `PipelineInvariant` | `Spec => []PipelineInv` |
| `Typing` | `Spec => []PipelineTypeOK` |
| `AppliedEverywhere` | `Spec => CommittedEverywhere` |
| `Restores` | `Spec => FailedApplyRestores` |

Both action properties speak of the one step in which `apply_config` returns, and
say nothing of the ten stages before it. `PipelineInv` follows the stages.
`Carried` is what each stage that is done has left behind, and that no later stage,
no other process and no restart by systemd disturbs it: from "snapshot" on the file
is the desired one, from "migrate" on the rules (`RulesStand`), and so on up to the save,
where `broken` is empty and the services are what they should be (`FrontendStopped` or
`FrontendRuns`, `SingboxRuns`, `DaemonStands`). Each of these parts names the dropped
failure that may have spoilt it, and no other: a Caddy that was to stop may go on running,
but not where sing-box listens on 443 itself, for then sing-box does not come up and
the health check sees it. `DaemonWithoutUnit` is about what earlier applies left: a daemon
without a unit file, which the code never looks at again, runs only because its stop
failed. `Undoable` is the
other half: every registered action holds what its resource was when the lock was
taken, and a resource without an action, and none of whose actions failed, still
is what it was. `Gathered` ties the two together: it says which actions a
stage may hold, so that a snapshot is always taken before the first change. The
rollback needs nothing of priorities: `RestoredFacts` shows that an action touches
its own resource only, hence the order does not matter for this property, and an
action that fails is covered by `lost`. sing-box is the exception, for it is
reloaded at the end: `RolledBackGood` shows that it then runs the file that was put
back, unless Caddy holds its port.

### The sync cycle

`SyncCycle_proofs.tla`, for any set of users and any bounds, under `SyncAssumption`:

| Theorem | States |
|---|---|
| `SyncInvariant` | `Spec => []SyncInv` |
| `Typing`, `NoBlockForgotten` | `[]TypeOK`, `[]BlocksAreOwed` |
| `BlocksStand` | `Spec => AutomaticBlocksStay` |

`BlocksAreOwed` alone does not survive the step that clears the flag, nor the save of
an apply. `Named` says that a copy whose revision is the stored one has the stored
content, for the cycle's and the operator's copy alike: so an apply that passes the
conflict check writes nothing new, and an operator's rollback that passes it can
lift no block but the operator's own. `Debts` says that whatever is not yet cut
off is pending, and that after an apply that succeeded nothing is, so that the flag
may go.

### The upgrade

`UpgradeRelease_proofs.tla`, for any set of units and any number of runs, faults and
saves, under `UpgradeAssumption` and `SentinelAssumption`:

| Theorem | States |
|---|---|
| `UpgradeInvariant` | `Spec => []UpgradeInv` |
| `OldCodeNever`, `AllOrNothingHolds`, `StateIsKept` | `[]OldCodeNeverMeetsNewState`, `[]AllOrNothing`, `[]StateKept` |

The invariant annotates the script like a Hoare proof: `Forward` for each command,
`Backward` for each step of the rollback, `Between` for the time between two runs.
What ties them is that a rollback knows nothing but six flags: `FlagsAhead` says that
each flag is set before what it guards, and `Backward` is worded in terms of the
flags alone. `Backward` and `Between` are claimed while nothing excuses them (`Excused`,
section 5); the annotation of the upgrade itself needs no such condition, except that the
state is the one found only while no newer code saved it.

The jobs make the difference between a stopped system and one whose units are stopped.
From the copy to the start `AllStopped` says that no unit runs and that every job under
way is one the stop has missed. Such a job may save, but only in the format it knows, hence
before the migration: copy and state then differ in their edits and not in their
format (`Same`). `Consistent` is the heart of `OldCodeNever`: every unit and every job
begun since (`Heeded`) runs the code /opt/hydra leads to, which can read the state there is.

### The room pool

`CallsPool_proofs.tla`, for any set of slots and any number of operations, faults and
closed rooms, under `CallsAssumption` and `SentinelAssumption`:

| Theorem | States |
|---|---|
| `PoolInvariant` | `Spec => []PoolInv` |
| `Typing` | `Spec => []TypeOK` |
| `PoolStands`, `SuccessIsWhole`, `NoLeaks` | `[]PreviousPoolStands`, `[]SuccessMeansWhole`, `[]NoRoomLeaks` |

`PoolInv` annotates the operation that holds the lease by its step: `Progress` is what
it has built and staged so far, whatever happened before; `Quiet` is which units may
run, and holds as long as no undo has failed and no process died (`trouble`).
`Success` shows how that is regained: a transition or removal that reports success
leaves no unit outside its pool even after trouble, since it clears the
generation it builds and finalizes the other. `Bare` is the odd one out, needed for
a pool that does not exist: then only units of generation "a" may run, which is the
one the next transition clears first.

### AntiDPI

`AntiDpi_proofs.tla` proves, for any set of addresses and operators and any number
of commands, refusals, kills, reboots and conflicts, under `AntiDpiAssumption`:

| Theorem | States |
|---|---|
| `BansInvariant` | `Spec => []BansInv` |
| `TypesAndLock` | `Spec => []TypeOK` |
| `NoOrphansEver` | `Spec => []NoOrphans` |
| `PermanentStandsEver` | `Spec => PermanentStands` |

`NoOrphans` alone is not inductive: a refused `ipset add` writes back a document
from memory, a restoration saves the one it walked through, an unban deletes a
record whose entry it removed a step before. `BansInv` says what the one between
the two halves may rely on:

* `HoldsLock`: it, and nobody else, holds antidpi.lock.
* `Agrees`: after `UnbanEntry` the entry is gone; after `Intend` the ban is in the
  file and the entry is no stronger than the record the refusal would restore;
  its copy agrees with the file on every other address (for a restoration, on all).
* `Wellformed`: control comes from the step it should (a manual ban is an
  operator's, what follows a list needs no lock, the address in hand is one).

Addresses in `rewritten` are excepted throughout, which is all `Commit`, the one
writer without the lock, can change. `OneMoves` shows once that a step of one
process leaves what the others know intact, because they do not hold the lock or
because ipset and record stay the same outside `rewritten`; one lemma per action
uses it. `PermanentStands` follows action by action: only the record of an unban
and an intent taken back can end a permanent ban, and `Agrees` gives the excuse.

### The poll of the traffic daemon

`TrafficPoll_proofs.tla`, for any users, finite sets of connections and addresses,
limits, windows and bounds, under `PollAssumption` and `SentinelAssumption`:

| Theorem | States |
|---|---|
| `PollInvariant` | `Spec => [](TypeOK /\ Identities /\ CreditedInFull /\ Covered)` |
| `Typing` | `Spec => []TypeOK` |
| `NobodyOverbilled`, `KnownBytesBilled` | `[]NeverOverbilled`, `[]AttributedBytesBilled` |
| `LimitSparesOthers`, `RankKept` | `Spec => WithinLimitUntouched`, `Spec => RankSurvivesReconnect` |

A bill alone says nothing of the next one. `Covered` adds what the next polls can
bill: for each connection the larger of two futures, one in which the snapshot the
daemon holds is lost (the save fails) and one in which it is billed first. Carrying a
byte raises that sum by at most one, a restarted counter or a fetch never raises it,
and a saved poll takes from it at least what it charges (`SavedOwes`). The other half
is `CreditedInFull`: a counter is credited to its last byte once its user is known and
not at all before, so a late name bills the whole counter once (`ChargedEnough`). A sum
is the number of pairs of a connection and one of its bytes (`Total`), which makes its
laws (`TotalPlus`, `TotalMonotone`) facts about cardinalities and not inductions over
a set. `LimitSparesOthers` rests on `Identities`: the user of a record, of the snapshot
and of the live connection never differ, whenever they were read; and on the refused
device being one device more than those ahead of it (`RefusedAboveLimit`).

### What is left to TLC

Assumptions of the form "`None` is not a record" (`SentinelAssumption`) are the price of
an untyped logic: the code's `None` and its objects differ.

Only model-checked: everything of Lifecycle (its steps are lists and its stack a
sequence, taken apart with `Tail` and searched with `CHOOSE`).
Liveness under fairness is left to TLC for good: `OverLimitIsCut`, `ServicesReturn`,
`PoolHeals`, `DeadRoomsGo`, `BansEnforced`, `TrustedReleased`.

## 5 Where the code and its documents disagree

One is kept as a run that ends in a counterexample, `calls_rollback`:
`docs/ARCHITECTURE.md:553` says that the new generation of rooms is created before
the commit, the previous one stops only at finalize, and an error before that
returns the pool. `refresh_creator_pool` first stops every unit of the generation
it will create (`headless_creator_pool_infrastructure.py:179`). After a slot
replacement one room of the pool is of that generation: it is stopped before any
new one exists, and a rotation that then fails brings back metadata that name a
room which is gone. `PreviousPoolStands` holds for pools of one generation.

The following is in the models, and the properties are worded around it: each is
a history variable or a condition named in section 2. Where a document says
otherwise it is quoted.

Desired state and apply

* `docs/ARCHITECTURE.md:409`: the revision protects from losing foreign changes.
  `core/state.py:295` raises it in memory before it validates and writes. After a
  failed save the copy carries a number that was never stored; once another
  session stores a change under it, the next save of the first one overwrites
  that change (`adrift`). The same copy may bring back a user who was removed in
  between, with counters older than the removal (`disowned`).
* `docs/ARCHITECTURE.md:428`: a rollback keeps the current revision, since
  otherwise it might overwrite a newer change. `core/state.py:348` takes over the
  revision on disk, and that is what lets the rollback through: the newer change
  is replaced (`RollBackCommand`).
* `docs/ARCHITECTURE.md:253`: any failure leads to rollback.
  `services/configuration.py:113` calls `migrate_haproxy`, which saves the state
  outside any `try`; a conflict there passes over the registered rollbacks.
* Nor do the commands lead to rollback whose result is dropped (`ignored`): stop and
  disable of Caddy (`core/sni_router_runtime.py:146-154`, any exception ends at 219-220),
  its enable (`core/sni_router_reconcile.py:270`), the deletion of the nftables table
  (`core/nft.py:120`) and the stop of the traffic daemon
  (`services/traffic_daemon_unit.py:90`). An apply reports success with Caddy still
  running or still enabled, not enabled although it should be after a reboot, with the old
  rules, or with a daemon nobody wants; once that daemon's unit file is gone
  no apply looks at it again (line 39).
* `tests/test_orchestrator.py:776`: a failed transition to direct mode restores the
  previous ownership. `stop` disables the Caddy unit and no rollback enables it
  again: after a reboot nobody serves port 443.
* A session loaded before a device reset brings the removed bindings back with
  its next save (`core/state_runtime.py:89`).
* After damage to `state.json` the next save copies the damaged file over the good
  backup (`core/state.py:304`) before it writes the new one.
* The rollback of a failed `rebuild` starts a Caddy that was stopped
  (`core/sni_router_reconcile.py:297`), which then takes port 443 from sing-box;
  on a host that never had Caddy there is no rollback for it
  (`services/configuration.py:216`). Traffic accounting has no snapshot.

Traffic

* The docstring of `apply_connection_snapshot` speaks of a short tombstone window.
  A connection that stays open while more than five answers in a row leave it out
  loses its record (`services/traffic_accounting.py:134`), and when it is shown again
  its whole counter is billed once more. `NeverOverbilled` excepts its user
  (`forgotten`); without the exception the run `billing` reports it, with a window of
  one poll and two empty answers.

Sync agent and devices

* A failed certificate renewal gives up other blocks that joined its pending
  apply after a crash (`services/sync_cycle.py:231`), and a block an operator
  saved without living to apply it is passed over (`services/sync_cycle.py:62`):
  both are `waived`.
* `docs/CLI.md:280-282`: an exhausted quota cuts the user off without `block`, and
  `unblock` does not return access while it lasts. The server asks for the blocked flag
  alone (`user_can_use`, `core/state_models.py:120-122`): after an unblock the user is
  served until the next cycle blocks them again. `AutomaticBlocksStay` therefore
  lets an operator's unblock end an automatic block, and `OverLimitIsCut` is a leads-to.
* Devices first seen in the same poll share their rank
  (`services/device_sessions.py:112`).

Lifecycle (all in `spoiled`)

* Uninstall empties the plugin's configuration (`plugin_lifecycle.py:114`). When
  its apply fails, `on_enable` runs at priority 10, before the state comes back
  at 20, and raises for Hysteria2, AnyTLS and ShadowTLS, which find no domain: the
  state says enabled and nothing is set up.
* Enabling a plugin that is enabled, disabling one that is not, or reinstalling
  one that is not installed rolls back to the opposite of what was
  (`plugin_lifecycle.py:178`, `:217`, `:142`).
* `docs/CLI.md:277` promises an undo; after a foreign save between an operation's
  save and its apply the undo's own save conflicts (`plugin_lifecycle.py:246`,
  `user_lifecycle.py:279`), so state and host differ until the next apply.
* `install` and `disable` register their undo after the hook: one that fails
  half-way is not undone.

Upgrade (`stray`, and `Excused`: `was.late`, `was.newer`)

* `docs/UPGRADE.md:122` and `docs/ARCHITECTURE.md:509`: old code must not see state of the
  new format. `upgrade.sh:268-270` neither stops nor waits for a oneshot that is under
  way, so a sync cycle that began before goes on with the old code on migrated
  state; what it loads from then on is refused, and what it saved between the copy and the
  migration is lost if the upgrade rolls back (`stray`).
* The timers start before the verdict. A job the new code began then survives the
  rollback, which skips it for the same reason, and saves the restored state in the new
  format; the old services that were just started refuse it. An operator
  who saves after a rollback that left the new code in place does the same (`was.newer`).
* After a kill between the two renames of `restore_state_snapshot` (`upgrade.sh:341-344`)
  there is no state directory, and the next run makes an empty one in its preflight
  (`core/state.py:90`), upgrades it and may report success; the old state lies beside it.
  The `else` branch for a missing directory (`upgrade.sh:657`) is never reached.

* `upgrade.sh:763-768` clears its flags one by one before it removes the traps. A
  signal among them rolls back the state but not the code, although
  `docs/UPGRADE.md:134` speaks of both.
* After a SIGKILL with the services stopped, the next run finds no active units,
  and ends successfully with all of them stopped. `prune_old_artifacts` counts
  releases of failed runs like others.

Calls (`trouble`)

* A rollback that fails leaves its stage in the menu's object, and the next
  refresh finalizes it, which stops the generation that serves. After a failed
  finalization the rollback loses both generations' rooms.

AntiDPI (`rewritten`, and the wording of `PermanentStands`)

* The rollback of a plugin command writes its snapshot over `antidpi.json` without
  the lock (`plugin.py:222`). A ban recorded meanwhile is forgotten and its ipset
  entry stays, for a manual ban for good, although `detector_service.py` says
  that state and ipset never disagree about an address.
* Trusted addresses are collected under the lock and unbanned after it
  (`management.py:217`). One that is untrusted and banned by hand in between
  loses the administrator's ban (`docs/ANTIDPI.md:150`). At each start bans of
  addresses that Honeypot holds are dropped, manual ones included.
* One trusted address that cannot be released holds up the restoration of every
  stored ban (`lifecycle.py:114`).

## 6 What is not modelled

* Text: rendering of sing-box, Caddy and client configurations, subscription
  formats, menus, messages, logs. A configuration is a name.
* Validation and migration of documents: a document is well formed or it is not.
* External programs (systemd, certbot, nft, ipset, sing-box, Caddy, the provider of
  call rooms) beyond success, failure and, for the two that share it, port 443.
* Of AntiDPI: scores and telemetry, notifications, the journal worker (no journal
  record is evidence while `PROTOCOL_REJECT_RULES` is empty), a quarantined state
  file, installation and switching off. Of Calls: the worker count, cookies, client profiles, and
  qWDTT's pool. Of the upgrade: `updater.sh` and `bootstrap.sh`.
* Per-protocol counters and reports: they follow the rule of the user's counter.
* Details of modelled operations:
  * StateStore: `RegisterDevice` has neither the limit (`subscriptions/devices.py:170-172`)
    nor the collapse of legacy network ids (183-184); see the plan. A user is not created
    again under the same email while copies are about (`issued`), although the merge goes
    by email (`core/state_runtime.py:72`).
  * TrafficPoll: `Delta` asks for the user and not for the protocol
    (`traffic_accounting.py:110`), since `identify` (`traffic_attribution.py:360-383`)
    names a user only together with a protocol, and a record with a user has one.
  * CallsPool: `Decide` reads whether Calls is enabled under the lease, the code from the
    `AppState` its job loaded (`calls.py:142`, `:160`, `:187`); a copy that is stale there
    ends in the conflict of its apply. A timeout inside `_stop_generation` leaves the
    call files of that generation (`headless_creator_pool_infrastructure.py:336-343`), in
    the model a failed undo removes them (`trouble`).
  * AntiDpi: sets and rule are one step (`Fence`), although the sets may exist without the
    rule. Only the collector reconciles: the same functions called by an operator's
    process (`on_enable`, `sync_runtime`, `lifecycle.py:138-150`, `:238-246`) and
    `on_disable`, which removes the rule and keeps the sets (`:278-290`), belong to the
    life of the plugin, which is left out.
  * UpgradeRelease: a job that opens the state between the two renames of a restore
    (`core/state.py:90` makes the directory again, and `mv` then puts the copy inside it);
    an operator saves between two runs only; the migration of an empty directory
    is a change of format like any other.
* The components `PROJECT.json` lists as `not_modelled`, each with its reason.
  Those with a life of their own are in the plan below.

## 7 Plan

Done, in this order: StateStore and its proofs, StateFiles with AtomicFiles,
ApplyPipeline, TrafficPoll, SyncCycle, Lifecycle, UpgradeRelease, CallsPool, AntiDpi and its
proofs; then the proofs of StateFiles, SyncCycle, UpgradeRelease, CallsPool,
ApplyPipeline and TrafficPoll.

Next modules, the most important first:

1. **KernelSwitch** (`services/kernel.py`): binary and saved choice with kills. The
   binary is replaced before the choice is saved, so a kill in between shows no
   drift, and the next `prepare_switch` deletes the backup first.
2. **SubscriptionDevices** (`subscriptions/devices.py`): the registered-device limit
   with the merging of network ids; as a pure function against a reference.
3. **TrafficTotals** (`services/traffic.py`): per-protocol snapshots, the
   never-reduce rule, resets and reports beside the daemon.
4. **RestoreBackup** (`core/backup.py`) beside the store's sessions.
5. The composition of Lifecycle with ApplyPipeline, whose apply it takes as atomic.

Abstract specifications worth stating: an atomic apply that ApplyPipeline
implements up to the resources in `lost`, and an operation of Lifecycle that takes
place in state, plugins and host or in none of them.

The theorem worth proving next is `Agreement` of Lifecycle.
