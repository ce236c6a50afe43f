----------------------------- MODULE ApplyPipeline -----------------------------
(***************************************************************************)
(* Applying a configuration to the host: OrchestrationService.apply_config,*)
(* ConfigurationApplier.apply and the ApplyTransaction that undoes it.     *)
(* One process at a time holds apply.lock and walks through the stages;    *)
(* meanwhile other processes load, edit and save the desired state, and    *)
(* systemd restarts services that failed to bind the public port 443.      *)
(* Any stage may fail, and the process may be killed between two stages.   *)
(*                                                                         *)
(* save_state is the operation of StateStore without runtime counters and  *)
(* without its files; a refused try-lock changes nothing and has no step.  *)
(***************************************************************************)
EXTENDS Integers, FiniteSets

CONSTANTS
    Processes,   \* TUI, Telegram, CLI, sync agent
    Configs,     \* desired configurations
    Initial,     \* the configuration of a fresh installation
    Frontend,    \* needs_mux and the listeners: who owns port 443 under a config
    Enabled,     \* the plugins a configuration enables, by position in the catalog
    Tproxy,      \* configurations with ports or interfaces to route transparently
    Accounted,   \* clash_api_enabled: configurations with a traffic daemon
    None,        \* no file, no process, no rules
    MaxEdits,    \* bound: edits of the desired state
    MaxApplies,  \* bound: applies begun
    MaxFaults    \* bound: failures of commands, hooks and files, and kills

ASSUME PipelineAssumption ==
    /\ Initial \in Configs
    /\ Frontend \in [Configs -> {"mux", "direct", "none"}]
    /\ Enabled \in [Configs -> SUBSET (Nat \ {0})]
    /\ \A config \in Configs : IsFiniteSet(Enabled[config])
    /\ Tproxy \subseteq Configs /\ Accounted \subseteq Configs
    /\ \A bound \in {MaxEdits, MaxApplies, MaxFaults} : bound \in Nat
    /\ None \notin Configs \union Processes
    /\ "stopped" \notin Configs /\ "failed" \notin Configs

Plugins == UNION {Enabled[config] : config \in Configs}

\* One-time changes the pipeline itself makes to the desired state.
Flags == {"tproxy", "caddy_l4"}
Document == [config : Configs, flags : SUBSET Flags, revision : Nat]

\* A service runs a configuration, was stopped, or failed and is retried.
Service == Configs \union {"stopped", "failed"}
Host == [file : Configs \union {None},      \* /etc/sing-box/config.json
         singbox : Service,
         nft : Configs \union {None},       \* the table of HYDRA
         frontendFile : Configs \union {None}, \* caddy-l4/config.json and its unit
         frontend : Service,
         autostart : BOOLEAN,               \* the frontend is enabled at boot
         plugins : [Plugins -> Configs \union {None}],
         unit : BOOLEAN, daemon : BOOLEAN]  \* traffic daemon: its file, its process

\* Commands of an apply whose failure the code does not look at.
Unchecked == {"stop frontend", "boot frontend", "delete rules", "stop daemon"}

VARIABLES
    stored,    \* the desired state on disk
    mem,       \* the AppState each process holds
    holder,    \* who holds apply.lock
    stage,     \* where the holder is
    entry,     \* the deep copy apply_config took
    undo,      \* rollback actions the ApplyTransaction has registered
    broken,    \* singbox_ok and mux_ok: the services that did not come up
    reload,    \* reload_restored of the running fail()
    host,
    before,    \* history: the host when the lock was taken
    lost,      \* history: what this apply could not snapshot or restore
    ignored,   \* history: the unchecked commands that last had no effect
    edits, applies, faults

outside == <<edits, applies>>
vars == <<stored, mem, holder, stage, entry, undo, broken, reload, host, before,
          lost, ignored, edits, applies, faults>>

-------------------------------------------------------------------------------
(* save_state.                                                               *)

SameDesired(a, b) == a.config = b.config /\ a.flags = b.flags

Conflicts(document) ==
    ~SameDesired(document, stored) /\ document.revision # stored.revision

Numbered(document) ==
    [document EXCEPT !.revision =
        IF SameDesired(document, stored) THEN stored.revision ELSE stored.revision + 1]

Fault == faults < MaxFaults /\ faults' = faults + 1

SaveAccepted(p, document) ==
    /\ ~Conflicts(document)
    /\ stored' = Numbered(document)
    /\ mem' = [mem EXCEPT ![p] = Numbered(document)]
    /\ UNCHANGED faults

\* StateConflictError, or an I/O error after the copy was renumbered.
SaveRaises(p, document) ==
    /\ \/ /\ Conflicts(document)
          /\ mem' = [mem EXCEPT ![p] = document]
          /\ UNCHANGED faults
       \/ /\ ~Conflicts(document)
          /\ Fault
          /\ mem' = [mem EXCEPT ![p] = Numbered(document)]
    /\ UNCHANGED stored

-------------------------------------------------------------------------------
(* Processes outside the pipeline.                                           *)

Elsewhere(p) ==
    /\ p # holder
    /\ UNCHANGED <<holder, stage, entry, undo, broken, reload, host, before, lost,
                   ignored, applies>>

Load(p) ==
    /\ Elsewhere(p)
    /\ mem' = [mem EXCEPT ![p] = stored]
    /\ UNCHANGED <<stored, edits, faults>>

Edit(p, config) ==
    /\ Elsewhere(p)
    /\ mem[p] # None /\ mem[p].config # config
    /\ edits < MaxEdits
    /\ edits' = edits + 1
    /\ mem' = [mem EXCEPT ![p].config = config]
    /\ UNCHANGED <<stored, faults>>

Save(p) ==
    /\ Elsewhere(p)
    /\ mem[p] # None
    /\ SaveAccepted(p, mem[p]) \/ SaveRaises(p, mem[p])
    /\ UNCHANGED edits

-------------------------------------------------------------------------------
(* The stages of an apply, in the order of ConfigurationApplier.apply.       *)

desired == mem[holder].config

At(here) == holder # None /\ stage = here

GoTo(next) ==
    stage' = next /\ UNCHANGED <<holder, entry, reload, before, outside>>

\* fail(): roll back, then reload the restored sing-box if it was reloaded.
Fail(reloads) ==
    /\ stage' = "rollback"
    /\ reload' = reloads
    /\ UNCHANGED <<holder, entry, before, outside>>

\* apply() returns False, or raises past its own handlers: no rollback runs.
Leave == GoTo("restore")

state == <<stored, mem>>

\* What a rollback action restores.
ConfigFile == <<"sing-box config", 0>>
Rules == <<"nftables", 0>>
Caddy == <<"caddy runtime", 0>>
Plugin(n) == <<"plugin", n>>

Register(name, priority, was) ==
    undo' = undo \union {[name |-> name, priority |-> priority, was |-> was]}

Begin(p) ==
    /\ holder = None
    /\ mem[p] # None
    /\ applies < MaxApplies
    /\ applies' = applies + 1
    /\ holder' = p
    /\ stage' = "prepare"
    /\ entry' = mem[p]
    /\ before' = host
    /\ undo' = {} /\ broken' = {} /\ reload' = FALSE /\ lost' = {}
    /\ UNCHANGED <<state, host, ignored, edits, faults>>

\* A one-time flag that is not there yet is set and saved, outside every try.
Flagged(flag) == [mem[holder] EXCEPT !.flags = @ \union {flag}]

SetFlag(flag, next) ==
    \/ flag \in mem[holder].flags /\ GoTo(next) /\ UNCHANGED <<state, faults>>
    \/ /\ flag \notin mem[holder].flags
       /\ \/ SaveAccepted(holder, Flagged(flag)) /\ GoTo(next)
          \/ SaveRaises(holder, Flagged(flag)) /\ Leave

\* Preflight, _ensure_tproxy_enabled, fragments, generate_config.
Prepare ==
    /\ At("prepare")
    /\ SetFlag("tproxy", "config") \/ (Fault /\ Leave /\ UNCHANGED state)
    /\ UNCHANGED <<undo, broken, host, lost, ignored>>

WriteConfig ==
    /\ At("config")
    /\ \/ /\ host' = [host EXCEPT !.file = desired]
          /\ Register(ConfigFile, 10, host.file)
          /\ GoTo("snapshot")
          /\ UNCHANGED faults
       \/ Fault /\ Leave /\ UNCHANGED <<undo, host>>
    /\ UNCHANGED <<state, broken, lost, ignored>>

\* snapshot_tproxy is called outside every try.
SnapshotNft ==
    /\ At("snapshot")
    /\ \/ Register(Rules, 20, host.nft) /\ GoTo("nft") /\ UNCHANGED faults
       \/ Fault /\ Leave /\ UNCHANGED undo
    /\ UNCHANGED <<state, broken, host, lost, ignored>>

\* Nothing to route: the table is deleted, and nobody asks whether it was.
RulesOf(config) == IF config \in Tproxy THEN config ELSE None

ApplyNft ==
    /\ At("nft")
    /\ \/ /\ host' = [host EXCEPT !.nft = RulesOf(desired)]
          /\ ignored' = ignored \ {"delete rules"}
          /\ GoTo("migrate")
          /\ UNCHANGED faults
       \/ /\ desired \notin Tproxy /\ host.nft # None
          /\ Fault
          /\ ignored' = ignored \union {"delete rules"}
          /\ GoTo("migrate")
          /\ UNCHANGED host
       \/ /\ Fault
          /\ host' \in {host, [host EXCEPT !.nft = RulesOf(desired)]}
          /\ Fail(FALSE)
          /\ UNCHANGED ignored
    /\ UNCHANGED <<state, undo, broken, lost>>

MigrateHaproxy ==
    /\ At("migrate")
    /\ SetFlag("caddy_l4", "frontend")
    /\ UNCHANGED <<undo, broken, host, lost, ignored>>

\* _register_caddy_rollback; a snapshot that raises is only logged.
SnapshotFrontend ==
    /\ At("frontend")
    /\ GoTo(IF Frontend[desired] = "mux" THEN "plugins" ELSE "stop")
    /\ \/ /\ host.frontendFile # None
          /\ Register(Caddy, 25, host.frontendFile)
          /\ UNCHANGED <<lost, faults>>
       \/ /\ host.frontendFile = None
          /\ UNCHANGED <<undo, lost, faults>>
       \/ Fault /\ lost' = lost \union {Caddy} /\ UNCHANGED undo
    /\ UNCHANGED <<state, broken, host, ignored>>

\* sni_router.stop: the service is stopped and disabled, its files stay.  The
\* results of both commands are dropped and an exception ends them silently.
LeftRunning == IF host.frontend = "stopped" THEN {} ELSE {"stop frontend"}
LeftEnabled == IF host.autostart THEN {"boot frontend"} ELSE {}

StopFrontend ==
    /\ At("stop")
    /\ \E left \in SUBSET (LeftRunning \union LeftEnabled) :
          /\ host' = [host EXCEPT
                !.frontend = IF "stop frontend" \in left THEN @ ELSE "stopped",
                !.autostart = "boot frontend" \in left]
          /\ ignored' = (ignored \ {"stop frontend", "boot frontend"}) \union left
          /\ IF left = {} THEN UNCHANGED faults ELSE Fault
    /\ GoTo("plugins")
    /\ UNCHANGED <<state, undo, broken, lost>>

PluginActions == {action \in undo : action.name[1] = "plugin"}
Applied == {action.name[2] : action \in PluginActions}
Unapplied == Enabled[desired] \ Applied

\* apply_enabled: its own transaction undoes the latest plugin first.
ApplyPlugin(n) ==
    /\ At("plugins")
    /\ n \in Unapplied /\ \A other \in Unapplied : n <= other
    /\ Register(Plugin(n), -(Cardinality(Applied) + 1), host.plugins[n])
    /\ \/ /\ host' = [host EXCEPT !.plugins[n] = desired]
          /\ GoTo("plugins")
          /\ UNCHANGED faults
       \/ /\ Fault
          /\ host' \in {host, [host EXCEPT !.plugins[n] = desired]}
          /\ Fail(FALSE)
    /\ UNCHANGED <<state, broken, lost, ignored>>

\* _register_plugin_rollbacks: 30 + n - index, after every shared resource;
\* the inner priority was -(index + 1).
Outer(action) ==
    IF action \in PluginActions
    THEN [action EXCEPT !.priority = 30 + Cardinality(Applied) + @ + 1]
    ELSE action

PluginsApplied ==
    /\ At("plugins")
    /\ Unapplied = {}
    /\ undo' = {Outer(action) : action \in undo}
    /\ GoTo("reload")
    /\ UNCHANGED <<state, broken, host, lost, ignored, faults>>

\* Port 443 as the two services contend for it.
SingboxCanBind(config) == Frontend[config] = "direct" => host.frontend \notin Configs
FrontendCanBind == host.singbox \in Configs => Frontend[host.singbox] # "direct"

\* sing-box after a restart with the given file: start() writes a minimal
\* configuration when there is none, systemctl restart fails without one.
Restarted(h) ==
    IF h.file = None
    THEN IF h.singbox \in Configs THEN [h EXCEPT !.singbox = "failed"]
         ELSE [h EXCEPT !.file = Initial, !.singbox = Initial]
    ELSE [h EXCEPT !.singbox = IF SingboxCanBind(h.file) THEN h.file ELSE "failed"]

ReloadSingbox ==
    /\ At("reload")
    /\ \/ /\ host' = Restarted(host)
          /\ UNCHANGED faults
       \/ /\ Fault
          /\ host' = [host EXCEPT !.singbox = "failed"]
    /\ broken' = IF host'.singbox = "failed" THEN {"singbox"} ELSE {}
    /\ GoTo(IF Frontend[desired] = "mux" THEN "rebuild" ELSE "finalize")
    /\ UNCHANGED <<state, undo, lost, ignored>>

\* The reload command itself raised.
ReloadRaises ==
    /\ At("reload")
    /\ Fault
    /\ Fail(TRUE)
    /\ UNCHANGED <<state, undo, broken, host, lost, ignored>>

\* Caddy after systemctl restart with the given configuration file.
FrontendRestarted(config) ==
    [host EXCEPT !.frontendFile = config,
                 !.frontend = IF FrontendCanBind THEN config ELSE "failed"]

\* The restart is checked, systemctl enable before it is not.
RebuildFrontend ==
    /\ At("rebuild")
    /\ FrontendCanBind
    /\ \/ /\ host' = [FrontendRestarted(desired) EXCEPT !.autostart = TRUE]
          /\ ignored' = ignored \ {"boot frontend"}
          /\ UNCHANGED faults
       \/ /\ ~host.autostart
          /\ Fault
          /\ host' = FrontendRestarted(desired)
          /\ ignored' = ignored \union {"boot frontend"}
    /\ GoTo("finalize")
    /\ UNCHANGED <<state, undo, broken, lost>>

\* rebuild() returned False, refused before it changed anything or undone by
\* its own _rollback_runtime; systemctl enable, if it worked, is not undone.
RebuildFails ==
    /\ At("rebuild")
    /\ \/ Fault /\ UNCHANGED host
       \/ /\ Fault \/ (~FrontendCanBind /\ UNCHANGED faults)
          /\ IF host.frontendFile = None
             THEN host' = [host EXCEPT !.frontend = "stopped", !.autostart = FALSE]
             ELSE \E enabled \in {host.autostart, TRUE} :
                    host' = [FrontendRestarted(host.frontendFile) EXCEPT !.autostart = enabled]
    /\ broken' = broken \union {"frontend"}
    /\ GoTo("daemon")
    /\ UNCHANGED <<state, undo, lost, ignored>>

RebuildRaises ==
    /\ At("rebuild")
    /\ Fault
    /\ host' \in {host, [host EXCEPT !.frontendFile = desired]}
    /\ Fail(TRUE)
    /\ UNCHANGED <<state, undo, broken, lost, ignored>>

Finalize ==
    /\ At("finalize")
    /\ (GoTo("daemon") /\ UNCHANGED faults) \/ (Fault /\ Fail(TRUE))
    /\ UNCHANGED <<state, undo, broken, host, lost, ignored>>

\* The traffic daemon has no snapshot and no rollback.  Its unit depends on the
\* installed code only; it is restarted when written and started when inactive.
StartDaemon ==
    /\ At("daemon") /\ desired \in Accounted
    /\ \/ /\ host' = [host EXCEPT !.unit = TRUE, !.daemon = TRUE]
          /\ ignored' = ignored \ {"stop daemon"}
          /\ GoTo("health")
          /\ UNCHANGED faults
       \/ /\ Fault
          /\ host' \in {host, [host EXCEPT !.unit = TRUE],
                        [host EXCEPT !.unit = TRUE, !.daemon = host.unit /\ host.daemon]}
          /\ Fail(TRUE)
          /\ UNCHANGED ignored
    /\ UNCHANGED <<state, undo, broken, lost>>

\* Without a unit nothing is looked at.  stop may fail (allow_inactive); unlink
\* and daemon-reload are checked.
StopDaemon ==
    /\ At("daemon") /\ desired \notin Accounted
    /\ \/ ~host.unit /\ GoTo("health") /\ UNCHANGED <<host, ignored, faults>>
       \/ /\ host.unit
          /\ \E runs \in {FALSE, host.daemon}, stays \in BOOLEAN :
                /\ host' = [host EXCEPT !.daemon = runs, !.unit = stays]
                /\ ignored' = IF runs THEN ignored \union {"stop daemon"}
                              ELSE ignored \ {"stop daemon"}
                /\ \/ /\ ~stays /\ GoTo("health")
                      /\ IF runs THEN Fault ELSE UNCHANGED faults
                   \/ Fault /\ Fail(TRUE)
    /\ UNCHANGED <<state, undo, broken, lost>>

\* Mutant of Health: a sing-box that did not come up is not looked at.
PluginHealthOnly ==
    /\ At("health")
    /\ (GoTo("save") /\ UNCHANGED faults) \/ (Fault /\ Fail(TRUE))
    /\ UNCHANGED <<state, undo, broken, host, lost, ignored>>

Health ==
    /\ At("health")
    /\ \/ broken = {} /\ GoTo("save") /\ UNCHANGED faults
       \/ broken # {} /\ Fail(TRUE) /\ UNCHANGED faults
       \/ Fault /\ Fail(TRUE)
    /\ UNCHANGED <<state, undo, broken, host, lost, ignored>>

\* Mutant of Release: apply.lock outlives the call.
ReleaseKeepingLock ==
    /\ stage' = "idle"
    /\ entry' = None /\ before' = None
    /\ undo' = {} /\ broken' = {} /\ reload' = FALSE /\ lost' = {}
    /\ UNCHANGED <<holder, ignored, outside>>

\* apply.lock is let go; the variables of the call are gone.
Release ==
    /\ holder' = None /\ stage' = "idle"
    /\ entry' = None /\ before' = None
    /\ undo' = {} /\ broken' = {} /\ reload' = FALSE /\ lost' = {}
    /\ UNCHANGED <<ignored, outside>>

Commit ==
    /\ At("save")
    /\ SaveAccepted(holder, mem[holder])
    /\ Release
    /\ UNCHANGED host

SaveFails ==
    /\ At("save")
    /\ SaveRaises(holder, mem[holder])
    /\ Fail(TRUE)
    /\ UNCHANGED <<undo, broken, host, lost, ignored>>

-------------------------------------------------------------------------------
(* ApplyTransaction.rollback and the end of apply_config.                    *)

Restored(action) ==
    CASE action.name = ConfigFile -> [host EXCEPT !.file = action.was]
      [] action.name = Rules -> [host EXCEPT !.nft = action.was]
      [] action.name = Caddy -> FrontendRestarted(action.was)
      [] OTHER -> [host EXCEPT !.plugins[action.name[2]] = action.was]

\* rollback() runs its callbacks in order of priority.
Lowest(action) == \A other \in undo : action.priority <= other.priority

\* Mutant of RollBackOne: the first callback that fails ends the rollback.
RollBackUntilFailure(action) ==
    /\ At("rollback")
    /\ action \in undo /\ Lowest(action)
    /\ \/ /\ host' = Restored(action)
          /\ undo' = undo \ {action}
          /\ UNCHANGED <<lost, faults>>
       \/ /\ Fault
          /\ undo' = {}
          /\ lost' = lost \union {action.name}
          /\ UNCHANGED host
    /\ GoTo("rollback")
    /\ UNCHANGED <<state, broken, ignored>>

\* A callback that raises or returns False is recorded; the rest still run.
RollBackOne(action) ==
    /\ At("rollback")
    /\ action \in undo /\ Lowest(action)
    /\ undo' = undo \ {action}
    /\ \/ host' = Restored(action) /\ UNCHANGED <<lost, faults>>
       \/ Fault /\ lost' = lost \union {action.name} /\ UNCHANGED host
    /\ GoTo("rollback")
    /\ UNCHANGED <<state, broken, ignored>>

RolledBack ==
    /\ At("rollback")
    /\ undo = {}
    /\ \/ host' = (IF reload THEN Restarted(host) ELSE host) /\ UNCHANGED <<lost, faults>>
       \/ /\ reload /\ Fault
          /\ host' = [host EXCEPT !.singbox = "failed"]
          /\ lost' = lost \union {ConfigFile}
    /\ GoTo("restore")
    /\ UNCHANGED <<state, undo, broken, ignored>>

\* restore_state_in_place, then a save whose failure is only logged.
EntryState == [entry EXCEPT !.revision = mem[holder].revision]

RestoreState ==
    /\ At("restore")
    /\ SaveAccepted(holder, EntryState) \/ SaveRaises(holder, EntryState)
    /\ Release
    /\ UNCHANGED host

-------------------------------------------------------------------------------
(* Around the pipeline.                                                      *)

\* The process dies between two stages; the kernel drops its flock.
Kill ==
    /\ holder # None
    /\ Fault
    /\ mem' = [mem EXCEPT ![holder] = None]
    /\ Release
    /\ UNCHANGED <<stored, host>>

\* Restart=on-failure: systemd retries a service that could not start.
SystemdRetries ==
    /\ \/ /\ host.singbox = "failed" /\ host.file # None /\ SingboxCanBind(host.file)
          /\ host' = [host EXCEPT !.singbox = host.file]
       \/ /\ host.frontend = "failed" /\ host.frontendFile # None /\ FrontendCanBind
          /\ host' = [host EXCEPT !.frontend = host.frontendFile]
    /\ UNCHANGED <<state, holder, stage, entry, undo, broken, reload, before, lost,
                   ignored, outside, faults>>

Init ==
    /\ stored = [config |-> Initial, flags |-> {}, revision |-> 1]
    /\ mem = [p \in Processes |-> None]
    /\ holder = None /\ stage = "idle"
    /\ entry = None /\ before = None
    /\ undo = {} /\ broken = {} /\ reload = FALSE /\ lost = {}
    /\ host = [file |-> None, singbox |-> "stopped", nft |-> None,
               frontendFile |-> None, frontend |-> "stopped", autostart |-> FALSE,
               plugins |-> [n \in Plugins |-> None], unit |-> FALSE, daemon |-> FALSE]
    /\ ignored = {}
    /\ edits = 0 /\ applies = 0 /\ faults = 0

ApplyStep ==
    \/ Prepare \/ WriteConfig \/ SnapshotNft \/ ApplyNft \/ MigrateHaproxy
    \/ SnapshotFrontend \/ StopFrontend
    \/ (\E n \in Plugins : ApplyPlugin(n)) \/ PluginsApplied
    \/ ReloadSingbox \/ ReloadRaises
    \/ RebuildFrontend \/ RebuildFails \/ RebuildRaises
    \/ Finalize \/ StartDaemon \/ StopDaemon \/ Health \/ Commit \/ SaveFails
    \/ (\E action \in undo : RollBackOne(action)) \/ RolledBack \/ RestoreState

Next ==
    \/ \E p \in Processes : Load(p) \/ Save(p) \/ Begin(p)
    \/ \E p \in Processes, config \in Configs : Edit(p, config)
    \/ ApplyStep
    \/ Kill
    \/ SystemdRetries

Spec == Init /\ [][Next]_vars

-------------------------------------------------------------------------------
Stages == {"idle", "prepare", "config", "snapshot", "nft", "migrate", "frontend",
           "stop", "plugins", "reload", "rebuild", "finalize", "daemon", "health",
           "save", "rollback", "restore"}

Names == {ConfigFile, Rules, Caddy} \union {Plugin(n) : n \in Plugins}
Action == [name : Names, priority : Int, was : Configs \union {None}]

(* Every variable has its type; apply.lock is held exactly while an apply is *)
(* under way, and the transaction never holds two actions for one resource.  *)
PipelineTypeOK ==
    /\ stored \in Document
    /\ mem \in [Processes -> Document \union {None}]
    /\ holder \in Processes \union {None}
    /\ stage \in Stages
    /\ (holder = None) <=> (stage = "idle")
    /\ (holder = None) <=> (entry = None)
    /\ host \in Host
    /\ undo \subseteq Action
    /\ \A action, other \in undo : action.name = other.name => action = other
    /\ broken \subseteq {"singbox", "frontend"}
    /\ lost \subseteq Names
    /\ ignored \subseteq Unchecked
    /\ edits \in 0..MaxEdits /\ applies \in 0..MaxApplies /\ faults \in 0..MaxFaults

\* The call of apply_config ends in this step: in success, or in failure.
Returns == holder # None /\ holder' = None /\ mem'[holder] # None
Succeeds == Returns /\ stage = "save"
Fails == Returns /\ stage = "restore"

\* The owner of port 443, now and after a reboot.  A Caddy that was to stop and
\* still runs goes unnoticed only where sing-box does not want its port.
FrontendCarries(config) ==
    IF Frontend[config] = "mux"
    THEN /\ host'.frontend = config /\ host'.frontendFile = config
         /\ host'.autostart \/ "boot frontend" \in ignored'
    ELSE /\ host'.frontend \notin Configs
            \/ (Frontend[config] = "none" /\ "stop frontend" \in ignored')
         /\ ~host'.autostart \/ "boot frontend" \in ignored'

\* A table nobody needs any more, a daemon without a unit: only a command that
\* was let fail leaves them.
RulesCarry(config) ==
    host'.nft = RulesOf(config) \/ (config \notin Tproxy /\ "delete rules" \in ignored')

AccountingCarries(config) ==
    IF config \in Accounted THEN host'.unit /\ host'.daemon
    ELSE ~host'.unit /\ (~host'.daemon \/ "stop daemon" \in ignored')

(* apply_config reports success only if every part of the host carries the   *)
(* desired state that is on disk at that moment, whatever other processes    *)
(* saved meanwhile and whatever an earlier apply left behind when it failed  *)
(* or was killed: file, running sing-box, rules, plugins, accounting and the *)
(* owner of port 443, now and after a reboot.  Excepted is what the code     *)
(* cannot know: the part a command left whose failure it does not look at.   *)
CommittedEverywhere ==
    [][Succeeds =>
        LET config == stored'.config IN
        /\ config = mem[holder].config
        /\ {host'.file, host'.singbox} = {config}
        /\ \A n \in Enabled[config] : host'.plugins[n] = config
        /\ RulesCarry(config) /\ AccountingCarries(config) /\ FrontendCarries(config)]_vars

\* sing-box's file as it was; a fresh host may be left with the minimal one.
FileRestored ==
    host'.file = before.file \/ (before.file = None /\ host'.file = Initial)

\* sing-box runs what it ran, unless Caddy took the port it needs.
SingboxRestored ==
    before.file # None /\ before.singbox = before.file =>
        host'.singbox = before.file \/ ~SingboxCanBind(before.file)

(* A failed apply puts back everything whose rollback was registered and did *)
(* not itself fail: one callback that fails spares no other resource its     *)
(* rollback, plugins that were half applied included.                        *)
FailedApplyRestores ==
    [][Fails =>
        LET skipped == lost \union {action.name : action \in undo} IN
        /\ ConfigFile \notin skipped => FileRestored /\ SingboxRestored
        /\ Rules \notin skipped => host'.nft = before.nft
        /\ \A n \in Plugins : Plugin(n) \notin skipped => host'.plugins[n] = before.plugins[n]
        /\ Caddy \notin skipped /\ before.frontendFile # None =>
              host'.frontendFile = before.frontendFile]_vars
===============================================================================
