------------------------- MODULE ApplyPipeline_proofs -------------------------
(***************************************************************************)
(* The apply pipeline for any number of processes, configurations, plugins,*)
(* edits, applies and faults.  The invariant has two halves: what the      *)
(* stages so far have brought to the desired configuration (Carried), and  *)
(* what the actions registered so far can put back (Undoable).             *)
(***************************************************************************)
EXTENDS ApplyPipeline, FiniteSetTheorems, TLAPS

(* The stages from each of these on, up to the save. *)
FromSave == {"save"}
FromHealth == {"health"} \union FromSave
FromFinalize == {"finalize", "daemon"} \union FromHealth
FromRebuild == {"rebuild"} \union FromFinalize
FromReload == {"reload"} \union FromRebuild
FromPlugins == {"plugins"} \union FromReload
FromStop == {"stop"} \union FromPlugins
FromMigrate == {"migrate", "frontend"} \union FromStop
FromSnapshot == {"snapshot", "nft"} \union FromMigrate

(* The stages in which sing-box has not been reloaded. *)
BeforeReload == {"prepare", "config"} \union (FromSnapshot \ FromRebuild)

Pending == {action.name : action \in undo}
Skipped == lost \union Pending

-------------------------------------------------------------------------------
Types ==
    /\ PipelineTypeOK
    /\ reload \in BOOLEAN
    /\ holder # None => {mem[holder], entry} \subseteq Document /\ before \in Host

(* What the transaction holds at a stage. *)
Gathered ==
    /\ stage \in {"prepare", "config"} => undo = {}
    /\ stage \in {"prepare", "config"} \union (FromSnapshot \ FromStop) => lost = {}
    /\ stage = "snapshot" => Pending \subseteq {ConfigFile}
    /\ stage \in {"nft", "migrate", "frontend"} => Pending \subseteq {ConfigFile, Rules}
    /\ stage = "nft" => Rules \in Pending
    /\ stage = "stop" => Applied = {}
    /\ stage \in {"stop", "plugins"} => lost \subseteq {Caddy}
    /\ stage \in FromStop => Caddy \in Skipped \/ before.frontendFile = None

(* What a stage has brought about, or a command it did not look at has left. *)
RulesStand ==
    host.nft = RulesOf(desired) \/ (desired \notin Tproxy /\ "delete rules" \in ignored)

FrontendStopped ==
    /\ host.frontend = "stopped" \/ "stop frontend" \in ignored
    /\ ~ host.autostart \/ "boot frontend" \in ignored

FrontendRuns ==
    /\ host.frontend = desired /\ host.frontendFile = desired
    /\ host.autostart \/ "boot frontend" \in ignored

\* A sing-box that listens on 443 itself runs only without Caddy.
SingboxRuns ==
    /\ host.singbox = desired
    /\ Frontend[desired] = "direct" => host.frontend \notin Configs

DaemonStands ==
    IF desired \in Accounted THEN host.unit /\ host.daemon
    ELSE ~ host.unit /\ (~ host.daemon \/ "stop daemon" \in ignored)

\* StopDaemon looks no further when there is no unit.
DaemonWithoutUnit == ~ host.unit /\ host.daemon => "stop daemon" \in ignored

(* Every stage that is done has left its part of the desired configuration. *)
Carried ==
    /\ stage \in FromSnapshot => host.file = desired
    /\ stage \in FromMigrate => RulesStand
    /\ stage = "stop" => Frontend[desired] # "mux"
    /\ stage \in FromPlugins /\ Frontend[desired] # "mux" => FrontendStopped
    /\ stage = "plugins" => Applied \subseteq Enabled[desired]
    /\ stage = "plugins" => \A n \in Applied : host.plugins[n] = desired
    /\ stage \in FromReload => \A n \in Enabled[desired] : host.plugins[n] = desired
    /\ stage \in FromRebuild => "singbox" \in broken \/ SingboxRuns
    /\ stage = "rebuild" => Frontend[desired] = "mux"
    /\ stage \in FromFinalize /\ Frontend[desired] = "mux" =>
           "frontend" \in broken \/ FrontendRuns
    /\ stage \in FromHealth => DaemonStands
    /\ stage = "save" => broken = {}
    /\ DaemonWithoutUnit

Was(name) ==
    CASE name = ConfigFile -> before.file
      [] name = Rules -> before.nft
      [] name = Caddy -> before.frontendFile
      [] OTHER -> before.plugins[name[2]]

FileBack == host.file = before.file \/ (before.file = None /\ host.file = Initial)
SingboxStood == before.file # None /\ before.singbox = before.file
SingboxBack == SingboxStood => host.singbox = before.file \/ ~ SingboxCanBind(before.file)

(* What nobody holds an action for, and no action failed to put back, is as it *)
(* was when the lock was taken.                                                *)
Undoable ==
    holder # None =>
        /\ \A action \in undo : action.was = Was(action.name)
        /\ Caddy \in Pending => before.frontendFile # None
        /\ Rules \notin Skipped => host.nft = before.nft
        /\ \A n \in Plugins : Plugin(n) \notin Skipped => host.plugins[n] = before.plugins[n]
        /\ Caddy \notin Skipped /\ before.frontendFile # None =>
               host.frontendFile = before.frontendFile
        /\ stage \in {"prepare", "config"} \union (FromSnapshot \ FromStop) =>
               host.frontendFile = before.frontendFile
        /\ ConfigFile \notin Skipped =>
               IF stage = "restore" THEN FileBack /\ SingboxBack ELSE host.file = before.file
        /\ stage \in BeforeReload \/ (stage = "rollback" /\ ~ reload) =>
               (SingboxStood => host.singbox = before.file)

PipelineInv == Types /\ Gathered /\ Carried /\ Undoable

-------------------------------------------------------------------------------
(* Constants and names.                                                      *)

LEMMA ConstantFacts ==
    /\ Initial \in Configs /\ None \notin Configs /\ None \notin Processes
    /\ "stopped" \notin Configs /\ "failed" \notin Configs
    /\ \A config \in Configs :
          /\ Frontend[config] \in {"mux", "direct", "none"}
          /\ IsFiniteSet(Enabled[config]) /\ Enabled[config] \subseteq Plugins
          /\ RulesOf(config) \in Configs \union {None}
    /\ Plugins \subseteq Nat
    /\ MaxEdits \in Nat /\ MaxApplies \in Nat /\ MaxFaults \in Nat
<1>1. /\ MaxEdits \in Nat /\ MaxApplies \in Nat /\ MaxFaults \in Nat
      /\ Frontend \in [Configs -> {"mux", "direct", "none"}]
      /\ Enabled \in [Configs -> SUBSET (Nat \ {0})]
  BY PipelineAssumption
<1>2. \A config \in Configs : Enabled[config] \subseteq Plugins
  BY DEF Plugins
<1>3. Plugins \subseteq Nat
  BY <1>1 DEF Plugins
<1>4. \A config \in Configs : RulesOf(config) \in Configs \union {None}
  BY DEF RulesOf
<1>5. QED
  BY <1>1, <1>2, <1>3, <1>4, PipelineAssumption

LEMMA NameFacts ==
    /\ ConfigFile # Rules /\ ConfigFile # Caddy /\ Rules # Caddy
    /\ ConfigFile[1] # "plugin" /\ Rules[1] # "plugin" /\ Caddy[1] # "plugin"
    /\ \A n : Plugin(n)[1] = "plugin" /\ Plugin(n)[2] = n
    /\ \A n : Plugin(n) # ConfigFile /\ Plugin(n) # Rules /\ Plugin(n) # Caddy
    /\ \A n, m : Plugin(n) = Plugin(m) => n = m
BY DEF ConfigFile, Rules, Caddy, Plugin

LEMMA NamesFacts ==
    ASSUME NEW name \in Names
    PROVE  \/ name \in {ConfigFile, Rules, Caddy}
           \/ name[1] = "plugin" /\ name[2] \in Plugins /\ name = Plugin(name[2])
BY NameFacts DEF Names

LEMMA PluginNames ==
    ASSUME NEW actions \in SUBSET Action, NEW n
    PROVE  LET named == {action.name : action \in actions}
               theirs == {action \in actions : action.name[1] = "plugin"}
           IN  /\ n \in {action.name[2] : action \in theirs} <=> Plugin(n) \in named
               /\ Plugin(n) \in named => n \in Plugins
<1>1. ASSUME NEW action \in actions, action.name[1] = "plugin", action.name[2] = n
      PROVE  action.name = Plugin(n)
  <2>1. action.name \in Names
    BY DEF Action
  <2>2. QED
    BY <1>1, <2>1, NamesFacts, NameFacts
<1>2. ASSUME NEW action \in actions, action.name = Plugin(n)
      PROVE  action.name[1] = "plugin" /\ action.name[2] = n /\ n \in Plugins
  <2>1. action.name \in Names
    BY DEF Action
  <2>2. QED
    BY <1>2, <2>1, NamesFacts, NameFacts
<1>3. QED
  BY <1>1, <1>2

(* A plugin is applied once its action is pending. *)
LEMMA AppliedFacts ==
    ASSUME undo \subseteq Action
    PROVE  /\ \A n : n \in Applied <=> Plugin(n) \in Pending
           /\ Applied \subseteq Plugins
BY PluginNames DEF Applied, PluginActions, Pending

LEMMA AppliedNextFacts ==
    ASSUME undo' \subseteq Action
    PROVE  /\ \A n : n \in Applied' <=> Plugin(n) \in Pending'
           /\ Applied' \subseteq Plugins
BY PluginNames DEF Applied, PluginActions, Pending

-------------------------------------------------------------------------------
(* What happens to the host, one resource at a time.                         *)

LEMMA HostFacts ==
    ASSUME NEW h \in Host
    PROVE  /\ h.file \in Configs \union {None} /\ h.singbox \in Service
           /\ h.nft \in Configs \union {None} /\ h.frontendFile \in Configs \union {None}
           /\ h.frontend \in Service /\ h.autostart \in BOOLEAN
           /\ h.plugins \in [Plugins -> Configs \union {None}]
           /\ h.unit \in BOOLEAN /\ h.daemon \in BOOLEAN
BY DEF Host

LEMMA FileFacts ==
    ASSUME NEW h \in Host, NEW v \in Configs \union {None}
    PROVE  LET new == [h EXCEPT !.file = v]
           IN  /\ new \in Host /\ new.file = v
               /\ new.singbox = h.singbox /\ new.nft = h.nft /\ new.frontendFile = h.frontendFile
               /\ new.frontend = h.frontend /\ new.autostart = h.autostart
               /\ new.plugins = h.plugins
               /\ new.unit = h.unit /\ new.daemon = h.daemon
BY DEF Host

LEMMA SingboxFacts ==
    ASSUME NEW h \in Host, NEW v \in Service
    PROVE  LET new == [h EXCEPT !.singbox = v]
           IN  /\ new \in Host /\ new.singbox = v
               /\ new.file = h.file /\ new.nft = h.nft /\ new.frontendFile = h.frontendFile
               /\ new.frontend = h.frontend /\ new.autostart = h.autostart
               /\ new.plugins = h.plugins
               /\ new.unit = h.unit /\ new.daemon = h.daemon
BY DEF Host

LEMMA NftFacts ==
    ASSUME NEW h \in Host, NEW v \in Configs \union {None}
    PROVE  LET new == [h EXCEPT !.nft = v]
           IN  /\ new \in Host /\ new.nft = v
               /\ new.file = h.file /\ new.singbox = h.singbox /\ new.frontendFile = h.frontendFile
               /\ new.frontend = h.frontend /\ new.autostart = h.autostart
               /\ new.plugins = h.plugins
               /\ new.unit = h.unit /\ new.daemon = h.daemon
BY DEF Host

LEMMA FrontendFileFacts ==
    ASSUME NEW h \in Host, NEW v \in Configs \union {None}
    PROVE  LET new == [h EXCEPT !.frontendFile = v]
           IN  /\ new \in Host /\ new.frontendFile = v
               /\ new.file = h.file /\ new.singbox = h.singbox /\ new.nft = h.nft
               /\ new.frontend = h.frontend /\ new.autostart = h.autostart
               /\ new.plugins = h.plugins
               /\ new.unit = h.unit /\ new.daemon = h.daemon
BY DEF Host

LEMMA RunningFacts ==
    ASSUME NEW h \in Host, NEW v \in Service
    PROVE  LET new == [h EXCEPT !.frontend = v]
           IN  /\ new \in Host /\ new.frontend = v
               /\ new.file = h.file /\ new.singbox = h.singbox /\ new.nft = h.nft
               /\ new.frontendFile = h.frontendFile /\ new.autostart = h.autostart
               /\ new.plugins = h.plugins
               /\ new.unit = h.unit /\ new.daemon = h.daemon
BY DEF Host

LEMMA AutostartFacts ==
    ASSUME NEW h \in Host, NEW v \in BOOLEAN
    PROVE  LET new == [h EXCEPT !.autostart = v]
           IN  /\ new \in Host /\ new.autostart = v
               /\ new.file = h.file /\ new.singbox = h.singbox /\ new.nft = h.nft
               /\ new.frontendFile = h.frontendFile /\ new.frontend = h.frontend
               /\ new.plugins = h.plugins
               /\ new.unit = h.unit /\ new.daemon = h.daemon
BY DEF Host

LEMMA PluginsFacts ==
    ASSUME NEW h \in Host, NEW n \in Plugins, NEW v \in Configs \union {None}
    PROVE  LET new == [h EXCEPT !.plugins[n] = v]
           IN  /\ new \in Host /\ new.file = h.file /\ new.singbox = h.singbox /\ new.nft = h.nft
               /\ new.frontendFile = h.frontendFile /\ new.frontend = h.frontend
               /\ new.autostart = h.autostart /\ new.unit = h.unit /\ new.daemon = h.daemon
               /\ new.plugins[n] = v
               /\ \A m \in Plugins : m # n => new.plugins[m] = h.plugins[m]
<1> DEFINE p == [h.plugins EXCEPT ![n] = v]
<1>1. /\ p \in [Plugins -> Configs \union {None}] /\ p[n] = v
      /\ \A m \in Plugins : m # n => p[m] = h.plugins[m]
  BY HostFacts
<1>2. [h EXCEPT !.plugins[n] = v] = [h EXCEPT !.plugins = p]
  OBVIOUS
<1> HIDE DEF p
<1>3. QED
  BY <1>1, <1>2 DEF Host

(* sing-box after a restart: it runs its file, or fails. *)
LEMMA RestartedFacts ==
    ASSUME host \in Host
    PROVE  LET new == Restarted(host)
           IN  /\ new \in Host /\ new.nft = host.nft /\ new.plugins = host.plugins
               /\ new.frontendFile = host.frontendFile /\ new.frontend = host.frontend
               /\ new.autostart = host.autostart
               /\ new.unit = host.unit /\ new.daemon = host.daemon
               /\ host.file # None =>
                     /\ new.file = host.file
                     /\ new.singbox = IF SingboxCanBind(host.file) THEN host.file ELSE "failed"
               /\ host.file = None => new.file \in {None, Initial}
<1>1. CASE host.file # None
  <2> DEFINE v == IF SingboxCanBind(host.file) THEN host.file ELSE "failed"
  <2>1. v \in Service
    BY <1>1, HostFacts DEF Service
  <2>2. Restarted(host) = [host EXCEPT !.singbox = v]
    BY <1>1 DEF Restarted
  <2> HIDE DEF v
  <2>3. /\ Restarted(host) \in Host /\ Restarted(host).singbox = v
        /\ Restarted(host).nft = host.nft /\ Restarted(host).plugins = host.plugins
        /\ Restarted(host).frontendFile = host.frontendFile /\ Restarted(host).file = host.file
        /\ Restarted(host).frontend = host.frontend
        /\ Restarted(host).autostart = host.autostart
        /\ Restarted(host).unit = host.unit /\ Restarted(host).daemon = host.daemon
    BY <2>1, <2>2, SingboxFacts
  <2>4. QED
    BY <1>1, <2>3 DEF v
<1>2. CASE host.file = None /\ host.singbox \in Configs
  <2>1. "failed" \in Service /\ Restarted(host) = [host EXCEPT !.singbox = "failed"]
    BY <1>2 DEF Service, Restarted
  <2>2. QED
    BY <1>2, <2>1, SingboxFacts
<1>3. CASE host.file = None /\ host.singbox \notin Configs
  <2> DEFINE h == [host EXCEPT !.file = Initial]
  <2>1. /\ h \in Host /\ h.file = Initial /\ h.nft = host.nft /\ h.plugins = host.plugins
        /\ h.frontendFile = host.frontendFile /\ h.frontend = host.frontend
        /\ h.autostart = host.autostart /\ h.unit = host.unit /\ h.daemon = host.daemon
    BY ConstantFacts, FileFacts
  <2>2. Restarted(host) = [h EXCEPT !.singbox = Initial] /\ Initial \in Service
    BY <1>3, ConstantFacts DEF Restarted, Service
  <2> HIDE DEF h
  <2>3. QED
    BY <1>3, <2>1, <2>2, SingboxFacts
<1>4. QED
  BY <1>1, <1>2, <1>3

(* Caddy after a restart with a configuration file. *)
LEMMA FrontendFacts ==
    ASSUME host \in Host, NEW config \in Configs
    PROVE  LET new == FrontendRestarted(config)
           IN  /\ new \in Host /\ new.nft = host.nft /\ new.plugins = host.plugins
               /\ new.file = host.file /\ new.singbox = host.singbox
               /\ new.autostart = host.autostart
               /\ new.unit = host.unit /\ new.daemon = host.daemon
               /\ new.frontendFile = config
               /\ FrontendCanBind => new.frontend = config
<1> DEFINE v == IF FrontendCanBind THEN config ELSE "failed"
           h == [host EXCEPT !.frontendFile = config]
<1>1. v \in Service
  BY DEF Service
<1>2. /\ h \in Host /\ h.file = host.file /\ h.nft = host.nft /\ h.plugins = host.plugins
      /\ h.frontendFile = config /\ h.singbox = host.singbox
      /\ h.autostart = host.autostart /\ h.unit = host.unit /\ h.daemon = host.daemon
  BY FrontendFileFacts
<1>3. FrontendRestarted(config) = [h EXCEPT !.frontend = v]
  BY DEF FrontendRestarted
<1>4. FrontendCanBind => v = config
  OBVIOUS
<1> HIDE DEF v, h
<1>5. QED
  BY <1>1, <1>2, <1>3, <1>4, RunningFacts

-------------------------------------------------------------------------------
(* Rollback actions.                                                         *)

Unique == \A action, other \in undo : action.name = other.name => action = other

LEMMA WasFacts ==
    /\ Was(ConfigFile) = before.file /\ Was(Rules) = before.nft
    /\ Was(Caddy) = before.frontendFile
    /\ \A n : Was(Plugin(n)) = before.plugins[n]
BY NameFacts DEF Was

LEMMA RegisterFacts ==
    ASSUME undo \subseteq Action, Unique, NEW name \in Names, name \notin Pending,
           NEW priority \in Int, NEW was \in Configs \union {None}, Register(name, priority, was)
    PROVE  /\ undo' \subseteq Action /\ Unique' /\ Pending' = Pending \union {name}
           /\ \A action \in undo' : action \in undo \/ (action.name = name /\ action.was = was)
<1> DEFINE new == [name |-> name, priority |-> priority, was |-> was]
<1>1. new \in Action /\ new.name = name /\ new.was = was
  BY DEF Action
<1>2. undo' = undo \union {new}
  BY DEF Register
<1> HIDE DEF new
<1>3. QED
  BY <1>1, <1>2 DEF Unique, Pending

LEMMA DroppedFacts ==
    ASSUME Unique, NEW action \in undo, undo' = undo \ {action}
    PROVE  Unique' /\ Pending' = Pending \ {action.name} /\ undo' \subseteq undo
BY DEF Unique, Pending

-------------------------------------------------------------------------------
(* Saving.                                                                   *)

LEMMA FaultFacts ==
    ASSUME Types, Fault \/ UNCHANGED faults
    PROVE  faults' \in 0..MaxFaults
BY ConstantFacts DEF Types, PipelineTypeOK, Fault

LEMMA NumberedFacts ==
    ASSUME stored \in Document, NEW document \in Document
    PROVE  Numbered(document) \in Document /\ Numbered(document).config = document.config
<1> DEFINE next == IF SameDesired(document, stored) THEN stored.revision ELSE stored.revision + 1
<1>1. next \in Nat
  BY DEF Document
<1>2. Numbered(document) = [document EXCEPT !.revision = next]
  BY DEF Numbered
<1> HIDE DEF next
<1>3. QED
  BY <1>1, <1>2 DEF Document

LEMMA SaveFacts ==
    ASSUME Types, NEW p \in Processes, NEW document \in Document,
           SaveAccepted(p, document) \/ SaveRaises(p, document)
    PROVE  /\ stored' \in Document /\ mem' \in [Processes -> Document \union {None}]
           /\ mem'[p] \in Document /\ mem'[p].config = document.config
           /\ \A q \in Processes : q # p => mem'[q] = mem[q]
           /\ SaveAccepted(p, document) => stored'.config = document.config
           /\ faults' \in 0..MaxFaults
<1>1. Numbered(document) \in Document /\ Numbered(document).config = document.config
  BY NumberedFacts DEF Types, PipelineTypeOK
<1>2. faults' \in 0..MaxFaults
  BY FaultFacts DEF SaveAccepted, SaveRaises
<1>3. PICK new \in {document, Numbered(document)} : mem' = [mem EXCEPT ![p] = new]
  BY DEF SaveAccepted, SaveRaises
<1>4. stored' \in Document /\ (SaveAccepted(p, document) => stored'.config = document.config)
  BY <1>1 DEF SaveAccepted, SaveRaises, Types, PipelineTypeOK
<1>5. QED
  BY <1>1, <1>2, <1>3, <1>4 DEF Types, PipelineTypeOK

LEMMA FlaggedFacts ==
    ASSUME Types, holder # None, NEW flag \in Flags
    PROVE  Flagged(flag) \in Document /\ Flagged(flag).config = mem[holder].config
BY DEF Types, Flagged, Document

LEMMA HolderFacts ==
    ASSUME PipelineInv, holder # None
    PROVE  /\ holder \in Processes /\ mem[holder] \in Document /\ desired \in Configs
           /\ entry \in Document /\ before \in Host /\ host \in Host
           /\ undo \subseteq Action /\ Unique
BY DEF PipelineInv, Types, PipelineTypeOK, Unique, desired, Document

-------------------------------------------------------------------------------
(* Steps of one kind.                                                        *)

LEMMA TypesGood ==
    ASSUME Types, holder # None, UNCHANGED <<holder, entry, before, edits, applies>>,
           stage' \in Stages \ {"idle"}, reload' \in BOOLEAN,
           stored' \in Document, mem' \in [Processes -> Document \union {None}],
           mem'[holder] \in Document, host' \in Host, undo' \subseteq Action, Unique',
           broken' \subseteq {"singbox", "frontend"}, lost' \subseteq Names,
           ignored' \subseteq Unchecked, faults' \in 0..MaxFaults
    PROVE  Types'
BY DEF Types, PipelineTypeOK, Unique

(* The lock is let go. *)
LEMMA ReleaseGood ==
    ASSUME PipelineInv, Release, stored' \in Document,
           mem' \in [Processes -> Document \union {None}], UNCHANGED host,
           faults' \in 0..MaxFaults
    PROVE  PipelineInv'
<1> USE DEF PipelineInv, Release
<1>1. Types'
  BY DEF Types, PipelineTypeOK, outside, Stages
<1>2. Gathered' /\ Carried' /\ Undoable'
  BY DEF Gathered, Carried, DaemonWithoutUnit, Undoable, FromSnapshot, FromMigrate, FromStop,
     FromPlugins, FromReload, FromRebuild, FromFinalize, FromHealth, FromSave
<1>3. QED
  BY <1>1, <1>2

(* Another process works on a copy of its own. *)
LEMMA OutsideGood ==
    ASSUME PipelineInv, PipelineTypeOK',
           UNCHANGED <<holder, stage, entry, undo, broken, reload, host, before, lost, ignored>>,
           holder # None => mem'[holder] = mem[holder]
    PROVE  PipelineInv'
<1> USE DEF PipelineInv
<1>1. Types'
  BY DEF Types
<1>2. UNCHANGED <<Pending, Skipped, Applied>>
  BY DEF Pending, Skipped, Applied, PluginActions
<1>3. Gathered'
  BY <1>2 DEF Gathered
<1>4. Carried'
  <2>1. CASE holder = None
    <3>1. stage' = "idle"
      BY <2>1 DEF Types, PipelineTypeOK
    <3>2. QED
      BY <3>1 DEF Carried, DaemonWithoutUnit, FromSnapshot, FromMigrate, FromStop, FromPlugins,
         FromReload, FromRebuild, FromFinalize, FromHealth, FromSave
  <2>2. CASE holder # None
    <3>1. UNCHANGED desired
      BY <2>2 DEF desired
    <3>2. UNCHANGED <<RulesStand, FrontendStopped, FrontendRuns, SingboxRuns, DaemonStands,
                      DaemonWithoutUnit>>
      BY <3>1 DEF RulesStand, RulesOf, FrontendStopped, FrontendRuns, SingboxRuns,
         DaemonStands, DaemonWithoutUnit
    <3>3. QED
      BY <1>2, <3>1, <3>2 DEF Carried
  <2>3. QED
    BY <2>1, <2>2
<1>5. Undoable'
  BY <1>2, WasFacts DEF Undoable, Was, FileBack, SingboxStood, SingboxBack, SingboxCanBind
<1>6. QED
  BY <1>1, <1>3, <1>4, <1>5

(* The apply goes on, or gives up, without touching the host. *)
LEMMA QuietGood ==
    ASSUME PipelineInv, holder # None, Types',
           UNCHANGED <<holder, entry, before, host, undo, lost, ignored>>,
           mem'[holder].config = mem[holder].config,
           \/ stage = "prepare" /\ stage' = "config"
           \/ stage = "migrate" /\ stage' = "frontend"
           \/ stage = "finalize" /\ stage' = "daemon" /\ UNCHANGED broken
           \/ stage = "health" /\ stage' = "save" /\ broken' = {} /\ UNCHANGED broken
           \/ stage \in {"prepare", "config", "snapshot", "migrate"} /\ stage' = "restore"
           \/ stage \in FromReload /\ stage' = "rollback" /\ reload' = TRUE
    PROVE  PipelineInv'
<1> USE DEF PipelineInv, FromSnapshot, FromMigrate, FromStop, FromPlugins, FromReload,
            FromRebuild, FromFinalize, FromHealth, FromSave, BeforeReload
<1>1. UNCHANGED <<Pending, Skipped, Applied, desired>>
  BY DEF Pending, Skipped, Applied, PluginActions, desired
<1>2. Gathered'
  BY <1>1 DEF Gathered
<1>3. Carried'
  BY <1>1 DEF Carried, RulesStand, FrontendStopped, FrontendRuns, SingboxRuns,
     DaemonStands, DaemonWithoutUnit
<1>4. Undoable'
  <2>1. UNCHANGED <<FileBack, SingboxStood, SingboxBack>>
    BY DEF FileBack, SingboxStood, SingboxBack, SingboxCanBind
  <2>2. \A action \in undo' : action.was = Was(action.name)'
    BY DEF Undoable, Was
  <2>3. stage' = "restore" /\ ConfigFile \notin Skipped => FileBack /\ SingboxBack
    BY DEF Undoable, FileBack, SingboxBack
  <2>4. QED
    BY <1>1, <2>1, <2>2, <2>3 DEF Undoable
<1>5. QED
  BY <1>2, <1>3, <1>4

-------------------------------------------------------------------------------
(* Processes outside the pipeline.                                           *)

LEMMA ElsewhereGood ==
    ASSUME PipelineInv, NEW p \in Processes,
           Load(p) \/ Save(p) \/ (\E config \in Configs : Edit(p, config))
    PROVE  PipelineInv'
<1> USE DEF PipelineInv
<1>1. /\ p # holder
      /\ UNCHANGED <<holder, stage, entry, undo, broken, reload, host, before, lost, ignored,
                     applies>>
  BY DEF Load, Save, Edit, Elsewhere
<1>2. /\ stored' \in Document /\ mem' \in [Processes -> Document \union {None}]
      /\ \A q \in Processes : q # p => mem'[q] = mem[q]
      /\ edits' \in 0..MaxEdits /\ faults' \in 0..MaxFaults
  <2>1. CASE Load(p)
    BY <2>1 DEF Load, Types, PipelineTypeOK
  <2>2. CASE Save(p)
    BY <2>2, SaveFacts DEF Save, Types, PipelineTypeOK
  <2>3. CASE \E config \in Configs : Edit(p, config)
    <3>1. PICK config \in Configs : Edit(p, config)
      BY <2>3
    <3>2. mem[p] \in Document
      BY <3>1 DEF Edit, Types, PipelineTypeOK
    <3>3. [mem[p] EXCEPT !.config = config] \in Document
      BY <3>2 DEF Document
    <3>4. PICK new \in Document : mem' = [mem EXCEPT ![p] = new]
      BY <3>1, <3>3 DEF Edit
    <3>5. QED
      BY <3>1, <3>4, ConstantFacts DEF Edit, Types, PipelineTypeOK
  <2>4. QED
    BY <2>1, <2>2, <2>3
<1>3. PipelineTypeOK'
  BY <1>1, <1>2 DEF Types, PipelineTypeOK
<1>4. QED
  BY <1>1, <1>2, <1>3, OutsideGood DEF Types, PipelineTypeOK

LEMMA BeginGood ==
    ASSUME PipelineInv, NEW p \in Processes, Begin(p)
    PROVE  PipelineInv'
<1> USE DEF PipelineInv
<1>1. /\ holder' = p /\ stage' = "prepare" /\ entry' = mem[p] /\ before' = host
      /\ undo' = {} /\ broken' = {} /\ reload' = FALSE /\ lost' = {}
      /\ UNCHANGED <<stored, mem, host, ignored, edits, faults>> /\ mem[p] # None
      /\ applies' \in 0..MaxApplies
  BY ConstantFacts DEF Begin, state, Types, PipelineTypeOK
<1>2. mem[p] \in Document
  BY <1>1 DEF Types, PipelineTypeOK
<1>3. Types'
  BY <1>1, <1>2, ConstantFacts DEF Types, PipelineTypeOK, Stages
<1>4. Gathered' /\ Carried'
  BY <1>1 DEF Gathered, Carried, DaemonWithoutUnit, FromSnapshot, FromMigrate, FromStop,
     FromPlugins, FromReload, FromRebuild, FromFinalize, FromHealth, FromSave
<1>5. Undoable'
  BY <1>1 DEF Undoable, SingboxStood, Pending
<1>6. QED
  BY <1>3, <1>4, <1>5

-------------------------------------------------------------------------------
(* The stages.                                                               *)

LEMMA PrepareGood ==
    ASSUME PipelineInv, Prepare
    PROVE  PipelineInv'
<1> USE DEF PipelineInv
<1>1. /\ holder # None /\ stage = "prepare" /\ stage' \in {"config", "restore"}
      /\ UNCHANGED <<holder, entry, reload, before, edits, applies, undo, broken, host, lost,
                     ignored>>
  BY DEF Prepare, SetFlag, At, GoTo, Leave, outside
<1>2. Flagged("tproxy") \in Document /\ Flagged("tproxy").config = mem[holder].config
  BY <1>1, FlaggedFacts DEF Flags
<1>3. /\ stored' \in Document /\ mem' \in [Processes -> Document \union {None}]
      /\ mem'[holder] \in Document /\ mem'[holder].config = mem[holder].config
      /\ faults' \in 0..MaxFaults
  BY <1>1, <1>2, HolderFacts, SaveFacts, FaultFacts
  DEF Prepare, SetFlag, state, Types, PipelineTypeOK
<1>4. Types'
  BY <1>1, <1>3, HolderFacts, TypesGood DEF Types, PipelineTypeOK, Unique, Stages
<1>5. QED
  BY <1>1, <1>3, <1>4, QuietGood

LEMMA MigrateHaproxyGood ==
    ASSUME PipelineInv, MigrateHaproxy
    PROVE  PipelineInv'
<1> USE DEF PipelineInv
<1>1. /\ holder # None /\ stage = "migrate" /\ stage' \in {"frontend", "restore"}
      /\ UNCHANGED <<holder, entry, reload, before, edits, applies, undo, broken, host, lost,
                     ignored>>
  BY DEF MigrateHaproxy, SetFlag, At, GoTo, Leave, outside
<1>2. Flagged("caddy_l4") \in Document /\ Flagged("caddy_l4").config = mem[holder].config
  BY <1>1, FlaggedFacts DEF Flags
<1>3. /\ stored' \in Document /\ mem' \in [Processes -> Document \union {None}]
      /\ mem'[holder] \in Document /\ mem'[holder].config = mem[holder].config
      /\ faults' \in 0..MaxFaults
  BY <1>1, <1>2, HolderFacts, SaveFacts, FaultFacts
  DEF MigrateHaproxy, SetFlag, state, Types, PipelineTypeOK
<1>4. Types'
  BY <1>1, <1>3, HolderFacts, TypesGood DEF Types, PipelineTypeOK, Unique, Stages
<1>5. QED
  BY <1>1, <1>3, <1>4, QuietGood

(* Without a save, a host command or a registration. *)
LEMMA PlainGood ==
    ASSUME PipelineInv,
           \/ At("config") /\ Leave
           \/ At("snapshot") /\ Leave
           \/ At("finalize") /\ GoTo("daemon")
           \/ At("health") /\ broken = {} /\ GoTo("save")
           \/ stage \in FromReload /\ holder # None /\ Fail(TRUE),
           UNCHANGED <<stored, mem, undo, broken, host, lost, ignored>>,
           Fault \/ UNCHANGED faults
    PROVE  PipelineInv'
<1> USE DEF PipelineInv
<1>1. /\ holder # None
      /\ UNCHANGED <<stored, mem, holder, entry, before, edits, applies, undo, broken, host, lost,
                     ignored>>
      /\ reload' \in BOOLEAN /\ stage' \in Stages \ {"idle"}
  BY DEF At, GoTo, Leave, Fail, outside, Types, Stages
<1>2. Types'
  BY <1>1, HolderFacts, FaultFacts, TypesGood DEF Types, PipelineTypeOK, Unique
<1>3. QED
  BY <1>1, <1>2, QuietGood DEF At, GoTo, Leave, Fail

LEMMA WriteConfigGood ==
    ASSUME PipelineInv, WriteConfig
    PROVE  PipelineInv'
<1> USE DEF PipelineInv
<1>1. CASE At("config") /\ Fault /\ Leave /\ UNCHANGED <<undo, host>>
  BY <1>1, PlainGood DEF WriteConfig, state
<1>2. CASE /\ At("config") /\ host' = [host EXCEPT !.file = desired]
           /\ Register(ConfigFile, 10, host.file)
           /\ GoTo("snapshot")
           /\ UNCHANGED faults
  <2>1. /\ holder # None /\ stage = "config" /\ stage' = "snapshot"
        /\ UNCHANGED <<stored, mem, holder, entry, reload, before, edits, applies, broken, lost,
                       ignored>>
    BY <1>2 DEF WriteConfig, At, GoTo, outside, state
  <2>2. /\ host' \in Host /\ host'.file = desired /\ host'.singbox = host.singbox
        /\ host'.nft = host.nft /\ host'.frontendFile = host.frontendFile
        /\ host'.frontend = host.frontend /\ host'.plugins = host.plugins
        /\ host'.unit = host.unit /\ host'.daemon = host.daemon
    BY <1>2, <2>1, HolderFacts, FileFacts
  <2>3. undo = {} /\ Pending = {} /\ ConfigFile \in Names /\ host.file \in Configs \union {None}
    BY <2>1, HolderFacts, HostFacts DEF Gathered, Pending, Names
  <2>4. /\ undo' \subseteq Action /\ Unique' /\ Pending' = {ConfigFile}
        /\ \A action \in undo' : action.name = ConfigFile /\ action.was = host.file
    BY <1>2, <2>1, <2>3, HolderFacts, RegisterFacts
  <2>5. Types'
    BY <1>2, <2>1, <2>2, <2>4, HolderFacts, FaultFacts, TypesGood DEF Types, PipelineTypeOK,
       Stages
  <2>6. Gathered'
    BY <2>1, <2>4 DEF Gathered, FromStop, FromPlugins, FromReload, FromRebuild, FromFinalize,
       FromHealth, FromSave
  <2>7. Carried'
    BY <2>1, <2>2 DEF Carried, DaemonWithoutUnit, desired, FromMigrate, FromStop, FromPlugins,
       FromReload, FromRebuild, FromFinalize, FromHealth, FromSave
  <2>8. Undoable'
    <3>1. /\ host.file = before.file /\ host.nft = before.nft
          /\ host.frontendFile = before.frontendFile
          /\ \A n \in Plugins : host.plugins[n] = before.plugins[n]
          /\ SingboxStood => host.singbox = before.file
      <4>1. Skipped = {}
        BY <2>1, <2>3 DEF Gathered, Skipped
      <4>2. QED
        BY <2>1, <4>1 DEF Undoable, BeforeReload, FromSnapshot, FromStop, FromMigrate
    <3>2. QED
      BY <2>1, <2>2, <2>4, <3>1, NameFacts, WasFacts DEF Undoable, Skipped, SingboxStood, Was
  <2>9. QED
    BY <2>5, <2>6, <2>7, <2>8
<1>3. QED
  BY <1>1, <1>2 DEF WriteConfig

(* A stage changes only what an action is held for, or what was lost. *)
LEMMA UndoableGood ==
    ASSUME PipelineInv, holder # None, UNCHANGED <<holder, before>>,
           stage \in FromSnapshot, stage' \in FromSnapshot \union {"rollback"},
           Skipped \subseteq Skipped', \A action \in undo' : action.was = Was(action.name),
           Caddy \in Pending' => Caddy \in Pending \/ before.frontendFile # None,
           Rules \in Skipped' \/ host'.nft = host.nft,
           \A n \in Plugins : Plugin(n) \in Skipped' \/ host'.plugins[n] = host.plugins[n],
           \/ Caddy \in Skipped' \/ before.frontendFile = None
           \/ host'.frontendFile = host.frontendFile,
           stage' \in FromSnapshot \ FromStop =>
               stage \notin FromStop /\ host'.frontendFile = host.frontendFile,
           ConfigFile \in Skipped' \/ host'.file = host.file,
           stage' \in BeforeReload \/ (stage' = "rollback" /\ ~ reload') =>
               stage \in BeforeReload /\ host'.singbox = host.singbox
    PROVE  Undoable'
<1> USE DEF PipelineInv, FromSnapshot, FromMigrate, FromStop, FromPlugins, FromReload,
            FromRebuild, FromFinalize, FromHealth, FromSave
<1>1. UNCHANGED SingboxStood /\ \A action \in undo' : Was(action.name)' = Was(action.name)
  BY DEF SingboxStood, Was
<1>2. stage # "restore" /\ stage' # "restore" /\ stage' \notin {"prepare", "config"}
  OBVIOUS
<1>3. QED
  BY <1>1, <1>2 DEF Undoable

LEMMA SnapshotNftGood ==
    ASSUME PipelineInv, SnapshotNft
    PROVE  PipelineInv'
<1> USE DEF PipelineInv
<1>1. CASE At("snapshot") /\ Fault /\ Leave /\ UNCHANGED undo
  BY <1>1, PlainGood DEF SnapshotNft, state
<1>2. CASE At("snapshot") /\ Register(Rules, 20, host.nft) /\ GoTo("nft") /\ UNCHANGED faults
  <2>1. /\ holder # None /\ stage = "snapshot" /\ stage' = "nft"
        /\ UNCHANGED <<stored, mem, holder, entry, reload, before, edits, applies, broken, lost,
                       ignored, host>>
    BY <1>2 DEF SnapshotNft, At, GoTo, outside, state
  <2>2. Pending \subseteq {ConfigFile} /\ lost = {} /\ host.nft \in Configs \union {None}
    BY <2>1, HolderFacts, HostFacts DEF Gathered, FromSnapshot, FromMigrate, FromStop,
       FromPlugins, FromReload, FromRebuild, FromFinalize, FromHealth, FromSave
  <2>3. Rules \notin Skipped /\ host.nft = before.nft /\ Rules \in Names
    BY <2>1, <2>2, NameFacts DEF Undoable, Skipped, Names
  <2>4. /\ undo' \subseteq Action /\ Unique' /\ Pending' = Pending \union {Rules}
        /\ \A action \in undo' :
              action \in undo \/ (action.name = Rules /\ action.was = host.nft)
    BY <1>2, <2>1, <2>2, <2>3, HolderFacts, RegisterFacts DEF Skipped
  <2>5. Types'
    BY <1>2, <2>1, <2>4, HolderFacts, FaultFacts, TypesGood DEF Types, PipelineTypeOK, Stages
  <2>6. Gathered'
    BY <2>1, <2>2, <2>4 DEF Gathered, FromStop, FromPlugins, FromReload, FromRebuild,
       FromFinalize, FromHealth, FromSave
  <2>7. Carried'
    BY <2>1 DEF Carried, DaemonWithoutUnit, desired, FromSnapshot, FromMigrate, FromStop,
       FromPlugins, FromReload, FromRebuild, FromFinalize, FromHealth, FromSave
  <2>8. Undoable'
    <3>1. \A action \in undo' : action.was = Was(action.name)
      BY <2>1, <2>3, <2>4, WasFacts DEF Undoable
    <3>2. Skipped \subseteq Skipped'
      BY <2>1, <2>4 DEF Skipped
    <3>3. QED
      BY <2>1, <2>4, <3>1, <3>2, NameFacts, UndoableGood
      DEF BeforeReload, FromSnapshot, FromMigrate, FromStop, FromPlugins, FromReload,
          FromRebuild, FromFinalize, FromHealth, FromSave
  <2>9. QED
    BY <2>5, <2>6, <2>7, <2>8
<1>3. QED
  BY <1>1, <1>2 DEF SnapshotNft

(* A step of the stages that registers nothing and loses nothing. *)
LEMMA StageFacts ==
    ASSUME PipelineInv, holder # None, NEW next \in Stages \ {"idle"},
           GoTo(next) \/ \E r \in BOOLEAN : Fail(r),
           UNCHANGED <<stored, mem, undo, lost>>
    PROVE  /\ UNCHANGED <<holder, entry, before, edits, applies, Pending, Skipped, Applied,
                          desired>>
           /\ reload' \in BOOLEAN /\ stage' \in Stages \ {"idle"}
           /\ undo' \subseteq Action /\ Unique' /\ lost' \subseteq Names
           /\ stored' \in Document /\ mem' \in [Processes -> Document \union {None}]
           /\ mem'[holder] \in Document /\ Types
           /\ \A action \in undo' : action.was = Was(action.name)
<1>1. UNCHANGED <<holder, Pending, Skipped, Applied, desired>>
  BY DEF GoTo, Fail, Pending, Skipped, Applied, PluginActions, desired
<1>2. QED
  BY <1>1, HolderFacts DEF PipelineInv, GoTo, Fail, outside, Types, PipelineTypeOK, Unique,
     Stages, Undoable

LEMMA ApplyNftGood ==
    ASSUME PipelineInv, ApplyNft
    PROVE  PipelineInv'
<1> USE DEF PipelineInv
<1>0. /\ holder # None /\ host \in Host /\ desired \in Configs
      /\ RulesOf(desired) \in Configs \union {None} /\ ignored \subseteq Unchecked
  BY HolderFacts, ConstantFacts DEF ApplyNft, At, Types, PipelineTypeOK
<1>1. /\ stage = "nft" /\ UNCHANGED <<stored, mem, undo, broken, lost>>
      /\ \/ /\ stage' = "migrate" /\ GoTo("migrate")
            /\ \/ host' = [host EXCEPT !.nft = RulesOf(desired)]
               \/ host' = host /\ desired \notin Tproxy /\ "delete rules" \in ignored'
         \/ stage' = "rollback" /\ Fail(FALSE) /\ reload' = FALSE
      /\ host' = host \/ host' = [host EXCEPT !.nft = RulesOf(desired)]
      /\ ignored' \subseteq Unchecked /\ ("stop daemon" \in ignored => "stop daemon" \in ignored')
      /\ Fault \/ UNCHANGED faults
  BY <1>0 DEF ApplyNft, At, GoTo, Fail, state, Unchecked
<1>2. /\ host' \in Host /\ host'.file = host.file /\ host'.singbox = host.singbox
      /\ host'.frontendFile = host.frontendFile
      /\ host'.frontend = host.frontend /\ host'.plugins = host.plugins
      /\ host'.unit = host.unit /\ host'.daemon = host.daemon
      /\ host' = host \/ host'.nft = RulesOf(desired)
  <2>1. CASE host' = host
    BY <1>0, <2>1
  <2>2. CASE host' = [host EXCEPT !.nft = RulesOf(desired)]
    BY <1>0, <2>2, NftFacts
  <2>3. QED
    BY <1>1, <2>1, <2>2
<1>3. /\ UNCHANGED <<holder, entry, before, edits, applies, Pending, Skipped, Applied, desired>>
      /\ \A action \in undo' : action.was = Was(action.name)
  BY <1>0, <1>1, StageFacts DEF Stages
<1>4. Types'
  BY <1>0, <1>1, <1>2, StageFacts, FaultFacts, TypesGood DEF Types, PipelineTypeOK, Stages
<1>5. Gathered' /\ Carried'
  <2>1. stage' = "migrate" => RulesStand'
    <3>1. CASE host' = [host EXCEPT !.nft = RulesOf(desired)]
      <4>1. host'.nft = RulesOf(desired)
        BY <1>0, <3>1, NftFacts
      <4>2. QED
        BY <1>3, <4>1 DEF RulesStand, RulesOf
    <3>2. CASE desired \notin Tproxy /\ "delete rules" \in ignored'
      BY <1>3, <3>2 DEF RulesStand
    <3>3. QED
      BY <1>1, <3>1, <3>2
  <2>2. DaemonWithoutUnit'
    BY <1>1, <1>2 DEF Carried, DaemonWithoutUnit
  <2>3. QED
    BY <1>0, <1>1, <1>2, <1>3, <2>1, <2>2 DEF Gathered, Carried, FromSnapshot, FromMigrate,
       FromStop, FromPlugins, FromReload, FromRebuild, FromFinalize, FromHealth, FromSave
<1>6. Undoable'
  <2>1. Rules \in Skipped
    BY <1>1 DEF Gathered, Skipped
  <2>2. QED
    BY <1>0, <1>1, <1>2, <1>3, <2>1, UndoableGood
    DEF BeforeReload, FromSnapshot, FromMigrate, FromStop, FromPlugins, FromReload,
        FromRebuild, FromFinalize, FromHealth, FromSave
<1>7. QED
  BY <1>4, <1>5, <1>6

LEMMA SnapshotFrontendGood ==
    ASSUME PipelineInv, SnapshotFrontend
    PROVE  PipelineInv'
<1> USE DEF PipelineInv
<1>1. /\ holder # None /\ stage = "frontend"
      /\ UNCHANGED <<stored, mem, host, broken, ignored>>
      /\ stage' = IF Frontend[desired] = "mux" THEN "plugins" ELSE "stop"
      /\ UNCHANGED <<holder, entry, reload, before, edits, applies>>
      /\ Fault \/ UNCHANGED faults
  BY DEF SnapshotFrontend, At, GoTo, outside, state
<1>2. /\ Pending \subseteq {ConfigFile, Rules} /\ lost = {}
      /\ host.frontendFile \in Configs \union {None} /\ Caddy \in Names
      /\ host.frontendFile = before.frontendFile
  BY <1>1, HolderFacts, HostFacts DEF Gathered, Undoable, Names, FromSnapshot, FromMigrate,
     FromStop, FromPlugins, FromReload, FromRebuild, FromFinalize, FromHealth, FromSave
<1>3. /\ undo' \subseteq Action /\ Unique' /\ lost' \subseteq {Caddy}
      /\ Pending' \subseteq {ConfigFile, Rules, Caddy} /\ Skipped \subseteq Skipped'
      /\ Caddy \in Skipped' \/ before.frontendFile = None
      /\ Caddy \in Pending' => before.frontendFile # None
      /\ \A action \in undo' :
            action \in undo \/ (action.name = Caddy /\ action.was = host.frontendFile)
  <2>0. Caddy \notin Pending
    BY <1>2, NameFacts
  <2>1. CASE /\ host.frontendFile # None
             /\ Register(Caddy, 25, host.frontendFile)
             /\ UNCHANGED <<lost, faults>>
    <3>1. /\ undo' \subseteq Action /\ Unique' /\ Pending' = Pending \union {Caddy}
          /\ \A action \in undo' :
                action \in undo \/ (action.name = Caddy /\ action.was = host.frontendFile)
      BY <1>1, <1>2, <2>0, <2>1, HolderFacts, RegisterFacts
    <3>2. QED
      BY <1>2, <2>1, <3>1 DEF Skipped
  <2>2. CASE host.frontendFile = None /\ UNCHANGED <<undo, lost, faults>>
    BY <1>1, <1>2, <2>0, <2>2, HolderFacts DEF Skipped, Pending, Unique
  <2>3. CASE lost' = lost \union {Caddy} /\ UNCHANGED undo
    BY <1>1, <1>2, <2>0, <2>3, HolderFacts DEF Skipped, Pending, Unique
  <2>4. QED
    BY <2>1, <2>2, <2>3 DEF SnapshotFrontend
<1>4. Types'
  BY <1>1, <1>2, <1>3, HolderFacts, FaultFacts, TypesGood DEF Types, PipelineTypeOK, Stages
<1>5. Applied' = {}
  <2>1. \A n : Plugin(n) \notin Pending'
    BY <1>3, NameFacts
  <2>2. \A n : n \notin Applied'
    BY <1>3, <2>1, AppliedNextFacts
  <2>3. QED
    BY <2>2
<1>6. Gathered'
  BY <1>1, <1>3, <1>5 DEF Gathered, FromSnapshot, FromMigrate, FromStop, FromPlugins,
     FromReload, FromRebuild, FromFinalize, FromHealth, FromSave
<1>7. Carried'
  BY <1>1, <1>5 DEF Carried, RulesStand, DaemonWithoutUnit, desired, FromSnapshot,
     FromMigrate, FromStop, FromPlugins, FromReload, FromRebuild, FromFinalize, FromHealth,
     FromSave
<1>8. Undoable'
  <2>1. \A action \in undo' : action.was = Was(action.name)
    BY <1>1, <1>2, <1>3, WasFacts DEF Undoable
  <2>2. QED
    BY <1>1, <1>3, <2>1, UndoableGood
    DEF BeforeReload, FromSnapshot, FromMigrate, FromStop, FromPlugins, FromReload,
        FromRebuild, FromFinalize, FromHealth, FromSave
<1>9. QED
  BY <1>4, <1>6, <1>7, <1>8

LEMMA StopFrontendGood ==
    ASSUME PipelineInv, StopFrontend
    PROVE  PipelineInv'
<1> USE DEF PipelineInv
<1>0. holder # None /\ host \in Host /\ ignored \subseteq Unchecked
  BY HolderFacts DEF StopFrontend, At, Types, PipelineTypeOK
<1>1. PICK left \in SUBSET (LeftRunning \union LeftEnabled) :
      /\ host' = [host EXCEPT
            !.frontend = IF "stop frontend" \in left THEN @ ELSE "stopped",
            !.autostart = "boot frontend" \in left]
      /\ ignored' = (ignored \ {"stop frontend", "boot frontend"}) \union left
      /\ IF left = {} THEN UNCHANGED faults ELSE Fault
  BY DEF StopFrontend
<1>a. /\ stage = "stop" /\ UNCHANGED <<stored, mem, undo, broken, lost>>
      /\ GoTo("plugins") /\ stage' = "plugins"
      /\ Fault \/ UNCHANGED faults
  BY <1>1 DEF StopFrontend, At, GoTo, state
<1>b. /\ ignored' \subseteq Unchecked
      /\ "stop daemon" \in ignored => "stop daemon" \in ignored'
      /\ "delete rules" \in ignored => "delete rules" \in ignored'
  BY <1>0, <1>1 DEF LeftRunning, LeftEnabled, Unchecked
<1>2. /\ host' \in Host /\ host'.file = host.file /\ host'.singbox = host.singbox
      /\ host'.nft = host.nft /\ host'.frontendFile = host.frontendFile
      /\ host'.plugins = host.plugins
      /\ host'.unit = host.unit /\ host'.daemon = host.daemon
      /\ host'.frontend = "stopped" \/ "stop frontend" \in ignored'
      /\ ~ host'.autostart \/ "boot frontend" \in ignored'
  <2> DEFINE v == IF "stop frontend" \in left THEN host.frontend ELSE "stopped"
             b == "boot frontend" \in left
             h == [host EXCEPT !.frontend = v]
  <2>1. v \in Service /\ b \in BOOLEAN /\ host' = [h EXCEPT !.autostart = b]
    <3>1. host.frontend \in Service /\ "stopped" \in Service
      BY <1>0, HostFacts DEF Service
    <3>2. v \in Service
      BY <3>1
    <3>3. b \in BOOLEAN
      OBVIOUS
    <3>4. host' = [h EXCEPT !.autostart = b]
      BY <1>1
    <3>5. QED
      BY <3>2, <3>3, <3>4
  <2>2. /\ v = "stopped" \/ "stop frontend" \in ignored'
        /\ ~ b \/ "boot frontend" \in ignored'
    BY <1>1
  <2> HIDE DEF v, b
  <2>3. /\ h \in Host /\ h.file = host.file /\ h.singbox = host.singbox /\ h.nft = host.nft
        /\ h.frontendFile = host.frontendFile /\ h.plugins = host.plugins
        /\ h.unit = host.unit /\ h.daemon = host.daemon
        /\ h.frontend = v
    BY <1>0, <2>1, RunningFacts
  <2> HIDE DEF h
  <2>4. QED
    BY <2>1, <2>2, <2>3, AutostartFacts
<1>3. /\ UNCHANGED <<holder, entry, before, edits, applies, Pending, Skipped, Applied, desired>>
      /\ \A action \in undo' : action.was = Was(action.name)
  BY <1>0, <1>a, StageFacts DEF Stages
<1>4. Types'
  BY <1>0, <1>a, <1>b, <1>2, StageFacts, FaultFacts, TypesGood DEF Types, PipelineTypeOK, Stages
<1>5. Gathered' /\ Carried'
  BY <1>0, <1>a, <1>b, <1>2, <1>3
  DEF Gathered, Carried, RulesStand, FrontendStopped, DaemonWithoutUnit, FromSnapshot, FromMigrate,
      FromStop, FromPlugins, FromReload, FromRebuild, FromFinalize, FromHealth, FromSave
<1>6. Undoable'
  BY <1>0, <1>a, <1>2, <1>3, UndoableGood
  DEF BeforeReload, FromSnapshot, FromMigrate, FromStop, FromPlugins, FromReload,
      FromRebuild, FromFinalize, FromHealth, FromSave
<1>7. QED
  BY <1>4, <1>5, <1>6

LEMMA ApplyPluginGood ==
    ASSUME PipelineInv, NEW n \in Plugins, ApplyPlugin(n)
    PROVE  PipelineInv'
<1> USE DEF PipelineInv
<1>1. /\ holder # None /\ stage = "plugins" /\ UNCHANGED <<stored, mem, broken, lost, ignored>>
      /\ UNCHANGED <<holder, entry, before, edits, applies, desired>>
      /\ Register(Plugin(n), -(Cardinality(Applied) + 1), host.plugins[n])
      /\ n \in Enabled[desired] /\ n \notin Applied
      /\ reload' \in BOOLEAN
      /\ Fault \/ UNCHANGED faults
      /\ host' = host \/ host' = [host EXCEPT !.plugins[n] = desired]
      /\ \/ stage' = "plugins" /\ host' = [host EXCEPT !.plugins[n] = desired]
         \/ stage' = "rollback" /\ reload' = FALSE
  BY DEF ApplyPlugin, At, GoTo, Fail, state, outside, Unapplied, desired, Types
<1>2. /\ host \in Host /\ desired \in Configs \union {None} /\ Types
      /\ host.plugins[n] \in Configs \union {None}
      /\ undo \subseteq Action /\ Unique /\ mem[holder] \in Document /\ desired \in Configs
  BY <1>1, HolderFacts, HostFacts
<1>3. /\ host' \in Host /\ host'.file = host.file /\ host'.singbox = host.singbox
      /\ host'.nft = host.nft /\ host'.frontendFile = host.frontendFile
      /\ host'.frontend = host.frontend /\ host'.autostart = host.autostart
      /\ host'.unit = host.unit /\ host'.daemon = host.daemon
      /\ stage' = "plugins" => host'.plugins[n] = desired
      /\ \A m \in Plugins : m # n => host'.plugins[m] = host.plugins[m]
  <2>1. CASE host' = host /\ stage' = "rollback"
    BY <1>2, <2>1
  <2>2. CASE host' = [host EXCEPT !.plugins[n] = desired]
    BY <1>2, <2>2, PluginsFacts
  <2>3. QED
    BY <1>1, <2>1, <2>2
<1>4. Applied \subseteq Enabled[desired] /\ -(Cardinality(Applied) + 1) \in Int
  <2>1. Applied \subseteq Enabled[desired]
    BY <1>1 DEF Carried
  <2>2. IsFiniteSet(Applied)
    BY <1>2, <2>1, ConstantFacts, FS_Subset
  <2>3. Cardinality(Applied) \in Nat
    BY <2>2, FS_CardinalityType
  <2>4. QED
    BY <2>1, <2>3
<1>5. /\ Plugin(n) \in Names /\ Plugin(n) \notin Pending /\ Plugin(n) \notin Skipped
      /\ host.plugins[n] = before.plugins[n]
  <2>1. Plugin(n) \in Names /\ Plugin(n) \notin Pending
    BY <1>1, <1>2, AppliedFacts DEF Names
  <2>2. lost \subseteq {Caddy}
    BY <1>1 DEF Gathered
  <2>3. Plugin(n) \notin Skipped
    BY <2>1, <2>2, NameFacts DEF Skipped
  <2>4. QED
    BY <1>1, <2>1, <2>3 DEF Undoable
<1>6. /\ undo' \subseteq Action /\ Unique' /\ Pending' = Pending \union {Plugin(n)}
      /\ \A action \in undo' :
            action \in undo \/ (action.name = Plugin(n) /\ action.was = host.plugins[n])
  BY <1>1, <1>2, <1>4, <1>5, RegisterFacts
<1>7. Skipped' = Skipped \union {Plugin(n)} /\ Applied' = Applied \union {n}
  <2>1. \A m : m \in Applied' <=> m \in Applied \/ m = n
    BY <1>2, <1>6, AppliedFacts, AppliedNextFacts, NameFacts
  <2>2. QED
    BY <1>1, <1>6, <2>1 DEF Skipped
<1>8. Types'
  <2>1. /\ faults' \in 0..MaxFaults /\ stage' \in Stages \ {"idle"} /\ mem'[holder] \in Document
        /\ stored' \in Document /\ mem' \in [Processes -> Document \union {None}]
        /\ broken' \subseteq {"singbox", "frontend"} /\ lost' \subseteq Names
        /\ ignored' \subseteq Unchecked
    BY <1>1, <1>2, FaultFacts DEF Types, PipelineTypeOK, Stages
  <2>2. QED
    BY <1>1, <1>2, <1>3, <1>6, <2>1, TypesGood
<1>9. Gathered'
  BY <1>1, <1>7 DEF Gathered, FromSnapshot, FromMigrate, FromStop, FromPlugins,
     FromReload, FromRebuild, FromFinalize, FromHealth, FromSave
<1>10. Carried'
  <2>1. stage' = "plugins" => \A m \in Applied' : host'.plugins[m] = desired
    BY <1>1, <1>2, <1>3, <1>7, AppliedFacts DEF Carried
  <2>2. QED
    BY <1>1, <1>3, <1>4, <1>7, <2>1 DEF Carried, RulesStand, FrontendStopped,
       DaemonWithoutUnit, FromSnapshot, FromMigrate, FromStop, FromPlugins, FromReload,
       FromRebuild, FromFinalize, FromHealth, FromSave
<1>11. Undoable'
  <2>1. \A action \in undo' : action.was = Was(action.name)
    BY <1>1, <1>5, <1>6, WasFacts DEF Undoable
  <2>2. Caddy \in Pending' => Caddy \in Pending
    BY <1>6, NameFacts
  <2>3. QED
    BY <1>1, <1>3, <1>7, <2>1, <2>2, UndoableGood
    DEF BeforeReload, FromSnapshot, FromMigrate, FromStop, FromPlugins, FromReload,
        FromRebuild, FromFinalize, FromHealth, FromSave
<1>12. QED
  BY <1>8, <1>9, <1>10, <1>11

(* The outer transaction changes priorities and nothing else. *)
LEMMA OuterFacts ==
    ASSUME undo \subseteq Action, NEW action \in undo, IsFiniteSet(Applied)
    PROVE  /\ Outer(action) \in Action
           /\ Outer(action).name = action.name /\ Outer(action).was = action.was
<1>1. CASE action \in PluginActions
  <2> DEFINE k == 30 + Cardinality(Applied) + action.priority + 1
  <2>1. action \in Action /\ k \in Int
    BY FS_CardinalityType DEF Action
  <2>2. Outer(action) = [action EXCEPT !.priority = k]
    BY <1>1 DEF Outer
  <2> HIDE DEF k
  <2>3. QED
    BY <2>1, <2>2 DEF Action
<1>2. CASE action \notin PluginActions
  BY <1>2 DEF Outer
<1>3. QED
  BY <1>1, <1>2

LEMMA PluginsAppliedGood ==
    ASSUME PipelineInv, PluginsApplied
    PROVE  PipelineInv'
<1> USE DEF PipelineInv
<1>1. /\ holder # None /\ stage = "plugins" /\ stage' = "reload"
      /\ UNCHANGED <<stored, mem, broken, host, lost, ignored, faults>>
      /\ UNCHANGED <<holder, entry, reload, before, edits, applies, desired>>
      /\ undo' = {Outer(action) : action \in undo}
      /\ Enabled[desired] \subseteq Applied
  BY DEF PluginsApplied, At, GoTo, state, outside, Unapplied, desired
<1>2. Applied \subseteq Enabled[desired] /\ IsFiniteSet(Applied)
  <2>1. Applied \subseteq Enabled[desired]
    BY <1>1 DEF Carried
  <2>2. QED
    BY <1>1, <2>1, HolderFacts, ConstantFacts, FS_Subset
<1>3. /\ \A action \in undo : /\ Outer(action) \in Action
                             /\ Outer(action).name = action.name
                             /\ Outer(action).was = action.was
      /\ Unique
  BY <1>1, <1>2, HolderFacts, OuterFacts
<1>4. undo' \subseteq Action /\ Pending' = Pending /\ Skipped' = Skipped
  <2>1. undo' \subseteq Action
    BY <1>1, <1>3
  <2>2. Pending' = Pending
    BY <1>1, <1>3 DEF Pending
  <2>3. QED
    BY <1>1, <2>1, <2>2 DEF Skipped
<1>5. Unique'
  <2> SUFFICES ASSUME NEW action \in undo, NEW other \in undo,
                      Outer(action).name = Outer(other).name
               PROVE  Outer(action) = Outer(other)
    BY <1>1 DEF Unique
  <2>1. action = other
    BY <1>3 DEF Unique
  <2>2. QED
    BY <2>1
<1>6. Types'
  BY <1>1, <1>4, <1>5, HolderFacts, TypesGood DEF Types, PipelineTypeOK, Stages
<1>7. Gathered'
  BY <1>1, <1>4 DEF Gathered, FromSnapshot, FromMigrate, FromStop, FromPlugins,
     FromReload, FromRebuild, FromFinalize, FromHealth, FromSave
<1>8. Carried'
  BY <1>1 DEF Carried, RulesStand, FrontendStopped, FrontendRuns, SingboxRuns, DaemonStands,
     DaemonWithoutUnit, FromSnapshot, FromMigrate, FromStop, FromPlugins,
     FromReload, FromRebuild, FromFinalize, FromHealth, FromSave
<1>9. Undoable'
  <2>1. \A action \in undo' : action.was = Was(action.name)
    BY <1>1, <1>3 DEF Undoable
  <2>2. QED
    BY <1>1, <1>4, <2>1, UndoableGood
    DEF BeforeReload, FromSnapshot, FromMigrate, FromStop, FromPlugins, FromReload,
        FromRebuild, FromFinalize, FromHealth, FromSave
<1>10. QED
  BY <1>6, <1>7, <1>8, <1>9

LEMMA ReloadSingboxGood ==
    ASSUME PipelineInv, ReloadSingbox
    PROVE  PipelineInv'
<1> USE DEF PipelineInv
<1>1. /\ holder # None /\ stage = "reload" /\ UNCHANGED <<stored, mem, undo, lost, ignored>>
      /\ stage' = IF Frontend[desired] = "mux" THEN "rebuild" ELSE "finalize"
      /\ GoTo(stage')
      /\ host' = Restarted(host) \/ host' = [host EXCEPT !.singbox = "failed"]
      /\ broken' = IF host'.singbox = "failed" THEN {"singbox"} ELSE {}
      /\ Fault \/ UNCHANGED faults
  BY DEF ReloadSingbox, At, GoTo, state
<1>2. /\ host \in Host /\ desired \in Configs /\ host.file = desired /\ host.file # None
      /\ stage' \in Stages \ {"idle"}
  BY <1>1, HolderFacts, ConstantFacts DEF Carried, Stages, FromSnapshot, FromMigrate,
     FromStop, FromPlugins,
     FromReload, FromRebuild, FromFinalize, FromHealth, FromSave
<1>3. /\ host' \in Host /\ host'.file = host.file /\ host'.singbox \in {desired, "failed"}
      /\ host'.nft = host.nft /\ host'.frontendFile = host.frontendFile
      /\ host'.frontend = host.frontend /\ host'.autostart = host.autostart
      /\ host'.unit = host.unit /\ host'.daemon = host.daemon
      /\ host'.singbox = desired => SingboxCanBind(desired)
      /\ host'.plugins = host.plugins
  <2>1. CASE host' = Restarted(host)
    BY <1>2, <2>1, RestartedFacts, ConstantFacts
  <2>2. CASE host' = [host EXCEPT !.singbox = "failed"]
    <3>1. "failed" \in Service
      BY DEF Service
    <3>2. QED
      BY <1>2, <2>2, <3>1, SingboxFacts, ConstantFacts
  <2>3. QED
    BY <1>1, <2>1, <2>2
<1>4. /\ UNCHANGED <<holder, entry, before, edits, applies, Pending, Skipped, Applied, desired>>
      /\ \A action \in undo' : action.was = Was(action.name)
      /\ reload' \in BOOLEAN /\ undo' \subseteq Action /\ Unique' /\ lost' \subseteq Names
      /\ stored' \in Document /\ mem' \in [Processes -> Document \union {None}]
      /\ mem'[holder] \in Document /\ Types
  <2> DEFINE next == stage'
  <2>1. GoTo(next) /\ next \in Stages \ {"idle"}
    BY <1>1, <1>2
  <2> HIDE DEF next
  <2>2. QED
    BY <1>1, <2>1, StageFacts
<1>5. Types'
  BY <1>1, <1>2, <1>3, <1>4, FaultFacts, TypesGood DEF Types, PipelineTypeOK
<1>6. Gathered'
  BY <1>1, <1>4 DEF Gathered, FromSnapshot, FromMigrate, FromStop, FromPlugins,
     FromReload, FromRebuild, FromFinalize, FromHealth, FromSave
<1>7. Carried'
  BY <1>1, <1>2, <1>3, <1>4 DEF Carried, RulesStand, FrontendStopped, FrontendRuns,
     SingboxRuns, SingboxCanBind, DaemonStands, DaemonWithoutUnit, FromSnapshot,
     FromMigrate, FromStop, FromPlugins, FromReload, FromRebuild, FromFinalize, FromHealth,
     FromSave
<1>8. Undoable'
  BY <1>1, <1>3, <1>4, UndoableGood
  DEF BeforeReload, FromSnapshot, FromMigrate, FromStop, FromPlugins,
      FromReload, FromRebuild, FromFinalize, FromHealth, FromSave
<1>9. QED
  BY <1>5, <1>6, <1>7, <1>8

LEMMA RebuildFrontendGood ==
    ASSUME PipelineInv, RebuildFrontend
    PROVE  PipelineInv'
<1> USE DEF PipelineInv
<1>1. /\ holder # None /\ stage = "rebuild"
      /\ UNCHANGED <<stored, mem, undo, broken, lost>>
      /\ Fault \/ UNCHANGED faults
      /\ GoTo("finalize") /\ stage' = "finalize" /\ FrontendCanBind
      /\ \/ host' = [FrontendRestarted(desired) EXCEPT !.autostart = TRUE]
         \/ host' = FrontendRestarted(desired) /\ "boot frontend" \in ignored'
      /\ \/ ignored' = ignored \ {"boot frontend"}
         \/ ignored' = ignored \union {"boot frontend"}
  BY DEF RebuildFrontend, At, GoTo, state
<1>2. /\ host \in Host /\ desired \in Configs /\ ignored' \subseteq Unchecked
      /\ "stop daemon" \in ignored => "stop daemon" \in ignored'
      /\ "delete rules" \in ignored => "delete rules" \in ignored'
  BY <1>1, HolderFacts DEF Types, PipelineTypeOK, Unchecked
<1>3. /\ host' \in Host /\ host'.file = host.file /\ host'.singbox = host.singbox
      /\ host'.nft = host.nft /\ host'.plugins = host.plugins
      /\ host'.frontendFile = desired /\ host'.frontend = desired
      /\ host'.unit = host.unit /\ host'.daemon = host.daemon
      /\ host'.autostart \/ "boot frontend" \in ignored'
  <2> DEFINE h == FrontendRestarted(desired)
  <2>1. /\ h \in Host /\ h.nft = host.nft /\ h.plugins = host.plugins /\ h.file = host.file
        /\ h.singbox = host.singbox /\ h.frontendFile = desired /\ h.frontend = desired
        /\ h.unit = host.unit /\ h.daemon = host.daemon
    BY <1>1, <1>2, FrontendFacts
  <2>2. /\ \/ host' = [h EXCEPT !.autostart = TRUE]
           \/ host' = h /\ "boot frontend" \in ignored'
        /\ TRUE \in BOOLEAN
    BY <1>1
  <2> HIDE DEF h
  <2>3. QED
    BY <2>1, <2>2, AutostartFacts
<1>4. /\ UNCHANGED <<holder, entry, before, edits, applies, Pending, Skipped, Applied, desired>>
      /\ \A action \in undo' : action.was = Was(action.name)
  BY <1>1, StageFacts DEF Stages
<1>5. Types'
  BY <1>1, <1>2, <1>3, StageFacts, FaultFacts, TypesGood DEF Types, PipelineTypeOK, Stages
<1>6. Gathered' /\ Carried'
  BY <1>1, <1>2, <1>3, <1>4 DEF Gathered, Carried, RulesStand, FrontendStopped,
     FrontendRuns, SingboxRuns, DaemonStands, DaemonWithoutUnit, FromSnapshot, FromMigrate,
     FromStop, FromPlugins, FromReload, FromRebuild, FromFinalize, FromHealth, FromSave
<1>7. Undoable'
  <2>1. Caddy \in Skipped \/ before.frontendFile = None
    BY <1>1 DEF Gathered, FromStop, FromPlugins, FromReload, FromRebuild,
       FromFinalize, FromHealth, FromSave
  <2>2. QED
    BY <1>1, <1>3, <1>4, <2>1, UndoableGood
    DEF BeforeReload, FromSnapshot, FromMigrate, FromStop, FromPlugins,
        FromReload, FromRebuild, FromFinalize, FromHealth, FromSave
<1>8. QED
  BY <1>5, <1>6, <1>7

LEMMA RebuildFailsGood ==
    ASSUME PipelineInv, RebuildFails
    PROVE  PipelineInv'
<1> USE DEF PipelineInv
<1>1. /\ holder # None /\ stage = "rebuild" /\ UNCHANGED <<stored, mem, undo, lost, ignored>>
      /\ broken' = broken \union {"frontend"} /\ GoTo("daemon") /\ stage' = "daemon"
      /\ Fault \/ UNCHANGED faults
      /\ \/ host' = host
         \/ /\ host.frontendFile = None
            /\ host' = [host EXCEPT !.frontend = "stopped", !.autostart = FALSE]
         \/ /\ host.frontendFile # None
            /\ \E enabled \in {host.autostart, TRUE} :
                  host' = [FrontendRestarted(host.frontendFile) EXCEPT !.autostart = enabled]
  BY DEF RebuildFails, At, GoTo, state
<1>2. /\ host \in Host /\ host.frontendFile \in Configs \union {None}
      /\ host.autostart \in BOOLEAN
  BY <1>1, HolderFacts, HostFacts
<1>3. /\ host' \in Host /\ host'.file = host.file /\ host'.singbox = host.singbox
      /\ host'.nft = host.nft /\ host'.plugins = host.plugins
      /\ host'.frontendFile = host.frontendFile
      /\ host'.unit = host.unit /\ host'.daemon = host.daemon
  <2>1. CASE host' = [host EXCEPT !.frontend = "stopped", !.autostart = FALSE]
    <3> DEFINE h == [host EXCEPT !.frontend = "stopped"]
    <3>1. "stopped" \in Service /\ FALSE \in BOOLEAN /\ host' = [h EXCEPT !.autostart = FALSE]
      BY <2>1 DEF Service
    <3>2. /\ h \in Host /\ h.file = host.file /\ h.singbox = host.singbox /\ h.nft = host.nft
          /\ h.frontendFile = host.frontendFile /\ h.plugins = host.plugins
          /\ h.unit = host.unit /\ h.daemon = host.daemon
      BY <1>2, <3>1, RunningFacts
    <3> HIDE DEF h
    <3>3. QED
      BY <3>1, <3>2, AutostartFacts
  <2>2. CASE /\ host.frontendFile # None
             /\ \E enabled \in {host.autostart, TRUE} :
                   host' = [FrontendRestarted(host.frontendFile) EXCEPT !.autostart = enabled]
    <3> DEFINE h == FrontendRestarted(host.frontendFile)
    <3>1. /\ h \in Host /\ h.nft = host.nft /\ h.plugins = host.plugins /\ h.file = host.file
          /\ h.singbox = host.singbox /\ h.frontendFile = host.frontendFile
          /\ h.unit = host.unit /\ h.daemon = host.daemon
      BY <1>2, <2>2, FrontendFacts
    <3>2. PICK enabled \in BOOLEAN : host' = [h EXCEPT !.autostart = enabled]
      BY <1>2, <2>2
    <3> HIDE DEF h
    <3>3. QED
      BY <3>1, <3>2, AutostartFacts
  <2>3. QED
    BY <1>1, <1>2, <2>1, <2>2
<1>4. /\ UNCHANGED <<holder, entry, before, edits, applies, Pending, Skipped, Applied, desired>>
      /\ \A action \in undo' : action.was = Was(action.name)
  BY <1>1, StageFacts DEF Stages
<1>5. Types'
  BY <1>1, <1>2, <1>3, StageFacts, FaultFacts, TypesGood DEF Types, PipelineTypeOK, Stages
<1>6. Gathered' /\ Carried'
  BY <1>1, <1>3, <1>4 DEF Gathered, Carried, RulesStand, FrontendStopped, FrontendRuns,
     SingboxRuns, DaemonStands, DaemonWithoutUnit, FromSnapshot, FromMigrate, FromStop,
     FromPlugins, FromReload, FromRebuild, FromFinalize, FromHealth, FromSave
<1>7. Undoable'
  BY <1>1, <1>3, <1>4, UndoableGood
  DEF BeforeReload, FromSnapshot, FromMigrate, FromStop, FromPlugins,
      FromReload, FromRebuild, FromFinalize, FromHealth, FromSave
<1>8. QED
  BY <1>5, <1>6, <1>7

LEMMA RebuildRaisesGood ==
    ASSUME PipelineInv, RebuildRaises
    PROVE  PipelineInv'
<1> USE DEF PipelineInv
<1>1. /\ holder # None /\ stage = "rebuild"
      /\ UNCHANGED <<stored, mem, undo, broken, lost, ignored>>
      /\ Fail(TRUE) /\ stage' = "rollback" /\ reload' = TRUE /\ Fault
      /\ host' = host \/ host' = [host EXCEPT !.frontendFile = desired]
  BY DEF RebuildRaises, At, Fail, state
<1>2. host \in Host /\ desired \in Configs \union {None}
  BY <1>1, HolderFacts
<1>3. /\ host' \in Host /\ host'.file = host.file /\ host'.nft = host.nft
      /\ host'.plugins = host.plugins
      /\ host'.unit = host.unit /\ host'.daemon = host.daemon
  <2>1. CASE host' = [host EXCEPT !.frontendFile = desired]
    BY <1>2, <2>1, FrontendFileFacts
  <2>2. QED
    BY <1>1, <1>2, <2>1
<1>4. /\ UNCHANGED <<holder, entry, before, edits, applies, Pending, Skipped, Applied, desired>>
      /\ \A action \in undo' : action.was = Was(action.name)
  <2>1. "rollback" \in Stages \ {"idle"} /\ \E r \in BOOLEAN : Fail(r)
    BY <1>1 DEF Stages
  <2>2. QED
    BY <1>1, <2>1, StageFacts
<1>5. Types'
  BY <1>1, <1>3, StageFacts, FaultFacts, TypesGood DEF Types, PipelineTypeOK, Stages
<1>6. Gathered' /\ Carried'
  BY <1>1, <1>3, <1>4 DEF Gathered, Carried, DaemonWithoutUnit, FromSnapshot, FromMigrate,
     FromStop, FromPlugins, FromReload, FromRebuild, FromFinalize, FromHealth, FromSave
<1>7. Undoable'
  <2>1. Caddy \in Skipped \/ before.frontendFile = None
    BY <1>1 DEF Gathered, FromStop, FromPlugins, FromReload, FromRebuild,
       FromFinalize, FromHealth, FromSave
  <2>2. QED
    BY <1>1, <1>3, <1>4, <2>1, UndoableGood
    DEF BeforeReload, FromSnapshot, FromMigrate, FromStop, FromPlugins,
        FromReload, FromRebuild, FromFinalize, FromHealth, FromSave
<1>8. QED
  BY <1>5, <1>6, <1>7

(* The unit and the process of the traffic daemon, and nothing else. *)
LEMMA DaemonGood ==
    ASSUME PipelineInv, At("daemon"), UNCHANGED <<stored, mem, undo, broken, lost>>,
           NEW u \in BOOLEAN, NEW d \in BOOLEAN,
           \/ host' = [host EXCEPT !.unit = u, !.daemon = d]
           \/ host' = host /\ u = host.unit /\ d = host.daemon,
           ignored' \in {ignored, ignored \ {"stop daemon"}, ignored \union {"stop daemon"}},
           ~ u /\ d => "stop daemon" \in ignored',
           \/ /\ GoTo("health")
              /\ IF desired \in Accounted THEN u /\ d
                 ELSE ~ u /\ (~ d \/ "stop daemon" \in ignored')
           \/ Fail(TRUE),
           Fault \/ UNCHANGED faults
    PROVE  PipelineInv'
<1> USE DEF PipelineInv
<1>1. /\ holder # None /\ stage = "daemon" /\ host \in Host
      /\ stage' = "health" \/ (stage' = "rollback" /\ reload' = TRUE)
  BY HolderFacts DEF At, GoTo, Fail
<1>2. /\ host' \in Host /\ host'.unit = u /\ host'.daemon = d
      /\ host'.file = host.file /\ host'.singbox = host.singbox
      /\ host'.nft = host.nft /\ host'.frontendFile = host.frontendFile
      /\ host'.frontend = host.frontend /\ host'.autostart = host.autostart
      /\ host'.plugins = host.plugins
  <2>1. CASE host' = [host EXCEPT !.unit = u, !.daemon = d]
    BY ONLY <1>1, <2>1 DEF Host
  <2>2. CASE host' = host /\ u = host.unit /\ d = host.daemon
    BY <1>1, <2>2
  <2>3. QED
    BY <2>1, <2>2
<1>3. /\ ignored' \subseteq Unchecked
      /\ \A command \in Unchecked \ {"stop daemon"} : command \in ignored' <=> command \in ignored
  BY DEF Types, PipelineTypeOK, Unchecked
<1>4. /\ UNCHANGED <<holder, entry, before, edits, applies, Pending, Skipped, Applied, desired>>
      /\ \A action \in undo' : action.was = Was(action.name)
  BY <1>1, StageFacts DEF Stages
<1>5. Types'
  BY <1>1, <1>2, <1>3, StageFacts, FaultFacts, TypesGood DEF Types, PipelineTypeOK, Stages
<1>6. DaemonWithoutUnit' /\ (stage' = "health" => DaemonStands')
  BY <1>1, <1>2, <1>4 DEF DaemonWithoutUnit, DaemonStands, GoTo, Fail
<1>7. Gathered'
  BY <1>1, <1>4 DEF Gathered, FromSnapshot, FromMigrate, FromStop, FromPlugins,
     FromReload, FromRebuild, FromFinalize, FromHealth, FromSave
<1>8. Carried'
  <2> USE DEF FromSnapshot, FromMigrate, FromStop, FromPlugins, FromReload, FromRebuild,
              FromFinalize, FromHealth, FromSave
  <2>1. CASE stage' = "rollback"
    BY <1>6, <2>1 DEF Carried
  <2>2. CASE stage' = "health"
    <3>1. desired' = desired /\ UNCHANGED broken
      BY <1>4
    <3>2. /\ host.file = desired /\ RulesStand
          /\ Frontend[desired] # "mux" => FrontendStopped
          /\ \A n \in Enabled[desired] : host.plugins[n] = desired
          /\ "singbox" \in broken \/ SingboxRuns
          /\ Frontend[desired] = "mux" => "frontend" \in broken \/ FrontendRuns
      BY <1>1 DEF Carried
    <3>3. RulesStand' /\ (Frontend[desired] # "mux" => FrontendStopped')
      BY <1>2, <1>3, <3>1, <3>2 DEF RulesStand, RulesOf, FrontendStopped, Unchecked
    <3>4. /\ "singbox" \in broken \/ SingboxRuns'
          /\ Frontend[desired] = "mux" => "frontend" \in broken \/ FrontendRuns'
      BY <1>2, <1>3, <3>1, <3>2 DEF SingboxRuns, FrontendRuns, Unchecked
    <3>5. QED
      BY <1>2, <1>6, <2>2, <3>1, <3>2, <3>3, <3>4 DEF Carried
  <2>3. QED
    BY <1>1, <2>1, <2>2
<1>9. Undoable'
  BY <1>1, <1>2, <1>4, UndoableGood
  DEF BeforeReload, FromSnapshot, FromMigrate, FromStop, FromPlugins,
      FromReload, FromRebuild, FromFinalize, FromHealth, FromSave
<1>10. QED
  BY <1>5, <1>7, <1>8, <1>9

LEMMA StartDaemonGood ==
    ASSUME PipelineInv, StartDaemon
    PROVE  PipelineInv'
<1>1. /\ At("daemon") /\ desired \in Accounted /\ UNCHANGED <<stored, mem, undo, broken, lost>>
      /\ host \in Host /\ host.unit \in BOOLEAN /\ host.daemon \in BOOLEAN
      /\ DaemonWithoutUnit
  BY HolderFacts, HostFacts DEF StartDaemon, At, state, PipelineInv, Carried
<1>2. CASE /\ host' = [host EXCEPT !.unit = TRUE, !.daemon = TRUE]
           /\ ignored' = ignored \ {"stop daemon"} /\ GoTo("health") /\ UNCHANGED faults
  BY <1>1, <1>2, DaemonGood
<1>3. CASE Fault /\ Fail(TRUE) /\ UNCHANGED ignored /\ host' = host
  BY <1>1, <1>3, DaemonGood DEF DaemonWithoutUnit
<1>4. CASE Fault /\ Fail(TRUE) /\ UNCHANGED ignored /\ host' = [host EXCEPT !.unit = TRUE]
  <2>1. host' = [host EXCEPT !.unit = TRUE, !.daemon = host.daemon]
    BY <1>1, <1>4 DEF Host
  <2>2. QED
    BY <1>1, <1>4, <2>1, DaemonGood
<1>5. CASE /\ Fault /\ Fail(TRUE) /\ UNCHANGED ignored
           /\ host' = [host EXCEPT !.unit = TRUE, !.daemon = host.unit /\ host.daemon]
  <2>1. (host.unit /\ host.daemon) \in BOOLEAN
    OBVIOUS
  <2>2. QED
    BY <1>1, <1>5, <2>1, DaemonGood
<1>6. QED
  BY <1>2, <1>3, <1>4, <1>5 DEF StartDaemon

LEMMA StopDaemonGood ==
    ASSUME PipelineInv, StopDaemon
    PROVE  PipelineInv'
<1>1. /\ At("daemon") /\ desired \notin Accounted /\ UNCHANGED <<stored, mem, undo, broken, lost>>
      /\ host \in Host /\ host.unit \in BOOLEAN /\ host.daemon \in BOOLEAN
      /\ DaemonWithoutUnit
  BY HolderFacts, HostFacts DEF StopDaemon, At, state, PipelineInv, Carried
<1>2. CASE ~ host.unit /\ GoTo("health") /\ UNCHANGED <<host, ignored, faults>>
  BY <1>1, <1>2, DaemonGood DEF DaemonWithoutUnit
<1>3. CASE \E runs \in {FALSE, host.daemon}, stays \in BOOLEAN :
                /\ host' = [host EXCEPT !.daemon = runs, !.unit = stays]
                /\ ignored' = IF runs THEN ignored \union {"stop daemon"}
                              ELSE ignored \ {"stop daemon"}
                /\ \/ /\ ~ stays /\ GoTo("health")
                      /\ IF runs THEN Fault ELSE UNCHANGED faults
                   \/ Fault /\ Fail(TRUE)
  <2>1. PICK runs \in BOOLEAN, stays \in BOOLEAN :
                /\ host' = [host EXCEPT !.daemon = runs, !.unit = stays]
                /\ ignored' = IF runs THEN ignored \union {"stop daemon"}
                              ELSE ignored \ {"stop daemon"}
                /\ \/ /\ ~ stays /\ GoTo("health")
                      /\ IF runs THEN Fault ELSE UNCHANGED faults
                   \/ Fault /\ Fail(TRUE)
    BY <1>1, <1>3
  <2>2. host' = [host EXCEPT !.unit = stays, !.daemon = runs]
    BY <1>1, <2>1 DEF Host
  <2>3. runs => "stop daemon" \in ignored'
    BY <2>1
  <2>4. ignored' \in {ignored, ignored \ {"stop daemon"}, ignored \union {"stop daemon"}}
    BY <2>1
  <2>5. (~ stays /\ GoTo("health")) \/ Fail(TRUE)
    BY <2>1
  <2>6. Fault \/ UNCHANGED faults
    BY <2>1
  <2>7. QED
    BY <1>1, <2>2, <2>3, <2>4, <2>5, <2>6, DaemonGood
<1>4. QED
  BY <1>2, <1>3 DEF StopDaemon

(* A command that raised, the firewall and link checks, the health check. *)
LEMMA HostUntouchedGood ==
    ASSUME PipelineInv, ReloadRaises \/ Finalize \/ Health
    PROVE  PipelineInv'
<1>1. /\ UNCHANGED <<stored, mem, undo, broken, host, lost, ignored>>
      /\ Fault \/ UNCHANGED faults
  BY DEF ReloadRaises, Finalize, Health, state
<1>2. \/ At("finalize") /\ GoTo("daemon")
      \/ At("health") /\ broken = {} /\ GoTo("save")
      \/ stage \in FromReload /\ holder # None /\ Fail(TRUE)
  BY DEF ReloadRaises, Finalize, Health, At, FromReload, FromRebuild, FromFinalize, FromHealth
<1>3. QED
  BY <1>1, <1>2, PlainGood

LEMMA SaveFailsGood ==
    ASSUME PipelineInv, SaveFails
    PROVE  PipelineInv'
<1> USE DEF PipelineInv
<1>1. /\ holder # None /\ stage = "save" /\ stage' = "rollback" /\ reload' = TRUE
      /\ SaveRaises(holder, mem[holder])
      /\ UNCHANGED <<holder, entry, before, edits, applies, undo, broken, host, lost, ignored>>
  BY DEF SaveFails, At, Fail, outside
<1>2. /\ stored' \in Document /\ mem' \in [Processes -> Document \union {None}]
      /\ mem'[holder] \in Document /\ mem'[holder].config = mem[holder].config
      /\ faults' \in 0..MaxFaults
  BY <1>1, HolderFacts, SaveFacts
<1>3. Types'
  BY <1>1, <1>2, HolderFacts, TypesGood DEF Types, PipelineTypeOK, Unique, Stages
<1>4. QED
  BY <1>1, <1>2, <1>3, QuietGood DEF FromReload, FromRebuild, FromFinalize, FromHealth, FromSave

-------------------------------------------------------------------------------
(* The rollback and the ends of an apply.                                    *)

LEMMA CommitGood ==
    ASSUME PipelineInv, Commit
    PROVE  PipelineInv'
<1>1. holder # None /\ SaveAccepted(holder, mem[holder]) /\ Release /\ UNCHANGED host
  BY DEF Commit, At
<1>2. /\ stored' \in Document /\ mem' \in [Processes -> Document \union {None}]
      /\ faults' \in 0..MaxFaults
  BY <1>1, HolderFacts, SaveFacts DEF PipelineInv
<1>3. QED
  BY <1>1, <1>2, ReleaseGood

LEMMA RestoreStateGood ==
    ASSUME PipelineInv, RestoreState
    PROVE  PipelineInv'
<1>1. /\ holder # None /\ Release /\ UNCHANGED host
      /\ SaveAccepted(holder, EntryState) \/ SaveRaises(holder, EntryState)
  BY DEF RestoreState, At
<1>2. EntryState \in Document
  BY <1>1, HolderFacts DEF EntryState, Document
<1>3. /\ stored' \in Document /\ mem' \in [Processes -> Document \union {None}]
      /\ faults' \in 0..MaxFaults
  BY <1>1, <1>2, HolderFacts, SaveFacts DEF PipelineInv
<1>4. QED
  BY <1>1, <1>3, ReleaseGood

LEMMA KillGood ==
    ASSUME PipelineInv, Kill
    PROVE  PipelineInv'
<1>1. /\ holder # None /\ Release /\ Fault /\ UNCHANGED <<stored, host>>
      /\ mem' = [mem EXCEPT ![holder] = None]
  BY DEF Kill
<1>2. /\ stored' \in Document /\ mem' \in [Processes -> Document \union {None}]
      /\ faults' \in 0..MaxFaults
  BY <1>1, FaultFacts DEF PipelineInv, Types, PipelineTypeOK
<1>3. QED
  BY <1>1, <1>2, ReleaseGood

(* A rollback action puts its own resource back and leaves the others alone. *)
LEMMA RestoredFacts ==
    ASSUME PipelineInv, holder # None, NEW action \in undo, host' = Restored(action)
    PROVE  /\ host' \in Host /\ host'.singbox = host.singbox
           /\ host'.file = IF action.name = ConfigFile THEN before.file ELSE host.file
           /\ host'.nft = IF action.name = Rules THEN before.nft ELSE host.nft
           /\ host'.unit = host.unit /\ host'.daemon = host.daemon
           /\ host'.frontendFile =
                 IF action.name = Caddy THEN before.frontendFile ELSE host.frontendFile
           /\ \A n \in Plugins : host'.plugins[n] =
                 IF action.name = Plugin(n) THEN before.plugins[n] ELSE host.plugins[n]
<1> USE DEF PipelineInv
<1>1. /\ action.name \in Names /\ action.was \in Configs \union {None} /\ host \in Host
      /\ action.was = Was(action.name)
  BY HolderFacts DEF Action, Undoable
<1>2. CASE action.name = ConfigFile
  <2>1. action.was = before.file
    BY <1>1, <1>2, WasFacts
  <2>2. host' = [host EXCEPT !.file = action.was]
    BY <1>2, NameFacts DEF Restored
  <2>3. QED
    BY <1>1, <1>2, <2>1, <2>2, FileFacts, NameFacts
<1>3. CASE action.name = Rules
  <2>1. action.was = before.nft
    BY <1>1, <1>3, WasFacts
  <2>2. host' = [host EXCEPT !.nft = action.was]
    BY <1>3, NameFacts DEF Restored
  <2>3. QED
    BY <1>1, <1>3, <2>1, <2>2, NftFacts, NameFacts
<1>4. CASE action.name = Caddy
  <2>1. action.was = before.frontendFile /\ action.was \in Configs
    BY <1>1, <1>4, WasFacts DEF Undoable, Pending
  <2>2. host' = FrontendRestarted(action.was)
    BY <1>4, NameFacts DEF Restored
  <2>3. QED
    BY <1>1, <1>4, <2>1, <2>2, FrontendFacts, NameFacts
<1>5. CASE action.name \notin {ConfigFile, Rules, Caddy}
  <2>1. PICK n \in Plugins : action.name = Plugin(n) /\ action.name[2] = n
    BY <1>1, <1>5, NamesFacts
  <2>2. host' = [host EXCEPT !.plugins[n] = action.was] /\ action.was = before.plugins[n]
    BY <1>1, <1>5, <2>1, WasFacts DEF Restored
  <2>3. /\ host' \in Host /\ host'.file = host.file /\ host'.singbox = host.singbox
        /\ host'.nft = host.nft /\ host'.frontendFile = host.frontendFile
        /\ host'.unit = host.unit /\ host'.daemon = host.daemon
        /\ host'.plugins[n] = action.was
        /\ \A m \in Plugins : m # n => host'.plugins[m] = host.plugins[m]
    BY <1>1, <2>2, PluginsFacts
  <2>4. \A m \in Plugins : action.name = Plugin(m) <=> m = n
    BY <2>1, NameFacts
  <2>5. QED
    BY <1>5, <2>2, <2>3, <2>4
<1>6. QED
  BY <1>2, <1>3, <1>4, <1>5

LEMMA RollBackOneGood ==
    ASSUME PipelineInv, NEW action \in undo, RollBackOne(action)
    PROVE  PipelineInv'
<1> USE DEF PipelineInv
<1>1. /\ holder # None /\ stage = "rollback" /\ stage' = "rollback"
      /\ UNCHANGED <<stored, mem, holder, entry, reload, before, edits, applies, broken, ignored>>
      /\ undo' = undo \ {action}
      /\ \/ host' = Restored(action) /\ UNCHANGED <<lost, faults>>
         \/ Fault /\ lost' = lost \union {action.name} /\ UNCHANGED host
  BY DEF RollBackOne, At, GoTo, outside, state
<1>2. /\ action.name \in Names /\ action.name \in Pending /\ Types
      /\ undo \subseteq Action /\ Unique /\ host \in Host /\ mem[holder] \in Document
  BY <1>1, HolderFacts DEF Action, Pending
<1>3. Unique' /\ Pending' = Pending \ {action.name} /\ undo' \subseteq undo
  BY <1>1, <1>2, DroppedFacts
<1>4. /\ \A a \in undo : a.was = Was(a.name)
      /\ Caddy \in Pending => before.frontendFile # None
      /\ ConfigFile \notin Skipped => host.file = before.file
      /\ Rules \notin Skipped => host.nft = before.nft
      /\ \A n \in Plugins : Plugin(n) \notin Skipped => host.plugins[n] = before.plugins[n]
      /\ Caddy \notin Skipped /\ before.frontendFile # None =>
            host.frontendFile = before.frontendFile
      /\ ~ reload /\ SingboxStood => host.singbox = before.file
  BY <1>1 DEF Undoable
<1>5. /\ host' \in Host /\ host'.singbox = host.singbox /\ lost' \subseteq Names
      /\ host'.unit = host.unit /\ host'.daemon = host.daemon
      /\ faults' \in 0..MaxFaults
      /\ ConfigFile \notin Skipped' => host'.file = before.file
      /\ Rules \notin Skipped' => host'.nft = before.nft
      /\ \A n \in Plugins : Plugin(n) \notin Skipped' => host'.plugins[n] = before.plugins[n]
      /\ Caddy \notin Skipped' /\ before.frontendFile # None =>
            host'.frontendFile = before.frontendFile
  <2>1. CASE host' = Restored(action) /\ UNCHANGED <<lost, faults>>
    <3>1. Skipped \subseteq Skipped' \union {action.name}
      BY <1>3, <2>1 DEF Skipped
    <3>2. lost' \subseteq Names /\ faults' \in 0..MaxFaults
      BY <1>2, <2>1 DEF Types, PipelineTypeOK
    <3>3. QED
      BY <1>1, <1>4, <2>1, <3>1, <3>2, RestoredFacts
  <2>2. CASE Fault /\ lost' = lost \union {action.name} /\ UNCHANGED host
    <3>1. Skipped' = Skipped
      BY <1>2, <1>3, <2>2 DEF Skipped
    <3>2. lost' \subseteq Names /\ faults' \in 0..MaxFaults
      BY <1>2, <2>2, FaultFacts DEF Types, PipelineTypeOK
    <3>3. QED
      BY <1>2, <1>4, <2>2, <3>1, <3>2
  <2>3. QED
    BY <1>1, <2>1, <2>2
<1>6. Types'
  BY <1>1, <1>2, <1>3, <1>5, TypesGood DEF Types, PipelineTypeOK, Stages
<1>7. Gathered' /\ Carried'
  BY <1>1, <1>5 DEF Gathered, Carried, DaemonWithoutUnit, FromSnapshot, FromMigrate, FromStop,
     FromPlugins, FromReload, FromRebuild, FromFinalize, FromHealth, FromSave
<1>8. Undoable'
  <2>1. /\ \A a \in undo' : a.was = Was(a.name)'
        /\ Caddy \in Pending' => before.frontendFile # None
    BY <1>1, <1>3, <1>4 DEF Was
  <2>2. QED
    BY <1>1, <1>4, <1>5, <2>1 DEF Undoable, SingboxStood, BeforeReload, FromSnapshot,
       FromMigrate, FromStop, FromPlugins, FromReload, FromRebuild, FromFinalize,
       FromHealth, FromSave
<1>9. QED
  BY <1>6, <1>7, <1>8

LEMMA RolledBackGood ==
    ASSUME PipelineInv, RolledBack
    PROVE  PipelineInv'
<1> USE DEF PipelineInv
<1>1. /\ holder # None /\ stage = "rollback" /\ stage' = "restore" /\ undo = {} /\ undo' = {}
      /\ UNCHANGED <<stored, mem, holder, entry, reload, before, edits, applies, broken, ignored>>
      /\ \/ reload /\ host' = Restarted(host) /\ UNCHANGED <<lost, faults>>
         \/ ~ reload /\ host' = host /\ UNCHANGED <<lost, faults>>
         \/ /\ Fault
            /\ host' = [host EXCEPT !.singbox = "failed"]
            /\ lost' = lost \union {ConfigFile}
  BY DEF RolledBack, At, GoTo, outside, state
<1>2. /\ Types /\ host \in Host /\ before \in Host /\ mem[holder] \in Document
      /\ before.file \in Configs \union {None}
  BY <1>1, HolderFacts, HostFacts
<1>3. /\ ConfigFile \notin Skipped => host.file = before.file
      /\ ~ reload /\ SingboxStood => host.singbox = before.file
      /\ Rules \notin Skipped => host.nft = before.nft
      /\ \A n \in Plugins : Plugin(n) \notin Skipped => host.plugins[n] = before.plugins[n]
      /\ Caddy \notin Skipped /\ before.frontendFile # None =>
            host.frontendFile = before.frontendFile
  BY <1>1 DEF Undoable
<1>4. Pending = {} /\ Pending' = {} /\ Skipped \subseteq Skipped' /\ UNCHANGED SingboxStood
  <2>1. Pending = {} /\ Pending' = {}
    BY <1>1 DEF Pending
  <2>2. QED
    BY <1>1, <2>1 DEF Skipped, SingboxStood
<1>5. /\ host' \in Host /\ host'.nft = host.nft /\ host'.plugins = host.plugins
      /\ host'.frontendFile = host.frontendFile
      /\ host'.unit = host.unit /\ host'.daemon = host.daemon
      /\ lost' \subseteq Names /\ faults' \in 0..MaxFaults
      /\ ConfigFile \notin Skipped' => FileBack' /\ SingboxBack'
  <2>1. CASE reload /\ host' = Restarted(host) /\ UNCHANGED <<lost, faults>>
    <3>1. /\ host' \in Host /\ host'.nft = host.nft /\ host'.plugins = host.plugins
          /\ host'.frontendFile = host.frontendFile /\ host'.frontend = host.frontend
          /\ host'.unit = host.unit /\ host'.daemon = host.daemon
          /\ host.file # None =>
                /\ host'.file = host.file
                /\ host'.singbox = IF SingboxCanBind(host.file) THEN host.file ELSE "failed"
          /\ host.file = None => host'.file \in {None, Initial}
      BY <1>2, <2>1, RestartedFacts
    <3>2. ConfigFile \notin Skipped' => FileBack' /\ SingboxBack'
      <4>1. SUFFICES ASSUME ConfigFile \notin Skipped' PROVE FileBack' /\ SingboxBack'
        OBVIOUS
      <4>2. host.file = before.file
        BY <1>3, <1>4, <4>1
      <4>3. SingboxCanBind(before.file)' = SingboxCanBind(before.file)
        BY <1>1, <3>1 DEF SingboxCanBind
      <4>4. FileBack'
        BY <1>1, <3>1, <4>2 DEF FileBack
      <4>5. SingboxBack'
        BY <1>1, <3>1, <4>2, <4>3 DEF SingboxBack, SingboxStood
      <4>6. QED
        BY <4>4, <4>5
    <3>3. QED
      BY <1>2, <2>1, <3>1, <3>2 DEF Types, PipelineTypeOK
  <2>2. CASE ~ reload /\ host' = host /\ UNCHANGED <<lost, faults>>
    <3>1. ConfigFile \notin Skipped' => FileBack' /\ SingboxBack'
      BY <1>1, <1>3, <1>4, <2>2 DEF FileBack, SingboxBack, SingboxStood
    <3>2. QED
      BY <1>2, <2>2, <3>1 DEF Types, PipelineTypeOK
  <2>3. CASE /\ Fault
             /\ host' = [host EXCEPT !.singbox = "failed"]
             /\ lost' = lost \union {ConfigFile}
    <3>1. "failed" \in Service /\ ConfigFile \in Skipped' /\ ConfigFile \in Names
      BY <2>3 DEF Service, Skipped, Names
    <3>2. QED
      BY <1>2, <2>3, <3>1, SingboxFacts, FaultFacts DEF Types, PipelineTypeOK
  <2>4. QED
    BY <1>1, <2>1, <2>2, <2>3
<1>6. Types'
  BY <1>1, <1>2, <1>5, TypesGood DEF Types, PipelineTypeOK, Stages, Unique
<1>7. Gathered' /\ Carried'
  BY <1>1, <1>5 DEF Gathered, Carried, DaemonWithoutUnit, FromSnapshot, FromMigrate, FromStop,
     FromPlugins, FromReload, FromRebuild, FromFinalize, FromHealth, FromSave
<1>8. Undoable'
  BY <1>1, <1>3, <1>4, <1>5 DEF Undoable, BeforeReload, FromSnapshot, FromMigrate,
     FromStop, FromPlugins, FromReload, FromRebuild, FromFinalize, FromHealth, FromSave
<1>9. QED
  BY <1>6, <1>7, <1>8

(* A service that had failed runs its file: no stage relied on the failure. *)
LEMMA SystemdGood ==
    ASSUME PipelineInv, SystemdRetries
    PROVE  PipelineInv'
<1> USE DEF PipelineInv
<1>1. /\ UNCHANGED <<stored, mem, holder, stage, entry, undo, broken, reload, before, lost,
                     ignored>>
      /\ UNCHANGED <<edits, applies, faults>>
      /\ \/ /\ host.singbox = "failed" /\ host.file # None
            /\ host' = [host EXCEPT !.singbox = host.file]
         \/ /\ host.frontend = "failed" /\ host.frontendFile # None /\ FrontendCanBind
            /\ host' = [host EXCEPT !.frontend = host.frontendFile]
  BY DEF SystemdRetries, state, outside
<1>2. /\ UNCHANGED <<Pending, Skipped, Applied, desired, SingboxStood>>
      /\ \A action : Was(action.name)' = Was(action.name)
      /\ "failed" \notin Configs /\ "stopped" # "failed" /\ host \in Host
  BY <1>1, ConstantFacts DEF Pending, Skipped, Applied, PluginActions, desired,
     SingboxStood, Was, Types, PipelineTypeOK
<1>3. /\ host' \in Host /\ host'.file = host.file /\ host'.nft = host.nft
      /\ host'.frontendFile = host.frontendFile /\ host'.autostart = host.autostart
      /\ host'.plugins = host.plugins /\ host'.unit = host.unit /\ host'.daemon = host.daemon
      /\ host'.singbox = host.singbox \/ (host.singbox = "failed" /\ host'.singbox = host.file)
      /\ \/ host'.frontend = host.frontend
         \/ host.frontend = "failed" /\ FrontendCanBind /\ host'.singbox = host.singbox
  <2>1. CASE /\ host.singbox = "failed" /\ host.file # None
             /\ host' = [host EXCEPT !.singbox = host.file]
    <3>1. host.file \in Service
      BY <1>2, <2>1, HostFacts DEF Service
    <3>2. QED
      BY <1>2, <2>1, <3>1, SingboxFacts
  <2>2. CASE /\ host.frontend = "failed" /\ host.frontendFile # None /\ FrontendCanBind
             /\ host' = [host EXCEPT !.frontend = host.frontendFile]
    <3>1. host.frontendFile \in Service
      BY <1>2, <2>2, HostFacts DEF Service
    <3>2. QED
      BY <1>2, <2>2, <3>1, RunningFacts
  <2>3. QED
    BY <1>1, <2>1, <2>2
<1>4. Types'
  BY <1>1, <1>3 DEF Types, PipelineTypeOK
<1>5. Gathered'
  BY <1>1, <1>2 DEF Gathered
<1>6. Carried'
  <2>1. CASE holder = None
    <3>1. stage' = "idle"
      BY <1>1, <2>1 DEF Types, PipelineTypeOK
    <3>2. QED
      BY <1>1, <1>3, <3>1 DEF Carried, DaemonWithoutUnit, FromSnapshot, FromMigrate,
         FromStop, FromPlugins, FromReload, FromRebuild, FromFinalize, FromHealth, FromSave
  <2>2. CASE holder # None
    <3>1. desired \in Configs
      BY <2>2, HolderFacts
    <3>2. /\ FrontendStopped => FrontendStopped'
          /\ FrontendRuns => FrontendRuns'
          /\ RulesStand => RulesStand'
          /\ DaemonStands => DaemonStands'
          /\ DaemonWithoutUnit => DaemonWithoutUnit'
      BY <1>1, <1>2, <1>3, <3>1 DEF FrontendStopped, FrontendRuns, RulesStand, DaemonStands,
         DaemonWithoutUnit
    <3>3. SingboxRuns => SingboxRuns'
      BY <1>1, <1>2, <1>3, <3>1 DEF SingboxRuns, FrontendCanBind
    <3>4. QED
      BY <1>1, <1>2, <1>3, <3>1, <3>2, <3>3 DEF Carried
  <2>3. QED
    BY <2>1, <2>2
<1>7. Undoable'
  <2>1. SUFFICES ASSUME holder # None PROVE Undoable'
    BY <1>1 DEF Undoable
  <2>2. before.file \in Configs \union {None}
    BY <2>1, HolderFacts, HostFacts
  <2>3. SingboxStood /\ host.singbox = before.file => host'.singbox = before.file
    BY <1>2, <1>3, <2>2 DEF SingboxStood
  <2>4. stage = "restore" /\ ConfigFile \notin Skipped => FileBack' /\ SingboxBack'
    <3>1. SUFFICES ASSUME stage = "restore", ConfigFile \notin Skipped
                   PROVE  FileBack' /\ SingboxBack'
      OBVIOUS
    <3>2. FileBack /\ SingboxBack
      BY <2>1, <3>1 DEF Undoable
    <3>3. FileBack'
      BY <1>1, <1>3, <3>2 DEF FileBack
    <3>4. SingboxBack'
      <4>1. SUFFICES ASSUME SingboxStood
                     PROVE  host'.singbox = before.file \/ ~ SingboxCanBind(before.file)'
        BY <1>1, <1>2 DEF SingboxBack
      <4>2. CASE host.singbox = before.file
        BY <2>3, <4>1, <4>2
      <4>3. CASE ~ SingboxCanBind(before.file)
        <5>1. host.frontend \in Configs
          BY <4>3 DEF SingboxCanBind
        <5>2. host'.frontend = host.frontend
          BY <1>2, <1>3, <5>1
        <5>3. QED
          BY <1>1, <4>3, <5>2 DEF SingboxCanBind
      <4>4. QED
        BY <3>2, <4>1, <4>2, <4>3 DEF SingboxBack
    <3>5. QED
      BY <3>3, <3>4
  <2>5. QED
    BY <1>1, <1>2, <1>3, <2>1, <2>3, <2>4 DEF Undoable
<1>8. QED
  BY <1>4, <1>5, <1>6, <1>7

-------------------------------------------------------------------------------
(* The invariant.                                                            *)

LEMMA InitGood ==
    ASSUME Init
    PROVE  PipelineInv
<1> USE DEF Init
<1>1. /\ stored \in Document /\ mem \in [Processes -> Document \union {None}]
      /\ edits \in 0..MaxEdits /\ applies \in 0..MaxApplies /\ faults \in 0..MaxFaults
  BY ConstantFacts DEF Document
<1>2. host \in Host
  BY DEF Host, Service
<1>3. Types
  BY <1>1, <1>2 DEF Types, PipelineTypeOK, Stages
<1>4. Gathered /\ Carried /\ Undoable
  BY DEF Gathered, Carried, DaemonWithoutUnit, Undoable, FromSnapshot, FromMigrate,
     FromStop, FromPlugins, FromReload, FromRebuild, FromFinalize, FromHealth, FromSave
<1>5. QED
  BY <1>3, <1>4 DEF PipelineInv

LEMMA NextGood ==
    ASSUME PipelineInv, [Next]_vars
    PROVE  PipelineInv'
<1>1. CASE \E p \in Processes : Load(p) \/ Save(p) \/ Begin(p)
  BY <1>1, ElsewhereGood, BeginGood
<1>2. CASE \E p \in Processes, config \in Configs : Edit(p, config)
  BY <1>2, ElsewhereGood
<1>3. CASE ApplyStep
  BY <1>3, PrepareGood, WriteConfigGood, SnapshotNftGood, ApplyNftGood, MigrateHaproxyGood,
     SnapshotFrontendGood, StopFrontendGood, ApplyPluginGood, PluginsAppliedGood,
     ReloadSingboxGood, HostUntouchedGood, RebuildFrontendGood, RebuildFailsGood,
     RebuildRaisesGood, StartDaemonGood, StopDaemonGood, CommitGood, SaveFailsGood,
     RollBackOneGood, RolledBackGood, RestoreStateGood
  DEF ApplyStep
<1>4. CASE Kill
  BY <1>4, KillGood
<1>5. CASE SystemdRetries
  BY <1>5, SystemdGood
<1>6. CASE UNCHANGED vars
  <2>1. /\ UNCHANGED <<holder, stage, entry, undo, broken, reload, host, before, lost, ignored>>
        /\ UNCHANGED <<stored, mem, edits, applies, faults>>
    BY <1>6 DEF vars
  <2>2. PipelineTypeOK'
    BY <2>1 DEF PipelineInv, Types, PipelineTypeOK
  <2>3. QED
    BY <2>1, <2>2, OutsideGood
<1>7. QED
  BY <1>1, <1>2, <1>3, <1>4, <1>5, <1>6 DEF Next

(* A call of apply_config returns where its state is saved: after the health *)
(* check, or after the state it started from was put back.                   *)
LEMMA ReturnFacts ==
    ASSUME PipelineInv, [Next]_vars, Returns
    PROVE  (stage = "save" /\ Commit) \/ (stage = "restore" /\ RestoreState)
<1>1. holder # None /\ holder' = None /\ mem'[holder] # None
  BY DEF Returns
<1>2. CASE \E p \in Processes : Load(p) \/ Save(p) \/ Begin(p)
  BY <1>1, <1>2 DEF Load, Save, Begin, Elsewhere
<1>3. CASE \E p \in Processes, config \in Configs : Edit(p, config)
  BY <1>1, <1>3 DEF Edit, Elsewhere
<1>4. CASE ApplyStep
  <2>1. CASE Commit \/ RestoreState
    BY <2>1 DEF Commit, RestoreState, At
  <2>2. CASE Prepare \/ WriteConfig \/ SnapshotNft \/ ApplyNft \/ MigrateHaproxy
    BY <1>1, <2>2 DEF Prepare, WriteConfig, SnapshotNft, ApplyNft, MigrateHaproxy,
       SetFlag, GoTo, Leave, Fail
  <2>3. CASE \/ SnapshotFrontend \/ StopFrontend
             \/ (\E n \in Plugins : ApplyPlugin(n)) \/ PluginsApplied
    BY <1>1, <2>3 DEF SnapshotFrontend, StopFrontend, ApplyPlugin, PluginsApplied, GoTo, Fail
  <2>4. CASE ReloadSingbox \/ ReloadRaises \/ RebuildFrontend \/ RebuildFails \/ RebuildRaises
    BY <1>1, <2>4 DEF ReloadSingbox, ReloadRaises, RebuildFrontend, RebuildFails, RebuildRaises,
       GoTo, Fail
  <2>5. CASE Finalize \/ StartDaemon \/ StopDaemon \/ Health \/ SaveFails
    BY <1>1, <2>5 DEF Finalize, StartDaemon, StopDaemon, Health, SaveFails, GoTo, Fail
  <2>6. CASE (\E action \in undo : RollBackOne(action)) \/ RolledBack
    BY <1>1, <2>6 DEF RollBackOne, RolledBack, GoTo
  <2>7. QED
    BY <1>4, <2>1, <2>2, <2>3, <2>4, <2>5, <2>6 DEF ApplyStep
<1>5. CASE Kill
  <2>1. mem'[holder] = None
    BY <1>1, <1>5, HolderFacts DEF Kill, PipelineInv, Types, PipelineTypeOK
  <2>2. QED
    BY <1>1, <2>1
<1>6. CASE SystemdRetries
  BY <1>1, <1>6 DEF SystemdRetries
<1>7. CASE UNCHANGED vars
  BY <1>1, <1>7 DEF vars
<1>8. QED
  BY <1>2, <1>3, <1>4, <1>5, <1>6, <1>7 DEF Next

(* The inductive invariant of the pipeline: at every stage, what the stages  *)
(* before it have brought to the desired configuration and what the actions  *)
(* registered so far can put back.                                           *)
THEOREM PipelineInvariant == Spec => []PipelineInv
<1>1. Init => PipelineInv
  BY InitGood
<1>2. PipelineInv /\ [Next]_vars => PipelineInv'
  BY NextGood
<1>3. QED
  BY <1>1, <1>2, PTL DEF Spec

(* Every variable keeps its type; apply.lock is held exactly while an apply  *)
(* is under way, and no resource has two rollback actions.                   *)
THEOREM Typing == Spec => []PipelineTypeOK
<1>1. PipelineInv => PipelineTypeOK
  BY DEF PipelineInv, Types
<1>2. QED
  BY <1>1, PipelineInvariant, PTL

(* apply_config returns success only when every part of the host carries the *)
(* desired state that is then on disk: whatever other processes edited and   *)
(* saved meanwhile, whatever systemd restarted, whatever an earlier apply    *)
(* left behind when it was killed; except the parts left by a command whose  *)
(* failure the code does not look at (sni_router.stop, systemctl enable,     *)
(* nft delete table, stop of the traffic daemon).                            *)
THEOREM AppliedEverywhere == Spec => CommittedEverywhere
<1> DEFINE Everywhere ==
        LET config == stored'.config IN
        /\ config = mem[holder].config
        /\ {host'.file, host'.singbox} = {config}
        /\ \A n \in Enabled[config] : host'.plugins[n] = config
        /\ RulesCarry(config) /\ AccountingCarries(config) /\ FrontendCarries(config)
<1>1. ASSUME PipelineInv, [Next]_vars, Succeeds
      PROVE  Everywhere
  <2>1. stage = "save" /\ Commit
    BY <1>1, ReturnFacts DEF Succeeds
  <2>2. holder # None /\ UNCHANGED <<host, ignored>> /\ stored'.config = desired
    <3>1. holder # None /\ UNCHANGED <<host, ignored>> /\ SaveAccepted(holder, mem[holder])
      BY <2>1 DEF Commit, At, Release
    <3>2. QED
      BY <1>1, <3>1, HolderFacts, SaveFacts DEF PipelineInv, desired
  <2>3. /\ host.file = desired /\ SingboxRuns /\ RulesStand /\ DaemonStands
        /\ \A n \in Enabled[desired] : host.plugins[n] = desired
        /\ Frontend[desired] = "mux" => FrontendRuns
        /\ Frontend[desired] # "mux" => FrontendStopped
    BY <1>1, <2>1 DEF PipelineInv, Carried, FromSnapshot, FromMigrate, FromStop, FromPlugins,
       FromReload, FromRebuild, FromFinalize, FromHealth, FromSave
  <2>4. desired \in Configs /\ Frontend[desired] \in {"mux", "direct", "none"}
    BY <1>1, <2>2, HolderFacts, ConstantFacts
  <2>5. RulesCarry(desired) /\ AccountingCarries(desired)
    BY <2>2, <2>3 DEF RulesCarry, AccountingCarries, RulesStand, DaemonStands
  <2>6. FrontendCarries(desired)
    BY <2>2, <2>3, <2>4, ConstantFacts
    DEF FrontendCarries, FrontendRuns, FrontendStopped, SingboxRuns
  <2>7. QED
    BY <2>2, <2>3, <2>5, <2>6 DEF desired, SingboxRuns
<1>2. PipelineInv /\ [Next]_vars => [Succeeds => Everywhere]_vars
  BY <1>1
<1> HIDE DEF Everywhere
<1>3. [][Succeeds => Everywhere]_vars => CommittedEverywhere
  BY DEF CommittedEverywhere, Everywhere
<1>4. QED
  BY <1>2, <1>3, PipelineInvariant, PTL DEF Spec

(* An apply that fails puts back every resource whose rollback was           *)
(* registered and did not itself fail, in whatever stage it failed and       *)
(* whichever of the other rollback actions failed.                           *)
THEOREM Restores == Spec => FailedApplyRestores
<1> DEFINE Back ==
        LET skipped == lost \union {action.name : action \in undo} IN
        /\ ConfigFile \notin skipped => FileRestored /\ SingboxRestored
        /\ Rules \notin skipped => host'.nft = before.nft
        /\ \A n \in Plugins : Plugin(n) \notin skipped => host'.plugins[n] = before.plugins[n]
        /\ Caddy \notin skipped /\ before.frontendFile # None =>
              host'.frontendFile = before.frontendFile
<1>1. ASSUME PipelineInv, [Next]_vars, Fails
      PROVE  Back
  <2>1. stage = "restore" /\ RestoreState
    BY <1>1, ReturnFacts DEF Fails
  <2>2. holder # None /\ UNCHANGED host
    BY <2>1 DEF RestoreState, At
  <2>3. /\ ConfigFile \notin Skipped => FileBack /\ SingboxBack
        /\ Rules \notin Skipped => host.nft = before.nft
        /\ \A n \in Plugins : Plugin(n) \notin Skipped => host.plugins[n] = before.plugins[n]
        /\ Caddy \notin Skipped /\ before.frontendFile # None =>
              host.frontendFile = before.frontendFile
    BY <1>1, <2>1, <2>2 DEF PipelineInv, Undoable
  <2>4. /\ FileBack => FileRestored
        /\ SingboxBack => SingboxRestored
    BY <2>2 DEF FileBack, FileRestored, SingboxBack, SingboxStood, SingboxRestored
  <2>5. QED
    BY <2>2, <2>3, <2>4 DEF Skipped, Pending
<1>2. PipelineInv /\ [Next]_vars => [Fails => Back]_vars
  BY <1>1
<1> HIDE DEF Back
<1>3. [][Fails => Back]_vars => FailedApplyRestores
  BY DEF FailedApplyRestores, Back
<1>4. QED
  BY <1>2, <1>3, PipelineInvariant, PTL DEF Spec

===============================================================================
