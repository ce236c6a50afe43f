------------------------------- MODULE Lifecycle -------------------------------
(***************************************************************************)
(* Operations on plugins and users that change the desired state, the      *)
(* plugins' own resources and the running configuration together:          *)
(* services/plugin_lifecycle.py, services/user_lifecycle.py and            *)
(* activate_plugin.  Each operation is the list of its steps; a step       *)
(* registers the rollback actions the code registers before or after it,   *)
(* and the first step that fails starts the rollback.  Operations call one *)
(* another, so running ones form a stack.                                  *)
(*                                                                         *)
(* save_state is that of StateStore, apply_config that of ApplyPipeline in *)
(* one step: it lands on the host and on disk, or on neither.  A plugin is *)
(* what its hooks leave on the host: its software, the ports and services  *)
(* of on_enable, and credentials it writes into the state.                 *)
(***************************************************************************)
EXTENDS Integers, Sequences

CONSTANTS
    Plugins,
    Users,
    Catalog,      \* the plugins in the order of the registry
    NeedsConfig,  \* plugins whose on_enable raises without a domain in their config
    None,         \* no plugin, no user
    MaxOperations, \* bound: operations begun
    MaxForeign,   \* bound: desired changes another process saves
    MaxFaults     \* bound: hooks, saves and applies that fail

ASSUME LifecycleAssumption ==
    /\ Catalog \in Seq(Plugins)
    /\ \A i, j \in DOMAIN Catalog : Catalog[i] = Catalog[j] => i = j
    /\ NeedsConfig \subseteq Plugins
    /\ None \notin Plugins \union Users
    /\ \A bound \in {MaxOperations, MaxForeign, MaxFaults} : bound \in Nat

Document == [installed : SUBSET Plugins, enabled : SUBSET Plugins,
             configured : SUBSET Plugins,          \* their config is not empty
             users : SUBSET Users, blocked : SUBSET Users, renamed : SUBSET Users,
             credentials : SUBSET (Users \X Plugins),
             refused : SUBSET (Users \X Plugins),  \* disabled_protocols
             foreign : Nat]                        \* everything else
State == [revision : Nat, doc : Document]

VARIABLES
    stored,    \* state.json
    memory,    \* the AppState of the session that runs operations
    software,  \* plugins installed on the host
    runtime,   \* plugins whose on_enable is in effect
    served,    \* what the running configuration serves
    stack,     \* the running operation and those it called
    before,    \* history: stored, software, runtime and served when it began
    outcome,   \* of the last operation
    spoiled,   \* history: something the rollback could not or may not undo
    operations, foreigns, faults

host == <<software, runtime, served>>
bounds == <<operations, foreigns, faults>>
vars == <<stored, memory, software, runtime, served, stack, before, outcome, spoiled,
          operations, foreigns, faults>>

\* What a document makes the host serve: enabled plugins to active users.
Serving(doc) ==
    [enabled |-> doc.enabled, renamed |-> doc.renamed,
     access |-> ((doc.users \ doc.blocked) \X doc.enabled) \ doc.refused]

-------------------------------------------------------------------------------
(* The steps of an operation and the actions that undo them.                 *)

PluginOperations == {"install", "uninstall", "reinstall", "enable", "disable", "activate"}
UserOperations == {"add", "remove", "block", "unblock", "rename", "refuse", "allow"}

Undo(priority, act, p, u) == [priority |-> priority, act |-> act, p |-> p, u |-> u]

\* Mutant of Transaction: the old configuration is applied first.
TransactionSwapped == {Undo(30, "restore", None, None), Undo(20, "reapply", None, None)}

\* state_transaction: the state comes back before the configuration.
Transaction == {Undo(20, "restore", None, None), Undo(30, "reapply", None, None)}

Step(act, p, u) == [act |-> act, p |-> p, u |-> u, early |-> {}, late |-> {}]

\* A step whose undo is registered before it runs, or once it succeeded.
Prepared(act, p, u, undo) == [Step(act, p, u) EXCEPT !.early = undo]
Followed(act, p, u, undo) == [Step(act, p, u) EXCEPT !.late = undo]

Optional(condition, steps) == IF condition THEN steps ELSE <<>>

Edit == Step("edit", None, None)
Save == Step("save", None, None)
Apply == Step("apply", None, None)

\* One hook call per enabled transport, in catalog order, undone in reverse.
Transports(doc) == SelectSeq(Catalog, LAMBDA p : p \in doc.enabled)
Position(p) == CHOOSE i \in DOMAIN Catalog : Catalog[i] = p
FanOut(act, undoAct, u, doc) ==
    [i \in DOMAIN Transports(doc) |->
        LET p == Transports(doc)[i]
        IN Prepared(act, p, u, {Undo(11 - Position(p), undoAct, p, u)})]

InstallSteps(p, doc) ==
    <<Followed("install", p, None,
               IF p \in doc.installed THEN {} ELSE {Undo(10, "uninstall", p, None)}),
      Edit, Save>>
    \o Optional(p \in doc.enabled, <<Apply>>)

\* Mutant of UninstallSteps: the reinstallation is registered after the hook.
UninstallRegisteredLate(p, doc) ==
    Optional(p \in doc.enabled,
             <<Followed("disable", p, None, {Undo(10, "enable", p, None)})>>)
    \o <<Followed("uninstall", p, None,
                  IF p \in doc.installed THEN {Undo(5, "install", p, None)} ELSE {}),
         Edit, Save, Apply>>

UninstallSteps(p, doc) ==
    Optional(p \in doc.enabled,
             <<Followed("disable", p, None, {Undo(10, "enable", p, None)})>>)
    \o <<Prepared("uninstall", p, None,
                  IF p \in doc.installed THEN {Undo(5, "install", p, None)} ELSE {}),
         Edit, Save, Apply>>

\* The transaction of reinstall begins once uninstall has committed its own.
ReinstallSteps(p, doc) ==
    <<Step("call uninstall", p, None),
      Prepared("edit", None, None,
               Transaction \union {Undo(5, "repair", p, None)}
               \union (IF p \in doc.enabled THEN {Undo(10, "enable", p, None)} ELSE {})),
      Save, Step("call install", p, None)>>
    \o Optional(p \in doc.enabled, <<Step("call enable", p, None)>>)

\* Mutant of EnableSteps: users are left to their next change.
EnableWithoutUsers(p) ==
    <<Prepared("prepare", p, None, {Undo(10, "disable", p, None)}),
      Step("enable", p, None), Edit, Save, Apply>>

\* on_disable is registered before anything is done; "provision" is the loop of
\* on_user_add over the users who are not blocked.
EnableSteps(p) ==
    <<Prepared("prepare", p, None, {Undo(10, "disable", p, None)}),
      Step("enable", p, None), Edit, Save, Step("provision", p, None), Save, Apply>>

DisableSteps(p) ==
    <<Followed("disable", p, None, {Undo(10, "enable", p, None)}), Edit, Save, Apply>>

ActivateSteps(p, doc) ==
    <<Edit>>
    \o Optional(p \notin doc.installed, <<Step("call install", p, None)>>)
    \o <<Step("call enable", p, None)>>

\* add, remove, block, unblock and rename edit the state, then tell the plugins.
Hooks == [add     |-> [act |-> "user_add",    undo |-> "user_remove"],
          remove  |-> [act |-> "user_remove", undo |-> "user_add"],
          block   |-> [act |-> "user_block",  undo |-> "user_add"],
          unblock |-> [act |-> "user_add",    undo |-> "user_block"],
          rename  |-> [act |-> "user_rename", undo |-> "user_rename_back"]]

UserSteps(op, u, doc) ==
    <<Edit>> \o FanOut(Hooks[op].act, Hooks[op].undo, u, doc) \o <<Save, Apply>>

\* set_protocol_enabled: its transaction begins at _commit.
RefuseSteps == <<Edit, Prepared("save", None, None, Transaction), Apply>>

AllowSteps(p, u, doc) ==
    <<Edit>>
    \o Optional(u \notin doc.blocked,
                <<Prepared("user_add", p, u, {Undo(20, "restore", None, None)})>>)
    \o <<Prepared("save", None, None, Transaction), Apply>>

Steps(op, p, u, doc) ==
    CASE op = "install"   -> InstallSteps(p, doc)
      [] op = "uninstall" -> UninstallSteps(p, doc)
      [] op = "reinstall" -> ReinstallSteps(p, doc)
      [] op = "enable"    -> EnableSteps(p)
      [] op = "disable"   -> DisableSteps(p)
      [] op = "activate"  -> ActivateSteps(p, doc)
      [] op = "refuse"    -> RefuseSteps
      [] op = "allow"     -> AllowSteps(p, u, doc)
      [] OTHER            -> UserSteps(op, u, doc)

\* What is registered before the first step.
InitialUndo(op) ==
    CASE op \in {"reinstall", "refuse", "allow"} -> {}
      [] op = "activate" -> {Undo(20, "deactivate", None, None)}
      [] OTHER -> Transaction

Frame(op, p, u, doc) ==
    [op |-> op, p |-> p, u |-> u, snapshot |-> doc, todo |-> Steps(op, p, u, doc),
     undo |-> InitialUndo(op), failed |-> FALSE]

\* The change of desired state an operation makes.
Edited(frame, doc) ==
    LET p == frame.p
        u == frame.u
        pair == <<u, p>>
        Forget(pairs) == {q \in pairs : q[1] # u}
    IN CASE frame.op = "install"   -> [doc EXCEPT !.installed = @ \union {p}]
         [] frame.op = "uninstall" -> [doc EXCEPT !.installed = @ \ {p},
                                                  !.enabled = @ \ {p},
                                                  !.configured = @ \ {p}]
         [] frame.op = "reinstall" -> [doc EXCEPT !.configured =
                                          @ \union ({p} \intersect frame.snapshot.configured)]
         [] frame.op = "enable"    -> [doc EXCEPT !.enabled = @ \union {p}]
         [] frame.op = "disable"   -> [doc EXCEPT !.enabled = @ \ {p}]
         [] frame.op = "activate"  -> [doc EXCEPT !.configured = @ \union {p}]
         [] frame.op = "add"       -> [doc EXCEPT !.users = @ \union {u}]
         [] frame.op = "remove"    -> [doc EXCEPT !.users = @ \ {u}, !.blocked = @ \ {u},
                                                  !.renamed = @ \ {u},
                                                  !.credentials = Forget(@),
                                                  !.refused = Forget(@)]
         [] frame.op = "block"     -> [doc EXCEPT !.blocked = @ \union {u}]
         [] frame.op = "unblock"   -> [doc EXCEPT !.blocked = @ \ {u}]
         [] frame.op = "rename"    -> [doc EXCEPT !.renamed = @ \union {u}]
         [] frame.op = "refuse"    -> [doc EXCEPT !.refused = @ \union {pair}]
         [] frame.op = "allow"     -> [doc EXCEPT !.refused = @ \ {pair}]

-------------------------------------------------------------------------------
(* save_state and apply_config, as outcomes of one step.                     *)

Fault == faults < MaxFaults /\ faults' = faults + 1 /\ UNCHANGED <<operations, foreigns>>
NoFault == UNCHANGED bounds

Conflicts(doc) == doc # stored.doc /\ memory.revision # stored.revision

Numbered(doc) ==
    [revision |-> stored.revision + (IF doc = stored.doc THEN 0 ELSE 1), doc |-> doc]

SaveAccepted(doc) ==
    /\ ~Conflicts(doc)
    /\ stored' = Numbered(doc)
    /\ memory' = Numbered(doc)

\* A conflict, or an I/O error after the copy was renumbered.
SaveRaises(doc) ==
    /\ stored' = stored
    /\ \/ Conflicts(doc) /\ NoFault /\ memory' = [memory EXCEPT !.doc = doc]
       \/ ~Conflicts(doc) /\ Fault /\ memory' = Numbered(doc)

\* prepare_enabled and the hooks of enabled plugins need their configuration.
Appliable(doc) == doc.enabled \intersect NeedsConfig \subseteq doc.configured

ApplySucceeds ==
    /\ Appliable(memory.doc)
    /\ SaveAccepted(memory.doc)
    /\ served' = Serving(memory.doc)

\* apply_config has put the host back and tries to save the copy it took;
\* a busy apply.lock ends it before either.
ApplyFails ==
    /\ \/ NoFault /\ (~Appliable(memory.doc) \/ Conflicts(memory.doc))
       \/ Fault
    /\ \/ SaveAccepted(memory.doc)
       \/ Conflicts(memory.doc) /\ UNCHANGED <<stored, memory>>
       \/ faults' # faults /\ UNCHANGED <<stored, memory>>
    /\ UNCHANGED served

-------------------------------------------------------------------------------
(* Hooks.                                                                    *)

\* on_enable validates the configuration it finds in the session's state.
HookRefuses(act, p) ==
    act \in {"prepare", "enable"} /\ p \in NeedsConfig \ memory.doc.configured

OnHost(act, p) ==
    /\ software' = CASE act \in {"install"} -> software \union {p}
                     [] act \in {"uninstall"} -> software \ {p}
                     [] OTHER -> software
    /\ runtime' = CASE act = "enable" -> runtime \union {p}
                    [] act = "disable" -> runtime \ {p}
                    [] OTHER -> runtime

Credentials(act, p, u) ==
    CASE act = "provision" -> (memory.doc.users \ memory.doc.blocked) \X {p}
      [] act \in {"user_add", "user_rename"} -> ({u} \intersect memory.doc.users) \X {p}
      [] OTHER -> {}

HookSucceeds(act, p, u) ==
    /\ ~HookRefuses(act, p)
    /\ OnHost(act, p)
    /\ memory' = [memory EXCEPT !.doc.credentials = @ \union Credentials(act, p, u)]
    /\ UNCHANGED <<stored, served>>
    /\ NoFault

\* A hook that fails may have done its work or none of it.
HookFails(act, p) ==
    /\ \/ HookRefuses(act, p) /\ NoFault /\ UNCHANGED <<software, runtime>>
       \/ ~HookRefuses(act, p) /\ Fault /\ (OnHost(act, p) \/ UNCHANGED <<software, runtime>>)
    /\ UNCHANGED <<memory, stored, served>>

HookNames == {"install", "uninstall", "prepare", "enable", "disable", "provision", "user_add",
              "user_remove", "user_block", "user_rename", "user_rename_back"}

-------------------------------------------------------------------------------
(* Running an operation.                                                     *)

Top == stack[Len(stack)]
Running == stack # <<>> /\ ~Top.failed
WithTop(frame) == [stack EXCEPT ![Len(stack)] = frame]
Callers == SubSeq(stack, 1, Len(stack) - 1)

Advanced(frame) ==
    LET step == Head(frame.todo)
    IN [frame EXCEPT !.todo = Tail(@), !.undo = @ \union step.early \union step.late]

\* The first failure turns the operation round; "allow" undoes only the state
\* when the hook raises.
Turned(frame) ==
    [frame EXCEPT !.todo = <<>>, !.failed = TRUE, !.undo = @ \union Head(frame.todo).early]

Performs(step) ==
    \/ step.act \in HookNames /\ HookSucceeds(step.act, step.p, step.u)
    \/ /\ step.act = "edit"
       /\ memory' = [memory EXCEPT !.doc = Edited(Top, @)]
       /\ UNCHANGED <<stored, host>> /\ NoFault
    \/ step.act = "save" /\ SaveAccepted(memory.doc) /\ UNCHANGED host /\ NoFault
    \/ step.act = "apply" /\ ApplySucceeds /\ UNCHANGED <<software, runtime>> /\ NoFault

\* install and disable register their undo only once the hook returned.
HalfDone(step) ==
    step.act \in {"install", "disable"} /\ <<software, runtime>>' # <<software, runtime>>

Misses(step) ==
    \/ step.act \in HookNames /\ HookFails(step.act, step.p)
    \/ step.act = "save" /\ SaveRaises(memory.doc) /\ UNCHANGED host
    \/ step.act = "apply" /\ ApplyFails /\ UNCHANGED <<software, runtime>>

StepSucceeds ==
    /\ Running /\ Top.todo # <<>>
    /\ Performs(Head(Top.todo))
    /\ stack' = WithTop(Advanced(Top))
    /\ UNCHANGED <<before, outcome, spoiled>>

StepFails ==
    /\ Running /\ Top.todo # <<>>
    /\ Misses(Head(Top.todo))
    /\ stack' = WithTop(Turned(Top))
    /\ spoiled' = (spoiled \/ HalfDone(Head(Top.todo)))
    /\ UNCHANGED <<before, outcome>>

Calls(step) == CASE step.act = "call install"   -> "install"
                 [] step.act = "call uninstall" -> "uninstall"
                 [] step.act = "call enable"    -> "enable"
                 [] OTHER -> None

\* An operation that calls another: its own transaction starts from here.
CallOperation ==
    /\ Running /\ Top.todo # <<>>
    /\ Calls(Head(Top.todo)) # None
    /\ stack' = Append(stack, Frame(Calls(Head(Top.todo)), Top.p, None, memory.doc))
    /\ UNCHANGED <<stored, memory, host, before, outcome, spoiled, bounds>>

\* Committed, or rolled back: the caller goes on, or turns round itself.
Return ==
    /\ stack # <<>>
    /\ IF Top.failed THEN Top.undo = {} ELSE Top.todo = <<>>
    /\ stack' = IF Callers = <<>> THEN <<>>
                ELSE [Callers EXCEPT ![Len(Callers)] =
                         IF Top.failed THEN Turned(@) ELSE Advanced(@)]
    /\ outcome' = IF Callers # <<>> THEN outcome
                  ELSE IF Top.failed THEN "failed" ELSE "done"
    /\ UNCHANGED <<stored, memory, host, before, spoiled, bounds>>

-------------------------------------------------------------------------------
(* Rolling back.                                                             *)

\* The registered action with the lowest priority.
NextUndo(undo) == CHOOSE a \in undo : \A b \in undo : a.priority <= b.priority

\* _restore_failed_activation keeps an installation that was completed.
Deactivated(frame) ==
    [frame.snapshot EXCEPT
        !.installed = @ \union ({frame.p} \intersect memory.doc.installed)]

\* _restore_plugin_install.
RepairSkipped(action) == action.act = "repair" /\ action.p \in memory.doc.installed
HookOf(action) == IF action.act = "repair" THEN "install" ELSE action.act

\* The document a restoring action writes back over the session's copy.
RestoredBy(action) == IF action.act = "restore" THEN Top.snapshot ELSE Deactivated(Top)

Undoes(action) ==
    \/ RepairSkipped(action) /\ UNCHANGED <<stored, memory, host>> /\ NoFault
    \/ /\ ~RepairSkipped(action) /\ HookOf(action) \in HookNames
       /\ HookSucceeds(HookOf(action), action.p, action.u)
    \/ /\ action.act \in {"restore", "deactivate"}
       /\ SaveAccepted(RestoredBy(action)) /\ UNCHANGED host /\ NoFault
    \/ action.act = "reapply" /\ ApplySucceeds /\ UNCHANGED <<software, runtime>> /\ NoFault

CannotUndo(action) ==
    \/ ~RepairSkipped(action) /\ HookOf(action) \in HookNames /\ HookFails(HookOf(action), action.p)
    \/ /\ action.act \in {"restore", "deactivate"}
       /\ SaveRaises(RestoredBy(action)) /\ UNCHANGED host
    \/ action.act = "reapply" /\ ApplyFails /\ UNCHANGED <<software, runtime>>

UndoSucceeds ==
    /\ stack # <<>> /\ Top.failed /\ Top.undo # {}
    /\ LET action == NextUndo(Top.undo)
       IN /\ Undoes(action)
          /\ stack' = WithTop([Top EXCEPT !.undo = @ \ {action}])
    /\ UNCHANGED <<before, outcome, spoiled>>

\* ApplyTransaction.rollback records the failure and goes on.
UndoFails ==
    /\ stack # <<>> /\ Top.failed /\ Top.undo # {}
    /\ LET action == NextUndo(Top.undo)
       IN /\ CannotUndo(action)
          /\ stack' = WithTop([Top EXCEPT !.undo = @ \ {action}])
    /\ spoiled' = TRUE
    /\ UNCHANGED <<before, outcome>>

-------------------------------------------------------------------------------
(* The session and the other processes.                                      *)

\* What the callers check: a known plugin, a user who exists or does not, a
\* protocol that is enabled and a switch that would change something.
Permitted(op, p, u) ==
    LET doc == memory.doc
    IN CASE op \in PluginOperations -> p \in Plugins /\ u = None
         [] op = "add" -> p = None /\ u \in Users \ doc.users
         [] op = "rename" -> p = None /\ u \in doc.users \ doc.renamed
         [] op = "refuse" -> u \in doc.users /\ p \in doc.enabled /\ <<u, p>> \notin doc.refused
         [] op = "allow" -> u \in doc.users /\ p \in doc.enabled /\ <<u, p>> \in doc.refused
         [] OTHER -> p = None /\ u \in doc.users

\* The rollback of enable disables, that of disable enables and that of
\* reinstall installs, whatever was before.
Redundant(op, p) ==
    \/ op \in {"enable", "activate"} /\ p \in memory.doc.enabled
    \/ op = "disable" /\ p \notin memory.doc.enabled
    \/ op = "reinstall" /\ p \notin memory.doc.installed

Begin(op, p, u) ==
    /\ stack = <<>>
    /\ operations < MaxOperations
    /\ operations' = operations + 1
    /\ Permitted(op, p, u)
    /\ stack' = <<Frame(op, p, u, memory.doc)>>
    /\ before' = [doc |-> stored.doc, software |-> software, runtime |-> runtime,
                  served |-> served]
    /\ spoiled' = (spoiled \/ Redundant(op, p))
    /\ outcome' = "none"
    /\ UNCHANGED <<stored, memory, host, foreigns, faults>>

Reload ==
    /\ stack = <<>>
    /\ memory # stored
    /\ memory' = stored
    /\ UNCHANGED <<stored, host, stack, before, outcome, spoiled, bounds>>

\* Another process saves a desired change of its own.
ForeignSave ==
    /\ foreigns < MaxForeign
    /\ foreigns' = foreigns + 1
    /\ stored' = Numbered([stored.doc EXCEPT !.foreign = @ + 1])
    /\ spoiled' = (spoiled \/ stack # <<>>)
    /\ UNCHANGED <<memory, host, stack, before, outcome, operations, faults>>

-------------------------------------------------------------------------------

\* A host that runs what its state says.
Consistent(doc) ==
    /\ doc.enabled \subseteq doc.installed
    /\ Appliable(doc)
    /\ doc.blocked \subseteq doc.users

Init ==
    /\ \E installed, enabled, configured \in SUBSET Plugins, users, blocked \in SUBSET Users :
       \E refused \in SUBSET (users \X enabled) :
          LET doc == [installed |-> installed, enabled |-> enabled, configured |-> configured,
                      users |-> users, blocked |-> blocked, renamed |-> {},
                      credentials |-> (users \ blocked) \X enabled, refused |-> refused,
                      foreign |-> 0]
          IN /\ Consistent(doc)
             /\ stored = [revision |-> 1, doc |-> doc]
    /\ memory = stored
    /\ software = stored.doc.installed /\ runtime = stored.doc.enabled
    /\ served = Serving(stored.doc)
    /\ stack = <<>>
    /\ before = [doc |-> stored.doc, software |-> software, runtime |-> runtime,
                 served |-> served]
    /\ outcome = "none" /\ spoiled = FALSE
    /\ operations = 0 /\ foreigns = 0 /\ faults = 0

Next ==
    \/ \E op \in PluginOperations \union UserOperations :
          \E p \in Plugins \union {None}, u \in Users \union {None} : Begin(op, p, u)
    \/ StepSucceeds \/ StepFails \/ CallOperation \/ Return
    \/ UndoSucceeds \/ UndoFails
    \/ Reload \/ ForeignSave

Spec == Init /\ [][Next]_vars

-------------------------------------------------------------------------------
(* Properties.                                                               *)

\* What a document says of a user it says of one it has.
WellFormed(doc) ==
    /\ doc.blocked \union doc.renamed \subseteq doc.users
    /\ doc.credentials \union doc.refused \subseteq doc.users \X Plugins

TypeOK ==
    /\ stored \in State /\ memory \in State
    /\ WellFormed(stored.doc) /\ WellFormed(memory.doc)
    /\ software \subseteq Plugins /\ runtime \subseteq Plugins
    /\ served.enabled \subseteq Plugins
    /\ outcome \in {"none", "done", "failed"}
    /\ spoiled \in BOOLEAN
    /\ \A i \in DOMAIN stack :
          /\ stack[i].op \in PluginOperations \union UserOperations
          /\ stack[i].snapshot \in Document

\* Between two operations the desired state, the plugins' own resources and
\* the running configuration say the same, whatever failed on the way, unless
\* a rollback action failed as well or another process saved in between.
Agreement ==
    stack = <<>> /\ ~spoiled =>
        /\ served = Serving(stored.doc)
        /\ runtime = stored.doc.enabled
        /\ software = stored.doc.installed

\* A failed operation has changed nothing, except that activate_plugin keeps a
\* completed installation (ApplyTransaction.rollback, _restore_failed_activation).
FailureRestores ==
    [][outcome' = "failed" /\ outcome # "failed" /\ ~spoiled' =>
          LET kept == stack[1].op = "activate"
          IN /\ runtime' = before.runtime /\ served' = before.served
             /\ [stored'.doc EXCEPT !.installed = {}] = [before.doc EXCEPT !.installed = {}]
             /\ stored'.doc.installed \in
                   {before.doc.installed} \union
                   (IF kept THEN {before.doc.installed \union {stack[1].p}} ELSE {})
             /\ (kept \/ software' = before.software)]_vars

\* Whoever is served has credentials for the plugin that serves them: enable
\* provides them for the users of the moment, every user operation for later.
CredentialsReady ==
    stack = <<>> /\ ~spoiled => served.access \subseteq stored.doc.credentials

===============================================================================
