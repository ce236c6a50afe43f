-------------------------------- MODULE AntiDpi --------------------------------
(***************************************************************************)
(* AntiDPI: bans recorded in antidpi.json and enforced by an ipset and a   *)
(* DROP rule, both of which a reboot loses.  The collector bans on         *)
(* evidence and reconciles record and ipset at start and every ten         *)
(* minutes; operators ban, unban and trust addresses from processes of     *)
(* their own.  Each change holds the lock of the file over its firewall    *)
(* command, save one: the rollback of a plugin command writes its snapshot *)
(* back without it.  Commands are refused, processes die, the host reboots.*)
(*                                                                         *)
(* Left out: the score and telemetry fields, notifications, the journal    *)
(* cursor (no journal record is enforcement evidence while                 *)
(* PROTOCOL_REJECT_RULES is empty), a corrupt state file, and the host's   *)
(* own addresses, which nothing bans and nothing removes from the          *)
(* whitelist.  A timed ban lapses at once in file, memory and ipset.       *)
(***************************************************************************)
EXTENDS Naturals, FiniteSets

CONSTANTS
    Addresses,
    Operators,      \* the processes of menu, CLI and Telegram bot
    Collector,      \* hydra-antidpi.service
    Nobody,
    Caught,         \* the addresses the Honeypot plugin holds
    MaxCommands,    \* bound: commands of the operators
    MaxFaults,      \* bound: refused firewall commands, kills, reboots
    MaxConflicts    \* bound: plugin commands whose save of the AppState conflicts

ASSUME AntiDpiAssumption ==
    /\ Collector \notin Operators /\ Nobody \notin Operators \union {Collector}
    /\ Caught \subseteq Addresses
    /\ \A bound \in {MaxCommands, MaxFaults, MaxConflicts} : bound \in Nat

VARIABLES
    stored,     \* antidpi.json: the active bans and the whitelist
    blocked,    \* the ipset entries
    fenced,     \* the sets and the DROP rule exist
    lock,       \* who holds antidpi.lock
    task,       \* per process: what it does and the copies it has in memory
    rewritten,  \* history: addresses whose ban another one's rollback changed
    commands, faults, conflicts

bounds == <<commands, faults, conflicts>>
vars == <<stored, blocked, fenced, lock, task, rewritten, bounds>>

Processes == Operators \union {Collector}
None == 0
Timed == 1
Permanent == 2
Ban == {None, Timed, Permanent}
Document == [banned : [Addresses -> Ban], white : SUBSET Addresses]
Empty == [banned |-> [a \in Addresses |-> None], white |-> {}]

\* What a process does: its next step, the addresses still to be handled, the
\* address in hand, the step after a list, the document it has loaded, and the
\* snapshot of its plugin command.
At(step) == [at |-> step, todo |-> {}, address |-> Nobody, then |-> "idle",
             doc |-> Empty, before |-> Empty]
Rest(p) == At(IF p = Collector THEN "watch" ELSE "idle")

Active(doc) == {a \in Addresses : doc.banned[a] # None}
Covered(doc) == Active(doc) \intersect doc.white
WithBan(doc, a, ban) == [doc EXCEPT !.banned[a] = ban]

Init ==
    /\ stored = Empty /\ blocked = Empty.banned /\ fenced = FALSE
    /\ lock = Nobody /\ rewritten = {}
    /\ task = [p \in Processes |-> At(IF p = Collector THEN "down" ELSE "idle")]
    /\ commands = 0 /\ faults = 0 /\ conflicts = 0

Go(p, t) == task' = [task EXCEPT ![p] = t]
Fault == faults < MaxFaults /\ faults' = faults + 1
\* A command fails because it is refused, or because there is no set.
Refused == IF fenced THEN Fault ELSE faults' = faults

-------------------------------------------------------------------------------
(* Removing bans: unban, one lock for the entry and the record.              *)

\* Mutant: a refused removal of the entry does not keep the record.
UnbanEntryAnyway(p) ==
    /\ task[p].at = "unban" /\ lock = Nobody
    /\ \E a \in task[p].todo :
           /\ \/ fenced /\ blocked' = [blocked EXCEPT ![a] = None] /\ UNCHANGED faults
              \/ Refused /\ UNCHANGED blocked
           /\ lock' = p
           /\ Go(p, [task[p] EXCEPT !.at = "unbanned", !.address = a, !.todo = @ \ {a}])
    /\ UNCHANGED <<stored, fenced, rewritten, commands, conflicts>>

\* Mutant: the answer "not in set" counts as a refusal.
UnbanEntryStrict(p) ==
    /\ task[p].at = "unban" /\ lock = Nobody
    /\ \E a \in task[p].todo :
           \/ /\ fenced /\ blocked[a] # None
              /\ blocked' = [blocked EXCEPT ![a] = None]
              /\ lock' = p
              /\ Go(p, [task[p] EXCEPT !.at = "unbanned", !.address = a, !.todo = @ \ {a}])
              /\ UNCHANGED faults
           \/ /\ blocked[a] = None \/ ~ fenced
              /\ Go(p, [task[p] EXCEPT !.todo = @ \ {a},
                                       !.then = IF @ = "commit" THEN "idle" ELSE @])
              /\ UNCHANGED <<blocked, lock, faults>>
    /\ UNCHANGED <<stored, fenced, rewritten, commands, conflicts>>

\* The entry goes first; an address that is not in the set is as good as removed.
UnbanEntry(p) ==
    /\ task[p].at = "unban" /\ lock = Nobody
    /\ \E a \in task[p].todo :
           \/ /\ fenced
              /\ blocked' = [blocked EXCEPT ![a] = None]
              /\ lock' = p
              /\ Go(p, [task[p] EXCEPT !.at = "unbanned", !.address = a, !.todo = @ \ {a}])
              /\ UNCHANGED faults
           \/ /\ Refused
              /\ Go(p, [task[p] EXCEPT !.todo = @ \ {a},
                                       !.then = IF @ = "commit" THEN "idle" ELSE @])
              /\ UNCHANGED <<blocked, lock>>
    /\ UNCHANGED <<stored, fenced, rewritten, commands, conflicts>>

UnbanRecord(p) ==
    /\ task[p].at = "unbanned"
    /\ stored' = WithBan(stored, task[p].address, None)
    /\ lock' = Nobody
    /\ Go(p, [task[p] EXCEPT !.at = "unban", !.address = Nobody])
    /\ UNCHANGED <<blocked, fenced, rewritten, bounds>>

UnbanEnds(p) ==
    /\ task[p].at = "unban" /\ task[p].todo = {}
    /\ Go(p, IF task[p].then = "idle" THEN At("idle")
             ELSE [At(task[p].then) EXCEPT !.before = task[p].before])
    /\ UNCHANGED <<stored, blocked, fenced, lock, rewritten, bounds>>

-------------------------------------------------------------------------------
(* Adding bans: the intent is stored before the firewall is touched.         *)

\* Under the lock: the document with the ban is saved, the one before it stays in
\* memory for a refusal.
Intend(p, a, ban) ==
    /\ stored' = WithBan(stored, a, ban)
    /\ lock' = p
    /\ Go(p, [task[p] EXCEPT !.at = "decided", !.address = a, !.doc = stored])
    /\ UNCHANGED <<blocked, fenced, rewritten, bounds>>

\* observe_event: evidence against an address neither trusted nor banned.
Observe(a) ==
    /\ task[Collector].at = "watch" /\ lock = Nobody
    /\ a \notin stored.white /\ stored.banned[a] = None
    /\ Intend(Collector, a, Timed)

\* manual_ban prepares the firewall, then decides under the lock.
ManualBan(p) ==
    LET a == task[p].address IN
    /\ task[p].at = "ban" /\ lock = Nobody
    /\ \/ /\ a \notin stored.white /\ stored.banned[a] # Permanent
          /\ Intend(p, a, Permanent)
       \/ /\ a \in stored.white \/ stored.banned[a] = Permanent
          /\ Go(p, At("idle"))
          /\ UNCHANGED <<stored, blocked, fenced, lock, rewritten, bounds>>

\* ipset add: done, or refused and the intent taken back.
Enforce(p) ==
    LET a == task[p].address IN
    /\ task[p].at = "decided"
    /\ \/ /\ fenced
          /\ blocked' = [blocked EXCEPT ![a] = IF p = Collector THEN Timed ELSE Permanent]
          /\ UNCHANGED <<stored, faults>>
       \/ /\ Refused
          /\ stored' = task[p].doc
          /\ UNCHANGED blocked
    /\ lock' = Nobody /\ Go(p, Rest(p))
    /\ UNCHANGED <<fenced, rewritten, commands, conflicts>>

-------------------------------------------------------------------------------
(* Reconciliation: sets and rule, trusted addresses out, stored bans in.     *)

\* _ensure_sets and _ensure_rules.  A manual ban ends when they fail, the
\* reconciliation goes on.
Fence(p) ==
    /\ task[p].at = "fence"
    /\ \/ /\ fenced' = TRUE
          /\ Go(p, [task[p] EXCEPT !.at = task[p].then, !.then = "idle"])
          /\ UNCHANGED faults
       \/ /\ Fault
          /\ Go(p, IF task[p].then = "ban" THEN At("idle")
                   ELSE [task[p] EXCEPT !.at = task[p].then, !.then = "idle"])
          /\ UNCHANGED fenced
    /\ UNCHANGED <<stored, blocked, lock, rewritten, commands, conflicts>>

\* release_whitelisted_bans, which collects under the lock and unbans after it.
Release(p) ==
    /\ task[p].at = "release" /\ lock = Nobody
    /\ Go(p, [task[p] EXCEPT !.at = "unban", !.todo = Covered(stored), !.then = "check"])
    /\ UNCHANGED <<stored, blocked, fenced, lock, rewritten, bounds>>

\* Bans of trusted addresses that are still there forbid the restoration.
CheckReleased(p) ==
    /\ task[p].at = "check" /\ lock = Nobody
    /\ Go(p, IF Covered(stored) # {} THEN Rest(p) ELSE At("restore"))
    /\ UNCHANGED <<stored, blocked, fenced, lock, rewritten, bounds>>

\* Mutant: a permanent ban, whose duration is 0, is dropped like an elapsed one.
RestoreForgetsPermanent(p) ==
    LET kept == [a \in Addresses |-> IF stored.banned[a] = Timed THEN Timed ELSE None] IN
    /\ task[p].at = "restore" /\ lock = Nobody
    /\ lock' = p
    /\ Go(p, [task[p] EXCEPT !.at = "restoring", !.doc = [stored EXCEPT !.banned = kept],
                             !.todo = Active(stored)])
    /\ UNCHANGED <<stored, blocked, fenced, rewritten, bounds>>

\* restore_bans: every stored ban is added again, under the lock.
Restore(p) ==
    /\ task[p].at = "restore" /\ lock = Nobody
    /\ lock' = p
    /\ Go(p, [task[p] EXCEPT !.at = "restoring", !.doc = stored, !.todo = Active(stored)])
    /\ UNCHANGED <<stored, blocked, fenced, rewritten, bounds>>

\* Mutant: only bans with a timeout are added again.
LastingTimed(doc, todo) == {a \in todo : doc.banned[a] = Timed}
Lasting(doc, todo) == {a \in todo : doc.banned[a] # None}
RestoreEntry(p) ==
    /\ task[p].at = "restoring"
    /\ \E a \in Lasting(task[p].doc, task[p].todo) :
           /\ Go(p, [task[p] EXCEPT !.todo = @ \ {a}])
           /\ \/ /\ fenced
                 /\ blocked' = [blocked EXCEPT ![a] = task[p].doc.banned[a]]
                 /\ UNCHANGED faults
              \/ /\ Refused /\ UNCHANGED blocked
    /\ UNCHANGED <<stored, fenced, lock, rewritten, commands, conflicts>>

RestoreEnds(p) ==
    /\ task[p].at = "restoring" /\ Lasting(task[p].doc, task[p].todo) = {}
    /\ stored' = task[p].doc
    /\ lock' = Nobody /\ Go(p, Rest(p))
    /\ UNCHANGED <<blocked, fenced, rewritten, bounds>>

\* The start of the collector: Honeypot's addresses are left to it (read without
\* the lock), then the first reconciliation.
Start ==
    /\ task[Collector].at = "down"
    /\ Go(Collector, [At("unban") EXCEPT !.todo = Caught \intersect Active(stored),
                                         !.then = "reconcile"])
    /\ UNCHANGED <<stored, blocked, fenced, lock, rewritten, bounds>>
Reconcile ==
    /\ task[Collector].at \in {"watch", "reconcile"}
    /\ Go(Collector, [At("fence") EXCEPT !.then = "release"])
    /\ UNCHANGED <<stored, blocked, fenced, lock, rewritten, bounds>>

-------------------------------------------------------------------------------
(* Operators: actions, and plugin commands with a snapshot and a rollback.   *)

Begin(p, t) ==
    /\ task[p].at = "idle" /\ commands < MaxCommands
    /\ commands' = commands + 1 /\ Go(p, t)
    /\ UNCHANGED <<stored, blocked, fenced, lock, rewritten, faults, conflicts>>

BanAction(p, a) == Begin(p, [At("fence") EXCEPT !.address = a, !.then = "ban"])
UnbanAction(p, a) == Begin(p, [At("unban") EXCEPT !.todo = {a}])
\* The snapshot is a read of the file without the lock.
Command(p, t) == Begin(p, [t EXCEPT !.before = stored])
UnbanCommand(p, a) == Command(p, [At("unban") EXCEPT !.todo = {a}, !.then = "commit"])
TrustCommand(p, a) == Command(p, [At("trust") EXCEPT !.address = a])
DistrustCommand(p, a) == Command(p, [At("distrust") EXCEPT !.address = a])

\* add_whitelist: the network is saved, then the bans it covers are removed
\* outside the lock.  A network that was there already is no change to commit.
Trust(p) ==
    LET a == task[p].address IN
    /\ task[p].at = "trust" /\ lock = Nobody
    /\ stored' = [stored EXCEPT !.white = @ \union {a}]
    /\ Go(p, [task[p] EXCEPT !.at = "unban", !.address = Nobody,
                             !.todo = {a} \intersect Active(stored),
                             !.then = IF a \in stored.white THEN "idle" ELSE "commit"])
    /\ UNCHANGED <<blocked, fenced, lock, rewritten, bounds>>

Distrust(p) ==
    LET a == task[p].address IN
    /\ task[p].at = "distrust" /\ lock = Nobody
    /\ stored' = [stored EXCEPT !.white = @ \ {a}]
    /\ Go(p, IF a \in stored.white THEN [task[p] EXCEPT !.at = "commit", !.address = Nobody]
             ELSE At("idle"))
    /\ UNCHANGED <<blocked, fenced, lock, rewritten, bounds>>

\* The command ends with a save of the AppState.  When another process has moved
\* its revision, the plugin's rollback writes the snapshot over the file, without
\* the lock, and adds the bans of what is then stored.
Commit(p) ==
    /\ task[p].at = "commit"
    /\ \/ Go(p, At("idle")) /\ UNCHANGED <<stored, rewritten, conflicts>>
       \/ /\ conflicts < MaxConflicts /\ conflicts' = conflicts + 1
          /\ stored' = task[p].before
          /\ rewritten' = rewritten \union
                 {a \in Addresses : stored.banned[a] # task[p].before.banned[a]}
          /\ Go(p, At("restore"))
    /\ UNCHANGED <<blocked, fenced, lock, commands, faults>>

-------------------------------------------------------------------------------
(* What happens by itself.                                                   *)

Lapsed(doc, a) == IF doc.banned[a] = Timed THEN WithBan(doc, a, None) ELSE doc
\* Not between an intent and its entry, which is a moment of at least ten minutes.
Lapse(a) ==
    /\ \A p \in Processes : ~ (task[p].at = "decided" /\ task[p].address = a)
    /\ Timed \in {stored.banned[a], blocked[a]}
    /\ stored' = Lapsed(stored, a)
    /\ blocked' = Lapsed([banned |-> blocked], a).banned
    /\ task' = [p \in Processes |-> [task[p] EXCEPT !.doc = Lapsed(@, a), !.before = Lapsed(@, a)]]
    /\ UNCHANGED <<fenced, lock, rewritten, bounds>>

Dead(p) == At(IF p = Collector THEN "down" ELSE "idle")
Kill(p) ==
    /\ task[p] # Dead(p) /\ Fault
    /\ Go(p, Dead(p))
    /\ lock' = IF lock = p THEN Nobody ELSE lock
    /\ UNCHANGED <<stored, blocked, fenced, rewritten, commands, conflicts>>

Reboot ==
    /\ Fault
    /\ blocked' = Empty.banned /\ fenced' = FALSE /\ lock' = Nobody
    /\ task' = [p \in Processes |-> Dead(p)]
    /\ UNCHANGED <<stored, rewritten, commands, conflicts>>

Step(p) ==
    \/ UnbanEntry(p) \/ UnbanRecord(p) \/ UnbanEnds(p) \/ ManualBan(p) \/ Enforce(p)
    \/ Fence(p) \/ Release(p) \/ CheckReleased(p)
    \/ Restore(p) \/ RestoreEntry(p) \/ RestoreEnds(p)
    \/ Trust(p) \/ Distrust(p) \/ Commit(p)

Next ==
    \/ \E p \in Processes : Step(p) \/ Kill(p)
    \/ Start \/ Reconcile \/ Reboot
    \/ \E a \in Addresses : Observe(a) \/ Lapse(a)
    \/ \E p \in Operators, a \in Addresses :
           \/ BanAction(p, a) \/ UnbanAction(p, a)
           \/ UnbanCommand(p, a) \/ TrustCommand(p, a) \/ DistrustCommand(p, a)

\* systemd starts the collector, every process goes on, the kernel gives the lock
\* to a waiting one, and the loop of the collector looks at its timer in each round.
Spec ==
    /\ Init /\ [][Next]_vars
    /\ WF_vars(Start) /\ SF_vars(Reconcile)
    /\ \A p \in Processes : SF_vars(Step(p))

-------------------------------------------------------------------------------
(* Properties.                                                               *)

\* The types.  Who is between an intent and its outcome holds the lock.
TypeOK ==
    /\ stored \in Document /\ blocked \in [Addresses -> Ban] /\ fenced \in BOOLEAN
    /\ lock \in Processes \union {Nobody} /\ rewritten \subseteq Addresses
    /\ \A p \in Processes :
           /\ task[p].todo \subseteq Addresses /\ task[p].doc \in Document
           /\ task[p].at \in {"unbanned", "decided", "restoring"} <=> lock = p

\* "State and ipset never disagree about the address": whatever is refused, dies
\* or comes in between, an entry of the ipset is never stronger than its record,
\* so no address is blocked that the list of bans does not show.  Addresses whose
\* ban was changed by the rollback of another command are excepted.
NoOrphans == \A a \in Addresses \ rewritten : blocked[a] <= stored.banned[a]

\* A ban of an administrator is permanent until an unban: no evidence, refusal, lapse
\* or document saved after a firewall command ends or weakens it.  (The unban may be
\* one the collector decided on while the address was still trusted.)
PermanentStands ==
    [][\A a \in Addresses \ rewritten' :
           stored.banned[a] = Permanent /\ stored'.banned[a] # Permanent =>
               \E p \in Processes :
                   /\ task[p].address = a
                   /\ \/ task[p].at = "unbanned"
                      \/ task[p].at = "decided" /\ p \in Operators /\ blocked[a] # Permanent]_vars

\* "A crash after the intent is healed by reconciliation": every stored ban comes
\* to be enforced, with its strength, or ends.
BansEnforced ==
    \A a \in Addresses :
        stored.banned[a] # None ~> stored.banned[a] = None \/ (fenced /\ blocked[a] = stored.banned[a])

\* "Bans under the whitelist are released at each reconciliation": a trusted
\* address does not stay blocked.
TrustedReleased ==
    \A a \in Addresses :
        a \in stored.white ~> a \notin stored.white \/ a \in rewritten
                              \/ (stored.banned[a] = None /\ blocked[a] = None)

===============================================================================
