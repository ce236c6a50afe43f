------------------------------- MODULE SyncCycle -------------------------------
(***************************************************************************)
(* The background sync agent (services/sync_agent.py, sync_cycle.py): every*)
(* five minutes, under sync-agent.lock, it blocks users over their quota,  *)
(* runs plugin maintenance, audits certificates once a day and applies the *)
(* configuration if one of the three asked for it.  sync_config_pending    *)
(* carries an apply that is still owed from one cycle to the next.         *)
(* Meanwhile an operator blocks, unblocks, changes settings and resets     *)
(* quotas in a session of their own (services/user_lifecycle.py).          *)
(*                                                                         *)
(* save_state and update_state are those of StateStore, apply_config that  *)
(* of ApplyPipeline, here in one step: it lands on the host and on disk, or*)
(* on neither.  Block hooks are left out: every plugin's is empty.         *)
(***************************************************************************)
EXTENDS Naturals

CONSTANTS
    Users,
    MaxEdits,   \* bound: operations of the operator
    MaxJobs,    \* bound: maintenance jobs that ask for an apply
    MaxDays,    \* bound: days, each with a certificate audit
    MaxFaults   \* bound: kills, failed applies and failed saves

ASSUME SyncAssumption ==
    \A bound \in {MaxEdits, MaxJobs, MaxDays, MaxFaults} : bound \in Nat

Settings == {"limits", "certificates"}  \* sync_limits_enabled, sync_certificates_enabled
Document == [blocked : SUBSET Users, settings : SUBSET Settings, revision : Nat,
             pending : BOOLEAN, source : {"none", "certificates"}]

VARIABLES
    stored,     \* the state on disk
    over,       \* users over their traffic limit or past their expiry
    cut,        \* users the running configuration leaves out
    expiring,   \* a protocol certificate needs renewal
    due,        \* the last certificate audit is a day old
    phase,      \* where the sync agent is, "idle" outside a cycle
    copy,       \* the AppState of the cycle
    forced,     \* force_all_checks: a manual run
    checks,     \* the checks this cycle makes
    applied,    \* whether apply_config succeeded in this cycle
    opStage,    \* where the operator's transaction is
    op,         \* the operator's AppState
    opWas,      \* the snapshot the transaction took
    waived,     \* history: users blocked on disk whose cut nobody owes any more
    edits, jobs, days, faults

agent == <<phase, copy, forced, checks, applied>>
operator == <<opStage, op, opWas>>
host == <<cut, expiring>>
bounds == <<edits, jobs, days, faults>>
vars == <<stored, over, cut, expiring, due, phase, copy, forced, checks, applied, opStage,
          op, opWas, waived, edits, jobs, days, faults>>

Fault == faults < MaxFaults /\ faults' = faults + 1 /\ UNCHANGED <<edits, jobs, days>>

-------------------------------------------------------------------------------
(* The state store and apply_config.                                         *)

SameDesired(a, b) == a.blocked = b.blocked /\ a.settings = b.settings

\* Mutant of Conflicts: the last writer wins.
NeverConflicts(document) == FALSE

Conflicts(document) ==
    ~SameDesired(document, stored) /\ document.revision # stored.revision

\* What save_state writes: runtime keys are those on disk.
Saved(document) ==
    [document EXCEPT
        !.revision = IF SameDesired(document, stored) THEN stored.revision
                     ELSE stored.revision + 1,
        !.pending = stored.pending, !.source = stored.source]

\* update_state; the copy of the cycle is the state it returns.
Update(document) ==
    /\ stored' = [document EXCEPT
                     !.revision = IF SameDesired(document, stored) THEN @ ELSE @ + 1]
    /\ copy' = stored'

\* apply_config(document) succeeds; its preflight reissues certificates.
Applies(document) ==
    /\ ~Conflicts(document)
    /\ stored' = Saved(document)
    /\ cut' = document.blocked
    /\ expiring' = FALSE
    /\ waived' = waived \ cut'

\* It fails of itself, or because a newer change of desired state is on disk.
ApplyFails(document) ==
    /\ Fault \/ (Conflicts(document) /\ UNCHANGED bounds)
    /\ UNCHANGED <<stored, host, waived>>

-------------------------------------------------------------------------------
(* One cycle: run_sync_cycle.                                                *)

GoTo(next) == phase' = next /\ UNCHANGED <<forced, checks, applied>>

\* run_sync with the lock free; the timer, or a manual full check.  The flags
\* are read once, from the state the cycle loads first.
StartCycle(manual) ==
    /\ phase = "idle"
    /\ phase' = "limits" /\ copy' = stored /\ forced' = manual /\ applied' = FALSE
    /\ checks' = IF manual THEN Settings ELSE stored.settings
    /\ UNCHANGED <<stored, over, host, due, operator, waived, bounds>>

Exceeded == over \ stored.blocked

\* Mutant of BlockExceeded: the apply is not put down as owed.
BlockWithoutPending ==
    /\ phase = "limits" /\ "limits" \in checks
    /\ Update([stored EXCEPT !.blocked = @ \union Exceeded])
    /\ GoTo("maintenance")
    /\ UNCHANGED <<over, host, due, operator, waived, bounds>>

\* refresh_and_block: users who are blocked already are passed over.
BlockExceeded ==
    /\ phase = "limits" /\ "limits" \in checks
    /\ Update([stored EXCEPT !.blocked = @ \union Exceeded,
                             !.pending = @ \/ Exceeded # {}])
    /\ GoTo("maintenance")
    /\ UNCHANGED <<over, host, due, operator, waived, bounds>>

SkipLimits ==
    /\ phase = "limits" /\ "limits" \notin checks
    /\ GoTo("maintenance")
    /\ UNCHANGED <<stored, over, host, due, copy, operator, waived, bounds>>

MarkPending ==
    /\ phase = "maintenance"
    /\ jobs < MaxJobs
    /\ jobs' = jobs + 1
    /\ Update([stored EXCEPT !.pending = TRUE])
    /\ GoTo("certificates")
    /\ UNCHANGED <<over, host, due, operator, waived, edits, days, faults>>

NoMaintenance ==
    /\ phase = "maintenance"
    /\ GoTo("certificates")
    /\ UNCHANGED <<stored, over, host, due, copy, operator, waived, bounds>>

\* record: an apply that is owed already keeps its source.
AuditCertificates ==
    /\ phase = "certificates" /\ "certificates" \in checks /\ (forced \/ due)
    /\ due' = FALSE
    /\ Update(IF expiring /\ ~stored.pending
              THEN [stored EXCEPT !.pending = TRUE, !.source = "certificates"]
              ELSE stored)
    /\ GoTo("apply")
    /\ UNCHANGED <<over, host, operator, waived, bounds>>

\* Disabled, not due, or the audit itself failed.
SkipAudit ==
    /\ phase = "certificates"
    /\ "certificates" \notin checks \/ ~(forced \/ due)
    /\ GoTo("apply")
    /\ UNCHANGED <<stored, over, host, due, copy, operator, waived, bounds>>

AuditFails ==
    /\ phase = "certificates" /\ "certificates" \in checks /\ (forced \/ due)
    /\ Fault
    /\ GoTo("apply")
    /\ UNCHANGED <<stored, over, host, due, copy, operator, waived>>

\* The flag is read from the copy, not from disk.
NothingPending ==
    /\ phase = "apply" /\ ~copy.pending
    /\ GoTo("idle")
    /\ UNCHANGED <<stored, over, host, due, copy, operator, waived, bounds>>

ApplyPending ==
    /\ phase = "apply" /\ copy.pending
    /\ \/ /\ Applies(copy)
          /\ copy' = stored'
          /\ applied' = TRUE
          /\ UNCHANGED bounds
       \/ ApplyFails(copy) /\ UNCHANGED copy /\ applied' = FALSE
    /\ phase' = "settle"
    /\ UNCHANGED <<over, due, forced, checks, operator>>

\* Mutant of NotPending: the source of the apply is left behind.
NotPendingOnly == [stored EXCEPT !.pending = FALSE]

NotPending == [stored EXCEPT !.pending = FALSE, !.source = "none"]

\* Mutant of ClearPending: a failed apply is not tried again.
ClearAnyway ==
    /\ phase = "settle"
    /\ Update(NotPending)
    /\ GoTo("idle")
    /\ UNCHANGED <<over, host, due, operator, waived, bounds>>

ClearPending ==
    /\ phase = "settle" /\ applied
    /\ Update(NotPending)
    /\ GoTo("idle")
    /\ UNCHANGED <<over, host, due, operator, waived, bounds>>

\* A renewal that failed waits for the next daily audit.
DeferRenewal ==
    /\ phase = "settle" /\ ~applied /\ copy.source = "certificates"
    /\ Update(NotPending)
    /\ waived' = waived \union (stored.blocked \ cut)
    /\ GoTo("idle")
    /\ UNCHANGED <<over, host, due, operator, bounds>>

RetryNextCycle ==
    /\ phase = "settle" /\ ~applied /\ copy.source # "certificates"
    /\ GoTo("idle")
    /\ UNCHANGED <<stored, over, host, due, copy, operator, waived, bounds>>

\* The process is killed, or a load, an update or a save raises.
CycleDies ==
    /\ phase # "idle"
    /\ Fault
    /\ GoTo("idle")
    /\ UNCHANGED <<stored, over, host, due, copy, operator, waived>>

-------------------------------------------------------------------------------
(* The operator: user_lifecycle.block and unblock, and the settings menu.    *)

\* A session reads the state, changes it and saves it before anybody else does.
OperatorSaves(document) ==
    /\ opStage = "idle"
    /\ edits < MaxEdits
    /\ edits' = edits + 1
    /\ op' = Saved(document) /\ opWas' = stored
    /\ stored' = Saved(document)
    /\ UNCHANGED <<over, host, due, agent, jobs, days, faults>>

SetBlocked(u, users) ==
    /\ users # stored.blocked
    /\ OperatorSaves([stored EXCEPT !.blocked = users])
    /\ opStage' = "apply"
    \* until the apply, nobody but this session owes u anything
    /\ waived' = IF u \in users \ cut THEN waived \union {u} ELSE waived \ {u}

\* set_install_flag: an update_state that nothing is applied after.
ToggleSetting(setting) ==
    /\ edits < MaxEdits
    /\ edits' = edits + 1
    /\ stored' = Saved([stored EXCEPT !.settings =
                            IF setting \in @ THEN @ \ {setting} ELSE @ \union {setting}])
    /\ UNCHANGED <<over, host, due, agent, operator, waived, jobs, days, faults>>

OperatorApplies ==
    /\ opStage = "apply"
    /\ \/ /\ Applies(op) /\ op' = stored'
          /\ opStage' = "idle"
          /\ UNCHANGED bounds
       \/ ApplyFails(op) /\ UNCHANGED op /\ opStage' = "undo"
    /\ UNCHANGED <<over, due, agent, opWas>>

\* _restore_and_save: the snapshot, under the session's own revision.
OperatorRestores ==
    LET restored == [opWas EXCEPT !.revision = op.revision] IN
    /\ opStage = "undo"
    /\ opStage' = "reapply"
    /\ op' = IF Conflicts(restored) THEN restored ELSE Saved(restored)
    /\ stored' = IF Conflicts(restored) THEN stored ELSE Saved(restored)
    /\ waived' = IF Conflicts(restored) THEN waived
                 ELSE (waived \ (op.blocked \ opWas.blocked))
                      \union ((opWas.blocked \ op.blocked) \ cut)
    /\ UNCHANGED <<over, host, due, agent, opWas, bounds>>

\* _reapply_restored_state.
OperatorReapplies ==
    /\ opStage = "reapply"
    /\ opStage' = "idle"
    /\ \/ Applies(op) /\ UNCHANGED bounds
       \/ ApplyFails(op)
    /\ UNCHANGED <<over, due, agent, op, opWas>>

OperatorDies ==
    /\ opStage # "idle"
    /\ Fault
    /\ opStage' = "idle"
    /\ UNCHANGED <<stored, over, host, due, agent, op, opWas, waived>>

-------------------------------------------------------------------------------
(* Traffic, quotas and time.                                                 *)

Exceed(u) ==
    /\ u \notin over \union cut
    /\ over' = over \union {u}
    /\ UNCHANGED <<stored, host, due, agent, operator, waived, bounds>>

\* A new quota period, a larger limit or a later expiry date.
Renew(u) ==
    /\ u \in over
    /\ edits < MaxEdits
    /\ edits' = edits + 1
    /\ over' = over \ {u}
    /\ UNCHANGED <<stored, host, due, agent, operator, waived, jobs, days, faults>>

NextDay ==
    /\ days < MaxDays
    /\ days' = days + 1
    /\ due' = TRUE
    /\ expiring' \in {expiring, TRUE}
    /\ UNCHANGED <<stored, over, cut, agent, operator, waived, edits, jobs, faults>>

-------------------------------------------------------------------------------
Init ==
    /\ stored = [blocked |-> {}, settings |-> Settings, revision |-> 1,
                 pending |-> FALSE, source |-> "none"]
    /\ over = {} /\ cut = {} /\ expiring = FALSE /\ due = FALSE
    /\ phase = "idle" /\ copy = stored /\ forced = FALSE /\ checks = {} /\ applied = FALSE
    /\ opStage = "idle" /\ op = stored /\ opWas = stored
    /\ waived = {} /\ edits = 0 /\ jobs = 0 /\ days = 0 /\ faults = 0

CycleStep ==
    \/ BlockExceeded \/ SkipLimits
    \/ MarkPending \/ NoMaintenance
    \/ AuditCertificates \/ SkipAudit \/ AuditFails
    \/ NothingPending \/ ApplyPending
    \/ ClearPending \/ DeferRenewal \/ RetryNextCycle

OperatorStep == OperatorApplies \/ OperatorRestores \/ OperatorReapplies

Next ==
    \/ \E manual \in BOOLEAN : StartCycle(manual)
    \/ CycleStep
    \/ CycleDies
    \/ \E u \in Users : SetBlocked(u, stored.blocked \union {u}) \/ SetBlocked(u, stored.blocked \ {u})
    \/ \E setting \in Settings : ToggleSetting(setting)
    \/ OperatorStep
    \/ OperatorDies
    \/ \E u \in Users : Exceed(u) \/ Renew(u)
    \/ NextDay

Spec == Init /\ [][Next]_vars

(* OnCalendar=*:0/5 with Persistent=true starts a cycle again and again, and *)
(* a process that is not killed goes on; neither is fair to faults.          *)
Fairness == WF_vars(StartCycle(FALSE)) /\ WF_vars(CycleStep) /\ WF_vars(OperatorStep)

FairSpec == Spec /\ Fairness

-------------------------------------------------------------------------------
(* A renewal is the source of an apply only while that apply is owed.        *)
TypeOK ==
    /\ {stored, copy, op, opWas} \subseteq Document
    /\ stored.source = "certificates" => stored.pending
    /\ over \subseteq Users /\ cut \subseteq Users /\ waived \subseteq Users
    /\ checks \subseteq Settings
    /\ phase \in {"idle", "limits", "maintenance", "certificates", "apply", "settle"}
    /\ opStage \in {"idle", "apply", "undo", "reapply"}
    /\ edits \in 0..MaxEdits /\ jobs \in 0..MaxJobs /\ days \in 0..MaxDays /\ faults \in 0..MaxFaults

(* Between cycles no block is forgotten: a user who is blocked on disk and   *)
(* still served has an apply owed, unless the block is the operator's own    *)
(* unfinished work or was given up with a failed renewal.                    *)
BlocksAreOwed ==
    phase = "idle" => stored.pending \/ stored.blocked \subseteq cut \union waived

(* A block the agent wrote is lifted by nobody but an operator who unblocks  *)
(* that very user: no apply and no rollback of a stale copy undoes it.  The  *)
(* operator's unblock does, even with the quota used up: user_can_use asks   *)
(* for the flag alone, so the user is served until the next cycle.           *)
AutomaticBlocksStay ==
    [][\A u \in stored.blocked \ stored'.blocked :
          \/ edits' > edits
          \/ opStage = "undo" /\ u \in op.blocked \ opWas.blocked]_vars

(* A user over the limit is eventually cut off, whatever fails, is killed or *)
(* interferes a bounded number of times, unless the quota is renewed, the    *)
(* check is switched off, or the block was waived.                           *)
OverLimitIsCut ==
    \A u \in Users :
        u \in over ~> u \in cut \union waived \/ u \notin over \/ "limits" \notin stored.settings
===============================================================================
