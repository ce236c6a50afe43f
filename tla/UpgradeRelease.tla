---------------------------- MODULE UpgradeRelease ----------------------------
(***************************************************************************)
(* upgrade.sh: a new release is built beside the running one; then the     *)
(* units stop, the state is copied and migrated, /opt/hydra is switched,   *)
(* and the units start and are checked.  An ERR trap and signal traps run  *)
(* rollback(), which trusts the flags the script has set so far.           *)
(*                                                                         *)
(* Any command may fail, a signal may arrive after any command, and the    *)
(* script may be killed outright, the rollback included.  Running services *)
(* save state, an operator does between two runs.  A timer starts its job, *)
(* which no run stops or starts: the script leaves oneshots alone.  A      *)
(* release is its number, and every release brings a state format.         *)
(***************************************************************************)
EXTENDS Naturals, FiniteSets

CONSTANTS
    Units,      \* hydra-*.service, hydra-*.timer, caddy-l4.service
    Oneshots,   \* units of Type=oneshot without RemainAfterExit: hydra-sync-agent
    Timer,      \* the unit that starts a oneshot
    Keep,       \* HYDRA_KEEP_RELEASES
    None,
    MaxRuns,    \* bound: runs of the script
    MaxFaults,  \* bound: commands that fail, signals and kills
    MaxEdits    \* bound: saves of the operator

ASSUME UpgradeAssumption ==
    /\ Keep \in Nat \ {0}
    /\ \A bound \in {MaxRuns, MaxFaults, MaxEdits} : bound \in Nat
    /\ None \notin Nat
    /\ Oneshots \subseteq Units /\ Timer \in [Oneshots -> Units \ Oneshots]

Releases == 0 .. MaxRuns                     \* release 0 is what bootstrap installed
State == [format : Releases, edits : Nat]    \* /var/lib/hydra

ASSUME SentinelAssumption == None \notin State

Flags == {"quiesced", "snapshot", "wrapperSnapshot", "mutation", "cutover", "wrapper"}

VARIABLES
    pc,        \* the command the script runs next, "idle" when it does not run
    flags,     \* the flag variables that are 1
    code,      \* the release /opt/hydra leads to
    kind,      \* "directory" at first, "symlink" afterwards
    releases,  \* complete releases on disk, /opt/hydra's own directory included
    aside,     \* PREVIOUS_DIR: the directory that was moved away
    state,     \* /var/lib/hydra
    copy,      \* STATE_ROLLBACK_DIR
    archive,   \* states kept under /var/backups/hydra/upgrades
    wrapper,   \* the release whose /usr/local/bin/hydra is installed
    running,   \* the code each active unit runs, None for a stopped one
    active,    \* ACTIVE_UNITS
    intact,    \* critical_restore_ok
    previous,  \* PREVIOUS_KIND, PREVIOUS_TARGET and the saved wrapper
    failed,    \* failed_state: the state a rollback has moved away
    was,       \* history: what the run found; whether a run was ever signalled late,
               \* and whether newer code ever saved a state of an older format
    stray,     \* history: the jobs that ran on when the script had stopped the units
    result,    \* how the last run ended
    runs, faults, edits

disk == <<code, kind, releases, aside, copy, archive, wrapper>>
vars == <<pc, flags, code, kind, releases, aside, state, copy, archive, wrapper, running,
          active, intact, previous, failed, was, stray, result, runs, faults, edits>>

target == runs
Up == {u \in Units \ Oneshots : running[u] # None}
Jobs == {u \in Oneshots : running[u] # None}
Set(flag) == flags' = flags \union {flag}
Fault == faults < MaxFaults /\ faults' = faults + 1 /\ UNCHANGED <<runs, edits>>
NoFault == UNCHANGED <<runs, faults, edits>>

\* A command of the main part: it runs at one place and leads to the next.
Begin(here, next) == pc = here /\ pc' = next /\ UNCHANGED <<failed, was, result, intact>>
At(here, next) == Begin(here, next) /\ UNCHANGED stray

-------------------------------------------------------------------------------
(* Stages 1 to 4: nothing in use is touched.                                 *)

\* A directory without state.json: every release can read it.
Empty == [format |-> 0, edits |-> 0]
Found == IF state = None THEN Empty ELSE state

\* An installation is there, the lock is free and the target is another release.
\* The first check of the preflight makes a /var/lib/hydra that is missing.
Start ==
    /\ pc = "idle" /\ runs < MaxRuns /\ code # None
    /\ runs' = runs + 1
    /\ pc' = "prepare"
    /\ flags' = {} /\ active' = {} /\ intact' = TRUE
    /\ previous' = [kind |-> None, to |-> None, wrapper |-> None]
    /\ aside' = None   \* names carry the time and the process
    /\ copy' = None
    /\ failed' = None
    /\ state' = Found
    /\ was' = [was EXCEPT !.code = code, !.state = Found, !.up = Up]
    /\ result' = "running"
    /\ UNCHANGED <<code, kind, releases, archive, wrapper, running, stray, faults, edits>>

\* Build and preflight in the staging directory.
Prepare ==
    /\ At("prepare", "capture")
    /\ UNCHANGED <<flags, active, previous, disk, state, running>> /\ NoFault

\* A oneshot that is under way is neither stopped nor started again.
CaptureUnits ==
    /\ At("capture", "stop")
    /\ active' = Up
    /\ Set("quiesced")
    /\ UNCHANGED <<previous, disk, state, running>> /\ NoFault

-------------------------------------------------------------------------------
(* Stage 5: the state.                                                       *)

Stopped(units) == [u \in Units |-> IF u \in units THEN None ELSE running[u]]

StopUnits ==
    /\ Begin("stop", "copy")
    /\ running' = Stopped(active)
    /\ stray' = stray \union Jobs
    /\ UNCHANGED <<flags, active, previous, disk, state>> /\ NoFault

CopyState ==
    /\ At("copy", "archive")
    /\ copy' = state
    /\ Set("snapshot")
    /\ UNCHANGED <<active, previous, code, kind, releases, aside, archive, wrapper, state,
                   running>> /\ NoFault

\* state-before-upgrade, wrapper-before-upgrade and the verified backup.
Archive ==
    /\ At("archive", "mutation")
    /\ archive' = archive \union {copy}
    /\ previous' = [previous EXCEPT !.wrapper = wrapper]
    /\ Set("wrapperSnapshot")
    /\ UNCHANGED <<active, code, kind, releases, aside, copy, wrapper, state,
                   running>> /\ NoFault

MarkMutation ==
    /\ At("mutation", "migrate")
    /\ Set("mutation")
    /\ UNCHANGED <<active, previous, disk, state, running>> /\ NoFault

MigrateState ==
    /\ At("migrate", "release")
    /\ state' = [state EXCEPT !.format = target]
    /\ UNCHANGED <<flags, active, previous, disk, running>> /\ NoFault

-------------------------------------------------------------------------------
(* Stage 6: the code.                                                        *)

PublishRelease ==
    /\ At("release", "markCutover")
    /\ releases' = releases \union {target}
    /\ UNCHANGED <<flags, active, previous, code, kind, aside, copy, archive, wrapper, state,
                   running>> /\ NoFault

\* Mutant of MarkCutover: the flag is not set before the switch.
MarkCutoverLate ==
    /\ At("markCutover", IF kind = "symlink" THEN "switch" ELSE "moveAside")
    /\ previous' = [previous EXCEPT !.kind = kind, !.to = code]
    /\ UNCHANGED <<flags, active, disk, state, running>> /\ NoFault

MarkCutover ==
    /\ At("markCutover", IF kind = "symlink" THEN "switch" ELSE "moveAside")
    /\ previous' = [previous EXCEPT !.kind = kind, !.to = code]
    /\ Set("cutover")
    /\ UNCHANGED <<active, disk, state, running>> /\ NoFault

\* mv -T of a new link over the old one.
SwitchLink ==
    /\ At("switch", "markWrapper")
    /\ code' = target
    /\ UNCHANGED <<flags, active, previous, kind, releases, aside, copy, archive, wrapper,
                   state, running>> /\ NoFault

MoveAside ==
    /\ At("moveAside", "link")
    /\ aside' = code
    /\ code' = None
    /\ UNCHANGED <<flags, active, previous, kind, releases, copy, archive, wrapper, state,
                   running>> /\ NoFault

LinkRelease ==
    /\ At("link", "markWrapper")
    /\ code' = target
    /\ kind' = "symlink"
    /\ UNCHANGED <<flags, active, previous, releases, aside, copy, archive, wrapper, state,
                   running>> /\ NoFault

MarkWrapper ==
    /\ At("markWrapper", "wrapper")
    /\ Set("wrapper")
    /\ UNCHANGED <<active, previous, disk, state, running>> /\ NoFault

WriteWrapper ==
    /\ At("wrapper", "start")
    /\ wrapper' = target
    /\ UNCHANGED <<flags, active, previous, code, kind, releases, aside, copy, archive, state,
                   running>> /\ NoFault

Started(units) == [u \in Units |-> IF u \in units THEN code ELSE running[u]]

StartUnits ==
    /\ At("start", "check")
    /\ running' = Started(active)
    /\ UNCHANGED <<flags, active, previous, disk, state>> /\ NoFault

-------------------------------------------------------------------------------
(* Stage 7: the verdict.                                                     *)

\* check, status, wait_for_previous_units, the commit, and the SUCCESS file.
PostCheck ==
    /\ At("check", "clear1")
    /\ active \subseteq Up /\ code = target
    /\ UNCHANGED <<flags, active, previous, disk, state, running>> /\ NoFault

Clear(here, gone, next) ==
    /\ At(here, next)
    /\ flags' = flags \ gone
    /\ UNCHANGED <<active, previous, disk, state, running>> /\ NoFault

\* The flags are cleared one assignment after the other.
ClearFlags ==
    \/ Clear("clear1", {"quiesced"}, "clear2")
    \/ Clear("clear2", {"cutover"}, "clear3")
    \/ Clear("clear3", {"snapshot"}, "clear4")
    \/ Clear("clear4", {"wrapperSnapshot"}, "clear5")
    \/ Clear("clear5", {"mutation"}, "clear6")
    \/ Clear("clear6", {"wrapper"}, "tidy")

\* cleanup_transient_paths drops the copy; the traps are still set.
Tidy ==
    /\ At("tidy", "prune")
    /\ copy' = None
    /\ UNCHANGED <<flags, active, previous, code, kind, releases, aside, archive, wrapper, state,
                   running>> /\ NoFault

\* The current release and the Keep - 1 most recent others stay.
Kept ==
    {r \in releases : r = code \/ Cardinality({s \in releases \ {code} : s > r}) < Keep - 1}

\* The traps are removed, and what is left to do may fail.
Prune ==
    /\ pc = "prune" /\ pc' = "idle"
    /\ releases' = Kept
    /\ result' = "upgraded"
    /\ UNCHANGED <<flags, active, intact, previous, code, kind, aside, copy, archive, wrapper,
                   state, running, failed, was, stray>> /\ NoFault

-------------------------------------------------------------------------------
(* Failures: an error of the command at pc, a signal after the last one, or  *)
(* the end of the script.                                                    *)

Trapped == {"prepare", "capture", "stop", "copy", "archive", "mutation", "migrate", "release",
            "markCutover", "switch", "moveAside", "link", "markWrapper", "wrapper", "start",
            "check", "clear1", "clear2", "clear3", "clear4", "clear5", "clear6", "tidy", "prune"}

\* What a failing command may have done all the same.
Halfway ==
    \/ UNCHANGED <<state, running, copy>>
    \/ /\ pc = "stop" /\ UNCHANGED <<state, copy>>
       /\ \E units \in SUBSET active : running' = Stopped(units)
    \/ pc = "copy" /\ copy' = [state EXCEPT !.edits = 0] /\ UNCHANGED <<state, running>>
    \/ pc = "migrate" /\ state' = [state EXCEPT !.format = target] /\ UNCHANGED <<running, copy>>
    \/ /\ pc = "start" /\ UNCHANGED <<state, copy>>
       /\ \E units \in SUBSET active : running' = Started(units)

Late == {"clear2", "clear3", "clear4", "clear5", "clear6", "tidy", "prune"}

Fails ==
    /\ pc \in Trapped
    /\ Fault
    /\ pc' = "undoStop"
    /\ Halfway
    /\ was' = [was EXCEPT !.late = @ \/ pc \in Late]
    /\ UNCHANGED <<flags, active, intact, previous, failed, code, kind, releases, aside, archive,
                   wrapper, stray, result>>

\* At the end of the script nothing but the pruning is lost.
Killed ==
    /\ pc # "idle"
    /\ Fault
    /\ pc' = "idle" /\ result' = IF pc = "prune" THEN "upgraded" ELSE "killed"
    /\ UNCHANGED <<flags, active, intact, previous, failed, disk, state, running, was, stray>>

-------------------------------------------------------------------------------
(* rollback(): signals are ignored, and a step that fails is passed over.    *)

Undo(here, next) == pc = here /\ pc' = next /\ UNCHANGED <<flags, active, previous, was, result>>
UndoAt(here, next) == Undo(here, next) /\ UNCHANGED stray

\* A step of the rollback that fails and leaves everything as it is.
Refused == Fault /\ intact' = FALSE /\ UNCHANGED <<failed, disk, state, running>>
Nothing == NoFault /\ UNCHANGED <<intact, failed, disk, state, running>>

UndoStop ==
    \/ /\ Undo("undoStop", "undoState")
       /\ IF "quiesced" \in flags THEN running' = Stopped(active) /\ stray' = stray \union Jobs
          ELSE UNCHANGED <<running, stray>>
       /\ NoFault /\ UNCHANGED <<intact, failed, disk, state>>
    \/ /\ UndoAt("undoStop", "cleanup")
       /\ "quiesced" \in flags /\ Fault
       /\ \E units \in SUBSET active : running' = Stopped(units)
       /\ intact' = ({"mutation", "cutover"} \intersect flags = {})
       /\ UNCHANGED <<failed, disk, state>>

SnapshotUsable == {"mutation", "snapshot"} \subseteq flags

\* restore_state_snapshot: the present state is moved away ...
UndoState ==
    \/ /\ ~ SnapshotUsable
       /\ UndoAt("undoState", "undoCode")
       /\ intact' = (intact /\ "mutation" \notin flags)
       /\ NoFault /\ UNCHANGED <<failed, disk, state, running>>
    \/ /\ SnapshotUsable
       /\ UndoAt("undoState", "undoStateBack")
       /\ failed' = state /\ state' = None
       /\ NoFault /\ UNCHANGED <<intact, disk, running>>
    \/ SnapshotUsable /\ UndoAt("undoState", "undoCode") /\ Refused

\* ... and the copy takes its place, or the present state comes back.
UndoStateBack ==
    /\ UndoAt("undoStateBack", "undoCode")
    /\ \/ /\ state' = copy /\ copy' = None
          /\ archive' = archive \union {failed} /\ failed' = None
          /\ NoFault /\ UNCHANGED intact
       \/ /\ Fault /\ intact' = FALSE
          /\ state' = failed /\ failed' = None
          /\ UNCHANGED <<copy, archive>>
    /\ UNCHANGED <<code, kind, releases, aside, wrapper, running>>

\* restore_installation
UndoCode ==
    \/ /\ "cutover" \notin flags \/ (previous.kind = "directory" /\ aside = None)
       /\ UndoAt("undoCode", "undoWrapper") /\ Nothing
    \/ /\ "cutover" \in flags /\ previous.kind = "symlink"
       /\ UndoAt("undoCode", "undoWrapper")
       /\ code' = previous.to
       /\ NoFault
       /\ UNCHANGED <<intact, failed, kind, releases, aside, copy, archive, wrapper, state, running>>
    \/ /\ "cutover" \in flags /\ previous.kind = "directory" /\ aside # None
       /\ UndoAt("undoCode", "undoCodeBack")
       /\ code' = None
       /\ NoFault
       /\ UNCHANGED <<intact, failed, kind, releases, aside, copy, archive, wrapper, state, running>>
    \/ "cutover" \in flags /\ UndoAt("undoCode", "undoWrapper") /\ Refused

UndoCodeBack ==
    /\ UndoAt("undoCodeBack", "undoWrapper")
    /\ \/ /\ code' = aside /\ aside' = None /\ kind' = "directory"
          /\ NoFault
          /\ UNCHANGED <<intact, failed, releases, copy, archive, wrapper, state, running>>
       \/ Refused

\* restore_wrapper: its failure is only reported.
UndoWrapper ==
    /\ UndoAt("undoWrapper", "cleanup")
    /\ \/ {"wrapper", "wrapperSnapshot"} \subseteq flags /\ wrapper' = previous.wrapper /\ NoFault
       \/ ~ {"wrapper", "wrapperSnapshot"} \subseteq flags /\ wrapper' = wrapper /\ NoFault
       \/ {"wrapper", "wrapperSnapshot"} \subseteq flags /\ wrapper' \in {wrapper, None} /\ Fault
    /\ UNCHANGED <<intact, failed, code, kind, releases, aside, copy, archive, state, running>>

\* Mutant of Cleanup: the copy always goes.
CleanupAlways ==
    /\ UndoAt("cleanup", "undoStart")
    /\ copy' = None
    /\ NoFault
    /\ UNCHANGED <<intact, failed, code, kind, releases, aside, archive, wrapper, state, running>>

\* cleanup_transient_paths
Cleanup ==
    /\ UndoAt("cleanup", "undoStart")
    /\ copy' = IF "mutation" \in flags THEN copy ELSE None
    /\ NoFault
    /\ UNCHANGED <<intact, failed, code, kind, releases, aside, archive, wrapper, state, running>>

Finish(ok) ==
    /\ intact' = ok
    /\ result' = IF ok THEN "rolledback" ELSE "incomplete"

\* Mutant of UndoStart: the units start although state or code could not be restored.
UndoStartAnyway ==
    /\ pc = "undoStart" /\ pc' = "idle"
    /\ \/ /\ "quiesced" \in flags
          /\ \/ running' = Started(active) /\ Finish(intact) /\ NoFault
             \/ /\ \E units \in SUBSET active : running' = Started(units)
                /\ Finish(FALSE) /\ Fault
       \/ /\ "quiesced" \notin flags
          /\ running' = running /\ Finish(intact) /\ NoFault
    /\ UNCHANGED <<flags, active, previous, failed, disk, state, was, stray>>

\* Mutant of UndoStart: the units start if there is a snapshot.
UndoStartWithSnapshot ==
    /\ pc = "undoStart" /\ pc' = "idle"
    /\ \/ /\ "snapshot" \in flags /\ intact
          /\ \/ running' = Started(active) /\ Finish(TRUE) /\ NoFault
             \/ /\ \E units \in SUBSET active : running' = Started(units)
                /\ Finish(FALSE) /\ Fault
       \/ /\ "snapshot" \notin flags \/ ~ intact
          /\ running' = running /\ Finish(intact) /\ NoFault
    /\ UNCHANGED <<flags, active, previous, failed, disk, state, was, stray>>

\* start_previous_units and wait_for_previous_units
UndoStart ==
    /\ pc = "undoStart" /\ pc' = "idle"
    /\ \/ /\ "quiesced" \in flags /\ intact
          /\ \/ running' = Started(active) /\ Finish(TRUE) /\ NoFault
             \/ /\ \E units \in SUBSET active : running' = Started(units)
                /\ Finish(FALSE) /\ Fault
       \/ /\ "quiesced" \notin flags \/ ~ intact
          /\ running' = running /\ Finish(intact) /\ NoFault
    /\ UNCHANGED <<flags, active, previous, failed, disk, state, was, stray>>

-------------------------------------------------------------------------------
(* Around the script.                                                        *)

\* A save of a running unit, or of the operator between two runs: a newer
\* format is refused when the state is read, the writer's is written.
Save ==
    /\ edits < MaxEdits
    /\ edits' = edits + 1
    /\ state # None
    /\ \E by \in {running[u] : u \in Up \union Jobs} \union (IF pc = "idle" THEN {code} ELSE {}) :
          /\ by # None /\ by >= state.format
          /\ state' = [format |-> by, edits |-> state.edits + 1]
          /\ was' = [was EXCEPT !.newer = @ \/ by > state.format]
    /\ UNCHANGED <<pc, flags, disk, running, active, intact, previous, failed, stray, result, runs,
                   faults>>

\* OnCalendar=*:0/5, Persistent=true: the job runs the code that is there.
TimerFires(u) ==
    /\ running[u] = None /\ running[Timer[u]] # None /\ code # None
    /\ running' = [running EXCEPT ![u] = code]
    /\ UNCHANGED <<pc, flags, disk, state, active, intact, previous, failed, was, stray, result>>
    /\ NoFault

JobEnds(u) ==
    /\ running[u] # None
    /\ running' = [running EXCEPT ![u] = None]
    /\ stray' = stray \ {u}
    /\ UNCHANGED <<pc, flags, disk, state, active, intact, previous, failed, was, result>>
    /\ NoFault

Init ==
    /\ pc = "idle" /\ result = "installed"
    /\ flags = {} /\ active = {} /\ intact = TRUE
    /\ previous = [kind |-> None, to |-> None, wrapper |-> None]
    /\ code = 0 /\ kind = "directory" /\ releases = {0} /\ wrapper = 0
    /\ aside = None /\ copy = None /\ archive = {} /\ failed = None
    /\ state = [format |-> 0, edits |-> 0]
    /\ running \in [Units -> {0, None}]
    /\ stray = {}
    /\ was = [code |-> 0, state |-> state, up |-> Up, late |-> FALSE, newer |-> FALSE]
    /\ runs = 0 /\ faults = 0 /\ edits = 0

Upgrade ==
    \/ Start \/ Prepare \/ CaptureUnits \/ StopUnits \/ CopyState \/ Archive \/ MarkMutation
    \/ MigrateState \/ PublishRelease \/ MarkCutover \/ SwitchLink \/ MoveAside \/ LinkRelease
    \/ MarkWrapper \/ WriteWrapper \/ StartUnits \/ PostCheck \/ ClearFlags \/ Tidy
    \/ Prune

Rollback ==
    UndoStop \/ UndoState \/ UndoStateBack \/ UndoCode \/ UndoCodeBack \/ UndoWrapper \/ Cleanup
        \/ UndoStart

Next ==
    \/ Upgrade \/ Rollback \/ Fails \/ Killed \/ Save
    \/ \E u \in Oneshots : TimerFires(u) \/ JobEnds(u)

\* The script goes on by itself; nothing else has to happen.
Spec == Init /\ [][Next]_vars /\ WF_vars(Upgrade /\ pc # "idle") /\ WF_vars(Rollback)

-------------------------------------------------------------------------------
(* Properties.                                                               *)

Program == Trapped \union {"idle", "undoStop", "undoState", "undoStateBack", "undoCode",
                           "undoCodeBack", "undoWrapper", "cleanup", "undoStart"}

\* Every variable has its type, and whatever is installed is a release on disk.
TypeOK ==
    /\ pc \in Program /\ flags \subseteq Flags /\ active \subseteq Units /\ intact \in BOOLEAN
    /\ releases \subseteq Releases /\ {code, wrapper, aside} \subseteq Releases \union {None}
    /\ kind \in {"directory", "symlink"}
    /\ {state, copy, failed} \subseteq State \union {None} /\ archive \subseteq State
    /\ running \in [Units -> Releases \union {None}] /\ stray \subseteq Jobs
    /\ code \in releases \union {None}
    /\ result \in {"installed", "running", "upgraded", "rolledback", "incomplete", "killed"}

\* What no property below can promise: a signal arrived between the assignments
\* that clear the flags, or newer code (a job that ran on through a rollback, an
\* operator after an incomplete one) saved the older state in its own format.
Excused == was.late \/ was.newer

\* A run that reports an end has reached one of two: the target release runs in
\* every unit it had stopped, on migrated state, or code, state and the active
\* units are those the run found, with every save made before it.  Whatever
\* failed, and wherever.
AllOrNothing ==
    /\ result = "upgraded" =>
           /\ {code, state.format, wrapper} = {target}
           /\ \A u \in Units \ Oneshots : running[u] = IF u \in was.up THEN target ELSE None
    /\ result = "rolledback" /\ ~ Excused =>
           /\ code = was.code
           /\ state.format = was.state.format /\ state.edits >= was.state.edits
           /\ Up = was.up

\* "The old code must not see state of the new format": no unit ever runs code
\* older than the state it loads, not while the upgrade runs, not during a
\* rollback of which any step failed, and not after a kill and another run.
\* The one exception is a job that was under way when the units were stopped.
OldCodeNeverMeetsNewState ==
    ~ Excused => \A u \in Up \union (Jobs \ stray) : state # None => running[u] >= state.format

\* Until the new release has been found healthy, the state the run found is in
\* place or beside it, wherever the run or its rollback failed or was killed.
StateKept ==
    result \in {"running", "rolledback", "incomplete", "killed"} /\ ~ Excused /\ pc \notin Late =>
        \E s \in {state, copy} \ {None} : s.format = was.state.format /\ s.edits >= was.state.edits

\* A rollback ends, and every service it stopped runs again or the operator is
\* told to look at them.
ServicesReturn ==
    pc = "undoStop" ~> \/ result \in {"incomplete", "killed"}
                       \/ result = "rolledback" /\ was.up = Up

===============================================================================
