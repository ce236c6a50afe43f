------------------------------ MODULE StateStore ------------------------------
(***************************************************************************)
(* The desired-state store of HYDRA: core/state.py and                     *)
(* core/state_runtime.py.  Long-lived sessions (TUI, Telegram, CLI) keep   *)
(* an AppState in memory and write it back with save_state; background     *)
(* writers (traffic daemon, subscription server, sync agent) load, mutate  *)
(* and save under one lock with update_state; a failed plugin command puts *)
(* its snapshot back with restore_desired_state.                           *)
(*                                                                         *)
(* _state_lock is a process-wide flock, so every operation is one step; a  *)
(* step that fails or dies half-way (Interrupted) shows the files the next *)
(* holder of the lock finds.  The order of the file operations inside one  *)
(* save is the subject of StateFiles.                                      *)
(***************************************************************************)
EXTENDS Integers

CONSTANTS
    Sessions,      \* long-lived holders of an AppState
    Commanders,    \* the sessions that also run transactional plugin commands
    Configs,       \* desired configurations, apart from the list of users
    DefaultConfig, \* the configuration of AppState()
    Users,         \* users by email
    Devices,       \* subscription device ids
    None,          \* no file, no process, no snapshot
    Corrupt,       \* a file that does not parse or validate
    MaxEditions,   \* bound: desired-state writes in a behaviour
    MaxTraffic,    \* bound: traffic counted per user
    MaxFaults,     \* bound: saves that fail or die after the revision check
    MaxDamage      \* bound: times the primary file is damaged from outside

ASSUME StoreAssumption ==
    /\ Commanders \subseteq Sessions
    /\ DefaultConfig \in Configs
    /\ None # Corrupt
    /\ \A bound \in {MaxEditions, MaxTraffic, MaxFaults, MaxDamage} : bound \in Nat

(***************************************************************************)
(* A document.  "edition" is not in the code: it numbers the writes of     *)
(* desired state, and in a session's copy it is the edition the copy was   *)
(* read from.  The code tries to get by with "revision" alone.             *)
(***************************************************************************)
Document == [revision : Nat, config : Configs, users : SUBSET Users,
             traffic : [Users -> Nat], devices : [Users -> SUBSET Devices],
             resetEpochs : SUBSET Users, edition : Nat]

ASSUME SentinelAssumption == None \notin Document /\ Corrupt \notin Document

VARIABLES
    primary,   \* state.json
    backup,    \* state.json.bak
    mem,       \* the AppState each session holds
    resets,    \* install["_device_binding_resets"] of each session's copy
    snapshot,  \* the copy a running plugin command took before it started
    adrift,    \* history: sessions whose revision was never, or is no longer, stored
    editions,  \* history: desired-state writes so far
    issued,    \* history: users created so far; a new account has a fresh uuid
    disowned,  \* history: users removed from the file, or on record when it was damaged
    faults, damage

disk == <<primary, backup>>
history == <<adrift, editions, issued, disowned>>
env == <<faults, damage>>
vars == <<primary, backup, mem, resets, snapshot, adrift, editions, issued, disowned,
          faults, damage>>

EmptyState == [revision |-> 0, config |-> DefaultConfig, users |-> {},
               traffic |-> [u \in Users |-> 0], devices |-> [u \in Users |-> {}],
               resetEpochs |-> {}, edition |-> 0]

Larger(a, b) == IF a >= b THEN a ELSE b

Readable(file) == file \notin {None, Corrupt}

\* What the next holder of the lock loads: the primary file, else its backup.
LoadFails == primary = Corrupt /\ ~Readable(backup)
\* Mutant of Stored: a damaged primary is not replaced by its backup.
StoredWithoutFallback == IF primary = None THEN EmptyState ELSE primary
Stored == IF primary = None THEN EmptyState
          ELSE IF primary = Corrupt THEN backup ELSE primary

\* Everything an operator chose; counters and device bindings are observations.
Desired(state) == [config |-> state.config, users |-> state.users]

\* Mutants of Merge: the larger counter wins even over a recorded reset, and
\* the bindings of the session's own copy replace the stored ones.
MergeIgnoringResets(state, latest, deviceResets) ==
    LET shared == state.users \intersect latest.users IN
    [state EXCEPT
        !.traffic = [u \in Users |->
            IF u \in shared THEN Larger(state.traffic[u], latest.traffic[u])
            ELSE state.traffic[u]],
        !.devices = [u \in Users |->
            IF u \in shared \ deviceResets
            THEN latest.devices[u] \union state.devices[u]
            ELSE state.devices[u]],
        !.resetEpochs = latest.resetEpochs]

MergeLosingBindings(state, latest, deviceResets) ==
    LET shared == state.users \intersect latest.users IN
    [state EXCEPT
        !.traffic = [u \in Users |->
            IF u \notin shared THEN state.traffic[u]
            ELSE IF u \in latest.resetEpochs THEN latest.traffic[u]
            ELSE Larger(state.traffic[u], latest.traffic[u])],
        !.resetEpochs = latest.resetEpochs]

(***************************************************************************)
(* merge_runtime_state: counters keep their larger value, except that the  *)
(* stored one wins once the user's quota period was reset; device bindings *)
(* are united unless this very save resets them.                           *)
(***************************************************************************)
Merge(state, latest, deviceResets) ==
    LET shared == state.users \intersect latest.users IN
    [state EXCEPT
        !.traffic = [u \in Users |->
            IF u \notin shared THEN state.traffic[u]
            ELSE IF u \in latest.resetEpochs THEN latest.traffic[u]
            ELSE Larger(state.traffic[u], latest.traffic[u])],
        !.devices = [u \in Users |->
            IF u \in shared \ deviceResets
            THEN latest.devices[u] \union state.devices[u]
            ELSE state.devices[u]],
        !.resetEpochs = latest.resetEpochs]

Merged(s) == IF primary = None THEN mem[s] ELSE Merge(mem[s], Stored, resets[s])

\* Does writing this state change the desired configuration on disk?
Changes(state) == primary = None \/ Desired(state) # Desired(Stored)

\* Mutant of Conflicts: a stale copy is refused only when it is ahead.
ConflictsOnlyWhenAhead(state) ==
    primary # None /\ Changes(state) /\ state.revision > Stored.revision

Conflicts(state) ==
    primary # None /\ Changes(state) /\ state.revision # Stored.revision

\* Mutant of Numbered: the caller's own revision is kept.
NumberedByCaller(state) ==
    [state EXCEPT
        !.revision = IF primary = None THEN Larger(1, state.revision) ELSE state.revision,
        !.edition = IF Changes(state) THEN editions + 1 ELSE Stored.edition]

\* The revision _save_state_unlocked assigns before it validates and writes.
Numbered(state) ==
    [state EXCEPT
        !.revision = IF primary = None THEN Larger(1, state.revision)
                     ELSE IF Changes(state) THEN Stored.revision + 1
                     ELSE Stored.revision,
        !.edition = IF Changes(state) THEN editions + 1 ELSE Stored.edition]

\* Mutant of PreviousFile: the backup is taken once and never refreshed.
BackupTakenOnce == IF Readable(backup) THEN backup ELSE primary

\* The files after a complete write, and after one that stopped half-way.
PreviousFile == IF primary = None THEN backup ELSE primary

WriteFiles(document) ==
    /\ primary' = document
    /\ backup' = PreviousFile
    /\ editions' = Larger(editions, document.edition)
    /\ disowned' = disowned \union (Stored.users \ document.users)
    /\ UNCHANGED <<issued, env>>

Interrupted ==
    /\ faults < MaxFaults
    /\ faults' = faults + 1
    /\ backup' \in {backup, PreviousFile}
    /\ UNCHANGED <<primary, editions, issued, disowned, damage>>

Running(s) == mem[s] # None

CanWrite(state) == Changes(state) => editions < MaxEditions

-------------------------------------------------------------------------------
(* A session and the copy it holds.                                          *)

LoadState(s) ==
    /\ ~LoadFails
    /\ mem' = [mem EXCEPT ![s] = Stored]
    /\ resets' = [resets EXCEPT ![s] = {}]
    /\ snapshot' = [snapshot EXCEPT ![s] = None]
    /\ adrift' = adrift \ {s}
    /\ UNCHANGED <<disk, editions, issued, disowned, env>>

ForgetState(s) ==
    /\ mem' = [mem EXCEPT ![s] = None]
    /\ resets' = [resets EXCEPT ![s] = {}]
    /\ snapshot' = [snapshot EXCEPT ![s] = None]
    /\ adrift' = adrift \ {s}

Exit(s) ==
    /\ Running(s)
    /\ ForgetState(s)
    /\ UNCHANGED <<disk, editions, issued, disowned, env>>

Edit(s, state) ==
    /\ Running(s)
    /\ mem' = [mem EXCEPT ![s] = state]
    /\ UNCHANGED <<disk, snapshot, adrift, editions, disowned, env>>

EditConfig(s, config) ==
    /\ Edit(s, [mem[s] EXCEPT !.config = config])
    /\ UNCHANGED <<resets, issued>>

\* Adding starts, and removing drops, the user's counters and bindings.
AddUser(s, u) ==
    /\ Edit(s, [mem[s] EXCEPT !.users = @ \union {u}, !.traffic[u] = 0, !.devices[u] = {}])
    /\ u \notin issued
    /\ issued' = issued \union {u}
    /\ UNCHANGED resets

RemoveUser(s, u) ==
    /\ Edit(s, [mem[s] EXCEPT !.users = @ \ {u}, !.traffic[u] = 0, !.devices[u] = {}])
    /\ u \in mem[s].users
    /\ UNCHANGED <<resets, issued>>

ResetDevices(s, u) ==
    /\ Edit(s, [mem[s] EXCEPT !.devices[u] = {}])
    /\ u \in mem[s].users
    /\ resets' = [resets EXCEPT ![s] = @ \union {u}]
    /\ UNCHANGED issued

-------------------------------------------------------------------------------
(* save_state, and every way it ends.  The reset marks are taken off the     *)
(* session's copy before anything can fail.                                  *)

SaveBegins(s) ==
    /\ Running(s)
    /\ resets' = [resets EXCEPT ![s] = {}]
    /\ UNCHANGED snapshot

SaveAccepted(s) ==
    LET document == Numbered(Merged(s)) IN
    /\ SaveBegins(s)
    /\ ~LoadFails
    /\ ~Conflicts(Merged(s))
    /\ CanWrite(Merged(s))
    /\ WriteFiles(document)
    /\ mem' = [mem EXCEPT ![s] = document]
    /\ adrift' = adrift \ {s}

SaveRejected(s) ==
    /\ SaveBegins(s)
    /\ ~LoadFails
    /\ Conflicts(Merged(s))
    /\ mem' = [mem EXCEPT ![s] = Merged(s)]
    /\ UNCHANGED <<disk, history, env>>

\* Validation or I/O raised after the copy in memory was renumbered.
SaveFails(s) ==
    LET merged == Merged(s)
        changes == Changes(merged)
    IN
    /\ SaveBegins(s)
    /\ ~LoadFails
    /\ ~Conflicts(merged)
    /\ CanWrite(merged)
    /\ Interrupted
    /\ mem' = [mem EXCEPT ![s] =
                 [Numbered(merged) EXCEPT !.edition = IF changes THEN mem[s].edition ELSE @]]
    /\ adrift' = IF changes THEN adrift \union {s} ELSE adrift \ {s}

\* The process is killed inside save_state; the flock goes with it.
SaveCrashes(s) ==
    /\ Running(s)
    /\ ~LoadFails
    /\ ~Conflicts(Merged(s))
    /\ Interrupted
    /\ ForgetState(s)

\* Neither file can be read: the merge never starts.
SaveUnreadable(s) ==
    /\ SaveBegins(s)
    /\ LoadFails
    /\ UNCHANGED <<disk, mem, history, env>>

SaveState(s) ==
    \/ SaveAccepted(s)
    \/ SaveRejected(s)
    \/ SaveFails(s)
    \/ SaveCrashes(s)
    \/ SaveUnreadable(s)

-------------------------------------------------------------------------------
(* update_state: load, mutate and save under one lock, with no copy kept.    *)

\* Mutant of UpdateState: every write counts as a change of desired state.
UpdateAlwaysNumbered(mutated) ==
    /\ ~LoadFails
    /\ editions < MaxEditions
    /\ WriteFiles([mutated EXCEPT !.revision = Stored.revision + 1, !.edition = editions + 1])
    /\ UNCHANGED <<mem, resets, snapshot, adrift>>

UpdateState(mutated) ==
    /\ ~LoadFails
    /\ LET changes == Desired(mutated) # Desired(Stored) IN
       \/ /\ changes => editions < MaxEditions
          /\ WriteFiles([mutated EXCEPT
                 !.revision = IF changes THEN Stored.revision + 1 ELSE @,
                 !.edition = IF changes THEN editions + 1 ELSE @])
          /\ UNCHANGED adrift
       \/ Interrupted /\ UNCHANGED adrift
    /\ UNCHANGED <<mem, resets, snapshot>>

CountTraffic(u) ==
    /\ ~LoadFails /\ u \in Stored.users /\ Stored.traffic[u] < MaxTraffic
    /\ UpdateState([Stored EXCEPT !.traffic[u] = @ + 1])

ResetTraffic(u) ==
    /\ ~LoadFails /\ u \in Stored.users
    /\ UpdateState([Stored EXCEPT !.traffic[u] = 0, !.resetEpochs = @ \union {u}])

RegisterDevice(u, d) ==
    /\ ~LoadFails /\ u \in Stored.users
    /\ UpdateState([Stored EXCEPT !.devices[u] = @ \union {d}])

UpdateConfig(config) ==
    /\ ~LoadFails
    /\ UpdateState([Stored EXCEPT !.config = config])

-------------------------------------------------------------------------------
(* PluginCommandService.execute: a snapshot before the command, and on any   *)
(* failure restore_state_in_place followed by restore_desired_state.         *)

BeginCommand(s) ==
    /\ s \in Commanders
    /\ Running(s)
    /\ snapshot[s] = None
    /\ snapshot' = [snapshot EXCEPT ![s] = mem[s]]
    /\ UNCHANGED <<disk, mem, resets, history, env>>

CommandSucceeds(s) ==
    /\ snapshot[s] # None
    /\ snapshot' = [snapshot EXCEPT ![s] = None]
    /\ UNCHANGED <<disk, mem, resets, history, env>>

RestoredInPlace(s) ==
    [snapshot[s] EXCEPT !.revision = mem[s].revision, !.edition = mem[s].edition]

\* The document restore_desired_state writes.
Restored(s) ==
    LET state == RestoredInPlace(s) IN
    IF primary = None THEN Numbered(state)
    ELSE Numbered([Merge(state, Stored, {}) EXCEPT !.revision = Stored.revision])

RollBackCommand(s) ==
    /\ Running(s)
    /\ snapshot[s] # None
    /\ snapshot' = [snapshot EXCEPT ![s] = None]
    /\ resets' = [resets EXCEPT ![s] = {}]
    /\ \/ /\ ~LoadFails
          /\ CanWrite(RestoredInPlace(s))
          /\ WriteFiles(Restored(s))
          /\ mem' = [mem EXCEPT ![s] = [RestoredInPlace(s) EXCEPT
                       !.revision = Restored(s).revision, !.edition = Restored(s).edition]]
          /\ adrift' = adrift \ {s}
       \/ /\ ~LoadFails
          /\ Interrupted
          /\ mem' = [mem EXCEPT ![s] = RestoredInPlace(s)]
          /\ UNCHANGED adrift
       \/ /\ LoadFails
          /\ mem' = [mem EXCEPT ![s] = RestoredInPlace(s)]
          /\ UNCHANGED <<disk, history, env>>

-------------------------------------------------------------------------------
(* The file is edited or cut short outside the program.  Sessions whose      *)
(* revision went with it are adrift: the number will be given out again.     *)

Damage ==
    /\ Readable(primary)
    /\ damage < MaxDamage
    /\ damage' = damage + 1
    /\ primary' = Corrupt
    /\ adrift' = adrift \union
          {s \in Sessions : Running(s) /\ Readable(backup) /\ mem[s].revision > backup.revision}
    /\ disowned' = disowned \union issued
    /\ UNCHANGED <<backup, mem, resets, snapshot, editions, issued, faults>>

-------------------------------------------------------------------------------
Init ==
    /\ primary = None /\ backup = None
    /\ mem = [s \in Sessions |-> None]
    /\ resets = [s \in Sessions |-> {}]
    /\ snapshot = [s \in Sessions |-> None]
    /\ adrift = {} /\ editions = 0 /\ issued = {} /\ disowned = {}
    /\ faults = 0 /\ damage = 0

SessionStep(s) ==
    \/ LoadState(s) \/ Exit(s)
    \/ \E config \in Configs : EditConfig(s, config)
    \/ \E u \in Users : AddUser(s, u) \/ RemoveUser(s, u) \/ ResetDevices(s, u)
    \/ SaveState(s)
    \/ BeginCommand(s) \/ CommandSucceeds(s) \/ RollBackCommand(s)

BackgroundStep ==
    \/ \E u \in Users : CountTraffic(u) \/ ResetTraffic(u)
    \/ \E u \in Users, d \in Devices : RegisterDevice(u, d)
    \/ \E config \in Configs : UpdateConfig(config)

Next == (\E s \in Sessions : SessionStep(s)) \/ BackgroundStep \/ Damage

Spec == Init /\ [][Next]_vars

-------------------------------------------------------------------------------
(* Every document on disk or in memory is a well-formed AppState.            *)
TypeOK ==
    /\ primary \in Document \union {None, Corrupt}
    /\ backup \in Document \union {None, Corrupt}
    /\ mem \in [Sessions -> Document \union {None}]
    /\ resets \in [Sessions -> SUBSET Users]
    /\ snapshot \in [Sessions -> Document \union {None}]
    /\ adrift \subseteq Sessions
    /\ editions \in 0..MaxEditions
    /\ issued \subseteq Users
    /\ disowned \subseteq Users
    /\ faults \in 0..MaxFaults
    /\ damage \in 0..MaxDamage

(* Optimistic concurrency rests on this: for a session that is not adrift,   *)
(* an equal revision means an equal edition, so comparing revisions in       *)
(* _save_state_unlocked detects every foreign change of desired state.       *)
RevisionNamesContent ==
    \A s \in Sessions \ adrift :
        Running(s) /\ ~LoadFails /\ primary # None /\ mem[s].revision = Stored.revision
            => mem[s].edition = Stored.edition

\* Session s put its own copy on disk in this step.
Publishes(s) ==
    /\ editions' > editions
    /\ mem'[s] # None /\ mem[s] # None
    /\ mem'[s].edition = editions'
    /\ snapshot'[s] = snapshot[s]

PublishesWhatItRead ==
    \A s \in Sessions \ adrift :
        Publishes(s) /\ primary # None => mem[s].edition = Stored.edition

(* save_state never replaces a desired configuration its caller has not      *)
(* read, except from a session that is adrift.                               *)
NoLostUpdate == [][PublishesWhatItRead]_vars

(* The revision counts changes of desired state and nothing else: it rises   *)
(* by one with each, and background accounting, which runs every two         *)
(* seconds, never moves it and so never makes an open menu conflict.         *)
RevisionCountsChanges ==
    [][~LoadFails /\ primary # None /\ ~LoadFails' /\ damage' = damage =>
          Stored'.revision = Stored.revision
              + (IF Desired(Stored') # Desired(Stored) THEN 1 ELSE 0)]_vars

(* The backup is never more than one change of desired state behind the      *)
(* primary, so falling back to it undoes at most the last change.            *)
BackupOneBehind ==
    Readable(primary) /\ Readable(backup) =>
        primary.revision - backup.revision \in {0, 1}

(* A traffic counter moves only by being counted or by a recorded reset: no  *)
(* save of a stale copy lowers it, and none brings a reset quota back.  Only *)
(* for a user who was taken out of the file and put back by a session adrift *)
(* or a rollback, or after a fallback to the backup, may a copy older than   *)
(* the loss raise the counter again.                                         *)
CountersOwnedByWriters ==
    [][\A u \in Users :
          (~LoadFails /\ ~LoadFails' /\ damage' = damage
              /\ u \in Stored.users \intersect Stored'.users
              /\ Stored'.traffic[u] # Stored.traffic[u])
          => \/ /\ mem' = mem
                /\ \/ Stored'.traffic[u] = Stored.traffic[u] + 1
                   \/ Stored'.traffic[u] = 0 /\ u \in Stored'.resetEpochs
             \/ /\ u \in disowned \ Stored.resetEpochs
                /\ Stored'.traffic[u] > Stored.traffic[u]]_vars

(* A device binding the subscription server registered disappears only with  *)
(* its user or in the save of a session that reset that user's devices.      *)
BindingsSurviveStaleSaves ==
    [][\A u \in Users :
          (~LoadFails /\ ~LoadFails' /\ damage' = damage /\ u \in Stored'.users
              /\ ~(Stored.devices[u] \subseteq Stored'.devices[u]))
          => \E s \in Sessions : u \in resets[s] /\ resets'[s] = {}]_vars
===============================================================================
