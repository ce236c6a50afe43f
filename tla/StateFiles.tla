------------------------------ MODULE StateFiles ------------------------------
(***************************************************************************)
(* The file operations inside _save_state_unlocked (core/state.py), one by *)
(* one, under the flock of _state_lock: copy the primary to a pending file *)
(* and rename it over the backup, write and fsync a temporary file and     *)
(* rename it over the primary, fsync the directory.  A process may fail at *)
(* any of them (its finally clauses run), be killed (they do not), and the *)
(* machine may lose power: data that was not fsynced may then be gone, and *)
(* so may the latest renames, in the order a journaling file system keeps. *)
(***************************************************************************)
EXTENDS Naturals, Sequences

CONSTANTS
    Processes,
    None,        \* no file, no lock holder
    Torn,        \* the content of a file that was not completely written
    MaxWrites,   \* bound: save attempts; attempt k writes document k
    MaxFaults,   \* bound: failed or killed saves
    MaxOutages   \* bound: power losses

ASSUME FilesAssumption ==
    /\ \A bound \in {MaxWrites, MaxFaults, MaxOutages} : bound \in Nat
    /\ None \notin Processes /\ Torn \notin Nat /\ None \notin Nat /\ None # Torn

\* Every file there may be: what it holds, and who created it in which role.
AnyFile == [content : Nat \union {Torn}, made : Nat \X {"copy", "new"}]

ASSUME SentinelAssumption == None \notin AnyFile

VARIABLES
    primary,   \* state.json as every process sees it
    backup,    \* state.json.bak
    pending,   \* state.json.bak.pending
    tmp,       \* the writer's own state.json.<pid>.<tid>.tmp
    onDisk,    \* the files a power loss would leave: primary and backup
    journal,   \* renames of primary and backup the directory has not persisted
    synced,    \* files whose data is on the disk
    holder,    \* who holds state.lock
    step,      \* where the holder is in its save
    attempts,  \* save attempts so far
    returned,  \* history: the latest document whose save returned durably
    found,     \* history: the files the holder found when it took the lock
    faults, outages

files == <<primary, backup, pending, tmp>>
durable == <<onDisk, journal, synced>>
bounds == <<faults, outages>>
vars == <<primary, backup, pending, tmp, onDisk, journal, synced, holder, step,
          attempts, returned, found, faults, outages>>

\* A file: what it holds, and which attempt created it in which role.
File(content, role) == [content |-> content, made |-> <<attempts, role>>]

Readable(file) == file # None /\ file.content # Torn

-------------------------------------------------------------------------------
(* The steps of a save.                                                      *)

At(here) == holder # None /\ step = here

GoTo(next) == step' = next /\ UNCHANGED <<holder, attempts, returned, found, bounds>>

\* LOCK_EX; a process that cannot load the state raises and lets go at once.
Acquire(p) ==
    /\ holder = None
    /\ attempts < MaxWrites
    /\ primary = None \/ Readable(primary) \/ Readable(backup)
    /\ holder' = p
    /\ attempts' = attempts + 1
    /\ found' = [primary |-> primary, backup |-> backup]
    /\ step' = IF primary = None THEN "open" ELSE "copy"
    /\ UNCHANGED <<files, durable, returned, bounds>>

\* Mutant of StartCopy: the copy goes straight over the backup.
StartCopyInPlace ==
    /\ At("copy")
    /\ backup' = File(Torn, "copy")
    /\ pending' = File(Torn, "copy")
    /\ GoTo("copying")
    /\ UNCHANGED <<primary, tmp, durable>>

StartCopy ==
    /\ At("copy")
    /\ pending' = File(Torn, "copy")
    /\ GoTo("copying")
    /\ UNCHANGED <<primary, backup, tmp, durable>>

FinishCopy ==
    /\ At("copying")
    /\ pending' = [pending EXCEPT !.content = primary.content]
    /\ GoTo("backup")
    /\ UNCHANGED <<primary, backup, tmp, durable>>

\* Mutant of ReplaceBackup: the pending copy is dropped.
DropPending ==
    /\ At("backup")
    /\ pending' = None
    /\ GoTo("open")
    /\ UNCHANGED <<primary, backup, tmp, durable>>

ReplaceBackup ==
    /\ At("backup")
    /\ backup' = pending
    /\ pending' = None
    /\ journal' = Append(journal, [name |-> "backup", file |-> pending])
    /\ GoTo("open")
    /\ UNCHANGED <<primary, tmp, onDisk, synced>>

OpenTmp ==
    /\ At("open")
    /\ tmp' = File(Torn, "new")
    /\ GoTo("write")
    /\ UNCHANGED <<primary, backup, pending, durable>>

WriteTmp ==
    /\ At("write")
    /\ tmp' = [tmp EXCEPT !.content = attempts]
    /\ GoTo("fsync")
    /\ UNCHANGED <<primary, backup, pending, durable>>

\* Mutant of FsyncTmp: the data is left to the page cache.
SkipFsync ==
    /\ At("fsync")
    /\ GoTo("replace")
    /\ UNCHANGED <<files, durable>>

FsyncTmp ==
    /\ At("fsync")
    /\ synced' = synced \union {tmp.made}
    /\ GoTo("replace")
    /\ UNCHANGED <<files, onDisk, journal>>

ReplacePrimary ==
    /\ At("replace")
    /\ primary' = tmp
    /\ tmp' = None
    /\ journal' = Append(journal, [name |-> "primary", file |-> tmp])
    /\ GoTo("directory")
    /\ UNCHANGED <<backup, pending, onDisk, synced>>

\* The files after the first n renames of the journal reached the disk.
Persisted(n) ==
    LET latest(name, file) ==
            LET its == {i \in 1..n : journal[i].name = name} IN
            IF its = {} THEN file
            ELSE journal[CHOOSE i \in its : \A j \in its : j <= i].file
    IN [primary |-> latest("primary", onDisk.primary),
        backup |-> latest("backup", onDisk.backup)]

\* The directory is persisted as far as the first n renames.
Flush(n) ==
    /\ onDisk' = Persisted(n)
    /\ journal' = SubSeq(journal, n + 1, Len(journal))

\* Mutant of Unlocked: the lock is kept when the save ends.
LockLeaked == UNCHANGED holder /\ step' = "idle" /\ tmp' = None

Unlocked == holder' = None /\ step' = "idle" /\ tmp' = None

\* Mutant of Return: the directory entry is never synced.
ReturnWithoutFsync ==
    /\ At("directory")
    /\ Unlocked
    /\ returned' = attempts
    /\ UNCHANGED <<primary, backup, pending, durable, attempts, found, bounds>>

\* _fsync_directory swallows OSError, so the save may return without it.
Return ==
    /\ At("directory")
    /\ Unlocked
    /\ \/ Flush(Len(journal)) /\ returned' = attempts /\ UNCHANGED bounds
       \/ /\ faults < MaxFaults
          /\ faults' = faults + 1
          /\ UNCHANGED <<onDisk, journal, returned, outages>>
    /\ UNCHANGED <<primary, backup, pending, synced, attempts, found>>

-------------------------------------------------------------------------------
(* What can go wrong.                                                        *)

\* An operation raises: the pending and temporary files are unlinked.
Fail ==
    /\ holder # None /\ step # "directory"
    /\ faults < MaxFaults
    /\ faults' = faults + 1
    /\ pending' = None
    /\ Unlocked
    /\ UNCHANGED <<primary, backup, durable, attempts, returned, found, outages>>

\* The process dies; the kernel drops its flock, its files stay behind.
Kill ==
    /\ holder # None
    /\ faults < MaxFaults
    /\ faults' = faults + 1
    /\ Unlocked
    /\ UNCHANGED <<primary, backup, pending, durable, attempts, returned, found, outages>>

\* The page cache is written back some time.
WriteBack ==
    /\ \/ \E file \in {primary, backup} :
             /\ Readable(file) /\ file.made \notin synced
             /\ synced' = synced \union {file.made}
             /\ UNCHANGED <<onDisk, journal>>
       \/ journal # <<>> /\ Flush(1) /\ UNCHANGED synced
    /\ UNCHANGED <<files, holder, step, attempts, returned, found, bounds>>

\* What becomes of a file when the power goes: unsynced data may be lost.
Survives(file) ==
    IF file = None \/ (file # None /\ file.made \in synced) THEN {file}
    ELSE {file, [file EXCEPT !.content = Torn]}

PowerLoss ==
    /\ outages < MaxOutages
    /\ outages' = outages + 1
    /\ \E n \in 0..Len(journal) :
          /\ primary' \in Survives(Persisted(n).primary)
          /\ backup' \in Survives(Persisted(n).backup)
    /\ onDisk' = [primary |-> primary', backup |-> backup']
    /\ journal' = <<>>
    /\ synced' = {file.made : file \in {primary', backup'} \ {None}}
    /\ pending' = None
    /\ Unlocked
    /\ UNCHANGED <<attempts, returned, found, faults>>

-------------------------------------------------------------------------------
Init ==
    /\ primary = None /\ backup = None /\ pending = None /\ tmp = None
    /\ onDisk = [primary |-> None, backup |-> None]
    /\ journal = <<>> /\ synced = {}
    /\ holder = None /\ step = "idle" /\ attempts = 0 /\ returned = 0
    /\ found = [primary |-> None, backup |-> None]
    /\ faults = 0 /\ outages = 0

SaveStep ==
    \/ StartCopy \/ FinishCopy \/ ReplaceBackup
    \/ OpenTmp \/ WriteTmp \/ FsyncTmp \/ ReplacePrimary \/ Return

Next ==
    \/ \E p \in Processes : Acquire(p)
    \/ SaveStep
    \/ Fail \/ Kill \/ WriteBack \/ PowerLoss

Spec == Init /\ [][Next]_vars

-------------------------------------------------------------------------------
Contents == 1..MaxWrites \union {Torn}
IsFile(file) == file = None \/ file.content \in Contents

(* The lock holder is inside a save and nobody else is; files hold a whole   *)
(* document or a torn one.                                                   *)
TypeOK ==
    /\ \A file \in {primary, backup, pending, tmp, onDisk.primary, onDisk.backup} : IsFile(file)
    /\ holder \in Processes \union {None}
    /\ (holder = None) <=> (step = "idle")
    /\ returned <= attempts /\ attempts <= MaxWrites
    /\ faults <= MaxFaults /\ outages <= MaxOutages

(* state.json is whole at every moment, whoever fails, is killed or loses    *)
(* power half-way: the fsync of the temporary file precedes its rename.      *)
PrimaryNeverTorn == primary # None => Readable(primary)

(* Once a save has returned with the directory synced, no later failure,     *)
(* kill or power loss brings an older document back.                         *)
ReturnedSaveSurvives == returned > 0 => primary # None /\ primary.content >= returned

(* Short of a power loss the backup is whole too: a copy that was cut short  *)
(* stays in the pending file.                                                *)
BackupWholeWithoutOutage == outages = 0 /\ backup # None => Readable(backup)

-------------------------------------------------------------------------------
(* The files as the next holder of the lock sees them: while the lock is     *)
(* held, what its holder found; afterwards what it left.                     *)
Seen(file, atLock) ==
    LET visible == IF holder = None THEN file ELSE atLock IN
    IF visible = None THEN None ELSE visible.content

Abstract == INSTANCE AtomicFiles WITH
    Documents <- Nat,
    primary <- Seen(primary, found.primary),
    backup <- Seen(backup, found.backup)

(* A save is atomic to whoever takes the lock next: it implements            *)
(* AtomicFiles.                                                              *)
SavesAreAtomic == Abstract!Spec
===============================================================================
