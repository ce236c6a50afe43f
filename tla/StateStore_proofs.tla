-------------------------- MODULE StateStore_proofs --------------------------
(***************************************************************************)
(* The store's optimistic concurrency, for any number of sessions, users,  *)
(* configurations and faults.  StoreInv is inductive; that equal revisions *)
(* mean equal editions, and hence that no change is lost, follows from it. *)
(* AccountInv, inductive on top of it, says that no copy is ahead of the   *)
(* stored counters; that saves leave the counters and the bindings to the  *)
(* background writers follows.                                             *)
(***************************************************************************)
EXTENDS StateStore, TLAPS

(* No copy carries an edition that was not written yet. *)
EditionsCounted ==
    /\ Readable(primary) => primary.edition <= editions
    /\ Readable(backup) => backup.edition <= editions
    /\ \A s \in Sessions : Running(s) => mem[s].edition <= editions

(* The backup is an earlier state of the primary. *)
FilesOrdered ==
    /\ primary = None => backup = None
    /\ BackupOneBehind
    /\ Readable(primary) /\ Readable(backup) /\ primary.revision = backup.revision
          => primary.edition = backup.edition

(* A copy that is behind the store: where its revision equals that of the    *)
(* stored state or of the backup, so does its edition.                       *)
Behind(copy) ==
    /\ ~LoadFails =>
          /\ copy.revision <= Stored.revision
          /\ copy.revision = Stored.revision => copy.edition = Stored.edition
    /\ Readable(backup) /\ copy.revision = backup.revision => copy.edition = backup.edition

SessionsBehind == \A s \in Sessions \ adrift : Running(s) => Behind(mem[s])

StoreInv == TypeOK /\ EditionsCounted /\ FilesOrdered /\ SessionsBehind

-------------------------------------------------------------------------------
LEMMA EmptyStateType == EmptyState \in Document
BY StoreAssumption DEF EmptyState, Document

LEMMA StoredType == ASSUME TypeOK, ~LoadFails PROVE Stored \in Document
BY EmptyStateType DEF Stored, TypeOK, LoadFails, Readable

LEMMA MergeType ==
    ASSUME NEW state \in Document, NEW latest \in Document, NEW R
    PROVE  /\ Merge(state, latest, R) \in Document
           /\ Merge(state, latest, R).revision = state.revision
           /\ Merge(state, latest, R).edition = state.edition
           /\ Merge(state, latest, R).config = state.config
           /\ Merge(state, latest, R).users = state.users
<1> DEFINE shared == state.users \intersect latest.users
           traffic == [u \in Users |->
                IF u \notin shared THEN state.traffic[u]
                ELSE IF u \in latest.resetEpochs THEN latest.traffic[u]
                ELSE Larger(state.traffic[u], latest.traffic[u])]
           devices == [u \in Users |->
                IF u \in shared \ R THEN latest.devices[u] \union state.devices[u]
                ELSE state.devices[u]]
<1>1. traffic \in [Users -> Nat]
  BY DEF Document, Larger
<1>2. devices \in [Users -> SUBSET Devices]
  BY DEF Document
<1>3. Merge(state, latest, R) = [state EXCEPT !.traffic = traffic, !.devices = devices,
                                             !.resetEpochs = latest.resetEpochs]
  BY DEF Merge
<1> HIDE DEF traffic, devices
<1>4. QED
  BY <1>1, <1>2, <1>3 DEF Document

LEMMA MergedType ==
    ASSUME TypeOK, ~LoadFails, NEW s \in Sessions, Running(s)
    PROVE  /\ Merged(s) \in Document
           /\ Merged(s).revision = mem[s].revision
           /\ Merged(s).edition = mem[s].edition
<1>1. mem[s] \in Document
  BY DEF TypeOK, Running
<1>2. QED
  BY <1>1, StoredType, MergeType DEF Merged

LEMMA NumberedType ==
    ASSUME TypeOK, ~LoadFails, NEW state \in Document
    PROVE  /\ Numbered(state) \in Document
           /\ Numbered(state).revision =
                 IF primary = None THEN Larger(1, state.revision)
                 ELSE IF Changes(state) THEN Stored.revision + 1 ELSE Stored.revision
           /\ Numbered(state).edition = IF Changes(state) THEN editions + 1 ELSE Stored.edition
<1>1. Stored \in Document
  BY StoredType
<1> DEFINE revision == IF primary = None THEN Larger(1, state.revision)
                       ELSE IF Changes(state) THEN Stored.revision + 1 ELSE Stored.revision
           edition == IF Changes(state) THEN editions + 1 ELSE Stored.edition
<1>2. Stored.revision \in Nat /\ Stored.edition \in Nat /\ state.revision \in Nat /\ editions \in Nat
  BY <1>1, StoreAssumption DEF Document, TypeOK
<1>3. revision \in Nat /\ edition \in Nat
  BY <1>2 DEF Larger
<1>4. Numbered(state) = [state EXCEPT !.revision = revision, !.edition = edition]
  BY DEF Numbered
<1> HIDE DEF revision, edition
<1>5. Numbered(state) \in Document /\ Numbered(state).revision = revision
                                   /\ Numbered(state).edition = edition
  BY <1>3, <1>4 DEF Document
<1>6. QED
  BY <1>5 DEF revision, edition

LEMMA RestoredInPlaceType ==
    ASSUME TypeOK, NEW s \in Sessions, Running(s), snapshot[s] # None
    PROVE  /\ RestoredInPlace(s) \in Document
           /\ RestoredInPlace(s).revision = mem[s].revision
           /\ RestoredInPlace(s).edition = mem[s].edition
<1>1. mem[s] \in Document /\ snapshot[s] \in Document
  BY DEF TypeOK, Running
<1>2. QED
  BY <1>1 DEF RestoredInPlace, Document

-------------------------------------------------------------------------------
(* What a complete and an interrupted write do to the files.                 *)

(* The three ways _save_state_unlocked numbers a document it writes. *)
WellNumbered(document) ==
    \/ document.revision = Stored.revision /\ document.edition = Stored.edition
    \/ document.revision = Stored.revision + 1 /\ document.edition = editions + 1
    \/ primary = None /\ document.revision >= 1 /\ document.edition = editions + 1

LEMMA WriteKeeps ==
    ASSUME StoreInv, ~LoadFails, NEW document \in Document,
           WellNumbered(document), WriteFiles(document)
    PROVE  /\ ~LoadFails' /\ Stored' = document
           /\ FilesOrdered'
           /\ editions <= editions'
           /\ document.edition <= editions'
           /\ Readable(backup') => backup'.edition <= editions'
           /\ Behind(document)'
           /\ \A copy \in Document : Behind(copy) => Behind(copy)'
<1> USE SentinelAssumption, StoreAssumption
<1>1. primary \in Document \union {None, Corrupt} /\ backup \in Document \union {None, Corrupt}
      /\ editions \in Nat
  BY DEF StoreInv, TypeOK
<1>2. document # None /\ document # Corrupt
  OBVIOUS
<1>3. ~LoadFails' /\ Stored' = document /\ primary' = document /\ backup' = PreviousFile
  BY <1>2 DEF WriteFiles, LoadFails, Stored
<1>4. Stored \in Document
  BY StoredType DEF StoreInv
<1>5. /\ document.revision \in Nat /\ document.edition \in Nat
      /\ Stored.revision \in Nat /\ Stored.edition \in Nat
  BY <1>4 DEF Document
<1>6. Readable(backup') => primary # None /\ primary # Corrupt /\ backup' = Stored
  BY <1>3 DEF Readable, PreviousFile, StoreInv, FilesOrdered, Stored
<1>7. primary = None => Stored.revision = 0 /\ Stored.edition = 0
  BY DEF Stored, EmptyState
<1>8. Stored.edition <= editions
  BY <1>1, <1>5, <1>7 DEF StoreInv, EditionsCounted, Stored, Readable, LoadFails
<1>9. editions <= editions' /\ document.edition <= editions' /\ Stored.edition <= editions'
  BY <1>1, <1>5, <1>8 DEF WriteFiles, Larger
<1>10. FilesOrdered'
  BY <1>2, <1>3, <1>5, <1>6, <1>8 DEF FilesOrdered, BackupOneBehind, WellNumbered, Readable
<1>11. ASSUME NEW copy \in Document, Behind(copy)
       PROVE  Behind(copy)'
  <2>1. copy.revision \in Nat /\ copy.edition \in Nat
    BY DEF Document
  <2>2. /\ copy.revision <= Stored.revision
        /\ copy.revision = Stored.revision => copy.edition = Stored.edition
    BY <1>11 DEF Behind
  <2>3. /\ copy.revision <= document.revision
        /\ copy.revision = document.revision => copy.edition = document.edition
    BY <2>1, <2>2, <1>5, <1>7 DEF WellNumbered
  <2>4. QED
    BY <1>3, <1>6, <2>2, <2>3 DEF Behind
<1>12. Behind(document)'
  BY <1>3, <1>5, <1>6, <1>7, <1>10 DEF Behind, FilesOrdered, WellNumbered, Readable
<1>13. QED
  BY <1>3, <1>6, <1>9, <1>10, <1>11, <1>12

LEMMA InterruptedKeeps ==
    ASSUME StoreInv, ~LoadFails, Interrupted
    PROVE  /\ FilesOrdered'
           /\ editions' = editions
           /\ Readable(primary') => primary'.edition <= editions'
           /\ Readable(backup') => backup'.edition <= editions'
           /\ ~LoadFails' => Stored' = Stored
           /\ \A copy \in Document : Behind(copy) => Behind(copy)'
<1> USE SentinelAssumption, StoreAssumption
<1>1. /\ primary \in Document \union {None, Corrupt}
      /\ backup \in Document \union {None, Corrupt}
      /\ editions \in Nat
  BY DEF StoreInv, TypeOK
<1>2. primary' = primary /\ editions' = editions /\ backup' \in {backup, PreviousFile}
  BY DEF Interrupted
<1>3. backup' = backup \/ (backup' = primary /\ primary # None)
  BY <1>2 DEF PreviousFile
<1>4. CASE backup' = backup
  <2>1. (LoadFails' <=> LoadFails) /\ Stored' = Stored
    BY <1>2, <1>4 DEF LoadFails, Stored, Readable, EmptyState
  <2>2. QED
    BY <1>2, <1>4, <2>1 DEF StoreInv, EditionsCounted, FilesOrdered, BackupOneBehind, Behind, Readable
<1>5. CASE backup' = primary /\ primary # None
  <2>1. ~LoadFails' => primary # Corrupt /\ Stored' = Stored /\ Stored = primary
    BY <1>2, <1>5 DEF LoadFails, Stored, Readable
  <2>2. FilesOrdered'
    BY <1>1, <1>2, <1>5 DEF FilesOrdered, BackupOneBehind, Readable, Document
  <2>3. ASSUME NEW copy \in Document, Behind(copy)
        PROVE  Behind(copy)'
    <3>1. /\ copy.revision <= Stored.revision
          /\ copy.revision = Stored.revision => copy.edition = Stored.edition
      BY <2>3 DEF Behind
    <3>2. Readable(backup') => Stored = primary
      BY <1>5 DEF Readable, Stored
    <3>3. QED
      BY <1>5, <2>1, <3>1, <3>2 DEF Behind
  <2>4. QED
    BY <1>2, <1>5, <2>1, <2>2, <2>3 DEF StoreInv, EditionsCounted, Readable
<1>6. QED
  BY <1>3, <1>4, <1>5

-------------------------------------------------------------------------------
(* A session's step: it moves its own copy and leaves the others' alone.     *)

(* The files are untouched and s's copy becomes document. *)
LEMMA CopyMoves ==
    ASSUME StoreInv, UNCHANGED <<disk, editions>>, NEW s \in Sessions, NEW document,
           document \in Document => document.edition <= editions /\ (s \notin adrift' => Behind(document)),
           document \in Document \union {None},
           mem' = [mem EXCEPT ![s] = document],
           adrift' = adrift \/ adrift' = adrift \ {s}
    PROVE  EditionsCounted' /\ FilesOrdered' /\ SessionsBehind'
<1> USE SentinelAssumption
<1>1. /\ primary' = primary /\ backup' = backup /\ editions' = editions
      /\ LoadFails' = LoadFails /\ Stored' = Stored
  BY DEF disk, LoadFails, Stored, Readable, EmptyState
<1>2. mem \in [Sessions -> Document \union {None}]
  BY DEF StoreInv, TypeOK
<1>3. EditionsCounted'
  BY <1>1, <1>2 DEF StoreInv, EditionsCounted, Readable, Running
<1>4. FilesOrdered'
  BY <1>1 DEF StoreInv, FilesOrdered, BackupOneBehind, Readable
<1>5. SessionsBehind'
  <2> SUFFICES ASSUME NEW t \in Sessions, t \notin adrift', mem'[t] # None
               PROVE  Behind(mem[t])'
    BY DEF SessionsBehind, Running
  <2>1. Behind(mem[t])' <=> Behind(mem'[t])
    BY <1>1 DEF Behind, Readable
  <2>2. CASE t = s
    BY <1>2, <2>1, <2>2
  <2>3. CASE t # s
    BY <1>2, <2>1, <2>3 DEF StoreInv, SessionsBehind, Running
  <2>4. QED
    BY <2>2, <2>3
<1>6. QED
  BY <1>3, <1>4, <1>5

(* The files are written or a write is interrupted, and every copy stays     *)
(* where it was, goes away, is renumbered as the file, or is set adrift.     *)
LEMMA CopiesFollow ==
    ASSUME StoreInv, TypeOK', FilesOrdered',
           Readable(primary') => primary'.edition <= editions',
           Readable(backup') => backup'.edition <= editions',
           editions <= editions',
           \A copy \in Document : Behind(copy) => Behind(copy)',
           \A t \in Sessions : mem'[t] # None =>
              \/ mem'[t] = mem[t] /\ (t \notin adrift' => t \notin adrift)
              \/ /\ mem'[t].edition <= editions'
                 /\ t \notin adrift' => Behind(mem[t])'
    PROVE  EditionsCounted' /\ FilesOrdered' /\ SessionsBehind'
<1>1. /\ mem \in [Sessions -> Document \union {None}]
      /\ mem' \in [Sessions -> Document \union {None}]
      /\ editions \in Nat /\ editions' \in Nat
  BY StoreAssumption DEF StoreInv, TypeOK
<1>2. ASSUME NEW t \in Sessions, mem'[t] # None
      PROVE  mem'[t].edition <= editions'
  BY <1>1, <1>2 DEF StoreInv, EditionsCounted, Running, Document
<1>3. ASSUME NEW t \in Sessions, t \notin adrift', mem'[t] # None
      PROVE  Behind(mem[t])'
  <2>1. CASE mem'[t] = mem[t] /\ t \notin adrift
    <3>1. Behind(mem[t]) /\ mem[t] \in Document
      BY <1>1, <1>3, <2>1 DEF StoreInv, SessionsBehind, Running
    <3>2. PICK copy \in Document : copy = mem[t] /\ Behind(copy)
      BY <3>1
    <3>3. Behind(copy)'
      BY <3>2
    <3>4. QED
      BY <2>1, <3>2, <3>3 DEF Behind
  <2>2. QED
    BY <1>3, <2>1
<1>4. QED
  BY <1>2, <1>3 DEF EditionsCounted, SessionsBehind, Running

-------------------------------------------------------------------------------
(* Each action preserves StoreInv.                                           *)

LEMMA LoadKeeps == ASSUME StoreInv, NEW s \in Sessions, LoadState(s) PROVE StoreInv'
<1> USE SentinelAssumption
<1>1. Stored \in Document
  BY StoredType DEF StoreInv, LoadState
<1>2. TypeOK'
  BY <1>1 DEF StoreInv, TypeOK, LoadState, disk, env
<1>3. Stored.edition <= editions
  BY StoreAssumption DEF StoreInv, EditionsCounted, TypeOK, LoadState, LoadFails, Stored, EmptyState, Readable
<1>4. Behind(Stored)
  BY <1>1 DEF Behind, StoreInv, FilesOrdered, BackupOneBehind, Stored, Readable, Document
<1>5. EditionsCounted' /\ FilesOrdered' /\ SessionsBehind'
  BY <1>1, <1>3, <1>4, CopyMoves DEF LoadState, disk
<1>6. QED
  BY <1>2, <1>5 DEF StoreInv

LEMMA ExitKeeps == ASSUME StoreInv, NEW s \in Sessions, Exit(s) PROVE StoreInv'
<1>1. TypeOK'
  BY DEF StoreInv, TypeOK, Exit, ForgetState, disk, env
<1>2. None \notin Document
  BY SentinelAssumption
<1>3. EditionsCounted' /\ FilesOrdered' /\ SessionsBehind'
  BY <1>2, CopyMoves DEF Exit, ForgetState, disk
<1>4. QED
  BY <1>1, <1>3 DEF StoreInv

(* An edit leaves revision and edition of the copy alone. *)
LEMMA EditKeeps ==
    ASSUME StoreInv, NEW s \in Sessions, NEW state \in Document, Edit(s, state),
           state.revision = mem[s].revision, state.edition = mem[s].edition,
           resets' \in [Sessions -> SUBSET Users], issued' \subseteq Users
    PROVE  StoreInv'
<1>1. TypeOK'
  BY DEF StoreInv, TypeOK, Edit, disk, env
<1>2. mem[s] \in Document /\ Running(s)
  BY DEF StoreInv, TypeOK, Edit, Running
<1>3. state.edition <= editions
  BY <1>2 DEF StoreInv, EditionsCounted
<1>4. s \notin adrift => Behind(state)
  BY <1>2 DEF StoreInv, SessionsBehind, Behind
<1>5. EditionsCounted' /\ FilesOrdered' /\ SessionsBehind'
  BY <1>3, <1>4, CopyMoves DEF Edit, disk
<1>6. QED
  BY <1>1, <1>5 DEF StoreInv

LEMMA EditsKeep ==
    ASSUME StoreInv, NEW s \in Sessions,
           \/ \E config \in Configs : EditConfig(s, config)
           \/ \E u \in Users : AddUser(s, u) \/ RemoveUser(s, u) \/ ResetDevices(s, u)
    PROVE  StoreInv'
<1>1. resets \in [Sessions -> SUBSET Users] /\ issued \subseteq Users
  BY DEF StoreInv, TypeOK
<1>2. Running(s) => mem[s] \in Document
  BY DEF StoreInv, TypeOK, Running
<1>3. ASSUME NEW config \in Configs, EditConfig(s, config)
      PROVE  StoreInv'
  <2> DEFINE state == [mem[s] EXCEPT !.config = config]
  <2>1. /\ state \in Document /\ state.revision = mem[s].revision
        /\ state.edition = mem[s].edition
    BY <1>2, <1>3 DEF EditConfig, Edit, Document
  <2>2. Edit(s, state) /\ resets' = resets /\ issued' = issued
    BY <1>3 DEF EditConfig
  <2> HIDE DEF state
  <2>3. QED
    BY <1>1, <2>1, <2>2, EditKeeps
<1>4. ASSUME NEW u \in Users, AddUser(s, u)
      PROVE  StoreInv'
  <2> DEFINE state == [mem[s] EXCEPT !.users = @ \union {u}, !.traffic[u] = 0, !.devices[u] = {}]
  <2>1. /\ state \in Document /\ state.revision = mem[s].revision
        /\ state.edition = mem[s].edition
    BY <1>2, <1>4 DEF AddUser, Edit, Document
  <2>2. Edit(s, state) /\ resets' = resets /\ issued' \subseteq Users
    BY <1>1, <1>4 DEF AddUser
  <2> HIDE DEF state
  <2>3. QED
    BY <1>1, <2>1, <2>2, EditKeeps
<1>5. ASSUME NEW u \in Users, RemoveUser(s, u)
      PROVE  StoreInv'
  <2> DEFINE state == [mem[s] EXCEPT !.users = @ \ {u}, !.traffic[u] = 0, !.devices[u] = {}]
  <2>1. /\ state \in Document /\ state.revision = mem[s].revision
        /\ state.edition = mem[s].edition
    BY <1>2, <1>5 DEF RemoveUser, Edit, Document
  <2>2. Edit(s, state) /\ resets' = resets /\ issued' = issued
    BY <1>5 DEF RemoveUser
  <2> HIDE DEF state
  <2>3. QED
    BY <1>1, <2>1, <2>2, EditKeeps
<1>6. ASSUME NEW u \in Users, ResetDevices(s, u)
      PROVE  StoreInv'
  <2> DEFINE state == [mem[s] EXCEPT !.devices[u] = {}]
  <2>1. /\ state \in Document /\ state.revision = mem[s].revision
        /\ state.edition = mem[s].edition
    BY <1>2, <1>6 DEF ResetDevices, Edit, Document
  <2>2. Edit(s, state) /\ resets' \in [Sessions -> SUBSET Users] /\ issued' = issued
    BY <1>1, <1>6 DEF ResetDevices
  <2> HIDE DEF state
  <2>3. QED
    BY <1>1, <2>1, <2>2, EditKeeps
<1>7. QED
  BY <1>3, <1>4, <1>5, <1>6

(* The document a save or a rollback writes. *)
LEMMA NumberedWell ==
    ASSUME StoreInv, ~LoadFails, NEW state \in Document, CanWrite(state)
    PROVE  /\ WellNumbered(Numbered(state))
           /\ Numbered(state) \in Document
           /\ Numbered(state).edition \in 0..MaxEditions
<1>1. /\ Stored \in Document /\ Stored.edition <= editions
      /\ state.revision \in Nat /\ editions \in 0..MaxEditions
  BY StoredType, StoreAssumption
     DEF StoreInv, EditionsCounted, TypeOK, LoadFails, Stored, EmptyState, Readable, Document
<1>2. Stored.revision \in Nat /\ Stored.edition \in Nat
  BY <1>1 DEF Document
<1>3. primary = None => Changes(state)
  BY DEF Changes
<1>4. QED
  <2>1. CASE Changes(state)
    BY <2>1, <1>1, <1>2, NumberedType, StoreAssumption
       DEF StoreInv, WellNumbered, CanWrite, Larger
  <2>2. CASE ~Changes(state)
    BY <2>2, <1>1, <1>2, <1>3, NumberedType, StoreAssumption DEF StoreInv, WellNumbered
  <2>3. QED
    BY <2>1, <2>2

(* The variables a complete write moves stay well typed. *)
LEMMA WriteType ==
    ASSUME StoreInv, ~LoadFails, NEW document \in Document,
           document.edition \in 0..MaxEditions, WriteFiles(document)
    PROVE  /\ primary' \in Document \union {None, Corrupt}
           /\ backup' \in Document \union {None, Corrupt}
           /\ editions' \in 0..MaxEditions
           /\ disowned' \subseteq Users
           /\ issued' = issued /\ faults' = faults /\ damage' = damage
<1>1. Stored.users \subseteq Users
  BY StoredType DEF StoreInv, Document
<1>2. QED
  BY <1>1, StoreAssumption DEF StoreInv, TypeOK, WriteFiles, PreviousFile, Larger, env

LEMMA InterruptedType ==
    ASSUME StoreInv, Interrupted
    PROVE  /\ primary' \in Document \union {None, Corrupt}
           /\ backup' \in Document \union {None, Corrupt}
           /\ faults' \in 0..MaxFaults
           /\ editions' = editions /\ issued' = issued /\ disowned' = disowned
           /\ damage' = damage
BY StoreAssumption DEF StoreInv, TypeOK, Interrupted, PreviousFile

LEMMA AcceptedKeeps == ASSUME StoreInv, NEW s \in Sessions, SaveAccepted(s) PROVE StoreInv'
<1>1. /\ Numbered(Merged(s)) \in Document /\ WellNumbered(Numbered(Merged(s)))
      /\ Numbered(Merged(s)).edition \in 0..MaxEditions
  BY MergedType, NumberedWell DEF SaveAccepted, SaveBegins, StoreInv
<1>2. PICK document \in Document :
        /\ WellNumbered(document) /\ document.edition \in 0..MaxEditions
        /\ ~LoadFails /\ Running(s) /\ WriteFiles(document)
        /\ mem' = [mem EXCEPT ![s] = document] /\ adrift' = adrift \ {s}
  BY <1>1 DEF SaveAccepted, SaveBegins
<1>3. mem \in [Sessions -> Document \union {None}] /\ resets \in [Sessions -> SUBSET Users]
  BY DEF StoreInv, TypeOK
<1>4. TypeOK'
  BY <1>2, <1>3, WriteType DEF StoreInv, TypeOK, SaveAccepted, SaveBegins
<1>5. \A t \in Sessions : mem'[t] # None =>
        \/ mem'[t] = mem[t] /\ (t \notin adrift' => t \notin adrift)
        \/ mem'[t].edition <= editions' /\ (t \notin adrift' => Behind(mem[t])')
  <2> SUFFICES ASSUME NEW t \in Sessions
               PROVE  \/ mem'[t] = mem[t] /\ (t \notin adrift' => t \notin adrift)
                      \/ mem'[t].edition <= editions' /\ (t \notin adrift' => Behind(mem[t])')
    OBVIOUS
  <2>1. CASE t # s
    BY <1>2, <1>3, <2>1
  <2>2. CASE t = s
    <3>1. mem'[t] = document
      BY <1>2, <1>3, <2>2
    <3>2. Behind(document)' /\ document.edition <= editions'
      BY <1>2, WriteKeeps
    <3>3. QED
      BY <3>1, <3>2 DEF Behind
  <2>3. QED
    BY <2>1, <2>2
<1>6. EditionsCounted' /\ FilesOrdered' /\ SessionsBehind'
  BY <1>2, <1>4, <1>5, WriteKeeps, CopiesFollow DEF WriteFiles
<1>7. QED
  BY <1>4, <1>6 DEF StoreInv

LEMMA RejectedKeeps == ASSUME StoreInv, NEW s \in Sessions, SaveRejected(s) PROVE StoreInv'
<1>1. /\ ~LoadFails /\ Running(s) /\ UNCHANGED <<disk, history, env>>
      /\ mem' = [mem EXCEPT ![s] = Merged(s)]
  BY DEF SaveRejected, SaveBegins
<1>2. /\ Merged(s) \in Document /\ Merged(s).revision = mem[s].revision
      /\ Merged(s).edition = mem[s].edition
  BY <1>1, MergedType DEF StoreInv
<1>3. TypeOK'
  BY <1>1, <1>2 DEF StoreInv, TypeOK, SaveRejected, SaveBegins, disk, history, env
<1>4. Merged(s).edition <= editions /\ (s \notin adrift' => Behind(Merged(s)))
  BY <1>1, <1>2 DEF StoreInv, EditionsCounted, SessionsBehind, Behind, history
<1>5. EditionsCounted' /\ FilesOrdered' /\ SessionsBehind'
  BY <1>1, <1>2, <1>4, CopyMoves DEF disk, history
<1>6. QED
  BY <1>3, <1>5 DEF StoreInv

LEMMA UnreadableKeeps == ASSUME StoreInv, NEW s \in Sessions, SaveUnreadable(s) PROVE StoreInv'
<1>1. UNCHANGED <<disk, mem, history, env>> /\ LoadFails' = LoadFails /\ Stored' = Stored
  BY DEF SaveUnreadable, disk, LoadFails, Stored, Readable, EmptyState
<1>2. TypeOK'
  BY DEF StoreInv, TypeOK, SaveUnreadable, SaveBegins, disk, history, env
<1>3. EditionsCounted' /\ FilesOrdered' /\ SessionsBehind'
  BY <1>1 DEF StoreInv, EditionsCounted, FilesOrdered, BackupOneBehind, SessionsBehind, Behind,
              Running, Readable, disk, history
<1>4. QED
  BY <1>2, <1>3 DEF StoreInv

(* A copy numbered as the stored state is behind it. *)
LEMMA StoredBehind ==
    ASSUME StoreInv, ~LoadFails, NEW copy \in Document,
           copy.revision = Stored.revision, copy.edition = Stored.edition
    PROVE  Behind(copy) /\ copy.edition <= editions
<1>1. Stored \in Document
  BY StoredType DEF StoreInv
<1>2. Stored.edition <= editions
  BY StoreAssumption DEF StoreInv, EditionsCounted, TypeOK, LoadFails, Stored, EmptyState, Readable
<1>3. Behind(copy)
  BY <1>1 DEF Behind, StoreInv, FilesOrdered, BackupOneBehind, Stored, Readable, Document
<1>4. QED
  BY <1>2, <1>3

(* An interrupted write, after which s holds copy and nobody else moved. *)
LEMMA InterruptedCopies ==
    ASSUME StoreInv, ~LoadFails, Interrupted, TypeOK', NEW s \in Sessions,
           \A t \in Sessions : t # s /\ t \notin adrift' => t \notin adrift,
           \A t \in Sessions : t # s => mem'[t] = mem[t],
           \/ mem'[s] = None
           \/ \E copy \in Document : /\ mem'[s] = copy
                                     /\ copy.edition <= editions
                                     /\ s \notin adrift' => Behind(copy)
    PROVE  EditionsCounted' /\ FilesOrdered' /\ SessionsBehind'
<1>1. /\ FilesOrdered' /\ editions' = editions
      /\ Readable(primary') => primary'.edition <= editions'
      /\ Readable(backup') => backup'.edition <= editions'
      /\ \A copy \in Document : Behind(copy) => Behind(copy)'
  BY InterruptedKeeps
<1>2. None \notin Document /\ editions \in Nat
  BY SentinelAssumption, StoreAssumption DEF StoreInv, TypeOK
<1>3. \A t \in Sessions : mem'[t] # None =>
        \/ mem'[t] = mem[t] /\ (t \notin adrift' => t \notin adrift)
        \/ mem'[t].edition <= editions' /\ (t \notin adrift' => Behind(mem[t])')
  <2> SUFFICES ASSUME NEW t \in Sessions, mem'[t] # None, t = s
               PROVE  mem'[t].edition <= editions' /\ (t \notin adrift' => Behind(mem[t])')
    OBVIOUS
  <2>1. PICK copy \in Document : /\ mem'[s] = copy
                                 /\ copy.edition <= editions
                                 /\ s \notin adrift' => Behind(copy)
    OBVIOUS
  <2>2. s \notin adrift' => Behind(copy)'
    BY <1>1, <2>1
  <2>3. QED
    BY <1>1, <2>1, <2>2 DEF Behind
<1>4. QED
  BY <1>1, <1>2, <1>3, CopiesFollow

LEMMA FailsKeeps == ASSUME StoreInv, NEW s \in Sessions, SaveFails(s) PROVE StoreInv'
<1> DEFINE merged == Merged(s)
           failed == [Numbered(merged) EXCEPT
                        !.edition = IF Changes(merged) THEN mem[s].edition ELSE @]
<1>1. /\ ~LoadFails /\ Running(s) /\ Interrupted
      /\ mem' = [mem EXCEPT ![s] = failed]
      /\ adrift' = IF Changes(merged) THEN adrift \union {s} ELSE adrift \ {s}
      /\ CanWrite(merged) /\ UNCHANGED snapshot
      /\ resets' = [resets EXCEPT ![s] = {}]
  BY DEF SaveFails, SaveBegins
<1>2. merged \in Document /\ Numbered(merged) \in Document /\ mem[s] \in Document
  BY <1>1, MergedType, NumberedWell DEF StoreInv, TypeOK, Running
<1>3. /\ failed \in Document
      /\ Changes(merged) => failed.edition = mem[s].edition
      /\ ~Changes(merged) => failed.revision = Stored.revision /\ failed.edition = Stored.edition
  <2>1. CASE Changes(merged)
    <3>1. failed = [Numbered(merged) EXCEPT !.edition = mem[s].edition]
      BY <2>1
    <3> HIDE DEF failed
    <3>2. QED
      BY <1>2, <2>1, <3>1 DEF Document
  <2>2. CASE ~Changes(merged)
    <3>1. failed = Numbered(merged)
      BY <1>2, <2>2 DEF Document
    <3>2. primary # None
      BY <2>2 DEF Changes
    <3> HIDE DEF failed
    <3>3. QED
      BY <1>1, <1>2, <2>2, <3>1, <3>2, NumberedType DEF StoreInv
  <2>3. QED
    BY <2>1, <2>2
<1> HIDE DEF failed, merged
<1>4. mem \in [Sessions -> Document \union {None}] /\ resets \in [Sessions -> SUBSET Users]
  BY DEF StoreInv, TypeOK
<1>5. TypeOK'
  BY <1>1, <1>3, <1>4, InterruptedType DEF StoreInv, TypeOK
<1>6. failed.edition <= editions /\ (s \notin adrift' => Behind(failed))
  <2>1. CASE Changes(merged)
    BY <1>1, <1>3, <2>1 DEF StoreInv, EditionsCounted
  <2>2. CASE ~Changes(merged)
    BY <1>1, <1>3, <2>2, StoredBehind
  <2>3. QED
    BY <2>1, <2>2
<1>7. mem'[s] = failed /\ \A t \in Sessions : t # s => mem'[t] = mem[t]
  BY <1>1, <1>4
<1>8. EditionsCounted' /\ FilesOrdered' /\ SessionsBehind'
  BY <1>1, <1>3, <1>5, <1>6, <1>7, InterruptedCopies
<1>9. QED
  BY <1>5, <1>8 DEF StoreInv

LEMMA CrashesKeep == ASSUME StoreInv, NEW s \in Sessions, SaveCrashes(s) PROVE StoreInv'
<1>1. /\ ~LoadFails /\ Interrupted /\ mem' = [mem EXCEPT ![s] = None]
      /\ adrift' = adrift \ {s}
  BY DEF SaveCrashes, ForgetState
<1>2. TypeOK'
  BY InterruptedType DEF StoreInv, TypeOK, SaveCrashes, ForgetState
<1>3. mem'[s] = None /\ \A t \in Sessions : t # s => mem'[t] = mem[t]
  BY <1>1 DEF StoreInv, TypeOK
<1>4. EditionsCounted' /\ FilesOrdered' /\ SessionsBehind'
  BY <1>1, <1>2, <1>3, InterruptedCopies
<1>5. QED
  BY <1>2, <1>4 DEF StoreInv

LEMMA UpdateKeeps ==
    ASSUME StoreInv, NEW mutated \in Document, UpdateState(mutated),
           mutated.revision = Stored.revision, mutated.edition = Stored.edition
    PROVE  StoreInv'
<1>1. ~LoadFails /\ UNCHANGED <<mem, resets, snapshot, adrift>>
  BY DEF UpdateState
<1>2. mem \in [Sessions -> Document \union {None}] /\ editions \in Nat /\ Stored \in Document
  BY <1>1, StoreAssumption, StoredType DEF StoreInv, TypeOK
<1>3. CASE Interrupted
  <2>1. TypeOK'
    BY <1>1, <1>3, InterruptedType DEF StoreInv, TypeOK
  <2>2. \A t \in Sessions : mem'[t] = mem[t] /\ (t \notin adrift' => t \notin adrift)
    BY <1>1
  <2>3. editions <= editions'
    BY <1>1, <1>2, <1>3, InterruptedKeeps
  <2>4. EditionsCounted' /\ FilesOrdered' /\ SessionsBehind'
    BY <1>1, <1>3, <2>1, <2>2, <2>3, InterruptedKeeps, CopiesFollow
  <2>5. QED
    BY <2>1, <2>4 DEF StoreInv
<1>4. CASE \E document \in Document :
             /\ WellNumbered(document) /\ document.edition \in 0..MaxEditions
             /\ WriteFiles(document)
  <2>1. PICK document \in Document :
          /\ WellNumbered(document) /\ document.edition \in 0..MaxEditions
          /\ WriteFiles(document)
    BY <1>4
  <2>2. TypeOK'
    BY <1>1, <2>1, WriteType DEF StoreInv, TypeOK
  <2>3. \A t \in Sessions : mem'[t] = mem[t] /\ (t \notin adrift' => t \notin adrift)
    BY <1>1
  <2>4. Readable(primary') => primary'.edition <= editions'
    BY <1>1, <2>1, WriteKeeps DEF WriteFiles
  <2>5. EditionsCounted' /\ FilesOrdered' /\ SessionsBehind'
    BY <1>1, <2>1, <2>2, <2>3, <2>4, WriteKeeps, CopiesFollow
  <2>6. QED
    BY <2>2, <2>5 DEF StoreInv
<1>5. Interrupted \/ \E document \in Document :
             /\ WellNumbered(document) /\ document.edition \in 0..MaxEditions
             /\ WriteFiles(document)
  <2>1. Stored.edition <= editions /\ editions \in 0..MaxEditions
    BY <1>1, <1>2, StoredBehind DEF StoreInv, TypeOK
  <2> DEFINE changes == Desired(mutated) # Desired(Stored)
             document == [mutated EXCEPT
                 !.revision = IF changes THEN Stored.revision + 1 ELSE @,
                 !.edition = IF changes THEN editions + 1 ELSE @]
  <2>2. SUFFICES ASSUME WriteFiles(document), changes => editions < MaxEditions
                 PROVE  /\ document \in Document /\ WellNumbered(document)
                        /\ document.edition \in 0..MaxEditions
    BY DEF UpdateState
  <2>3. Stored.revision \in Nat /\ Stored.edition \in Nat
    BY <1>2 DEF Document
  <2>4. CASE changes
    <3>1. document = [mutated EXCEPT !.revision = Stored.revision + 1, !.edition = editions + 1]
      BY <2>4
    <3>2. PICK revision \in Nat, edition \in Nat :
            revision = Stored.revision + 1 /\ edition = editions + 1
      BY <1>2, <2>3
    <3>3. document = [mutated EXCEPT !.revision = revision, !.edition = edition]
      BY <3>1, <3>2
    <3> HIDE DEF document
    <3>4. document \in Document /\ document.revision = revision /\ document.edition = edition
      BY <3>3 DEF Document
    <3>5. QED
      BY <1>2, <2>1, <2>2, <2>4, <3>2, <3>4, StoreAssumption DEF WellNumbered
  <2>5. CASE ~changes
    <3>1. document = mutated
      BY <2>5 DEF Document
    <3> HIDE DEF document
    <3>2. QED
      BY <2>1, <2>3, <3>1, StoreAssumption DEF WellNumbered
  <2>6. QED
    BY <2>4, <2>5
<1>6. QED
  BY <1>3, <1>4, <1>5

LEMMA BackgroundKeeps == ASSUME StoreInv, BackgroundStep PROVE StoreInv'
<1>1. ~LoadFails => Stored \in Document
  BY StoredType DEF StoreInv
<1>2. ASSUME NEW u \in Users, CountTraffic(u)
      PROVE  StoreInv'
  <2> DEFINE mutated == [Stored EXCEPT !.traffic[u] = @ + 1]
  <2>1. /\ mutated \in Document /\ mutated.revision = Stored.revision
        /\ mutated.edition = Stored.edition
    BY <1>1, <1>2 DEF CountTraffic, Document
  <2>2. UpdateState(mutated)
    BY <1>2 DEF CountTraffic
  <2> HIDE DEF mutated
  <2>3. QED
    BY <2>1, <2>2, UpdateKeeps
<1>3. ASSUME NEW u \in Users, ResetTraffic(u)
      PROVE  StoreInv'
  <2> DEFINE mutated == [Stored EXCEPT !.traffic[u] = 0, !.resetEpochs = @ \union {u}]
  <2>1. /\ mutated \in Document /\ mutated.revision = Stored.revision
        /\ mutated.edition = Stored.edition
    BY <1>1, <1>3 DEF ResetTraffic, Document
  <2>2. UpdateState(mutated)
    BY <1>3 DEF ResetTraffic
  <2> HIDE DEF mutated
  <2>3. QED
    BY <2>1, <2>2, UpdateKeeps
<1>4. ASSUME NEW u \in Users, NEW d \in Devices, RegisterDevice(u, d)
      PROVE  StoreInv'
  <2> DEFINE mutated == [Stored EXCEPT !.devices[u] = @ \union {d}]
  <2>1. /\ mutated \in Document /\ mutated.revision = Stored.revision
        /\ mutated.edition = Stored.edition
    BY <1>1, <1>4 DEF RegisterDevice, Document
  <2>2. UpdateState(mutated)
    BY <1>4 DEF RegisterDevice
  <2> HIDE DEF mutated
  <2>3. QED
    BY <2>1, <2>2, UpdateKeeps
<1>5. ASSUME NEW config \in Configs, UpdateConfig(config)
      PROVE  StoreInv'
  <2> DEFINE mutated == [Stored EXCEPT !.config = config]
  <2>1. /\ mutated \in Document /\ mutated.revision = Stored.revision
        /\ mutated.edition = Stored.edition
    BY <1>1, <1>5 DEF UpdateConfig, Document
  <2>2. UpdateState(mutated)
    BY <1>5 DEF UpdateConfig
  <2> HIDE DEF mutated
  <2>3. QED
    BY <2>1, <2>2, UpdateKeeps
<1>6. QED
  BY <1>2, <1>3, <1>4, <1>5 DEF BackgroundStep

LEMMA CommandKeeps ==
    ASSUME StoreInv, NEW s \in Sessions, BeginCommand(s) \/ CommandSucceeds(s)
    PROVE  StoreInv'
<1>1. UNCHANGED <<disk, mem, history>> /\ LoadFails' = LoadFails /\ Stored' = Stored
  BY DEF BeginCommand, CommandSucceeds, disk, history, LoadFails, Stored, Readable, EmptyState
<1>2. TypeOK'
  BY DEF StoreInv, TypeOK, BeginCommand, CommandSucceeds, disk, history, env
<1>3. EditionsCounted' /\ FilesOrdered' /\ SessionsBehind'
  BY <1>1 DEF StoreInv, EditionsCounted, FilesOrdered, BackupOneBehind, SessionsBehind, Behind,
              Running, Readable, disk, history
<1>4. QED
  BY <1>2, <1>3 DEF StoreInv

(* The document a rollback writes is numbered like a save of its content. *)
LEMMA RestoredWell ==
    ASSUME StoreInv, ~LoadFails, NEW s \in Sessions, Running(s), snapshot[s] # None,
           CanWrite(RestoredInPlace(s))
    PROVE  /\ Restored(s) \in Document
           /\ WellNumbered(Restored(s))
           /\ Restored(s).edition \in 0..MaxEditions
<1>1. RestoredInPlace(s) \in Document
  BY RestoredInPlaceType DEF StoreInv
<1>2. CASE primary = None
  BY <1>1, <1>2, NumberedWell DEF Restored
<1>3. CASE primary # None
  <2> DEFINE merged == Merge(RestoredInPlace(s), Stored, {})
             state == [merged EXCEPT !.revision = Stored.revision]
  <2>1. Stored \in Document
    BY StoredType DEF StoreInv
  <2>2. merged \in Document /\ Desired(merged) = Desired(RestoredInPlace(s))
    BY <1>1, <2>1, MergeType DEF Desired
  <2> HIDE DEF merged
  <2>3. state \in Document /\ Desired(state) = Desired(merged)
    BY <2>1, <2>2 DEF Document, Desired
  <2>4. CanWrite(state)
    BY <2>2, <2>3 DEF CanWrite, Changes
  <2>5. Restored(s) = Numbered(state)
    BY <1>3 DEF Restored, merged
  <2> HIDE DEF state
  <2>6. QED
    BY <2>3, <2>4, <2>5, NumberedWell
<1>4. QED
  BY <1>2, <1>3

LEMMA RollBackKeeps == ASSUME StoreInv, NEW s \in Sessions, RollBackCommand(s) PROVE StoreInv'
<1>1. /\ mem \in [Sessions -> Document \union {None}] /\ resets \in [Sessions -> SUBSET Users]
      /\ Running(s) /\ snapshot[s] # None /\ mem[s] \in Document
  BY DEF StoreInv, TypeOK, RollBackCommand, Running
<1>2. /\ RestoredInPlace(s) \in Document
      /\ RestoredInPlace(s).revision = mem[s].revision
      /\ RestoredInPlace(s).edition = mem[s].edition
  BY <1>1, RestoredInPlaceType DEF StoreInv
<1>3. /\ RestoredInPlace(s).edition <= editions
      /\ s \notin adrift => Behind(RestoredInPlace(s))
  BY <1>1, <1>2 DEF StoreInv, EditionsCounted, SessionsBehind, Behind
<1>4. CASE /\ ~LoadFails
           /\ CanWrite(RestoredInPlace(s))
           /\ WriteFiles(Restored(s))
           /\ mem' = [mem EXCEPT ![s] = [RestoredInPlace(s) EXCEPT
                        !.revision = Restored(s).revision, !.edition = Restored(s).edition]]
           /\ adrift' = adrift \ {s}
  <2>1. PICK document \in Document :
          /\ document = Restored(s) /\ WellNumbered(document)
          /\ document.edition \in 0..MaxEditions /\ WriteFiles(document)
    BY <1>1, <1>4, RestoredWell
  <2>2. PICK copy \in Document :
          /\ mem' = [mem EXCEPT ![s] = copy]
          /\ copy.revision = document.revision /\ copy.edition = document.edition
    <3>1. document.revision \in Nat /\ document.edition \in Nat
      BY DEF Document
    <3> DEFINE copy == [RestoredInPlace(s) EXCEPT !.revision = document.revision,
                                                  !.edition = document.edition]
    <3>2. /\ copy \in Document /\ copy.revision = document.revision
          /\ copy.edition = document.edition
      BY <1>2, <3>1 DEF Document
    <3>3. mem' = [mem EXCEPT ![s] = copy]
      BY <1>4, <2>1
    <3> HIDE DEF copy
    <3>4. QED
      BY <3>2, <3>3
  <2>3. TypeOK'
    BY <1>1, <1>4, <2>1, <2>2, WriteType DEF StoreInv, TypeOK, RollBackCommand
  <2>4. Behind(copy)' /\ copy.edition <= editions'
    BY <1>4, <2>1, <2>2, WriteKeeps DEF Behind
  <2>5. \A t \in Sessions : mem'[t] # None =>
          \/ mem'[t] = mem[t] /\ (t \notin adrift' => t \notin adrift)
          \/ mem'[t].edition <= editions' /\ (t \notin adrift' => Behind(mem[t])')
    <3>1. mem'[s] = copy /\ \A t \in Sessions : t # s => mem'[t] = mem[t]
      BY <1>1, <2>2
    <3>2. Behind(mem[s])'
      BY <2>4, <3>1 DEF Behind
    <3>3. QED
      BY <1>4, <2>4, <3>1, <3>2
  <2>6. EditionsCounted' /\ FilesOrdered' /\ SessionsBehind'
    BY <1>4, <2>1, <2>3, <2>5, WriteKeeps, CopiesFollow DEF WriteFiles
  <2>7. QED
    BY <2>3, <2>6 DEF StoreInv
<1>5. CASE /\ ~LoadFails
           /\ Interrupted
           /\ mem' = [mem EXCEPT ![s] = RestoredInPlace(s)]
           /\ UNCHANGED adrift
  <2>1. TypeOK'
    BY <1>1, <1>2, <1>5, InterruptedType DEF StoreInv, TypeOK, RollBackCommand
  <2>2. mem'[s] = RestoredInPlace(s) /\ \A t \in Sessions : t # s => mem'[t] = mem[t]
    BY <1>1, <1>5
  <2>3. EditionsCounted' /\ FilesOrdered' /\ SessionsBehind'
    BY <1>2, <1>3, <1>5, <2>1, <2>2, InterruptedCopies
  <2>4. QED
    BY <2>1, <2>3 DEF StoreInv
<1>6. CASE /\ LoadFails
           /\ mem' = [mem EXCEPT ![s] = RestoredInPlace(s)]
           /\ UNCHANGED <<disk, history, env>>
  <2>1. TypeOK'
    BY <1>1, <1>2, <1>6 DEF StoreInv, TypeOK, RollBackCommand, disk, history, env
  <2>2. EditionsCounted' /\ FilesOrdered' /\ SessionsBehind'
    BY <1>2, <1>3, <1>6, CopyMoves DEF disk, history
  <2>3. QED
    BY <2>1, <2>2 DEF StoreInv
<1>7. QED
  BY <1>4, <1>5, <1>6 DEF RollBackCommand

LEMMA DamageKeeps == ASSUME StoreInv, Damage PROVE StoreInv'
<1> USE SentinelAssumption, StoreAssumption
<1>1. /\ primary' = Corrupt /\ backup' = backup /\ mem' = mem /\ editions' = editions
      /\ Readable(primary) /\ ~LoadFails
  BY DEF Damage, LoadFails, Readable
<1>2. TypeOK'
  BY DEF StoreInv, TypeOK, Damage
<1>3. EditionsCounted' /\ FilesOrdered'
  BY <1>1 DEF StoreInv, EditionsCounted, FilesOrdered, BackupOneBehind, Readable, Running
<1>4. SessionsBehind'
  <2> SUFFICES ASSUME NEW t \in Sessions, t \notin adrift', mem'[t] # None
               PROVE  Behind(mem[t])'
    BY DEF SessionsBehind, Running
  <2>1. Running(t) /\ mem[t] \in Document /\ Behind(mem[t])
    BY <1>1 DEF StoreInv, TypeOK, SessionsBehind, Running, Damage
  <2>2. ~LoadFails' => Readable(backup) /\ Stored' = backup
    BY <1>1 DEF LoadFails, Stored, Readable
  <2>3. Readable(backup) => mem[t].revision <= backup.revision
    <3>1. Readable(backup) => backup \in Document
      BY DEF StoreInv, TypeOK, Readable
    <3>2. QED
      BY <2>1, <3>1 DEF Damage, Document
  <2>4. QED
    BY <1>1, <2>1, <2>2, <2>3 DEF Behind, Readable
<1>5. QED
  BY <1>2, <1>3, <1>4 DEF StoreInv

-------------------------------------------------------------------------------
(* The theorems.                                                             *)

LEMMA InitInv == Init => StoreInv
<1> USE SentinelAssumption, StoreAssumption
<1>1. Init => TypeOK
  BY DEF Init, TypeOK
<1>2. Init => EditionsCounted /\ FilesOrdered /\ SessionsBehind
  BY DEF Init, EditionsCounted, FilesOrdered, BackupOneBehind, SessionsBehind, Readable, Running
<1>3. QED
  BY <1>1, <1>2 DEF StoreInv

LEMMA StoreInvInductive == StoreInv /\ [Next]_vars => StoreInv'
<1> SUFFICES ASSUME StoreInv, [Next]_vars PROVE StoreInv'
  OBVIOUS
<1>1. CASE UNCHANGED vars
  <2>1. /\ UNCHANGED <<primary, backup, mem, resets, snapshot, adrift, editions, issued,
                   disowned, faults, damage>>
        /\ LoadFails' = LoadFails /\ Stored' = Stored
    BY <1>1 DEF vars, LoadFails, Stored, Readable, EmptyState
  <2>2. QED
    BY <2>1 DEF StoreInv, TypeOK, EditionsCounted, FilesOrdered, BackupOneBehind, SessionsBehind,
                Behind, Running, Readable
<1>2. ASSUME NEW s \in Sessions, SessionStep(s)
      PROVE  StoreInv'
  <2>1. CASE LoadState(s)
    BY <2>1, LoadKeeps
  <2>2. CASE Exit(s)
    BY <2>2, ExitKeeps
  <2>3. CASE \/ \E config \in Configs : EditConfig(s, config)
             \/ \E u \in Users : AddUser(s, u) \/ RemoveUser(s, u) \/ ResetDevices(s, u)
    BY <2>3, EditsKeep
  <2>4. CASE SaveState(s)
    BY <2>4, AcceptedKeeps, RejectedKeeps, FailsKeeps, CrashesKeep, UnreadableKeeps DEF SaveState
  <2>5. CASE BeginCommand(s) \/ CommandSucceeds(s)
    BY <2>5, CommandKeeps
  <2>6. CASE RollBackCommand(s)
    BY <2>6, RollBackKeeps
  <2>7. QED
    BY <1>2, <2>1, <2>2, <2>3, <2>4, <2>5, <2>6 DEF SessionStep
<1>3. CASE BackgroundStep
  BY <1>3, BackgroundKeeps
<1>4. CASE Damage
  BY <1>4, DamageKeeps
<1>5. QED
  BY <1>1, <1>2, <1>3, <1>4 DEF Next

THEOREM StoreInvariant == Spec => []StoreInv
BY InitInv, StoreInvInductive, PTL DEF Spec

(* Every document on disk, in a session or in a snapshot is well formed, and *)
(* the fallback in _read_raw_state_unlocked never hands out a damaged file.  *)
THEOREM TypeCorrect == Spec => []TypeOK
<1>1. StoreInv => TypeOK
  BY DEF StoreInv
<1>2. QED
  BY <1>1, StoreInvariant, PTL

(* For a session that is not adrift an equal revision means that it has read *)
(* the stored configuration: comparing revisions in _save_state_unlocked is  *)
(* enough.                                                                   *)
THEOREM RevisionsNameContent == Spec => []RevisionNamesContent
<1>1. StoreInv => RevisionNamesContent
  BY DEF StoreInv, SessionsBehind, Behind, RevisionNamesContent
<1>2. QED
  BY <1>1, StoreInvariant, PTL

(* Falling back to state.json.bak undoes at most the last change.            *)
THEOREM BackupFollows == Spec => []BackupOneBehind
<1>1. StoreInv => BackupOneBehind
  BY DEF StoreInv, FilesOrdered
<1>2. QED
  BY <1>1, StoreInvariant, PTL

-------------------------------------------------------------------------------
(* The step that publishes a session's copy is an accepted save.             *)

LEMMA PublishingIsSaving ==
    ASSUME StoreInv, Next, NEW s \in Sessions, Publishes(s)
    PROVE  SaveAccepted(s) /\ Changes(Merged(s))
<1> USE SentinelAssumption, StoreAssumption
<1>1. /\ mem \in [Sessions -> Document \union {None}] /\ editions \in Nat
      /\ snapshot \in [Sessions -> Document \union {None}]
      /\ mem[s] # None /\ mem[s] \in Document /\ mem[s].edition <= editions
  BY DEF StoreInv, TypeOK, EditionsCounted, Publishes, Running
<1>2. editions' > editions /\ mem'[s] # mem[s] /\ snapshot'[s] = snapshot[s]
  BY <1>1 DEF Publishes, Document
<1>3. ~BackgroundStep /\ ~Damage
  BY <1>2 DEF BackgroundStep, CountTraffic, ResetTraffic, RegisterDevice, UpdateConfig,
              UpdateState, Damage
<1>4. PICK t \in Sessions : SessionStep(t)
  BY <1>3 DEF Next
<1>5. ~(editions' = editions)
  BY <1>1, <1>2
<1>6. SaveAccepted(t) \/ RollBackCommand(t)
  BY <1>4, <1>5 DEF SessionStep, SaveState, LoadState, Exit, EditConfig, AddUser, RemoveUser,
              ResetDevices, Edit, SaveRejected, SaveFails, SaveCrashes, SaveUnreadable,
              Interrupted, BeginCommand, CommandSucceeds, history, disk
<1>7. t = s
  BY <1>1, <1>2, <1>6 DEF SaveAccepted, RollBackCommand, WriteFiles, Interrupted, history
<1>8. SaveAccepted(s)
  BY <1>1, <1>2, <1>6, <1>7 DEF RollBackCommand
<1>9. Changes(Merged(s))
  <2> SUFFICES ASSUME ~Changes(Merged(s)) PROVE FALSE
    OBVIOUS
  <2>1. Merged(s) \in Document /\ ~LoadFails /\ primary # None /\ editions' = Larger(editions, Numbered(Merged(s)).edition)
    BY <1>8, MergedType DEF StoreInv, SaveAccepted, SaveBegins, WriteFiles, Changes
  <2>2. Numbered(Merged(s)).edition = Stored.edition
    BY <2>1, NumberedType DEF StoreInv
  <2>3. Stored.edition <= editions
    BY <2>1, StoredType, StoredBehind DEF StoreInv
  <2>4. Stored.edition \in Nat
    BY <2>1, StoredType DEF StoreInv, Document
  <2>5. QED
    BY <1>1, <1>5, <2>1, <2>2, <2>3, <2>4 DEF Larger
<1>10. QED
  BY <1>8, <1>9

(* save_state never replaces a desired configuration its caller has not      *)
(* read, unless the caller is adrift: the promise of the revision check.     *)
THEOREM LostUpdatesImpossible == Spec => NoLostUpdate
<1>1. StoreInv /\ [Next]_vars => [PublishesWhatItRead]_vars
  <2> SUFFICES ASSUME StoreInv, Next, NEW s \in Sessions, s \notin adrift,
                      Publishes(s), primary # None
               PROVE  mem[s].edition = Stored.edition
    BY DEF PublishesWhatItRead
  <2>1. SaveAccepted(s) /\ Changes(Merged(s))
    BY PublishingIsSaving
  <2>2. ~LoadFails /\ Running(s) /\ ~Conflicts(Merged(s))
    BY <2>1 DEF SaveAccepted, SaveBegins
  <2>3. mem[s].revision = Stored.revision
    BY <2>1, <2>2, MergedType DEF StoreInv, Conflicts
  <2>4. QED
    BY <2>2, <2>3 DEF StoreInv, SessionsBehind, Behind
<1>2. QED
  BY <1>1, StoreInvariant, PTL DEF Spec, NoLostUpdate
-------------------------------------------------------------------------------
(* Counters and bindings.  The merge keeps what the background writers wrote *)
(* because no copy is ahead of them: AccountInv.                             *)

(* A copy knows only users that were created, and binds no device to a user  *)
(* it does not have.                                                         *)
Kept(copy, created) ==
    /\ copy.users \subseteq created
    /\ \A u \in Users : u \notin copy.users => copy.devices[u] = {}

(* No counter of a copy is ahead of the stored one, unless a reset explains  *)
(* it; for a user the file never had, nothing was counted.                   *)
Owned(copy, stored, lost) ==
    \A u \in Users :
        u \in copy.users /\ u \notin lost =>
            IF u \in stored.users
            THEN copy.traffic[u] <= stored.traffic[u] \/ u \in stored.resetEpochs
            ELSE copy.traffic[u] = 0

KeptInv ==
    /\ Readable(primary) => Kept(primary, issued)
    /\ Readable(backup) => Kept(backup, issued)
    /\ \A s \in Sessions : mem[s] # None => Kept(mem[s], issued)
    /\ \A s \in Sessions : snapshot[s] # None => Kept(snapshot[s], issued)

OwnedInv ==
    ~LoadFails => \A s \in Sessions :
        /\ mem[s] # None => Owned(mem[s], Stored, disowned)
        /\ snapshot[s] # None => Owned(snapshot[s], Stored, disowned)

AccountInv == KeptInv /\ OwnedInv

(* A document written over stored neither lowers a counter without a reset   *)
(* nor forgets that one was reset.                                           *)
Follows(stored, document) ==
    \A u \in Users : u \in stored.users /\ u \in document.users =>
        /\ stored.traffic[u] <= document.traffic[u] \/ u \in document.resetEpochs
        /\ u \in stored.resetEpochs => u \in document.resetEpochs

(* Two documents with the same users, counters, bindings and resets. *)
SameAccounts(a, b) ==
    /\ a.users = b.users /\ a.traffic = b.traffic
    /\ a.devices = b.devices /\ a.resetEpochs = b.resetEpochs

LEMMA OwnedFollows ==
    ASSUME NEW copy \in Document, NEW stored \in Document, NEW document \in Document, NEW lost,
           Owned(copy, stored, lost), Follows(stored, document)
    PROVE  Owned(copy, document, lost \union (stored.users \ document.users))
<1> SUFFICES ASSUME NEW u \in Users, u \in copy.users, u \notin lost,
                    u \notin stored.users \/ u \in document.users
             PROVE  IF u \in document.users
                    THEN copy.traffic[u] <= document.traffic[u] \/ u \in document.resetEpochs
                    ELSE copy.traffic[u] = 0
  BY DEF Owned
<1>1. copy.traffic[u] \in Nat /\ stored.traffic[u] \in Nat /\ document.traffic[u] \in Nat
  BY DEF Document
<1>2. QED
  BY <1>1 DEF Owned, Follows

(* What a merge does to one user's counter and bindings. *)
LEMMA MergedAccounts ==
    ASSUME NEW state \in Document, NEW latest \in Document, NEW R \in SUBSET Users, NEW u \in Users
    PROVE  /\ Merge(state, latest, R).traffic[u] =
                IF u \notin state.users \intersect latest.users THEN state.traffic[u]
                ELSE IF u \in latest.resetEpochs THEN latest.traffic[u]
                ELSE Larger(state.traffic[u], latest.traffic[u])
           /\ u \in (state.users \intersect latest.users) \ R =>
                latest.devices[u] \subseteq Merge(state, latest, R).devices[u]
           /\ u \notin state.users => Merge(state, latest, R).devices[u] = state.devices[u]
           /\ Merge(state, latest, R).resetEpochs = latest.resetEpochs
           /\ Merge(state, latest, R).users = state.users
BY DEF Merge, Document

(* A merged copy is as far as the stored counters and follows the store.     *)
LEMMA MergeOwned ==
    ASSUME NEW state \in Document, NEW latest \in Document, NEW R \in SUBSET Users,
           NEW lost, NEW created, Owned(state, latest, lost), Kept(state, created)
    PROVE  /\ Owned(Merge(state, latest, R), latest, lost)
           /\ Kept(Merge(state, latest, R), created)
           /\ Follows(latest, Merge(state, latest, R))
<1> DEFINE merged == Merge(state, latest, R)
<1>1. ASSUME NEW u \in Users
      PROVE  /\ state.traffic[u] \in Nat /\ latest.traffic[u] \in Nat
             /\ merged.traffic[u] =
                  IF u \notin state.users \intersect latest.users THEN state.traffic[u]
                  ELSE IF u \in latest.resetEpochs THEN latest.traffic[u]
                  ELSE Larger(state.traffic[u], latest.traffic[u])
             /\ u \notin state.users => merged.devices[u] = state.devices[u]
  <2>1. state.traffic[u] \in Nat /\ latest.traffic[u] \in Nat
    BY DEF Document
  <2>2. merged.traffic[u] =
          IF u \notin state.users \intersect latest.users THEN state.traffic[u]
          ELSE IF u \in latest.resetEpochs THEN latest.traffic[u]
          ELSE Larger(state.traffic[u], latest.traffic[u])
    BY MergedAccounts
  <2>3. u \notin state.users => merged.devices[u] = state.devices[u]
    BY MergedAccounts
  <2>4. QED
    BY <2>1, <2>2, <2>3
<1>2. merged.resetEpochs = latest.resetEpochs
  BY DEF Merge, Document
<1>3. merged.users = state.users
  BY MergeType
<1> HIDE DEF merged
<1>4. Owned(merged, latest, lost)
  BY <1>1, <1>2, <1>3 DEF Owned, Larger
<1>5. Kept(merged, created)
  BY <1>1, <1>3 DEF Kept
<1>6. Follows(latest, merged)
  BY <1>1, <1>2, <1>3 DEF Follows, Larger
<1>7. QED
  BY <1>4, <1>5, <1>6 DEF merged

LEMMA SameAccountsKeep ==
    ASSUME NEW a, NEW b, SameAccounts(a, b), NEW stored, NEW lost, NEW created
    PROVE  /\ Owned(a, stored, lost) <=> Owned(b, stored, lost)
           /\ Kept(a, created) <=> Kept(b, created)
           /\ Follows(stored, a) <=> Follows(stored, b)
BY DEF SameAccounts, Owned, Kept, Follows

(* Numbering a document changes neither its accounts nor its configuration.  *)
LEMMA NumberedAccounts ==
    ASSUME NEW state \in Document
    PROVE  SameAccounts(Numbered(state), state) /\ Desired(Numbered(state)) = Desired(state)
BY DEF Numbered, SameAccounts, Desired, Document

(* What a session saves is merged with the store. *)
LEMMA MergedOwned ==
    ASSUME StoreInv, AccountInv, ~LoadFails, NEW s \in Sessions, mem[s] # None
    PROVE  /\ Owned(Merged(s), Stored, disowned)
           /\ Kept(Merged(s), issued)
           /\ Follows(Stored, Merged(s))
<1>1. /\ mem[s] \in Document /\ Stored \in Document
      /\ Owned(mem[s], Stored, disowned) /\ Kept(mem[s], issued)
      /\ resets[s] \in SUBSET Users
  BY StoredType DEF StoreInv, TypeOK, AccountInv, KeptInv, OwnedInv
<1>2. CASE primary = None
  <2>1. Stored.users = {} /\ Merged(s) = mem[s]
    BY <1>2 DEF Stored, EmptyState, Merged
  <2>2. QED
    BY <1>1, <2>1 DEF Follows
<1>3. CASE primary # None
  BY <1>1, <1>3, MergeOwned DEF Merged
<1>4. QED
  BY <1>2, <1>3

(* What a command's rollback writes is its snapshot, merged with the store.  *)
LEMMA RestoredOwned ==
    ASSUME StoreInv, AccountInv, NEW s \in Sessions, mem[s] # None, snapshot[s] # None
    PROVE  /\ SameAccounts(RestoredInPlace(s), snapshot[s])
           /\ ~LoadFails => /\ Kept(Restored(s), issued)
                            /\ Follows(Stored, Restored(s))
<1>1. snapshot[s] \in Document /\ RestoredInPlace(s) \in Document
  BY RestoredInPlaceType DEF StoreInv, TypeOK, Running
<1>2. SameAccounts(RestoredInPlace(s), snapshot[s])
  BY <1>1 DEF RestoredInPlace, SameAccounts, Document
<1>3. ASSUME ~LoadFails
      PROVE  Kept(Restored(s), issued) /\ Follows(Stored, Restored(s))
  <2>1. /\ Stored \in Document
        /\ Owned(RestoredInPlace(s), Stored, disowned) /\ Kept(RestoredInPlace(s), issued)
    BY <1>2, <1>3, StoredType, SameAccountsKeep DEF StoreInv, AccountInv, KeptInv, OwnedInv
  <2>2. CASE primary = None
    <3>1. SameAccounts(Restored(s), RestoredInPlace(s))
      BY <1>1, <2>2, NumberedAccounts DEF Restored
    <3>2. Follows(Stored, RestoredInPlace(s))
      BY <2>2 DEF Stored, EmptyState, Follows
    <3>3. QED
      BY <2>1, <3>1, <3>2, SameAccountsKeep
  <2>3. CASE primary # None
    <3> DEFINE merged == Merge(RestoredInPlace(s), Stored, {})
               state == [merged EXCEPT !.revision = Stored.revision]
    <3>1. merged \in Document /\ Kept(merged, issued) /\ Follows(Stored, merged)
      BY <1>1, <2>1, MergeType, MergeOwned
    <3> HIDE DEF merged
    <3>2. state \in Document /\ SameAccounts(state, merged)
      BY <2>1, <3>1 DEF SameAccounts, Document
    <3>3. Restored(s) = Numbered(state)
      BY <2>3 DEF Restored, merged
    <3> HIDE DEF state
    <3>4. SameAccounts(Restored(s), state)
      BY <3>2, <3>3, NumberedAccounts
    <3>5. QED
      BY <3>1, <3>2, <3>4, SameAccountsKeep
  <2>4. QED
    BY <2>2, <2>3
<1>4. QED
  BY <1>2, <1>3

(* Every file, copy and snapshot after a step was there before it, or is as  *)
(* good as one that was.                                                     *)
LEMMA AccountsFollow ==
    ASSUME StoreInv, StoreInv', AccountInv, issued \subseteq issued',
           ~LoadFails' => ~LoadFails,
           Readable(primary') => Kept(primary', issued'),
           Readable(backup') => Kept(backup', issued'),
           ~LoadFails' => \A copy \in Document :
              Kept(copy, issued) /\ Owned(copy, Stored, disowned)
                  => Owned(copy, Stored', disowned'),
           \A t \in Sessions : mem'[t] # None =>
              \/ mem'[t] = mem[t]
              \/ Kept(mem'[t], issued') /\ (~LoadFails' => Owned(mem'[t], Stored', disowned')),
           \A t \in Sessions : snapshot'[t] # None =>
              snapshot'[t] = snapshot[t] \/ snapshot'[t] = mem[t]
    PROVE  AccountInv'
<1>1. /\ mem \in [Sessions -> Document \union {None}]
      /\ snapshot \in [Sessions -> Document \union {None}]
  BY DEF StoreInv, TypeOK
<1>2. \A copy : Kept(copy, issued) => Kept(copy, issued')
  BY DEF Kept
<1>3. KeptInv'
  BY <1>1, <1>2 DEF AccountInv, KeptInv
<1>4. ASSUME ~LoadFails', NEW t \in Sessions
      PROVE  /\ mem'[t] # None => Owned(mem'[t], Stored', disowned')
             /\ snapshot'[t] # None => Owned(snapshot'[t], Stored', disowned')
  BY <1>1, <1>4 DEF AccountInv, KeptInv, OwnedInv
<1>5. OwnedInv'
  BY <1>4 DEF OwnedInv
<1>6. QED
  BY <1>3, <1>5 DEF AccountInv

(* The stored document, as a copy of itself. *)
LEMMA StoredKept ==
    ASSUME StoreInv, KeptInv, ~LoadFails
    PROVE  Stored \in Document /\ Kept(Stored, issued) /\ Owned(Stored, Stored, disowned)
<1>1. Stored \in Document
  BY StoredType DEF StoreInv
<1>2. Kept(EmptyState, issued)
  BY DEF EmptyState, Kept
<1>3. Kept(Stored, issued)
  BY <1>2 DEF KeptInv, Stored, LoadFails, Readable
<1>4. Owned(Stored, Stored, disowned)
  BY <1>1 DEF Owned, Document
<1>5. QED
  BY <1>1, <1>3, <1>4

(* The files are not written. *)
LEMMA QuietAccounts ==
    ASSUME StoreInv, StoreInv', AccountInv, UNCHANGED disk, issued \subseteq issued',
           disowned' = disowned,
           \A t \in Sessions : mem'[t] # None =>
              \/ mem'[t] = mem[t]
              \/ Kept(mem'[t], issued') /\ (~LoadFails => Owned(mem'[t], Stored, disowned)),
           \A t \in Sessions : snapshot'[t] # None =>
              snapshot'[t] = snapshot[t] \/ snapshot'[t] = mem[t]
    PROVE  AccountInv'
<1>1. /\ primary' = primary /\ backup' = backup
      /\ LoadFails' = LoadFails /\ Stored' = Stored
  BY DEF disk, LoadFails, Stored, Readable, EmptyState
<1>2. /\ Readable(primary') => Kept(primary', issued')
      /\ Readable(backup') => Kept(backup', issued')
  BY <1>1 DEF AccountInv, KeptInv, Kept, Readable
<1>3. QED
  BY <1>1, <1>2, AccountsFollow

(* A write of document, which keeps and follows the stored accounts. *)
LEMMA WriteAccounts ==
    ASSUME StoreInv, StoreInv', AccountInv, ~LoadFails, NEW document \in Document,
           WriteFiles(document), Kept(document, issued), Follows(Stored, document),
           \A t \in Sessions : mem'[t] # None =>
              \/ mem'[t] = mem[t]
              \/ SameAccounts(mem'[t], document)
              \/ snapshot[t] # None /\ SameAccounts(mem'[t], snapshot[t]),
           \A t \in Sessions : snapshot'[t] # None => snapshot'[t] = snapshot[t]
    PROVE  AccountInv'
<1>1. /\ ~LoadFails' /\ Stored' = document /\ primary' = document /\ backup' = PreviousFile
      /\ issued' = issued /\ disowned' = disowned \union (Stored.users \ document.users)
  BY SentinelAssumption DEF WriteFiles, LoadFails, Stored, Readable
<1>2. Stored \in Document
  BY StoredType DEF StoreInv
<1>3. /\ Kept(primary', issued')
      /\ Readable(backup') => Kept(backup', issued')
  BY <1>1 DEF AccountInv, KeptInv, PreviousFile, Readable
<1>4. \A copy \in Document :
         Owned(copy, Stored, disowned) => Owned(copy, Stored', disowned')
  BY <1>1, <1>2, OwnedFollows
<1>5. Owned(document, Stored', disowned')
  BY <1>1 DEF Owned, Document
<1>6. ASSUME NEW t \in Sessions, mem'[t] # None, mem'[t] # mem[t]
      PROVE  Kept(mem'[t], issued') /\ Owned(mem'[t], Stored', disowned')
  <2>1. CASE SameAccounts(mem'[t], document)
    BY <1>1, <1>3, <1>5, <2>1, SameAccountsKeep
  <2>2. CASE snapshot[t] # None /\ SameAccounts(mem'[t], snapshot[t])
    <3>1. /\ snapshot[t] \in Document
          /\ Kept(snapshot[t], issued) /\ Owned(snapshot[t], Stored, disowned)
      BY <2>2 DEF StoreInv, TypeOK, AccountInv, KeptInv, OwnedInv
    <3>2. QED
      BY <1>1, <1>4, <2>2, <3>1, SameAccountsKeep
  <2>3. QED
    BY <1>6, <2>1, <2>2
<1>7. QED
  BY <1>1, <1>3, <1>4, <1>6, AccountsFollow

(* A write that stops half-way. *)
LEMMA InterruptedAccounts ==
    ASSUME StoreInv, StoreInv', AccountInv, ~LoadFails, Interrupted,
           \A t \in Sessions : mem'[t] # None =>
              \/ mem'[t] = mem[t]
              \/ Kept(mem'[t], issued) /\ Owned(mem'[t], Stored, disowned),
           \A t \in Sessions : snapshot'[t] # None => snapshot'[t] = snapshot[t]
    PROVE  AccountInv'
<1>1. /\ issued' = issued /\ disowned' = disowned
      /\ primary' = primary /\ backup' \in {backup, PreviousFile}
      /\ ~LoadFails' => Stored' = Stored
  BY InterruptedKeeps DEF Interrupted
<1>2. /\ Readable(primary') => Kept(primary', issued')
      /\ Readable(backup') => Kept(backup', issued')
  BY <1>1 DEF AccountInv, KeptInv, PreviousFile, Readable
<1>3. QED
  BY <1>1, <1>2, AccountsFollow

-------------------------------------------------------------------------------
(* Each action preserves AccountInv.                                         *)

LEMMA SessionAccounts ==
    ASSUME StoreInv, StoreInv', AccountInv, NEW s \in Sessions,
           \/ LoadState(s) \/ Exit(s) \/ BeginCommand(s) \/ CommandSucceeds(s)
           \/ SaveRejected(s) \/ SaveUnreadable(s)
    PROVE  AccountInv'
<1>1. /\ mem \in [Sessions -> Document \union {None}]
      /\ snapshot \in [Sessions -> Document \union {None}]
  BY DEF StoreInv, TypeOK
<1>2. CASE LoadState(s)
  <2>1. Kept(Stored, issued) /\ Owned(Stored, Stored, disowned)
    BY <1>2, StoredKept DEF AccountInv, LoadState
  <2>2. QED
    BY <1>1, <1>2, <2>1, QuietAccounts DEF LoadState
<1>3. CASE Exit(s)
  BY <1>1, <1>3, QuietAccounts DEF Exit, ForgetState
<1>4. CASE BeginCommand(s)
  BY <1>1, <1>4, QuietAccounts DEF BeginCommand, history
<1>5. CASE CommandSucceeds(s)
  BY <1>1, <1>5, QuietAccounts DEF CommandSucceeds, history
<1>6. CASE SaveRejected(s)
  <2>1. Kept(Merged(s), issued) /\ Owned(Merged(s), Stored, disowned)
    BY <1>6, MergedOwned DEF SaveRejected, SaveBegins, Running
  <2>2. QED
    BY <1>1, <1>6, <2>1, QuietAccounts DEF SaveRejected, SaveBegins, history
<1>7. CASE SaveUnreadable(s)
  BY <1>1, <1>7, QuietAccounts DEF SaveUnreadable, SaveBegins, history
<1>8. QED
  BY <1>2, <1>3, <1>4, <1>5, <1>6, <1>7

(* An edit that invents no counter and leaves no binding behind. *)
LEMMA EditAccounts ==
    ASSUME StoreInv, StoreInv', AccountInv, NEW s \in Sessions, NEW state,
           Edit(s, state), issued \subseteq issued', Kept(state, issued'),
           \A u \in Users : u \in state.users =>
              state.traffic[u] = 0
                  \/ (u \in mem[s].users /\ state.traffic[u] = mem[s].traffic[u])
    PROVE  AccountInv'
<1>1. mem \in [Sessions -> Document \union {None}] /\ mem[s] \in Document
  BY DEF StoreInv, TypeOK, Edit, Running
<1>2. ASSUME ~LoadFails PROVE Owned(state, Stored, disowned)
  <2>1. Owned(mem[s], Stored, disowned) /\ Stored \in Document
    BY <1>2, StoredType DEF StoreInv, AccountInv, OwnedInv, Edit, Running
  <2>2. \A u \in Users : Stored.traffic[u] \in Nat
    BY <2>1 DEF Document
  <2>3. QED
    BY <2>1, <2>2 DEF Owned
<1>3. QED
  BY <1>1, <1>2, QuietAccounts DEF Edit

LEMMA EditsAccounts ==
    ASSUME StoreInv, StoreInv', AccountInv, NEW s \in Sessions,
           \/ \E config \in Configs : EditConfig(s, config)
           \/ \E u \in Users : AddUser(s, u) \/ RemoveUser(s, u) \/ ResetDevices(s, u)
    PROVE  AccountInv'
<1>1. mem[s] \in Document /\ Kept(mem[s], issued)
  BY DEF StoreInv, TypeOK, AccountInv, KeptInv, EditConfig, AddUser, RemoveUser, ResetDevices,
         Edit, Running
<1>2. ASSUME NEW config \in Configs, EditConfig(s, config)
      PROVE  AccountInv'
  <2> DEFINE state == [mem[s] EXCEPT !.config = config]
  <2>1. SameAccounts(state, mem[s])
    BY <1>1 DEF SameAccounts, Document
  <2>2. Edit(s, state) /\ issued' = issued
    BY <1>2 DEF EditConfig
  <2> HIDE DEF state
  <2>3. QED
    BY <1>1, <2>1, <2>2, EditAccounts DEF SameAccounts, Kept
<1>3. ASSUME NEW u \in Users, AddUser(s, u)
      PROVE  AccountInv'
  <2> DEFINE state == [mem[s] EXCEPT !.users = @ \union {u}, !.traffic[u] = 0, !.devices[u] = {}]
  <2>1. /\ state.users = mem[s].users \union {u}
        /\ state.traffic = [mem[s].traffic EXCEPT ![u] = 0]
        /\ state.devices = [mem[s].devices EXCEPT ![u] = {}]
    BY <1>1 DEF Document
  <2>2. Edit(s, state) /\ issued' = issued \union {u}
    BY <1>3 DEF AddUser
  <2> HIDE DEF state
  <2>3. Kept(state, issued')
    BY <1>1, <2>1, <2>2 DEF Kept, Document
  <2>4. \A v \in Users : v \in state.users =>
          state.traffic[v] = 0 \/ (v \in mem[s].users /\ state.traffic[v] = mem[s].traffic[v])
    BY <1>1, <2>1 DEF Document
  <2>5. QED
    BY <2>2, <2>3, <2>4, EditAccounts
<1>4. ASSUME NEW u \in Users, RemoveUser(s, u)
      PROVE  AccountInv'
  <2> DEFINE state == [mem[s] EXCEPT !.users = @ \ {u}, !.traffic[u] = 0, !.devices[u] = {}]
  <2>1. /\ state.users = mem[s].users \ {u}
        /\ state.traffic = [mem[s].traffic EXCEPT ![u] = 0]
        /\ state.devices = [mem[s].devices EXCEPT ![u] = {}]
    BY <1>1 DEF Document
  <2>2. Edit(s, state) /\ issued' = issued
    BY <1>4 DEF RemoveUser
  <2> HIDE DEF state
  <2>3. Kept(state, issued')
    BY <1>1, <2>1, <2>2 DEF Kept, Document
  <2>4. \A v \in Users : v \in state.users =>
          state.traffic[v] = 0 \/ (v \in mem[s].users /\ state.traffic[v] = mem[s].traffic[v])
    BY <1>1, <2>1 DEF Document
  <2>5. QED
    BY <2>2, <2>3, <2>4, EditAccounts
<1>5. ASSUME NEW u \in Users, ResetDevices(s, u)
      PROVE  AccountInv'
  <2> DEFINE state == [mem[s] EXCEPT !.devices[u] = {}]
  <2>1. /\ state.users = mem[s].users /\ state.traffic = mem[s].traffic
        /\ state.devices = [mem[s].devices EXCEPT ![u] = {}]
    BY <1>1 DEF Document
  <2>2. Edit(s, state) /\ issued' = issued
    BY <1>5 DEF ResetDevices
  <2> HIDE DEF state
  <2>3. Kept(state, issued')
    BY <1>1, <2>1, <2>2 DEF Kept, Document
  <2>4. QED
    BY <2>1, <2>2, <2>3, EditAccounts
<1>6. QED
  BY <1>2, <1>3, <1>4, <1>5

LEMMA AcceptedAccounts ==
    ASSUME StoreInv, StoreInv', AccountInv, NEW s \in Sessions, SaveAccepted(s)
    PROVE  AccountInv'
<1>1. /\ ~LoadFails /\ mem[s] # None /\ snapshot' = snapshot
      /\ WriteFiles(Numbered(Merged(s))) /\ mem' = [mem EXCEPT ![s] = Numbered(Merged(s))]
      /\ CanWrite(Merged(s)) /\ mem \in [Sessions -> Document \union {None}]
  BY DEF SaveAccepted, SaveBegins, Running, StoreInv, TypeOK
<1>2. /\ Merged(s) \in Document /\ Numbered(Merged(s)) \in Document
      /\ SameAccounts(Numbered(Merged(s)), Merged(s))
  BY <1>1, MergedType, NumberedType, NumberedAccounts DEF StoreInv, Running
<1>3. Kept(Numbered(Merged(s)), issued) /\ Follows(Stored, Numbered(Merged(s)))
  BY <1>1, <1>2, MergedOwned, SameAccountsKeep
<1>4. PICK document \in Document : document = Numbered(Merged(s))
  BY <1>2
<1>5. \A t \in Sessions : mem'[t] = mem[t] \/ SameAccounts(mem'[t], document)
  BY <1>1, <1>4 DEF SameAccounts
<1>6. QED
  BY <1>1, <1>3, <1>4, <1>5, WriteAccounts

LEMMA StoppedAccounts ==
    ASSUME StoreInv, StoreInv', AccountInv, NEW s \in Sessions, SaveFails(s) \/ SaveCrashes(s)
    PROVE  AccountInv'
<1>1. mem \in [Sessions -> Document \union {None}] /\ ~LoadFails /\ mem[s] # None /\ Interrupted
  BY DEF SaveFails, SaveCrashes, SaveBegins, Running, StoreInv, TypeOK
<1>2. CASE SaveFails(s)
  <2> DEFINE failed == [Numbered(Merged(s)) EXCEPT
                          !.edition = IF Changes(Merged(s)) THEN mem[s].edition ELSE @]
  <2>1. Merged(s) \in Document /\ Numbered(Merged(s)) \in Document
    BY <1>1, MergedType, NumberedType DEF StoreInv, Running
  <2>2. SameAccounts(failed, Numbered(Merged(s)))
    BY <2>1 DEF SameAccounts, Document
  <2>3. mem' = [mem EXCEPT ![s] = failed] /\ snapshot' = snapshot
    BY <1>2 DEF SaveFails, SaveBegins
  <2> HIDE DEF failed
  <2>4. Kept(failed, issued) /\ Owned(failed, Stored, disowned)
    BY <1>1, <2>1, <2>2, MergedOwned, NumberedAccounts, SameAccountsKeep
  <2>5. QED
    BY <1>1, <2>3, <2>4, InterruptedAccounts
<1>3. CASE SaveCrashes(s)
  BY <1>1, <1>3, InterruptedAccounts DEF SaveCrashes, ForgetState, StoreInv, TypeOK
<1>4. QED
  BY <1>2, <1>3

LEMMA UpdateAccounts ==
    ASSUME StoreInv, StoreInv', AccountInv, NEW mutated \in Document, UpdateState(mutated),
           Kept(mutated, issued), Follows(Stored, mutated)
    PROVE  AccountInv'
<1>1. ~LoadFails /\ UNCHANGED <<mem, snapshot>>
  BY DEF UpdateState
<1>2. CASE Interrupted
  BY <1>1, <1>2, InterruptedAccounts
<1>3. CASE ~Interrupted
  <2> DEFINE changes == Desired(mutated) # Desired(Stored)
             revision == IF changes THEN Stored.revision + 1 ELSE mutated.revision
             edition == IF changes THEN editions + 1 ELSE mutated.edition
             document == [mutated EXCEPT !.revision = revision, !.edition = edition]
  <2>1. document \in Document /\ SameAccounts(document, mutated)
    <3>1. /\ Stored.revision \in Nat /\ editions \in Nat
          /\ mutated.revision \in Nat /\ mutated.edition \in Nat
      BY <1>1, StoredType, StoreAssumption DEF StoreInv, TypeOK, Document
    <3>2. revision \in Nat /\ edition \in Nat
      BY <3>1
    <3> HIDE DEF changes, revision, edition
    <3>3. QED
      BY <3>2 DEF SameAccounts, Document
  <2>2. WriteFiles(document)
    BY <1>3 DEF UpdateState
  <2> HIDE DEF document
  <2>3. Kept(document, issued) /\ Follows(Stored, document)
    BY <2>1, SameAccountsKeep
  <2>4. QED
    BY <1>1, <2>1, <2>2, <2>3, WriteAccounts
<1>4. QED
  BY <1>2, <1>3

(* What the background writers put in place of the stored document.          *)
Mutation(mutated) ==
    /\ UpdateState(mutated)
    /\ mutated.revision = Stored.revision
    /\ Kept(mutated, issued) /\ Follows(Stored, mutated)
    /\ \A u \in Users : Stored.devices[u] \subseteq mutated.devices[u]
    /\ \A u \in Users : u \in Stored.users =>
          \/ mutated.traffic[u] = Stored.traffic[u]
          \/ mutated.traffic[u] = Stored.traffic[u] + 1
          \/ mutated.traffic[u] = 0 /\ u \in mutated.resetEpochs

LEMMA Mutations ==
    ASSUME StoreInv, KeptInv, BackgroundStep
    PROVE  ~LoadFails /\ \E mutated \in Document : Mutation(mutated)
<1>1. ~LoadFails
  BY DEF BackgroundStep, CountTraffic, ResetTraffic, RegisterDevice, UpdateConfig
<1>2. Stored \in Document /\ Kept(Stored, issued)
  BY <1>1, StoredKept
<1>3. ASSUME NEW u \in Users, CountTraffic(u)
      PROVE  \E mutated \in Document : Mutation(mutated)
  <2> DEFINE mutated == [Stored EXCEPT !.traffic[u] = @ + 1]
  <2>1. /\ mutated \in Document /\ mutated.revision = Stored.revision
        /\ mutated.users = Stored.users /\ mutated.devices = Stored.devices
        /\ mutated.resetEpochs = Stored.resetEpochs
        /\ mutated.traffic = [Stored.traffic EXCEPT ![u] = @ + 1]
    BY <1>2 DEF Document
  <2>2. UpdateState(mutated)
    BY <1>3 DEF CountTraffic
  <2> HIDE DEF mutated
  <2>3. QED
    BY <1>1, <1>2, <2>1, <2>2 DEF Mutation, Kept, Follows, Document
<1>4. ASSUME NEW u \in Users, ResetTraffic(u)
      PROVE  \E mutated \in Document : Mutation(mutated)
  <2> DEFINE mutated == [Stored EXCEPT !.traffic[u] = 0, !.resetEpochs = @ \union {u}]
  <2>1. /\ mutated \in Document /\ mutated.revision = Stored.revision
        /\ mutated.users = Stored.users /\ mutated.devices = Stored.devices
        /\ mutated.resetEpochs = Stored.resetEpochs \union {u}
        /\ mutated.traffic = [Stored.traffic EXCEPT ![u] = 0]
    BY <1>2 DEF Document
  <2>2. UpdateState(mutated)
    BY <1>4 DEF ResetTraffic
  <2> HIDE DEF mutated
  <2>3. QED
    BY <1>1, <1>2, <2>1, <2>2 DEF Mutation, Kept, Follows, Document
<1>5. ASSUME NEW u \in Users, NEW d \in Devices, RegisterDevice(u, d)
      PROVE  \E mutated \in Document : Mutation(mutated)
  <2> DEFINE mutated == [Stored EXCEPT !.devices[u] = @ \union {d}]
  <2>1. /\ mutated \in Document /\ mutated.revision = Stored.revision
        /\ mutated.users = Stored.users /\ mutated.traffic = Stored.traffic
        /\ mutated.resetEpochs = Stored.resetEpochs
        /\ mutated.devices = [Stored.devices EXCEPT ![u] = @ \union {d}]
    BY <1>2 DEF Document
  <2>2. UpdateState(mutated) /\ u \in Stored.users
    BY <1>5 DEF RegisterDevice
  <2> HIDE DEF mutated
  <2>3. QED
    BY <1>1, <1>2, <2>1, <2>2 DEF Mutation, Kept, Follows, Document
<1>6. ASSUME NEW config \in Configs, UpdateConfig(config)
      PROVE  \E mutated \in Document : Mutation(mutated)
  <2> DEFINE mutated == [Stored EXCEPT !.config = config]
  <2>1. /\ mutated \in Document /\ mutated.revision = Stored.revision
        /\ SameAccounts(mutated, Stored)
    BY <1>2 DEF Document, SameAccounts
  <2>2. UpdateState(mutated)
    BY <1>6 DEF UpdateConfig
  <2> HIDE DEF mutated
  <2>3. QED
    BY <1>1, <1>2, <2>1, <2>2 DEF Mutation, Kept, Follows, Document, SameAccounts
<1>7. QED
  BY <1>1, <1>3, <1>4, <1>5, <1>6 DEF BackgroundStep

LEMMA RollBackAccounts ==
    ASSUME StoreInv, StoreInv', AccountInv, NEW s \in Sessions, RollBackCommand(s)
    PROVE  AccountInv'
<1>1. /\ mem \in [Sessions -> Document \union {None}] /\ mem[s] # None /\ snapshot[s] # None
      /\ snapshot[s] \in Document /\ RestoredInPlace(s) \in Document
  BY RestoredInPlaceType DEF StoreInv, TypeOK, RollBackCommand, Running
<1>2. \A t \in Sessions : snapshot'[t] # None => snapshot'[t] = snapshot[t]
  BY DEF RollBackCommand, StoreInv, TypeOK
<1>3. SameAccounts(RestoredInPlace(s), snapshot[s])
  BY <1>1, RestoredOwned
<1>4. /\ Kept(RestoredInPlace(s), issued)
      /\ ~LoadFails => Owned(RestoredInPlace(s), Stored, disowned)
  BY <1>1, <1>3, SameAccountsKeep DEF AccountInv, KeptInv, OwnedInv
<1>5. CASE /\ ~LoadFails
           /\ CanWrite(RestoredInPlace(s))
           /\ WriteFiles(Restored(s))
           /\ mem' = [mem EXCEPT ![s] = [RestoredInPlace(s) EXCEPT
                        !.revision = Restored(s).revision, !.edition = Restored(s).edition]]
           /\ adrift' = adrift \ {s}
  <2>1. PICK document \in Document : document = Restored(s)
    BY <1>1, <1>5, RestoredWell DEF Running
  <2>2. Kept(document, issued) /\ Follows(Stored, document)
    BY <1>1, <1>5, <2>1, RestoredOwned
  <2> DEFINE copy == [RestoredInPlace(s) EXCEPT !.revision = document.revision,
                                                !.edition = document.edition]
  <2>3. SameAccounts(copy, RestoredInPlace(s))
    BY <1>1 DEF SameAccounts, Document
  <2>4. mem' = [mem EXCEPT ![s] = copy]
    BY <1>5, <2>1
  <2> HIDE DEF copy
  <2>5. \A t \in Sessions : mem'[t] = mem[t] \/ (t = s /\ SameAccounts(mem'[t], snapshot[t]))
    BY <1>1, <1>3, <2>3, <2>4 DEF SameAccounts
  <2>6. QED
    BY <1>1, <1>2, <1>5, <2>1, <2>2, <2>5, WriteAccounts
<1>6. CASE /\ ~LoadFails
           /\ Interrupted
           /\ mem' = [mem EXCEPT ![s] = RestoredInPlace(s)]
           /\ UNCHANGED adrift
  BY <1>1, <1>2, <1>4, <1>6, InterruptedAccounts
<1>7. CASE /\ LoadFails
           /\ mem' = [mem EXCEPT ![s] = RestoredInPlace(s)]
           /\ UNCHANGED <<disk, history, env>>
  BY <1>1, <1>2, <1>4, <1>7, QuietAccounts DEF history
<1>8. QED
  BY <1>5, <1>6, <1>7 DEF RollBackCommand

(* After the file is damaged every user on record is disowned.               *)
LEMMA DamageAccounts == ASSUME StoreInv, StoreInv', AccountInv, Damage PROVE AccountInv'
<1>1. /\ primary' = Corrupt /\ backup' = backup /\ issued' = issued /\ mem' = mem
      /\ snapshot' = snapshot /\ disowned' = disowned \union issued /\ ~LoadFails
  BY SentinelAssumption DEF Damage, LoadFails, Readable
<1>2. /\ Readable(primary') => Kept(primary', issued')
      /\ Readable(backup') => Kept(backup', issued')
  BY <1>1 DEF AccountInv, KeptInv, Readable
<1>3. \A copy \in Document : Kept(copy, issued) => Owned(copy, Stored', disowned')
  BY <1>1 DEF Kept, Owned
<1>4. QED
  BY <1>1, <1>2, <1>3, AccountsFollow

LEMMA InitAccounts == Init => AccountInv
BY SentinelAssumption DEF Init, AccountInv, KeptInv, OwnedInv, Readable

LEMMA AccountInvInductive ==
    StoreInv /\ StoreInv' /\ AccountInv /\ [Next]_vars => AccountInv'
<1> SUFFICES ASSUME StoreInv, StoreInv', AccountInv, [Next]_vars PROVE AccountInv'
  OBVIOUS
<1>1. CASE UNCHANGED vars
  BY <1>1, QuietAccounts DEF vars, disk
<1>2. ASSUME NEW s \in Sessions, SessionStep(s)
      PROVE  AccountInv'
  <2>1. CASE \/ LoadState(s) \/ Exit(s) \/ BeginCommand(s) \/ CommandSucceeds(s)
             \/ SaveRejected(s) \/ SaveUnreadable(s)
    BY <2>1, SessionAccounts
  <2>2. CASE \/ \E config \in Configs : EditConfig(s, config)
             \/ \E u \in Users : AddUser(s, u) \/ RemoveUser(s, u) \/ ResetDevices(s, u)
    BY <2>2, EditsAccounts
  <2>3. CASE SaveAccepted(s)
    BY <2>3, AcceptedAccounts
  <2>4. CASE SaveFails(s) \/ SaveCrashes(s)
    BY <2>4, StoppedAccounts
  <2>5. CASE RollBackCommand(s)
    BY <2>5, RollBackAccounts
  <2>6. QED
    BY <1>2, <2>1, <2>2, <2>3, <2>4, <2>5 DEF SessionStep, SaveState
<1>3. CASE BackgroundStep
  <2>1. PICK mutated \in Document : Mutation(mutated)
    BY <1>3, Mutations DEF AccountInv
  <2>2. QED
    BY <2>1, UpdateAccounts DEF Mutation
<1>4. CASE Damage
  BY <1>4, DamageAccounts
<1>5. QED
  BY <1>1, <1>2, <1>3, <1>4 DEF Next

(* No copy in memory or in a snapshot is ahead of the stored counters, except *)
(* for a user whose record was lost from the file in between.                *)
THEOREM AccountsInvariant == Spec => []AccountInv
BY InitAccounts, AccountInvInductive, StoreInvariant, PTL DEF Spec

-------------------------------------------------------------------------------
(* What a step that writes the store does to it.                             *)

(* A session's write is the merge of some copy that is not ahead of the store. *)
Published(s) ==
    \E copy \in Document, R \in SUBSET Users :
        /\ Owned(copy, Stored, disowned)
        /\ SameAccounts(Stored', Merge(copy, Stored, R))
        /\ \A u \in R : u \in resets[s] /\ resets'[s] = {}

RightlyNumbered ==
    Stored'.revision = Stored.revision + (IF Desired(Stored') # Desired(Stored) THEN 1 ELSE 0)

LEMMA NumberedRight ==
    ASSUME StoreInv, ~LoadFails, primary # None, NEW state \in Document,
           WriteFiles(Numbered(state))
    PROVE  RightlyNumbered /\ Stored' = Numbered(state)
<1>1. Stored' = Numbered(state) /\ Numbered(state) \in Document
  BY SentinelAssumption, NumberedType DEF StoreInv, WriteFiles, Stored
<1>2. Desired(Stored') = Desired(state)
  BY <1>1, NumberedAccounts
<1>3. /\ Stored.revision \in Nat
      /\ Stored'.revision = IF Changes(state) THEN Stored.revision + 1 ELSE Stored.revision
  BY <1>1, StoredType, NumberedType DEF StoreInv, Document
<1>4. QED
  BY <1>1, <1>2, <1>3 DEF RightlyNumbered, Changes

LEMMA AcceptedPublishes ==
    ASSUME StoreInv, AccountInv, NEW s \in Sessions, SaveAccepted(s), primary # None
    PROVE  Published(s) /\ RightlyNumbered
<1>1. /\ ~LoadFails /\ mem[s] # None /\ resets' = [resets EXCEPT ![s] = {}]
      /\ WriteFiles(Numbered(Merged(s))) /\ resets \in [Sessions -> SUBSET Users]
  BY DEF SaveAccepted, SaveBegins, Running, StoreInv, TypeOK
<1>2. mem[s] \in Document /\ Owned(mem[s], Stored, disowned)
  BY <1>1 DEF StoreInv, TypeOK, AccountInv, OwnedInv
<1>3. Merged(s) \in Document /\ Merged(s) = Merge(mem[s], Stored, resets[s])
  BY <1>1, MergedType DEF StoreInv, Running, Merged
<1>4. RightlyNumbered /\ SameAccounts(Stored', Merge(mem[s], Stored, resets[s]))
  BY <1>1, <1>3, NumberedRight, NumberedAccounts
<1>5. QED
  BY <1>1, <1>2, <1>4 DEF Published

LEMMA RestoredPublishes ==
    ASSUME StoreInv, AccountInv, NEW s \in Sessions, RollBackCommand(s), ~LoadFails,
           primary # None, WriteFiles(Restored(s))
    PROVE  Published(s) /\ RightlyNumbered
<1> DEFINE merged == Merge(RestoredInPlace(s), Stored, {})
           state == [merged EXCEPT !.revision = Stored.revision]
<1>1. mem[s] # None /\ snapshot[s] # None
  BY DEF RollBackCommand, Running
<1>2. RestoredInPlace(s) \in Document /\ Stored \in Document
  BY <1>1, RestoredInPlaceType, StoredType DEF StoreInv, Running
<1>3. Owned(RestoredInPlace(s), Stored, disowned)
  BY <1>1, RestoredOwned, SameAccountsKeep DEF AccountInv, OwnedInv
<1>4. merged \in Document
  BY <1>2, MergeType
<1>5. Restored(s) = Numbered(state)
  BY DEF Restored
<1> HIDE DEF merged
<1>6. state \in Document /\ SameAccounts(state, merged)
  BY <1>2, <1>4 DEF SameAccounts, Document
<1> HIDE DEF state
<1>7. RightlyNumbered /\ SameAccounts(Stored', merged)
  BY <1>5, <1>6, NumberedRight, NumberedAccounts DEF SameAccounts
<1>8. QED
  BY <1>2, <1>3, <1>7 DEF Published, merged

(* update_state's write. *)
LEMMA UpdatePublishes ==
    ASSUME StoreInv, ~LoadFails, ~LoadFails', NEW mutated \in Document, Mutation(mutated)
    PROVE  /\ Stored' # Stored => SameAccounts(Stored', mutated)
           /\ primary # None => RightlyNumbered
<1> DEFINE changes == Desired(mutated) # Desired(Stored)
           revision == IF changes THEN Stored.revision + 1 ELSE mutated.revision
           edition == IF changes THEN editions + 1 ELSE mutated.edition
           document == [mutated EXCEPT !.revision = revision, !.edition = edition]
<1>1. /\ Stored.revision \in Nat /\ mutated.revision \in Nat
      /\ mutated.revision = Stored.revision
  BY StoredType DEF StoreInv, Document, Mutation
<1>2. CASE Interrupted
  BY <1>1, <1>2, InterruptedKeeps DEF RightlyNumbered
<1>3. CASE ~Interrupted
  <2>1. WriteFiles(document)
    BY <1>3 DEF Mutation, UpdateState
  <2>2. /\ SameAccounts(document, mutated) /\ document.revision = revision
        /\ Desired(document) = Desired(mutated) /\ document \in Document
    <3>1. editions + 1 \in Nat /\ mutated.edition \in Nat
      BY StoreAssumption DEF StoreInv, TypeOK, Document
    <3>2. revision \in Nat /\ edition \in Nat
      BY <1>1, <3>1
    <3> HIDE DEF changes, revision, edition
    <3>3. QED
      BY <3>2 DEF SameAccounts, Desired, Document
  <2> HIDE DEF document
  <2>3. Stored' = document
    BY <2>1, <2>2, SentinelAssumption DEF WriteFiles, Stored
  <2>4. QED
    BY <1>1, <2>2, <2>3 DEF RightlyNumbered
<1>4. QED
  BY <1>2, <1>3

(* Every way the stored document moves while the file is not damaged.        *)
LEMMA StoreMoves ==
    ASSUME StoreInv, AccountInv, Next, ~LoadFails, ~LoadFails', damage' = damage,
           primary # None
    PROVE  \/ Stored' = Stored
           \/ RightlyNumbered /\ \E s \in Sessions : Published(s)
           \/ RightlyNumbered /\ \E mutated \in Document :
                                    Mutation(mutated) /\ SameAccounts(Stored', mutated)
<1>1. CASE UNCHANGED disk
  BY <1>1 DEF disk, Stored, EmptyState
<1>2. CASE Interrupted
  BY <1>2, InterruptedKeeps
<1>3. CASE BackgroundStep
  <2>1. PICK mutated \in Document : Mutation(mutated)
    BY <1>3, Mutations DEF AccountInv
  <2>2. QED
    BY <2>1, UpdatePublishes
<1>4. ASSUME NEW s \in Sessions, SessionStep(s), ~UNCHANGED disk, ~Interrupted
      PROVE  RightlyNumbered /\ Published(s)
  <2>1. SaveAccepted(s) \/ (RollBackCommand(s) /\ WriteFiles(Restored(s)))
    BY <1>4 DEF SessionStep, SaveState, LoadState, Exit, EditConfig, AddUser, RemoveUser,
                ResetDevices, Edit, SaveRejected, SaveFails, SaveCrashes, SaveUnreadable,
                BeginCommand, CommandSucceeds, RollBackCommand
  <2>2. QED
    BY <2>1, AcceptedPublishes, RestoredPublishes
<1>5. ~Damage
  BY DEF Damage, StoreInv, TypeOK
<1>6. QED
  BY <1>1, <1>2, <1>3, <1>4, <1>5 DEF Next

(* The revision rises by one with each change of desired state, and nothing  *)
(* else moves it: traffic accounting never makes an open session conflict.   *)
THEOREM RevisionsCountChanges == Spec => RevisionCountsChanges
<1>1. StoreInv /\ AccountInv /\ [Next]_vars =>
        [~LoadFails /\ primary # None /\ ~LoadFails' /\ damage' = damage
            => Stored'.revision = Stored.revision
                 + (IF Desired(Stored') # Desired(Stored) THEN 1 ELSE 0)]_vars
  <2> SUFFICES ASSUME StoreInv, AccountInv, Next, ~LoadFails, primary # None, ~LoadFails',
                      damage' = damage
               PROVE  Stored'.revision = Stored.revision
                        + (IF Desired(Stored') # Desired(Stored) THEN 1 ELSE 0)
    OBVIOUS
  <2>1. Stored.revision \in Nat
    BY StoredType DEF StoreInv, Document
  <2>2. QED
    BY <2>1, StoreMoves DEF RightlyNumbered
<1>2. QED
  BY <1>1, StoreInvariant, AccountsInvariant, PTL DEF Spec, RevisionCountsChanges

(* A step moves a counter only by counting or resetting it; a merge may      *)
(* raise it only for a user whose record had been lost.                      *)
LEMMA CounterMoves ==
    ASSUME StoreInv, AccountInv, Next, ~LoadFails, ~LoadFails', damage' = damage,
           NEW u \in Users, u \in Stored.users, u \in Stored'.users,
           Stored'.traffic[u] # Stored.traffic[u]
    PROVE  \/ /\ mem' = mem
              /\ \/ Stored'.traffic[u] = Stored.traffic[u] + 1
                 \/ Stored'.traffic[u] = 0 /\ u \in Stored'.resetEpochs
           \/ /\ u \in disowned \ Stored.resetEpochs
              /\ Stored'.traffic[u] > Stored.traffic[u]
<1>1. primary # None
  BY DEF Stored, EmptyState
<1>2. Stored \in Document /\ Stored.traffic[u] \in Nat
  BY StoredType DEF StoreInv, Document
<1>3. ASSUME NEW s \in Sessions, Published(s)
      PROVE  u \in disowned \ Stored.resetEpochs /\ Stored'.traffic[u] > Stored.traffic[u]
  <2>1. PICK copy \in Document, R \in SUBSET Users :
          /\ Owned(copy, Stored, disowned)
          /\ SameAccounts(Stored', Merge(copy, Stored, R))
    BY <1>3 DEF Published
  <2>2. u \in copy.users /\ copy.traffic[u] \in Nat
    BY <1>2, <2>1, MergeType DEF SameAccounts, Document
  <2>3. Stored'.traffic[u] = IF u \in Stored.resetEpochs THEN Stored.traffic[u]
                             ELSE Larger(copy.traffic[u], Stored.traffic[u])
    BY <1>2, <2>1, <2>2, MergedAccounts DEF SameAccounts
  <2>4. u \notin Stored.resetEpochs /\ copy.traffic[u] > Stored.traffic[u]
    BY <1>2, <2>2, <2>3 DEF Larger
  <2>5. QED
    BY <1>2, <2>1, <2>2, <2>3, <2>4 DEF Larger, Owned
<1>4. ASSUME NEW mutated \in Document, Mutation(mutated), SameAccounts(Stored', mutated)
      PROVE  /\ mem' = mem
             /\ \/ Stored'.traffic[u] = Stored.traffic[u] + 1
                \/ Stored'.traffic[u] = 0 /\ u \in Stored'.resetEpochs
  BY <1>4 DEF Mutation, UpdateState, SameAccounts
<1>5. QED
  BY <1>1, <1>3, <1>4, StoreMoves

(* No save of a stale copy lowers a traffic counter or brings a reset quota  *)
(* back: merge_runtime_state leaves the counters to the background writers.  *)
THEOREM CountersStayOwned == Spec => CountersOwnedByWriters
<1>1. StoreInv /\ AccountInv /\ [Next]_vars =>
        [\A u \in Users :
          (~LoadFails /\ ~LoadFails' /\ damage' = damage
              /\ u \in Stored.users \intersect Stored'.users
              /\ Stored'.traffic[u] # Stored.traffic[u])
          => \/ /\ mem' = mem
                /\ \/ Stored'.traffic[u] = Stored.traffic[u] + 1
                   \/ Stored'.traffic[u] = 0 /\ u \in Stored'.resetEpochs
             \/ /\ u \in disowned \ Stored.resetEpochs
                /\ Stored'.traffic[u] > Stored.traffic[u]]_vars
  BY CounterMoves
<1>2. QED
  BY <1>1, StoreInvariant, AccountsInvariant, PTL DEF Spec, CountersOwnedByWriters

LEMMA BindingMoves ==
    ASSUME StoreInv, AccountInv, Next, ~LoadFails, ~LoadFails', damage' = damage,
           NEW u \in Users, u \in Stored'.users,
           ~(Stored.devices[u] \subseteq Stored'.devices[u])
    PROVE  \E s \in Sessions : u \in resets[s] /\ resets'[s] = {}
<1>1. Stored \in Document /\ u \in Stored.users
  BY StoredKept DEF AccountInv, Kept
<1>2. primary # None
  BY <1>1 DEF Stored, EmptyState
<1>3. ASSUME NEW s \in Sessions, Published(s)
      PROVE  u \in resets[s] /\ resets'[s] = {}
  <2>1. PICK copy \in Document, R \in SUBSET Users :
          /\ SameAccounts(Stored', Merge(copy, Stored, R))
          /\ \A v \in R : v \in resets[s] /\ resets'[s] = {}
    BY <1>3 DEF Published
  <2>2. u \in copy.users
    BY <1>1, <2>1, MergeType DEF SameAccounts
  <2>3. u \in R
    BY <1>1, <2>1, <2>2, MergedAccounts DEF SameAccounts
  <2>4. QED
    BY <2>1, <2>3
<1>4. ASSUME NEW mutated \in Document, Mutation(mutated), SameAccounts(Stored', mutated)
      PROVE  FALSE
  BY <1>4 DEF Mutation, SameAccounts
<1>5. QED
  BY <1>2, <1>3, <1>4, StoreMoves

(* A binding registered by the subscription server is dropped only with its  *)
(* user or by the save of a session that asked for the reset.                *)
THEOREM BindingsSurvive == Spec => BindingsSurviveStaleSaves
<1>1. StoreInv /\ AccountInv /\ [Next]_vars =>
        [\A u \in Users :
          (~LoadFails /\ ~LoadFails' /\ damage' = damage /\ u \in Stored'.users
              /\ ~(Stored.devices[u] \subseteq Stored'.devices[u]))
          => \E s \in Sessions : u \in resets[s] /\ resets'[s] = {}]_vars
  BY BindingMoves
<1>2. QED
  BY <1>1, StoreInvariant, AccountsInvariant, PTL DEF Spec, BindingsSurviveStaleSaves
===============================================================================
