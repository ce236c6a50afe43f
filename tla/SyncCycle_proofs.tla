--------------------------- MODULE SyncCycle_proofs ---------------------------
(***************************************************************************)
(* The sync cycle and the operator beside it, for any number of users,     *)
(* edits, jobs, days and faults.  The heart of SyncInv is Named: a copy    *)
(* whose revision is the stored one has the stored content.  So an apply   *)
(* that passes the conflict check writes nothing, and a rollback that      *)
(* passes it lifts no block but the operator's own.                        *)
(***************************************************************************)
EXTENDS SyncCycle, TLAPS

Types == TypeOK /\ applied \in BOOLEAN

Named(document) ==
    /\ document.revision <= stored.revision
    /\ document.revision = stored.revision => SameDesired(document, stored)

(* Whoever is blocked on disk is cut off, or nobody owes it. *)
Settled == stored.blocked \subseteq cut \union waived

(* What is not settled is pending; after an apply that succeeded all is settled, *)
(* so that the flag may be cleared.                                              *)
Debts ==
    /\ stored.pending \/ Settled
    /\ phase = "settle" /\ applied => Settled

SyncInv == Types /\ Named(copy) /\ Named(op) /\ Debts

(* No step but an operator's save or rollback lifts a block. *)
BlocksKept == stored.blocked \subseteq stored'.blocked

-------------------------------------------------------------------------------
(* Documents.                                                                *)

LEMMA SavedFacts ==
    ASSUME stored \in Document, NEW document \in Document
    PROVE  /\ Saved(document) \in Document
           /\ SameDesired(Saved(document), document)
           /\ Saved(document).pending = stored.pending /\ Saved(document).source = stored.source
           /\ Saved(document).revision = IF SameDesired(document, stored) THEN stored.revision
                                         ELSE stored.revision + 1
<1> DEFINE next == IF SameDesired(document, stored) THEN stored.revision
                   ELSE stored.revision + 1
<1>1. /\ next \in Nat /\ stored.pending \in BOOLEAN
      /\ stored.source \in {"none", "certificates"}
  BY DEF Document
<1>2. Saved(document) = [document EXCEPT !.revision = next, !.pending = stored.pending,
                                         !.source = stored.source]
  BY DEF Saved
<1>3. next = IF SameDesired(document, stored) THEN stored.revision ELSE stored.revision + 1
  OBVIOUS
<1> HIDE DEF next
<1>4. /\ Saved(document) \in Document
      /\ SameDesired(Saved(document), document)
      /\ Saved(document).pending = stored.pending /\ Saved(document).source = stored.source
      /\ Saved(document).revision = next
  BY <1>1, <1>2 DEF Document, SameDesired
<1>5. QED
  BY <1>3, <1>4

(* The desired state on disk stands, or its revision grows. *)
Grows ==
    \/ SameDesired(stored', stored) /\ stored'.revision = stored.revision
    \/ stored'.revision = stored.revision + 1

LEMMA NamedStays ==
    ASSUME stored \in Document, Grows, NEW document \in Document, Named(document)
    PROVE  /\ document.revision <= stored'.revision
           /\ document.revision = stored'.revision => SameDesired(document, stored')
BY DEF Document, Grows, Named, SameDesired

LEMMA UpdateFacts ==
    ASSUME stored \in Document, NEW document \in Document,
           document.revision = stored.revision, Update(document)
    PROVE  /\ stored' \in Document /\ copy' = stored' /\ Grows
           /\ SameDesired(stored', document)
           /\ stored'.pending = document.pending /\ stored'.source = document.source
<1> DEFINE next == IF SameDesired(document, stored) THEN document.revision
                   ELSE document.revision + 1
<1>1. next \in Nat
  BY DEF Document
<1>2. stored' = [document EXCEPT !.revision = next] /\ copy' = stored'
  BY DEF Update
<1>3. next = IF SameDesired(document, stored) THEN stored.revision ELSE stored.revision + 1
  OBVIOUS
<1> HIDE DEF next
<1>4. /\ stored' \in Document /\ stored'.revision = next
      /\ SameDesired(stored', document)
      /\ stored'.pending = document.pending /\ stored'.source = document.source
  BY <1>1, <1>2 DEF Document, SameDesired
<1>5. QED
  BY <1>2, <1>3, <1>4 DEF Grows, SameDesired

(* A copy that may be written is one with the stored content: the apply        *)
(* changes nothing on disk.                                                    *)
LEMMA AppliesFacts ==
    ASSUME stored \in Document, NEW document \in Document, Named(document), Applies(document)
    PROVE  stored' = stored /\ cut' = stored.blocked /\ Settled'
<1>1. SameDesired(document, stored)
  BY DEF Applies, Conflicts, Named
<1>2. /\ stored' \in Document /\ stored'.blocked = stored.blocked
      /\ stored'.settings = stored.settings /\ stored'.revision = stored.revision
      /\ stored'.pending = stored.pending /\ stored'.source = stored.source
  BY <1>1, SavedFacts DEF Applies, SameDesired
<1>3. stored' = stored
  BY <1>2 DEF Document
<1>4. QED
  BY <1>1, <1>3 DEF Applies, SameDesired, Settled

-------------------------------------------------------------------------------
(* A step of the cycle that updates the stored document: it may add a block  *)
(* with its debt, or clear the flag when all is settled.                     *)

LEMMA BoundsFacts == MaxEdits \in Nat /\ MaxJobs \in Nat /\ MaxDays \in Nat /\ MaxFaults \in Nat
BY SyncAssumption

LEMMA InitGood == Init => SyncInv
<1> SUFFICES ASSUME Init PROVE SyncInv
  OBVIOUS
<1>1. stored \in Document /\ stored.blocked = {} /\ stored.source = "none"
  BY DEF Init, Document
<1>2. copy = stored /\ op = stored /\ opWas = stored /\ over = {} /\ cut = {} /\ checks = {}
  BY DEF Init
<1>3. /\ phase = "idle" /\ opStage = "idle" /\ applied = FALSE /\ waived = {}
      /\ edits = 0 /\ jobs = 0 /\ days = 0 /\ faults = 0
  BY DEF Init
<1>4. Types
  <2>1. applied \in BOOLEAN
    BY <1>3
  <2>2. {stored, copy, op, opWas} \subseteq Document
    BY <1>1, <1>2
  <2>3. QED
    BY <1>1, <1>2, <1>3, <2>1, <2>2, BoundsFacts DEF Types, TypeOK
<1>5. Named(copy) /\ Named(op) /\ Debts
  BY <1>1, <1>2, <1>3 DEF Named, SameDesired, Debts, Settled, Document
<1>6. QED
  BY <1>4, <1>5 DEF SyncInv

LEMMA UpdateGood ==
    ASSUME SyncInv, NEW document \in Document, document.revision = stored.revision,
           Update(document), Types', UNCHANGED operator,
           document.pending \/ document.blocked \subseteq cut' \union waived',
           phase' # "settle"
    PROVE  SyncInv' /\ stored'.blocked = document.blocked
<1>1. /\ stored' \in Document /\ copy' = stored' /\ Grows
      /\ stored'.blocked = document.blocked /\ stored'.pending = document.pending
  BY UpdateFacts DEF SyncInv, Types, TypeOK, SameDesired
<1>2. Named(copy)'
  BY <1>1 DEF Named, SameDesired, Document
<1>3. Named(op)'
  BY <1>1, NamedStays DEF SyncInv, Types, TypeOK, Named, operator
<1>4. Debts'
  BY <1>1 DEF Debts, Settled
<1>5. QED
  BY <1>1, <1>2, <1>3, <1>4 DEF SyncInv

(* A step that leaves the stored document and the host alone. *)
LEMMA StoredStands ==
    ASSUME SyncInv, Types', stored' = stored, op' = op, copy' \in {copy, stored},
           cut' = cut, waived' = waived,
           phase' = "settle" /\ applied' => phase = "settle" /\ applied
    PROVE  SyncInv' /\ BlocksKept
<1>1. Named(copy)' /\ Named(op)'
  BY DEF SyncInv, Named, SameDesired, Types, TypeOK, Document
<1>2. Debts'
  BY DEF SyncInv, Debts, Settled
<1>3. QED
  BY <1>1, <1>2 DEF SyncInv, BlocksKept

-------------------------------------------------------------------------------
(* The steps of a cycle.                                                     *)

LEMMA StartCycleGood ==
    ASSUME SyncInv, NEW manual \in BOOLEAN, StartCycle(manual)
    PROVE  SyncInv' /\ BlocksKept
<1> USE DEF SyncInv, StartCycle
<1>1. Types'
  BY DEF Types, TypeOK, Document, host, operator, bounds
<1>2. QED
  BY <1>1, StoredStands DEF host, operator

LEMMA BlockExceededGood ==
    ASSUME SyncInv, BlockExceeded
    PROVE  SyncInv' /\ BlocksKept
<1> USE DEF SyncInv, BlockExceeded, GoTo, host, bounds
<1> DEFINE document == [stored EXCEPT !.blocked = @ \union Exceeded,
                                      !.pending = @ \/ Exceeded # {}]
           users == stored.blocked \union Exceeded
           owed == stored.pending \/ Exceeded # {}
<1>1. stored \in Document /\ Exceeded \subseteq Users
  BY DEF Types, TypeOK, Exceeded
<1>2. /\ users \in SUBSET Users /\ owed \in BOOLEAN
      /\ stored.source \in {"none", "certificates"}
  BY <1>1 DEF Document
<1>3. document = [stored EXCEPT !.blocked = users, !.pending = owed, !.source = stored.source]
  BY <1>1 DEF Document
<1>4. /\ document \in Document /\ document.revision = stored.revision
      /\ document.blocked = users /\ document.pending = owed /\ document.source = stored.source
  <2> HIDE DEF document, users, owed
  <2>1. CASE owed = TRUE
    BY <1>1, <1>2, <1>3, <2>1 DEF Document
  <2>2. CASE owed = FALSE
    BY <1>1, <1>2, <1>3, <2>2 DEF Document
  <2>3. QED
    BY <1>2, <2>1, <2>2
<1>5. Update(document)
  OBVIOUS
<1>6. document.pending \/ document.blocked \subseteq cut \union waived
  <2>1. CASE Exceeded = {}
    BY <1>4, <2>1 DEF Debts, Settled
  <2>2. QED
    BY <1>4, <2>1
<1>7. document.source = "certificates" => document.pending
  BY <1>4 DEF Types, TypeOK
<1> HIDE DEF document
<1>8. Types'
  BY <1>1, <1>4, <1>5, <1>7, UpdateFacts DEF Types, TypeOK, operator
<1>9. QED
  BY <1>4, <1>5, <1>6, <1>8, UpdateGood DEF BlocksKept

LEMMA MarkPendingGood ==
    ASSUME SyncInv, MarkPending
    PROVE  SyncInv' /\ BlocksKept
<1> USE DEF SyncInv, MarkPending, GoTo, host, bounds
<1> DEFINE document == [stored EXCEPT !.pending = TRUE]
<1>1. stored \in Document
  BY DEF Types, TypeOK
<1>2. /\ document \in Document /\ document.revision = stored.revision
      /\ document.pending = TRUE /\ document.blocked = stored.blocked
  BY <1>1 DEF Document
<1>3. Update(document)
  OBVIOUS
<1> HIDE DEF document
<1>4. Types'
  BY <1>1, <1>2, <1>3, UpdateFacts, BoundsFacts DEF Types, TypeOK, operator
<1>5. QED
  BY <1>2, <1>3, <1>4, UpdateGood DEF BlocksKept

LEMMA AuditCertificatesGood ==
    ASSUME SyncInv, AuditCertificates
    PROVE  SyncInv' /\ BlocksKept
<1> USE DEF SyncInv, AuditCertificates, GoTo, host, bounds
<1>1. stored \in Document
  BY DEF Types, TypeOK
<1> DEFINE document == IF expiring /\ ~stored.pending
                       THEN [stored EXCEPT !.pending = TRUE, !.source = "certificates"]
                       ELSE stored
<1>2. /\ document \in Document /\ document.revision = stored.revision
      /\ document.blocked = stored.blocked
      /\ document.pending \/ document = stored
      /\ document.source = "certificates" => document.pending
  <2>1. stored.source = "certificates" => stored.pending
    BY DEF Types, TypeOK
  <2>2. QED
    BY <1>1, <2>1 DEF Document
<1>3. Update(document)
  OBVIOUS
<1> HIDE DEF document
<1>4. document.pending \/ document.blocked \subseteq cut \union waived
  BY <1>2 DEF Debts, Settled
<1>5. Types'
  BY <1>1, <1>2, <1>3, UpdateFacts DEF Types, TypeOK, operator
<1>6. QED
  BY <1>2, <1>3, <1>4, <1>5, UpdateGood DEF BlocksKept

LEMMA NotPendingFacts ==
    ASSUME stored \in Document
    PROVE  /\ NotPending \in Document /\ NotPending.revision = stored.revision
           /\ NotPending.blocked = stored.blocked
           /\ NotPending.source = "none"
BY DEF NotPending, Document

(* The flag goes when the apply succeeded, and all is settled; or when a       *)
(* renewal failed, and what is not settled is waived.                          *)
LEMMA ClearPendingGood ==
    ASSUME SyncInv, ClearPending
    PROVE  SyncInv' /\ BlocksKept
<1> USE DEF SyncInv, ClearPending, GoTo, host, bounds
<1>1. stored \in Document
  BY DEF Types, TypeOK
<1>2. Types'
  BY <1>1, NotPendingFacts, UpdateFacts DEF Types, TypeOK, operator
<1>3. NotPending.blocked \subseteq cut \union waived
  BY <1>1, NotPendingFacts DEF Debts, Settled
<1>4. QED
  BY <1>1, <1>2, <1>3, NotPendingFacts, UpdateGood DEF BlocksKept

LEMMA DeferRenewalGood ==
    ASSUME SyncInv, DeferRenewal
    PROVE  SyncInv' /\ BlocksKept
<1> USE DEF SyncInv, DeferRenewal, GoTo, host, bounds
<1>1. stored \in Document /\ stored.blocked \subseteq Users
  BY DEF Types, TypeOK, Document
<1>2. Types'
  BY <1>1, NotPendingFacts, UpdateFacts DEF Types, TypeOK, operator
<1>3. NotPending.blocked \subseteq cut \union waived'
  BY <1>1, NotPendingFacts
<1>4. QED
  BY <1>1, <1>2, <1>3, NotPendingFacts, UpdateGood DEF BlocksKept

LEMMA ApplyFailsFacts ==
    ASSUME Types, NEW document, ApplyFails(document)
    PROVE  /\ UNCHANGED <<stored, cut, expiring, waived, edits, jobs, days>>
           /\ faults' \in 0..MaxFaults
BY BoundsFacts DEF Types, TypeOK, ApplyFails, Fault, host, bounds

LEMMA ApplyPendingGood ==
    ASSUME SyncInv, ApplyPending
    PROVE  SyncInv' /\ BlocksKept
<1> USE DEF SyncInv, ApplyPending
<1>1. stored \in Document /\ copy \in Document
  BY DEF Types, TypeOK
<1>2. CASE Applies(copy) /\ copy' = stored' /\ applied' = TRUE /\ UNCHANGED bounds
  <2>1. stored' = stored /\ cut' = stored.blocked /\ Settled'
    BY <1>1, <1>2, AppliesFacts
  <2>2. waived' \subseteq waived
    BY <1>2 DEF Applies
  <2>3. Types'
    BY <1>1, <1>2, <2>1, <2>2 DEF Types, TypeOK, Document, operator, bounds
  <2>4. Named(copy)' /\ Named(op)'
    BY <1>1, <1>2, <2>1 DEF Named, SameDesired, Document, operator
  <2>5. QED
    BY <2>1, <2>3, <2>4 DEF Debts, BlocksKept
<1>3. CASE ApplyFails(copy) /\ UNCHANGED copy /\ applied' = FALSE
  <2>1. Types'
    BY <1>3, ApplyFailsFacts DEF Types, TypeOK, operator
  <2>2. QED
    BY <1>3, <2>1, ApplyFailsFacts, StoredStands DEF operator
<1>4. QED
  BY <1>2, <1>3

(* The steps of a cycle that write nothing. *)
LEMMA QuietGood ==
    ASSUME SyncInv,
           \/ SkipLimits \/ NoMaintenance \/ SkipAudit \/ AuditFails
           \/ NothingPending \/ RetryNextCycle \/ CycleDies
    PROVE  SyncInv' /\ BlocksKept
<1>1. /\ UNCHANGED <<stored, over, host, due, copy, operator, waived, forced, checks, applied,
                     edits, jobs, days>>
      /\ phase' \in {"maintenance", "certificates", "apply", "idle"}
      /\ faults' \in 0..MaxFaults
  BY BoundsFacts DEF SyncInv, Types, TypeOK, SkipLimits, NoMaintenance, SkipAudit, AuditFails,
     NothingPending, RetryNextCycle, CycleDies, GoTo, Fault, bounds
<1>2. Types'
  BY <1>1 DEF SyncInv, Types, TypeOK, host, operator
<1>3. QED
  BY <1>1, <1>2, StoredStands DEF host, operator

-------------------------------------------------------------------------------
(* The steps of the operator.  A save changes the stored document and leaves *)
(* what is pending alone, so it has to keep what is settled settled.         *)

LEMMA SaveGood ==
    ASSUME SyncInv, NEW document \in Document, stored' = Saved(document),
           op' \in {op, stored'}, copy' = copy, phase' = phase, applied' = applied, Types',
           Settled => Settled'
    PROVE  SyncInv'
<1>1. stored \in Document /\ copy \in Document /\ op \in Document
  BY DEF SyncInv, Types, TypeOK
<1>2. /\ stored' \in Document /\ stored'.pending = stored.pending /\ Grows
  BY <1>1, SavedFacts DEF Grows, SameDesired
<1>3. Named(copy)'
  BY <1>1, <1>2, NamedStays DEF SyncInv, Named
<1>4. Named(op)'
  <2>1. CASE op' = op
    BY <1>1, <1>2, <2>1, NamedStays DEF SyncInv, Named
  <2>2. CASE op' = stored'
    BY <1>2, <2>2 DEF Named, SameDesired, Document
  <2>3. QED
    BY <2>1, <2>2
<1>5. Debts'
  BY <1>2 DEF SyncInv, Debts
<1>6. QED
  BY <1>3, <1>4, <1>5 DEF SyncInv

LEMMA SetBlockedGood ==
    ASSUME SyncInv, NEW u \in Users, NEW users \in SUBSET Users,
           users \in {stored.blocked \union {u}, stored.blocked \ {u}}, SetBlocked(u, users)
    PROVE  SyncInv'
<1> USE DEF SyncInv, SetBlocked, OperatorSaves
<1> DEFINE document == [stored EXCEPT !.blocked = users]
<1>1. stored \in Document
  BY DEF Types, TypeOK
<1>2. document \in Document /\ document.blocked = users
  BY <1>1 DEF Document
<1>3. stored' = Saved(document) /\ op' = stored' /\ opWas' = stored
  OBVIOUS
<1> HIDE DEF document
<1>4. /\ stored' \in Document /\ stored'.blocked = users
      /\ stored'.pending = stored.pending /\ stored'.source = stored.source
  BY <1>1, <1>2, <1>3, SavedFacts DEF SameDesired
<1>5. Types'
  BY <1>1, <1>3, <1>4, BoundsFacts DEF Types, TypeOK, host, agent
<1>6. Settled => Settled'
  BY <1>4 DEF Settled, host
<1>7. QED
  BY <1>2, <1>3, <1>5, <1>6, SaveGood DEF agent

LEMMA ToggleSettingGood ==
    ASSUME SyncInv, NEW setting \in Settings, ToggleSetting(setting)
    PROVE  SyncInv'
<1> USE DEF SyncInv, ToggleSetting
<1> DEFINE settings == IF setting \in stored.settings THEN stored.settings \ {setting}
                       ELSE stored.settings \union {setting}
           document == [stored EXCEPT !.settings = settings]
<1>1. stored \in Document
  BY DEF Types, TypeOK
<1>2. settings \in SUBSET Settings
  BY <1>1 DEF Document
<1>3. stored' = Saved(document)
  OBVIOUS
<1> HIDE DEF settings
<1>4. document \in Document /\ document.blocked = stored.blocked
  BY <1>1, <1>2 DEF Document
<1> HIDE DEF document
<1>5. /\ stored' \in Document /\ stored'.blocked = stored.blocked
      /\ stored'.pending = stored.pending /\ stored'.source = stored.source
  BY <1>1, <1>3, <1>4, SavedFacts DEF SameDesired
<1>6. Types'
  BY <1>5, BoundsFacts DEF Types, TypeOK, host, agent, operator
<1>7. Settled => Settled'
  BY <1>5 DEF Settled, host
<1>8. QED
  BY <1>3, <1>4, <1>6, <1>7, SaveGood DEF agent, operator

LEMMA OperatorAppliesGood ==
    ASSUME SyncInv, OperatorApplies
    PROVE  SyncInv' /\ BlocksKept
<1> USE DEF SyncInv, OperatorApplies
<1>1. stored \in Document /\ op \in Document
  BY DEF Types, TypeOK
<1>2. CASE Applies(op) /\ op' = stored' /\ opStage' = "idle" /\ UNCHANGED bounds
  <2>1. stored' = stored /\ cut' = stored.blocked /\ Settled'
    BY <1>1, <1>2, AppliesFacts
  <2>2. waived' \subseteq waived
    BY <1>2 DEF Applies
  <2>3. Types'
    BY <1>1, <1>2, <2>1, <2>2 DEF Types, TypeOK, Document, agent, bounds
  <2>4. Named(copy)' /\ Named(op)'
    BY <1>1, <1>2, <2>1 DEF Named, SameDesired, Document, agent
  <2>5. QED
    BY <2>1, <2>3, <2>4 DEF Debts, BlocksKept
<1>3. CASE ApplyFails(op) /\ UNCHANGED op /\ opStage' = "undo"
  <2>1. Types'
    BY <1>3, ApplyFailsFacts DEF Types, TypeOK, agent
  <2>2. QED
    BY <1>3, <2>1, ApplyFailsFacts, StoredStands DEF agent
<1>4. QED
  BY <1>2, <1>3

LEMMA OperatorReappliesGood ==
    ASSUME SyncInv, OperatorReapplies
    PROVE  SyncInv' /\ BlocksKept
<1> USE DEF SyncInv, OperatorReapplies
<1>1. stored \in Document /\ op \in Document
  BY DEF Types, TypeOK
<1>2. CASE Applies(op) /\ UNCHANGED bounds
  <2>1. stored' = stored /\ cut' = stored.blocked /\ Settled'
    BY <1>1, <1>2, AppliesFacts
  <2>2. waived' \subseteq waived
    BY <1>2 DEF Applies
  <2>3. Types'
    BY <1>1, <1>2, <2>1, <2>2 DEF Types, TypeOK, Document, agent, bounds
  <2>4. Named(copy)' /\ Named(op)'
    BY <1>1, <2>1 DEF Named, SameDesired, agent
  <2>5. QED
    BY <2>1, <2>3, <2>4 DEF Debts, BlocksKept
<1>3. CASE ApplyFails(op)
  <2>1. Types'
    BY <1>3, ApplyFailsFacts DEF Types, TypeOK, agent
  <2>2. QED
    BY <1>3, <2>1, ApplyFailsFacts, StoredStands DEF agent
<1>4. QED
  BY <1>2, <1>3

(* The snapshot under the session's own revision. *)
Restored == [opWas EXCEPT !.revision = op.revision]

(* A rollback that is not refused: either the snapshot is on disk already, or  *)
(* nobody wrote since the session did, and the disk holds its document.        *)
LEMMA RestoredFacts ==
    ASSUME SyncInv
    PROVE  /\ Restored \in Document /\ Restored.blocked = opWas.blocked
           /\ Restored.settings = opWas.settings /\ Restored.revision = op.revision
           /\ ~ Conflicts(Restored) =>
                 \/ stored.blocked = opWas.blocked
                 \/ stored.blocked = op.blocked
<1>1. op \in Document /\ opWas \in Document
  BY DEF SyncInv, Types, TypeOK
<1>2. /\ Restored \in Document /\ Restored.blocked = opWas.blocked
      /\ Restored.settings = opWas.settings /\ Restored.revision = op.revision
  BY <1>1 DEF Restored, Document
<1>3. ASSUME ~ Conflicts(Restored)
      PROVE  stored.blocked = opWas.blocked \/ stored.blocked = op.blocked
  BY <1>2, <1>3 DEF Conflicts, SameDesired, SyncInv, Named
<1>4. QED
  BY <1>2, <1>3

LEMMA OperatorRestoresGood ==
    ASSUME SyncInv, OperatorRestores
    PROVE  SyncInv'
<1> USE DEF SyncInv
<1>1. stored \in Document /\ op \in Document /\ opWas \in Document
  BY DEF Types, TypeOK
<1>2. /\ opStage' = "reapply"
      /\ op' = IF Conflicts(Restored) THEN Restored ELSE Saved(Restored)
      /\ stored' = IF Conflicts(Restored) THEN stored ELSE Saved(Restored)
      /\ waived' = IF Conflicts(Restored) THEN waived
                   ELSE (waived \ (op.blocked \ opWas.blocked))
                        \union ((opWas.blocked \ op.blocked) \ cut)
      /\ UNCHANGED <<over, host, due, agent, opWas, bounds>>
  BY DEF OperatorRestores, Restored
<1>3. CASE Conflicts(Restored)
  <2>1. Types'
    BY <1>1, <1>2, <1>3, RestoredFacts DEF Types, TypeOK, host, agent, bounds
  <2>2. op' = Restored /\ stored' = stored /\ copy' = copy
    BY <1>2, <1>3 DEF agent
  <2>3. Named(op)'
    BY <1>3, <2>2, RestoredFacts DEF Named, Conflicts
  <2>4. Named(copy)'
    BY <2>2 DEF Named
  <2>5. Debts'
    BY <1>2, <1>3 DEF Debts, Settled, host, agent
  <2>6. QED
    BY <2>1, <2>3, <2>4, <2>5
<1>4. CASE ~ Conflicts(Restored)
  <2>1. stored' = Saved(Restored) /\ op' = stored'
    BY <1>2, <1>4
  <2>2. /\ stored' \in Document /\ stored'.blocked = opWas.blocked
        /\ stored'.pending = stored.pending /\ stored'.source = stored.source
    BY <1>1, <2>1, RestoredFacts, SavedFacts DEF SameDesired
  <2>3. waived' = (waived \ (op.blocked \ opWas.blocked))
                  \union ((opWas.blocked \ op.blocked) \ cut)
    BY <1>2, <1>4
  <2>4. waived' \subseteq Users
    BY <1>1, <2>3 DEF Types, TypeOK, Document
  <2>5. Types'
    BY <1>2, <2>1, <2>2, <2>4 DEF Types, TypeOK, host, agent, bounds
  <2>6. Settled => Settled'
    BY <1>2, <1>4, <2>2, <2>3, RestoredFacts DEF Settled, host
  <2>7. QED
    BY <1>2, <2>1, <2>5, <2>6, RestoredFacts, SaveGood DEF agent
<1>5. QED
  BY <1>3, <1>4

(* Death, traffic and time write nothing. *)
LEMMA WorldGood ==
    ASSUME SyncInv, OperatorDies \/ NextDay \/ \E u \in Users : Exceed(u) \/ Renew(u)
    PROVE  SyncInv' /\ BlocksKept
<1>1. /\ UNCHANGED <<stored, cut, agent, op, opWas, waived>>
      /\ over' \subseteq Users /\ opStage' \in {opStage, "idle"}
  BY DEF SyncInv, Types, TypeOK, OperatorDies, NextDay, Exceed, Renew, host, operator
<1>2. /\ edits' \in 0..MaxEdits /\ jobs' \in 0..MaxJobs
      /\ days' \in 0..MaxDays /\ faults' \in 0..MaxFaults
  <2> USE BoundsFacts DEF SyncInv, Types, TypeOK
  <2>1. CASE OperatorDies
    BY <2>1 DEF OperatorDies, Fault
  <2>2. CASE NextDay
    BY <2>2 DEF NextDay
  <2>3. CASE \E u \in Users : Exceed(u) \/ Renew(u)
    BY <2>3 DEF Exceed, Renew, bounds
  <2>4. QED
    BY <2>1, <2>2, <2>3
<1>3. Types'
  BY <1>1, <1>2 DEF SyncInv, Types, TypeOK, agent
<1>4. QED
  BY <1>1, <1>3, StoredStands DEF agent

-------------------------------------------------------------------------------
LEMMA NextGood == SyncInv /\ [Next]_vars => SyncInv'
<1> SUFFICES ASSUME SyncInv, [Next]_vars PROVE SyncInv'
  OBVIOUS
<1>1. CASE \E manual \in BOOLEAN : StartCycle(manual)
  BY <1>1, StartCycleGood
<1>2. CASE CycleStep \/ CycleDies
  BY <1>2, BlockExceededGood, MarkPendingGood, AuditCertificatesGood, ApplyPendingGood,
     ClearPendingGood, DeferRenewalGood, QuietGood DEF CycleStep
<1>3. ASSUME NEW u \in Users, NEW users, SetBlocked(u, users),
             users \in {stored.blocked \union {u}, stored.blocked \ {u}}
      PROVE  SyncInv'
  <2>1. users \in SUBSET Users
    BY <1>3 DEF SyncInv, Types, TypeOK, Document
  <2>2. QED
    BY <1>3, <2>1, SetBlockedGood
<1>4. CASE \E setting \in Settings : ToggleSetting(setting)
  BY <1>4, ToggleSettingGood
<1>5. CASE OperatorStep
  BY <1>5, OperatorAppliesGood, OperatorRestoresGood, OperatorReappliesGood DEF OperatorStep
<1>6. CASE OperatorDies \/ NextDay \/ \E u \in Users : Exceed(u) \/ Renew(u)
  BY <1>6, WorldGood
<1>7. CASE UNCHANGED vars
  <2>1. Types'
    BY <1>7 DEF SyncInv, Types, TypeOK, vars
  <2>2. QED
    BY <1>7, <2>1, StoredStands DEF vars
<1>8. QED
  BY <1>1, <1>2, <1>3, <1>4, <1>5, <1>6, <1>7 DEF Next

(* The inductive invariant: a copy with the stored revision has the stored     *)
(* content, and no debt is struck off before it is paid.                       *)
THEOREM SyncInvariant == Spec => []SyncInv
<1>1. Init => SyncInv
  BY InitGood
<1>2. SyncInv /\ [Next]_vars => SyncInv'
  BY NextGood
<1>3. QED
  BY <1>1, <1>2, PTL DEF Spec

(* Documents, phases and counters are what they should be, and a certificate   *)
(* renewal is the source of an apply only while that apply is owed.            *)
THEOREM Typing == Spec => []TypeOK
<1>1. SyncInv => TypeOK
  BY DEF SyncInv, Types
<1>2. QED
  BY <1>1, SyncInvariant, PTL

(* Between cycles a user who is blocked on disk and still served has an apply  *)
(* owed: sync_config_pending outlives deaths, failed and refused applies, and  *)
(* is cleared only after one that carried the block.                           *)
THEOREM NoBlockForgotten == Spec => []BlocksAreOwed
<1>1. SyncInv => BlocksAreOwed
  BY DEF SyncInv, Debts, Settled, BlocksAreOwed
<1>2. QED
  BY <1>1, SyncInvariant, PTL

(* A block the agent wrote is lifted by nobody but an operator who unblocks    *)
(* that very user: an apply of a stale copy passes the conflict check only     *)
(* with the stored content, and a rollback that passes it finds its own save.  *)
THEOREM BlocksStand == Spec => AutomaticBlocksStay
<1> DEFINE Lift == \A u \in stored.blocked \ stored'.blocked :
                      \/ edits' > edits
                      \/ opStage = "undo" /\ u \in op.blocked \ opWas.blocked
<1>1. SyncInv /\ Next => Lift
  <2> SUFFICES ASSUME SyncInv, Next PROVE Lift
    OBVIOUS
  <2>1. edits \in Nat /\ stored \in Document
    BY DEF SyncInv, Types, TypeOK
  <2>2. CASE \E manual \in BOOLEAN : StartCycle(manual)
    BY <2>2, StartCycleGood DEF BlocksKept
  <2>3. CASE CycleStep \/ CycleDies
    BY <2>3, BlockExceededGood, MarkPendingGood, AuditCertificatesGood, ApplyPendingGood,
       ClearPendingGood, DeferRenewalGood, QuietGood DEF CycleStep, BlocksKept
  <2>4. CASE \/ \E u \in Users : \/ SetBlocked(u, stored.blocked \union {u})
                                \/ SetBlocked(u, stored.blocked \ {u})
             \/ \E setting \in Settings : ToggleSetting(setting)
    <3>1. edits' = edits + 1
      BY <2>4 DEF SetBlocked, OperatorSaves, ToggleSetting
    <3>2. QED
      BY <2>1, <3>1
  <2>5. CASE OperatorApplies \/ OperatorReapplies
    BY <2>5, OperatorAppliesGood, OperatorReappliesGood DEF BlocksKept
  <2>6. CASE OperatorRestores
    <3>1. /\ opStage = "undo"
          /\ stored' = IF Conflicts(Restored) THEN stored ELSE Saved(Restored)
      BY <2>6 DEF OperatorRestores, Restored
    <3>2. CASE Conflicts(Restored)
      BY <3>1, <3>2
    <3>3. CASE ~ Conflicts(Restored)
      <4>1. stored'.blocked = opWas.blocked
        BY <2>1, <3>1, <3>3, RestoredFacts, SavedFacts DEF SameDesired
      <4>2. stored.blocked = opWas.blocked \/ stored.blocked = op.blocked
        BY <3>3, RestoredFacts
      <4>3. QED
        BY <3>1, <4>1, <4>2
    <3>4. QED
      BY <3>2, <3>3
  <2>7. CASE OperatorDies \/ NextDay \/ \E u \in Users : Exceed(u) \/ Renew(u)
    BY <2>7, WorldGood DEF BlocksKept
  <2>8. QED
    BY <2>2, <2>3, <2>4, <2>5, <2>6, <2>7 DEF Next, OperatorStep
<1> HIDE DEF Lift
<1>2. SyncInv /\ [Next]_vars => [Lift]_vars
  BY <1>1
<1>3. Spec => [][Lift]_vars
  BY <1>2, SyncInvariant, PTL DEF Spec
<1>4. QED
  BY <1>3 DEF AutomaticBlocksStay, Lift
===============================================================================
