--------------------------- MODULE CallsPool_proofs ----------------------------
(***************************************************************************)
(* The room pool for any number of slots, operations, faults and closed    *)
(* rooms.  The invariant annotates the operation that holds the lock: what *)
(* its steps have found, built and stopped when it is at a step, and what  *)
(* is so as long as nothing went wrong that leaves units behind.           *)
(***************************************************************************)
EXTENDS CallsPool, TLAPS

Building == {"start", "commit", "apply", "finalize", "undoPool"}
Swapping == {"slotWrite", "slotApply", "slotFinalize", "undoSlot"}
Removing == {"stop", "leave", "forget", "restorePool"}
Begun == {"create", "slotStart", "stop"}

(* The generation a transition builds beside this pool, and the pool it makes. *)
Target(p) == IF p # None /\ p.generation = "a" THEN "b" ELSE "a"
Built(p) == [generation |-> Target(p), slots |-> [s \in Slots |-> Target(p)]]
Staged(p) == [generation |-> Target(p), previous |-> IF p = None THEN None ELSE p.generation,
              pool |-> p]

(* The room a replacement takes away, the one it brings, and the pool it makes. *)
Leaving == <<op.pool.slots[op.slot], op.slot>>
Coming == <<IF op.pool.slots[op.slot] = "a" THEN "b" ELSE "a", op.slot>>
Swapped == [op.pool EXCEPT !.slots[op.slot] = Coming[1]]

(* The units that may run for the stored state, now and when the operation began. *)
Served == IF desired THEN Members(pool) ELSE {}
Base == IF op.desired THEN Members(op.pool) ELSE {}

Open(u) == room[u] # None /\ u \in up

-------------------------------------------------------------------------------
Roles ==
    op # None =>
        /\ op.pc \in Building \union {"create"} => op.kind = "transition"
        /\ op.pc \in Swapping \union {"slotStart"} => op.kind = "replace"
        /\ op.pc \in Removing <=> op.units # None /\ op.pc \notin {"undone", "end"}
        /\ op.units # None <=> op.kind \in {"disable", "uninstall"}
        /\ op.kind = "replace" => op.desired /\ op.slot \in Slots
        /\ op.ok => op.pc = "end"

(* A stage outlives its operation only in the menu, after something went wrong. *)
Memory ==
    trouble = {} => \A p \in Processes :
        stage[p] # None => op # None /\ op.process = p /\ op.pc \in Building

Progress ==
    op # None =>
        /\ op.pc \in Begun \union {"start", "commit", "slotWrite"} =>
              pool = op.pool /\ desired = op.desired
        /\ op.pc \in Building => stage[op.process] = Staged(op.pool)
        /\ op.pc \in {"commit", "apply", "finalize"} => \A u \in Whole(Target(op.pool)) : Open(u)
        /\ op.pc \in {"apply", "finalize"} => pool = Built(op.pool)
        /\ op.pc = "finalize" => desired /\ serving
        /\ op.pc \in Swapping => op.pool # None /\ desired
        /\ IF op.pc \in {"slotApply", "slotFinalize", "undoSlot"}
           THEN /\ replacing[op.process] = [old |-> Leaving, new |-> Coming, pool |-> op.pool]
                /\ pool = Swapped
           ELSE replacing[op.process] = None
        /\ op.pc \in {"leave", "forget"} => up = {}
        /\ op.pc = "forget" => ~ desired

(* Without a failed undo and without a death. *)
Quiet ==
    op # None /\ trouble = {} =>
        /\ op.pc \in Begun \union {"undone"} => up \subseteq Base
        /\ op.pc \in Building => up \subseteq Base \union Whole(Target(op.pool))
        /\ op.pc \in Swapping => up \subseteq Base \union {Coming}
        /\ op.pc = "restorePool" => up = {}
        /\ op.units # None => op.units[2] \subseteq Base
        /\ op.pc \in {"undone", "end"} /\ ~ op.ok => pool = op.pool
        /\ op.pc = "end" => up \subseteq Served
        /\ op.kind = "transition" /\ op.intact /\ ~ Mixed(op.pool) /\ ~ op.ok =>
              CompleteIn(op.pool, room, up)

(* What starts a new count: a transition or a removal that succeeded leaves no  *)
(* unit behind, whatever was left by others before it.                          *)
Success ==
    /\ SuccessMeansWhole
    /\ op # None /\ op.ok /\ op.kind # "replace" => up \subseteq Served

(* Without a pool only the generation runs that the next transition clears. *)
Bare ==
    /\ pool = None => up \subseteq Whole("a")
    /\ op # None /\ op.pool = None =>
           up \subseteq Whole("a") /\ (op.units # None => op.units[2] \subseteq Whole("a"))

PoolInv == TypeOK /\ Roles /\ Memory /\ Progress /\ Quiet /\ Success /\ Bare /\ NoRoomLeaks

-------------------------------------------------------------------------------
(* Pools and their units.                                                    *)

LEMMA NoneFacts ==
    /\ None \notin Room /\ None \notin Generations /\ None \notin Pool /\ None \notin Stage
    /\ None \notin Exchange /\ None \notin Slots /\ None # AllSlots /\ None \notin Snapshot
    /\ None \notin Operation /\ Menu # Job /\ Slots # {}
BY CallsAssumption, SentinelAssumption

LEMMA WholeFacts ==
    /\ Whole("a") \subseteq Units /\ Whole("b") \subseteq Units
    /\ \A u \in Units : u \in Whole("a") <=> u \notin Whole("b")
BY DEF Whole, Units, Generations

LEMMA PoolFacts ==
    ASSUME NEW p \in Pool \union {None}
    PROVE  /\ Target(p) \in Generations /\ Staged(p) \in Stage
           /\ p = None => Target(p) = "a" /\ Members(p) = {}
           /\ p # None => p \in Pool /\ p.generation \in Generations /\ Target(p) # p.generation
           /\ p # None /\ ~ Mixed(p) => Members(p) = Whole(p.generation)
           /\ Members(p) \subseteq Units
<1>1. Target(p) \in Generations
  BY DEF Target, Generations
<1>2. p # None => p \in Pool /\ p.generation \in Generations /\ Target(p) # p.generation
  BY DEF Pool, Target, Generations
<1>3. Staged(p) \in Stage
  BY <1>1, <1>2 DEF Staged, Stage
<1>4. p = None => Target(p) = "a" /\ Members(p) = {}
  BY DEF Target, Members
<1>5. p # None /\ ~ Mixed(p) => Members(p) = Whole(p.generation)
  BY DEF Mixed, Members, Whole
<1>6. Members(p) \subseteq Units
  BY DEF Members, Pool, Units
<1>7. QED
  BY <1>1, <1>2, <1>3, <1>4, <1>5, <1>6

LEMMA BuiltFacts ==
    ASSUME NEW p \in Pool \union {None}
    PROVE  /\ Built(p) \in Pool /\ Built(p) # None /\ ~ Mixed(Built(p))
           /\ Members(Built(p)) = Whole(Target(p))
<1>1. Target(p) \in Generations
  BY PoolFacts
<1>2. Built(p) \in Pool
  BY <1>1 DEF Built, Pool
<1>3. ~ Mixed(Built(p)) /\ Members(Built(p)) = Whole(Target(p))
  BY <1>2, NoneFacts DEF Mixed, Built, Members, Whole
<1>4. QED
  BY <1>2, <1>3, NoneFacts

-------------------------------------------------------------------------------
(* Units that are stopped, cleared or started.                               *)

LEMMA ClearedFacts ==
    ASSUME TypeOK, NEW some \in SUBSET Units, Cleared(some)
    PROVE  /\ room' \in [Units -> Room \union {None}]
           /\ \A u \in Units : u \notin some => room'[u] = room[u]
BY DEF TypeOK, Cleared

LEMMA PartlyFacts ==
    ASSUME TypeOK, NEW some, PartlyStopped(some)
    PROVE  up' \subseteq up /\ up \subseteq up' \union some
BY DEF PartlyStopped, Stopped

LEMMA StartedFacts ==
    ASSUME TypeOK, NEW some \in SUBSET Units, Started(some)
    PROVE  /\ room' \in [Units -> Room \union {None}] /\ up' = up \union some
           /\ up' \subseteq Units
           /\ \A u \in some : room'[u] # None
           /\ \A u \in Units : room[u] # None => room'[u] # None
<1>1. Fresh \in Room
  BY DEF Fresh, Room
<1>2. QED
  BY <1>1, NoneFacts DEF TypeOK, Started

-------------------------------------------------------------------------------
(* The operation takes a step and remains what it is.                        *)

Same ==
    /\ op' \in Operation /\ op' # None
    /\ op'.process = op.process /\ op'.kind = op.kind /\ op'.slot = op.slot
    /\ op'.desired = op.desired /\ op'.pool = op.pool /\ op'.units = op.units
    /\ op'.intact = op.intact

LEMMA OpFacts ==
    ASSUME TypeOK, op # None
    PROVE  /\ op \in Operation /\ op.process \in Processes /\ op.pc \in Pcs
           /\ op.pool \in Pool \union {None} /\ op.slot \in Slots \union {None}
           /\ op.units \in Snapshot \union {None}
           /\ op.desired \in BOOLEAN /\ op.ok \in BOOLEAN
           /\ op.kind \in {"transition", "replace", "disable", "uninstall"}
BY DEF TypeOK, Operation

LEMMA GoFacts ==
    ASSUME TypeOK, op # None, NEW next \in Pcs, Go(next)
    PROVE  Same /\ op'.pc = next /\ op'.ok = op.ok
<1>1. op \in Operation
  BY OpFacts
<1>2. op' \in Operation
  BY <1>1 DEF Go, Operation
<1>3. op' # None
  BY <1>2, NoneFacts
<1>4. QED
  BY <1>1, <1>2, <1>3 DEF Go, Operation, Same

LEMMA DoneFacts ==
    ASSUME TypeOK, op # None, op' = [op EXCEPT !.pc = "end", !.ok = TRUE]
    PROVE  Same /\ op'.pc = "end" /\ op'.ok
<1>1. op \in Operation
  BY OpFacts
<1>2. op' \in Operation
  BY <1>1 DEF Operation, Pcs
<1>3. op' # None
  BY <1>2, NoneFacts
<1>4. QED
  BY <1>1, <1>2, <1>3 DEF Operation, Same

LEMMA SameFacts ==
    ASSUME Same
    PROVE  UNCHANGED <<Base, Leaving, Coming, Swapped>>
BY DEF Same, Base, Leaving, Coming, Swapped

(* Only the process of the operation changes its own memory. *)
LEMMA StageFacts ==
    ASSUME TypeOK, NEW p \in Processes, NEW value \in Stage \union {None},
           stage' = [stage EXCEPT ![p] = value]
    PROVE  /\ stage' \in [Processes -> Stage \union {None}] /\ stage'[p] = value
           /\ \A q \in Processes : q # p => stage'[q] = stage[q]
BY DEF TypeOK

LEMMA ReplacingFacts ==
    ASSUME TypeOK, NEW p \in Processes, NEW value \in Exchange \union {None},
           replacing' = [replacing EXCEPT ![p] = value]
    PROVE  /\ replacing' \in [Processes -> Exchange \union {None}] /\ replacing'[p] = value
           /\ \A q \in Processes : q # p => replacing'[q] = replacing[q]
BY DEF TypeOK

(* A step of an operation that has not succeeded yet. *)
LEMMA StepGood ==
    ASSUME PoolInv, op # None, Same, ~ op'.ok,
           TypeOK', Roles', Memory', Progress', Quiet', Bare'
    PROVE  PoolInv'
BY DEF PoolInv, Same, Success, SuccessMeansWhole, NoRoomLeaks, Free

(* A step that touches neither units nor what is stored. *)
LEMMA BareStays ==
    ASSUME Bare, op # None, Same, up' \subseteq up, pool' = pool
    PROVE  Bare'
BY DEF Bare, Same

-------------------------------------------------------------------------------
(* A transition.                                                             *)

LEMMA LeftoverGood ==
    ASSUME PoolInv, FinalizeLeftover
    PROVE  PoolInv'
<1> DEFINE old == IF stage[op.process].previous = None THEN {}
                  ELSE Whole(stage[op.process].previous)
<1> USE DEF PoolInv
<1>1. op # None /\ op.pc = "create" /\ op.process \in Processes /\ ~ op.ok
  BY OpFacts DEF FinalizeLeftover, Roles
<1>2. stage[op.process] \in Stage /\ trouble # {}
  BY <1>1 DEF FinalizeLeftover, TypeOK, Memory, Building
<1>3. old \in SUBSET Units
  BY <1>2 DEF Stage, Whole, Units
<1>4. /\ Cleared(old) /\ trouble' # {} /\ trouble' \subseteq {"stop", "start", "write", "kill"}
      /\ UNCHANGED <<pool, desired, serving, replacing, decision>>
      /\ up' \subseteq up
      /\ \/ op'.pc = "create" /\ stage' = [stage EXCEPT ![op.process] = None]
         \/ op'.pc = "undone" /\ stage' = stage
      /\ Same /\ ~ op'.ok
  <2>1. CASE /\ Stopped(old) /\ NoFault /\ Go("create") /\ UNCHANGED trouble
             /\ stage' = [stage EXCEPT ![op.process] = None]
    <3>1. Same /\ op'.pc = "create" /\ ~ op'.ok
      BY <1>1, <2>1, GoFacts DEF Pcs
    <3>2. QED
      BY <1>2, <2>1, <3>1 DEF FinalizeLeftover, state, Stopped, TypeOK
  <2>2. CASE /\ PartlyStopped(old) /\ Fault /\ Go("undone") /\ Troubled("stop")
             /\ UNCHANGED stage
    <3>1. Same /\ op'.pc = "undone" /\ ~ op'.ok
      BY <1>1, <2>2, GoFacts DEF Pcs
    <3>2. up' \subseteq up
      BY <2>2, PartlyFacts
    <3>3. QED
      BY <1>2, <2>2, <3>1, <3>2 DEF FinalizeLeftover, state, Troubled, TypeOK
  <2>3. QED
    BY <2>1, <2>2 DEF FinalizeLeftover
<1>5. room' \in [Units -> Room \union {None}]
  BY <1>3, <1>4, ClearedFacts
<1>6. /\ stage' \in [Processes -> Stage \union {None}]
      /\ \A p \in Processes : stage'[p] # None => stage[p] # None
  BY <1>1, <1>4, StageFacts DEF TypeOK
<1> HIDE DEF old
<1>7. TypeOK'
  BY <1>1, <1>4, <1>5, <1>6 DEF TypeOK, Same
<1>8. Roles' /\ Progress'
  BY <1>1, <1>4 DEF Roles, Progress, Same, Building, Swapping, Removing, Begun
<1>9. Memory' /\ Quiet'
  BY <1>4 DEF Memory, Quiet
<1>10. Bare'
  BY <1>1, <1>4, BareStays
<1>11. QED
  BY <1>1, <1>4, <1>7, <1>8, <1>9, <1>10, StepGood

LEMMA ClearTargetGood ==
    ASSUME PoolInv, ClearTarget
    PROVE  PoolInv'
<1> DEFINE t == Target(op.pool)
<1> USE DEF PoolInv
<1>1. /\ op # None /\ op.pc = "create" /\ op.process \in Processes /\ ~ op.ok
      /\ op.pool \in Pool \union {None} /\ op.kind = "transition"
  BY OpFacts DEF ClearTarget, At, Roles
<1>2. Same /\ op'.pc = "start" /\ op'.ok = op.ok
  BY <1>1, GoFacts DEF ClearTarget, At, Pcs
<1>3. pool = op.pool /\ desired = op.desired
  BY <1>1 DEF Progress, Begun
<1>4. t \in Generations /\ Staged(op.pool) \in Stage /\ Whole(t) \in SUBSET Units
  BY <1>1, PoolFacts DEF Whole, Units
<1>5. /\ stage' = [stage EXCEPT ![op.process] = Staged(op.pool)] /\ Cleared(Whole(t))
      /\ UNCHANGED <<pool, desired, serving, replacing, decision>>
      /\ \/ Stopped(Whole(t)) /\ UNCHANGED trouble
         \/ PartlyStopped(Whole(t)) /\ Troubled("stop")
  <2> DEFINE active == IF pool = None THEN None ELSE pool.generation
             target == IF active = "a" THEN "b" ELSE "a"
  <2>1. target = t
    BY <1>3, NoneFacts DEF Target, Generations
  <2>2. [generation |-> target, previous |-> active, pool |-> pool] = Staged(op.pool)
    BY <1>3, <2>1 DEF Staged
  <2>3. QED
    BY <2>1, <2>2 DEF ClearTarget, At, state
<1>6. /\ room' \in [Units -> Room \union {None}]
      /\ \A u \in Units : u \notin Whole(t) => room'[u] = room[u]
  BY <1>4, <1>5, ClearedFacts
<1>7. /\ stage' \in [Processes -> Stage \union {None}] /\ stage'[op.process] = Staged(op.pool)
      /\ \A q \in Processes : q # op.process => stage'[q] = stage[q]
  BY <1>1, <1>4, <1>5, StageFacts
<1>8. up' \subseteq up /\ up \subseteq up' \union Whole(t)
  BY <1>5, PartlyFacts DEF Stopped
<1>9. trouble' \subseteq {"stop", "start", "write", "kill"} /\ (trouble' = {} => trouble = {})
  BY <1>5 DEF Troubled, TypeOK
<1> HIDE DEF t
<1>10. TypeOK'
  BY <1>1, <1>2, <1>5, <1>6, <1>7, <1>8, <1>9 DEF TypeOK, Same, Processes
<1>11. Roles'
  BY <1>1, <1>2 DEF Roles, Same, Building, Swapping, Removing
<1>12. Progress'
  BY <1>1, <1>2, <1>3, <1>5, <1>7 DEF Progress, Same, Building, Swapping, Begun
<1>13. Memory'
  BY <1>1, <1>2, <1>7, <1>9 DEF Memory, Same, Building
<1>14. Quiet'
  <2>1. UNCHANGED <<Base, Coming>>
    BY <1>2, SameFacts
  <2>2. \A u \in Members(op.pool) : ~ Mixed(op.pool) => u \in Units /\ u \notin Whole(t)
    BY <1>1, PoolFacts, WholeFacts DEF t, Generations
  <2>3. trouble = {} /\ op.intact /\ ~ Mixed(op.pool) => CompleteIn(op.pool, room', up')
    BY <1>1, <1>6, <1>8, <2>2 DEF Quiet, CompleteIn
  <2>4. trouble = {} => up \subseteq Base /\ (op.units # None => op.units[2] \subseteq Base)
    BY <1>1 DEF Quiet, Begun
  <2>5. QED
    BY <1>1, <1>2, <1>8, <1>9, <2>1, <2>3, <2>4
    DEF Quiet, Same, Building, Swapping, Begun
<1>15. Bare'
  BY <1>1, <1>2, <1>5, <1>8, BareStays
<1>16. QED
  BY <1>1, <1>2, <1>10, <1>11, <1>12, <1>13, <1>14, <1>15, StepGood

LEMMA CreateRefusedGood ==
    ASSUME PoolInv, CreateRefused
    PROVE  PoolInv'
<1> USE DEF PoolInv
<1>1. op # None /\ op.pc = "create" /\ op.process \in Processes /\ ~ op.ok
  BY OpFacts DEF CreateRefused, At, Roles
<1>2. Same /\ op'.pc = "undone" /\ op'.ok = op.ok
  BY <1>1, GoFacts DEF CreateRefused, At, Pcs
<1>3. UNCHANGED <<room, up, pool, desired, serving, stage, replacing, trouble, decision>>
  BY DEF CreateRefused, At, units, state, memory
<1>4. TypeOK'
  BY <1>2, <1>3 DEF TypeOK, Same
<1>5. Roles' /\ Progress' /\ Memory'
  BY <1>1, <1>2, <1>3 DEF Roles, Progress, Memory, Same, Building, Swapping, Removing, Begun
<1>6. Quiet'
  <2>1. UNCHANGED <<Base, Coming>>
    BY <1>2, SameFacts
  <2>2. op.pool = pool
    BY <1>1 DEF Progress, Begun
  <2>3. QED
    BY <1>1, <1>2, <1>3, <2>1, <2>2 DEF Quiet, Same, Building, Swapping, Begun
<1>7. Bare'
  BY <1>1, <1>2, <1>3, BareStays
<1>8. QED
  BY <1>1, <1>2, <1>4, <1>5, <1>6, <1>7, StepGood

(* Rooms of the generation that is built are opened, all of them or some. *)
LEMMA StartGood ==
    ASSUME PoolInv, op # None, op.pc = "start", Same, op'.ok = op.ok,
           NEW some \in SUBSET Whole(Target(op.pool)), Started(some),
           \/ op'.pc = "commit" /\ some = Whole(Target(op.pool))
           \/ op'.pc = "undoPool",
           UNCHANGED <<pool, desired, serving, stage, replacing, trouble, decision>>
    PROVE  PoolInv'
<1> DEFINE t == Target(op.pool)
<1> USE DEF PoolInv
<1>1. /\ op.process \in Processes /\ ~ op.ok
      /\ op.pool \in Pool \union {None} /\ op.kind = "transition"
  BY OpFacts DEF Roles, Building
<1>2. t \in Generations /\ Whole(t) \in SUBSET Units /\ some \in SUBSET Units
  BY <1>1, PoolFacts DEF Whole, Units
<1>3. /\ room' \in [Units -> Room \union {None}] /\ up' = up \union some /\ up' \subseteq Units
      /\ \A u \in some : room'[u] # None
      /\ \A u \in Units : room[u] # None => room'[u] # None
  BY <1>2, StartedFacts
<1>4. pool = op.pool
  BY DEF Progress
<1>5. op.pc = "start" /\ op'.pc \in {"commit", "undoPool"}
  OBVIOUS
<1>6. TypeOK'
  BY <1>3, <1>5 DEF TypeOK, Same
<1>7. Roles' /\ Memory'
  BY <1>1, <1>5 DEF Roles, Memory, Same, Building, Swapping, Removing
<1>8. Progress'
  BY <1>1, <1>3, <1>5 DEF Progress, Open, Same, Building, Swapping, Begun
<1>9. Quiet'
  <2>1. UNCHANGED <<Base, Coming>>
    BY SameFacts
  <2>2. Members(op.pool) \subseteq Units
    BY <1>1, PoolFacts
  <2>3. CompleteIn(op.pool, room, up) => CompleteIn(op.pool, room', up')
    BY <1>3, <2>2 DEF CompleteIn
  <2>4. trouble = {} => up \subseteq Base \union Whole(t)
    BY DEF Quiet, Building
  <2>5. trouble = {} => up' \subseteq Base \union Whole(t)
    BY <1>3, <2>4
  <2>6. QED
    BY <1>1, <1>5, <2>1, <2>3, <2>5 DEF Quiet, Same, Building, Swapping, Begun
<1>10. Bare'
  BY <1>1, <1>3, <1>4, PoolFacts DEF Bare, Same
<1>11. QED
  BY <1>1, <1>6, <1>7, <1>8, <1>9, <1>10, StepGood

LEMMA StartTargetGood ==
    ASSUME PoolInv, StartTarget \/ StartFails
    PROVE  PoolInv'
<1> USE DEF PoolInv
<1>1. op # None /\ op.pc = "start"
  BY DEF StartTarget, StartFails, At
<1>2. stage[op.process].generation = Target(op.pool)
  BY <1>1 DEF Progress, Building, Staged
<1>3. UNCHANGED <<pool, desired, serving, stage, replacing, trouble, decision>>
  BY DEF StartTarget, StartFails, At, state, memory
<1>4. CASE StartTarget
  <2>1. Same /\ op'.pc = "commit" /\ op'.ok = op.ok
    BY <1>1, <1>4, GoFacts DEF StartTarget, At, Pcs
  <2>2. Started(Whole(Target(op.pool)))
    BY <1>2, <1>4 DEF StartTarget
  <2>3. QED
    BY <1>1, <1>3, <2>1, <2>2, StartGood
<1>5. CASE StartFails
  <2>1. Same /\ op'.pc = "undoPool" /\ op'.ok = op.ok
    BY <1>1, <1>5, GoFacts DEF StartFails, At, Pcs
  <2>2. PICK some \in SUBSET Whole(Target(op.pool)) : Started(some)
    BY <1>2, <1>5 DEF StartFails
  <2>3. QED
    BY <1>1, <1>3, <2>1, <2>2, StartGood
<1>6. QED
  BY <1>4, <1>5

LEMMA CommitPoolGood ==
    ASSUME PoolInv, CommitPool
    PROVE  PoolInv'
<1> USE DEF PoolInv
<1>1. /\ op # None /\ op.pc = "commit" /\ op.process \in Processes /\ ~ op.ok
      /\ op.pool \in Pool \union {None} /\ op.kind = "transition"
  BY OpFacts DEF CommitPool, Roles, Building
<1>2. stage[op.process].generation = Target(op.pool)
  BY <1>1 DEF Progress, Building, Staged
<1>3. UNCHANGED <<room, up, desired, serving, stage, replacing, trouble, decision>>
  BY DEF CommitPool, units, state, memory
<1>4. /\ Same /\ op'.ok = op.ok
      /\ \/ op'.pc = "apply" /\ pool' = Built(op.pool)
         \/ op'.pc = "undoPool" /\ pool' = pool
  BY <1>1, <1>2, GoFacts DEF CommitPool, Pcs, Built
<1>5. Built(op.pool) \in Pool /\ Built(op.pool) # None
  BY <1>1, BuiltFacts
<1>6. TypeOK'
  BY <1>3, <1>4, <1>5 DEF TypeOK, Same
<1>7. Roles' /\ Memory'
  BY <1>1, <1>3, <1>4 DEF Roles, Memory, Same, Building, Swapping, Removing
<1>8. Progress'
  BY <1>1, <1>3, <1>4 DEF Progress, Open, Same, Building, Swapping, Begun
<1>9. Quiet'
  <2>1. UNCHANGED <<Base, Coming>>
    BY <1>4, SameFacts
  <2>2. QED
    BY <1>1, <1>3, <1>4, <2>1 DEF Quiet, Same, Building, Swapping, Begun
<1>10. Bare'
  BY <1>1, <1>3, <1>4, <1>5 DEF Bare, Same
<1>11. QED
  BY <1>1, <1>4, <1>6, <1>7, <1>8, <1>9, <1>10, StepGood

LEMMA ApplyGood ==
    ASSUME PoolInv, Apply
    PROVE  PoolInv'
<1> USE DEF PoolInv
<1>1. /\ op # None /\ op.pc = "apply" /\ op.process \in Processes /\ ~ op.ok
      /\ op.kind = "transition"
  BY OpFacts DEF Apply, Roles, Building
<1>2. UNCHANGED <<room, up, pool, stage, replacing, trouble, decision>>
  BY DEF Apply, units, memory
<1>3. /\ Same /\ op'.ok = op.ok /\ op'.pc \in {"finalize", "undoPool"}
      /\ op'.pc = "finalize" => desired' /\ serving'
      /\ desired' \in BOOLEAN /\ serving' \in BOOLEAN
  BY <1>1, GoFacts DEF Apply, Pcs, state, TypeOK
<1>4. TypeOK'
  BY <1>2, <1>3 DEF TypeOK, Same
<1>5. Roles' /\ Memory'
  BY <1>1, <1>2, <1>3 DEF Roles, Memory, Same, Building, Swapping, Removing
<1>6. Progress'
  BY <1>1, <1>2, <1>3 DEF Progress, Open, Same, Building, Swapping, Begun
<1>7. Quiet'
  <2>1. UNCHANGED <<Base, Coming>>
    BY <1>3, SameFacts
  <2>2. QED
    BY <1>1, <1>2, <1>3, <2>1 DEF Quiet, Same, Building, Swapping, Begun
<1>8. Bare'
  BY <1>1, <1>2, <1>3, BareStays
<1>9. QED
  BY <1>1, <1>3, <1>4, <1>5, <1>6, <1>7, <1>8, StepGood

(* What an operation that succeeded leaves. *)
LEMMA SuccessGood ==
    ASSUME PoolInv, op # None, Same, op'.ok, op'.pc = "end",
           TypeOK', Bare', Success',
           trouble' = trouble, replacing'[op.process] = None,
           trouble = {} => stage'[op.process] = None,
           \A p \in Processes : p # op.process => stage'[p] = stage[p],
           op.kind = "replace" /\ trouble = {} => up' \subseteq Served'
    PROVE  PoolInv'
<1> USE DEF PoolInv
<1>1. op.process \in Processes
  BY OpFacts
<1>2. Roles'
  BY <1>1 DEF Roles, Same, Building, Swapping, Removing
<1>3. Memory'
  BY <1>1 DEF Memory, Same
<1>4. Progress'
  BY DEF Progress, Same, Building, Swapping, Begun
<1>5. Quiet'
  <2>1. UNCHANGED Base
    BY SameFacts
  <2>2. trouble' = {} => up' \subseteq Served'
    BY DEF Success, Same
  <2>3. QED
    BY <2>1, <2>2 DEF Quiet, Same, Building, Swapping, Begun
<1>6. NoRoomLeaks'
  BY DEF NoRoomLeaks, Free, Same
<1>7. QED
  BY <1>2, <1>3, <1>4, <1>5, <1>6

LEMMA FinalizePoolGood ==
    ASSUME PoolInv, FinalizePool
    PROVE  PoolInv'
<1> DEFINE t == Target(op.pool)
           old == IF op.pool = None THEN {} ELSE Whole(op.pool.generation)
<1> USE DEF PoolInv
<1>1. /\ op # None /\ op.pc = "finalize" /\ op.process \in Processes /\ ~ op.ok
      /\ op.pool \in Pool \union {None} /\ op.kind = "transition"
  BY OpFacts DEF FinalizePool, Roles, Building
<1>2. /\ stage[op.process] = Staged(op.pool) /\ pool = Built(op.pool) /\ desired /\ serving
      /\ \A u \in Whole(t) : Open(u)
  BY <1>1 DEF Progress, Building
<1>3. old = IF stage[op.process].previous = None THEN {} ELSE Whole(stage[op.process].previous)
  BY <1>1, <1>2, PoolFacts, NoneFacts DEF Staged
<1>4. /\ Whole(t) \in SUBSET Units /\ old \in SUBSET Units /\ \A u \in Whole(t) : u \notin old
      /\ Units \ old \subseteq Whole(t) \/ op.pool = None
  <2>1. t \in Generations /\ (op.pool = None => t = "a")
    BY <1>1, PoolFacts
  <2>2. CASE op.pool = None
    BY <2>1, <2>2, WholeFacts
  <2>3. CASE op.pool # None
    <3>1. op.pool.generation \in Generations /\ t # op.pool.generation
      BY <1>1, <2>3, PoolFacts
    <3>2. QED
      BY <2>1, <2>3, <3>1, WholeFacts DEF Generations
  <2>4. QED
    BY <2>2, <2>3
<1>5. Cleared(old) /\ UNCHANGED <<pool, desired, serving, replacing, decision>>
  BY <1>3 DEF FinalizePool, state
<1>6. /\ room' \in [Units -> Room \union {None}]
      /\ \A u \in Units : u \notin old => room'[u] = room[u]
  BY <1>4, <1>5, ClearedFacts
<1>7. /\ Built(op.pool) \in Pool /\ Built(op.pool) # None /\ ~ Mixed(Built(op.pool))
      /\ Members(Built(op.pool)) = Whole(t)
  BY <1>1, BuiltFacts
<1> HIDE DEF t
<1>8. CASE /\ Stopped(old) /\ UNCHANGED trouble
           /\ stage' = [stage EXCEPT ![op.process] = None]
           /\ op' = [op EXCEPT !.pc = "end", !.ok = TRUE]
  <2> HIDE DEF old
  <2>1. Same /\ op'.pc = "end" /\ op'.ok
    BY <1>1, <1>8, DoneFacts
  <2>2. /\ stage' \in [Processes -> Stage \union {None}] /\ stage'[op.process] = None
        /\ \A q \in Processes : q # op.process => stage'[q] = stage[q]
    BY <1>1, <1>8, StageFacts
  <2>3. up' = up \ old
    BY <1>8 DEF Stopped
  <2>4. TypeOK'
    BY <1>1, <1>5, <1>6, <1>8, <2>1, <2>2, <2>3 DEF TypeOK, Same
  <2>5. Bare'
    BY <1>1, <1>5, <2>1, <2>3, BareStays
  <2>6. Success'
    <3>1. pool' = Built(op.pool) /\ desired' /\ serving'
      BY <1>2, <1>5
    <3>2. CompleteIn(Built(op.pool), room', up')
      BY <1>2, <1>4, <1>6, <1>7, <2>3 DEF CompleteIn, Open
    <3>3. SuccessMeansWhole'
      BY <1>7, <3>1, <3>2 DEF SuccessMeansWhole, Complete
    <3>4. up' \subseteq Whole(t)
      <4>1. op.pool = None => up \subseteq Whole(t)
        BY <1>1, PoolFacts DEF Bare, t
      <4>2. QED
        BY <1>4, <2>3, <4>1 DEF TypeOK
    <3>5. QED
      BY <1>7, <3>1, <3>3, <3>4 DEF Success, Served
  <2>7. replacing'[op.process] = None
    BY <1>1, <1>5 DEF Progress
  <2>8. QED
    BY <1>1, <1>8, <2>1, <2>2, <2>4, <2>5, <2>6, <2>7, SuccessGood
<1>9. CASE PartlyStopped(old) /\ Troubled("stop") /\ Go("undoPool") /\ UNCHANGED stage
  <2> HIDE DEF old
  <2>1. Same /\ op'.pc = "undoPool" /\ op'.ok = op.ok
    BY <1>1, <1>9, GoFacts DEF Pcs
  <2>2. up' \subseteq up
    BY <1>9, PartlyFacts
  <2>3. trouble' # {} /\ trouble' \subseteq {"stop", "start", "write", "kill"}
    BY <1>9 DEF Troubled, TypeOK
  <2>4. TypeOK'
    BY <1>1, <1>5, <1>6, <1>9, <2>1, <2>2, <2>3 DEF TypeOK, Same
  <2>5. Roles' /\ Memory' /\ Progress' /\ Quiet'
    BY <1>1, <1>2, <1>5, <1>9, <2>1, <2>3
    DEF Roles, Memory, Progress, Quiet, Same, Building, Swapping, Removing, Begun
  <2>6. Bare'
    BY <1>1, <1>5, <2>1, <2>2, BareStays
  <2>7. QED
    BY <1>1, <2>1, <2>4, <2>5, <2>6, StepGood
<1>10. QED
  BY <1>3, <1>8, <1>9 DEF FinalizePool

LEMMA UndoPoolGood ==
    ASSUME PoolInv, UndoPool
    PROVE  PoolInv'
<1> DEFINE t == Target(op.pool)
<1> USE DEF PoolInv
<1>1. /\ op # None /\ op.pc = "undoPool" /\ op.process \in Processes /\ ~ op.ok
      /\ op.pool \in Pool \union {None} /\ op.kind = "transition"
  BY OpFacts DEF UndoPool, At, Roles, Building
<1>2. /\ stage[op.process] = Staged(op.pool)
      /\ stage[op.process].generation = t /\ stage[op.process].pool = op.pool
  BY <1>1 DEF Progress, Building, Staged
<1>3. t \in Generations /\ Whole(t) \in SUBSET Units
  BY <1>1, PoolFacts DEF Whole, Units
<1>4. Same /\ op'.pc = "undone" /\ op'.ok = op.ok
  BY <1>1, GoFacts DEF UndoPool, At, Pcs
<1>5. /\ Cleared(Whole(t)) /\ UNCHANGED <<desired, serving, replacing, decision>>
      /\ \/ /\ Stopped(Whole(t)) /\ UNCHANGED trouble /\ pool' = op.pool
            /\ stage' = [stage EXCEPT ![op.process] = None]
         \/ /\ PartlyStopped(Whole(t)) /\ Troubled("stop") /\ pool' = op.pool /\ UNCHANGED stage
         \/ Stopped(Whole(t)) /\ Troubled("write") /\ UNCHANGED <<stage, pool>>
  BY <1>2 DEF UndoPool, At, state
<1> HIDE DEF t
<1>6. /\ room' \in [Units -> Room \union {None}]
      /\ \A u \in Units : u \notin Whole(t) => room'[u] = room[u]
  BY <1>3, <1>5, ClearedFacts
<1>7. up' \subseteq up /\ up \subseteq up' \union Whole(t)
  BY <1>5, PartlyFacts DEF Stopped
<1>8. /\ stage' \in [Processes -> Stage \union {None}]
      /\ \A q \in Processes : stage'[q] # None => stage[q] # None
      /\ trouble' = {} => /\ trouble = {} /\ stage'[op.process] = None /\ pool' = op.pool
                          /\ \A q \in Processes : q # op.process => stage'[q] = stage[q]
                          /\ up' = up \ Whole(t)
  BY <1>1, <1>5, StageFacts DEF Troubled, TypeOK, Stopped
<1>9. trouble' \subseteq {"stop", "start", "write", "kill"} /\ pool' \in {pool, op.pool}
  BY <1>5 DEF Troubled, TypeOK
<1>10. TypeOK'
  BY <1>1, <1>4, <1>5, <1>6, <1>7, <1>8, <1>9 DEF TypeOK, Same
<1>11. Roles' /\ Progress'
  BY <1>1, <1>4, <1>5 DEF Roles, Progress, Same, Building, Swapping, Removing, Begun
<1>12. Memory'
  BY <1>1, <1>4, <1>8 DEF Memory, Same
<1>13. Quiet'
  <2>1. UNCHANGED <<Base, Coming>>
    BY <1>4, SameFacts
  <2>2. \A u \in Members(op.pool) : ~ Mixed(op.pool) => u \in Units /\ u \notin Whole(t)
    BY <1>1, PoolFacts, WholeFacts DEF t, Generations
  <2>3. trouble = {} /\ op.intact /\ ~ Mixed(op.pool) => CompleteIn(op.pool, room', up')
    BY <1>1, <1>6, <1>7, <2>2 DEF Quiet, CompleteIn
  <2>4. trouble' = {} => up' \subseteq Base
    BY <1>1, <1>8 DEF Quiet, Building, t
  <2>5. trouble' = {} => (op.units # None => op.units[2] \subseteq Base)
    BY <1>1, <1>8 DEF Quiet
  <2>6. QED
    BY <1>1, <1>4, <1>8, <2>1, <2>3, <2>4, <2>5
    DEF Quiet, Same, Building, Swapping, Begun
<1>14. Bare'
  BY <1>1, <1>4, <1>7, <1>9 DEF Bare, Same
<1>15. QED
  BY <1>1, <1>4, <1>10, <1>11, <1>12, <1>13, <1>14, StepGood

LEMMA RestoreStateGood ==
    ASSUME PoolInv, RestoreState
    PROVE  PoolInv'
<1> USE DEF PoolInv
<1>1. op # None /\ op.pc = "undone" /\ ~ op.ok /\ op.desired \in BOOLEAN
  BY OpFacts DEF RestoreState, At, Roles
<1>2. Same /\ op'.pc = "end" /\ op'.ok = op.ok
  BY <1>1, GoFacts DEF RestoreState, At, Pcs
<1>3. /\ UNCHANGED <<room, up, pool, stage, replacing, decision>>
      /\ desired' \in {desired, op.desired} /\ serving' \in {serving, op.desired}
      /\ trouble' \subseteq {"stop", "start", "write", "kill"}
      /\ trouble' = {} => trouble = {} /\ desired' = op.desired
  BY DEF RestoreState, At, units, memory, Troubled, TypeOK
<1>4. TypeOK'
  BY <1>1, <1>2, <1>3 DEF TypeOK, Same
<1>5. Roles' /\ Progress' /\ Memory'
  BY <1>1, <1>2, <1>3 DEF Roles, Progress, Memory, Same, Building, Swapping, Removing, Begun
<1>6. Quiet'
  <2>1. UNCHANGED <<Base, Coming>>
    BY <1>2, SameFacts
  <2>2. trouble' = {} => Served' = Base
    BY <1>1, <1>3 DEF Quiet, Served, Base
  <2>3. QED
    BY <1>1, <1>2, <1>3, <2>1, <2>2 DEF Quiet, Same, Building, Swapping, Begun
<1>7. Bare'
  BY <1>1, <1>2, <1>3, BareStays
<1>8. QED
  BY <1>1, <1>2, <1>4, <1>5, <1>6, <1>7, StepGood

-------------------------------------------------------------------------------
(* The replacement of a room.                                                *)

LEMMA SwapFacts ==
    ASSUME op.pool \in Pool, op.slot \in Slots
    PROVE  /\ Leaving \in Units /\ Coming \in Units /\ Leaving # Coming
           /\ Leaving \in Members(op.pool)
           /\ Swapped \in Pool /\ Swapped # None
           /\ Members(op.pool) \subseteq Members(Swapped) \union {Leaving}
           /\ Coming \in Members(Swapped)
<1>1. op.pool.slots \in [Slots -> Generations] /\ op.pool # None
  BY NoneFacts DEF Pool
<1>2. /\ Leaving \in Units /\ Coming \in Units /\ Leaving # Coming
      /\ Leaving \in Members(op.pool)
  BY <1>1 DEF Leaving, Coming, Units, Members, Generations
<1>3. Coming[1] \in Generations /\ Coming = <<Coming[1], op.slot>>
  BY <1>1 DEF Coming, Generations
<1>4. /\ Swapped \in Pool
      /\ Swapped.slots = [s \in Slots |-> IF s = op.slot THEN Coming[1] ELSE op.pool.slots[s]]
  BY <1>3 DEF Swapped, Pool
<1>5. Swapped # None
  BY <1>4, NoneFacts
<1>6. Members(op.pool) \subseteq Members(Swapped) \union {Leaving}
  BY <1>1, <1>4, <1>5 DEF Members, Leaving
<1>7. Coming \in Members(Swapped)
  BY <1>3, <1>4, <1>5 DEF Members
<1>8. QED
  BY <1>2, <1>4, <1>5, <1>6, <1>7

LEMMA StartSlotGood ==
    ASSUME PoolInv, StartSlot
    PROVE  PoolInv'
<1> USE DEF PoolInv
<1>1. /\ op # None /\ op.pc = "slotStart" /\ op.process \in Processes /\ ~ op.ok
      /\ op.kind = "replace" /\ op.slot \in Slots
  BY OpFacts DEF StartSlot, At, Roles
<1>2. Same /\ op'.pc = "slotWrite" /\ op'.ok = op.ok
  BY <1>1, GoFacts DEF StartSlot, At, Pcs
<1>3. /\ UNCHANGED <<pool, desired, serving, stage, replacing, trouble, decision>>
      /\ pool = op.pool /\ desired = op.desired /\ op.desired /\ pool # None /\ Started({New})
  BY <1>1 DEF StartSlot, At, state, memory, Progress, Begun
<1>4. op.pool \in Pool /\ New = Coming
  BY <1>3 DEF TypeOK, New, Old, Coming
<1>5. {Coming} \in SUBSET Units
  BY <1>1, <1>4, SwapFacts
<1>6. /\ room' \in [Units -> Room \union {None}] /\ up' = up \union {Coming}
      /\ up' \subseteq Units
  BY <1>3, <1>4, <1>5, StartedFacts
<1>7. TypeOK'
  BY <1>2, <1>3, <1>6 DEF TypeOK, Same
<1>8. Roles' /\ Progress' /\ Memory'
  BY <1>1, <1>2, <1>3 DEF Roles, Progress, Memory, Same, Building, Swapping, Removing, Begun
<1>9. Quiet'
  <2>1. UNCHANGED <<Base, Coming>>
    BY <1>2, SameFacts
  <2>2. QED
    BY <1>1, <1>2, <1>3, <1>6, <2>1 DEF Quiet, Same, Building, Swapping, Begun
<1>10. Bare'
  BY <1>1, <1>2, <1>3 DEF Bare, Same
<1>11. QED
  BY <1>1, <1>2, <1>7, <1>8, <1>9, <1>10, StepGood

LEMMA SlotRefusedGood ==
    ASSUME PoolInv, SlotRefused
    PROVE  PoolInv'
<1> USE DEF PoolInv
<1>1. /\ op # None /\ op.pc \in {"slotStart", "slotWrite"} /\ op.process \in Processes /\ ~ op.ok
      /\ op.kind = "replace" /\ op.slot \in Slots
  BY OpFacts DEF SlotRefused, Roles, Swapping
<1>2. Same /\ op'.pc = "undone" /\ op'.ok = op.ok
  BY <1>1, GoFacts DEF SlotRefused, Pcs
<1>3. /\ UNCHANGED <<pool, desired, serving, stage, replacing, decision>>
      /\ pool = op.pool
  BY <1>1 DEF SlotRefused, state, memory, Progress, Begun, Swapping
<1>4. /\ room' \in [Units -> Room \union {None}] /\ up' \subseteq Units
      /\ trouble' \subseteq {"stop", "start", "write", "kill"}
      /\ trouble' = {} => trouble = {}
                          /\ \/ op.pc = "slotStart" /\ up' = up
                             \/ up' = up \ {Coming}
      /\ pool = None => up' = up
  <2>1. CASE op.pc = "slotStart" /\ UNCHANGED <<units, trouble>>
    BY <2>1 DEF units, TypeOK
  <2>2. CASE /\ pool # None /\ Cleared({New})
             /\ \/ Stopped({New}) /\ UNCHANGED trouble
                \/ up' = up \union {New} /\ Troubled("stop")
    <3>1. op.pool \in Pool /\ New = Coming
      BY <1>3, <2>2 DEF TypeOK, New, Old, Coming
    <3>2. {Coming} \in SUBSET Units
      BY <1>1, <3>1, SwapFacts
    <3>3. room' \in [Units -> Room \union {None}]
      BY <2>2, <3>1, <3>2, ClearedFacts
    <3>4. QED
      BY <2>2, <3>1, <3>2, <3>3 DEF Stopped, Troubled, TypeOK
  <2>3. QED
    BY <2>1, <2>2 DEF SlotRefused
<1>5. TypeOK'
  BY <1>2, <1>3, <1>4 DEF TypeOK, Same
<1>6. Roles' /\ Progress' /\ Memory'
  BY <1>1, <1>2, <1>3, <1>4
  DEF Roles, Progress, Memory, Same, Building, Swapping, Removing, Begun
<1>7. Quiet'
  <2>1. UNCHANGED <<Base, Coming>>
    BY <1>2, SameFacts
  <2>2. trouble' = {} => up' \subseteq Base
    BY <1>1, <1>4 DEF Quiet, Swapping, Begun
  <2>3. QED
    BY <1>1, <1>2, <1>3, <1>4, <2>1, <2>2 DEF Quiet, Same, Building, Swapping, Begun
<1>8. Bare'
  BY <1>1, <1>2, <1>3, <1>4 DEF Bare, Same
<1>9. QED
  BY <1>1, <1>2, <1>5, <1>6, <1>7, <1>8, StepGood

LEMMA WriteSlotGood ==
    ASSUME PoolInv, WriteSlot
    PROVE  PoolInv'
<1> USE DEF PoolInv
<1>1. /\ op # None /\ op.pc = "slotWrite" /\ op.process \in Processes /\ ~ op.ok
      /\ op.kind = "replace" /\ op.slot \in Slots
  BY OpFacts DEF WriteSlot, At, Roles, Swapping
<1>2. Same /\ op'.pc = "slotApply" /\ op'.ok = op.ok
  BY <1>1, GoFacts DEF WriteSlot, At, Pcs
<1>3. pool = op.pool /\ op.pool # None /\ desired
  BY <1>1 DEF Progress, Swapping
<1>4. op.pool \in Pool /\ Old = Leaving /\ New = Coming
  BY <1>3 DEF TypeOK, New, Old, Coming, Leaving
<1>5. /\ UNCHANGED <<room, up, desired, serving, stage, trouble, decision>>
      /\ pool' = Swapped
      /\ replacing' = [replacing EXCEPT ![op.process] =
                           [old |-> Leaving, new |-> Coming, pool |-> op.pool]]
  BY <1>3, <1>4 DEF WriteSlot, At, units, state, Swapped
<1>6. Swapped \in Pool /\ Swapped # None /\ Leaving \in Units /\ Coming \in Units
  BY <1>1, <1>4, SwapFacts
<1>7. [old |-> Leaving, new |-> Coming, pool |-> op.pool] \in Exchange
  BY <1>4, <1>6 DEF Exchange
<1>8. /\ replacing' \in [Processes -> Exchange \union {None}]
      /\ replacing'[op.process] = [old |-> Leaving, new |-> Coming, pool |-> op.pool]
      /\ \A q \in Processes : q # op.process => replacing'[q] = replacing[q]
  BY <1>1, <1>5, <1>7, ReplacingFacts
<1>9. UNCHANGED <<Base, Coming, Leaving, Swapped>>
  BY <1>2, SameFacts
<1>10. TypeOK'
  BY <1>1, <1>2, <1>5, <1>6, <1>8 DEF TypeOK, Same
<1>11. Roles' /\ Memory'
  BY <1>1, <1>2, <1>5 DEF Roles, Memory, Same, Building, Swapping, Removing
<1>12. Progress'
  BY <1>1, <1>2, <1>3, <1>5, <1>8, <1>9 DEF Progress, Same, Building, Swapping, Begun
<1>13. Quiet'
  BY <1>1, <1>2, <1>5, <1>9 DEF Quiet, Same, Building, Swapping, Begun
<1>14. Bare'
  BY <1>1, <1>2, <1>5, <1>6 DEF Bare, Same
<1>15. QED
  BY <1>1, <1>2, <1>10, <1>11, <1>12, <1>13, <1>14, StepGood

LEMMA ApplySlotGood ==
    ASSUME PoolInv, ApplySlot
    PROVE  PoolInv'
<1> USE DEF PoolInv
<1>1. /\ op # None /\ op.pc = "slotApply" /\ op.process \in Processes /\ ~ op.ok
      /\ op.kind = "replace"
  BY OpFacts DEF ApplySlot, Roles, Swapping
<1>2. /\ UNCHANGED <<room, up, pool, desired, stage, replacing, trouble, decision>>
      /\ serving' \in BOOLEAN
  BY DEF ApplySlot, units, memory, TypeOK
<1>3. Same /\ op'.ok = op.ok /\ op'.pc \in {"slotFinalize", "undoSlot"}
  BY <1>1, GoFacts DEF ApplySlot, Pcs
<1>4. UNCHANGED <<Base, Coming, Leaving, Swapped>>
  BY <1>3, SameFacts
<1>5. TypeOK'
  BY <1>2, <1>3 DEF TypeOK, Same
<1>6. Roles' /\ Memory'
  BY <1>1, <1>2, <1>3 DEF Roles, Memory, Same, Building, Swapping, Removing
<1>7. Progress'
  BY <1>1, <1>2, <1>3, <1>4 DEF Progress, Same, Building, Swapping, Begun
<1>8. Quiet'
  BY <1>1, <1>2, <1>3, <1>4 DEF Quiet, Same, Building, Swapping, Begun
<1>9. Bare'
  BY <1>1, <1>2, <1>3, BareStays
<1>10. QED
  BY <1>1, <1>3, <1>5, <1>6, <1>7, <1>8, <1>9, StepGood

LEMMA FinalizeSlotGood ==
    ASSUME PoolInv, FinalizeSlot
    PROVE  PoolInv'
<1> USE DEF PoolInv
<1>1. /\ op # None /\ op.pc = "slotFinalize" /\ op.process \in Processes /\ ~ op.ok
      /\ op.kind = "replace" /\ op.slot \in Slots /\ op.desired
  BY OpFacts DEF FinalizeSlot, Roles, Swapping
<1>2. /\ op.pool # None /\ desired /\ pool = Swapped
      /\ replacing[op.process].old = Leaving /\ op.pool \in Pool
  BY <1>1, OpFacts, NoneFacts DEF Progress, Swapping, TypeOK
<1>3. Leaving \in Units
  BY <1>1, <1>2, SwapFacts
<1>4. UNCHANGED <<pool, desired, serving, stage, trouble, decision>>
  BY DEF FinalizeSlot, state
<1>5. CASE /\ Stopped({Leaving}) /\ Cleared({Leaving})
           /\ replacing' = [replacing EXCEPT ![op.process] = None]
           /\ op' = [op EXCEPT !.pc = "end", !.ok = TRUE]
  <2>1. Same /\ op'.pc = "end" /\ op'.ok
    BY <1>1, <1>5, DoneFacts
  <2>2. /\ replacing' \in [Processes -> Exchange \union {None}] /\ replacing'[op.process] = None
        /\ \A q \in Processes : q # op.process => replacing'[q] = replacing[q]
    BY <1>1, <1>5, ReplacingFacts
  <2>3. room' \in [Units -> Room \union {None}]
    BY <1>3, <1>5, ClearedFacts
  <2>4. up' = up \ {Leaving}
    BY <1>5 DEF Stopped
  <2>5. TypeOK'
    BY <1>1, <1>4, <2>1, <2>2, <2>3, <2>4 DEF TypeOK, Same
  <2>6. Bare'
    BY <1>1, <1>4, <2>1, <2>4, BareStays
  <2>7. Success'
    BY <1>1, <2>1 DEF Success, SuccessMeansWhole, Same
  <2>8. trouble = {} => up' \subseteq Served'
    <3>1. trouble = {} => up \subseteq Members(op.pool) \union {Coming}
      BY <1>1, <1>2 DEF Quiet, Swapping, Base
    <3>2. /\ Members(op.pool) \subseteq Members(Swapped) \union {Leaving}
          /\ Coming \in Members(Swapped)
      BY <1>1, <1>2, SwapFacts
    <3>3. Served' = Members(Swapped)
      BY <1>2, <1>4 DEF Served
    <3>4. QED
      BY <2>4, <3>1, <3>2, <3>3
  <2>9. trouble = {} => stage'[op.process] = None
    BY <1>1, <1>4 DEF Memory, Building
  <2>10. QED
    BY <1>1, <1>4, <2>1, <2>2, <2>5, <2>6, <2>7, <2>8, <2>9, SuccessGood
<1>6. CASE up' \in {up, up \ {Leaving}} /\ UNCHANGED <<room, replacing>> /\ Go("undoSlot")
  <2>1. Same /\ op'.pc = "undoSlot" /\ op'.ok = op.ok
    BY <1>1, <1>6, GoFacts DEF Pcs
  <2>2. UNCHANGED <<Base, Coming, Leaving, Swapped>>
    BY <2>1, SameFacts
  <2>3. TypeOK'
    BY <1>4, <1>6, <2>1 DEF TypeOK, Same
  <2>4. Roles' /\ Memory'
    BY <1>1, <1>4, <2>1 DEF Roles, Memory, Same, Building, Swapping, Removing
  <2>5. Progress'
    BY <1>1, <1>4, <1>6, <2>1, <2>2 DEF Progress, Same, Building, Swapping, Begun
  <2>6. Quiet'
    BY <1>1, <1>4, <1>6, <2>1, <2>2 DEF Quiet, Same, Building, Swapping, Begun
  <2>7. Bare'
    BY <1>1, <1>4, <1>6, <2>1, BareStays
  <2>8. QED
    BY <1>1, <2>1, <2>3, <2>4, <2>5, <2>6, <2>7, StepGood
<1>7. QED
  BY <1>2, <1>5, <1>6 DEF FinalizeSlot

LEMMA UndoSlotGood ==
    ASSUME PoolInv, UndoSlot
    PROVE  PoolInv'
<1> USE DEF PoolInv
<1>1. /\ op # None /\ op.pc = "undoSlot" /\ op.process \in Processes /\ ~ op.ok
      /\ op.kind = "replace" /\ op.slot \in Slots /\ op.desired
  BY OpFacts DEF UndoSlot, At, Roles, Swapping
<1>2. /\ op.pool # None /\ desired /\ pool = Swapped /\ op.pool \in Pool
      /\ replacing[op.process].old = Leaving /\ replacing[op.process].new = Coming
      /\ replacing[op.process].pool = op.pool
  BY <1>1, OpFacts DEF Progress, Swapping, TypeOK
<1>3. /\ Leaving \in Units /\ Coming \in Units /\ Leaving \in Members(op.pool)
      /\ Swapped \in Pool /\ Swapped # None
  BY <1>1, <1>2, SwapFacts
<1>4. Same /\ op'.pc = "undone" /\ op'.ok = op.ok
  BY <1>1, GoFacts DEF UndoSlot, At, Pcs
<1>5. /\ replacing' = [replacing EXCEPT ![op.process] = None]
      /\ UNCHANGED <<desired, serving, stage, decision>>
  BY DEF UndoSlot, At, state
<1>6. /\ replacing' \in [Processes -> Exchange \union {None}] /\ replacing'[op.process] = None
      /\ \A q \in Processes : q # op.process => replacing'[q] = replacing[q]
  BY <1>1, <1>5, ReplacingFacts
<1>7. /\ room' \in [Units -> Room \union {None}] /\ up' \subseteq up \union {Leaving}
      /\ pool' \in {pool, op.pool} /\ trouble' \subseteq {"stop", "start", "write", "kill"}
      /\ trouble' = {} => /\ trouble = {} /\ pool' = op.pool
                          /\ up' = (up \ {Coming}) \union {Leaving}
  <2> DEFINE restarted(others) ==
               /\ up' = (up \ others) \union {Leaving}
               /\ room' = [u \in Units |->
                              IF u \in others THEN None
                              ELSE IF u = Leaving /\ u \notin up THEN Fresh ELSE room[u]]
  <2>1. Fresh \in Room
    BY DEF Fresh, Room
  <2>2. CASE pool' = op.pool /\ restarted({Coming}) /\ UNCHANGED trouble
    BY <2>1, <2>2 DEF TypeOK
  <2>3. CASE pool' = pool /\ restarted({}) /\ Troubled("write")
    BY <2>1, <2>3 DEF TypeOK, Troubled
  <2>4. CASE /\ pool' = op.pool /\ Troubled("stop")
             /\ up' = up \union {Leaving} /\ Cleared({Coming})
    BY <1>3, <2>4, ClearedFacts DEF TypeOK, Troubled
  <2>5. CASE /\ pool' = op.pool /\ Troubled("start")
             /\ Stopped({Coming}) /\ Cleared({Coming})
    BY <1>3, <2>5, ClearedFacts DEF TypeOK, Troubled, Stopped
  <2>6. QED
    BY <1>2, <2>2, <2>3, <2>4, <2>5 DEF UndoSlot
<1>8. pool' \in Pool /\ pool' # None
  BY <1>2, <1>3, <1>7
<1>9. TypeOK'
  BY <1>1, <1>3, <1>4, <1>5, <1>6, <1>7, <1>8 DEF TypeOK, Same
<1>10. Roles' /\ Progress'
  BY <1>1, <1>4, <1>6 DEF Roles, Progress, Same, Building, Swapping, Removing, Begun
<1>11. Memory'
  BY <1>1, <1>4, <1>5, <1>7 DEF Memory, Same, Building
<1>12. Quiet'
  <2>1. UNCHANGED <<Base, Coming>>
    BY <1>4, SameFacts
  <2>2. trouble' = {} => up' \subseteq Base
    BY <1>1, <1>3, <1>7 DEF Quiet, Swapping, Base
  <2>3. QED
    BY <1>1, <1>4, <1>7, <2>1, <2>2 DEF Quiet, Same, Building, Swapping, Begun
<1>13. Bare'
  BY <1>1, <1>2, <1>4, <1>8 DEF Bare, Same
<1>14. QED
  BY <1>1, <1>4, <1>9, <1>10, <1>11, <1>12, <1>13, StepGood

-------------------------------------------------------------------------------
(* The removal of the pool.                                                  *)

LEMMA StopPoolGood ==
    ASSUME PoolInv, StopPool
    PROVE  PoolInv'
<1> USE DEF PoolInv
<1>1. /\ op # None /\ op.pc = "stop" /\ op.process \in Processes /\ ~ op.ok
      /\ op.units # None /\ op.kind \in {"disable", "uninstall"}
  BY OpFacts DEF StopPool, Roles, Removing
<1>2. /\ Cleared(Units) /\ UNCHANGED <<pool, desired, serving, replacing, decision>>
      /\ \/ /\ Stopped(Units) /\ UNCHANGED trouble
            /\ stage' = [stage EXCEPT ![op.process] = None]
            /\ Go("leave")
         \/ /\ PartlyStopped(Units) /\ Troubled("stop") /\ Go("restorePool")
            /\ UNCHANGED stage
  BY DEF StopPool, state
<1>3. Same /\ op'.ok = op.ok /\ op'.pc \in {"leave", "restorePool"}
  BY <1>1, <1>2, GoFacts DEF Pcs
<1>4. op'.pc = "leave" => up' = {}
  BY <1>1, <1>2, GoFacts DEF Stopped, TypeOK, Pcs
<1>5. room' \in [Units -> Room \union {None}]
  BY <1>2, ClearedFacts
<1>6. /\ stage' \in [Processes -> Stage \union {None}]
      /\ \A q \in Processes : stage'[q] # None => stage[q] # None
  BY <1>1, <1>2, StageFacts DEF TypeOK
<1>7. up' \subseteq up
  BY <1>2, PartlyFacts DEF Stopped
<1>8. /\ trouble' \subseteq {"stop", "start", "write", "kill"}
      /\ trouble' = {} => trouble = {} /\ op'.pc = "leave"
  BY <1>1, <1>2, GoFacts DEF Troubled, TypeOK, Pcs
<1>9. TypeOK'
  BY <1>1, <1>2, <1>3, <1>5, <1>6, <1>7, <1>8 DEF TypeOK, Same
<1>10. Roles'
  BY <1>1, <1>3 DEF Roles, Same, Building, Swapping, Removing
<1>11. Progress'
  BY <1>1, <1>2, <1>3, <1>4 DEF Progress, Same, Building, Swapping, Begun
<1>12. Memory'
  BY <1>1, <1>3, <1>6, <1>8 DEF Memory, Same, Building
<1>13. Quiet'
  <2>1. UNCHANGED <<Base, Coming>>
    BY <1>3, SameFacts
  <2>2. QED
    BY <1>1, <1>3, <1>8, <2>1 DEF Quiet, Same, Building, Swapping, Begun
<1>14. Bare'
  BY <1>1, <1>2, <1>3, <1>7, BareStays
<1>15. QED
  BY <1>1, <1>3, <1>9, <1>10, <1>11, <1>12, <1>13, <1>14, StepGood

(* All is stopped, and the operation goes on or gives up. *)
LEMMA EmptyGood ==
    ASSUME PoolInv, op # None, op.pc \in {"leave", "forget"}, Same, ~ op'.ok,
           \/ op'.pc = "forget" /\ ~ desired'
           \/ op'.pc = "restorePool",
           desired' \in BOOLEAN, serving' \in BOOLEAN, pool' \in {None, pool},
           UNCHANGED <<room, up, stage, replacing, trouble, decision>>
    PROVE  PoolInv'
<1> USE DEF PoolInv
<1>1. /\ op.process \in Processes /\ op.units # None /\ up = {} /\ ~ op.ok
      /\ op.kind \in {"disable", "uninstall"}
  BY OpFacts DEF Roles, Removing, Progress
<1>2. TypeOK'
  BY DEF TypeOK, Same
<1>3. Roles' /\ Progress' /\ Memory'
  BY <1>1 DEF Roles, Progress, Memory, Same, Building, Swapping, Removing, Begun
<1>4. Quiet'
  <2>1. UNCHANGED <<Base, Coming>>
    BY SameFacts
  <2>2. QED
    BY <1>1, <2>1 DEF Quiet, Same, Building, Swapping, Begun
<1>5. Bare'
  BY <1>1 DEF Bare, Same
<1>6. QED
  BY <1>2, <1>3, <1>4, <1>5, StepGood

(* All is stopped, and the operation has succeeded. *)
LEMMA RemovedGood ==
    ASSUME PoolInv, op # None, op.pc \in {"leave", "forget"},
           op' = [op EXCEPT !.pc = "end", !.ok = TRUE],
           desired' \in BOOLEAN, serving' \in BOOLEAN, pool' \in {None, pool},
           UNCHANGED <<room, up, stage, replacing, trouble, decision>>
    PROVE  PoolInv'
<1> USE DEF PoolInv
<1>1. /\ op.process \in Processes /\ up = {} /\ op.kind \in {"disable", "uninstall"}
      /\ replacing[op.process] = None /\ op.units # None
  BY OpFacts DEF Roles, Removing, Progress
<1>2. Same /\ op'.ok /\ op'.pc = "end"
  BY DoneFacts
<1>3. TypeOK'
  BY <1>2 DEF TypeOK, Same
<1>4. Bare'
  BY <1>1, <1>2 DEF Bare, Same
<1>5. Success'
  BY <1>1, <1>2 DEF Success, SuccessMeansWhole, Same
<1>6. trouble = {} => stage'[op.process] = None
  BY <1>1 DEF Memory, Building
<1>7. QED
  BY <1>1, <1>2, <1>3, <1>4, <1>5, <1>6, SuccessGood

LEMMA LeaveGood ==
    ASSUME PoolInv, Leave
    PROVE  PoolInv'
<1> USE DEF PoolInv
<1>1. op # None /\ op.pc = "leave" /\ ~ op.ok
  BY OpFacts DEF Leave, Roles
<1>2. UNCHANGED <<room, up, pool, stage, replacing, trouble, decision>>
  BY DEF Leave, units, memory
<1>3. CASE ~ desired' /\ ~ serving' /\ op' = [op EXCEPT !.pc = "end", !.ok = TRUE]
           /\ desired' \in BOOLEAN /\ serving' \in BOOLEAN
  BY <1>1, <1>2, <1>3, RemovedGood
<1>4. CASE ~ desired' /\ ~ serving' /\ Go("forget")
           /\ desired' \in BOOLEAN /\ serving' \in BOOLEAN
  <2>1. Same /\ op'.pc = "forget" /\ op'.ok = op.ok
    BY <1>1, <1>4, GoFacts DEF Pcs
  <2>2. QED
    BY <1>1, <1>2, <1>4, <2>1, EmptyGood
<1>5. CASE UNCHANGED state /\ Go("restorePool")
  <2>1. Same /\ op'.pc = "restorePool" /\ op'.ok = op.ok
    BY <1>1, <1>5, GoFacts DEF Pcs
  <2>2. desired' \in BOOLEAN /\ serving' \in BOOLEAN
    BY <1>5 DEF state, TypeOK
  <2>3. QED
    BY <1>1, <1>2, <2>1, <2>2, EmptyGood
<1>6. QED
  BY <1>3, <1>4, <1>5 DEF Leave

LEMMA ForgetGood ==
    ASSUME PoolInv, Forget
    PROVE  PoolInv'
<1> USE DEF PoolInv
<1>1. op # None /\ op.pc = "forget" /\ ~ op.ok
  BY OpFacts DEF Forget, Roles
<1>2. /\ UNCHANGED <<room, up, desired, serving, stage, replacing, trouble, decision>>
      /\ desired \in BOOLEAN /\ serving \in BOOLEAN
  BY DEF Forget, units, memory, state, TypeOK
<1>3. CASE pool' = None /\ op' = [op EXCEPT !.pc = "end", !.ok = TRUE]
  BY <1>1, <1>2, <1>3, RemovedGood
<1>4. CASE pool' \in {None, pool} /\ Go("restorePool")
  <2>1. Same /\ op'.pc = "restorePool" /\ op'.ok = op.ok
    BY <1>1, <1>4, GoFacts DEF Pcs
  <2>2. QED
    BY <1>1, <1>2, <1>4, <2>1, EmptyGood
<1>5. QED
  BY <1>3, <1>4 DEF Forget

LEMMA RestorePoolGood ==
    ASSUME PoolInv, RestorePool
    PROVE  PoolInv'
<1> USE DEF PoolInv
<1>1. /\ op # None /\ op.pc = "restorePool" /\ op.process \in Processes /\ ~ op.ok
      /\ op.units \in Snapshot /\ op.units # None /\ op.pool \in Pool \union {None}
      /\ op.kind \in {"disable", "uninstall"}
  BY OpFacts DEF RestorePool, At, Roles, Removing
<1>2. Same /\ op'.pc = "undone" /\ op'.ok = op.ok
  BY <1>1, GoFacts DEF RestorePool, At, Pcs
<1>3. /\ UNCHANGED <<desired, serving, stage, replacing, decision>> /\ pool' = op.pool
      /\ room' = [u \in Units |-> IF u \in op.units[2] \ up THEN Fresh ELSE op.units[1][u]]
      /\ up' \subseteq up \union op.units[2]
      /\ trouble' \subseteq {"stop", "start", "write", "kill"}
      /\ trouble' = {} => trouble = {}
  BY DEF RestorePool, At, state, memory, Troubled, TypeOK
<1>4. op.units[1] \in [Units -> Room \union {None}] /\ op.units[2] \subseteq Units
  BY <1>1 DEF Snapshot
<1>5. room' \in [Units -> Room \union {None}]
  <2>1. Fresh \in Room
    BY DEF Fresh, Room
  <2>2. QED
    BY <1>3, <1>4, <2>1
<1>6. TypeOK'
  BY <1>1, <1>2, <1>3, <1>4, <1>5 DEF TypeOK, Same
<1>7. Roles' /\ Progress' /\ Memory'
  BY <1>1, <1>2, <1>3 DEF Roles, Progress, Memory, Same, Building, Swapping, Removing, Begun
<1>8. Quiet'
  <2>1. UNCHANGED <<Base, Coming>>
    BY <1>2, SameFacts
  <2>2. QED
    BY <1>1, <1>2, <1>3, <2>1 DEF Quiet, Same, Building, Swapping, Begun
<1>9. Bare'
  BY <1>1, <1>2, <1>3 DEF Bare, Same
<1>10. QED
  BY <1>1, <1>2, <1>6, <1>7, <1>8, <1>9, StepGood

-------------------------------------------------------------------------------
(* Who calls.                                                                *)

(* Nobody holds the lock any more. *)
LEMMA FreedGood ==
    ASSUME PoolInv, op # None, op' = None, TypeOK', trouble' = {} => Memory' /\ up \subseteq Served,
           UNCHANGED <<up, pool, desired>>
    PROVE  PoolInv'
<1> USE DEF PoolInv
<1>1. Roles' /\ Progress' /\ Quiet' /\ Success'
  BY DEF Roles, Progress, Quiet, Success, SuccessMeansWhole
<1>2. Bare'
  BY DEF Bare
<1>3. Memory'
  BY DEF Memory
<1>4. NoRoomLeaks'
  BY DEF NoRoomLeaks, Served
<1>5. QED
  BY <1>1, <1>2, <1>3, <1>4

LEMMA EndsGood ==
    ASSUME PoolInv, Ends
    PROVE  PoolInv'
<1> USE DEF PoolInv
<1>1. /\ op # None /\ op.pc = "end" /\ op.process \in Processes /\ op' = None
      /\ replacing[op.process] = None
  BY OpFacts DEF Ends, Progress
<1>2. UNCHANGED <<room, up, pool, desired, serving, decision>>
  BY DEF Ends, units, state
<1>3. /\ stage' \in [Processes -> Stage \union {None}] /\ stage'[Menu] = stage[Menu]
      /\ stage'[Job] = None
  BY NoneFacts DEF Ends, TypeOK, Processes
<1>4. /\ replacing' \in [Processes -> Exchange \union {None}]
      /\ \A p \in Processes : replacing'[p] = None
  BY <1>1 DEF Ends, TypeOK, Processes
<1>5. trouble' = {} => stage[Menu] = None /\ up \subseteq Served
  <2>1. CASE trouble = {}
    BY <1>1, <2>1 DEF Memory, Processes, Building, Quiet
  <2>2. CASE op.ok /\ op.kind # "replace" /\ stage[Menu] = None
    BY <1>1, <2>2 DEF Success
  <2>3. QED
    BY <2>1, <2>2 DEF Ends
<1>6. TypeOK'
  BY <1>1, <1>2, <1>3, <1>4 DEF TypeOK, Processes, Ends
<1>7. trouble' = {} => Memory'
  BY <1>3, <1>5 DEF Memory, Processes
<1>8. QED
  BY <1>1, <1>2, <1>5, <1>6, <1>7, FreedGood

LEMMA KilledGood ==
    ASSUME PoolInv, Killed
    PROVE  PoolInv'
<1> USE DEF PoolInv
<1>1. /\ op # None /\ op.process \in Processes /\ op' = None
      /\ UNCHANGED <<room, up, pool, desired, serving, decision>>
  BY OpFacts DEF Killed, units, state
<1>2. /\ stage' \in [Processes -> Stage \union {None}] /\ stage'[op.process] = None
      /\ \A q \in Processes : q # op.process => stage'[q] = stage[q]
  BY <1>1, StageFacts DEF Killed
<1>3. /\ replacing' \in [Processes -> Exchange \union {None}] /\ replacing'[op.process] = None
      /\ \A q \in Processes : q # op.process => replacing'[q] = replacing[q]
  BY <1>1, ReplacingFacts DEF Killed
<1>4. trouble' # {} /\ trouble' \subseteq {"stop", "start", "write", "kill"}
  BY DEF Killed, Troubled, TypeOK
<1>5. TypeOK'
  BY <1>1, <1>2, <1>3, <1>4 DEF TypeOK, Processes
<1>6. QED
  BY <1>1, <1>4, <1>5, FreedGood

(* A process takes the lock. *)
LEMMA CallGood ==
    ASSUME PoolInv, op = None, NEW process \in Processes,
           NEW kind \in {"transition", "replace", "disable", "uninstall"},
           NEW slot \in Slots \union {None}, Call(process, kind, slot),
           kind = "replace" => desired /\ slot \in Slots,
           decision' \in Slots \union {None, AllSlots},
           UNCHANGED <<room, up, pool, desired, serving, stage, replacing, trouble>>
    PROVE  PoolInv'
<1> DEFINE here == CASE kind = "transition" -> "create"
                     [] kind = "replace" -> "slotStart"
                     [] OTHER -> "stop"
           kept == IF kind \in {"disable", "uninstall"} THEN <<room, up>> ELSE None
<1> USE DEF PoolInv
<1>1. /\ here \in Pcs
      /\ IF kind = "transition" THEN here = "create"
         ELSE IF kind = "replace" THEN here = "slotStart" ELSE here = "stop"
  BY DEF Pcs
<1>2. <<room, up>> \in Snapshot /\ <<room, up>> # None /\ <<room, up>>[2] = up
  BY NoneFacts DEF Snapshot, TypeOK
<1>3. /\ kept \in Snapshot \union {None}
      /\ IF kind \in {"disable", "uninstall"} THEN kept # None /\ kept[2] = up ELSE kept = None
  BY <1>2
<1>4. PICK whole \in BOOLEAN : whole = Complete
  <2>1. Complete \in BOOLEAN
    BY DEF Complete, CompleteIn
  <2>2. QED
    BY <2>1
<1>5. op' = [process |-> process, kind |-> kind, slot |-> slot, desired |-> desired,
             pool |-> pool, units |-> kept, ok |-> FALSE, intact |-> whole, pc |-> here]
  BY <1>4 DEF Call
<1> HIDE DEF here, kept
<1>6. op' \in Operation /\ op' # None
  <2>1. /\ desired \in BOOLEAN /\ FALSE \in BOOLEAN /\ pool \in Pool \union {None}
        /\ kind \in {"transition", "replace", "disable", "uninstall"}
    BY DEF TypeOK
  <2>2. op' \in Operation
    BY <1>1, <1>3, <1>4, <1>5, <2>1, Zenon DEF Operation
  <2>3. QED
    BY <2>2, NoneFacts
<1>7. /\ op'.process = process /\ op'.kind = kind /\ op'.slot = slot /\ op'.desired = desired
      /\ op'.pool = pool /\ op'.units = kept /\ op'.ok = FALSE /\ op'.pc = here
      /\ op'.intact => Complete
  BY <1>4, <1>5
<1>8. \A p \in Processes : replacing[p] = None
  BY DEF TypeOK
<1>9. TypeOK'
  BY <1>6, <1>8 DEF TypeOK
<1>10. Roles'
  BY <1>1, <1>3, <1>6, <1>7 DEF Roles, Building, Swapping, Removing, TypeOK
<1>11. Memory'
  BY DEF Memory
<1>12. Progress'
  BY <1>1, <1>6, <1>7, <1>8 DEF Progress, Building, Swapping, Begun
<1>13. Quiet'
  <2>1. Base' = Served
    BY <1>7 DEF Base, Served
  <2>2. trouble = {} => up \subseteq Served
    BY DEF NoRoomLeaks, Free, Served
  <2>3. op'.intact => CompleteIn(op'.pool, room', up')
    BY <1>7 DEF Complete
  <2>4. QED
    BY <1>1, <1>3, <1>6, <1>7, <2>1, <2>2, <2>3 DEF Quiet, Building, Swapping, Begun
<1>14. Success' /\ Bare' /\ NoRoomLeaks'
  BY <1>3, <1>6, <1>7 DEF Success, SuccessMeansWhole, Bare, NoRoomLeaks, Free
<1>15. QED
  BY <1>9, <1>10, <1>11, <1>12, <1>13, <1>14

LEMMA OperateGood ==
    ASSUME PoolInv, Operate
    PROVE  PoolInv'
<1> USE DEF PoolInv
<1>1. /\ op = None /\ Menu \in Processes /\ decision' \in Slots \union {None, AllSlots}
      /\ UNCHANGED <<room, up, pool, desired, serving, stage, replacing, trouble>>
  BY DEF Operate, Free, units, state, memory, Processes, TypeOK
<1>2. CASE Call(Menu, "transition", None)
  BY <1>1, <1>2, CallGood
<1>3. CASE desired /\ \E slot \in Slots : Call(Menu, "replace", slot)
  BY <1>1, <1>3, CallGood
<1>4. CASE desired /\ Call(Menu, "disable", None)
  BY <1>1, <1>4, CallGood
<1>5. CASE Call(Menu, "uninstall", None)
  BY <1>1, <1>5, CallGood
<1>6. QED
  BY <1>2, <1>3, <1>4, <1>5 DEF Operate

(* A room that is opened stays open. *)
LEMMA RoomsGood ==
    ASSUME PoolInv, room' \in [Units -> Room \union {None}],
           \A u \in Units : room[u] # None => room'[u] # None,
           decision' \in Slots \union {None, AllSlots},
           UNCHANGED <<up, pool, desired, serving, stage, replacing, op, trouble>>
    PROVE  PoolInv'
<1> USE DEF PoolInv
<1>1. TypeOK' /\ Roles' /\ Memory' /\ NoRoomLeaks' /\ Bare'
  BY DEF TypeOK, Roles, Memory, NoRoomLeaks, Free, Bare
<1>2. UNCHANGED <<Base, Coming, Leaving, Swapped, Served>>
  BY DEF Base, Coming, Leaving, Swapped, Served
<1>3. \A p \in Pool \union {None} : CompleteIn(p, room, up) => CompleteIn(p, room', up')
  BY PoolFacts DEF CompleteIn
<1>4. op # None => op.pool \in Pool \union {None}
  BY OpFacts
<1>5. Progress'
  <2>1. op # None /\ op.pc \in {"commit", "apply", "finalize"} =>
            \A u \in Whole(Target(op.pool)) : Open(u)'
    <3>1. op # None => Target(op.pool) \in Generations
      BY <1>4, PoolFacts
    <3>2. QED
      BY <3>1 DEF Progress, Open, Whole, Units
  <2>2. QED
    BY <1>2, <2>1 DEF Progress
<1>6. Quiet'
  BY <1>2, <1>3, <1>4 DEF Quiet
<1>7. Success'
  BY <1>2, <1>3 DEF Success, SuccessMeansWhole, Complete, TypeOK
<1>8. QED
  BY <1>1, <1>5, <1>6, <1>7

LEMMA RotateGood ==
    ASSUME PoolInv, Rotate
    PROVE  PoolInv'
BY RoomsGood DEF Rotate, units, state, memory, PoolInv, TypeOK

LEMMA ProbeGood ==
    ASSUME PoolInv, NEW s \in Slots, Probe(s)
    PROVE  PoolInv'
<1> DEFINE u == <<pool.slots[s], s>>
<1> USE DEF PoolInv
<1>1. pool # None /\ u \in Members(pool) /\ room[u] # None
  BY DEF Probe, Complete, CompleteIn, Members
<1>2. u \in Units /\ room[u] \in Room
  BY <1>1, PoolFacts DEF TypeOK
<1>3. /\ UNCHANGED <<up, pool, desired, serving, stage, replacing, op, trouble>>
      /\ decision' \in Slots \union {None, AllSlots}
      /\ \/ room' = [room EXCEPT ![u].suspect = ~ room[u].suspect]
         \/ room' = [room EXCEPT ![u].suspect = FALSE]
  BY DEF Probe, state, memory, TypeOK
<1> HIDE DEF u
<1>4. \A v \in BOOLEAN : [room[u] EXCEPT !.suspect = v] \in Room
  BY <1>2 DEF Room
<1>5. PICK v \in Room : room' = [room EXCEPT ![u] = v]
  <2>1. (~ room[u].suspect) \in BOOLEAN /\ FALSE \in BOOLEAN
    OBVIOUS
  <2>2. QED
    BY <1>3, <1>4, <2>1
<1>6. /\ room' \in [Units -> Room \union {None}]
      /\ \A w \in Units : room[w] # None => room'[w] # None
  BY <1>2, <1>5, NoneFacts DEF TypeOK
<1>7. QED
  BY <1>3, <1>6, RoomsGood

LEMMA RoomDiesGood ==
    ASSUME PoolInv, RoomDies
    PROVE  PoolInv'
<1> USE DEF PoolInv
<1>1. /\ UNCHANGED <<up, pool, desired, serving, stage, replacing, op, trouble>>
      /\ decision' \in Slots \union {None, AllSlots}
  BY DEF RoomDies, state, memory, TypeOK
<1>2. PICK u \in up : room[u] # None /\ room' = [room EXCEPT ![u].dead = TRUE]
  BY DEF RoomDies
<1>3. u \in Units /\ room[u] \in Room
  BY <1>2 DEF TypeOK
<1>4. [room[u] EXCEPT !.dead = TRUE] \in Room
  BY <1>3 DEF Room
<1>5. PICK v \in Room : room' = [room EXCEPT ![u] = v]
  BY <1>2, <1>4
<1>6. /\ room' \in [Units -> Room \union {None}]
      /\ \A w \in Units : room[w] # None => room'[w] # None
  BY <1>3, <1>5, NoneFacts DEF TypeOK
<1>7. QED
  BY <1>1, <1>6, RoomsGood

LEMMA DecideGood ==
    ASSUME PoolInv, Decide
    PROVE  PoolInv'
<1> USE DEF PoolInv
<1>1. /\ decision # None /\ decision \in Slots \union {None, AllSlots}
      /\ decision' \in Slots \union {None, AllSlots} /\ Job \in Processes
      /\ UNCHANGED <<room, up, pool, desired, serving, stage, replacing, trouble>>
  BY DEF Decide, units, state, memory, TypeOK, Processes
<1>2. CASE UNCHANGED op
  BY <1>1, <1>2, RoomsGood DEF TypeOK
<1>3. CASE op = None /\ desired /\ Call(Job, "transition", None)
  BY <1>1, <1>3, CallGood
<1>4. CASE op = None /\ desired /\ decision \in Slots /\ Call(Job, "replace", decision)
  BY <1>1, <1>4, CallGood
<1>5. QED
  BY <1>1, <1>2, <1>3, <1>4 DEF Decide, Free

-------------------------------------------------------------------------------
LEMMA InitGood == Init => PoolInv
<1> SUFFICES ASSUME Init PROVE PoolInv
  OBVIOUS
<1>1. /\ room = [u \in Units |-> None] /\ up = {} /\ pool = None
      /\ desired = FALSE /\ serving = FALSE
      /\ stage = [p \in Processes |-> None] /\ replacing = [p \in Processes |-> None]
      /\ op = None /\ decision = None /\ trouble = {}
  BY DEF Init
<1>2. TypeOK
  BY <1>1 DEF TypeOK
<1>3. Roles /\ Progress /\ Quiet /\ Success
  BY <1>1 DEF Roles, Progress, Quiet, Success, SuccessMeansWhole
<1>4. Memory /\ Bare /\ NoRoomLeaks
  BY <1>1 DEF Memory, Bare, NoRoomLeaks
<1>5. QED
  BY <1>2, <1>3, <1>4 DEF PoolInv

LEMMA NextGood == PoolInv /\ [Next]_vars => PoolInv'
<1> SUFFICES ASSUME PoolInv, [Next]_vars PROVE PoolInv'
  OBVIOUS
<1>1. CASE Transition
  BY <1>1, LeftoverGood, ClearTargetGood, CreateRefusedGood, StartTargetGood, CommitPoolGood,
     ApplyGood, FinalizePoolGood, UndoPoolGood, RestoreStateGood DEF Transition
<1>2. CASE Replacement
  BY <1>2, StartSlotGood, SlotRefusedGood, WriteSlotGood, ApplySlotGood, FinalizeSlotGood,
     UndoSlotGood DEF Replacement
<1>3. CASE Removal \/ Ends
  BY <1>3, StopPoolGood, LeaveGood, ForgetGood, RestorePoolGood, EndsGood DEF Removal
<1>4. CASE Operate \/ Decide \/ RoomDies \/ Killed
  BY <1>4, OperateGood, DecideGood, RoomDiesGood, KilledGood
<1>5. CASE Health
  BY <1>5, RotateGood, ProbeGood DEF Health
<1>6. CASE UNCHANGED vars
  BY <1>6, RoomsGood DEF vars, PoolInv, TypeOK
<1>7. QED
  BY <1>1, <1>2, <1>3, <1>4, <1>5, <1>6 DEF Next, Works

-------------------------------------------------------------------------------
(* The annotation of the operations is an invariant. *)
THEOREM PoolInvariant == Spec => []PoolInv
<1>1. Init => PoolInv
  BY InitGood
<1>2. PoolInv /\ [Next]_vars => PoolInv'
  BY NextGood
<1>3. QED
  BY <1>1, <1>2, PTL DEF Spec

(* Rooms, pools and operations are what they should be, and only the process   *)
(* that holds the lock, or the menu after a failed undo, has something staged. *)
THEOREM Typing == Spec => []TypeOK
<1>1. PoolInv => TypeOK
  BY DEF PoolInv
<1>2. QED
  BY <1>1, PoolInvariant, PTL

(* While a transition runs and after it has failed, the pool it found serves   *)
(* with all its rooms: the other generation is built beside it, and the        *)
(* previous one is stopped only at finalize.                                   *)
THEOREM PoolStands == Spec => []PreviousPoolStands
<1>1. PoolInv => PreviousPoolStands
  BY DEF PoolInv, Quiet, PreviousPoolStands
<1>2. QED
  BY <1>1, PoolInvariant, PTL

(* A transition that reports success has left a whole pool of one generation   *)
(* and a listener, whatever failed, died or was left behind before it.         *)
THEOREM SuccessIsWhole == Spec => []SuccessMeansWhole
<1>1. PoolInv => SuccessMeansWhole
  BY DEF PoolInv, Success
<1>2. QED
  BY <1>1, PoolInvariant, PTL

(* Between operations only units of the pool run, unless an undo failed or a   *)
(* process died since the last operation that cleared everything.              *)
THEOREM NoLeaks == Spec => []NoRoomLeaks
<1>1. PoolInv => NoRoomLeaks
  BY DEF PoolInv
<1>2. QED
  BY <1>1, PoolInvariant, PTL

===============================================================================
