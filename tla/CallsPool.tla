------------------------------- MODULE CallsPool -------------------------------
(***************************************************************************)
(* The room pool of Hydra VK Tunnel.  A room is kept by one systemd unit   *)
(* per generation ("a" or "b") and slot, which writes its link to a file   *)
(* of its own; pool/state.json says which generation serves each slot.     *)
(* CallsService builds a new generation beside the old one, replaces one   *)
(* room, or removes the pool, under a lock between processes; how far a    *)
(* process has come is in its memory only (_pool_stage, _slot_replacement).*)
(*                                                                         *)
(* The processes are the operator's menu, which lives on, and the health   *)
(* job, a new process each time.  Commands fail and processes die anywhere.*)
(* Taken from elsewhere: Hydracore is selected, credentials are valid, and *)
(* activate, enable, disable, uninstall and apply_config either succeed or *)
(* change nothing (Lifecycle, ApplyPipeline).                              *)
(***************************************************************************)
EXTENDS Naturals, FiniteSets

CONSTANTS
    Slots,          \* 1 .. CALL_COUNT
    Menu, Job,      \* the processes
    None,
    MaxOperations,  \* bound: operations of the menu
    MaxFaults,      \* bound: commands that fail, kills
    MaxDeaths       \* bound: rooms that the provider closes

ASSUME CallsAssumption ==
    /\ Menu # Job /\ Slots # {} /\ Slots \subseteq Nat \ {0}
    /\ \A bound \in {MaxOperations, MaxFaults, MaxDeaths} : bound \in Nat

Generations == {"a", "b"}
Units == Generations \X Slots
Processes == {Menu, Job}
AllSlots == 0
Room == [dead : BOOLEAN,      \* closed by the provider, although the unit runs
         suspect : BOOLEAN]   \* probe-state.json: found dead once
Pool == [generation : Generations, slots : [Slots -> Generations]]
Stage == [generation : Generations, previous : Generations \union {None},
          pool : Pool \union {None}]
Exchange == [old : Units, new : Units, pool : Pool]
Snapshot == [Units -> Room \union {None}] \X SUBSET Units
Pcs == {"create", "start", "commit", "apply", "finalize", "undoPool", "undone", "slotStart",
        "slotWrite", "slotApply", "slotFinalize", "undoSlot", "stop", "leave", "forget",
        "restorePool", "end"}
Operation == [process : Processes, kind : {"transition", "replace", "disable", "uninstall"},
              slot : Slots \union {None}, desired : BOOLEAN, pool : Pool \union {None},
              units : Snapshot \union {None}, ok : BOOLEAN, intact : BOOLEAN, pc : Pcs]

\* None is none of the values it stands beside.
ASSUME SentinelAssumption ==
    /\ None \notin Room \union Generations \union Pool \union Stage \union Exchange
    /\ None \notin Slots \union {AllSlots} /\ None \notin Snapshot /\ None \notin Operation

VARIABLES
    room,         \* per unit: the room in its call file
    up,           \* units that run (and are enabled)
    pool,         \* state.json
    desired,      \* the stored state has Calls enabled
    serving,      \* sing-box runs the Calls listener
    stage,        \* per process: _pool_stage
    replacing,    \* per process: _slot_replacement
    op,           \* the operation that holds the lock
    decision,     \* the slot the health job is going to replace, or AllSlots
    trouble,      \* history: what went wrong since the last whole rotation
    operations, faults, deaths

bounds == <<operations, faults, deaths>>
memory == <<stage, replacing>>
units == <<room, up>>
state == <<desired, serving>>
vars == <<room, up, pool, desired, serving, stage, replacing, op, decision, trouble,
          operations, faults, deaths>>

Fresh == [dead |-> FALSE, suspect |-> FALSE]
Whole(generation) == {generation} \X Slots
Members(p) == IF p = None THEN {} ELSE {<<p.slots[s], s>> : s \in Slots}

\* load_native_join_links finds a link in every slot and every unit running.
CompleteIn(p, rooms, running) ==
    p # None /\ \A u \in Members(p) : rooms[u] # None /\ u \in running
Complete == CompleteIn(pool, room, up)

Fault == faults < MaxFaults /\ faults' = faults + 1 /\ UNCHANGED <<operations, deaths>>
NoFault == UNCHANGED bounds
Troubled(what) == trouble' = trouble \union {what}

Go(next) == op' = [op EXCEPT !.pc = next]
At(here, next) == op # None /\ op.pc = here /\ Go(next) /\ UNCHANGED decision

-------------------------------------------------------------------------------
(* Creator units.                                                            *)

\* systemctl stop and disable of each of these units, and their files removed.
Stopped(some) == up' = up \ some
Cleared(some) == room' = [u \in Units |-> IF u \in some THEN None ELSE room[u]]

\* The same, when the command fails for some of the units.
PartlyStopped(some) == \E left \in (SUBSET some) \ {{}} : Stopped(some \ left)

\* enable and restart of each of these units: every one of them opens a room.
Started(some) ==
    /\ up' = up \union some
    /\ room' = [u \in Units |-> IF u \in some THEN Fresh ELSE room[u]]

-------------------------------------------------------------------------------
(* A transition: enable, reinstall or rotate.                                *)

Free == op = None
Call(process, kind, slot) ==
    op' = [process |-> process, kind |-> kind, slot |-> slot, desired |-> desired, pool |-> pool,
           units |-> IF kind \in {"disable", "uninstall"} THEN <<room, up>> ELSE None, ok |-> FALSE, intact |-> Complete,
           pc |-> CASE kind = "transition" -> "create"
                    [] kind = "replace" -> "slotStart"
                    [] OTHER -> "stop"]

\* refresh_creator_pool first finalizes what this process has left staged.
FinalizeLeftover ==
    /\ op # None /\ op.pc = "create" /\ stage[op.process] # None
    /\ LET old == IF stage[op.process].previous = None THEN {} ELSE Whole(stage[op.process].previous)
       IN  /\ Cleared(old)
           /\ \/ /\ Stopped(old) /\ NoFault /\ Go("create") /\ UNCHANGED trouble
                 /\ stage' = [stage EXCEPT ![op.process] = None]
              \/ /\ PartlyStopped(old) /\ Fault /\ Go("undone") /\ Troubled("stop")
                 /\ UNCHANGED stage
    /\ UNCHANGED <<pool, state, replacing, decision>>

\* Mutant of ClearTarget: the generation that serves is the one to be built.
ClearTargetWrong ==
    /\ At("create", "start")
    /\ stage[op.process] = None
    /\ LET active == IF pool = None THEN None ELSE pool.generation
           target == IF active = "b" THEN "b" ELSE "a"
       IN  /\ stage' = [stage EXCEPT ![op.process] =
                           [generation |-> target, previous |-> active, pool |-> pool]]
           /\ Cleared(Whole(target))
           /\ Stopped(Whole(target)) /\ NoFault /\ UNCHANGED trouble
    /\ UNCHANGED <<pool, state, replacing>>

\* The other generation is cleared away; whether its units stopped is not asked.
ClearTarget ==
    /\ At("create", "start")
    /\ stage[op.process] = None
    /\ LET active == IF pool = None THEN None ELSE pool.generation
           target == IF active = "a" THEN "b" ELSE "a"
       IN  /\ stage' = [stage EXCEPT ![op.process] =
                           [generation |-> target, previous |-> active, pool |-> pool]]
           /\ Cleared(Whole(target))
           /\ \/ Stopped(Whole(target)) /\ NoFault /\ UNCHANGED trouble
              \/ PartlyStopped(Whole(target)) /\ Fault /\ Troubled("stop")
    /\ UNCHANGED <<pool, state, replacing>>

\* Nothing has been touched yet: the installer, the credentials, daemon-reload.
CreateRefused ==
    /\ At("create", "undone")
    /\ stage[op.process] = None
    /\ Fault
    /\ UNCHANGED <<units, pool, state, memory, trouble>>

StartTarget ==
    /\ At("start", "commit")
    /\ Started(Whole(stage[op.process].generation))
    /\ NoFault /\ UNCHANGED <<pool, state, memory, trouble>>

\* A unit does not start, or its link does not come: create() rolls back itself.
StartFails ==
    /\ At("start", "undoPool")
    /\ \E some \in SUBSET Whole(stage[op.process].generation) : Started(some)
    /\ Fault /\ UNCHANGED <<pool, state, memory, trouble>>

\* Mutant of CommitPool: a slot keeps the generation it had.
CommitPoolKeepsSlots ==
    /\ op # None /\ op.pc = "commit" /\ UNCHANGED decision
    /\ \/ /\ pool' = [generation |-> stage[op.process].generation,
                      slots |-> IF pool = None THEN [s \in Slots |-> stage[op.process].generation]
                                             ELSE pool.slots]
          /\ Go("apply") /\ NoFault
       \/ pool' = pool /\ Fault /\ Go("undoPool")
    /\ UNCHANGED <<units, state, memory, trouble>>

CommitPool ==
    /\ op # None /\ op.pc = "commit" /\ UNCHANGED decision
    /\ \/ /\ pool' = [generation |-> stage[op.process].generation,
                      slots |-> [s \in Slots |-> stage[op.process].generation]]
          /\ Go("apply") /\ NoFault
       \/ pool' = pool /\ Fault /\ Go("undoPool")
    /\ UNCHANGED <<units, state, memory, trouble>>

\* activate, enable or apply_config, and the look whether sing-box runs.
Apply ==
    /\ op # None /\ op.pc = "apply" /\ UNCHANGED decision
    /\ \/ desired' = TRUE /\ serving' = TRUE /\ NoFault /\ Go("finalize")
       \/ desired' = TRUE /\ serving' \in BOOLEAN /\ Fault /\ Go("undoPool")
       \/ UNCHANGED state /\ Fault /\ Go("undoPool")
    /\ UNCHANGED <<units, pool, memory, trouble>>

\* Mutant of FinalizePool: the stage is forgotten, and the old units stay.
FinalizePoolSkipped ==
    /\ op # None /\ op.pc = "finalize" /\ UNCHANGED decision
    /\ op' = [op EXCEPT !.pc = "end", !.ok = TRUE]
    /\ stage' = [stage EXCEPT ![op.process] = None]
    /\ NoFault
    /\ UNCHANGED <<units, trouble, pool, state, replacing>>

FinalizePool ==
    /\ op # None /\ op.pc = "finalize" /\ UNCHANGED decision
    /\ LET old == IF stage[op.process].previous = None THEN {} ELSE Whole(stage[op.process].previous)
       IN  /\ Cleared(old)
           /\ \/ /\ Stopped(old) /\ NoFault /\ UNCHANGED trouble
                 /\ stage' = [stage EXCEPT ![op.process] = None]
                 /\ op' = [op EXCEPT !.pc = "end", !.ok = TRUE]
              \/ /\ PartlyStopped(old) /\ Fault /\ Troubled("stop") /\ Go("undoPool")
                 /\ UNCHANGED stage
    /\ UNCHANGED <<pool, state, replacing>>

\* rollback_creator_pool: the stage is forgotten only if every unit stopped.
UndoPool ==
    /\ At("undoPool", "undone")
    /\ LET mine == stage[op.process]
       IN  /\ Cleared(Whole(mine.generation))
           /\ \/ /\ Stopped(Whole(mine.generation)) /\ NoFault /\ UNCHANGED trouble
                 /\ stage' = [stage EXCEPT ![op.process] = None]
                 /\ pool' = mine.pool
              \/ /\ PartlyStopped(Whole(mine.generation)) /\ Fault /\ Troubled("stop")
                 /\ pool' = mine.pool
                 /\ UNCHANGED stage
              \/ /\ Stopped(Whole(mine.generation)) /\ Fault /\ Troubled("write")
                 /\ UNCHANGED <<stage, pool>>
    /\ UNCHANGED <<state, replacing>>

\* _failed_transition and _restore_native_transition: the state as it was, saved
\* and applied again.
RestoreState ==
    /\ At("undone", "end")
    /\ \/ desired' = op.desired /\ serving' = op.desired /\ NoFault /\ UNCHANGED trouble
       \/ /\ \/ UNCHANGED desired /\ serving' = op.desired
             \/ desired' = op.desired /\ UNCHANGED serving
          /\ Fault /\ Troubled("write")
    /\ UNCHANGED <<units, pool, memory>>

-------------------------------------------------------------------------------
(* replace_native_vk_slot                                                    *)

Old == <<pool.slots[op.slot], op.slot>>
New == <<IF Old[1] = "a" THEN "b" ELSE "a", op.slot>>

\* The retained rooms have their links, and the replacement opens its room.
StartSlot ==
    /\ At("slotStart", "slotWrite")
    /\ op.desired /\ replacing[op.process] = None /\ pool # None
    /\ \A u \in Members(pool) : room[u] # None
    /\ Started({New})
    /\ NoFault /\ UNCHANGED <<pool, state, memory, trouble>>

\* Nothing is staged: what has been started is stopped, whatever systemctl says.
SlotRefused ==
    /\ op # None /\ op.pc \in {"slotStart", "slotWrite"} /\ Go("undone") /\ UNCHANGED decision
    /\ \/ /\ op.pc = "slotStart"
          /\ \/ ~ op.desired \/ replacing[op.process] # None \/ pool = None
             \/ pool # None /\ \E u \in Members(pool) : room[u] = None
          /\ NoFault /\ UNCHANGED <<units, trouble>>
       \/ /\ pool # None /\ Cleared({New}) /\ Fault
          /\ \/ Stopped({New}) /\ UNCHANGED trouble
             \/ up' = up \union {New} /\ Troubled("stop")
    /\ UNCHANGED <<pool, state, memory>>

WriteSlot ==
    /\ At("slotWrite", "slotApply")
    /\ pool' = [pool EXCEPT !.slots[op.slot] = New[1]]
    /\ replacing' = [replacing EXCEPT ![op.process] =
                         [old |-> Old, new |-> New, pool |-> pool]]
    /\ NoFault /\ UNCHANGED <<units, state, stage, trouble>>

ApplySlot ==
    /\ op # None /\ op.pc = "slotApply" /\ UNCHANGED decision
    /\ \/ serving' = TRUE /\ NoFault /\ Go("slotFinalize")
       \/ serving' \in {serving, FALSE} /\ Fault /\ Go("undoSlot")
    /\ UNCHANGED <<units, pool, desired, memory, trouble>>

FinalizeSlot ==
    /\ op # None /\ op.pc = "slotFinalize" /\ UNCHANGED decision
    /\ LET old == replacing[op.process].old
       IN  \/ /\ Stopped({old}) /\ Cleared({old}) /\ NoFault
              /\ replacing' = [replacing EXCEPT ![op.process] = None]
              /\ op' = [op EXCEPT !.pc = "end", !.ok = TRUE]
           \/ /\ up' \in {up, up \ {old}} /\ UNCHANGED <<room, replacing>>
              /\ Fault /\ Go("undoSlot")
    /\ UNCHANGED <<pool, state, stage, trouble>>

\* The previous unit is started again before the metadata goes back to it.
UndoSlot ==
    /\ At("undoSlot", "undone")
    /\ LET mine == replacing[op.process]
           restarted(others) ==
               /\ up' = (up \ others) \union {mine.old}
               /\ room' = [u \in Units |->
                              IF u \in others THEN None
                              ELSE IF u = mine.old /\ u \notin up THEN Fresh ELSE room[u]]
       IN  \/ pool' = mine.pool /\ restarted({mine.new}) /\ NoFault /\ UNCHANGED trouble
           \/ pool' = pool /\ restarted({}) /\ Fault /\ Troubled("write")
           \/ /\ pool' = mine.pool /\ Fault /\ Troubled("stop")
              /\ up' = up \union {mine.old} /\ Cleared({mine.new})
           \/ /\ pool' = mine.pool /\ Fault /\ Troubled("start")
              /\ Stopped({mine.new}) /\ Cleared({mine.new})
    /\ replacing' = [replacing EXCEPT ![op.process] = None]
    /\ UNCHANGED <<state, stage>>

-------------------------------------------------------------------------------
(* disable_native_vk and uninstall_native_vk                                 *)

StopPool ==
    /\ op # None /\ op.pc = "stop" /\ UNCHANGED decision
    /\ Cleared(Units)
    /\ \/ /\ Stopped(Units) /\ NoFault /\ UNCHANGED trouble
          /\ stage' = [stage EXCEPT ![op.process] = None]
          /\ Go("leave")
       \/ /\ PartlyStopped(Units) /\ Fault /\ Troubled("stop") /\ Go("restorePool")
          /\ UNCHANGED stage
    /\ UNCHANGED <<pool, state, replacing>>

Leave ==
    /\ op # None /\ op.pc = "leave" /\ UNCHANGED decision
    /\ \/ /\ desired' = FALSE /\ serving' = FALSE /\ NoFault
          /\ IF op.kind = "disable" THEN op' = [op EXCEPT !.pc = "end", !.ok = TRUE]
                                    ELSE Go("forget")
       \/ UNCHANGED state /\ Fault /\ Go("restorePool")
    /\ UNCHANGED <<units, pool, memory, trouble>>

\* uninstall_creator_pool: everything is stopped already.
Forget ==
    /\ op # None /\ op.pc = "forget" /\ UNCHANGED decision
    /\ \/ pool' = None /\ NoFault /\ op' = [op EXCEPT !.pc = "end", !.ok = TRUE]
       \/ pool' \in {None, pool} /\ Fault /\ Go("restorePool")
    /\ UNCHANGED <<units, state, memory, trouble>>

\* restore_creator_pool_snapshot: the files, then every unit that was running.
RestorePool ==
    /\ At("restorePool", "undone")
    /\ pool' = op.pool
    /\ LET before == op.units IN
       /\ \/ up' = up \union before[2] /\ NoFault /\ UNCHANGED trouble
          \/ \E some \in SUBSET before[2] : up' = up \union some /\ Fault /\ Troubled("start")
       /\ room' = [u \in Units |-> IF u \in before[2] \ up THEN Fresh ELSE before[1][u]]
    /\ UNCHANGED <<state, memory>>

-------------------------------------------------------------------------------
(* Who calls.                                                                *)

Ends ==
    /\ op # None /\ op.pc = "end"
    /\ op' = None
    /\ stage' = [stage EXCEPT ![Job] = IF op.process = Job THEN None ELSE @]
    /\ replacing' = [replacing EXCEPT ![Job] = IF op.process = Job THEN None ELSE @]
    /\ trouble' = IF op.ok /\ op.kind # "replace" /\ stage[Menu] = None THEN {} ELSE trouble
    /\ UNCHANGED <<units, pool, state, decision, bounds>>

Operate ==
    /\ Free /\ operations < MaxOperations
    /\ operations' = operations + 1
    /\ \/ Call(Menu, "transition", None)
       \/ desired /\ \E slot \in Slots : Call(Menu, "replace", slot)
       \/ desired /\ Call(Menu, "disable", None)
       \/ Call(Menu, "uninstall", None)
    /\ UNCHANGED <<units, pool, state, memory, decision, trouble, faults, deaths>>

\* Mutant of Rotate: only a whole pool is rotated.
RotateWhole ==
    /\ Free /\ decision = None /\ desired /\ Complete
    /\ decision' = AllSlots
    /\ UNCHANGED <<units, pool, state, memory, op, trouble, bounds>>

\* Mutant of Probe: the second answer is taken for a first one.
ProbeNeverConfirms(s) ==
    /\ Free /\ decision = None /\ desired /\ Complete
    /\ LET u == <<pool.slots[s], s>> IN
       \/ /\ room[u].dead /\ NoFault
          /\ decision' = None
          /\ room' = [room EXCEPT ![u].suspect = ~ room[u].suspect]
       \/ /\ room[u].suspect /\ Fault
          /\ room' = [room EXCEPT ![u].suspect = FALSE]
          /\ UNCHANGED decision
    /\ UNCHANGED <<up, pool, state, memory, op, trouble>>

\* run_health rotates a pool that is not whole, or that is due; else it probes a
\* slot.  A second dead answer in a row condemns a room, any other acquits it.
Rotate ==
    /\ Free /\ decision = None /\ desired
    /\ decision' = AllSlots
    /\ UNCHANGED <<units, pool, state, memory, op, trouble, bounds>>

Probe(s) ==
    /\ Free /\ decision = None /\ desired /\ Complete
    /\ LET u == <<pool.slots[s], s>> IN
       \/ /\ room[u].dead /\ NoFault
          /\ decision' = IF room[u].suspect THEN s ELSE None
          /\ room' = [room EXCEPT ![u].suspect = ~ room[u].suspect]
       \/ /\ room[u].suspect /\ Fault
          /\ room' = [room EXCEPT ![u].suspect = FALSE]
          /\ UNCHANGED decision
    /\ UNCHANGED <<up, pool, state, memory, op, trouble>>

\* The probe has given the lock back before the decision is carried out; when
\* another process has it by then, the decision is dropped.
Decide ==
    /\ decision # None
    /\ decision' = None
    /\ IF ~ Free \/ ~ desired THEN UNCHANGED op
       ELSE IF decision = AllSlots THEN Call(Job, "transition", None)
       ELSE Call(Job, "replace", decision)
    /\ UNCHANGED <<units, pool, state, memory, trouble, bounds>>

RoomDies ==
    /\ deaths < MaxDeaths /\ deaths' = deaths + 1
    /\ \E u \in up : room[u] # None /\ ~ room[u].dead /\ room' = [room EXCEPT ![u].dead = TRUE]
    /\ UNCHANGED <<up, pool, state, memory, op, decision, trouble, operations, faults>>

\* The process of the operation dies: the lock falls free, its memory is lost.
Killed ==
    /\ op # None /\ Fault
    /\ op' = None
    /\ stage' = [stage EXCEPT ![op.process] = None]
    /\ replacing' = [replacing EXCEPT ![op.process] = None]
    /\ Troubled("kill")
    /\ UNCHANGED <<units, pool, state, decision>>

Transition ==
    \/ FinalizeLeftover \/ ClearTarget \/ CreateRefused \/ StartTarget \/ StartFails \/ CommitPool
    \/ Apply \/ FinalizePool \/ UndoPool \/ RestoreState
Replacement == StartSlot \/ SlotRefused \/ WriteSlot \/ ApplySlot \/ FinalizeSlot \/ UndoSlot
Removal == StopPool \/ Leave \/ Forget \/ RestorePool

Init ==
    /\ room = [u \in Units |-> None] /\ up = {} /\ pool = None
    /\ desired = FALSE /\ serving = FALSE
    /\ stage = [p \in Processes |-> None] /\ replacing = [p \in Processes |-> None]
    /\ op = None /\ decision = None /\ trouble = {}
    /\ operations = 0 /\ faults = 0 /\ deaths = 0

Works == Transition \/ Replacement \/ Removal \/ Ends
Health == Rotate \/ \E s \in Slots : Probe(s)
Next == Works \/ Operate \/ Health \/ Decide \/ RoomDies \/ Killed

\* An operation goes on; the timer of the health job fires again and again, and
\* claim_due takes the slot that was not checked for the longest time.
Spec ==
    /\ Init /\ [][Next]_vars
    /\ WF_vars(Works) /\ WF_vars(Decide)
    /\ WF_vars(Rotate /\ ~ Complete)
    /\ \A s \in Slots : SF_vars(Probe(s))

-------------------------------------------------------------------------------
(* Properties.                                                               *)

Mixed(p) == p # None /\ \E s \in Slots : p.slots[s] # p.generation

\* Every variable has its type.  A process that holds a stage or a replacement
\* holds the lock, or is the menu after a rollback that failed.
TypeOK ==
    /\ room \in [Units -> Room \union {None}] /\ up \subseteq Units
    /\ pool \in Pool \union {None} /\ desired \in BOOLEAN /\ serving \in BOOLEAN
    /\ decision \in Slots \union {None, AllSlots}
    /\ op \in Operation \union {None}
    /\ stage \in [Processes -> Stage \union {None}]
    /\ replacing \in [Processes -> Exchange \union {None}]
    /\ \A p \in Processes :
           /\ replacing[p] # None => op # None /\ op.process = p
           /\ stage[p] # None => p = Menu \/ (op # None /\ op.process = Job)
    /\ trouble \subseteq {"stop", "start", "write", "kill"}

\* "The new generation is created before the commit; the previous one is stopped
\* only at finalize": while a transition runs and after it has failed, the pool
\* it found goes on serving with all its rooms.  Demanded of a pool of one
\* generation, and while no command of an undo has failed and nobody died.
PreviousPoolStands ==
    op # None /\ op.kind = "transition" /\ op.intact /\ ~ Mixed(op.pool) /\ ~ op.ok
        /\ trouble = {} =>
            /\ CompleteIn(op.pool, room, up)
            /\ op.pc \in {"undone", "end"} => pool = op.pool

\* The same of every pool, one with a replaced room included, once the transition
\* has failed: "an error before finalize returns pool, state and runtime".
FailureReturnsPool ==
    op # None /\ op.kind = "transition" /\ op.intact /\ ~ op.ok /\ trouble = {} /\ op.pc = "end"
        => CompleteIn(op.pool, room, up) /\ pool = op.pool

\* A transition that reports success has left a whole pool of one generation and
\* a listener, whatever failed, died or was left behind before it.
SuccessMeansWhole ==
    op # None /\ op.ok /\ op.kind = "transition" => Complete /\ ~ Mixed(pool) /\ desired /\ serving

\* No room is kept for nothing: between operations only units of the pool run, and
\* none when Calls is off, unless an undo failed or a process died.
NoRoomLeaks == Free /\ trouble = {} => up \subseteq IF desired THEN Members(pool) ELSE {}

\* However the pool was damaged, the health job makes it whole again.
PoolHeals == (desired /\ ~ Complete) ~> (Complete \/ ~ desired)

\* A room the provider has closed does not stay in the pool.
DeadRoomsGo ==
    (desired /\ Complete /\ \E u \in Members(pool) : room[u].dead)
        ~> ~ (desired /\ Complete /\ \E u \in Members(pool) : room[u].dead)

===============================================================================
