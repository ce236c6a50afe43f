---------------------------- MODULE AntiDpi_proofs ----------------------------
(***************************************************************************)
(* The ban record and the ipset, for any number of addresses, operators,   *)
(* commands, refusals, kills and reboots.  BansInv is inductive: who is    *)
(* between a firewall command and its record holds the lock and has in     *)
(* memory what the file says of every other address.                       *)
(***************************************************************************)
EXTENDS AntiDpi, TLAPS

LockedSteps == {"unbanned", "decided", "restoring"}
UnlockedSteps == {"idle", "watch", "down", "unban", "ban", "fence", "release", "check",
                  "restore", "reconcile", "trust", "distrust", "commit"}
Steps == LockedSteps \union UnlockedSteps
Task == [at : Steps, todo : SUBSET Addresses, address : Addresses \union {Nobody},
         then : Steps, doc : Document, before : Document]

(* The control of a process: where it goes after a list or a preparation, and  *)
(* the address it has in hand.                                                 *)
Wellformed(p, t) ==
    /\ t.at = "fence" => t.then \in {"ban", "release"}
    /\ t.at = "fence" /\ t.then = "ban" => p \in Operators /\ t.address \in Addresses
    /\ t.at = "ban" => p \in Operators
    /\ t.at \in {"unban", "unbanned"} => t.then \in {"idle", "commit", "check", "reconcile"}
    /\ t.at \in {"ban", "unbanned", "decided", "trust", "distrust"} => t.address \in Addresses

(* Who is between a firewall command and its record holds the lock. *)
HoldsLock(p, t) == t.at \in LockedSteps <=> lock = p

(* The copy t has in memory says of an address what the file says. *)
Current(t, a) == a \in rewritten \/ t.doc.banned[a] = stored.banned[a]

(* What the holder of the lock knows between the two: a removed entry is gone;   *)
(* a decided ban is recorded, and the entry there is no stronger than the record *)
(* a refusal brings back; nothing else has moved.                                *)
Agrees(p, t) ==
    /\ t.at = "unbanned" => blocked[t.address] = None
    /\ t.at = "decided" =>
          /\ \A a \in Addresses \ {t.address} : Current(t, a)
          /\ t.address \notin rewritten =>
                /\ stored.banned[t.address] = IF p = Collector THEN Timed ELSE Permanent
                /\ blocked[t.address] <= t.doc.banned[t.address]
    /\ t.at = "restoring" => \A a \in Addresses : Current(t, a)

Shared ==
    /\ stored \in Document /\ blocked \in [Addresses -> Ban] /\ fenced \in BOOLEAN
    /\ lock \in Processes \union {Nobody} /\ rewritten \subseteq Addresses
Good(p) == Wellformed(p, task[p]) /\ HoldsLock(p, task[p]) /\ Agrees(p, task[p])

BansInv == /\ Shared /\ task \in [Processes -> Task]
           /\ NoOrphans
           /\ \A p \in Processes : Good(p)

-------------------------------------------------------------------------------
(* Documents and tasks.                                                      *)

LEMMA EmptyType == Empty \in Document /\ \A a \in Addresses : Empty.banned[a] = None
BY DEF Empty, Document, Ban

LEMMA WithBanFacts ==
    ASSUME NEW doc \in Document, NEW a \in Addresses, NEW ban \in Ban
    PROVE  /\ WithBan(doc, a, ban) \in Document
           /\ WithBan(doc, a, ban).banned[a] = ban
           /\ \A b \in Addresses \ {a} : WithBan(doc, a, ban).banned[b] = doc.banned[b]
<1>1. doc.banned \in [Addresses -> Ban]
  BY DEF Document
<1>2. WithBan(doc, a, ban) = [doc EXCEPT !.banned = [doc.banned EXCEPT ![a] = ban]]
  BY DEF WithBan, Document
<1> DEFINE bans == [doc.banned EXCEPT ![a] = ban]
<1>3. /\ bans \in [Addresses -> Ban] /\ bans[a] = ban
      /\ \A b \in Addresses \ {a} : bans[b] = doc.banned[b]
  BY <1>1
<1> HIDE DEF bans
<1>4. [doc EXCEPT !.banned = bans] \in Document /\ [doc EXCEPT !.banned = bans].banned = bans
  BY <1>3 DEF Document
<1>5. QED
  BY <1>2, <1>3, <1>4 DEF bans

LEMMA LapsedFacts ==
    ASSUME NEW doc \in Document, NEW a \in Addresses
    PROVE  /\ Lapsed(doc, a) \in Document
           /\ Lapsed(doc, a).banned[a] = IF doc.banned[a] = Timed THEN None ELSE doc.banned[a]
           /\ \A b \in Addresses \ {a} : Lapsed(doc, a).banned[b] = doc.banned[b]
<1>1. None \in Ban
  BY DEF Ban
<1>2. QED
  BY <1>1, WithBanFacts DEF Lapsed

LEMMA AtFacts ==
    ASSUME NEW step \in Steps
    PROVE  /\ At(step) \in Task
           /\ At(step).at = step /\ At(step).todo = {} /\ At(step).then = "idle"
BY EmptyType DEF At, Task, Steps, UnlockedSteps

LEMMA RestFacts ==
    ASSUME NEW p \in Processes
    PROVE  /\ Rest(p) \in Task /\ Dead(p) \in Task
           /\ Rest(p).at \in {"watch", "idle"} /\ Dead(p).at \in {"down", "idle"}
BY AtFacts DEF Rest, Dead, Steps, UnlockedSteps

LEMMA InitGood == Init => BansInv
<1> SUFFICES ASSUME Init PROVE BansInv
  OBVIOUS
<1>1. \A p \in Processes : task[p] = Dead(p)
  BY DEF Init, Dead
<1>2. Empty.banned = [a \in Addresses |-> None] /\ Empty.banned \in [Addresses -> Ban]
  BY DEF Empty, Ban
<1>3. None <= None
  BY DEF None
<1>4. Shared
  BY <1>2, EmptyType DEF Init, Shared
<1>5. NoOrphans
  BY <1>2, <1>3 DEF Init, NoOrphans
<1>6. task \in [Processes -> Task]
  BY <1>1, RestFacts DEF Init
<1>7. ASSUME NEW p \in Processes PROVE Good(p)
  <2>1. task[p].at \in {"down", "idle"} /\ lock # p
    BY <1>1, RestFacts, AntiDpiAssumption DEF Init, Processes
  <2>2. QED
    BY <2>1 DEF Good, Wellformed, HoldsLock, Agrees, LockedSteps
<1>8. QED
  BY <1>4, <1>5, <1>6, <1>7 DEF BansInv

-------------------------------------------------------------------------------
(* A step of one process: what it must establish for itself, and why nobody  *)
(* else's knowledge is disturbed: the others do not hold the lock, or the    *)
(* step changes neither ipset nor record but for addresses in rewritten.     *)

LEMMA OneMoves ==
    ASSUME BansInv, NEW p \in Processes, NEW t \in Task, Go(p, t),
           Shared', NoOrphans', Good(p)',
           lock' # lock => {lock, lock'} \subseteq {p, Nobody},
           rewritten \subseteq rewritten',
           \/ lock \in {p, Nobody}
           \/ /\ blocked' = blocked
              /\ \A a \in Addresses : a \in rewritten' \/ stored'.banned[a] = stored.banned[a]
    PROVE  BansInv'
<1>1. task' \in [Processes -> Task] /\ \A q \in Processes \ {p} : task'[q] = task[q]
  BY DEF BansInv, Go
<1>2. ASSUME NEW q \in Processes, q # p PROVE Good(q)'
  <2>1. task'[q] = task[q] /\ task[q] \in Task /\ q # Nobody
    BY <1>1, <1>2, AntiDpiAssumption DEF BansInv, Processes
  <2>2. Wellformed(q, task[q])'
    BY <2>1 DEF BansInv, Good, Wellformed
  <2>3. lock' = q <=> lock = q
    BY <1>2, <2>1
  <2>4. HoldsLock(q, task[q])'
    BY <2>1, <2>3 DEF BansInv, Good, HoldsLock
  <2>5. Agrees(q, task[q])'
    <3>1. CASE lock = q
      <4>1. lock \notin {p, Nobody}
        BY <1>2, <2>1, <3>1
      <4>2. /\ blocked' = blocked
            /\ \A a \in Addresses : a \in rewritten' \/ stored'.banned[a] = stored.banned[a]
        BY <4>1
      <4>3. Agrees(q, task[q]) /\ Wellformed(q, task[q])
        BY DEF BansInv, Good
      <4>4. QED
        BY <2>1, <4>2, <4>3 DEF Agrees, Current, Wellformed
    <3>2. CASE lock # q
      BY <2>1, <3>2 DEF BansInv, Good, HoldsLock, Agrees, LockedSteps
    <3>3. QED
      BY <3>1, <3>2
  <2>6. QED
    BY <2>2, <2>4, <2>5 DEF Good
<1>3. QED
  BY <1>1, <1>2 DEF BansInv

(* The same for a step that leaves lock, ipset and record alone and ends where *)
(* no lock is needed.                                                          *)
LEMMA QuietMove ==
    ASSUME BansInv, NEW p \in Processes, NEW t \in Task, Go(p, t), Wellformed(p, t),
           task[p].at \notin LockedSteps, t.at \notin LockedSteps, fenced' \in BOOLEAN,
           UNCHANGED <<stored, blocked, lock, rewritten>>
    PROVE  BansInv'
<1>1. Shared' /\ NoOrphans'
  BY DEF BansInv, Shared, NoOrphans
<1>2. task'[p] = t
  BY DEF BansInv, Go
<1>3. lock # p
  BY DEF BansInv, Good, HoldsLock
<1>4. Good(p)'
  BY <1>2, <1>3 DEF Good, Wellformed, HoldsLock, Agrees, LockedSteps
<1>5. QED
  BY <1>1, <1>4, OneMoves

-------------------------------------------------------------------------------
(* The steps that hold the lock over nothing.                                *)

LEMMA FenceKeeps ==
    ASSUME BansInv, NEW p \in Processes, Fence(p) PROVE BansInv'
<1>1. task[p] \in Task /\ task[p].at = "fence" /\ Wellformed(p, task[p])
  BY DEF BansInv, Good, Fence
<1> DEFINE t == [task[p] EXCEPT !.at = task[p].then, !.then = "idle"]
<1>2. t \in Task /\ t.at = task[p].then /\ t.then = "idle" /\ t.address = task[p].address
  BY <1>1 DEF Task, Steps, UnlockedSteps
<1>3. /\ Wellformed(p, t)
      /\ t.at \notin LockedSteps /\ task[p].at \notin LockedSteps
  BY <1>1, <1>2 DEF Wellformed, LockedSteps
<1>4. /\ At("idle") \in Task /\ Wellformed(p, At("idle"))
      /\ At("idle").at \notin LockedSteps
  BY AtFacts DEF Wellformed, Steps, LockedSteps, UnlockedSteps
<1>5. Go(p, t) \/ Go(p, At("idle"))
  BY DEF Fence
<1>6. fenced' \in BOOLEAN /\ UNCHANGED <<stored, blocked, lock, rewritten>>
  BY DEF Fence, BansInv, Shared
<1> HIDE DEF t
<1>7. QED
  BY <1>1, <1>2, <1>3, <1>4, <1>5, <1>6, QuietMove

LEMMA CoveredType ==
    ASSUME BansInv
    PROVE  Active(stored) \subseteq Addresses /\ Covered(stored) \subseteq Addresses
BY DEF Active, Covered

LEMMA ReleaseKeeps ==
    ASSUME BansInv, NEW p \in Processes, Release(p) PROVE BansInv'
<1>1. task[p] \in Task /\ task[p].at = "release"
  BY DEF BansInv, Release
<1> DEFINE t == [task[p] EXCEPT !.at = "unban", !.todo = Covered(stored), !.then = "check"]
<1>2. t \in Task /\ t.at = "unban" /\ t.then = "check"
  BY <1>1, CoveredType DEF Task, Steps, UnlockedSteps
<1>3. Wellformed(p, t) /\ t.at \notin LockedSteps /\ task[p].at \notin LockedSteps
  BY <1>1, <1>2 DEF Wellformed, LockedSteps
<1>4. Go(p, t) /\ fenced' \in BOOLEAN /\ UNCHANGED <<stored, blocked, lock, rewritten>>
  BY DEF Release, BansInv, Shared
<1> HIDE DEF t
<1>5. QED
  BY <1>2, <1>3, <1>4, QuietMove

LEMMA CheckReleasedKeeps ==
    ASSUME BansInv, NEW p \in Processes, CheckReleased(p) PROVE BansInv'
<1>1. task[p].at = "check" /\ task[p].at \notin LockedSteps
  BY DEF CheckReleased, LockedSteps
<1>2. /\ Rest(p) \in Task /\ Wellformed(p, Rest(p)) /\ Rest(p).at \notin LockedSteps
      /\ At("restore") \in Task /\ Wellformed(p, At("restore"))
      /\ At("restore").at \notin LockedSteps
  BY RestFacts, AtFacts DEF Wellformed, Steps, LockedSteps, UnlockedSteps
<1>3. /\ Go(p, Rest(p)) \/ Go(p, At("restore"))
      /\ fenced' \in BOOLEAN /\ UNCHANGED <<stored, blocked, lock, rewritten>>
  BY DEF CheckReleased, BansInv, Shared
<1>4. QED
  BY <1>1, <1>2, <1>3, QuietMove

LEMMA UnbanEndsKeeps ==
    ASSUME BansInv, NEW p \in Processes, UnbanEnds(p) PROVE BansInv'
<1>1. task[p] \in Task /\ task[p].at = "unban" /\ Wellformed(p, task[p])
  BY DEF BansInv, Good, UnbanEnds
<1>2. task[p].then \in {"idle", "commit", "check", "reconcile"} /\ task[p].before \in Document
  BY <1>1 DEF Wellformed, Task
<1> DEFINE t == [At(task[p].then) EXCEPT !.before = task[p].before]
<1>3. At(task[p].then) \in Task /\ At(task[p].then).at = task[p].then
  BY <1>2, AtFacts DEF Steps, UnlockedSteps
<1>4. t \in Task /\ t.at = task[p].then
  BY <1>2, <1>3 DEF Task
<1>5. /\ Wellformed(p, t) /\ t.at \notin LockedSteps /\ task[p].at \notin LockedSteps
      /\ At("idle") \in Task /\ Wellformed(p, At("idle")) /\ At("idle").at \notin LockedSteps
  BY <1>1, <1>2, <1>4, AtFacts DEF Wellformed, Steps, LockedSteps, UnlockedSteps
<1>6. /\ Go(p, t) \/ Go(p, At("idle"))
      /\ fenced' \in BOOLEAN /\ UNCHANGED <<stored, blocked, lock, rewritten>>
  BY DEF UnbanEnds, BansInv, Shared
<1> HIDE DEF t
<1>7. QED
  BY <1>4, <1>5, <1>6, QuietMove

LEMMA CollectorKeeps == ASSUME BansInv, Start \/ Reconcile PROVE BansInv'
<1> DEFINE s == [At("unban") EXCEPT !.todo = Caught \intersect Active(stored),
                                    !.then = "reconcile"]
           r == [At("fence") EXCEPT !.then = "release"]
<1>1. Collector \in Processes
  BY DEF Processes
<1>2. /\ At("unban") \in Task /\ At("unban").at = "unban"
      /\ At("fence") \in Task /\ At("fence").at = "fence"
  BY AtFacts DEF Steps, UnlockedSteps
<1>3. /\ s \in Task /\ s.at = "unban" /\ s.then = "reconcile"
      /\ r \in Task /\ r.at = "fence" /\ r.then = "release"
  BY <1>2, CoveredType DEF Task, Steps, UnlockedSteps
<1>4. /\ Wellformed(Collector, s) /\ s.at \notin LockedSteps
      /\ Wellformed(Collector, r) /\ r.at \notin LockedSteps
  BY <1>3 DEF Wellformed, LockedSteps
<1>5. /\ Go(Collector, s) \/ Go(Collector, r)
      /\ task[Collector].at \notin LockedSteps
      /\ fenced' \in BOOLEAN /\ UNCHANGED <<stored, blocked, lock, rewritten>>
  BY DEF Start, Reconcile, BansInv, Shared, LockedSteps
<1> HIDE DEF s, r
<1>6. QED
  BY <1>1, <1>3, <1>4, <1>5, QuietMove

LEMMA BeginKeeps ==
    ASSUME BansInv, NEW p \in Operators, NEW a \in Addresses,
           \/ BanAction(p, a) \/ UnbanAction(p, a)
           \/ UnbanCommand(p, a) \/ TrustCommand(p, a) \/ DistrustCommand(p, a)
    PROVE  BansInv'
<1> DEFINE Starts(t) ==
        /\ t \in Task /\ a \in Addresses /\ t.then \in {"idle", "commit", "ban"}
        /\ t.at \in {"fence", "unban", "trust", "distrust"}
        /\ t.at = "fence" <=> t.then = "ban"
        /\ t.at # "unban" => t.address = a
<1>1. PICK t : Begin(p, t) /\ Starts(t)
  <2>1. stored \in Document
    BY DEF BansInv, Shared
  <2>2. \A step \in {"fence", "unban", "trust", "distrust"} :
            At(step) \in Task /\ At(step).at = step /\ At(step).then = "idle"
    BY AtFacts DEF Steps, UnlockedSteps
  <2>3. ASSUME BanAction(p, a) PROVE \E t : Begin(p, t) /\ Starts(t)
    <3> WITNESS [At("fence") EXCEPT !.address = a, !.then = "ban"]
    <3> QED  BY <2>2, <2>3 DEF BanAction, Task, Steps, UnlockedSteps
  <2>4. ASSUME UnbanAction(p, a) PROVE \E t : Begin(p, t) /\ Starts(t)
    <3> WITNESS [At("unban") EXCEPT !.todo = {a}]
    <3> QED  BY <2>2, <2>4 DEF UnbanAction, Task, Steps, UnlockedSteps
  <2>5. ASSUME UnbanCommand(p, a) PROVE \E t : Begin(p, t) /\ Starts(t)
    <3> WITNESS [[At("unban") EXCEPT !.todo = {a}, !.then = "commit"] EXCEPT !.before = stored]
    <3> QED  BY <2>1, <2>2, <2>5 DEF UnbanCommand, Command, Task, Steps, UnlockedSteps
  <2>6. ASSUME TrustCommand(p, a) PROVE \E t : Begin(p, t) /\ Starts(t)
    <3> WITNESS [[At("trust") EXCEPT !.address = a] EXCEPT !.before = stored]
    <3> QED  BY <2>1, <2>2, <2>6 DEF TrustCommand, Command, Task, Steps, UnlockedSteps
  <2>7. ASSUME DistrustCommand(p, a) PROVE \E t : Begin(p, t) /\ Starts(t)
    <3> WITNESS [[At("distrust") EXCEPT !.address = a] EXCEPT !.before = stored]
    <3> QED  BY <2>1, <2>2, <2>7 DEF DistrustCommand, Command, Task, Steps, UnlockedSteps
  <2>8. QED
    BY <2>3, <2>4, <2>5, <2>6, <2>7
<1>2. p \in Processes /\ t \in Task
  BY <1>1 DEF Processes
<1>3. Wellformed(p, t) /\ t.at \notin LockedSteps
  BY <1>1 DEF Wellformed, LockedSteps
<1>4. /\ Go(p, t) /\ task[p].at \notin LockedSteps
      /\ fenced' \in BOOLEAN /\ UNCHANGED <<stored, blocked, lock, rewritten>>
  BY <1>1 DEF Begin, BansInv, Shared, LockedSteps
<1>5. QED
  BY <1>2, <1>3, <1>4, QuietMove

-------------------------------------------------------------------------------
(* Removing bans.                                                            *)

LEMMA UnbanEntryKeeps ==
    ASSUME BansInv, NEW p \in Processes, UnbanEntry(p) PROVE BansInv'
<1>1. /\ task[p] \in Task /\ task[p].at = "unban" /\ lock = Nobody
      /\ task[p].then \in {"idle", "commit", "check", "reconcile"}
  BY DEF BansInv, Good, Wellformed, UnbanEntry
<1>2. PICK a \in task[p].todo :
          \/ /\ blocked' = [blocked EXCEPT ![a] = None] /\ lock' = p
             /\ Go(p, [task[p] EXCEPT !.at = "unbanned", !.address = a, !.todo = @ \ {a}])
          \/ /\ Go(p, [task[p] EXCEPT !.todo = @ \ {a},
                                      !.then = IF @ = "commit" THEN "idle" ELSE @])
             /\ UNCHANGED <<blocked, lock>>
  BY DEF UnbanEntry
<1>3. a \in Addresses /\ UNCHANGED <<stored, fenced, rewritten>>
  BY <1>1 DEF UnbanEntry, Task
<1>4. CASE /\ blocked' = [blocked EXCEPT ![a] = None] /\ lock' = p
           /\ Go(p, [task[p] EXCEPT !.at = "unbanned", !.address = a, !.todo = @ \ {a}])
  <2> DEFINE t == [task[p] EXCEPT !.at = "unbanned", !.address = a, !.todo = @ \ {a}]
  <2>1. t \in Task /\ t.at = "unbanned" /\ t.address = a /\ t.then = task[p].then
    BY <1>1, <1>3 DEF Task, Steps, LockedSteps
  <2>2. Go(p, t)
    BY <1>4
  <2> HIDE DEF t
  <2>3. task'[p] = t
    BY <2>2 DEF BansInv, Go
  <2>4. Shared' /\ blocked'[a] = None /\ \A b \in Addresses \ {a} : blocked'[b] = blocked[b]
    BY <1>3, <1>4 DEF BansInv, Shared, Ban
  <2>5. NoOrphans'
    BY <1>3, <2>4 DEF BansInv, Shared, NoOrphans, Document, Ban, None, Timed, Permanent
  <2>6. Good(p)'
    BY <1>1, <1>3, <1>4, <2>1, <2>3, <2>4 DEF Good, Wellformed, HoldsLock, Agrees, LockedSteps
  <2>7. QED
    BY <1>1, <1>3, <1>4, <2>1, <2>2, <2>4, <2>5, <2>6, OneMoves
<1>5. CASE /\ Go(p, [task[p] EXCEPT !.todo = @ \ {a},
                                     !.then = IF @ = "commit" THEN "idle" ELSE @])
           /\ UNCHANGED <<blocked, lock>>
  <2> DEFINE t == [task[p] EXCEPT !.todo = @ \ {a},
                                  !.then = IF @ = "commit" THEN "idle" ELSE @]
  <2>1. t \in Task /\ t.at = "unban" /\ t.then \in {"idle", "check", "reconcile"}
    BY <1>1 DEF Task, Steps, UnlockedSteps
  <2>2. Go(p, t) /\ fenced' \in BOOLEAN
    BY <1>3, <1>5 DEF BansInv, Shared
  <2> HIDE DEF t
  <2>3. Wellformed(p, t) /\ t.at \notin LockedSteps /\ task[p].at \notin LockedSteps
    BY <1>1, <2>1 DEF Wellformed, LockedSteps
  <2>4. QED
    BY <1>3, <1>5, <2>1, <2>2, <2>3, QuietMove
<1>6. QED
  BY <1>2, <1>4, <1>5

LEMMA UnbanRecordKeeps ==
    ASSUME BansInv, NEW p \in Processes, UnbanRecord(p) PROVE BansInv'
<1>1. /\ task[p] \in Task /\ task[p].at = "unbanned" /\ lock = p
      /\ task[p].address \in Addresses /\ blocked[task[p].address] = None
      /\ task[p].then \in {"idle", "commit", "check", "reconcile"}
  BY DEF BansInv, Good, Wellformed, HoldsLock, Agrees, LockedSteps, UnbanRecord
<1> DEFINE a == task[p].address
           t == [task[p] EXCEPT !.at = "unban", !.address = Nobody]
<1>2. t \in Task /\ t.at = "unban" /\ t.then = task[p].then
  BY <1>1 DEF Task, Steps, UnlockedSteps
<1>3. Go(p, t) /\ lock' = Nobody /\ UNCHANGED <<blocked, fenced, rewritten>>
  BY DEF UnbanRecord
<1>4. /\ stored' \in Document /\ stored'.banned[a] = None
      /\ \A b \in Addresses \ {a} : stored'.banned[b] = stored.banned[b]
  <2>1. None \in Ban /\ stored \in Document /\ stored' = WithBan(stored, a, None)
    BY DEF Ban, BansInv, Shared, UnbanRecord
  <2>2. QED
    BY <1>1, <2>1, WithBanFacts
<1>5. task'[p] = t
  BY <1>3 DEF BansInv, Go
<1> HIDE DEF t
<1>6. Shared'
  BY <1>3, <1>4 DEF BansInv, Shared
<1>7. NoOrphans'
  BY <1>1, <1>3, <1>4 DEF BansInv, NoOrphans, None
<1>8. Good(p)'
  BY <1>1, <1>2, <1>3, <1>5, AntiDpiAssumption
     DEF Good, Wellformed, HoldsLock, Agrees, LockedSteps, Processes
<1>9. QED
  BY <1>1, <1>2, <1>3, <1>6, <1>7, <1>8, OneMoves

-------------------------------------------------------------------------------
(* Adding bans.                                                              *)

LEMMA IntendKeeps ==
    ASSUME BansInv, NEW p \in Processes, NEW a \in Addresses,
           NEW ban \in Ban, ban = IF p = Collector THEN Timed ELSE Permanent,
           lock = Nobody, stored.banned[a] <= ban, Intend(p, a, ban)
    PROVE  BansInv'
<1> DEFINE t == [task[p] EXCEPT !.at = "decided", !.address = a, !.doc = stored]
<1>1. /\ stored \in Document /\ task[p] \in Task /\ task[p].then \in Steps
      /\ blocked \in [Addresses -> Ban]
  BY DEF BansInv, Shared, Task
<1>2. t \in Task /\ t.at = "decided" /\ t.address = a /\ t.doc = stored
  BY <1>1 DEF Task, Steps, LockedSteps
<1>3. Go(p, t) /\ lock' = p /\ UNCHANGED <<blocked, fenced, rewritten>>
  BY DEF Intend
<1>4. /\ stored' \in Document /\ stored'.banned[a] = ban
      /\ \A b \in Addresses \ {a} : stored'.banned[b] = stored.banned[b]
  BY <1>1, WithBanFacts DEF Intend
<1>5. task'[p] = t
  BY <1>3 DEF BansInv, Go
<1> HIDE DEF t
<1>6. Shared'
  BY <1>3, <1>4 DEF BansInv, Shared
<1>7. a \in rewritten \/ blocked[a] <= stored.banned[a]
  BY DEF BansInv, NoOrphans
<1>8. blocked[a] \in 0 .. 2 /\ stored.banned[a] \in 0 .. 2 /\ ban \in 0 .. 2
  BY <1>1 DEF Document, Ban, None, Timed, Permanent
<1>9. NoOrphans'
  BY <1>3, <1>4, <1>7, <1>8 DEF BansInv, NoOrphans
<1>10. Good(p)'
  <2>1. Agrees(p, task[p])'
    BY <1>2, <1>3, <1>4, <1>5, <1>7 DEF Agrees, Current
  <2>2. QED
    BY <1>2, <1>3, <1>5, <2>1 DEF Good, Wellformed, HoldsLock, LockedSteps
<1>11. QED
  BY <1>2, <1>3, <1>6, <1>9, <1>10, OneMoves

LEMMA ObserveKeeps ==
    ASSUME BansInv, NEW a \in Addresses, Observe(a) PROVE BansInv'
<1>1. Collector \in Processes /\ Timed \in Ban /\ None <= Timed
  BY DEF Processes, Ban, None, Timed
<1>2. lock = Nobody /\ stored.banned[a] = None /\ Intend(Collector, a, Timed)
  BY DEF Observe
<1>3. QED
  BY <1>1, <1>2, IntendKeeps

LEMMA ManualBanKeeps ==
    ASSUME BansInv, NEW p \in Processes, ManualBan(p) PROVE BansInv'
<1>1. /\ task[p].at = "ban" /\ lock = Nobody /\ p \in Operators /\ p # Collector
      /\ task[p].address \in Addresses
  BY AntiDpiAssumption DEF BansInv, Good, Wellformed, ManualBan
<1>2. CASE Intend(p, task[p].address, Permanent)
  <2>1. Permanent \in Ban /\ stored.banned[task[p].address] <= Permanent
    BY <1>1 DEF BansInv, Shared, Document, Ban, None, Timed, Permanent
  <2>2. QED
    BY <1>1, <1>2, <2>1, IntendKeeps
<1>3. CASE Go(p, At("idle")) /\ UNCHANGED <<stored, blocked, fenced, lock, rewritten>>
  <2>1. At("idle") \in Task /\ Wellformed(p, At("idle")) /\ At("idle").at \notin LockedSteps
    BY AtFacts DEF Wellformed, Steps, LockedSteps, UnlockedSteps
  <2>2. task[p].at \notin LockedSteps /\ fenced' \in BOOLEAN
    BY <1>1, <1>3 DEF LockedSteps, BansInv, Shared
  <2>3. QED
    BY <1>3, <2>1, <2>2, QuietMove
<1>4. QED
  BY <1>2, <1>3 DEF ManualBan

LEMMA EnforceKeeps ==
    ASSUME BansInv, NEW p \in Processes, Enforce(p) PROVE BansInv'
<1> DEFINE a == task[p].address
           ban == IF p = Collector THEN Timed ELSE Permanent
           doc == task[p].doc
<1>1. /\ task[p] \in Task /\ task[p].at = "decided" /\ lock = p
      /\ a \in Addresses /\ doc \in Document
      /\ \A b \in Addresses \ {a} : b \in rewritten \/ doc.banned[b] = stored.banned[b]
      /\ a \in rewritten \/ (stored.banned[a] = ban /\ blocked[a] <= doc.banned[a])
  BY DEF BansInv, Good, Wellformed, HoldsLock, Agrees, Current, LockedSteps, Enforce, Task
<1>2. /\ Go(p, Rest(p)) /\ lock' = Nobody /\ UNCHANGED <<fenced, rewritten>>
      /\ Rest(p) \in Task /\ Rest(p).at \in {"watch", "idle"}
  BY RestFacts DEF Enforce
<1>3. task'[p] = Rest(p)
  BY <1>2 DEF BansInv, Go
<1>4. \/ blocked' = [blocked EXCEPT ![a] = ban] /\ stored' = stored
      \/ stored' = doc /\ blocked' = blocked
  BY DEF Enforce
<1>5. ban \in Ban /\ ban <= ban
  BY DEF Ban, Timed, Permanent
<1> HIDE DEF a, ban, doc
<1>6. Shared'
  BY <1>1, <1>2, <1>4, <1>5 DEF BansInv, Shared
<1>7. NoOrphans'
  <2>1. CASE blocked' = [blocked EXCEPT ![a] = ban] /\ stored' = stored
    BY <1>1, <1>2, <1>5, <2>1 DEF BansInv, Shared, NoOrphans
  <2>2. CASE stored' = doc /\ blocked' = blocked
    BY <1>1, <1>2, <2>2 DEF BansInv, NoOrphans
  <2>3. QED
    BY <1>4, <2>1, <2>2
<1>8. Good(p)'
  BY <1>2, <1>3, AntiDpiAssumption DEF Good, Wellformed, HoldsLock, Agrees, LockedSteps, Processes
<1>9. QED
  BY <1>1, <1>2, <1>6, <1>7, <1>8, OneMoves

-------------------------------------------------------------------------------
(* Restoration.                                                              *)

LEMMA RestoreKeeps ==
    ASSUME BansInv, NEW p \in Processes, Restore(p) PROVE BansInv'
<1> DEFINE t == [task[p] EXCEPT !.at = "restoring", !.doc = stored, !.todo = Active(stored)]
<1>1. task[p] \in Task /\ stored \in Document /\ lock = Nobody
  BY DEF BansInv, Shared, Restore
<1>2. t \in Task /\ t.at = "restoring" /\ t.doc = stored
  BY <1>1, CoveredType DEF Task, Steps, LockedSteps
<1>3. Go(p, t) /\ lock' = p /\ UNCHANGED <<stored, blocked, fenced, rewritten>>
  BY DEF Restore
<1>4. task'[p] = t
  BY <1>3 DEF BansInv, Go
<1> HIDE DEF t
<1>5. Shared' /\ NoOrphans'
  BY <1>3 DEF BansInv, Shared, NoOrphans
<1>6. Good(p)'
  BY <1>2, <1>3, <1>4 DEF Good, Wellformed, HoldsLock, Agrees, Current, LockedSteps
<1>7. QED
  BY <1>1, <1>2, <1>3, <1>5, <1>6, OneMoves

(* What holds while the bans are added again. *)
LEMMA RestoringFacts ==
    ASSUME BansInv, NEW p \in Processes, task[p].at = "restoring"
    PROVE  /\ task[p] \in Task /\ task[p].doc \in Document /\ lock = p
           /\ \A b \in Addresses : b \in rewritten \/ task[p].doc.banned[b] = stored.banned[b]
BY DEF BansInv, Good, HoldsLock, Agrees, Current, LockedSteps, Task

LEMMA RestoreEntryKeeps ==
    ASSUME BansInv, NEW p \in Processes, RestoreEntry(p) PROVE BansInv'
<1>1. task[p].at = "restoring"
  BY DEF RestoreEntry
<1>2. PICK a \in Lasting(task[p].doc, task[p].todo) :
          /\ Go(p, [task[p] EXCEPT !.todo = @ \ {a}])
          /\ \/ blocked' = [blocked EXCEPT ![a] = task[p].doc.banned[a]]
             \/ blocked' = blocked
  BY DEF RestoreEntry
<1> DEFINE t == [task[p] EXCEPT !.todo = @ \ {a}]
<1>3. a \in Addresses
  BY <1>1, RestoringFacts DEF Lasting, Task
<1>4. t \in Task /\ t.at = "restoring" /\ t.doc = task[p].doc
  BY <1>1, RestoringFacts DEF Task
<1>5. Go(p, t) /\ UNCHANGED <<stored, fenced, lock, rewritten>>
  BY <1>2 DEF RestoreEntry
<1>6. task'[p] = t
  BY <1>5 DEF BansInv, Go
<1> HIDE DEF t
<1>7. task[p].doc.banned[a] \in Ban
  BY <1>1, <1>3, RestoringFacts DEF Document
<1>8. Shared'
  BY <1>2, <1>3, <1>5, <1>7 DEF BansInv, Shared
<1>9. NoOrphans'
  <2>1. a \in rewritten \/ task[p].doc.banned[a] <= stored.banned[a]
    BY <1>1, <1>3, <1>7, RestoringFacts DEF Ban, None, Timed, Permanent
  <2>2. QED
    BY <1>2, <1>3, <1>5, <2>1 DEF BansInv, Shared, NoOrphans
<1>10. Good(p)'
  BY <1>1, <1>4, <1>5, <1>6, RestoringFacts
     DEF Good, Wellformed, HoldsLock, Agrees, Current, LockedSteps
<1>11. QED
  BY <1>1, <1>4, <1>5, <1>8, <1>9, <1>10, RestoringFacts, OneMoves

LEMMA RestoreEndsKeeps ==
    ASSUME BansInv, NEW p \in Processes, RestoreEnds(p) PROVE BansInv'
<1>1. task[p].at = "restoring" /\ stored' = task[p].doc /\ lock' = Nobody
  BY DEF RestoreEnds
<1>2. /\ Go(p, Rest(p)) /\ UNCHANGED <<blocked, fenced, rewritten>>
      /\ Rest(p) \in Task /\ Rest(p).at \in {"watch", "idle"}
  BY RestFacts DEF RestoreEnds
<1>3. task'[p] = Rest(p)
  BY <1>2 DEF BansInv, Go
<1>4. Shared' /\ NoOrphans'
  BY <1>1, <1>2, RestoringFacts DEF BansInv, Shared, NoOrphans
<1>5. Good(p)'
  BY <1>1, <1>2, <1>3, AntiDpiAssumption
     DEF Good, Wellformed, HoldsLock, Agrees, LockedSteps, Processes
<1>6. QED
  BY <1>1, <1>2, <1>4, <1>5, RestoringFacts, OneMoves

-------------------------------------------------------------------------------
(* The whitelist, and the rollback that does not take the lock.              *)

(* A new whitelist leaves every ban as it is. *)
LEMMA WhiteFacts ==
    ASSUME NEW doc \in Document, NEW white \in SUBSET Addresses
    PROVE  /\ [doc EXCEPT !.white = white] \in Document
           /\ [doc EXCEPT !.white = white].banned = doc.banned
BY DEF Document

LEMMA WhiteMove ==
    ASSUME BansInv, NEW p \in Processes, NEW t \in Task, Go(p, t), Wellformed(p, t),
           lock = Nobody, t.at \notin LockedSteps,
           stored' \in Document, stored'.banned = stored.banned,
           UNCHANGED <<blocked, fenced, lock, rewritten>>
    PROVE  BansInv'
<1>1. Shared' /\ NoOrphans'
  BY DEF BansInv, Shared, NoOrphans
<1>2. task'[p] = t
  BY DEF BansInv, Go
<1>3. Good(p)'
  BY <1>2, AntiDpiAssumption DEF Good, Wellformed, HoldsLock, Agrees, LockedSteps, Processes
<1>4. QED
  BY <1>1, <1>3, OneMoves

LEMMA TrustKeeps ==
    ASSUME BansInv, NEW p \in Processes, Trust(p) PROVE BansInv'
<1> DEFINE a == task[p].address
           then == IF a \in stored.white THEN "idle" ELSE "commit"
           t == [task[p] EXCEPT !.at = "unban", !.address = Nobody,
                                !.todo = {a} \intersect Active(stored), !.then = then]
<1>1. /\ task[p] \in Task /\ a \in Addresses /\ stored \in Document /\ lock = Nobody
      /\ stored.white \union {a} \in SUBSET Addresses
  BY DEF BansInv, Shared, Good, Wellformed, Trust, Document
<1>2. t \in Task /\ t.at = "unban" /\ t.then \in {"idle", "commit"}
  BY <1>1, CoveredType DEF Task, Steps, UnlockedSteps
<1>3. /\ Go(p, t) /\ UNCHANGED <<blocked, fenced, lock, rewritten>>
      /\ stored' = [stored EXCEPT !.white = stored.white \union {a}]
  BY DEF Trust
<1> HIDE DEF t, a
<1>4. stored' \in Document /\ stored'.banned = stored.banned
  BY <1>1, <1>3, WhiteFacts
<1>5. Wellformed(p, t) /\ t.at \notin LockedSteps
  BY <1>2 DEF Wellformed, LockedSteps
<1>6. QED
  BY <1>1, <1>2, <1>3, <1>4, <1>5, WhiteMove

LEMMA DistrustKeeps ==
    ASSUME BansInv, NEW p \in Processes, Distrust(p) PROVE BansInv'
<1> DEFINE a == task[p].address
           t == [task[p] EXCEPT !.at = "commit", !.address = Nobody]
<1>1. /\ task[p] \in Task /\ stored \in Document /\ lock = Nobody
      /\ stored.white \ {a} \in SUBSET Addresses
  BY DEF BansInv, Shared, Distrust, Document
<1>2. /\ t \in Task /\ t.at = "commit"
      /\ At("idle") \in Task /\ At("idle").at = "idle"
  BY <1>1, AtFacts DEF Task, Steps, UnlockedSteps
<1>3. /\ Go(p, t) \/ Go(p, At("idle"))
      /\ UNCHANGED <<blocked, fenced, lock, rewritten>>
      /\ stored' = [stored EXCEPT !.white = stored.white \ {a}]
  BY DEF Distrust
<1> HIDE DEF t, a
<1>4. stored' \in Document /\ stored'.banned = stored.banned
  BY <1>1, <1>3, WhiteFacts
<1>5. /\ Wellformed(p, t) /\ t.at \notin LockedSteps
      /\ Wellformed(p, At("idle")) /\ At("idle").at \notin LockedSteps
  BY <1>2 DEF Wellformed, LockedSteps
<1>6. QED
  BY <1>1, <1>2, <1>3, <1>4, <1>5, WhiteMove

(* The snapshot written back changes a ban only by putting its address into *)
(* rewritten, which is why the holder of the lock still knows what it knew.  *)
LEMMA CommitKeeps ==
    ASSUME BansInv, NEW p \in Processes, Commit(p) PROVE BansInv'
<1>1. /\ task[p] \in Task /\ task[p].at = "commit" /\ task[p].before \in Document
      /\ task[p].at \notin LockedSteps /\ lock # p
  BY DEF BansInv, Good, HoldsLock, Commit, Task, LockedSteps
<1>2. UNCHANGED <<blocked, fenced, lock>>
  BY DEF Commit
<1>3. /\ At("idle") \in Task /\ Wellformed(p, At("idle")) /\ At("idle").at \notin LockedSteps
      /\ At("restore") \in Task /\ Wellformed(p, At("restore"))
      /\ At("restore").at \notin LockedSteps
  BY AtFacts DEF Wellformed, Steps, LockedSteps, UnlockedSteps
<1>4. CASE Go(p, At("idle")) /\ UNCHANGED <<stored, rewritten>>
  <2>1. fenced' \in BOOLEAN
    BY <1>2 DEF BansInv, Shared
  <2>2. QED
    BY <1>1, <1>2, <1>3, <1>4, <2>1, QuietMove
<1>5. CASE /\ stored' = task[p].before
           /\ rewritten' = rewritten \union
                  {a \in Addresses : stored.banned[a] # task[p].before.banned[a]}
           /\ Go(p, At("restore"))
  <2>1. /\ \A a \in Addresses : a \in rewritten' \/ stored'.banned[a] = stored.banned[a]
        /\ rewritten \subseteq rewritten'
    BY <1>5
  <2>2. Shared'
    BY <1>1, <1>2, <1>5 DEF BansInv, Shared
  <2>3. NoOrphans'
    BY <1>2, <2>1 DEF BansInv, NoOrphans
  <2>4. task'[p] = At("restore")
    BY <1>5 DEF BansInv, Go
  <2>5. Good(p)'
    BY <1>1, <1>2, <1>3, <2>4 DEF Good, Wellformed, HoldsLock, Agrees, LockedSteps
  <2>6. QED
    BY <1>2, <1>3, <1>5, <2>1, <2>2, <2>3, <2>5, OneMoves
<1>6. QED
  BY <1>4, <1>5 DEF Commit

-------------------------------------------------------------------------------
(* Lapse, kill and reboot.                                                   *)

LEMMA LapsedEntries ==
    ASSUME BansInv, NEW a \in Addresses, Lapse(a)
    PROVE  /\ blocked' \in [Addresses -> Ban]
           /\ blocked'[a] = IF blocked[a] = Timed THEN None ELSE blocked[a]
           /\ \A b \in Addresses \ {a} : blocked'[b] = blocked[b]
<1>1. blocked \in [Addresses -> Ban] /\ None \in Ban
  BY DEF BansInv, Shared, Ban
<1>2. blocked' = IF blocked[a] = Timed THEN [blocked EXCEPT ![a] = None] ELSE blocked
  BY DEF Lapse, Lapsed, WithBan
<1>3. QED
  BY <1>1, <1>2

LEMMA LapseKeeps ==
    ASSUME BansInv, NEW a \in Addresses, Lapse(a) PROVE BansInv'
<1>1. /\ stored \in Document /\ stored' = Lapsed(stored, a)
      /\ UNCHANGED <<fenced, lock, rewritten>>
  BY DEF BansInv, Shared, Lapse
<1>2. /\ stored' \in Document
      /\ stored'.banned[a] = IF stored.banned[a] = Timed THEN None ELSE stored.banned[a]
      /\ \A b \in Addresses \ {a} : stored'.banned[b] = stored.banned[b]
  BY <1>1, LapsedFacts
<1>3. Shared'
  BY <1>1, <1>2, LapsedEntries DEF BansInv, Shared
<1>4. NoOrphans'
  <2>1. a \in rewritten \/ blocked[a] <= stored.banned[a]
    BY DEF BansInv, NoOrphans
  <2>2. blocked[a] \in Ban /\ stored.banned[a] \in Ban
    BY <1>1 DEF BansInv, Shared, Document
  <2>3. a \in rewritten \/ blocked'[a] <= stored'.banned[a]
    BY <1>2, <2>1, <2>2, LapsedEntries DEF Ban, None, Timed, Permanent
  <2>4. QED
    BY <1>1, <1>2, <2>3, LapsedEntries DEF BansInv, NoOrphans
<1>5. ASSUME NEW q \in Processes
      PROVE  /\ task'[q] \in Task
             /\ task'[q].at = task[q].at /\ task'[q].then = task[q].then
             /\ task'[q].address = task[q].address
             /\ task'[q].doc = Lapsed(task[q].doc, a)
  <2>1. task[q] \in Task /\ task[q].doc \in Document /\ task[q].before \in Document
    BY DEF BansInv, Task
  <2>2. Lapsed(task[q].doc, a) \in Document /\ Lapsed(task[q].before, a) \in Document
    BY <2>1, LapsedFacts
  <2>3. task'[q] = [task[q] EXCEPT !.doc = Lapsed(task[q].doc, a),
                                   !.before = Lapsed(task[q].before, a)]
    BY DEF Lapse
  <2>4. QED
    BY <2>1, <2>2, <2>3 DEF Task
<1>6. task' \in [Processes -> Task]
  BY <1>5 DEF Lapse
<1>7. ASSUME NEW q \in Processes PROVE Good(q)'
  <2>1. Wellformed(q, task[q])' /\ HoldsLock(q, task[q])'
    BY <1>1, <1>5 DEF BansInv, Good, Wellformed, HoldsLock
  <2>2. task[q].doc \in Document /\ Agrees(q, task[q]) /\ Wellformed(q, task[q])
    BY DEF BansInv, Good, Task
  <2>3. /\ task'[q].doc.banned[a] =
               IF task[q].doc.banned[a] = Timed THEN None ELSE task[q].doc.banned[a]
        /\ \A b \in Addresses \ {a} : task'[q].doc.banned[b] = task[q].doc.banned[b]
    BY <1>5, <2>2, LapsedFacts
  <2>4. \A b \in Addresses : Current(task[q], b) => Current(task[q], b)'
    BY <1>1, <1>2, <2>3 DEF Current
  <2>5. task[q].at = "unbanned" => blocked'[task[q].address] = None
    BY <2>2, LapsedEntries DEF Agrees, Wellformed, None, Timed
  <2>6. task[q].at = "decided" => task[q].address # a
    BY DEF Lapse
  <2>7. Agrees(q, task[q])'
    BY <1>1, <1>2, <1>5, <2>2, <2>3, <2>4, <2>5, <2>6, LapsedEntries
       DEF Agrees, Wellformed
  <2>8. QED
    BY <2>1, <2>7 DEF Good
<1>8. QED
  BY <1>3, <1>4, <1>6, <1>7 DEF BansInv

LEMMA KillKeeps ==
    ASSUME BansInv, NEW p \in Processes, Kill(p) PROVE BansInv'
<1>1. /\ Go(p, Dead(p)) /\ lock' = (IF lock = p THEN Nobody ELSE lock)
      /\ UNCHANGED <<stored, blocked, fenced, rewritten>>
      /\ Dead(p) \in Task /\ Dead(p).at \in {"down", "idle"}
  BY RestFacts DEF Kill
<1>2. task'[p] = Dead(p)
  BY <1>1 DEF BansInv, Go
<1>3. Shared' /\ NoOrphans'
  BY <1>1 DEF BansInv, Shared, NoOrphans
<1>4. Good(p)'
  BY <1>1, <1>2, AntiDpiAssumption
     DEF Good, Wellformed, HoldsLock, Agrees, LockedSteps, Processes
<1>5. QED
  BY <1>1, <1>3, <1>4, OneMoves

LEMMA RebootKeeps == ASSUME BansInv, Reboot PROVE BansInv'
<1>1. /\ \A p \in Processes : task'[p] = Dead(p)
      /\ lock' = Nobody /\ fenced' = FALSE /\ UNCHANGED <<stored, rewritten>>
      /\ blocked' = Empty.banned
  BY DEF Reboot
<1>2. blocked' \in [Addresses -> Ban] /\ \A a \in Addresses : blocked'[a] = None
  BY <1>1, EmptyType DEF Document
<1>3. Shared'
  BY <1>1, <1>2 DEF BansInv, Shared
<1>4. NoOrphans'
  BY <1>1, <1>2 DEF BansInv, Shared, NoOrphans, Document, Ban, None, Timed, Permanent
<1>5. task' \in [Processes -> Task]
  BY <1>1, RestFacts DEF Reboot
<1>6. ASSUME NEW q \in Processes PROVE Good(q)'
  BY <1>1, RestFacts, AntiDpiAssumption
     DEF Good, Wellformed, HoldsLock, Agrees, LockedSteps, Processes
<1>7. QED
  BY <1>3, <1>4, <1>5, <1>6 DEF BansInv

LEMMA StepKeeps ==
    ASSUME BansInv, NEW p \in Processes, Step(p) PROVE BansInv'
BY UnbanEntryKeeps, UnbanRecordKeeps, UnbanEndsKeeps, ManualBanKeeps, EnforceKeeps,
   FenceKeeps, ReleaseKeeps, CheckReleasedKeeps, RestoreKeeps, RestoreEntryKeeps,
   RestoreEndsKeeps, TrustKeeps, DistrustKeeps, CommitKeeps DEF Step

LEMMA NextGood == BansInv /\ [Next]_vars => BansInv'
<1> SUFFICES ASSUME BansInv, [Next]_vars PROVE BansInv'
  OBVIOUS
<1>1. ASSUME NEW p \in Processes, Step(p) \/ Kill(p) PROVE BansInv'
  BY <1>1, StepKeeps, KillKeeps
<1>2. CASE Start \/ Reconcile \/ Reboot
  BY <1>2, CollectorKeeps, RebootKeeps
<1>3. ASSUME NEW a \in Addresses, Observe(a) \/ Lapse(a) PROVE BansInv'
  BY <1>3, ObserveKeeps, LapseKeeps
<1>4. ASSUME NEW p \in Operators, NEW a \in Addresses,
             \/ BanAction(p, a) \/ UnbanAction(p, a)
             \/ UnbanCommand(p, a) \/ TrustCommand(p, a) \/ DistrustCommand(p, a)
      PROVE  BansInv'
  BY <1>4, BeginKeeps
<1>5. CASE UNCHANGED vars
  BY <1>5 DEF vars, BansInv, Shared, NoOrphans, Good, Wellformed, HoldsLock, Agrees, Current
<1>6. QED
  BY <1>1, <1>2, <1>3, <1>4, <1>5 DEF Next

-------------------------------------------------------------------------------
(* BansInv holds in every reachable state: who is between a firewall command *)
(* and its record holds antidpi.lock and knows what the file says.           *)
THEOREM BansInvariant == Spec => []BansInv
BY InitGood, NextGood, PTL DEF Spec

(* Every document in the file and in memory is well formed, and the lock is   *)
(* held exactly by who is between a firewall command and its record.          *)
THEOREM TypesAndLock == Spec => []TypeOK
<1>1. BansInv => TypeOK
  BY DEF BansInv, Shared, TypeOK, Good, HoldsLock, Task, LockedSteps
<1>2. QED
  BY <1>1, BansInvariant, PTL

(* No ipset entry is stronger than its record in antidpi.json, in whatever   *)
(* order commands are refused, processes die and the host reboots, except    *)
(* for an address whose ban the unlocked rollback of a command changed.      *)
THEOREM NoOrphansEver == Spec => []NoOrphans
<1>1. BansInv => NoOrphans
  BY DEF BansInv
<1>2. QED
  BY <1>1, BansInvariant, PTL

(* Of the steps that write the file, only the record of an unban and the      *)
(* intent taken back after a refusal can end a permanent ban.                 *)
LEMMA PermanentMoves ==
    ASSUME BansInv, Next, NEW a \in Addresses, a \notin rewritten',
           stored.banned[a] = Permanent, stored'.banned[a] # Permanent
    PROVE  \E p \in Processes :
               /\ task[p].address = a
               /\ \/ task[p].at = "unbanned"
                  \/ task[p].at = "decided" /\ p \in Operators /\ blocked[a] # Permanent
<1> DEFINE Excuse == \E p \in Processes :
               /\ task[p].address = a
               /\ \/ task[p].at = "unbanned"
                  \/ task[p].at = "decided" /\ p \in Operators /\ blocked[a] # Permanent
<1>1. stored \in Document /\ stored # stored' /\ Permanent # None /\ Permanent # Timed
  BY DEF BansInv, Shared, None, Timed, Permanent
<1>2. ASSUME NEW p \in Processes, NEW b \in Addresses, NEW ban \in Ban, Intend(p, b, ban),
             stored.banned[b] # Permanent \/ ban = Permanent
      PROVE  FALSE
  BY <1>1, <1>2, WithBanFacts DEF Intend
<1>3. ASSUME NEW p \in Processes, UnbanRecord(p) PROVE Excuse
  <2>1. task[p].at = "unbanned" /\ task[p].address \in Addresses /\ None \in Ban
    BY <1>3 DEF BansInv, Good, Wellformed, UnbanRecord, Ban
  <2>2. task[p].address = a
    BY <1>1, <1>3, <2>1, WithBanFacts DEF UnbanRecord
  <2>3. QED
    BY <2>1, <2>2
<1>4. ASSUME NEW p \in Processes, Enforce(p) PROVE Excuse
  <2> DEFINE b == task[p].address
  <2>1. /\ task[p].at = "decided" /\ stored' = task[p].doc /\ rewritten' = rewritten
        /\ b \in Addresses /\ Agrees(p, task[p]) /\ task[p].doc \in Document
    BY <1>1, <1>4 DEF BansInv, Good, Wellformed, Enforce, Task
  <2>2. b = a
    BY <2>1 DEF Agrees, Current
  <2>3. p # Collector /\ blocked[a] <= task[p].doc.banned[a]
    BY <1>1, <2>1, <2>2 DEF Agrees
  <2>4. blocked[a] # Permanent
    BY <2>1, <2>3 DEF BansInv, Shared, Document, Ban, None, Timed, Permanent
  <2>5. QED
    BY <2>1, <2>2, <2>3, <2>4 DEF Processes
<1>5. ASSUME NEW p \in Processes, ManualBan(p) PROVE FALSE
  <2>1. task[p].address \in Addresses /\ Permanent \in Ban
    BY <1>5 DEF BansInv, Good, Wellformed, ManualBan, Ban
  <2>2. Intend(p, task[p].address, Permanent)
    BY <1>1, <1>5 DEF ManualBan
  <2>3. QED
    BY <1>2, <2>1, <2>2
<1>6. ASSUME NEW p \in Processes, RestoreEnds(p) PROVE FALSE
  BY <1>6, RestoringFacts DEF RestoreEnds
<1>7. ASSUME NEW p \in Processes, Trust(p) \/ Distrust(p) PROVE FALSE
  <2>1. stored'.banned = stored.banned
    BY <1>1, <1>7 DEF Trust, Distrust, Document
  <2>2. QED
    BY <2>1
<1>8. ASSUME NEW p \in Processes, Commit(p) PROVE FALSE
  BY <1>1, <1>8 DEF Commit
<1>9. ASSUME NEW b \in Addresses, Observe(b) PROVE FALSE
  <2>1. Collector \in Processes /\ Timed \in Ban
    BY DEF Processes, Ban
  <2>2. QED
    BY <1>1, <1>2, <1>9, <2>1 DEF Observe
<1>10. ASSUME NEW b \in Addresses, Lapse(b) PROVE FALSE
  <2>1. stored' = Lapsed(stored, b)
    BY <1>10 DEF Lapse
  <2>2. stored'.banned[a] = stored.banned[a]
    BY <1>1, <2>1, LapsedFacts
  <2>3. QED
    BY <2>2
<1>11. ASSUME NEW p \in Processes, Step(p) PROVE Excuse
  BY <1>1, <1>11, <1>3, <1>4, <1>5, <1>6, <1>7, <1>8
     DEF Step, UnbanEntry, UnbanEnds, Fence, Release, CheckReleased, Restore, RestoreEntry
<1>12. QED
  BY <1>1, <1>9, <1>10, <1>11
     DEF Next, Kill, Start, Reconcile, Reboot, Begin, Command,
         BanAction, UnbanAction, UnbanCommand, TrustCommand, DistrustCommand

(* A permanent ban ends by an unban, or when the very command that decided   *)
(* it is refused: no evidence, lapse, crash or saved document weakens it.    *)
THEOREM PermanentStandsEver == Spec => PermanentStands
<1> DEFINE Ends == \A a \in Addresses \ rewritten' :
           stored.banned[a] = Permanent /\ stored'.banned[a] # Permanent =>
               \E p \in Processes :
                   /\ task[p].address = a
                   /\ \/ task[p].at = "unbanned"
                      \/ task[p].at = "decided" /\ p \in Operators /\ blocked[a] # Permanent
<1>1. BansInv /\ [Next]_vars => [Ends]_vars
  <2> SUFFICES ASSUME BansInv, Next PROVE Ends
    OBVIOUS
  <2>1. QED
    BY PermanentMoves
<1> HIDE DEF Ends
<1>2. Spec => [][Ends]_vars
  BY <1>1, BansInvariant, PTL DEF Spec
<1>3. QED
  BY <1>2 DEF Ends, PermanentStands

===============================================================================
