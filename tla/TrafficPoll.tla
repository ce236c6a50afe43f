------------------------------ MODULE TrafficPoll ------------------------------
(***************************************************************************)
(* One poll of the traffic daemon (services/traffic_daemon.py): fetch the  *)
(* connections of sing-box, bill their new bytes to users                  *)
(* (apply_connection_snapshot) and enforce the limit of simultaneous       *)
(* devices (update_sessions, connections_to_close).  Connections come, go, *)
(* carry bytes and restart their counters between the fetch and the        *)
(* accounting, the journal names a connection's user late or not at all,   *)
(* the API may answer with an empty list, and a save may fail.             *)
(*                                                                         *)
(* A device is a source address.  Protocols, reports and the relay that    *)
(* recovers an address behind Caddy are left out.                          *)
(***************************************************************************)
EXTENDS Integers, FiniteSets, Functions

CONSTANTS
    Users,
    Connections,   \* connection ids
    Addresses,
    DeviceLimit,   \* device_limit per user; 0 is unlimited
    None,
    Window,        \* polls a record outlives its connection (5 in the code)
    TTL,           \* SESSION_TTL_SECONDS, in ticks
    MaxSessions,   \* MAX_SESSIONS_PER_USER
    MaxBytes,      \* bound: bytes carried in a behaviour
    MaxTime,       \* bound: ticks of the clock
    MaxBlanks,     \* bound: empty answers of the API
    MaxRestarts,   \* bound: counters that start again under their id
    MaxFaults      \* bound: saves and DELETE requests that fail

ASSUME PollAssumption ==
    /\ DeviceLimit \in [Users -> Nat]
    /\ None \notin Users \union Addresses
    /\ IsFiniteSet(Connections) /\ IsFiniteSet(Addresses)
    /\ \A bound \in {Window, TTL, MaxSessions, MaxBytes, MaxTime, MaxBlanks, MaxRestarts, MaxFaults} :
           bound \in Nat

Connection == [user : Users, address : Addresses, bytes : Nat]
ConnectionRecord == [user : Users \union {None}, address : Addresses, total : Nat,
                     credited : Nat, missed : 0..Window, place : Nat]
DeviceSession == [first : Nat, last : Nat, allowed : BOOLEAN]

ASSUME SentinelAssumption ==
    /\ None \notin Connection /\ None \notin ConnectionRecord /\ None \notin DeviceSession
    /\ None \notin [Connections -> Connection \union {None}]

VARIABLES
    live,      \* sing-box: the connections that are open
    opened,    \* ids used so far; a new connection has a fresh id
    fetched,   \* the snapshot the daemon holds while it waits for the state lock
    records,   \* traffic_connection_counters by id; "place" is the place in the dict
    used,      \* traffic_used_bytes per user
    sessions,  \* device_sessions per user and address
    lastPoll,  \* traffic_daemon_last_poll
    now,
    carried,   \* history: bytes each user really carried
    settled,   \* history: bytes billed in earlier quota periods
    forgotten, \* history: users with an open connection whose record was dropped
    blanks, restarts, faults

stored == <<records, used, sessions, lastPoll>>
history == <<carried, settled, forgotten>>
bounds == <<blanks, restarts, faults>>
vars == <<live, opened, fetched, records, used, sessions, lastPoll, now, carried,
          settled, forgotten, blanks, restarts, faults>>

(* The sum of f, as the number of pairs of an argument and one of its bytes: *)
(* of cardinalities the provers know the laws.                               *)
Bytes(f) == UNION {{c} \X (1..f[c]) : c \in DOMAIN f}
Total(f) == Cardinality(Bytes(f))

-------------------------------------------------------------------------------
(* sing-box and the operator.                                                *)

Outside == UNCHANGED <<fetched, records, sessions, lastPoll, now, blanks, faults>>

Open(c, u, a) ==
    /\ c \notin opened
    /\ opened' = opened \union {c}
    /\ live' = [live EXCEPT ![c] = [user |-> u, address |-> a, bytes |-> 0]]
    /\ UNCHANGED <<used, history, restarts>> /\ Outside

Carry(c) ==
    /\ live[c] # None
    /\ Total(carried) < MaxBytes
    /\ live' = [live EXCEPT ![c].bytes = @ + 1]
    /\ carried' = [carried EXCEPT ![live[c].user] = @ + 1]
    /\ UNCHANGED <<opened, used, settled, forgotten, restarts>> /\ Outside

\* The runtime counter of a connection starts again.
Restart(c) ==
    /\ live[c] # None /\ live[c].bytes > 0
    /\ restarts < MaxRestarts
    /\ restarts' = restarts + 1
    /\ live' = [live EXCEPT ![c].bytes = 0]
    /\ UNCHANGED <<opened, used, history>> /\ Outside

Close(c) ==
    /\ live[c] # None
    /\ live' = [live EXCEPT ![c] = None]
    /\ UNCHANGED <<opened, used, history, restarts>> /\ Outside

\* reset_user_traffic: a new quota period, the baselines stay.
ResetUserTraffic(u) ==
    /\ used[u] > 0
    /\ used' = [used EXCEPT ![u] = 0]
    /\ settled' = [settled EXCEPT ![u] = @ + used[u]]
    /\ UNCHANGED <<live, opened, carried, forgotten, restarts>> /\ Outside

-------------------------------------------------------------------------------
(* run_daemon.                                                               *)

\* _fetch_connections; the API may answer without any connection.
Fetch ==
    /\ fetched = None
    /\ now < MaxTime
    /\ now' = now + 1
    /\ \/ fetched' = live /\ UNCHANGED blanks
       \/ /\ blanks < MaxBlanks
          /\ blanks' = blanks + 1
          /\ fetched' = [c \in Connections |-> None]
    /\ UNCHANGED <<live, opened, stored, history, restarts, faults>>

Seen == {c \in Connections : fetched[c] # None}
Known == {c \in Connections : records[c] # None}
NoRecord == [user |-> None, total |-> 0, credited |-> 0]
Previous(c) == IF c \in Known THEN records[c] ELSE NoRecord

\* Who a connection belongs to: the evidence of this poll, or the last one.
Identity(c, named) == IF c \in named THEN fetched[c].user ELSE Previous(c).user

\* Mutant of Credited: a counter that started again keeps its old credit.
CreditedForGood(c) == Previous(c).credited

\* What the user has been billed of this connection's current counter.
Credited(c) == IF fetched[c].bytes < Previous(c).total THEN 0 ELSE Previous(c).credited

\* Mutant of Delta: late attribution bills only what is new since the last poll.
DeltaSinceLastPoll(c, user) ==
    IF user # None /\ fetched[c].bytes > Previous(c).total
    THEN fetched[c].bytes - Previous(c).total ELSE 0

\* identify names a user only together with the protocol.
Delta(c, user) ==
    IF user # None /\ fetched[c].bytes > Credited(c)
    THEN fetched[c].bytes - Credited(c) ELSE 0

Record(c, named, place) ==
    [user |-> Identity(c, named), address |-> fetched[c].address,
     total |-> fetched[c].bytes,
     credited |-> IF Delta(c, Identity(c, named)) > 0 THEN fetched[c].bytes ELSE Credited(c),
     missed |-> 0, place |-> place]

\* Mutant of Aged: a connection that is not in the answer is forgotten at once.
DroppedWhenMissing(record) == [record EXCEPT !.missed = Window + 1]

\* A record outlives its connection by Window polls.
Aged(record) == [record EXCEPT !.missed = @ + 1]
Kept == {c \in Known : c \in Seen \/ Aged(records[c]).missed <= Window}

\* A key keeps its place in the dict; new ids follow in the order "fresh".
Place(c, fresh) ==
    IF c \in Known THEN 1 + Cardinality({d \in Kept : records[d].place < records[c].place})
    ELSE Cardinality(Kept) + fresh[c]

\* traffic_connection_counters afterwards.
Recorded(named, fresh) ==
    [c \in Connections |->
        IF c \in Seen THEN Record(c, named, Place(c, fresh))
        ELSE IF c \in Kept THEN [Aged(records[c]) EXCEPT !.place = Place(c, fresh)]
        ELSE None]

\* Not in the code: whose open connections lose their record in this poll.
Forgetting ==
    {live[c].user : c \in {d \in Known \ Seen : live[d] # None /\ records[d].missed = Window}}

Billed(u, recs) ==
    used[u] + Total([c \in {d \in Seen : recs[d].user = u} |-> Delta(c, u)])

-------------------------------------------------------------------------------
(* update_sessions, on the records this poll has just written.               *)

\* Mutant of Present: a connection that has gone still counts.
PresentOrGone(record, u) == record # None /\ record.user = u

Present(record, u) == record # None /\ record.user = u /\ record.missed = 0

\* observed_devices.
Mine(u, recs) == {c \in Connections : Present(recs[c], u)}
Active(u, recs) == {recs[c].address : c \in Mine(u, recs)}

FirstSeen(u, a) == IF sessions[u][a] # None THEN sessions[u][a].first ELSE now

\* The stable sort by first_seen: ties keep the order of the records.
Before(u, recs, a, b) ==
    \/ FirstSeen(u, a) < FirstSeen(u, b)
    \/ /\ FirstSeen(u, a) = FirstSeen(u, b)
       /\ \E c \in Mine(u, recs) :
             /\ recs[c].address = a
             /\ \A d \in Mine(u, recs) : recs[d].address = b => recs[c].place < recs[d].place

Refused(u, recs) ==
    {a \in Active(u, recs) :
        /\ DeviceLimit[u] > 0
        /\ Cardinality({b \in Active(u, recs) : Before(u, recs, b, a)}) >= DeviceLimit[u]}

\* Mutant of Remembered: a device that left is forgotten at once.
RememberedWhileActive(u, recs) == Active(u, recs)

\* Devices that are here, or left no longer than TTL ago.
Remembered(u, recs) ==
    Active(u, recs) \union
        {a \in Addresses : sessions[u][a] # None /\ now - sessions[u][a].last <= TTL}

LastSeen(u, recs, a) == IF a \in Active(u, recs) THEN now ELSE sessions[u][a].last

\* _retain keeps the latest MaxSessions; ties are left open.
Retained(u, recs, kept) ==
    LET all == Remembered(u, recs) IN
    /\ kept \subseteq all
    /\ IF Cardinality(all) <= MaxSessions THEN kept = all
       ELSE /\ Cardinality(kept) = MaxSessions
            /\ \A a \in kept, b \in all \ kept : LastSeen(u, recs, a) >= LastSeen(u, recs, b)

Session(u, recs, a) ==
    IF a \in Active(u, recs)
    THEN [first |-> FirstSeen(u, a), last |-> now, allowed |-> a \notin Refused(u, recs)]
    ELSE sessions[u][a]

\* connections_to_close.
ToClose(recs) ==
    {c \in Connections :
        \E u \in Users : Present(recs[c], u) /\ recs[c].address \in Refused(u, recs)}

(* update_state(account): bill, limit, close the connections of refused      *)
(* devices, save.  The DELETE requests go out before the save; any of them   *)
(* may fail, and so may the save.                                            *)
Account(recs) ==
    /\ fetched' = None
    /\ \E closed \in SUBSET ToClose(recs), saved \in BOOLEAN :
          /\ IF closed = ToClose(recs) /\ saved THEN UNCHANGED faults
             ELSE faults < MaxFaults /\ faults' = faults + 1
          /\ live' = [c \in Connections |-> IF c \in closed THEN None ELSE live[c]]
          /\ IF saved
             THEN /\ records' = recs
                  /\ used' = [u \in Users |-> Billed(u, recs)]
                  /\ \E kept \in [Users -> SUBSET Addresses] :
                        /\ \A u \in Users : Retained(u, recs, kept[u])
                        /\ sessions' = [u \in Users |-> [a \in Addresses |->
                               IF a \in kept[u] THEN Session(u, recs, a) ELSE None]]
                  /\ lastPoll' = now
                  /\ forgotten' = forgotten \union Forgetting
             ELSE UNCHANGED <<stored, forgotten>>
    /\ UNCHANGED <<opened, now, carried, settled, blanks, restarts>>

Accounts ==
    /\ fetched # None
    /\ \E named \in SUBSET Seen :
       \E recs \in {Recorded(named, fresh) :
                        fresh \in Injection(Seen \ Known, 1..Cardinality(Seen \ Known))} :
          Account(recs)

-------------------------------------------------------------------------------
Init ==
    /\ live = [c \in Connections |-> None] /\ opened = {} /\ fetched = None
    /\ records = [c \in Connections |-> None] /\ used = [u \in Users |-> 0]
    /\ sessions = [u \in Users |-> [a \in Addresses |-> None]]
    /\ lastPoll = 0 /\ now = 0
    /\ carried = [u \in Users |-> 0] /\ settled = [u \in Users |-> 0]
    /\ forgotten = {}
    /\ blanks = 0 /\ restarts = 0 /\ faults = 0

Next ==
    \/ \E c \in Connections, u \in Users, a \in Addresses : Open(c, u, a)
    \/ \E c \in Connections : Carry(c) \/ Restart(c) \/ Close(c)
    \/ \E u \in Users : ResetUserTraffic(u)
    \/ Fetch
    \/ Accounts

Spec == Init /\ [][Next]_vars

-------------------------------------------------------------------------------
(* A record is credited no further than its counter, and no user has more    *)
(* sessions than the cap.                                                    *)
TypeOK ==
    /\ live \in [Connections -> Connection \union {None}]
    /\ fetched \in [Connections -> Connection \union {None}] \union {None}
    /\ opened \subseteq Connections
    /\ records \in [Connections -> ConnectionRecord \union {None}]
    /\ \A c \in Known : records[c].credited <= records[c].total
    /\ used \in [Users -> Nat] /\ carried \in [Users -> Nat] /\ settled \in [Users -> Nat]
    /\ forgotten \subseteq Users
    /\ sessions \in [Users -> [Addresses -> DeviceSession \union {None}]]
    /\ \A u \in Users :
          Cardinality({a \in Addresses : sessions[u][a] # None}) <= MaxSessions
    /\ now \in 0..MaxTime /\ lastPoll \in 0..now

(* Nobody is ever billed for more than was carried: not after the daemon     *)
(* failed to save, an empty answer, a late name, a restarted counter or a    *)
(* new quota period.  The exception is the user of a connection that the API *)
(* left out of more than Window answers while it was open.                   *)
NeverOverbilled == \A u \in Users \ forgotten : used[u] + settled[u] <= carried[u]

(* The bytes of every connection whose user is known by now have been billed *)
(* in full, those it carried before the journal named the user included.     *)
AttributedBytesBilled ==
    \A u \in Users :
        used[u] + settled[u] >=
            Total([c \in {d \in Known : records[d].user = u} |-> records[c].total])

(* The daemon closes a connection only when the user really had more         *)
(* addresses connected than the limit allows at the moment of the fetch.     *)
WithinLimitUntouched ==
    [][fetched # None /\ fetched' = None =>
          \A c \in Connections :
              live[c] # None /\ live'[c] = None =>
                  Cardinality({fetched[d].address : d \in
                      {e \in Seen : fetched[e].user = live[c].user}})
                    > DeviceLimit[live[c].user]]_vars

(* "A short reconnect is not a new device": while a user's devices fit the   *)
(* cap, one that is connected or left no longer than the TTL ago keeps its   *)
(* first_seen, which is its priority under the limit.                        *)
RankSurvivesReconnect ==
    [][lastPoll' # lastPoll =>
          \A u \in Users :
              Cardinality({b \in Addresses : sessions[u][b] # None \/ sessions'[u][b] # None})
                <= MaxSessions =>
              \A a \in Addresses :
                  sessions[u][a] # None /\ now - sessions[u][a].last <= TTL =>
                      sessions'[u][a] # None /\ sessions'[u][a].first = sessions[u][a].first]_vars
===============================================================================
