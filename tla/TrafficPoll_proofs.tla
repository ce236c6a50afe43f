-------------------------- MODULE TrafficPoll_proofs ---------------------------
(***************************************************************************)
(* The poll of the traffic daemon for any users, connections, addresses,   *)
(* limits and bounds.  Two arguments carry the proofs.  A connection keeps *)
(* its user from its opening to its last record, so a device is refused    *)
(* only where the snapshot itself shows more addresses than the limit; and *)
(* what a user has been billed and can still be billed, if the snapshot is *)
(* lost and if it is billed, never exceeds what was carried.               *)
(***************************************************************************)
EXTENDS TrafficPoll, FiniteSetTheorems, TLAPS

\* The connections in the snapshot that the daemon holds.
Held == IF fetched = None THEN {} ELSE Seen

(* A connection belongs to one user from its opening to its last record, and *)
(* no id is used twice.                                                      *)
Identities ==
    \A c \in Connections :
        /\ c \notin opened => live[c] = None /\ c \notin Held /\ records[c] = None
        /\ live[c] # None /\ c \in Held => live[c].user = fetched[c].user
        /\ records[c] # None /\ live[c] # None => records[c].user \in {None, live[c].user}
        /\ records[c] # None /\ c \in Held => records[c].user \in {None, fetched[c].user}

(* A counter is credited in full once its user is known, and not before.     *)
CreditedInFull ==
    \A c \in Known :
        records[c].credited = IF records[c].user = None THEN 0 ELSE records[c].total

-------------------------------------------------------------------------------
(* What the next poll would bill of a counter that stands at "bytes".        *)
Owing(bytes, record) == IF bytes < record.total THEN bytes ELSE bytes - record.credited

Reckoned(r, c) == IF r[c] # None THEN r[c] ELSE NoRecord
Counted(bytes) == [user |-> None, total |-> bytes, credited |-> bytes]

\* What the polls can bill of connection c if the snapshot is lost, and if it is billed.
Unbilled(l, c, record) == IF l[c] # None THEN Owing(l[c].bytes, record) ELSE 0
Polled(l, f, r, c) == Owing(f[c].bytes, Reckoned(r, c)) + Unbilled(l, c, Counted(f[c].bytes))

Larger(m, n) == IF m < n THEN n ELSE m
Owed(l, held, f, r, u) ==
    [c \in Connections |->
        IF c \in held /\ f[c].user = u
        THEN Larger(Unbilled(l, c, Reckoned(r, c)), Polled(l, f, r, c))
        ELSE IF l[c] # None /\ l[c].user = u THEN Unbilled(l, c, Reckoned(r, c)) ELSE 0]

(* Everything a user has been billed and can still be billed was carried.    *)
Covered ==
    \A u \in Users \ forgotten :
        used[u] + settled[u] + Total(Owed(live, Held, fetched, records, u)) <= carried[u]

-------------------------------------------------------------------------------
(* The bytes of f are pairs of an argument and a positive number up to its   *)
(* value.                                                                    *)
LEMMA BytesElements ==
    ASSUME NEW S, NEW f \in [S -> Nat]
    PROVE  /\ \A c \in S : \A i \in 1..f[c] : <<c, i>> \in Bytes(f)
           /\ \A x \in Bytes(f) : \E c \in S : \E i \in 1..f[c] : x = <<c, i>>
           /\ \A c, i : <<c, i>> \in Bytes(f) => c \in S /\ i \in 1..f[c]
  <1>1. \A c, i : <<c, i>> \in Bytes(f) <=> c \in S /\ i \in 1..f[c]
    <2>1. \A c, i : \A d \in S : <<c, i>> \in {d} \X (1..f[d]) <=> c = d /\ i \in 1..f[d]
      OBVIOUS
    <2> QED BY <2>1 DEF Bytes
  <1>2. ASSUME NEW x \in Bytes(f)
        PROVE  \E c \in S : \E i \in 1..f[c] : x = <<c, i>>
    <2>1. PICK c \in S : x \in {c} \X (1..f[c])
      BY <1>2 DEF Bytes
    <2>2. x = <<c, x[2]>> /\ x[2] \in 1..f[c]
      BY <2>1
    <2> QED BY <2>2
  <1> QED BY <1>1, <1>2

(* A sum over finitely many arguments is a natural number.                   *)
LEMMA TotalIsNatural ==
    ASSUME NEW S, IsFiniteSet(S), NEW f \in [S -> Nat]
    PROVE  IsFiniteSet(Bytes(f)) /\ Total(f) \in Nat
  <1> DEFINE rows == {{c} \X (1..f[c]) : c \in S}
             row == [c \in S |-> {c} \X (1..f[c])]
  <1>1. row \in Surjection(S, rows)
    BY DEF Surjection
  <1>2. IsFiniteSet(rows)
    BY <1>1, FS_Surjection
  <1>3. ASSUME NEW T \in rows PROVE IsFiniteSet(T)
    <2>1. PICK c \in S : T = {c} \X (1..f[c])
      OBVIOUS
    <2>2. f[c] \in Int
      BY <2>1
    <2>3. IsFiniteSet(1..f[c])
      BY <2>2, FS_Interval
    <2>4. IsFiniteSet({c})
      BY FS_Singleton
    <2> QED BY <2>1, <2>3, <2>4, FS_Product
  <1>4. IsFiniteSet(UNION rows)
    BY <1>2, <1>3, FS_UNION
  <1>5. Bytes(f) = UNION rows
    BY DEF Bytes
  <1> QED BY <1>4, <1>5, FS_CardinalityType DEF Total

(* Sums are additive.                                                        *)
LEMMA TotalPlus ==
    ASSUME NEW S, IsFiniteSet(S), NEW f \in [S -> Nat], NEW g \in [S -> Nat],
           NEW h \in [S -> Nat], \A c \in S : f[c] = g[c] + h[c]
    PROVE  Total(f) = Total(g) + Total(h)
  <1> DEFINE rest == Bytes(f) \ Bytes(g)
             shift == [x \in Bytes(h) |-> <<x[1], x[2] + g[x[1]]>>]
  <1>1. Bytes(g) \subseteq Bytes(f)
    <2> SUFFICES ASSUME NEW x \in Bytes(g) PROVE x \in Bytes(f)
      OBVIOUS
    <2>1. PICK c \in S, i \in Nat : i \in 1..g[c] /\ x = <<c, i>>
      BY BytesElements
    <2>2. i \in 1..f[c]
      BY <2>1
    <2> QED BY <2>1, <2>2, BytesElements
  <1>2. shift \in [Bytes(h) -> rest]
    <2> SUFFICES ASSUME NEW x \in Bytes(h) PROVE <<x[1], x[2] + g[x[1]]>> \in rest
      OBVIOUS
    <2>1. PICK c \in S, i \in Nat : i \in 1..h[c] /\ x = <<c, i>>
      BY BytesElements
    <2>2. i + g[c] \in 1..f[c] /\ i + g[c] \notin 1..g[c]
      BY <2>1
    <2>3. <<c, i + g[c]>> \in Bytes(f) /\ <<c, i + g[c]>> \notin Bytes(g)
      BY <2>2, BytesElements
    <2> QED BY <2>1, <2>3
  <1>3. \A x, y \in Bytes(h) : shift[x] = shift[y] => x = y
    <2> SUFFICES ASSUME NEW x \in Bytes(h), NEW y \in Bytes(h), shift[x] = shift[y]
                 PROVE  x = y
      OBVIOUS
    <2>1. PICK c \in S, i \in Nat : i \in 1..h[c] /\ x = <<c, i>>
      BY BytesElements
    <2>2. PICK d \in S, j \in Nat : j \in 1..h[d] /\ y = <<d, j>>
      BY BytesElements
    <2>3. <<c, i + g[c]>> = <<d, j + g[d]>>
      BY <2>1, <2>2
    <2>4. c = d /\ i + g[c] = j + g[c]
      BY <2>3
    <2> QED BY <2>1, <2>2, <2>4
  <1>4. \A y \in rest : \E x \in Bytes(h) : shift[x] = y
    <2> SUFFICES ASSUME NEW y \in rest PROVE \E x \in Bytes(h) : shift[x] = y
      OBVIOUS
    <2>1. PICK c \in S, i \in Nat : i \in 1..f[c] /\ y = <<c, i>>
      BY BytesElements
    <2>2. i \notin 1..g[c]
      BY <2>1, BytesElements
    <2>3. i - g[c] \in 1..h[c]
      BY <2>1, <2>2
    <2>4. <<c, i - g[c]>> \in Bytes(h)
      BY <2>3, BytesElements
    <2>5. shift[<<c, i - g[c]>>] = <<c, (i - g[c]) + g[c]>>
      BY <2>4
    <2>6. (i - g[c]) + g[c] = i
      BY <2>1
    <2> QED BY <2>1, <2>4, <2>5, <2>6
  <1> HIDE DEF rest, shift
  <1>5. shift \in Bijection(Bytes(h), rest)
    BY <1>2, <1>3, <1>4 DEF Bijection, Injection, Surjection, IsInjective
  <1>6. IsFiniteSet(Bytes(f)) /\ IsFiniteSet(Bytes(g)) /\ IsFiniteSet(Bytes(h))
    BY TotalIsNatural
  <1>7. Cardinality(rest) = Cardinality(Bytes(h))
    BY <1>5, <1>6, FS_Bijection DEF ExistsBijection
  <1>8. Cardinality(rest) = Cardinality(Bytes(f)) - Cardinality(Bytes(f) \cap Bytes(g))
    BY <1>6, FS_Difference DEF rest
  <1>9. Cardinality(Bytes(f) \cap Bytes(g)) = Cardinality(Bytes(g))
    <2>1. Bytes(f) \cap Bytes(g) = Bytes(g)
      BY <1>1
    <2> QED BY <2>1
  <1>10. Total(f) \in Nat /\ Total(g) \in Nat /\ Total(h) \in Nat
    BY TotalIsNatural
  <1> QED BY <1>7, <1>8, <1>9, <1>10 DEF Total

(* Sums are monotone.                                                        *)
LEMMA TotalMonotone ==
    ASSUME NEW S, IsFiniteSet(S), NEW f \in [S -> Nat], NEW g \in [S -> Nat],
           \A c \in S : f[c] <= g[c]
    PROVE  Total(f) <= Total(g)
  <1> DEFINE rest == [c \in S |-> g[c] - f[c]]
  <1>1. rest \in [S -> Nat] /\ \A c \in S : g[c] = f[c] + rest[c]
    OBVIOUS
  <1> HIDE DEF rest
  <1>2. Total(g) = Total(f) + Total(rest)
    BY <1>1, TotalPlus
  <1>3. Total(f) \in Nat /\ Total(g) \in Nat /\ Total(rest) \in Nat
    BY <1>1, TotalIsNatural
  <1> QED BY <1>2, <1>3

(* An argument of value zero adds nothing.                                   *)
LEMMA TotalPart ==
    ASSUME NEW S, NEW T \in SUBSET S, NEW f \in [T -> Nat]
    PROVE  Total(f) = Total([c \in S |-> IF c \in T THEN f[c] ELSE 0])
  <1> DEFINE g == [c \in S |-> IF c \in T THEN f[c] ELSE 0]
  <1>1. g \in [S -> Nat] /\ \A c \in S : g[c] = IF c \in T THEN f[c] ELSE 0
    OBVIOUS
  <1> HIDE DEF g
  <1>2. Bytes(f) \subseteq Bytes(g)
    <2> SUFFICES ASSUME NEW x \in Bytes(f) PROVE x \in Bytes(g)
      OBVIOUS
    <2>1. PICK c \in T, i \in Nat : i \in 1..f[c] /\ x = <<c, i>>
      BY BytesElements
    <2> QED BY <1>1, <2>1, BytesElements
  <1>3. Bytes(g) \subseteq Bytes(f)
    <2> SUFFICES ASSUME NEW x \in Bytes(g) PROVE x \in Bytes(f)
      OBVIOUS
    <2>1. PICK c \in S, i \in Nat : i \in 1..g[c] /\ x = <<c, i>>
      BY <1>1, BytesElements
    <2>2. c \in T /\ i \in 1..f[c]
      BY <1>1, <2>1
    <2> QED BY <2>1, <2>2, BytesElements
  <1>4. Bytes(f) = Bytes(g)
    BY <1>2, <1>3
  <1> QED BY <1>4 DEF Total, g

(* The sum of a single one is one.                                           *)
LEMMA TotalOne ==
    ASSUME NEW S, NEW c \in S, NEW f \in [S -> Nat],
           \A d \in S : f[d] = IF d = c THEN 1 ELSE 0
    PROVE  Total(f) = 1
  <1>1. <<c, 1>> \in Bytes(f)
    BY BytesElements
  <1>2. ASSUME NEW x \in Bytes(f) PROVE x = <<c, 1>>
    <2>1. PICK d \in S, i \in Nat : i \in 1..f[d] /\ x = <<d, i>>
      BY BytesElements
    <2> QED BY <2>1
  <1>3. Bytes(f) = {<<c, 1>>}
    BY <1>1, <1>2
  <1> QED BY <1>3, FS_Singleton DEF Total

(* The sum of zeros is zero.                                                 *)
LEMMA TotalZero ==
    ASSUME NEW S, NEW f \in [S -> Nat], \A d \in S : f[d] = 0
    PROVE  Total(f) = 0
  <1>1. ASSUME NEW x \in Bytes(f) PROVE FALSE
    <2>1. PICK d \in S, i \in Nat : i \in 1..f[d] /\ x = <<d, i>>
      BY BytesElements
    <2> QED BY <2>1
  <1>2. Bytes(f) = {}
    BY <1>1
  <1> QED BY <1>2, FS_EmptySet DEF Total

-------------------------------------------------------------------------------
(* What accounting leaves of the records.                                    *)
Written(recs) ==
    /\ recs \in [Connections -> ConnectionRecord \union {None}]
    /\ \A c \in Seen :
          LET user == recs[c].user IN
          /\ recs[c] \in ConnectionRecord
          /\ user \in {Previous(c).user, fetched[c].user}
          /\ recs[c].address = fetched[c].address
          /\ recs[c].total = fetched[c].bytes
          /\ recs[c].credited = IF Delta(c, user) > 0 THEN fetched[c].bytes ELSE Credited(c)
          /\ recs[c].missed = 0
    /\ \A c \in Connections \ Seen :
          IF c \in Known /\ records[c].missed < Window
          THEN /\ recs[c] \in ConnectionRecord
               /\ recs[c].user = records[c].user
               /\ recs[c].total = records[c].total
               /\ recs[c].credited = records[c].credited
               /\ recs[c].missed = records[c].missed + 1
          ELSE recs[c] = None

(* What the accounting finds of a connection: its record, or an empty one.   *)
LEMMA PreviousType ==
    ASSUME TypeOK, NEW c \in Connections
    PROVE  /\ c \in Known => Previous(c) = records[c] /\ records[c] \in ConnectionRecord
           /\ c \notin Known => Previous(c) = NoRecord
           /\ Previous(c).user \in Users \union {None}
           /\ Previous(c).total \in Nat
           /\ Previous(c).credited \in 0..Previous(c).total
  BY DEF TypeOK, Known, Previous, NoRecord, ConnectionRecord

(* A bill is what the counter shows beyond its credit, once the user is      *)
(* known.                                                                    *)
LEMMA DeltaType ==
    ASSUME TypeOK, fetched # None, NEW c \in Seen, NEW user
    PROVE  /\ fetched[c] \in Connection
           /\ Credited(c) \in 0..fetched[c].bytes
           /\ Credited(c) <= Previous(c).credited
           /\ Delta(c, user) = IF user # None THEN fetched[c].bytes - Credited(c) ELSE 0
           /\ Delta(c, user) \in Nat
  <1>1. c \in Connections /\ fetched[c] \in Connection
    BY DEF Seen, TypeOK
  <1>2. fetched[c].bytes \in Nat
    BY <1>1 DEF Connection
  <1>3. Credited(c) \in 0..fetched[c].bytes /\ Credited(c) <= Previous(c).credited
    BY <1>1, <1>2, PreviousType DEF Credited
  <1> QED BY <1>1, <1>2, <1>3 DEF Delta

(* Accounting writes the records that Written describes.                     *)
LEMMA RecordedIsWritten ==
    ASSUME TypeOK, fetched # None, NEW named \in SUBSET Seen,
           NEW fresh \in Injection(Seen \ Known, 1..Cardinality(Seen \ Known))
    PROVE  Written(Recorded(named, fresh))
  <1> DEFINE recs == Recorded(named, fresh)
  <1>1. IsFiniteSet(Kept) /\ IsFiniteSet(Seen \ Known)
    BY PollAssumption, FS_Subset DEF Kept, Known, Seen
  <1>2. Cardinality(Kept) \in Nat /\ Cardinality(Seen \ Known) \in Nat
    BY <1>1, FS_CardinalityType
  <1>3. fresh \in [Seen \ Known -> 1..Cardinality(Seen \ Known)]
    BY DEF Injection
  <1>4. ASSUME NEW c \in Seen \union Known PROVE Place(c, fresh) \in Nat
    <2>1. IsFiniteSet({d \in Kept : records[d].place < records[c].place})
      BY <1>1, FS_Subset
    <2>2. Cardinality({d \in Kept : records[d].place < records[c].place}) \in Nat
      BY <2>1, FS_CardinalityType
    <2>3. c \notin Known => fresh[c] \in 1..Cardinality(Seen \ Known)
      BY <1>3
    <2> QED BY <1>2, <2>2, <2>3 DEF Place
  <1>5. ASSUME NEW c \in Seen
        PROVE  /\ Record(c, named, Place(c, fresh)) \in ConnectionRecord
               /\ Identity(c, named) \in {Previous(c).user, fetched[c].user}
    <2>1. c \in Connections
      BY DEF Seen
    <2>2. fetched[c].user \in Users /\ fetched[c].address \in Addresses /\ fetched[c].bytes \in Nat
      BY DeltaType DEF Connection
    <2>3. Identity(c, named) \in Users \union {None}
      BY <2>1, <2>2, PreviousType DEF Identity
    <2>4. Credited(c) \in Nat
      BY <2>2, DeltaType
    <2>5. 0 \in 0..Window
      BY PollAssumption
    <2> QED BY <1>4, <2>2, <2>3, <2>4, <2>5 DEF Record, ConnectionRecord, Identity
  <1>6. ASSUME NEW c \in Known \ Seen
        PROVE  /\ c \in Kept <=> records[c].missed < Window
               /\ records[c].missed < Window =>
                     [Aged(records[c]) EXCEPT !.place = Place(c, fresh)] \in ConnectionRecord
    <2>1. records[c] \in ConnectionRecord
      BY PreviousType DEF Known
    <2>2. records[c].missed \in 0..Window /\ Window \in Nat
      BY <2>1, PollAssumption DEF ConnectionRecord
    <2>3. Aged(records[c]).missed = records[c].missed + 1
      BY <2>1 DEF Aged, ConnectionRecord
    <2>4. c \in Kept <=> records[c].missed < Window
      BY <2>2, <2>3 DEF Kept
    <2>5. ASSUME records[c].missed < Window
          PROVE  [Aged(records[c]) EXCEPT !.place = Place(c, fresh)] \in ConnectionRecord
      <3>1. records[c].missed + 1 \in 0..Window
        BY <2>2, <2>5
      <3> QED BY <1>4, <2>1, <3>1 DEF Aged, ConnectionRecord
    <2> QED BY <2>4, <2>5
  <1>7. ASSUME NEW c \in Connections
        PROVE  recs[c] \in ConnectionRecord \union {None}
    BY <1>5, <1>6 DEF Recorded, Kept
  <1>8. recs \in [Connections -> ConnectionRecord \union {None}]
    BY <1>7 DEF Recorded
  <1>9. ASSUME NEW c \in Seen
        PROVE  recs[c] = Record(c, named, Place(c, fresh))
    BY DEF Recorded, Seen
  <1>10. ASSUME NEW c \in Connections \ Seen
         PROVE  IF c \in Known /\ records[c].missed < Window
                THEN recs[c] = [Aged(records[c]) EXCEPT !.place = Place(c, fresh)]
                ELSE recs[c] = None
    BY <1>6 DEF Recorded, Kept
  <1>11. ASSUME NEW c \in Seen
         PROVE  LET user == recs[c].user IN
                /\ recs[c] \in ConnectionRecord
                /\ user \in {Previous(c).user, fetched[c].user}
                /\ recs[c].address = fetched[c].address
                /\ recs[c].total = fetched[c].bytes
                /\ recs[c].credited = IF Delta(c, user) > 0 THEN fetched[c].bytes ELSE Credited(c)
                /\ recs[c].missed = 0
    <2> DEFINE rec == Record(c, named, Place(c, fresh))
    <2>1. recs[c] = rec
      BY <1>9
    <2>2. /\ rec.user = Identity(c, named)
          /\ rec.address = fetched[c].address
          /\ rec.total = fetched[c].bytes
          /\ rec.credited = IF Delta(c, Identity(c, named)) > 0 THEN fetched[c].bytes
                            ELSE Credited(c)
          /\ rec.missed = 0
      BY DEF Record
    <2> HIDE DEF rec
    <2>3. recs[c].user = Identity(c, named)
      BY <2>1, <2>2
    <2>4. recs[c].credited =
              IF Delta(c, recs[c].user) > 0 THEN fetched[c].bytes ELSE Credited(c)
      BY <2>1, <2>2
    <2> QED BY <1>5, <1>9, <2>1, <2>2, <2>3, <2>4
  <1>12. ASSUME NEW c \in Connections \ Seen
         PROVE  IF c \in Known /\ records[c].missed < Window
                THEN /\ recs[c] \in ConnectionRecord
                     /\ recs[c].user = records[c].user
                     /\ recs[c].total = records[c].total
                     /\ recs[c].credited = records[c].credited
                     /\ recs[c].missed = records[c].missed + 1
                ELSE recs[c] = None
    <2>1. CASE c \in Known /\ records[c].missed < Window
      <3>1. records[c] \in ConnectionRecord
        BY <2>1, PreviousType
      <3> QED BY <1>6, <1>10, <2>1, <3>1 DEF Aged, ConnectionRecord
    <2>2. CASE ~(c \in Known /\ records[c].missed < Window)
      BY <1>10, <2>2
    <2> QED BY <2>1, <2>2
  <1> HIDE DEF recs
  <1>13. Written(recs)
    BY <1>8, <1>11, <1>12 DEF Written
  <1> QED BY <1>13 DEF recs

-------------------------------------------------------------------------------
(* An accounting step writes such records.                                   *)
LEMMA AccountsStep ==
    ASSUME TypeOK, Accounts
    PROVE  /\ fetched # None
           /\ \E recs \in [Connections -> ConnectionRecord \union {None}] :
                 Written(recs) /\ Account(recs)
  <1>1. fetched # None
    BY DEF Accounts
  <1> DEFINE orders == Injection(Seen \ Known, 1..Cardinality(Seen \ Known))
  <1>2. PICK named \in SUBSET Seen :
            \E recs \in {Recorded(named, fresh) : fresh \in orders} : Account(recs)
    BY DEF Accounts
  <1>3. PICK recs \in {Recorded(named, fresh) : fresh \in orders} : Account(recs)
    BY <1>2
  <1>4. Written(recs)
    BY <1>1, <1>3, RecordedIsWritten
  <1> QED BY <1>1, <1>3, <1>4 DEF Written

(* Every session that is remembered is a well-formed session.                *)
LEMMA SessionType ==
    ASSUME TypeOK, NEW u \in Users, NEW recs \in [Connections -> ConnectionRecord \union {None}]
    PROVE  /\ Active(u, recs) \subseteq Addresses
           /\ Remembered(u, recs) \subseteq Addresses
           /\ \A a \in Addresses : FirstSeen(u, a) \in Nat
           /\ \A a \in Remembered(u, recs) : Session(u, recs, a) \in DeviceSession
  <1>1. ASSUME NEW c \in Mine(u, recs) PROVE recs[c].address \in Addresses
    <2>1. recs[c] \in ConnectionRecord
      BY DEF Mine, Present
    <2> QED BY <2>1 DEF ConnectionRecord
  <1>2. Active(u, recs) \subseteq Addresses
    BY <1>1 DEF Active
  <1>3. ASSUME NEW a \in Addresses, sessions[u][a] # None
        PROVE  sessions[u][a] \in DeviceSession
    BY <1>3 DEF TypeOK
  <1>4. now \in Nat
    BY DEF TypeOK
  <1>5. ASSUME NEW a \in Addresses PROVE FirstSeen(u, a) \in Nat
    BY <1>3, <1>4 DEF FirstSeen, DeviceSession
  <1>6. ASSUME NEW a \in Remembered(u, recs) PROVE Session(u, recs, a) \in DeviceSession
    <2>1. CASE a \in Active(u, recs)
      BY <1>2, <1>4, <1>5, <2>1 DEF Session, DeviceSession
    <2>2. CASE a \notin Active(u, recs)
      BY <1>3, <2>2 DEF Session, Remembered
    <2> QED BY <2>1, <2>2
  <1> QED BY <1>2, <1>5, <1>6 DEF Remembered

(* Accounting never takes from a bill.                                       *)
LEMMA BilledIsMore ==
    ASSUME TypeOK, fetched # None, NEW u \in Users,
           NEW recs \in [Connections -> ConnectionRecord \union {None}]
    PROVE  Billed(u, recs) \in Nat /\ Billed(u, recs) >= used[u]
  <1> DEFINE mine == {d \in Seen : recs[d].user = u}
             delta == [c \in mine |-> Delta(c, u)]
  <1>1. delta \in [mine -> Nat]
    BY DeltaType
  <1>2. IsFiniteSet(mine)
    BY PollAssumption, FS_Subset DEF Seen
  <1> HIDE DEF delta, mine
  <1>3. Total(delta) \in Nat
    BY <1>1, <1>2, TotalIsNatural
  <1>4. Billed(u, recs) = used[u] + Total(delta)
    BY DEF Billed, delta, mine
  <1>5. used[u] \in Nat
    BY DEF TypeOK
  <1> QED BY <1>3, <1>4, <1>5

(* The type invariant, with the cap of remembered sessions:                  *)
(* update_sessions never leaves a user more sessions than the cap, and no    *)
(* record is credited beyond its counter.                                    *)
THEOREM Typing == Spec => []TypeOK
  <1>1. Init => TypeOK
    <2> SUFFICES ASSUME Init PROVE TypeOK
      OBVIOUS
    <2>1. ASSUME NEW u \in Users
          PROVE  Cardinality({a \in Addresses : sessions[u][a] # None}) <= MaxSessions
      <3>1. {a \in Addresses : sessions[u][a] # None} = {}
        BY DEF Init
      <3>2. Cardinality({a \in Addresses : sessions[u][a] # None}) = 0
        BY <3>1, FS_EmptySet
      <3> QED BY <3>2, PollAssumption
    <2>2. 0 \in 0..MaxTime
      BY PollAssumption
    <2> QED BY <2>1, <2>2 DEF Init, TypeOK, Known
  <1>2. ASSUME TypeOK, [Next]_vars PROVE TypeOK'
    <2> USE <1>2
    <2> DEFINE Sized == \A u \in Users :
                   Cardinality({a \in Addresses : sessions[u][a] # None}) <= MaxSessions
               Limited == \A c \in Known : records[c].credited <= records[c].total
    <2>2. UNCHANGED <<records, sessions>> => Limited' /\ Sized'
      BY DEF TypeOK, Known
    <2>3. ASSUME NEW c \in Connections, NEW u \in Users, NEW a \in Addresses, Open(c, u, a)
          PROVE  TypeOK'
      <3>1. [user |-> u, address |-> a, bytes |-> 0] \in Connection
        BY DEF Connection
      <3> QED BY <2>2, <2>3, <3>1 DEF Open, Outside, history, TypeOK
    <2>4. ASSUME NEW c \in Connections, Carry(c) PROVE TypeOK'
      <3>1. live[c] \in Connection
        BY <2>4 DEF Carry, TypeOK
      <3>2. [live[c] EXCEPT !.bytes = @ + 1] \in Connection
        BY <3>1 DEF Connection
      <3>3. live' \in [Connections -> Connection \union {None}]
        BY <2>4, <3>2 DEF Carry, TypeOK
      <3>4. carried' \in [Users -> Nat]
        <4>1. live[c].user \in Users
          BY <3>1 DEF Connection
        <4> QED BY <2>4, <4>1 DEF Carry, TypeOK
      <3> QED BY <2>2, <2>4, <3>3, <3>4 DEF Carry, Outside, TypeOK
    <2>5. ASSUME NEW c \in Connections, Restart(c) PROVE TypeOK'
      <3>1. live[c] \in Connection
        BY <2>5 DEF Restart, TypeOK
      <3>2. [live[c] EXCEPT !.bytes = 0] \in Connection
        BY <3>1 DEF Connection
      <3>3. live' \in [Connections -> Connection \union {None}]
        BY <2>5, <3>2 DEF Restart, TypeOK
      <3> QED BY <2>2, <2>5, <3>3 DEF Restart, Outside, history, TypeOK
    <2>6. ASSUME NEW c \in Connections, Close(c) PROVE TypeOK'
      <3>1. live' \in [Connections -> Connection \union {None}]
        BY <2>6 DEF Close, TypeOK
      <3> QED BY <2>2, <2>6, <3>1 DEF Close, Outside, history, TypeOK
    <2>7. ASSUME NEW u \in Users, ResetUserTraffic(u) PROVE TypeOK'
      <3>1. used' \in [Users -> Nat] /\ settled' \in [Users -> Nat]
        BY <2>7 DEF ResetUserTraffic, TypeOK
      <3> QED BY <2>2, <2>7, <3>1 DEF ResetUserTraffic, Outside, TypeOK
    <2>8. ASSUME Fetch PROVE TypeOK'
      <3>1. fetched' \in [Connections -> Connection \union {None}]
        BY <2>8 DEF Fetch, TypeOK
      <3>2. now' \in 0..MaxTime /\ lastPoll' \in 0..now'
        BY <2>8, PollAssumption DEF Fetch, TypeOK, stored
      <3> QED BY <2>2, <2>8, <3>1, <3>2 DEF Fetch, stored, history, TypeOK
    <2>9. ASSUME Accounts PROVE TypeOK'
      <3>1. fetched # None /\ \E recs \in [Connections -> ConnectionRecord \union {None}] :
                                 Written(recs) /\ Account(recs)
        BY <2>9, AccountsStep
      <3>2. PICK recs \in [Connections -> ConnectionRecord \union {None}] :
                Written(recs) /\ Account(recs)
        BY <3>1
      <3>3. fetched' = None /\ UNCHANGED <<opened, now, carried, settled>>
        BY <3>2 DEF Account
      <3>4. live' \in [Connections -> Connection \union {None}]
        BY <3>2 DEF Account, TypeOK
      <3>5. CASE UNCHANGED <<stored, forgotten>>
        BY <2>2, <3>3, <3>4, <3>5 DEF stored, TypeOK
      <3>6. ASSUME NEW kept \in [Users -> SUBSET Addresses],
                   \A u \in Users : Retained(u, recs, kept[u]),
                   sessions' = [u \in Users |-> [a \in Addresses |->
                               IF a \in kept[u] THEN Session(u, recs, a) ELSE None]],
                   records' = recs,
                   used' = [u \in Users |-> Billed(u, recs)],
                   lastPoll' = now, forgotten' = forgotten \union Forgetting
            PROVE  TypeOK'
        <4>1. used' \in [Users -> Nat]
          BY <3>1, <3>6, BilledIsMore
        <4>2. ASSUME NEW u \in Users
              PROVE  /\ kept[u] \subseteq Remembered(u, recs)
                     /\ Cardinality(kept[u]) <= MaxSessions
          BY <3>6, PollAssumption DEF Retained
        <4>3. ASSUME NEW u \in Users, NEW a \in Addresses
              PROVE  sessions'[u][a] \in DeviceSession \union {None}
          BY <3>6, <4>2, SessionType
        <4>4. sessions' \in [Users -> [Addresses -> DeviceSession \union {None}]]
          BY <3>6, <4>3
        <4>5. Sized'
          <5> SUFFICES ASSUME NEW u \in Users
                       PROVE  Cardinality({a \in Addresses : sessions'[u][a] # None}) <= MaxSessions
            OBVIOUS
          <5>1. {a \in Addresses : sessions'[u][a] # None} \in SUBSET kept[u]
            BY <3>6
          <5>2. IsFiniteSet(kept[u])
            BY PollAssumption, FS_Subset
          <5>3. Cardinality({a \in Addresses : sessions'[u][a] # None}) <= Cardinality(kept[u])
            BY <5>1, <5>2, FS_Subset
          <5>4. IsFiniteSet({a \in Addresses : sessions'[u][a] # None})
            BY <5>1, <5>2, FS_Subset
          <5> QED BY <4>2, <5>2, <5>3, <5>4, FS_CardinalityType, PollAssumption
        <4>6. Limited'
          <5> SUFFICES ASSUME NEW c \in Connections, recs[c] # None
                       PROVE  recs[c].credited <= recs[c].total
            BY <3>6 DEF Known
          <5>1. CASE c \in Seen
            <6>1. /\ fetched[c].bytes \in Nat
                  /\ Credited(c) <= fetched[c].bytes
              BY <3>1, <5>1, DeltaType DEF Connection
            <6>2. /\ recs[c].total = fetched[c].bytes
                  /\ recs[c].credited \in {fetched[c].bytes, Credited(c)}
              BY <3>2, <5>1 DEF Written
            <6> QED BY <6>1, <6>2
          <5>2. CASE c \notin Seen
            BY <3>2, <5>2 DEF Written, TypeOK, Known
          <5> QED BY <5>1, <5>2
        <4>7. forgotten' \subseteq Users
          <5>1. ASSUME NEW c \in Connections, live[c] # None PROVE live[c].user \in Users
            BY <5>1 DEF TypeOK, Connection
          <5> QED BY <3>6, <5>1 DEF Forgetting, TypeOK, Known
        <4>8. lastPoll' \in 0..now' /\ now' \in 0..MaxTime
          BY <3>3, <3>6 DEF TypeOK
        <4> QED BY <3>3, <3>4, <3>6, <4>1, <4>4, <4>5, <4>6, <4>7, <4>8 DEF TypeOK
      <3> QED BY <3>2, <3>5, <3>6 DEF Account
    <2>10. CASE UNCHANGED vars
      BY <2>10 DEF vars, TypeOK, Known
    <2> QED BY <2>3, <2>4, <2>5, <2>6, <2>7, <2>8, <2>9, <2>10 DEF Next
  <1> QED BY <1>1, <1>2, PTL DEF Spec

-------------------------------------------------------------------------------
(* An entry that a poll writes names the user of the snapshot or nobody.     *)
LEMMA WrittenUser ==
    ASSUME TypeOK, Identities, fetched # None, NEW recs, Written(recs), NEW c \in Seen
    PROVE  recs[c].user \in {None, fetched[c].user}
  <1>1. recs[c].user \in {Previous(c).user, fetched[c].user}
    BY DEF Written
  <1>2. c \in Connections /\ c \in Held
    BY DEF Held, Seen
  <1>3. Previous(c).user \in {None, fetched[c].user}
    BY <1>2 DEF Identities, Previous, Known, NoRecord
  <1> QED BY <1>1, <1>3

(* No step gives a connection another user.                                  *)
LEMMA IdentitiesStep == TypeOK /\ Identities /\ [Next]_vars => Identities'
  <1> SUFFICES ASSUME TypeOK, Identities, [Next]_vars PROVE Identities'
    OBVIOUS
  <1>1. ASSUME NEW c \in Connections, NEW u \in Users, NEW a \in Addresses, Open(c, u, a)
        PROVE  Identities'
    <2>1. live' = [live EXCEPT ![c] = [user |-> u, address |-> a, bytes |-> 0]]
      BY <1>1 DEF Open
    <2>2. UNCHANGED <<fetched, records>> /\ opened' = opened \union {c} /\ c \notin opened
      BY <1>1 DEF Open, Outside
    <2>3. Held' = Held
      BY <2>2 DEF Held, Seen
    <2>4. live[c] = None /\ c \notin Held /\ records[c] = None
      BY <2>2 DEF Identities
    <2> QED BY <2>1, <2>2, <2>3, <2>4 DEF Identities, TypeOK
  <1>2. ASSUME NEW c \in Connections, Carry(c) \/ Restart(c) \/ Close(c) PROVE Identities'
    <2>1. UNCHANGED <<fetched, records, opened>>
      BY <1>2 DEF Carry, Restart, Close, Outside
    <2>2. Held' = Held
      BY <2>1 DEF Held, Seen
    <2>3. ASSUME NEW d \in Connections
          PROVE  live'[d] # None => live[d] # None /\ live'[d].user = live[d].user
      <3>1. live[d] # None => live[d] \in Connection
        BY DEF TypeOK
      <3>2. CASE Carry(c)
        BY <3>1, <3>2 DEF Carry, TypeOK, Connection
      <3>3. CASE Restart(c)
        BY <3>1, <3>3 DEF Restart, TypeOK, Connection
      <3>4. CASE Close(c)
        BY <3>4 DEF Close, TypeOK
      <3> QED BY <1>2, <3>2, <3>3, <3>4
    <2> QED BY <2>1, <2>2, <2>3 DEF Identities
  <1>3. ASSUME NEW u \in Users, ResetUserTraffic(u) PROVE Identities'
    BY <1>3 DEF ResetUserTraffic, Outside, Identities, Held, Seen
  <1>4. ASSUME Fetch PROVE Identities'
    <2>1. UNCHANGED <<live, records, opened>>
      BY <1>4 DEF Fetch, stored
    <2>2. ASSUME NEW c \in Connections, c \in Held'
          PROVE  live[c] # None /\ fetched'[c] = live[c]
      BY <1>4, <2>2 DEF Fetch, Held, Seen
    <2> QED BY <2>1, <2>2 DEF Identities
  <1>5. ASSUME Accounts PROVE Identities'
    <2>1. fetched # None /\ \E recs \in [Connections -> ConnectionRecord \union {None}] :
                               Written(recs) /\ Account(recs)
      BY <1>5, AccountsStep
    <2>2. PICK recs \in [Connections -> ConnectionRecord \union {None}] :
              Written(recs) /\ Account(recs)
      BY <2>1
    <2>3. Held' = {} /\ opened' = opened
      BY <2>2 DEF Account, Held
    <2>4. ASSUME NEW c \in Connections
          PROVE  live'[c] # None => live'[c] = live[c]
      BY <2>2 DEF Account
    <2>5. ASSUME NEW c \in Connections, c \notin opened
          PROVE  live[c] = None /\ c \notin Held /\ records[c] = None
      BY <2>5 DEF Identities
    <2>6. records' \in {records, recs}
      BY <2>2 DEF Account, stored
    <2>7. ASSUME NEW c \in Connections
          PROVE  /\ c \notin opened => recs[c] = None
                 /\ recs[c] # None /\ live[c] # None => recs[c].user \in {None, live[c].user}
      <3>1. CASE c \in Seen
        <4>1. c \in Held
          BY <2>1, <3>1 DEF Held
        <4>2. live[c] # None => live[c].user = fetched[c].user
          BY <4>1 DEF Identities
        <4>3. recs[c].user \in {None, fetched[c].user}
          BY <2>1, <2>2, <3>1, WrittenUser
        <4> QED BY <2>5, <4>1, <4>2, <4>3
      <3>2. CASE c \notin Seen
        <4>1. recs[c] # None => c \in Known /\ recs[c].user = records[c].user
          BY <2>2, <3>2 DEF Written
        <4> QED BY <2>5, <4>1 DEF Identities, Known
      <3> QED BY <3>1, <3>2
    <2>8. ASSUME NEW c \in Connections
          PROVE  /\ c \notin opened => records'[c] = None
                 /\ records'[c] # None /\ live[c] # None =>
                       records'[c].user \in {None, live[c].user}
      BY <2>6, <2>7 DEF Identities
    <2> QED BY <2>3, <2>4, <2>5, <2>8 DEF Identities
  <1>6. CASE UNCHANGED vars
    BY <1>6 DEF vars, Identities, Held, Seen
  <1> QED BY <1>1, <1>2, <1>3, <1>4, <1>5, <1>6 DEF Next

(* A connection keeps its user in every behaviour.                           *)
LEMMA IdentitiesInvariant == Spec => []Identities
  <1>1. Init => Identities
    BY DEF Init, Identities, Held
  <1> QED BY <1>1, Typing, IdentitiesStep, PTL DEF Spec

-------------------------------------------------------------------------------
(* Among the devices of a user above the limit, the refused one included,    *)
(* there are more than the limit allows; all were connected at the fetch.    *)
LEMMA RefusedAboveLimit ==
    ASSUME TypeOK, Identities, fetched # None, NEW recs, Written(recs),
           NEW u \in Users, NEW c \in Connections,
           Present(recs[c], u), recs[c].address \in Refused(u, recs)
    PROVE  /\ c \in Seen /\ fetched[c].user = u
           /\ Cardinality({fetched[d].address : d \in {e \in Seen : fetched[e].user = u}})
                > DeviceLimit[u]
  <1> DEFINE addresses == {fetched[d].address : d \in {e \in Seen : fetched[e].user = u}}
             a == recs[c].address
             ahead == {b \in Active(u, recs) : Before(u, recs, b, a)}
  <1>1. ASSUME NEW d \in Connections, Present(recs[d], u)
        PROVE  d \in Seen /\ fetched[d].user = u /\ recs[d].address = fetched[d].address
    <2>1. recs[d] # None /\ recs[d].user = u /\ recs[d].missed = 0
      BY <1>1 DEF Present
    <2>2. ASSUME d \notin Seen PROVE FALSE
      <3>1. d \in Known /\ recs[d].missed = records[d].missed + 1
        BY <2>1, <2>2 DEF Written
      <3>2. records[d].missed \in 0..Window
        BY <3>1, PreviousType DEF ConnectionRecord
      <3> QED BY <2>1, <3>1, <3>2, PollAssumption
    <2>3. recs[d].user \in {None, fetched[d].user}
      BY <2>2, WrittenUser
    <2>4. u # None
      BY PollAssumption
    <2> QED BY <2>1, <2>2, <2>3, <2>4 DEF Written
  <1>2. Active(u, recs) \subseteq addresses
    BY <1>1 DEF Active, Mine
  <1>3. addresses \subseteq Addresses
    <2>1. ASSUME NEW d \in Seen PROVE fetched[d].address \in Addresses
      BY DEF Seen, TypeOK, Connection
    <2> QED BY <2>1
  <1>4. IsFiniteSet(addresses)
    BY <1>3, PollAssumption, FS_Subset
  <1>5. a \in Active(u, recs)
    BY DEF Refused
  <1>6. ~ Before(u, recs, a, a)
    <2>1. recs \in [Connections -> ConnectionRecord \union {None}]
      BY DEF Written
    <2>2. FirstSeen(u, a) \in Nat
      BY <2>1, <1>3, <1>2, <1>5, SessionType
    <2>3. ASSUME NEW d \in Mine(u, recs) PROVE ~ (recs[d].place < recs[d].place)
      <3>1. recs[d] \in ConnectionRecord
        BY <2>1 DEF Mine, Present
      <3> QED BY <3>1 DEF ConnectionRecord
    <2> QED BY <2>2, <2>3 DEF Before
  <1> HIDE DEF addresses, a
  <1>7. ahead \union {a} \in SUBSET addresses /\ a \notin ahead /\ ahead \in SUBSET addresses
    BY <1>2, <1>5, <1>6
  <1>8. Cardinality(ahead) >= DeviceLimit[u] /\ DeviceLimit[u] \in Nat
    BY PollAssumption DEF Refused, a
  <1> HIDE DEF ahead
  <1>9. IsFiniteSet(ahead)
    BY <1>4, <1>7, FS_Subset
  <1>10. Cardinality(ahead \union {a}) = Cardinality(ahead) + 1 /\ IsFiniteSet(ahead \union {a})
    BY <1>7, <1>9, FS_AddElement
  <1>11. Cardinality(ahead \union {a}) <= Cardinality(addresses)
    BY <1>4, <1>7, FS_Subset
  <1>12. Cardinality(ahead) \in Nat /\ Cardinality(addresses) \in Nat
    BY <1>4, <1>9, FS_CardinalityType
  <1>13. Cardinality(addresses) > DeviceLimit[u]
    BY <1>8, <1>10, <1>11, <1>12
  <1> QED BY <1>1, <1>13 DEF addresses

(* connections_to_close names only connections of users that had more        *)
(* addresses connected at the fetch than device_limit allows, for every      *)
(* limit.                                                                    *)
THEOREM LimitSparesOthers == Spec => WithinLimitUntouched
  <1> DEFINE Spared ==
          fetched # None /\ fetched' = None =>
              \A c \in Connections :
                  live[c] # None /\ live'[c] = None =>
                      Cardinality({fetched[d].address : d \in
                          {e \in Seen : fetched[e].user = live[c].user}})
                        > DeviceLimit[live[c].user]
  <1>1. ASSUME TypeOK, Identities, [Next]_vars PROVE Spared
    <2> USE <1>1
    <2> SUFFICES ASSUME fetched # None, fetched' = None, NEW c \in Connections,
                        live[c] # None, live'[c] = None
                 PROVE  Cardinality({fetched[d].address : d \in
                            {e \in Seen : fetched[e].user = live[c].user}})
                          > DeviceLimit[live[c].user]
      OBVIOUS
    <2>1. Accounts
      BY DEF Next, vars, Open, Carry, Restart, Close, ResetUserTraffic, Fetch, Outside
    <2>2. PICK recs \in [Connections -> ConnectionRecord \union {None}] :
              Written(recs) /\ Account(recs)
      BY <2>1, AccountsStep
    <2>3. c \in ToClose(recs)
      BY <2>2 DEF Account
    <2>4. PICK u \in Users : Present(recs[c], u) /\ recs[c].address \in Refused(u, recs)
      BY <2>3 DEF ToClose
    <2>5. c \in Seen /\ fetched[c].user = u
      BY <2>2, <2>4, RefusedAboveLimit
    <2>6. live[c].user = u
      BY <2>5 DEF Identities, Held
    <2> QED BY <2>2, <2>4, <2>6, RefusedAboveLimit
  <1> QED BY <1>1, Typing, IdentitiesInvariant, PTL DEF Spec, WithinLimitUntouched

-------------------------------------------------------------------------------
(* While a user's devices fit the cap, a device that is here or left no      *)
(* longer than the TTL ago keeps its first_seen through update_sessions.     *)
THEOREM RankKept == Spec => RankSurvivesReconnect
  <1> DEFINE Sessions(u) == {b \in Addresses : sessions[u][b] # None \/ sessions'[u][b] # None}
             Survives ==
          lastPoll' # lastPoll =>
              \A u \in Users :
                  Cardinality(Sessions(u)) <= MaxSessions =>
                  \A a \in Addresses :
                      sessions[u][a] # None /\ now - sessions[u][a].last <= TTL =>
                          sessions'[u][a] # None /\ sessions'[u][a].first = sessions[u][a].first
  <1>1. ASSUME TypeOK, [Next]_vars PROVE Survives
    <2> USE <1>1
    <2> SUFFICES ASSUME lastPoll' # lastPoll, NEW u \in Users,
                        Cardinality(Sessions(u)) <= MaxSessions, NEW a \in Addresses,
                        sessions[u][a] # None, now - sessions[u][a].last <= TTL
                 PROVE  sessions'[u][a] # None /\ sessions'[u][a].first = sessions[u][a].first
      OBVIOUS
    <2>1. Accounts
      BY DEF Next, vars, stored, Open, Carry, Restart, Close, ResetUserTraffic, Fetch, Outside
    <2>2. PICK recs \in [Connections -> ConnectionRecord \union {None}] :
              Written(recs) /\ Account(recs)
      BY <2>1, AccountsStep
    <2>3. PICK kept \in [Users -> SUBSET Addresses] :
              /\ \A w \in Users : Retained(w, recs, kept[w])
              /\ sessions' = [w \in Users |-> [b \in Addresses |->
                                IF b \in kept[w] THEN Session(w, recs, b) ELSE None]]
      BY <2>2 DEF Account, stored
    <2> DEFINE all == Remembered(u, recs)
               known == Sessions(u)
    <2>4. a \in all
      BY DEF Remembered
    <2>5. Retained(u, recs, kept[u]) /\ kept[u] \subseteq all
      BY <2>3 DEF Retained
    <2>6. ASSUME NEW b \in kept[u]
          PROVE  /\ b \in all /\ b \in Addresses
                 /\ sessions'[u][b] = Session(u, recs, b)
                 /\ sessions'[u][b] # None
      <3>1. Session(u, recs, b) \in DeviceSession
        BY <2>5, SessionType
      <3> QED BY <2>3, <2>5, <3>1, SentinelAssumption
    <2>7. a \in kept[u]
      <3> SUFFICES ASSUME a \notin kept[u] PROVE FALSE
        OBVIOUS
      <3>1. Cardinality(kept[u]) = MaxSessions
        BY <2>4, <2>5 DEF Retained
      <3>2. kept[u] \union {a} \in SUBSET known
        BY <2>6
      <3>3. IsFiniteSet(kept[u]) /\ IsFiniteSet(known)
        BY PollAssumption, FS_Subset
      <3> HIDE DEF known
      <3>4. Cardinality(kept[u] \union {a}) = Cardinality(kept[u]) + 1
        BY <3>3, FS_AddElement
      <3>5. Cardinality(kept[u] \union {a}) <= Cardinality(known)
        BY <3>2, <3>3, FS_Subset
      <3>6. Cardinality(known) \in Nat
        BY <3>3, FS_CardinalityType
      <3>7. Cardinality(known) <= MaxSessions
        BY DEF known
      <3> QED BY <3>1, <3>4, <3>5, <3>6, <3>7, PollAssumption
    <2>8. Session(u, recs, a).first = sessions[u][a].first
      BY DEF Session, FirstSeen
    <2> QED BY <2>6, <2>7, <2>8
  <1> QED BY <1>1, Typing, PTL DEF Spec, RankSurvivesReconnect

-------------------------------------------------------------------------------
(* Every accounting leaves the credit of a counter full or empty.            *)
LEMMA CreditedStep == TypeOK /\ CreditedInFull /\ [Next]_vars => CreditedInFull'
  <1> SUFFICES ASSUME TypeOK, CreditedInFull, [Next]_vars PROVE CreditedInFull'
    OBVIOUS
  <1>1. CASE UNCHANGED records
    BY <1>1 DEF CreditedInFull, Known
  <1>2. ASSUME fetched # None, NEW recs, Written(recs), records' = recs
        PROVE  CreditedInFull'
    <2> USE <1>2
    <2> SUFFICES ASSUME NEW c \in Connections, recs[c] # None
                 PROVE  recs[c].credited = IF recs[c].user = None THEN 0 ELSE recs[c].total
      BY DEF CreditedInFull, Known
    <2>1. CASE c \in Seen
      <3> DEFINE user == recs[c].user
      <3>1. /\ fetched[c].bytes \in Nat
            /\ Credited(c) \in 0..fetched[c].bytes
            /\ Credited(c) <= Previous(c).credited
            /\ Delta(c, user) = IF user # None THEN fetched[c].bytes - Credited(c) ELSE 0
        BY <2>1, DeltaType DEF Connection
      <3>2. /\ recs[c].total = fetched[c].bytes
            /\ recs[c].credited = IF Delta(c, user) > 0 THEN fetched[c].bytes ELSE Credited(c)
            /\ user \in {Previous(c).user, fetched[c].user}
            /\ fetched[c].user # None
        <4>1. fetched[c].user # None
          BY <2>1, DeltaType, PollAssumption DEF Connection
        <4> QED BY <2>1, <4>1 DEF Written
      <3>3. Previous(c).user = None => Previous(c).credited = 0
        BY DEF CreditedInFull, Previous, NoRecord
      <3>4. user = None => Credited(c) = 0
        BY <3>1, <3>2, <3>3, PreviousType
      <3> HIDE DEF user
      <3>5. recs[c].credited = IF user = None THEN 0 ELSE recs[c].total
        BY <3>1, <3>2, <3>4
      <3> QED BY <3>5 DEF user
    <2>2. CASE c \notin Seen
      <3>1. /\ c \in Known /\ recs[c].user = records[c].user
            /\ recs[c].total = records[c].total /\ recs[c].credited = records[c].credited
        BY <2>2 DEF Written
      <3> QED BY <3>1 DEF CreditedInFull
    <2> QED BY <2>1, <2>2
  <1>3. UNCHANGED records \/ Accounts
    BY DEF Next, vars, stored, Open, Carry, Restart, Close, ResetUserTraffic, Fetch, Outside
  <1>4. ASSUME Accounts PROVE CreditedInFull'
    <2>1. fetched # None /\ \E recs \in [Connections -> ConnectionRecord \union {None}] :
                               Written(recs) /\ Account(recs)
      BY <1>4, AccountsStep
    <2> QED BY <1>1, <1>2, <2>1 DEF Account, stored
  <1> QED BY <1>1, <1>3, <1>4

(* The credit of a counter is full or empty in every behaviour.              *)
LEMMA CreditedInvariant == Spec => []CreditedInFull
  <1>1. Init => CreditedInFull
    BY DEF Init, CreditedInFull, Known
  <1> QED BY <1>1, Typing, CreditedStep, PTL DEF Spec

-------------------------------------------------------------------------------
(* Sums under a bound, of either side, argument by argument.                 *)
LEMMA TotalBound ==
    ASSUME NEW S, IsFiniteSet(S), NEW f \in [S -> Nat], NEW g \in [S -> Nat], NEW h \in [S -> Nat]
    PROVE  /\ Total(f) \in Nat /\ Total(g) \in Nat /\ Total(h) \in Nat
           /\ (\A c \in S : f[c] <= g[c] + h[c]) => Total(f) <= Total(g) + Total(h)
           /\ (\A c \in S : g[c] + h[c] <= f[c]) => Total(g) + Total(h) <= Total(f)
  <1> DEFINE sum == [c \in S |-> g[c] + h[c]]
  <1>1. sum \in [S -> Nat] /\ \A c \in S : sum[c] = g[c] + h[c]
    OBVIOUS
  <1> HIDE DEF sum
  <1>2. Total(sum) = Total(g) + Total(h)
    BY <1>1, TotalPlus
  <1>3. (\A c \in S : f[c] <= sum[c]) => Total(f) <= Total(sum)
    BY <1>1, TotalMonotone
  <1>4. (\A c \in S : sum[c] <= f[c]) => Total(sum) <= Total(f)
    BY <1>1, TotalMonotone
  <1> QED BY <1>1, <1>2, <1>3, <1>4, TotalIsNatural

\* What one poll bills a user, and what the records attribute to it, per connection.
Charged(u, recs) ==
    [c \in Connections |-> IF c \in Seen /\ recs[c].user = u THEN Delta(c, u) ELSE 0]
Attributed(r, u) ==
    [c \in Connections |-> IF r[c] # None /\ r[c].user = u THEN r[c].total ELSE 0]

(* A poll adds to the bill what it charges for every connection.             *)
LEMMA BilledIsCharged ==
    ASSUME TypeOK, fetched # None, NEW u \in Users, NEW recs
    PROVE  /\ Charged(u, recs) \in [Connections -> Nat]
           /\ Billed(u, recs) = used[u] + Total(Charged(u, recs))
  <1> DEFINE mine == {d \in Seen : recs[d].user = u}
             delta == [c \in mine |-> Delta(c, u)]
  <1>1. \A c \in mine : Delta(c, u) \in Nat
    BY DeltaType
  <1>2. delta \in [mine -> Nat] /\ mine \in SUBSET Connections
    BY <1>1 DEF Seen
  <1>3. Charged(u, recs) = [c \in Connections |-> IF c \in mine THEN delta[c] ELSE 0]
    BY DEF Charged
  <1>4. Charged(u, recs) \in [Connections -> Nat]
    BY <1>1 DEF Charged
  <1>5. Billed(u, recs) = used[u] + Total(delta)
    BY DEF Billed
  <1> HIDE DEF delta, mine
  <1>6. Total(delta) = Total([c \in Connections |-> IF c \in mine THEN delta[c] ELSE 0])
    BY <1>2, TotalPart
  <1> QED BY <1>3, <1>4, <1>5, <1>6

(* What the records attribute to a user, summed over all connections.        *)
LEMMA AttributedTotal ==
    ASSUME TypeOK, NEW u \in Users
    PROVE  /\ Attributed(records, u) \in [Connections -> Nat]
           /\ Total([c \in {d \in Known : records[d].user = u} |-> records[c].total]) =
                  Total(Attributed(records, u))
  <1> DEFINE mine == {d \in Known : records[d].user = u}
             totals == [c \in mine |-> records[c].total]
  <1>1. \A c \in Known : records[c].total \in Nat
    BY DEF TypeOK, Known, ConnectionRecord
  <1>2. totals \in [mine -> Nat] /\ mine \in SUBSET Connections
    BY <1>1 DEF Known
  <1>3. Attributed(records, u) = [c \in Connections |-> IF c \in mine THEN totals[c] ELSE 0]
    BY DEF Attributed, Known
  <1>4. Attributed(records, u) \in [Connections -> Nat]
    BY <1>1 DEF Attributed, Known
  <1> HIDE DEF totals, mine
  <1>5. Total(totals) = Total([c \in Connections |-> IF c \in mine THEN totals[c] ELSE 0])
    BY <1>2, TotalPart
  <1> QED BY <1>3, <1>4, <1>5 DEF totals, mine

(* A poll charges at least what it newly attributes.                         *)
LEMMA ChargedEnough ==
    ASSUME TypeOK, fetched # None, NEW recs, Written(recs), CreditedInFull, Identities,
           NEW u \in Users, NEW c \in Connections
    PROVE  Attributed(recs, u)[c] <= Attributed(records, u)[c] + Charged(u, recs)[c]
  <1>1. Attributed(records, u)[c] \in Nat /\ Charged(u, recs)[c] \in Nat
    BY AttributedTotal, BilledIsCharged
  <1>2. SUFFICES ASSUME recs[c] # None, recs[c].user = u
                 PROVE  recs[c].total <= Attributed(records, u)[c] + Charged(u, recs)[c]
    BY <1>1 DEF Attributed
  <1>3. u # None
    BY PollAssumption
  <1>4. CASE c \in Seen
    <2>1. /\ fetched[c].bytes \in Nat
          /\ Credited(c) \in 0..fetched[c].bytes
          /\ Credited(c) <= Previous(c).credited
          /\ Delta(c, u) = fetched[c].bytes - Credited(c)
      BY <1>3, <1>4, DeltaType DEF Connection
    <2>2. recs[c].total = fetched[c].bytes /\ recs[c].user \in {Previous(c).user, fetched[c].user}
      BY <1>4 DEF Written
    <2>3. Charged(u, recs)[c] = Delta(c, u)
      BY <1>2, <1>4 DEF Charged
    <2>4. Previous(c).credited <= Attributed(records, u)[c]
      <3>1. CASE c \notin Known \/ Previous(c).user = None
        BY <1>1, <3>1 DEF Previous, NoRecord, CreditedInFull
      <3>2. CASE c \in Known /\ Previous(c).user = u
        BY <1>1, <1>3, <3>2 DEF Previous, CreditedInFull, Attributed, Known
      <3>3. Previous(c).user \in {None, u}
        <4>1. c \in Held
          BY <1>4 DEF Held
        <4>2. Previous(c).user \in {None, fetched[c].user}
          BY <4>1 DEF Identities, Previous, Known, NoRecord
        <4>3. fetched[c].user # None
          BY <1>4, DeltaType, PollAssumption DEF Connection
        <4> QED BY <1>2, <1>3, <2>2, <4>2, <4>3
      <3> QED BY <3>1, <3>2, <3>3
    <2>5. Previous(c).credited \in Nat
      BY PreviousType
    <2> QED BY <1>1, <2>1, <2>2, <2>3, <2>4, <2>5
  <1>5. CASE c \notin Seen
    <2>1. c \in Known /\ recs[c].user = records[c].user /\ recs[c].total = records[c].total
      BY <1>2, <1>5 DEF Written
    <2>2. Attributed(records, u)[c] = recs[c].total
      BY <1>2, <2>1 DEF Attributed, Known
    <2> QED BY <1>1, <2>2
  <1> QED BY <1>4, <1>5

(* The bytes of every connection whose user is known have been billed in     *)
(* full, those before the journal named the user included.                   *)
THEOREM KnownBytesBilled == Spec => []AttributedBytesBilled
  <1> DEFINE Enough == \A u \in Users :
                 used[u] + settled[u] >= Total(Attributed(records, u))
             Strong == TypeOK /\ Identities /\ CreditedInFull
  <1>1. Init => Enough
    <2> SUFFICES ASSUME Init, NEW u \in Users
                 PROVE  used[u] + settled[u] >= Total(Attributed(records, u))
      OBVIOUS
    <2>1. /\ Attributed(records, u) \in [Connections -> Nat]
          /\ \A c \in Connections : Attributed(records, u)[c] = 0
      BY DEF Init, Attributed
    <2>2. Total(Attributed(records, u)) = 0
      BY <2>1, TotalZero
    <2> QED BY <2>2 DEF Init
  <1>2. ASSUME Strong, Enough, [Next]_vars PROVE Enough'
    <2> USE <1>2
    <2> SUFFICES ASSUME NEW u \in Users
                 PROVE  used'[u] + settled'[u] >= Total(Attributed(records', u))
      OBVIOUS
    <2>1. used[u] + settled[u] >= Total(Attributed(records, u))
      OBVIOUS
    <2>2. used[u] \in Nat /\ settled[u] \in Nat
      BY DEF TypeOK
    <2>3. CASE UNCHANGED <<used, settled, records>>
      BY <2>1, <2>3
    <2>4. ASSUME NEW w \in Users, ResetUserTraffic(w)
          PROVE  UNCHANGED records /\ used'[u] + settled'[u] = used[u] + settled[u]
      BY <2>2, <2>4 DEF ResetUserTraffic, Outside, TypeOK
    <2>5. ASSUME fetched # None, NEW recs, Written(recs), records' = recs, UNCHANGED settled,
                 used' = [w \in Users |-> Billed(w, recs)]
          PROVE  used'[u] + settled'[u] >= Total(Attributed(records', u))
      <3>1. \A c \in Connections :
                Attributed(recs, u)[c] <= Attributed(records, u)[c] + Charged(u, recs)[c]
        BY <2>5, ChargedEnough
      <3>2. \A c \in Connections : recs[c] # None => recs[c].total \in Nat
        BY <2>5 DEF Written, ConnectionRecord
      <3>3. Attributed(recs, u) \in [Connections -> Nat]
        BY <3>2 DEF Attributed
      <3>4. Attributed(records, u) \in [Connections -> Nat]
        BY AttributedTotal
      <3>5. /\ Charged(u, recs) \in [Connections -> Nat]
            /\ Billed(u, recs) = used[u] + Total(Charged(u, recs))
        BY <2>5, BilledIsCharged
      <3>6. /\ Total(Attributed(recs, u)) <=
                   Total(Attributed(records, u)) + Total(Charged(u, recs))
            /\ Total(Attributed(recs, u)) \in Nat /\ Total(Charged(u, recs)) \in Nat
            /\ Total(Attributed(records, u)) \in Nat
        BY <3>1, <3>3, <3>4, <3>5, TotalBound, PollAssumption
      <3>7. used'[u] = used[u] + Total(Charged(u, recs)) /\ settled'[u] = settled[u]
        BY <2>5, <3>5
      <3> QED BY <2>1, <2>2, <2>5, <3>6, <3>7
    <2>6. \/ UNCHANGED <<used, settled, records>>
          \/ \E w \in Users : ResetUserTraffic(w)
          \/ Accounts
      BY DEF Next, vars, history, stored, Open, Carry, Restart, Close, Fetch, Outside
    <2>7. ASSUME Accounts
          PROVE  \/ UNCHANGED <<used, settled, records>>
                 \/ \E recs \in [Connections -> ConnectionRecord \union {None}] :
                       /\ fetched # None /\ Written(recs) /\ records' = recs
                       /\ UNCHANGED settled /\ used' = [w \in Users |-> Billed(w, recs)]
      <3>1. fetched # None /\ \E recs \in [Connections -> ConnectionRecord \union {None}] :
                                 Written(recs) /\ Account(recs)
        BY <2>7, AccountsStep
      <3> QED BY <3>1 DEF Account, stored
    <2>8. CASE \E w \in Users : ResetUserTraffic(w)
      <3>1. UNCHANGED records /\ used'[u] + settled'[u] = used[u] + settled[u]
        BY <2>4, <2>8
      <3> QED BY <2>1, <3>1
    <2> QED BY <2>3, <2>5, <2>6, <2>7, <2>8
  <1>3. TypeOK /\ Enough => AttributedBytesBilled
    BY AttributedTotal DEF AttributedBytesBilled
  <1> QED BY <1>1, <1>2, <1>3, Typing, IdentitiesInvariant, CreditedInvariant, PTL DEF Spec

-------------------------------------------------------------------------------
(* A counter that moves by a byte moves its bill by no more.                 *)
LEMMA OwingFacts ==
    ASSUME NEW b \in Nat, NEW record, record.total \in Nat, record.credited \in 0..record.total
    PROVE  /\ Owing(b, record) \in Nat
           /\ Owing(b + 1, record) <= Owing(b, record) + 1
           /\ Owing(0, record) = 0
  BY DEF Owing

(* What can be billed of a live connection is a natural number.              *)
LEMMA UnbilledFacts ==
    ASSUME TypeOK, NEW c \in Connections, NEW record,
           record.total \in Nat, record.credited \in 0..record.total
    PROVE  /\ Unbilled(live, c, record) \in Nat
           /\ live[c] = None => Unbilled(live, c, record) = 0
           /\ live[c] # None => /\ live[c].bytes \in Nat
                                /\ Unbilled(live, c, record) = Owing(live[c].bytes, record)
  <1>1. live[c] # None => live[c].bytes \in Nat
    BY DEF TypeOK, Connection
  <1> QED BY <1>1, OwingFacts DEF Unbilled

(* The record a connection is billed against.                                *)
LEMMA ReckonedType ==
    ASSUME TypeOK, NEW c \in Connections
    PROVE  /\ Reckoned(records, c) = Previous(c)
           /\ Reckoned(records, c).total \in Nat
           /\ Reckoned(records, c).credited \in 0..Reckoned(records, c).total
  <1>1. Reckoned(records, c) = Previous(c)
    BY DEF Reckoned, Previous, Known
  <1> QED BY <1>1, PreviousType

(* A record that has just been credited in full.                             *)
LEMMA CountedType ==
    ASSUME NEW b \in Nat
    PROVE  /\ Counted(b).total = b /\ Counted(b).credited = b
           /\ Counted(b).total \in Nat /\ Counted(b).credited \in 0..Counted(b).total
  BY DEF Counted

\* What user u owes, and the two ways the snapshot may go.
LEMMA OwedCases ==
    ASSUME TypeOK, Identities, NEW u \in Users, NEW c \in Connections
    PROVE  LET owed == Owed(live, Held, fetched, records, u)[c]
               lost == Unbilled(live, c, Reckoned(records, c))
               polled == Polled(live, fetched, records, c)
           IN  /\ owed \in Nat /\ lost \in Nat
               /\ c \in Held => fetched[c] \in Connection /\ polled \in Nat
               /\ c \in Held /\ fetched[c].user = u =>
                     owed >= lost /\ owed >= polled /\ owed \in {lost, polled}
               /\ c \in Held /\ fetched[c].user # u => owed = 0
               /\ c \notin Held =>
                     owed = IF live[c] # None /\ live[c].user = u THEN lost ELSE 0
               /\ live[c] # None /\ live[c].user = u => owed >= lost
               /\ live[c] # None /\ live[c].user # u => owed = 0
  <1> DEFINE owed == Owed(live, Held, fetched, records, u)[c]
             lost == Unbilled(live, c, Reckoned(records, c))
             polled == Polled(live, fetched, records, c)
  <1>1. lost \in Nat
    BY ReckonedType, UnbilledFacts
  <1>2. ASSUME c \in Held PROVE fetched[c] \in Connection /\ polled \in Nat
    <2>1. fetched[c] \in Connection
      BY <1>2 DEF Held, Seen, TypeOK
    <2>2. fetched[c].bytes \in Nat
      BY <2>1 DEF Connection
    <2>3. Owing(fetched[c].bytes, Reckoned(records, c)) \in Nat
      BY <2>2, ReckonedType, OwingFacts
    <2>4. Unbilled(live, c, Counted(fetched[c].bytes)) \in Nat
      BY <2>2, CountedType, UnbilledFacts
    <2> QED BY <2>1, <2>3, <2>4 DEF Polled
  <1>3. owed = IF c \in Held /\ fetched[c].user = u THEN Larger(lost, polled)
               ELSE IF live[c] # None /\ live[c].user = u THEN lost ELSE 0
    BY DEF Owed
  <1>4. c \in Held /\ live[c] # None => live[c].user = fetched[c].user
    BY DEF Identities
  <1> HIDE DEF owed, lost, polled
  <1>5. ASSUME c \in Held, fetched[c].user = u
        PROVE  owed >= lost /\ owed >= polled /\ owed \in {lost, polled}
    BY <1>1, <1>2, <1>3, <1>5 DEF Larger
  <1>6. ~(c \in Held /\ fetched[c].user = u) =>
            owed = IF live[c] # None /\ live[c].user = u THEN lost ELSE 0
    BY <1>3
  <1>7. owed \in Nat
    BY <1>1, <1>2, <1>5, <1>6
  <1>8. c \in Held /\ fetched[c].user # u => owed = 0
    BY <1>4, <1>6
  <1>9. live[c] # None /\ live[c].user = u => owed >= lost
    BY <1>1, <1>5, <1>6
  <1>10. live[c] # None /\ live[c].user # u => owed = 0
    BY <1>4, <1>6
  <1> QED BY <1>1, <1>2, <1>5, <1>6, <1>7, <1>8, <1>9, <1>10 DEF owed, lost, polled

-------------------------------------------------------------------------------
\* A step that owes user u no more.
Owes(u) == Owed(live, Held, fetched, records, u)

(* A new connection owes nothing.                                            *)
LEMMA OpenOwes ==
    ASSUME TypeOK, Identities, NEW d \in Connections, NEW w \in Users, NEW a \in Addresses,
           Open(d, w, a), NEW u \in Users, NEW c \in Connections
    PROVE  Owes(u)'[c] <= Owes(u)[c]
  <1>1. UNCHANGED <<fetched, records>> /\ d \notin opened
    BY DEF Open, Outside
  <1>2. Held' = Held
    BY <1>1 DEF Held, Seen
  <1>3. Owes(u)[c] \in Nat
    BY OwedCases DEF Owes
  <1>4. CASE c # d
    <2>1. live'[c] = live[c]
      BY <1>4 DEF Open, TypeOK
    <2>2. Owes(u)'[c] = Owes(u)[c]
      BY <1>1, <1>2, <2>1 DEF Owes, Owed, Unbilled, Polled
    <2> QED BY <1>3, <2>2
  <1>5. CASE c = d
    <2>1. c \notin Held /\ records[c] = None
      BY <1>1, <1>5 DEF Identities
    <2>2. live'[c] = [user |-> w, address |-> a, bytes |-> 0]
      BY <1>5 DEF Open, TypeOK
    <2>3. live'[c].bytes = 0
      BY <2>2
    <2>4. Reckoned(records, c) = NoRecord /\ NoRecord.total = 0 /\ NoRecord.credited = 0
      BY <2>1 DEF Reckoned, NoRecord
    <2>5. Unbilled(live', c, Reckoned(records, c)) = 0
      BY <2>3, <2>4 DEF Unbilled, Owing
    <2>6. Owes(u)'[c] = 0
      BY <1>1, <1>2, <2>1, <2>5 DEF Owes, Owed
    <2> QED BY <1>3, <2>6
  <1> QED BY <1>4, <1>5

(* A connection whose counter goes to bytes: what can be billed of it grows  *)
(* by no more than the counter.                                              *)
LEMMA CounterOwes ==
    ASSUME TypeOK, Identities, NEW d \in Connections, live[d] # None,
           UNCHANGED <<fetched, records>>,
           NEW more \in 0..1,
           \/ live' = [live EXCEPT ![d] = None]
           \/ live' = [live EXCEPT ![d].bytes = 0]
           \/ live' = [live EXCEPT ![d].bytes = @ + 1] /\ more = 1,
           NEW u \in Users, NEW c \in Connections
    PROVE  Owes(u)'[c] <= Owes(u)[c] + (IF c = d /\ live[d].user = u THEN more ELSE 0)
  <1>1. Held' = Held
    BY DEF Held, Seen
  <1>2. Owes(u)[c] \in Nat
    BY OwedCases DEF Owes
  <1>3. CASE c # d
    <2>1. live'[c] = live[c]
      BY <1>3 DEF TypeOK
    <2>2. Owes(u)'[c] = Owes(u)[c]
      BY <1>1, <2>1 DEF Owes, Owed, Unbilled, Polled
    <2> QED BY <1>2, <1>3, <2>2
  <1>4. CASE c = d
    <2>1. live[c] \in Connection /\ live[c].bytes \in Nat
      BY <1>4 DEF TypeOK, Connection
    <2>2. \/ live'[c] = None
          \/ /\ live'[c] # None /\ live'[c].user = live[c].user
             /\ \/ live'[c].bytes = 0
                \/ live'[c].bytes = live[c].bytes + 1 /\ more = 1
      <3> DEFINE zero == [live[c] EXCEPT !.bytes = 0]
                 next == [live[c] EXCEPT !.bytes = @ + 1]
      <3>1. zero \in Connection /\ zero.bytes = 0 /\ zero.user = live[c].user
        BY <2>1 DEF Connection
      <3>2. next \in Connection /\ next.bytes = live[c].bytes + 1 /\ next.user = live[c].user
        BY <2>1 DEF Connection
      <3>3. \/ live'[c] = None
            \/ live'[c] = zero
            \/ live'[c] = next /\ more = 1
        BY <1>4 DEF TypeOK
      <3> HIDE DEF zero, next
      <3> QED BY <3>1, <3>2, <3>3, SentinelAssumption
    <2>3. ASSUME NEW record, record.total \in Nat, record.credited \in 0..record.total
          PROVE  /\ Unbilled(live', c, record) \in Nat
                 /\ Unbilled(live', c, record) <= Unbilled(live, c, record) + more
      <3>1. Unbilled(live, c, record) = Owing(live[c].bytes, record)
        BY <1>4 DEF Unbilled
      <3>2. \/ Unbilled(live', c, record) = 0
            \/ Unbilled(live', c, record) = Owing(0, record)
            \/ Unbilled(live', c, record) = Owing(live[c].bytes + 1, record) /\ more = 1
        BY <2>2 DEF Unbilled
      <3>3. /\ Owing(live[c].bytes, record) \in Nat /\ Owing(live[c].bytes + 1, record) \in Nat
            /\ Owing(live[c].bytes + 1, record) <= Owing(live[c].bytes, record) + 1
            /\ Owing(0, record) = 0
        <4>1. live[c].bytes + 1 \in Nat
          BY <2>1
        <4>2. Owing(live[c].bytes + 1, record) \in Nat
          BY <4>1, <2>3, OwingFacts
        <4> QED BY <2>1, <2>3, <4>2, OwingFacts
      <3> QED BY <3>1, <3>2, <3>3
    <2> DEFINE lost(l) == Unbilled(l, c, Reckoned(records, c))
               polled(l) == Polled(l, fetched, records, c)
    <2>4. lost(live') \in Nat /\ lost(live') <= lost(live) + more /\ lost(live) \in Nat
      BY <2>3, ReckonedType, UnbilledFacts
    <2>5. ASSUME c \in Held
          PROVE  polled(live') <= polled(live) + more /\ polled(live) \in Nat
                 /\ polled(live') \in Nat
      <3>1. fetched[c].bytes \in Nat
        BY <2>5, OwedCases DEF Connection
      <3>2. Owing(fetched[c].bytes, Reckoned(records, c)) \in Nat
        BY <3>1, ReckonedType, OwingFacts
      <3>3. /\ Unbilled(live', c, Counted(fetched[c].bytes)) \in Nat
            /\ Unbilled(live', c, Counted(fetched[c].bytes))
                 <= Unbilled(live, c, Counted(fetched[c].bytes)) + more
            /\ Unbilled(live, c, Counted(fetched[c].bytes)) \in Nat
        BY <2>3, <3>1, CountedType, UnbilledFacts
      <3> QED BY <3>2, <3>3 DEF Polled
    <2>6. c \in Held => fetched[c].user = live[c].user
      BY <1>4 DEF Identities
    <2>7. Owes(u)'[c] = IF c \in Held /\ fetched[c].user = u THEN Larger(lost(live'), polled(live'))
                        ELSE IF live'[c] # None /\ live'[c].user = u THEN lost(live') ELSE 0
      BY <1>1 DEF Owes, Owed
    <2>8. Owes(u)[c] = IF c \in Held /\ fetched[c].user = u THEN Larger(lost(live), polled(live))
                       ELSE IF live[c] # None /\ live[c].user = u THEN lost(live) ELSE 0
      BY DEF Owes, Owed
    <2> HIDE DEF lost, polled
    <2>9. CASE live[c].user = u
      <3>1. CASE c \in Held
        BY <1>4, <2>4, <2>5, <2>6, <2>7, <2>8, <2>9, <3>1 DEF Larger
      <3>2. CASE c \notin Held
        BY <1>4, <2>2, <2>4, <2>7, <2>8, <2>9, <3>2
      <3> QED BY <3>1, <3>2
    <2>10. CASE live[c].user # u
      <3>1. Owes(u)'[c] = 0
        BY <2>2, <2>6, <2>7, <2>10
      <3> QED BY <1>2, <1>4, <2>10, <3>1
    <2> QED BY <2>9, <2>10
  <1> QED BY <1>3, <1>4

-------------------------------------------------------------------------------
(* A snapshot owes what the connection it shows owes.                        *)
LEMMA FetchOwes ==
    ASSUME TypeOK, Identities, Fetch, NEW u \in Users, NEW c \in Connections
    PROVE  Owes(u)'[c] <= Owes(u)[c]
  <1>1. fetched = None /\ UNCHANGED <<live, records>>
    BY DEF Fetch, stored
  <1>2. Held = {}
    BY <1>1 DEF Held
  <1> DEFINE lost == Unbilled(live, c, Reckoned(records, c))
             polled == Polled(live, fetched', records, c)
  <1>3. Owes(u)[c] = (IF live[c] # None /\ live[c].user = u THEN lost ELSE 0) /\ lost \in Nat
    BY <1>2, OwedCases DEF Owes
  <1>4. Owes(u)'[c] = IF c \in Held' /\ fetched'[c].user = u THEN Larger(lost, polled)
                      ELSE IF live[c] # None /\ live[c].user = u THEN lost ELSE 0
    BY <1>1 DEF Owes, Owed
  <1>5. ASSUME c \in Held' PROVE live[c] # None /\ fetched'[c] = live[c] /\ polled = lost
    <2>1. live[c] # None /\ fetched'[c] = live[c]
      BY <1>5 DEF Fetch, Held, Seen
    <2>2. live[c].bytes \in Nat
      BY <2>1 DEF TypeOK, Connection
    <2>3. Unbilled(live, c, Counted(live[c].bytes)) = 0
      BY <2>1, <2>2, CountedType DEF Unbilled, Owing
    <2>4. Owing(live[c].bytes, Reckoned(records, c)) = lost
      BY <2>1 DEF Unbilled
    <2>5. polled = lost + 0
      BY <2>1, <2>3, <2>4 DEF Polled
    <2> QED BY <1>3, <2>1, <2>5
  <1> HIDE DEF lost, polled
  <1>6. CASE c \in Held' /\ fetched'[c].user = u
    BY <1>3, <1>4, <1>5, <1>6 DEF Larger
  <1>7. CASE ~(c \in Held' /\ fetched'[c].user = u)
    BY <1>3, <1>4, <1>7
  <1> QED BY <1>6, <1>7

(* After the accounting the snapshot is gone, and live connections may be.   *)
LEMMA SnapshotGone ==
    ASSUME TypeOK, NEW u \in Users, NEW c \in Connections, fetched' = None,
           live'[c] \in {None, live[c]}
    PROVE  \/ Owes(u)'[c] = 0
           \/ /\ live[c] # None /\ live[c].user = u
              /\ Owes(u)'[c] = Unbilled(live, c, Reckoned(records', c))
  <1>1. Held' = {}
    BY DEF Held
  <1>2. Owes(u)'[c] = IF live'[c] # None /\ live'[c].user = u
                      THEN Unbilled(live', c, Reckoned(records', c)) ELSE 0
    BY <1>1 DEF Owes, Owed
  <1> QED BY <1>2 DEF Unbilled

(* A save that fails, and closed connections, leave less to bill.            *)
LEMMA UnsavedOwes ==
    ASSUME TypeOK, Identities, NEW u \in Users, NEW c \in Connections, fetched' = None,
           live'[c] \in {None, live[c]}, UNCHANGED records
    PROVE  Owes(u)'[c] <= Owes(u)[c]
  <1>1. Reckoned(records', c) = Reckoned(records, c)
    BY DEF Reckoned
  <1> QED BY <1>1, SnapshotGone, OwedCases DEF Owes

(* What a saved poll charges is gone from what can still be billed.          *)
LEMMA SavedOwes ==
    ASSUME TypeOK, Identities, CreditedInFull, fetched # None, NEW recs, Written(recs),
           NEW u \in Users, NEW c \in Connections, fetched' = None,
           live'[c] \in {None, live[c]}, records' = recs,
           u \notin Forgetting
    PROVE  Charged(u, recs)[c] + Owes(u)'[c] <= Owes(u)[c]
  <1> DEFINE lost == Unbilled(live, c, Reckoned(records, c))
             after == Unbilled(live, c, Reckoned(recs, c))
             polled == Polled(live, fetched, records, c)
             owed == Owes(u)[c]
             charged == Charged(u, recs)[c]
  <1>1. /\ owed \in Nat /\ lost \in Nat
        /\ c \in Held => fetched[c] \in Connection /\ polled \in Nat
        /\ c \in Held /\ fetched[c].user = u => owed >= polled
        /\ live[c] # None /\ live[c].user = u => owed >= lost
    BY OwedCases DEF Owes
  <1>2. Owes(u)'[c] = 0 \/ (live[c] # None /\ live[c].user = u /\ Owes(u)'[c] = after)
    BY SnapshotGone
  <1>3. CASE c \notin Seen
    <2>1. charged = 0
      BY <1>3 DEF Charged
    <2>2. ASSUME live[c] # None, live[c].user = u PROVE after = lost
      <3>1. CASE c \in Known
        <4>1. records[c].missed \in 0..Window /\ Window \in Nat
          BY <3>1, PreviousType, PollAssumption DEF ConnectionRecord
        <4>2. records[c].missed # Window
          BY <1>3, <2>2, <3>1 DEF Forgetting
        <4>3. records[c].missed < Window
          BY <4>1, <4>2
        <4>4. /\ recs[c] \in ConnectionRecord
              /\ recs[c].total = records[c].total /\ recs[c].credited = records[c].credited
          BY <1>3, <3>1, <4>3 DEF Written
        <4>5. Reckoned(recs, c) = recs[c] /\ Reckoned(records, c) = records[c]
          BY <3>1, <4>4, SentinelAssumption DEF Reckoned, Known
        <4> QED BY <4>4, <4>5 DEF Unbilled, Owing
      <3>2. CASE c \notin Known
        <4>1. recs[c] = None /\ records[c] = None
          BY <1>3, <3>2 DEF Written, Known
        <4> QED BY <4>1 DEF Reckoned
      <3> QED BY <3>1, <3>2
    <2> HIDE DEF owed, charged, lost, after
    <2>3. charged + Owes(u)'[c] <= owed
      BY <1>1, <1>2, <2>1, <2>2
    <2> QED BY <2>3 DEF owed, charged
  <1>4. CASE c \in Seen
    <2> DEFINE b == fetched[c].bytes
               user == recs[c].user
               previous == Reckoned(records, c)
               record == Reckoned(recs, c)
    <2>1. c \in Held
      BY <1>4 DEF Held
    <2>2. /\ b \in Nat /\ Credited(c) \in 0..b
          /\ \A w : Delta(c, w) = IF w # None THEN b - Credited(c) ELSE 0
      BY <1>4, DeltaType DEF Connection
    <2>3. user \in {None, fetched[c].user} /\ u # None
      BY <1>4, WrittenUser, PollAssumption
    <2>4. Owing(b, previous) = b - Credited(c)
      BY <2>2, ReckonedType DEF Owing, Credited
    <2>5. /\ record.total = b
          /\ record.credited = IF Delta(c, user) > 0 THEN b ELSE Credited(c)
      <3>1. record = recs[c]
        BY <1>4, SentinelAssumption DEF Written, Reckoned
      <3> QED BY <1>4, <3>1 DEF Written
    <2>6. Counted(b).total = b /\ Counted(b).credited = b
      BY <2>2, CountedType
    <2>7. charged = IF user = u THEN b - Credited(c) ELSE 0
      BY <1>4, <2>2, <2>3 DEF Charged
    <2>8. polled = (b - Credited(c)) + Unbilled(live, c, Counted(b))
      BY <2>4 DEF Polled
    <2>9. live[c] # None => live[c].user = fetched[c].user /\ live[c].bytes \in Nat
      BY <2>1 DEF Identities, TypeOK, Connection
    <2>10. CASE fetched[c].user # u
      <3>1. Owes(u)'[c] = 0
        BY <1>2, <2>9, <2>10
      <3>2. charged = 0
        BY <2>3, <2>7, <2>10
      <3> HIDE DEF owed, charged
      <3>3. charged + Owes(u)'[c] <= owed
        BY <1>1, <3>1, <3>2
      <3> QED BY <3>3 DEF owed, charged
    <2>11. CASE fetched[c].user = u
      <3>1. ASSUME live[c] # None
            PROVE  charged + after <= polled
        <4> DEFINE l == live[c].bytes
        <4>1. l \in Nat
          BY <2>9, <3>1
        <4>2. after = IF l < b THEN l ELSE l - record.credited
          BY <2>5, <3>1 DEF Unbilled, Owing
        <4>3. Unbilled(live, c, Counted(b)) = IF l < b THEN l ELSE l - b
          BY <2>6, <3>1 DEF Unbilled, Owing
        <4>4. Delta(c, user) = IF user # None THEN b - Credited(c) ELSE 0
          BY <2>2
        <4> HIDE DEF l, after, polled, charged, b, user, record
        <4>5. CASE user = u
          BY <2>2, <2>3, <2>5, <2>7, <2>8, <4>1, <4>2, <4>3, <4>4, <4>5
        <4>6. CASE user = None
          BY <2>2, <2>3, <2>5, <2>7, <2>8, <4>1, <4>2, <4>3, <4>4, <4>6
        <4> QED BY <2>3, <2>11, <4>5, <4>6
      <3>2. charged <= polled /\ charged \in Nat
        <4>1. Unbilled(live, c, Counted(b)) \in Nat
          BY <2>2, CountedType, UnbilledFacts
        <4> HIDE DEF charged, polled, b, user
        <4> QED BY <2>2, <2>7, <2>8, <4>1
      <3>3. owed >= polled /\ polled \in Nat /\ owed \in Nat
        BY <1>1, <2>1, <2>11
      <3> HIDE DEF owed, charged, polled, after
      <3>4. CASE Owes(u)'[c] = 0
        <4>1. charged + Owes(u)'[c] <= owed
          BY <3>2, <3>3, <3>4
        <4> QED BY <4>1 DEF owed, charged
      <3>5. CASE live[c] # None /\ Owes(u)'[c] = after
        <4>1. after \in Nat
          <5>1. record.total \in Nat /\ record.credited \in 0..record.total
            BY <2>2, <2>5
          <5> QED BY <5>1, UnbilledFacts DEF after
        <4>2. charged + Owes(u)'[c] <= owed
          BY <3>1, <3>2, <3>3, <3>5, <4>1
        <4> QED BY <4>2 DEF owed, charged
      <3> QED BY <1>2, <3>4, <3>5
    <2> QED BY <2>10, <2>11
  <1> QED BY <1>3, <1>4

-------------------------------------------------------------------------------
(* What a user owes is a natural number for every connection.                *)
LEMMA OwesType == TypeOK /\ Identities => \A u \in Users : Owes(u) \in [Connections -> Nat]
  <1> SUFFICES ASSUME TypeOK, Identities, NEW u \in Users
               PROVE  Owes(u) \in [Connections -> Nat]
    OBVIOUS
  <1>1. \A c \in Connections : Owes(u)[c] \in Nat
    BY OwedCases DEF Owes
  <1>2. Owes(u) = [c \in Connections |-> Owes(u)[c]]
    BY DEF Owes, Owed
  <1> QED BY <1>1, <1>2

(* The same after a step.                                                    *)
LEMMA OwesTypeNext == (TypeOK /\ Identities => \A u \in Users : Owes(u) \in [Connections -> Nat])'
  BY OwesType, PTL

\* The balance of one user after a step that bills "charge" and carries "more".
LEMMA Balance ==
    ASSUME TypeOK, Identities, NEW u \in Users,
           NEW charge \in [Connections -> Nat], NEW more \in [Connections -> Nat],
           Owes(u)' \in [Connections -> Nat],
           \A c \in Connections : charge[c] + Owes(u)'[c] <= Owes(u)[c] + more[c]
    PROVE  /\ Total(charge) \in Nat /\ Total(more) \in Nat
           /\ Total(Owes(u)) \in Nat /\ Total(Owes(u)') \in Nat
           /\ Total(charge) + Total(Owes(u)') <= Total(Owes(u)) + Total(more)
  <1> DEFINE sum == [c \in Connections |-> Owes(u)[c] + more[c]]
  <1>1. Owes(u) \in [Connections -> Nat]
    BY OwesType
  <1>2. sum \in [Connections -> Nat] /\ \A c \in Connections : sum[c] = Owes(u)[c] + more[c]
    BY <1>1
  <1> HIDE DEF sum
  <1>3. Total(sum) = Total(Owes(u)) + Total(more)
    BY <1>1, <1>2, TotalPlus, PollAssumption
  <1>4. \A c \in Connections : charge[c] + Owes(u)'[c] <= sum[c]
    BY <1>2
  <1>5. /\ Total(charge) \in Nat /\ Total(Owes(u)') \in Nat
        /\ Total(charge) + Total(Owes(u)') <= Total(sum)
    BY <1>2, <1>4, TotalBound, PollAssumption
  <1> QED BY <1>1, <1>3, <1>5, TotalIsNatural, PollAssumption

(* Every step keeps the bills covered by what was carried.                   *)
LEMMA CoveredStep ==
    TypeOK /\ TypeOK' /\ Identities /\ Identities' /\ CreditedInFull /\ Covered /\ [Next]_vars
        => Covered'
  <1> SUFFICES ASSUME TypeOK, TypeOK', Identities, Identities', CreditedInFull, Covered,
                      [Next]_vars, NEW u \in Users, u \notin forgotten'
               PROVE  used'[u] + settled'[u] + Total(Owes(u)') <= carried'[u]
    BY DEF Covered, Owes
  <1> DEFINE none == [c \in Connections |-> 0]
  <1>1. /\ used[u] \in Nat /\ settled[u] \in Nat /\ carried[u] \in Nat
        /\ used'[u] \in Nat /\ settled'[u] \in Nat /\ carried'[u] \in Nat
    BY DEF TypeOK
  <1>2. none \in [Connections -> Nat] /\ \A c \in Connections : none[c] = 0
    OBVIOUS
  <1> HIDE DEF none
  <1>3. Total(none) = 0
    BY <1>2, TotalZero
  <1>4. Owes(u)' \in [Connections -> Nat] /\ Owes(u) \in [Connections -> Nat]
    BY OwesType, OwesTypeNext
  <1>5. u \notin forgotten => used[u] + settled[u] + Total(Owes(u)) <= carried[u]
    BY DEF Covered, Owes
  <1>6. forgotten \subseteq forgotten'
    BY DEF Next, vars, history, Open, Carry, Restart, Close, ResetUserTraffic, Fetch, Accounts,
           Account, Outside
  <1>7. used[u] + settled[u] + Total(Owes(u)) <= carried[u]
    BY <1>5, <1>6
  <1>8. ASSUME \A c \in Connections : Owes(u)'[c] <= Owes(u)[c],
               used'[u] + settled'[u] = used[u] + settled[u], carried'[u] = carried[u]
        PROVE  used'[u] + settled'[u] + Total(Owes(u)') <= carried'[u]
    <2>1. Total(Owes(u)') <= Total(Owes(u))
      BY <1>4, <1>8, TotalMonotone, PollAssumption
    <2>2. Total(Owes(u)') \in Nat /\ Total(Owes(u)) \in Nat
      BY <1>4, TotalIsNatural, PollAssumption
    <2> QED BY <1>1, <1>7, <1>8, <2>1, <2>2
  <1>9. ASSUME NEW d \in Connections, NEW w \in Users, NEW a \in Addresses, Open(d, w, a)
        PROVE  used'[u] + settled'[u] + Total(Owes(u)') <= carried'[u]
    <2>1. \A c \in Connections : Owes(u)'[c] <= Owes(u)[c]
      BY <1>9, OpenOwes
    <2>2. UNCHANGED <<used, settled, carried>>
      BY <1>9 DEF Open, history
    <2> QED BY <1>8, <2>1, <2>2
  <1>10. ASSUME NEW d \in Connections, Restart(d) \/ Close(d)
         PROVE  used'[u] + settled'[u] + Total(Owes(u)') <= carried'[u]
    <2>1. /\ live[d] # None /\ UNCHANGED <<fetched, records, used, settled, carried>>
          /\ live' = [live EXCEPT ![d] = None] \/ live' = [live EXCEPT ![d].bytes = 0]
      BY <1>10 DEF Restart, Close, Outside, history
    <2>2. ASSUME NEW c \in Connections PROVE Owes(u)'[c] <= Owes(u)[c]
      <3>1. Owes(u)'[c] <= Owes(u)[c] + (IF c = d /\ live[d].user = u THEN 0 ELSE 0)
        BY <2>1, CounterOwes
      <3>2. Owes(u)[c] \in Nat
        BY <1>4
      <3> QED BY <3>1, <3>2
    <2> QED BY <1>8, <2>1, <2>2
  <1>11. ASSUME NEW d \in Connections, Carry(d)
         PROVE  used'[u] + settled'[u] + Total(Owes(u)') <= carried'[u]
    <2> DEFINE one == [c \in Connections |-> IF c = d THEN 1 ELSE 0]
    <2>1. /\ live[d] # None /\ UNCHANGED <<fetched, records, used, settled>>
          /\ live' = [live EXCEPT ![d].bytes = @ + 1]
          /\ carried' = [carried EXCEPT ![live[d].user] = @ + 1]
      BY <1>11 DEF Carry, Outside
    <2>2. ASSUME NEW c \in Connections
          PROVE  Owes(u)'[c] <= Owes(u)[c] + (IF c = d /\ live[d].user = u THEN 1 ELSE 0)
      <3> DEFINE more == 1
      <3>1. more \in 0..1 /\ more = 1
        OBVIOUS
      <3> HIDE DEF more
      <3>2. Owes(u)'[c] <= Owes(u)[c] + (IF c = d /\ live[d].user = u THEN more ELSE 0)
        BY <2>1, <3>1, CounterOwes
      <3> QED BY <3>1, <3>2
    <2>3. one \in [Connections -> Nat]
          /\ \A c \in Connections : one[c] = IF c = d THEN 1 ELSE 0
      OBVIOUS
    <2> HIDE DEF one
    <2>4. Total(one) = 1
      BY <2>3, TotalOne
    <2>5. CASE live[d].user # u
      <3>1. carried'[u] = carried[u]
        BY <2>1, <2>5 DEF TypeOK
      <3>2. ASSUME NEW c \in Connections PROVE Owes(u)'[c] <= Owes(u)[c]
        <4>1. Owes(u)[c] \in Nat /\ Owes(u)'[c] \in Nat
          BY <1>4
        <4> QED BY <2>2, <2>5, <4>1
      <3> QED BY <1>8, <2>1, <3>1, <3>2
    <2>6. CASE live[d].user = u
      <3>1. carried'[u] = carried[u] + 1
        BY <2>1, <2>6 DEF TypeOK
      <3>2. ASSUME NEW c \in Connections PROVE none[c] + Owes(u)'[c] <= Owes(u)[c] + one[c]
        <4>1. Owes(u)[c] \in Nat /\ Owes(u)'[c] \in Nat
          BY <1>4
        <4> QED BY <1>2, <2>2, <2>3, <2>6, <4>1
      <3>3. /\ Total(none) + Total(Owes(u)') <= Total(Owes(u)) + Total(one)
            /\ Total(Owes(u)) \in Nat /\ Total(Owes(u)') \in Nat
        BY <1>2, <1>4, <2>3, <3>2, Balance
      <3> QED BY <1>1, <1>3, <1>7, <2>1, <2>4, <3>1, <3>3
    <2> QED BY <2>5, <2>6
  <1>12. ASSUME NEW w \in Users, ResetUserTraffic(w)
         PROVE  used'[u] + settled'[u] + Total(Owes(u)') <= carried'[u]
    <2>1. UNCHANGED <<live, fetched, records, carried>>
      BY <1>12 DEF ResetUserTraffic, Outside
    <2>2. used'[u] + settled'[u] = used[u] + settled[u]
      BY <1>1, <1>12 DEF ResetUserTraffic, TypeOK
    <2>3. Owes(u)' = Owes(u)
      BY <2>1 DEF Owes, Held, Seen
    <2>4. \A c \in Connections : Owes(u)'[c] <= Owes(u)[c]
      BY <1>4, <2>3
    <2> QED BY <1>8, <2>1, <2>2, <2>4
  <1>13. ASSUME Fetch PROVE used'[u] + settled'[u] + Total(Owes(u)') <= carried'[u]
    <2>1. \A c \in Connections : Owes(u)'[c] <= Owes(u)[c]
      BY <1>13, FetchOwes
    <2>2. UNCHANGED <<used, settled, carried>>
      BY <1>13 DEF Fetch, stored, history
    <2> QED BY <1>8, <2>1, <2>2
  <1>14. ASSUME Accounts PROVE used'[u] + settled'[u] + Total(Owes(u)') <= carried'[u]
    <2>1. fetched # None /\ \E recs \in [Connections -> ConnectionRecord \union {None}] :
                               Written(recs) /\ Account(recs)
      BY <1>14, AccountsStep
    <2>2. PICK recs \in [Connections -> ConnectionRecord \union {None}] :
              Written(recs) /\ Account(recs)
      BY <2>1
    <2>3. /\ fetched' = None /\ UNCHANGED <<settled, carried>>
          /\ \A c \in Connections : live'[c] \in {None, live[c]}
      BY <2>2 DEF Account
    <2>4. CASE UNCHANGED <<stored, forgotten>>
      <3>1. \A c \in Connections : Owes(u)'[c] <= Owes(u)[c]
        BY <2>3, <2>4, UnsavedOwes DEF stored
      <3> QED BY <1>8, <2>3, <2>4, <3>1 DEF stored
    <2>5. CASE /\ records' = recs /\ used' = [w \in Users |-> Billed(w, recs)]
               /\ forgotten' = forgotten \union Forgetting
      <3> DEFINE charge == Charged(u, recs)
      <3>1. charge \in [Connections -> Nat] /\ Billed(u, recs) = used[u] + Total(charge)
        BY <2>1, BilledIsCharged
      <3>2. \A c \in Connections : charge[c] + Owes(u)'[c] <= Owes(u)[c]
        BY <2>1, <2>2, <2>3, <2>5, SavedOwes
      <3> HIDE DEF charge
      <3>3. ASSUME NEW c \in Connections PROVE charge[c] + Owes(u)'[c] <= Owes(u)[c] + none[c]
        <4>1. Owes(u)[c] \in Nat
          BY <1>4
        <4> QED BY <1>2, <3>2, <4>1
      <3>4. /\ Total(charge) + Total(Owes(u)') <= Total(Owes(u)) + Total(none)
            /\ Total(Owes(u)) \in Nat /\ Total(Owes(u)') \in Nat /\ Total(charge) \in Nat
        BY <1>2, <1>4, <3>1, <3>3, Balance
      <3>5. used'[u] = used[u] + Total(charge)
        BY <2>5, <3>1
      <3> QED BY <1>1, <1>3, <1>7, <2>3, <3>4, <3>5
    <2> QED BY <2>2, <2>4, <2>5 DEF Account
  <1>15. ASSUME UNCHANGED vars PROVE used'[u] + settled'[u] + Total(Owes(u)') <= carried'[u]
    <2>1. Owes(u)' = Owes(u)
      BY <1>15 DEF vars, Owes, Held, Seen
    <2>2. \A c \in Connections : Owes(u)'[c] <= Owes(u)[c]
      BY <1>4, <2>1
    <2>3. UNCHANGED <<used, settled, carried>>
      BY <1>15 DEF vars
    <2> QED BY <1>8, <2>2, <2>3
  <1> QED BY <1>9, <1>10, <1>11, <1>12, <1>13, <1>14, <1>15 DEF Next

(* The inductive invariant of the poll.                                      *)
THEOREM PollInvariant == Spec => [](TypeOK /\ Identities /\ CreditedInFull /\ Covered)
  <1>1. Init => Covered
    <2> SUFFICES ASSUME Init, NEW u \in Users
                 PROVE  used[u] + settled[u] + Total(Owes(u)) <= carried[u]
      BY DEF Covered, Owes
    <2>1. /\ Owes(u) \in [Connections -> Nat]
          /\ \A c \in Connections : Owes(u)[c] = 0
      BY DEF Init, Owes, Owed, Held
    <2>2. Total(Owes(u)) = 0
      BY <2>1, TotalZero
    <2> QED BY <2>2 DEF Init
  <1> QED BY <1>1, Typing, IdentitiesInvariant, CreditedInvariant, CoveredStep, PTL DEF Spec

(* Nobody is ever billed for more than was carried, whatever failed, unless  *)
(* an open connection was left out of more answers than its record outlives. *)
THEOREM NobodyOverbilled == Spec => []NeverOverbilled
  <1>1. TypeOK /\ Identities /\ Covered => NeverOverbilled
    <2> SUFFICES ASSUME TypeOK, Identities, Covered, NEW u \in Users, u \notin forgotten
                 PROVE  used[u] + settled[u] <= carried[u]
      BY DEF NeverOverbilled
    <2>1. used[u] + settled[u] + Total(Owes(u)) <= carried[u]
      BY DEF Covered, Owes
    <2>2. Total(Owes(u)) \in Nat
      BY OwesType, TotalIsNatural, PollAssumption
    <2>3. used[u] \in Nat /\ settled[u] \in Nat /\ carried[u] \in Nat
      BY DEF TypeOK
    <2> QED BY <2>1, <2>2, <2>3
  <1> QED BY <1>1, PollInvariant, PTL
===============================================================================
