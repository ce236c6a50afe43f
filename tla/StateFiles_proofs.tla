-------------------------- MODULE StateFiles_proofs --------------------------
(***************************************************************************)
(* A save of the state file, for any number of processes, saves, failures, *)
(* kills and power losses.  FilesInv is inductive: whatever may become the *)
(* primary file is whole, on the disk and no older than the latest save    *)
(* that returned, and the holder of the lock knows what it has done so far *)
(* to the files it found.  From it follow the invariants of StateFiles and *)
(* the refinement: a save is atomic to whoever takes the lock next.        *)
(***************************************************************************)
EXTENDS StateFiles, SequenceTheorems, WellFoundedInduction, TLAPS

Made == Nat \X {"copy", "new"}
AFile == [content : Contents, made : Made]
WholeFile == [content : 1..MaxWrites, made : Made]
Rename == [name : {"primary", "backup"}, file : WholeFile]

BeforeBackup == {"copy", "copying", "backup"}
BeforeReplace == {"open", "write", "fsync", "replace"}
Steps == {"idle", "directory"} \union BeforeBackup \union BeforeReplace

Shapes ==
    /\ primary \in WholeFile \union {None}
    /\ backup \in AFile \union {None}
    /\ pending \in AFile \union {None}
    /\ tmp \in AFile \union {None}
    /\ onDisk \in [primary : WholeFile \union {None}, backup : AFile \union {None}]
    /\ journal \in Seq(Rename)
    /\ synced \subseteq Made
    /\ found \in [primary : WholeFile \union {None}, backup : AFile \union {None}]

Counters ==
    /\ holder \in Processes \union {None} /\ step \in Steps
    /\ (holder = None) <=> (step = "idle")
    /\ attempts \in 0..MaxWrites /\ returned \in 0..attempts
    /\ step # "idle" => attempts > 0
    /\ faults \in 0..MaxFaults /\ outages \in 0..MaxOutages

(* A file that may stand in for the primary after a power loss: its data is on *)
(* the disk, and it is no older than the latest save that returned.            *)
Lasting(file) ==
    /\ file # None => file.made \in synced
    /\ returned > 0 => file # None /\ file.content >= returned

Durability ==
    /\ Lasting(primary) /\ Lasting(onDisk.primary)
    /\ \A i \in 1..Len(journal) : journal[i].name = "primary" => Lasting(journal[i].file)
    /\ outages = 0 => backup \in WholeFile \union {None}

(* Until the backup is replaced both files are as found; until the primary is *)
(* replaced only the backup differs: it is what AtomicFiles calls the previous *)
(* file.                                                                       *)
BackupIsPrevious ==
    IF found.primary = None THEN backup = found.backup
    ELSE backup # None /\ backup.content = found.primary.content

Progress ==
    /\ step \in BeforeBackup =>
          primary # None /\ primary = found.primary /\ backup = found.backup
    /\ step \in {"copying", "backup"} => pending # None
    /\ step = "backup" => pending.content = primary.content
    /\ step \in BeforeReplace => primary = found.primary /\ BackupIsPrevious
    /\ step \in {"write", "fsync", "replace"} => tmp # None
    /\ step \in {"fsync", "replace"} => tmp.content = attempts
    /\ step = "replace" => tmp.made \in synced
    /\ step = "directory" =>
          /\ primary # None /\ primary.content = attempts /\ BackupIsPrevious
          /\ IF journal = <<>> THEN onDisk.primary = primary
             ELSE journal[Len(journal)] = [name |-> "primary", file |-> primary]

FilesInv == Shapes /\ Counters /\ Durability /\ Progress

-------------------------------------------------------------------------------
(* Files and renames.                                                        *)

LEMMA FileFacts ==
    /\ \A file \in WholeFile :
          file \in AFile /\ file # None /\ file.content \in 1..MaxWrites /\ file.made \in Made
    /\ \A file \in AFile :
          file # None /\ file.content \in Contents /\ file.content # None /\ file.made \in Made
    /\ \A file \in AFile : file.content # Torn => file \in WholeFile
    /\ Torn \notin 1..MaxWrites /\ None \notin Contents
<1>1. MaxWrites \in Nat /\ Torn \notin Nat /\ None \notin Nat /\ None # Torn
  BY FilesAssumption
<1>2. AFile \subseteq AnyFile
  BY <1>1 DEF AFile, AnyFile, Contents, Made
<1>3. None \notin AFile
  BY <1>2, SentinelAssumption
<1>4. WholeFile \subseteq AFile
  BY DEF WholeFile, AFile, Contents
<1>5. ASSUME NEW file \in AFile, file.content # Torn PROVE file \in WholeFile
  BY <1>5 DEF AFile, WholeFile, Contents
<1>6. QED
  BY <1>1, <1>3, <1>4, <1>5 DEF AFile, WholeFile, Contents

LEMMA CreatedFacts ==
    ASSUME attempts \in Nat, NEW role \in {"copy", "new"}
    PROVE  File(Torn, role) \in AFile
BY DEF File, AFile, Contents, Made

LEMMA FilledFacts ==
    ASSUME NEW file \in AFile, NEW content \in Contents
    PROVE  LET filled == [file EXCEPT !.content = content] IN
           /\ filled \in AFile /\ filled.content = content /\ filled.made = file.made
           /\ content # Torn => filled \in WholeFile
BY DEF AFile, WholeFile, Contents

LEMMA JournalFacts ==
    ASSUME journal \in Seq(Rename)
    PROVE  /\ Len(journal) \in Nat
           /\ \A i \in 1..Len(journal) : journal[i] \in Rename /\ journal[i].file \in WholeFile
<1>1. \A i \in 1..Len(journal) : journal[i] \in Rename
  OBVIOUS
<1>2. QED
  BY <1>1 DEF Rename

-------------------------------------------------------------------------------
(* What a flush, or a power loss, finds on the disk.                         *)

LEMMA LeastNatural ==
    ASSUME NEW T \in SUBSET Nat, T # {}
    PROVE  \E x \in T : \A y \in T : x <= y
<1> DEFINE R == {ss \in Nat \X Nat : ss[1] < ss[2]}
<1>1. IsWellFoundedOn(R, Nat)
  BY NatLessThanWellFounded DEF OpToRel
<1>2. PICK x \in T : \A y \in T : ~ (<<y, x>> \in R)
  <2> HIDE DEF R
  <2> QED BY <1>1, WFMin
<1>3. \A y \in T : ~ (y < x)
  BY <1>2
<1>4. QED
  BY <1>3

LEMMA GreatestNatural ==
    ASSUME NEW n \in Nat, NEW T \in SUBSET (1..n), T # {}
    PROVE  \E x \in T : \A y \in T : y <= x
<1> DEFINE U == {m \in Nat : \E i \in T : m = n - i}
<1>1. U \in SUBSET Nat /\ U # {}
  <2>1. PICK i \in T : TRUE
    OBVIOUS
  <2>2. n - i \in Nat
    OBVIOUS
  <2>3. QED
    BY <2>2
<1>2. PICK u \in U : \A v \in U : u <= v
  <2> HIDE DEF U
  <2> QED BY <1>1, LeastNatural
<1>3. PICK x \in T : u = n - x
  OBVIOUS
<1>4. ASSUME NEW y \in T PROVE y <= x
  <2>1. n - y \in U
    OBVIOUS
  <2>2. n - x <= n - y
    BY <1>2, <1>3, <2>1
  <2>3. QED
    BY <2>2
<1>5. QED
  BY <1>4

(* A file on the disk after the first n renames is the one that was there or   *)
(* one of theirs: the CHOOSE in Persisted has something to choose.             *)
LEMMA PersistedFacts ==
    ASSUME Shapes, NEW n \in 0..Len(journal)
    PROVE  /\ \/ Persisted(n).primary = onDisk.primary
              \/ \E i \in 1..n : /\ journal[i].name = "primary"
                                 /\ Persisted(n).primary = journal[i].file
           /\ \/ Persisted(n).backup = onDisk.backup
              \/ \E i \in 1..n : Persisted(n).backup = journal[i].file
           /\ Persisted(n) \in [primary : WholeFile \union {None}, backup : AFile \union {None}]
<1>1. Len(journal) \in Nat /\ n \in Nat /\ n <= Len(journal)
  BY JournalFacts DEF Shapes
<1> DEFINE its(name) == {i \in 1..n : journal[i].name = name}
           latest(name, file) ==
               IF its(name) = {} THEN file
               ELSE journal[CHOOSE i \in its(name) : \A j \in its(name) : j <= i].file
<1>2. ASSUME NEW name, NEW file
      PROVE  \/ latest(name, file) = file
             \/ \E i \in 1..n : /\ journal[i].name = name
                                /\ latest(name, file) = journal[i].file
  <2>1. CASE its(name) # {}
    <3> DEFINE T == its(name)
               last == CHOOSE i \in T : \A j \in T : j <= i
    <3>1. T \in SUBSET (1..n) /\ T # {}
      BY <2>1
    <3>2. \E i \in T : \A j \in T : j <= i
      <4> HIDE DEF T
      <4> QED BY <3>1, <1>1, GreatestNatural
    <3>3. last \in T
      BY <3>2
    <3>4. QED
      BY <3>3, <2>1
  <2>2. QED
    BY <2>1
<1>3. Persisted(n) = [primary |-> latest("primary", onDisk.primary),
                      backup |-> latest("backup", onDisk.backup)]
  BY DEF Persisted
<1> HIDE DEF latest
<1>4. /\ Persisted(n).primary = latest("primary", onDisk.primary)
      /\ Persisted(n).backup = latest("backup", onDisk.backup)
      /\ DOMAIN Persisted(n) = {"primary", "backup"}
  BY <1>3
<1>5. \A i \in 1..n : journal[i].file \in WholeFile /\ journal[i].file \in AFile
  BY <1>1, JournalFacts, FileFacts DEF Shapes
<1>6. /\ latest("primary", onDisk.primary) \in WholeFile \union {None}
      /\ latest("backup", onDisk.backup) \in AFile \union {None}
  BY <1>2, <1>5 DEF Shapes
<1>7. QED
  BY <1>2, <1>3, <1>4, <1>6

(* The last rename of the primary decides. *)
LEMMA PersistedLast ==
    ASSUME Shapes, NEW n \in 1..Len(journal), journal[n].name = "primary"
    PROVE  Persisted(n).primary = journal[n].file
<1>1. Len(journal) \in Nat /\ n \in Nat /\ n <= Len(journal)
  BY JournalFacts DEF Shapes
<1> DEFINE its == {i \in 1..n : journal[i].name = "primary"}
           last == CHOOSE i \in its : \A j \in its : j <= i
<1>2. n \in its /\ \A j \in its : j <= n
  BY <1>1
<1>3. last \in its /\ \A j \in its : j <= last
  BY <1>2
<1>4. last = n
  BY <1>1, <1>2, <1>3
<1>5. Persisted(n).primary = IF its = {} THEN onDisk.primary ELSE journal[last].file
  BY DEF Persisted
<1>6. QED
  BY <1>2, <1>4, <1>5

(* Nothing to flush, nothing flushed. *)
LEMMA PersistedNone ==
    ASSUME Shapes
    PROVE  Persisted(0).primary = onDisk.primary /\ Persisted(0).backup = onDisk.backup
BY DEF Persisted

-------------------------------------------------------------------------------
(* One lemma per action.                                                     *)

LEMMA InitGood == Init => FilesInv
<1> SUFFICES ASSUME Init PROVE FilesInv
  OBVIOUS
<1>1. Shapes
  BY DEF Init, Shapes
<1>2. Counters
  BY FilesAssumption DEF Init, Counters, Steps
<1>3. Durability /\ Progress
  BY DEF Init, Durability, Lasting, Progress, BeforeBackup, BeforeReplace
<1>4. QED
  BY <1>1, <1>2, <1>3 DEF FilesInv

LEMMA AcquireGood ==
    ASSUME FilesInv, NEW p \in Processes, Acquire(p)
    PROVE  FilesInv'
<1> USE DEF FilesInv, Acquire, files, durable, bounds
<1>1. Shapes'
  BY DEF Shapes
<1>2. Counters'
  BY FilesAssumption DEF Counters, Steps, BeforeBackup, BeforeReplace
<1>3. Durability'
  BY DEF Durability, Lasting
<1>4. Progress'
  <2>1. found' = [primary |-> primary, backup |-> backup]
    OBVIOUS
  <2>2. QED
    BY <2>1 DEF Progress, BeforeBackup, BeforeReplace, BackupIsPrevious
<1>5. QED
  BY <1>1, <1>2, <1>3, <1>4

(* Inside a save the counters stand still and the lock stays where it is. *)
LEMMA GoToGood ==
    ASSUME Counters, NEW next \in Steps \ {"idle"}, step # "idle", GoTo(next)
    PROVE  Counters'
BY DEF Counters, GoTo, bounds

LEMMA StartCopyGood ==
    ASSUME FilesInv, StartCopy
    PROVE  FilesInv'
<1> USE DEF FilesInv, StartCopy, At, GoTo, durable, bounds
<1>1. pending' \in AFile
  BY CreatedFacts DEF Counters
<1>2. Shapes'
  BY <1>1 DEF Shapes
<1>3. Counters'
  BY GoToGood DEF Steps, BeforeBackup
<1>4. Durability'
  BY DEF Durability, Lasting
<1>5. Progress'
  BY <1>1, FileFacts DEF Progress, BeforeBackup, BeforeReplace, BackupIsPrevious
<1>6. QED
  BY <1>2, <1>3, <1>4, <1>5

LEMMA FinishCopyGood ==
    ASSUME FilesInv, FinishCopy
    PROVE  FilesInv'
<1> USE DEF FilesInv, FinishCopy, At, GoTo, durable, bounds
<1>1. pending \in AFile /\ primary \in WholeFile
  BY DEF Shapes, Progress, BeforeBackup
<1>2. primary.content \in Contents
  BY <1>1, FileFacts
<1>3. pending' \in AFile /\ pending'.content = primary.content
  BY <1>1, <1>2, FilledFacts
<1>4. Shapes'
  BY <1>3 DEF Shapes
<1>5. Counters'
  BY GoToGood DEF Steps, BeforeBackup
<1>6. Durability'
  BY DEF Durability, Lasting
<1>7. Progress'
  BY <1>3, FileFacts DEF Progress, BeforeBackup, BeforeReplace, BackupIsPrevious
<1>8. QED
  BY <1>4, <1>5, <1>6, <1>7

(* A rename at the end of the journal. *)
LEMMA AppendFacts ==
    ASSUME Shapes, NEW rename \in Rename
    PROVE  LET longer == Append(journal, rename) IN
           /\ longer \in Seq(Rename) /\ longer # <<>>
           /\ Len(longer) = Len(journal) + 1 /\ longer[Len(longer)] = rename
           /\ \A i \in 1..Len(longer) :
                 longer[i] = rename \/ (i \in 1..Len(journal) /\ longer[i] = journal[i])
BY JournalFacts DEF Shapes

LEMMA RenameFacts ==
    ASSUME NEW name \in {"primary", "backup"}, NEW file \in WholeFile
    PROVE  [name |-> name, file |-> file] \in Rename
BY DEF Rename

LEMMA ReplaceBackupGood ==
    ASSUME FilesInv, ReplaceBackup
    PROVE  FilesInv'
<1> USE DEF FilesInv, ReplaceBackup, At, GoTo, bounds
<1>1. primary \in WholeFile /\ pending \in AFile /\ pending.content = primary.content
  BY DEF Shapes, Progress, BeforeBackup
<1>2. pending \in WholeFile
  BY <1>1, FileFacts
<1> DEFINE rename == [name |-> "backup", file |-> pending]
<1>3. rename \in Rename /\ rename.name = "backup"
  BY <1>2, RenameFacts
<1>4. journal' = Append(journal, rename)
  OBVIOUS
<1> HIDE DEF rename
<1>5. /\ journal' \in Seq(Rename)
      /\ \A i \in 1..Len(journal') :
            journal'[i].name = "primary" => i \in 1..Len(journal) /\ journal'[i] = journal[i]
  BY <1>3, <1>4, AppendFacts
<1>6. Shapes'
  BY <1>2, <1>5, FileFacts DEF Shapes
<1>7. Counters'
  BY GoToGood DEF Steps, BeforeReplace
<1>8. Durability'
  BY <1>2, <1>5 DEF Durability, Lasting
<1>9. Progress'
  BY <1>1, <1>2, FileFacts DEF Progress, BeforeBackup, BeforeReplace, BackupIsPrevious
<1>10. QED
  BY <1>6, <1>7, <1>8, <1>9

LEMMA OpenTmpGood ==
    ASSUME FilesInv, OpenTmp
    PROVE  FilesInv'
<1> USE DEF FilesInv, OpenTmp, At, GoTo, durable, bounds
<1>1. tmp' \in AFile
  BY CreatedFacts DEF Counters
<1>2. Shapes'
  BY <1>1 DEF Shapes
<1>3. Counters'
  BY GoToGood DEF Steps, BeforeReplace
<1>4. Durability'
  BY DEF Durability, Lasting
<1>5. Progress'
  BY <1>1, FileFacts DEF Progress, BeforeBackup, BeforeReplace, BackupIsPrevious
<1>6. QED
  BY <1>2, <1>3, <1>4, <1>5

LEMMA WriteTmpGood ==
    ASSUME FilesInv, WriteTmp
    PROVE  FilesInv'
<1> USE DEF FilesInv, WriteTmp, At, GoTo, durable, bounds
<1>1. tmp \in AFile /\ attempts \in Contents
  BY DEF Shapes, Progress, BeforeReplace, Counters, Contents
<1>2. tmp' \in AFile /\ tmp'.content = attempts
  BY <1>1, FilledFacts
<1>3. Shapes'
  BY <1>2 DEF Shapes
<1>4. Counters'
  BY GoToGood DEF Steps, BeforeReplace
<1>5. Durability'
  BY DEF Durability, Lasting
<1>6. Progress'
  BY <1>2, FileFacts DEF Progress, BeforeBackup, BeforeReplace, BackupIsPrevious
<1>7. QED
  BY <1>3, <1>4, <1>5, <1>6

LEMMA FsyncTmpGood ==
    ASSUME FilesInv, FsyncTmp
    PROVE  FilesInv'
<1> USE DEF FilesInv, FsyncTmp, At, GoTo, files, bounds
<1>1. tmp \in AFile /\ tmp.made \in Made
  BY FileFacts DEF Shapes, Progress
<1>2. Shapes'
  BY <1>1 DEF Shapes
<1>3. Counters'
  BY GoToGood DEF Steps, BeforeReplace
<1>4. Durability'
  BY DEF Durability, Lasting
<1>5. Progress'
  BY DEF Progress, BeforeBackup, BeforeReplace, BackupIsPrevious
<1>6. QED
  BY <1>2, <1>3, <1>4, <1>5

LEMMA ReplacePrimaryGood ==
    ASSUME FilesInv, ReplacePrimary
    PROVE  FilesInv'
<1> USE DEF FilesInv, ReplacePrimary, At, GoTo, bounds
<1>1. tmp \in AFile /\ tmp.content = attempts /\ tmp.made \in synced /\ attempts \in 1..MaxWrites
  BY DEF Shapes, Progress, Counters
<1>2. tmp \in WholeFile /\ tmp # None
  BY <1>1, FileFacts
<1>3. Lasting(tmp)
  BY <1>1, <1>2 DEF Lasting, Counters
<1> DEFINE rename == [name |-> "primary", file |-> tmp]
<1>4. rename \in Rename /\ rename.file = tmp
  BY <1>2, RenameFacts
<1>5. journal' = Append(journal, rename)
  OBVIOUS
<1>6. rename = [name |-> "primary", file |-> primary']
  OBVIOUS
<1> HIDE DEF rename
<1>7. /\ journal' \in Seq(Rename) /\ journal' # <<>> /\ journal'[Len(journal')] = rename
      /\ \A i \in 1..Len(journal') :
            journal'[i] = rename \/ (i \in 1..Len(journal) /\ journal'[i] = journal[i])
  BY <1>4, <1>5, AppendFacts
<1>8. Shapes'
  BY <1>2, <1>7 DEF Shapes
<1>9. Counters'
  BY GoToGood DEF Steps
<1>10. Durability'
  BY <1>3, <1>4, <1>7 DEF Durability, Lasting
<1>11. Progress'
  BY <1>1, <1>2, <1>6, <1>7 DEF Progress, BeforeBackup, BeforeReplace, BackupIsPrevious
<1>12. QED
  BY <1>8, <1>9, <1>10, <1>11

(* What has reached the disk is still whole and recent; the renames that are   *)
(* left are the ones that have not.                                            *)
LEMMA FlushFacts ==
    ASSUME Shapes, Durability, NEW n \in 0..Len(journal), Flush(n)
    PROVE  /\ onDisk' \in [primary : WholeFile \union {None}, backup : AFile \union {None}]
           /\ Lasting(onDisk'.primary)
           /\ journal' \in Seq(Rename) /\ Len(journal') = Len(journal) - n
           /\ \A i \in 1..Len(journal') : i + n \in 1..Len(journal) /\ journal'[i] = journal[i + n]
<1>1. Len(journal) \in Nat /\ n \in Nat /\ n <= Len(journal)
  BY JournalFacts DEF Shapes
<1>2. onDisk' = Persisted(n) /\ journal' = SubSeq(journal, n + 1, Len(journal))
  BY DEF Flush
<1>3. Lasting(onDisk'.primary)
  BY <1>1, <1>2, PersistedFacts DEF Durability
<1>4. \A i \in n + 1..Len(journal) : journal[i] \in Rename
  BY <1>1, JournalFacts DEF Shapes
<1>5. /\ journal' \in Seq(Rename)
      /\ Len(journal') = IF n + 1 <= Len(journal) THEN Len(journal) - (n + 1) + 1 ELSE 0
      /\ \A i \in 1..Len(journal) - (n + 1) + 1 : journal'[i] = journal[n + 1 + i - 1]
  <2>1. n + 1 \in Int /\ Len(journal) \in Int
    BY <1>1
  <2> HIDE DEF Rename
  <2>2. QED
    BY <1>2, <1>4, <2>1, SubSeqProperties
<1>6. QED
  BY <1>1, <1>2, <1>3, <1>5, PersistedFacts

LEMMA ReturnGood ==
    ASSUME FilesInv, Return
    PROVE  FilesInv'
<1> USE DEF FilesInv, Return, At, Unlocked
<1>1. primary # None /\ primary.content = attempts
  BY DEF Progress
<1>2. Counters'
  BY FilesAssumption DEF Counters, Steps, bounds
<1>3. Progress'
  BY DEF Progress, BeforeBackup, BeforeReplace
<1>4. CASE Flush(Len(journal)) /\ returned' = attempts /\ UNCHANGED bounds
  <2>1. Len(journal) \in 0..Len(journal)
    BY JournalFacts DEF Shapes
  <2>2. /\ onDisk' \in [primary : WholeFile \union {None}, backup : AFile \union {None}]
        /\ journal' \in Seq(Rename) /\ Len(journal') = 0
    BY <1>4, <2>1, JournalFacts, FlushFacts DEF Shapes
  <2>3. onDisk'.primary = primary
    <3>1. onDisk' = Persisted(Len(journal))
      BY <1>4 DEF Flush
    <3>2. CASE journal = <<>>
      BY <3>1, <3>2, PersistedNone DEF Progress
    <3>3. CASE journal # <<>>
      <4>1. Len(journal) \in 1..Len(journal)
        BY <3>3 DEF Shapes
      <4>2. journal[Len(journal)] = [name |-> "primary", file |-> primary]
        BY <3>3 DEF Progress
      <4>3. QED
        BY <3>1, <4>1, <4>2, PersistedLast
    <3>4. QED
      BY <3>2, <3>3
  <2>4. Lasting(primary)'
    BY <1>1, <1>4 DEF Durability, Lasting, Counters
  <2>5. Shapes'
    BY <2>2 DEF Shapes
  <2>6. Durability'
    BY <1>4, <2>2, <2>3, <2>4 DEF Durability, bounds
  <2>7. QED
    BY <1>2, <1>3, <2>5, <2>6
<1>5. CASE UNCHANGED <<onDisk, journal, returned, outages>>
  BY <1>2, <1>3, <1>5 DEF Shapes, Durability, Lasting
<1>6. QED
  BY <1>4, <1>5

LEMMA FailGood ==
    ASSUME FilesInv, Fail
    PROVE  FilesInv'
<1> USE DEF FilesInv, Fail, Unlocked, durable
<1>1. Shapes' /\ Counters'
  BY FilesAssumption DEF Shapes, Counters, Steps
<1>2. Durability' /\ Progress'
  BY DEF Durability, Lasting, Progress, BeforeBackup, BeforeReplace
<1>3. QED
  BY <1>1, <1>2

LEMMA KillGood ==
    ASSUME FilesInv, Kill
    PROVE  FilesInv'
<1> USE DEF FilesInv, Kill, Unlocked, durable
<1>1. Shapes' /\ Counters'
  BY FilesAssumption DEF Shapes, Counters, Steps
<1>2. Durability' /\ Progress'
  BY DEF Durability, Lasting, Progress, BeforeBackup, BeforeReplace
<1>3. QED
  BY <1>1, <1>2

LEMMA WriteBackGood ==
    ASSUME FilesInv, WriteBack
    PROVE  FilesInv'
<1> USE DEF FilesInv, WriteBack, files, bounds
<1>1. Counters'
  BY DEF Counters
<1>2. CASE /\ UNCHANGED <<onDisk, journal>>
           /\ \E file \in {primary, backup} :
                 Readable(file) /\ synced' = synced \union {file.made}
  <2>1. PICK file \in {primary, backup} : Readable(file) /\ synced' = synced \union {file.made}
    BY <1>2
  <2>2. file.made \in Made
    BY <2>1, FileFacts DEF Readable, Shapes
  <2>3. Shapes'
    BY <1>2, <2>1, <2>2 DEF Shapes
  <2>4. Durability'
    BY <1>2, <2>1 DEF Durability, Lasting
  <2>5. Progress'
    BY <1>2, <2>1 DEF Progress, BackupIsPrevious
  <2>6. QED
    BY <1>1, <2>3, <2>4, <2>5
<1>3. CASE journal # <<>> /\ Flush(1) /\ UNCHANGED synced
  <2>1. Len(journal) \in Nat /\ Len(journal) # 0 /\ 1 \in 0..Len(journal)
    BY <1>3 DEF Shapes
  <2>2. /\ onDisk' \in [primary : WholeFile \union {None}, backup : AFile \union {None}]
        /\ Lasting(onDisk'.primary)
        /\ journal' \in Seq(Rename) /\ Len(journal') = Len(journal) - 1
        /\ \A i \in 1..Len(journal') : i + 1 \in 1..Len(journal) /\ journal'[i] = journal[i + 1]
    BY <1>3, <2>1, FlushFacts
  <2>3. Shapes'
    BY <1>3, <2>2 DEF Shapes
  <2>4. Durability'
    BY <1>3, <2>2 DEF Durability, Lasting
  <2>5. ASSUME step = "directory"
        PROVE  IF journal' = <<>> THEN onDisk'.primary = primary
               ELSE journal'[Len(journal')] = [name |-> "primary", file |-> primary]
    <3>1. journal[Len(journal)] = [name |-> "primary", file |-> primary]
      BY <1>3, <2>5 DEF Progress
    <3>2. CASE Len(journal) = 1
      <4>1. onDisk'.primary = Persisted(1).primary /\ journal' = <<>>
        BY <1>3, <2>2, <3>2 DEF Flush
      <4>2. QED
        BY <2>1, <3>1, <3>2, <4>1, PersistedLast
    <3>3. CASE Len(journal) # 1
      <4>1. Len(journal') \in 1..Len(journal') /\ Len(journal') + 1 = Len(journal)
        BY <2>1, <2>2, <3>3
      <4>2. journal' # <<>>
        BY <4>1
      <4>3. QED
        BY <2>2, <3>1, <4>1, <4>2
    <3>4. QED
      BY <3>2, <3>3
  <2>6. Progress'
    <3>1. UNCHANGED <<primary, backup, pending, tmp, step, attempts, found, synced>>
      BY <1>3
    <3>2. QED
      BY <2>5, <3>1 DEF Progress, BackupIsPrevious
  <2>7. QED
    BY <1>1, <2>3, <2>4, <2>6
<1>4. QED
  BY <1>2, <1>3

(* Whatever was to be the primary was synced: a power loss cannot tear it. *)
LEMMA PowerLossGood ==
    ASSUME FilesInv, PowerLoss
    PROVE  FilesInv'
<1> USE DEF FilesInv, PowerLoss, Unlocked
<1>1. PICK n \in 0..Len(journal) : /\ primary' \in Survives(Persisted(n).primary)
                                   /\ backup' \in Survives(Persisted(n).backup)
  OBVIOUS
<1>2. /\ Persisted(n).primary \in WholeFile \union {None}
      /\ Persisted(n).backup \in AFile \union {None}
      /\ Lasting(Persisted(n).primary)
  BY <1>1, PersistedFacts DEF Durability, Shapes
<1>3. primary' = Persisted(n).primary
  BY <1>1, <1>2 DEF Survives, Lasting
<1>4. backup' \in AFile \union {None}
  <2>1. CASE backup' = Persisted(n).backup
    BY <1>2, <2>1
  <2>2. CASE /\ Persisted(n).backup \in AFile
             /\ backup' = [Persisted(n).backup EXCEPT !.content = Torn]
    BY <2>2, FilledFacts DEF Contents
  <2>3. QED
    BY <1>1, <1>2, <2>1, <2>2 DEF Survives
<1>5. synced' = {file.made : file \in {primary', backup'} \ {None}}
  OBVIOUS
<1>6. synced' \subseteq Made /\ (primary' # None => primary'.made \in synced')
  BY <1>2, <1>3, <1>4, <1>5, FileFacts
<1>7. onDisk' = [primary |-> primary', backup |-> backup'] /\ journal' = <<>>
  OBVIOUS
<1>8. Shapes'
  BY <1>2, <1>3, <1>4, <1>6, <1>7 DEF Shapes
<1>9. Counters'
  BY FilesAssumption DEF Counters, Steps
<1>10. Lasting(primary)'
  BY <1>2, <1>3, <1>6 DEF Lasting
<1>11. Durability'
  <2>1. outages' # 0
    BY DEF Counters
  <2>2. Len(journal') = 0 /\ onDisk'.primary = primary'
    BY <1>7
  <2>3. QED
    BY <1>10, <2>1, <2>2 DEF Durability
<1>12. Progress'
  BY DEF Progress, BeforeBackup, BeforeReplace
<1>13. QED
  BY <1>8, <1>9, <1>11, <1>12

LEMMA StutterGood == FilesInv /\ UNCHANGED vars => FilesInv'
BY DEF FilesInv, Shapes, Counters, Durability, Lasting, Progress, BackupIsPrevious,
       vars

LEMMA NextGood == FilesInv /\ [Next]_vars => FilesInv'
<1> SUFFICES ASSUME FilesInv, [Next]_vars PROVE FilesInv'
  OBVIOUS
<1>1. CASE \E p \in Processes : Acquire(p)
  BY <1>1, AcquireGood
<1>2. CASE SaveStep
  BY <1>2, StartCopyGood, FinishCopyGood, ReplaceBackupGood, OpenTmpGood, WriteTmpGood,
     FsyncTmpGood, ReplacePrimaryGood, ReturnGood DEF SaveStep
<1>3. CASE Fail \/ Kill \/ WriteBack \/ PowerLoss
  BY <1>3, FailGood, KillGood, WriteBackGood, PowerLossGood
<1>4. CASE UNCHANGED vars
  BY <1>4, StutterGood
<1>5. QED
  BY <1>1, <1>2, <1>3, <1>4 DEF Next

-------------------------------------------------------------------------------
THEOREM FilesInvariant == Spec => []FilesInv
<1>1. Init => FilesInv
  BY InitGood
<1>2. FilesInv /\ [Next]_vars => FilesInv'
  BY NextGood
<1>3. QED
  BY <1>1, <1>2, PTL DEF Spec

(* One process at a time is inside a save, and every file is whole, torn or    *)
(* missing.                                                                    *)
THEOREM Typing == Spec => []TypeOK
<1>1. FilesInv => TypeOK
  <2> SUFFICES ASSUME FilesInv PROVE TypeOK
    OBVIOUS
  <2>1. \A file \in {primary, backup, pending, tmp, onDisk.primary, onDisk.backup} :
           file = None \/ file \in AFile
    BY FileFacts DEF FilesInv, Shapes
  <2>2. \A file \in {primary, backup, pending, tmp, onDisk.primary, onDisk.backup} : IsFile(file)
    BY <2>1, FileFacts DEF IsFile
  <2>3. QED
    BY <2>2, FilesAssumption DEF TypeOK, FilesInv, Counters
<1>2. QED
  BY <1>1, FilesInvariant, PTL

(* state.json is whole at every moment: _save_state_unlocked fsyncs the        *)
(* temporary file before it renames it.                                        *)
THEOREM NeverTorn == Spec => []PrimaryNeverTorn
<1>1. FilesInv => PrimaryNeverTorn
  BY FileFacts DEF FilesInv, Shapes, PrimaryNeverTorn, Readable
<1>2. QED
  BY <1>1, FilesInvariant, PTL

(* A save that returned with its directory synced is never undone by a later   *)
(* failure, kill or power loss.                                                *)
THEOREM SaveSurvives == Spec => []ReturnedSaveSurvives
<1>1. FilesInv => ReturnedSaveSurvives
  BY DEF FilesInv, Durability, Lasting, ReturnedSaveSurvives
<1>2. QED
  BY <1>1, FilesInvariant, PTL

(* Without a power loss state.json.bak is whole as well: a copy that was cut   *)
(* short never leaves the pending file.                                        *)
THEOREM BackupWhole == Spec => []BackupWholeWithoutOutage
<1>1. FilesInv => BackupWholeWithoutOutage
  BY FileFacts DEF FilesInv, Durability, BackupWholeWithoutOutage, Readable
<1>2. QED
  BY <1>1, FilesInvariant, PTL

-------------------------------------------------------------------------------
(* The refinement: what each step is to whoever looks at the files with the  *)
(* lock in hand.                                                             *)

LEMMA SeenFacts ==
    ASSUME FilesInv
    PROVE  /\ Seen(primary, found.primary) \in Nat \union {None}
           /\ holder = None => /\ Seen(primary, found.primary) = None <=> primary = None
                               /\ primary # None =>
                                     Seen(primary, found.primary) = primary.content
                               /\ backup = None => Seen(backup, found.backup) = None
                               /\ backup # None => Seen(backup, found.backup) = backup.content
           /\ holder # None => /\ Seen(primary, found.primary) = None <=> found.primary = None
                               /\ found.primary # None =>
                                     Seen(primary, found.primary) = found.primary.content
                               /\ found.backup = None => Seen(backup, found.backup) = None
                               /\ found.backup # None =>
                                     Seen(backup, found.backup) = found.backup.content
<1>1. \A file \in {primary, found.primary} :
         file = None \/ (file # None /\ file.content \in Nat /\ file.content # None)
  BY FileFacts, FilesAssumption DEF FilesInv, Shapes
<1>2. QED
  BY <1>1 DEF Seen

PrimarySeen == Seen(primary, found.primary)
BackupSeen == Seen(backup, found.backup)

(* A step that leaves the lock with its holder changes nothing that is seen. *)
LEMMA HeldStutters ==
    ASSUME holder # None, holder' = holder, found' = found, outages' = outages
    PROVE  UNCHANGED <<PrimarySeen, BackupSeen, outages>>
BY DEF PrimarySeen, BackupSeen, Seen

(* Letting go of the lock before the primary is replaced: an interrupted save, *)
(* or none at all when the backup was not replaced either.                     *)
LEMMA LetGoEarly ==
    ASSUME FilesInv, FilesInv', holder # None, holder' = None, step # "directory",
           UNCHANGED <<primary, backup, found, outages>>
    PROVE  Abstract!Interrupted \/ UNCHANGED <<PrimarySeen, BackupSeen, outages>>
<1>1. CASE step \in BeforeBackup
  <2>1. primary = found.primary /\ backup = found.backup
    BY <1>1 DEF FilesInv, Progress
  <2>2. QED
    BY <2>1 DEF PrimarySeen, BackupSeen, Seen
<1>2. CASE step \in BeforeReplace
  <2>1. primary = found.primary /\ BackupIsPrevious
    BY <1>2 DEF FilesInv, Progress
  <2>2. PrimarySeen' = PrimarySeen
    BY <2>1 DEF PrimarySeen, Seen
  <2>3. BackupSeen' = IF PrimarySeen = None THEN BackupSeen ELSE PrimarySeen
    BY <2>1, SeenFacts DEF PrimarySeen, BackupSeen, Seen, BackupIsPrevious
  <2>4. QED
    BY <2>2, <2>3 DEF Abstract!Interrupted, Abstract!PreviousFile, PrimarySeen, BackupSeen
<1>3. QED
  BY <1>1, <1>2 DEF FilesInv, Counters, Steps

(* Letting go of it after the primary is replaced: the save took place. *)
LEMMA LetGoWritten ==
    ASSUME FilesInv, holder # None, holder' = None, step = "directory",
           UNCHANGED <<primary, backup, found, outages>>
    PROVE  Abstract!Write
<1>1. primary # None /\ primary.content = attempts /\ BackupIsPrevious
  BY DEF FilesInv, Progress
<1>2. PrimarySeen' \in Nat
  BY <1>1 DEF PrimarySeen, Seen, FilesInv, Counters
<1>3. BackupSeen' = IF PrimarySeen = None THEN BackupSeen ELSE PrimarySeen
  BY <1>1, SeenFacts DEF PrimarySeen, BackupSeen, Seen, BackupIsPrevious
<1>4. QED
  BY <1>2, <1>3 DEF Abstract!Write, Abstract!PreviousFile, PrimarySeen, BackupSeen

LEMMA InitSeen == Init => Abstract!Init
BY DEF Init, Abstract!Init, Seen

LEMMA StepSeen ==
    FilesInv /\ [Next]_vars =>
        Abstract!Next \/ UNCHANGED <<PrimarySeen, BackupSeen, outages>>
<1> SUFFICES ASSUME FilesInv, [Next]_vars
             PROVE  Abstract!Next \/ UNCHANGED <<PrimarySeen, BackupSeen, outages>>
  OBVIOUS
<1>1. FilesInv'
  BY NextGood
<1>2. ASSUME NEW p \in Processes, Acquire(p)
      PROVE  UNCHANGED <<PrimarySeen, BackupSeen, outages>>
  <2>1. holder = None /\ holder' # None
    BY <1>2, FilesAssumption DEF Acquire
  <2>2. found'.primary = primary /\ found'.backup = backup
    BY <1>2 DEF Acquire
  <2>3. QED
    BY <1>2, <2>1, <2>2 DEF Acquire, PrimarySeen, BackupSeen, Seen, files, bounds
<1>3. CASE SaveStep /\ ~ Return
  <2>1. holder # None /\ holder' = holder /\ found' = found /\ outages' = outages
    BY <1>3 DEF SaveStep, StartCopy, FinishCopy, ReplaceBackup, OpenTmp, WriteTmp, FsyncTmp,
       ReplacePrimary, At, GoTo, bounds
  <2>2. QED
    BY <2>1, HeldStutters
<1>4. CASE Return
  BY <1>4, LetGoWritten DEF Return, At, Unlocked, bounds, Abstract!Next
<1>5. CASE Fail
  BY <1>1, <1>5, LetGoEarly DEF Fail, Unlocked, Abstract!Next
<1>6. CASE Kill
  BY <1>1, <1>6, LetGoEarly, LetGoWritten DEF Kill, Unlocked, Abstract!Next
<1>7. CASE WriteBack
  BY <1>7 DEF WriteBack, files, bounds, PrimarySeen, BackupSeen, Seen
<1>8. CASE PowerLoss
  <2>1. primary' \in WholeFile \union {None} /\ holder' = None
    BY <1>1, <1>8 DEF FilesInv, Shapes, PowerLoss, Unlocked
  <2>2. PrimarySeen' \in Nat \union {None}
    BY <2>1, FileFacts DEF PrimarySeen, Seen
  <2>3. QED
    BY <1>8, <2>2 DEF PowerLoss, PrimarySeen, Abstract!Next, Abstract!PowerLoss
<1>9. CASE UNCHANGED vars
  BY <1>9 DEF vars, PrimarySeen, BackupSeen, Seen
<1>10. QED
  BY <1>2, <1>3, <1>4, <1>5, <1>6, <1>7, <1>8, <1>9 DEF Next, SaveStep

(* A save is atomic to whoever takes the lock next: it left a new primary with *)
(* what it replaced in the backup, or the primary it found, whatever failed    *)
(* half-way.                                                                   *)
THEOREM SavesAtomic == Spec => SavesAreAtomic
<1>1. Init => Abstract!Init
  BY InitSeen
<1>2. FilesInv /\ [Next]_vars
        => [Abstract!Next]_<<Seen(primary, found.primary), Seen(backup, found.backup), outages>>
  BY StepSeen DEF PrimarySeen, BackupSeen
<1>3. QED
  BY <1>1, <1>2, FilesInvariant, PTL DEF Spec, SavesAreAtomic, Abstract!Spec
===============================================================================
