------------------------ MODULE UpgradeRelease_proofs ------------------------
(***************************************************************************)
(* upgrade.sh for any number of units, runs, faults and saves.  The        *)
(* invariant annotates the script: what holds at every command of the      *)
(* upgrade (Forward), at every step of the rollback (Backward) and between *)
(* two runs (Between).  Everything a rollback relies on is put in terms of *)
(* the flags, for they are all it knows; it is claimed as long as nothing  *)
(* that excuses it (Excused) has happened.  The units are those the script *)
(* takes note of: what a job may still do while they are stopped is only   *)
(* to save the state in the format it found.                               *)
(***************************************************************************)
EXTENDS UpgradeRelease, TLAPS

Untouched == {"prepare", "capture", "stop"}
Stateful == {"copy", "archive", "mutation", "migrate"}
Migrated == {"release", "markCutover", "switch", "moveAside"}
Switched == {"markWrapper", "wrapper", "start"}
Verdict == {"check", "clear1"} \union Late
Main == Untouched \union Stateful \union Migrated \union {"link"} \union Switched \union Verdict
Undoing == {"undoStop", "undoState", "undoStateBack", "undoCode", "undoCodeBack", "undoWrapper",
            "cleanup", "undoStart"}

(* A state the run found, with every save since. *)
Same(s) == s # None /\ s.format = was.state.format /\ s.edits >= was.state.edits

(* The units that are up and that the last stop has not missed. *)
Heeded == Up \union (Jobs \ stray)
AllStopped == Up = {} /\ Jobs \subseteq stray

(* The target runs in every unit the script had stopped. *)
AllOn == \A u \in Units \ Oneshots : running[u] = IF u \in was.up THEN target ELSE None

(* The code that was there can be put back from what the flags and names tell. *)
Restorable ==
    \/ previous.kind = "symlink" /\ previous.to = was.code
    \/ previous.kind = "directory" /\ aside = was.code
    \/ previous.kind = "directory" /\ aside = None /\ code = was.code

(* No release is younger than the target of the last run. *)
Shapes ==
    /\ pc \in {"idle"} \union Main \union Undoing /\ runs \in 0..MaxRuns
    /\ {code, aside, wrapper} \subseteq (0..runs) \union {None}
    /\ {state, copy, failed} \subseteq State \union {None}
    /\ running \in [Units -> (0..runs) \union {None}] /\ active \subseteq Units \ Oneshots
    /\ intact \in BOOLEAN
    /\ previous \in [kind : {None, "directory", "symlink"}, to : (0..runs) \union {None},
                     wrapper : (0..runs) \union {None}]
    /\ was \in [code : 0..runs, state : State, up : SUBSET (Units \ Oneshots),
                late : BOOLEAN, newer : BOOLEAN]
    /\ kind \in {"directory", "symlink"}
    /\ (pc = "idle") <=> (result # "running")

(* The flags are set before what they guard, at these commands. *)
FlagsAhead ==
    pc \in Main \ Late =>
        /\ "quiesced" \in flags <=> pc \notin {"prepare", "capture"}
        /\ "snapshot" \in flags <=> pc \notin Untouched \union {"copy"}
        /\ "mutation" \in flags <=> pc \notin Untouched \union {"copy", "archive", "mutation"}
        /\ "cutover" \in flags <=> pc \in {"switch", "moveAside", "link", "check", "clear1"}
                                          \union Switched

Forward ==
    /\ pc \in Main => intact /\ state # None
    /\ pc \in Untouched => Up = was.up
    /\ pc \in Main \ {"prepare", "capture"} => active = was.up
    /\ pc \in Stateful \union Migrated \union {"link"} \union Switched => AllStopped
    /\ pc \in Untouched \union Stateful /\ ~ was.newer => Same(state)
    /\ pc \in Main \ (Untouched \union {"copy", "prune"}) /\ ~ was.newer => Same(copy)
    /\ pc \in Main \ (Untouched \union Stateful) => state.format = target
    /\ pc \in Untouched \union Stateful \union Migrated => code = was.code /\ aside = None
    /\ pc = "switch" => previous.kind = "symlink" /\ previous.to = was.code
    /\ pc = "moveAside" => previous.kind = "directory"
    /\ pc = "link" => previous.kind = "directory" /\ aside = was.code
    /\ pc \in Switched \union Verdict => code = target /\ Restorable
    /\ pc \in {"start"} \union Verdict => wrapper = target
    /\ pc \in Verdict => AllOn

(* The flags tell a rollback what there is to undo, and what they do not tell  *)
(* is as it was.                                                               *)
Backward ==
    pc \in Undoing =>
        /\ "mutation" \in flags => {"snapshot", "quiesced"} \subseteq flags
        /\ "cutover" \in flags => "mutation" \in flags
        /\ "mutation" \notin flags => intact /\ Same(state) /\ code = was.code
        /\ "quiesced" \in flags => active = was.up /\ Up \subseteq was.up
        /\ "quiesced" \notin flags => Up = was.up
        /\ pc \in {"undoStop", "undoState"} =>
              intact /\ state # None /\ ("mutation" \in flags => Same(copy))
        /\ pc = "undoStateBack" =>
              intact /\ "mutation" \in flags /\ Same(copy) /\ failed # None
        /\ pc \in {"undoStop", "undoState", "undoStateBack", "undoCode"} =>
              IF "cutover" \in flags THEN Restorable ELSE code = was.code
        /\ pc \in {"undoCode", "undoCodeBack", "undoWrapper", "cleanup", "undoStart"} =>
              (intact => Same(state)) /\ (Same(state) \/ Same(copy))
        /\ pc = "undoCodeBack" => "mutation" \in flags /\ aside = was.code
        /\ pc \in {"undoWrapper", "cleanup", "undoStart"} => (intact => code = was.code)
        /\ pc \in Undoing \ {"undoStop", "cleanup", "undoStart"} /\ "quiesced" \in flags => AllStopped

Between ==
    pc = "idle" =>
        /\ result \in {"rolledback", "incomplete", "killed"} => Same(state) \/ Same(copy)
        /\ result = "rolledback" => Same(state) /\ code = was.code /\ Up = was.up

Upgraded ==
    result = "upgraded" =>
        /\ state # None /\ {code, state.format, wrapper} = {target}
        /\ AllOn

(* What runs is what /opt/hydra leads to, and it reads the state there is. *)
Consistent ==
    \A u \in Heeded : running[u] = code /\ (state # None => code >= state.format)

(* So it was when the run began. *)
WasConsistent == pc # "idle" => (was.up # {} => was.code >= was.state.format)

UpgradeInv ==
    /\ Shapes /\ FlagsAhead /\ Forward /\ Upgraded
    /\ ~ Excused => Backward /\ Between /\ Consistent /\ WasConsistent

-------------------------------------------------------------------------------
(* The units that run after some were stopped or started.                    *)

LEMMA StoppedFacts ==
    ASSUME Shapes, NEW units \in SUBSET (Units \ Oneshots), running' = Stopped(units)
    PROVE  /\ running' \in [Units -> (0..runs) \union {None}]
           /\ Up' = Up \ units /\ Jobs' = Jobs
           /\ \A u \in Up' \union Jobs' : running'[u] = running[u]
BY UpgradeAssumption DEF Shapes, Stopped, Up, Jobs

LEMMA StartedFacts ==
    ASSUME Shapes, code # None, NEW units \in SUBSET (Units \ Oneshots),
           running' = Started(units)
    PROVE  /\ running' \in [Units -> (0..runs) \union {None}]
           /\ Up' = Up \union units /\ Jobs' = Jobs
           /\ \A u \in Up' \union Jobs' : running'[u] = IF u \in units THEN code
                                                       ELSE running[u]
BY UpgradeAssumption DEF Shapes, Started, Up, Jobs

LEMMA StateFacts ==
    /\ None \notin State
    /\ \A s \in State : s.format \in Nat /\ s.edits \in Nat /\ s # None
    /\ MaxRuns \in Nat /\ None \notin Nat /\ Releases \subseteq Nat /\ None \notin Releases
    /\ runs \in 0..MaxRuns => /\ runs \in Nat /\ 0..runs \subseteq Releases
                             /\ 0..runs \subseteq Nat /\ None \notin 0..runs
<1>1. MaxRuns \in Nat /\ None \notin Nat
  BY UpgradeAssumption
<1>2. Releases \subseteq Nat
  BY <1>1 DEF Releases
<1>3. runs \in 0..MaxRuns => /\ runs \in Nat /\ 0..runs \subseteq Releases
                            /\ 0..runs \subseteq Nat
  BY <1>1 DEF Releases
<1>4. QED
  BY <1>1, <1>2, <1>3, SentinelAssumption DEF State

(* A state that is migrated, and a copy that is torn. *)
LEMMA MigratedFacts ==
    ASSUME NEW s \in State, NEW format \in Releases
    PROVE  /\ [s EXCEPT !.format = format] \in State
           /\ [s EXCEPT !.format = format].format = format
           /\ [s EXCEPT !.format = format].edits = s.edits
BY DEF State

LEMMA TornFacts ==
    ASSUME NEW s \in State
    PROVE  [s EXCEPT !.edits = 0] \in State
BY DEF State

-------------------------------------------------------------------------------
(* A step inside the upgrade has nothing to say of the rollback, a step of   *)
(* the rollback nothing of the upgrade.                                      *)

LEMMA MainGood ==
    ASSUME UpgradeInv, pc \in Main, pc' \in Main, UNCHANGED <<was, result>>,
           Shapes', FlagsAhead', Forward', ~ Excused => Consistent'
    PROVE  UpgradeInv'
<1>1. result = "running" /\ pc # "idle" /\ pc' # "idle" /\ pc' \notin Undoing
  BY DEF UpgradeInv, Shapes, Main, Untouched, Stateful, Migrated, Switched, Verdict, Late, Undoing
<1>2. QED
  BY <1>1 DEF UpgradeInv, Excused, Backward, Between, Upgraded, WasConsistent

LEMMA UndoGood ==
    ASSUME UpgradeInv, pc \in Undoing, pc' \in Undoing, UNCHANGED <<was, result>>,
           Shapes', ~ Excused => Backward' /\ Consistent'
    PROVE  UpgradeInv'
<1>1. result = "running" /\ pc # "idle" /\ pc' # "idle" /\ pc' \notin Main
  BY DEF UpgradeInv, Shapes, Main, Untouched, Stateful, Migrated, Switched, Verdict, Late, Undoing
<1>2. Forward' /\ FlagsAhead'
  BY <1>1 DEF Forward, FlagsAhead, Main, Untouched, Stateful, Migrated, Switched, Verdict, Late
<1>3. QED
  BY <1>1, <1>2 DEF UpgradeInv, Excused, Between, Upgraded, WasConsistent

-------------------------------------------------------------------------------
(* The commands of the upgrade.                                              *)

LEMMA PrepareGood ==
    ASSUME UpgradeInv, Prepare
    PROVE  UpgradeInv'
<1> USE DEF UpgradeInv, Prepare, At, Begin, Set, NoFault, disk,
            Main, Untouched, Stateful, Migrated, Switched, Verdict, Late
<1>1. Shapes'
  BY StateFacts DEF Shapes
<1>2. FlagsAhead'
  BY DEF FlagsAhead
<1>3. Forward'
  BY StateFacts DEF Shapes, Forward, Same, Restorable, AllStopped, AllOn, Up, Jobs, target
<1>4. ~ Excused => Consistent'
  BY DEF Excused, Consistent, Heeded, Up, Jobs
<1>5. QED
  BY <1>1, <1>2, <1>3, <1>4, MainGood

LEMMA CaptureUnitsGood ==
    ASSUME UpgradeInv, CaptureUnits
    PROVE  UpgradeInv'
<1> USE DEF UpgradeInv, CaptureUnits, At, Begin, Set, NoFault, disk,
            Main, Untouched, Stateful, Migrated, Switched, Verdict, Late
<1>1. Shapes'
  BY StateFacts DEF Shapes, Up
<1>2. FlagsAhead'
  BY DEF FlagsAhead
<1>3. Forward'
  BY StateFacts DEF Shapes, Forward, Same, Restorable, AllStopped, AllOn, Up, Jobs, target
<1>4. ~ Excused => Consistent'
  BY DEF Excused, Consistent, Heeded, Up, Jobs
<1>5. QED
  BY <1>1, <1>2, <1>3, <1>4, MainGood

LEMMA StopUnitsGood ==
    ASSUME UpgradeInv, StopUnits
    PROVE  UpgradeInv'
<1> USE DEF UpgradeInv, StopUnits, Begin, NoFault, disk,
            Main, Untouched, Stateful, Migrated, Switched, Verdict, Late
<1>1. active \in SUBSET (Units \ Oneshots) /\ Up = active
  BY DEF Shapes, Forward
<1>2. running' \in [Units -> (0..runs) \union {None}] /\ Up' = {} /\ Jobs' = Jobs
  BY <1>1, StoppedFacts
<1>3. AllStopped' /\ Heeded' = {}
  BY <1>2 DEF AllStopped, Heeded
<1>4. Shapes'
  BY <1>2 DEF Shapes
<1>5. FlagsAhead'
  BY DEF FlagsAhead
<1>6. Forward'
  <2>1. UNCHANGED <<state, code, aside, copy, active, intact, was>> /\ pc = "stop" /\ pc' = "copy"
    OBVIOUS
  <2>2. QED
    BY <1>3, <2>1 DEF Forward, Same
<1>7. ~ Excused => Consistent'
  BY <1>3 DEF Consistent
<1>8. QED
  BY <1>4, <1>5, <1>6, <1>7, MainGood

LEMMA CopyStateGood ==
    ASSUME UpgradeInv, CopyState
    PROVE  UpgradeInv'
<1> USE DEF UpgradeInv, CopyState, At, Begin, Set, NoFault, disk,
            Main, Untouched, Stateful, Migrated, Switched, Verdict, Late
<1>1. Shapes'
  BY StateFacts DEF Shapes
<1>2. FlagsAhead'
  BY DEF FlagsAhead
<1>3. Forward'
  BY StateFacts DEF Shapes, Forward, Same, Restorable, AllStopped, AllOn, Up, Jobs, target
<1>4. ~ Excused => Consistent'
  BY DEF Excused, Consistent, Heeded, Up, Jobs
<1>5. QED
  BY <1>1, <1>2, <1>3, <1>4, MainGood

LEMMA ArchiveGood ==
    ASSUME UpgradeInv, Archive
    PROVE  UpgradeInv'
<1> USE DEF UpgradeInv, Archive, At, Begin, Set, NoFault, disk,
            Main, Untouched, Stateful, Migrated, Switched, Verdict, Late
<1>1. Shapes'
  BY StateFacts DEF Shapes
<1>2. FlagsAhead'
  BY DEF FlagsAhead
<1>3. Forward'
  BY StateFacts DEF Shapes, Forward, Same, Restorable, AllStopped, AllOn, Up, Jobs, target
<1>4. ~ Excused => Consistent'
  BY DEF Excused, Consistent, Heeded, Up, Jobs
<1>5. QED
  BY <1>1, <1>2, <1>3, <1>4, MainGood

LEMMA MarkMutationGood ==
    ASSUME UpgradeInv, MarkMutation
    PROVE  UpgradeInv'
<1> USE DEF UpgradeInv, MarkMutation, At, Begin, Set, NoFault, disk,
            Main, Untouched, Stateful, Migrated, Switched, Verdict, Late
<1>1. Shapes'
  BY StateFacts DEF Shapes
<1>2. FlagsAhead'
  BY DEF FlagsAhead
<1>3. Forward'
  BY StateFacts DEF Shapes, Forward, Same, Restorable, AllStopped, AllOn, Up, Jobs, target
<1>4. ~ Excused => Consistent'
  BY DEF Excused, Consistent, Heeded, Up, Jobs
<1>5. QED
  BY <1>1, <1>2, <1>3, <1>4, MainGood

LEMMA MigrateStateGood ==
    ASSUME UpgradeInv, MigrateState
    PROVE  UpgradeInv'
<1> USE DEF UpgradeInv, MigrateState, At, Begin, NoFault, disk,
            Main, Untouched, Stateful, Migrated, Switched, Verdict, Late
<1>1. state \in State /\ target \in Releases
  BY StateFacts DEF Shapes, Forward, target
<1>2. /\ state' \in State /\ state' # None
      /\ state'.format = target
  BY <1>1, MigratedFacts, StateFacts
<1>3. Shapes'
  BY <1>2 DEF Shapes
<1>4. FlagsAhead'
  BY DEF FlagsAhead
<1>5. AllStopped' /\ Heeded' = {}
  BY DEF Forward, AllStopped, Heeded, Up, Jobs
<1>6. Forward'
  <2>1. /\ pc = "migrate" /\ pc' = "release"
        /\ UNCHANGED <<code, aside, copy, active, intact, was, runs, running>>
    OBVIOUS
  <2>2. QED
    BY <1>2, <1>5, <2>1 DEF Forward, Same, target
<1>7. ~ Excused => Consistent'
  BY <1>5 DEF Consistent
<1>8. QED
  BY <1>3, <1>4, <1>6, <1>7, MainGood

LEMMA PublishReleaseGood ==
    ASSUME UpgradeInv, PublishRelease
    PROVE  UpgradeInv'
<1> USE DEF UpgradeInv, PublishRelease, At, Begin, Set, NoFault, disk,
            Main, Untouched, Stateful, Migrated, Switched, Verdict, Late
<1>1. Shapes'
  BY StateFacts DEF Shapes
<1>2. FlagsAhead'
  BY DEF FlagsAhead
<1>3. Forward'
  BY StateFacts DEF Shapes, Forward, Same, Restorable, AllStopped, AllOn, Up, Jobs, target
<1>4. ~ Excused => Consistent'
  BY DEF Excused, Consistent, Heeded, Up, Jobs
<1>5. QED
  BY <1>1, <1>2, <1>3, <1>4, MainGood

LEMMA MarkCutoverGood ==
    ASSUME UpgradeInv, MarkCutover
    PROVE  UpgradeInv'
<1> USE DEF UpgradeInv, MarkCutover, At, Begin, Set, NoFault, disk,
            Main, Untouched, Stateful, Migrated, Switched, Verdict, Late
<1>1. Shapes'
  BY StateFacts DEF Shapes
<1>2. FlagsAhead'
  BY DEF FlagsAhead
<1>3. Forward'
  BY StateFacts DEF Shapes, Forward, Same, Restorable, AllStopped, AllOn, Up, Jobs, target
<1>4. ~ Excused => Consistent'
  BY DEF Excused, Consistent, Heeded, Up, Jobs
<1>5. QED
  BY <1>1, <1>2, <1>3, <1>4, MainGood

LEMMA SwitchLinkGood ==
    ASSUME UpgradeInv, SwitchLink
    PROVE  UpgradeInv'
<1> USE DEF UpgradeInv, SwitchLink, At, Begin, Set, NoFault, disk,
            Main, Untouched, Stateful, Migrated, Switched, Verdict, Late
<1>1. Shapes'
  BY StateFacts DEF Shapes, target
<1>2. FlagsAhead'
  BY DEF FlagsAhead
<1>3. Forward'
  BY StateFacts DEF Shapes, Forward, Same, Restorable, AllStopped, AllOn, Up, Jobs, target
<1>4. Heeded' = {}
  BY DEF Forward, AllStopped, Heeded, Up, Jobs
<1>5. ~ Excused => Consistent'
  BY <1>4 DEF Consistent
<1>6. QED
  BY <1>1, <1>2, <1>3, <1>5, MainGood

LEMMA MoveAsideGood ==
    ASSUME UpgradeInv, MoveAside
    PROVE  UpgradeInv'
<1> USE DEF UpgradeInv, MoveAside, At, Begin, Set, NoFault, disk,
            Main, Untouched, Stateful, Migrated, Switched, Verdict, Late
<1>1. Shapes'
  BY StateFacts DEF Shapes
<1>2. FlagsAhead'
  BY DEF FlagsAhead
<1>3. Forward'
  BY StateFacts DEF Shapes, Forward, Same, Restorable, AllStopped, AllOn, Up, Jobs, target
<1>4. Heeded' = {}
  BY DEF Forward, AllStopped, Heeded, Up, Jobs
<1>5. ~ Excused => Consistent'
  BY <1>4 DEF Consistent
<1>6. QED
  BY <1>1, <1>2, <1>3, <1>5, MainGood

LEMMA LinkReleaseGood ==
    ASSUME UpgradeInv, LinkRelease
    PROVE  UpgradeInv'
<1> USE DEF UpgradeInv, LinkRelease, At, Begin, Set, NoFault, disk,
            Main, Untouched, Stateful, Migrated, Switched, Verdict, Late
<1>1. Shapes'
  BY StateFacts DEF Shapes, target
<1>2. FlagsAhead'
  BY DEF FlagsAhead
<1>3. Forward'
  BY StateFacts DEF Shapes, Forward, Same, Restorable, AllStopped, AllOn, Up, Jobs, target
<1>4. Heeded' = {}
  BY DEF Forward, AllStopped, Heeded, Up, Jobs
<1>5. ~ Excused => Consistent'
  BY <1>4 DEF Consistent
<1>6. QED
  BY <1>1, <1>2, <1>3, <1>5, MainGood

LEMMA MarkWrapperGood ==
    ASSUME UpgradeInv, MarkWrapper
    PROVE  UpgradeInv'
<1> USE DEF UpgradeInv, MarkWrapper, At, Begin, Set, NoFault, disk,
            Main, Untouched, Stateful, Migrated, Switched, Verdict, Late
<1>1. Shapes'
  BY StateFacts DEF Shapes
<1>2. FlagsAhead'
  BY DEF FlagsAhead
<1>3. Forward'
  BY StateFacts DEF Shapes, Forward, Same, Restorable, AllStopped, AllOn, Up, Jobs, target
<1>4. ~ Excused => Consistent'
  BY DEF Excused, Consistent, Heeded, Up, Jobs
<1>5. QED
  BY <1>1, <1>2, <1>3, <1>4, MainGood

LEMMA WriteWrapperGood ==
    ASSUME UpgradeInv, WriteWrapper
    PROVE  UpgradeInv'
<1> USE DEF UpgradeInv, WriteWrapper, At, Begin, Set, NoFault, disk,
            Main, Untouched, Stateful, Migrated, Switched, Verdict, Late
<1>1. Shapes'
  BY StateFacts DEF Shapes, target
<1>2. FlagsAhead'
  BY DEF FlagsAhead
<1>3. Forward'
  BY StateFacts DEF Shapes, Forward, Same, Restorable, AllStopped, AllOn, Up, Jobs, target
<1>4. ~ Excused => Consistent'
  BY DEF Excused, Consistent, Heeded, Up, Jobs
<1>5. QED
  BY <1>1, <1>2, <1>3, <1>4, MainGood

LEMMA StartUnitsGood ==
    ASSUME UpgradeInv, StartUnits
    PROVE  UpgradeInv'
<1> USE DEF UpgradeInv, StartUnits, At, Begin, NoFault, disk,
            Main, Untouched, Stateful, Migrated, Switched, Verdict, Late
<1>1. /\ active \in SUBSET (Units \ Oneshots) /\ active = was.up /\ Up = {}
      /\ Jobs \subseteq stray /\ code = target /\ code \in Nat /\ code # None
  BY StateFacts DEF Shapes, Forward, AllStopped, target
<1>2. /\ running' \in [Units -> (0..runs) \union {None}] /\ Up' = active /\ Jobs' = Jobs
      /\ \A u \in Up' : running'[u] = code
  BY <1>1, StartedFacts
<1>3. AllOn'
  <2>1. was' = was /\ target' = target
    BY DEF target
  <2>2. QED
    BY <1>1, <1>2, <2>1 DEF AllOn, Up
<1>4. Shapes'
  BY <1>2 DEF Shapes
<1>5. FlagsAhead'
  BY DEF FlagsAhead
<1>6. Forward'
  <2>1. /\ pc = "start" /\ pc' = "check"
        /\ UNCHANGED <<code, aside, copy, state, wrapper, previous, active, intact, was, runs>>
    OBVIOUS
  <2>2. QED
    BY <1>3, <2>1 DEF Forward, Same, Restorable, target
<1>7. ~ Excused => Consistent'
  <2>1. state.format = code /\ state' = state /\ code' = code /\ Heeded' = Up'
    BY <1>1, <1>2 DEF Forward, Heeded
  <2>2. QED
    BY <1>1, <1>2, <2>1, StateFacts DEF Consistent
<1>8. QED
  BY <1>4, <1>5, <1>6, <1>7, MainGood

LEMMA PostCheckGood ==
    ASSUME UpgradeInv, PostCheck
    PROVE  UpgradeInv'
<1> USE DEF UpgradeInv, PostCheck, At, Begin, Set, NoFault, disk,
            Main, Untouched, Stateful, Migrated, Switched, Verdict, Late
<1>1. Shapes'
  BY StateFacts DEF Shapes
<1>2. FlagsAhead'
  BY DEF FlagsAhead
<1>3. Forward'
  BY StateFacts DEF Shapes, Forward, Same, Restorable, AllStopped, AllOn, Up, Jobs, target
<1>4. ~ Excused => Consistent'
  BY DEF Excused, Consistent, Heeded, Up, Jobs
<1>5. QED
  BY <1>1, <1>2, <1>3, <1>4, MainGood

LEMMA ClearFlagsGood ==
    ASSUME UpgradeInv, ClearFlags
    PROVE  UpgradeInv'
<1> USE DEF UpgradeInv, disk
<1>1. /\ pc \in {"clear1", "clear2", "clear3", "clear4", "clear5", "clear6"}
      /\ pc' \in {"clear2", "clear3", "clear4", "clear5", "clear6", "tidy"}
      /\ UNCHANGED <<active, previous, disk, state, running, stray, runs, faults, edits, failed,
                     was, result, intact>>
  BY DEF ClearFlags, Clear, At, Begin, NoFault
<1> USE DEF Main, Untouched, Stateful, Migrated, Switched, Verdict, Late
<1>2. Shapes'
  BY <1>1 DEF Shapes
<1>3. FlagsAhead'
  BY <1>1 DEF FlagsAhead
<1>4. Forward'
  BY <1>1 DEF Forward, Same, Restorable, AllOn, target
<1>5. ~ Excused => Consistent'
  BY <1>1 DEF Excused, Consistent, Heeded, Up, Jobs
<1>6. QED
  BY <1>1, <1>2, <1>3, <1>4, <1>5, MainGood

(* The copy goes: the verdict is out. *)
LEMMA TidyGood ==
    ASSUME UpgradeInv, Tidy
    PROVE  UpgradeInv'
<1> USE DEF UpgradeInv, Tidy, At, Begin, NoFault,
            Main, Untouched, Stateful, Migrated, Switched, Verdict, Late
<1>1. Shapes'
  BY StateFacts DEF Shapes
<1>2. FlagsAhead'
  BY DEF FlagsAhead
<1>3. Forward'
  BY StateFacts DEF Forward, Restorable, AllOn, target
<1>4. ~ Excused => Consistent'
  BY DEF Excused, Consistent, Heeded, Up, Jobs
<1>5. QED
  BY <1>1, <1>2, <1>3, <1>4, MainGood

(* The end of a run that went well. *)
LEMMA PruneGood ==
    ASSUME UpgradeInv, Prune
    PROVE  UpgradeInv'
<1> USE DEF UpgradeInv, Prune, NoFault
<1> USE DEF Main, Untouched, Stateful, Migrated, Switched, Verdict, Late
<1>1. Shapes'
  BY StateFacts DEF Shapes
<1>2. FlagsAhead' /\ Forward'
  BY DEF FlagsAhead, Forward
<1>3. Upgraded'
  BY DEF Forward, Upgraded, AllOn, target
<1>4. ~ Excused' => Backward' /\ Between' /\ WasConsistent'
  BY DEF Backward, Between, WasConsistent, Undoing
<1>5. ~ Excused' => Consistent'
  BY DEF Excused, Consistent, Heeded, Up, Jobs
<1>6. QED
  BY <1>1, <1>2, <1>3, <1>4, <1>5

(* The beginning: what is found is what the rest is measured against. *)
LEMMA StartGood ==
    ASSUME UpgradeInv, Start
    PROVE  UpgradeInv'
<1> USE DEF UpgradeInv, Start
<1> USE DEF Main, Untouched, Stateful, Migrated, Switched, Verdict, Late
<1>1. /\ Empty \in State /\ Found \in State /\ Found # None /\ Empty.format = 0
      /\ code \in 0..runs /\ Up \in SUBSET (Units \ Oneshots)
  BY StateFacts, UpgradeAssumption DEF Shapes, Empty, Found, State, Releases, Up
<1>2. runs \in 0..MaxRuns /\ runs' \in 0..MaxRuns /\ 0..runs \subseteq 0..runs'
  BY StateFacts DEF Shapes
<1>3. /\ was'.code = code /\ was'.state = Found /\ was'.up = Up
      /\ was'.late = was.late /\ was'.newer = was.newer
      /\ was' \in [code : 0..runs', state : State, up : SUBSET (Units \ Oneshots),
                   late : BOOLEAN, newer : BOOLEAN]
  BY <1>1, <1>2 DEF Shapes
<1>4. Shapes'
  <2>1. previous' \in [kind : {None, "directory", "symlink"}, to : (0..runs') \union {None},
                       wrapper : (0..runs') \union {None}]
    OBVIOUS
  <2>2. /\ {code', aside', wrapper'} \subseteq (0..runs') \union {None}
        /\ {state', copy', failed'} \subseteq State \union {None}
        /\ running' \in [Units -> (0..runs') \union {None}]
    BY <1>1, <1>2 DEF Shapes
  <2>3. /\ pc' = "prepare" /\ result' = "running" /\ active' = {} /\ intact' = TRUE
        /\ kind' = kind
    OBVIOUS
  <2>4. QED
    BY <1>2, <1>3, <2>1, <2>2, <2>3 DEF Shapes
<1>5. FlagsAhead'
  BY DEF FlagsAhead
<1>6. UNCHANGED <<Up, Heeded>>
  BY DEF Up, Heeded, Jobs
<1>7. Same(state)'
  BY <1>1, <1>3, StateFacts DEF Same
<1>8. Forward'
  BY <1>3, <1>6, <1>7 DEF Forward, Same
<1>9. Upgraded'
  BY DEF Upgraded
<1>10. ~ Excused' => ~ Excused
  BY <1>3 DEF Excused
<1>11. ~ Excused' => Backward' /\ Between'
  BY DEF Backward, Between, Undoing
<1>12. ~ Excused => \A u \in Heeded : running[u] = code /\ code >= Found.format
  BY <1>1, StateFacts DEF Consistent, Found
<1>13. ~ Excused' => Consistent' /\ WasConsistent'
  BY <1>3, <1>6, <1>10, <1>12 DEF Consistent, WasConsistent, Heeded
<1>14. QED
  BY <1>4, <1>5, <1>8, <1>9, <1>11, <1>13

-------------------------------------------------------------------------------
(* Failures, signals and kills.                                              *)

LEMMA FailsGood ==
    ASSUME UpgradeInv, Fails
    PROVE  UpgradeInv'
<1> USE DEF UpgradeInv
<1>1. /\ pc \in Main /\ pc' = "undoStop" /\ Halfway
      /\ was' = [was EXCEPT !.late = was.late \/ pc \in Late]
      /\ UNCHANGED <<flags, active, intact, previous, failed, code, kind, releases, aside,
                     archive, wrapper, stray, result, runs>>
      /\ result = "running"
  BY DEF Fails, Fault, Trapped, Shapes, Main, Untouched, Stateful, Migrated, Switched, Verdict, Late
<1>2. /\ was'.code = was.code /\ was'.state = was.state /\ was'.up = was.up
      /\ was'.late = (was.late \/ pc \in Late) /\ was'.newer = was.newer
      /\ was' \in [code : 0..runs, state : State, up : SUBSET (Units \ Oneshots),
                  late : BOOLEAN, newer : BOOLEAN]
  BY <1>1 DEF Shapes
<1>3. /\ state \in State /\ target \in Releases /\ active \in SUBSET (Units \ Oneshots)
      /\ code = None \/ code \in 0..runs
  BY <1>1, StateFacts DEF Shapes, Forward, target
<1>4. /\ state' \in State
      /\ pc # "migrate" => state' = state
      /\ state'.format \in {state.format, target} /\ state'.edits = state.edits
  <2>1. CASE state' = state
    BY <1>3, <2>1
  <2>2. CASE pc = "migrate" /\ state' = [state EXCEPT !.format = target]
    BY <1>3, <2>2, MigratedFacts
  <2>3. QED
    BY <1>1, <2>1, <2>2 DEF Halfway
<1>5. /\ pc # "copy" => copy' = copy
      /\ copy' \in State \union {None}
  <2>1. CASE copy' = copy
    BY <2>1 DEF Shapes
  <2>2. CASE pc = "copy" /\ copy' = [state EXCEPT !.edits = 0]
    BY <1>3, <2>2, TornFacts
  <2>3. QED
    BY <1>1, <2>1, <2>2 DEF Halfway
<1>6. /\ running' \in [Units -> (0..runs) \union {None}] /\ Jobs' = Jobs
      /\ pc \notin {"stop", "start"} => running' = running
      /\ pc = "stop" => Up' \subseteq Up /\ \A u \in Up' \union Jobs : running'[u] = running[u]
      /\ pc = "start" => Up' \subseteq active /\ \A u \in Up' : running'[u] = code
  <2>1. CASE running' = running
    <3>1. pc = "start" => Up = {}
      BY DEF Forward, AllStopped, Switched
    <3>2. QED
      BY <2>1, <3>1 DEF Shapes, Up, Jobs
  <2>2. CASE pc = "stop" /\ \E units \in SUBSET active : running' = Stopped(units)
    BY <1>3, <2>2, StoppedFacts
  <2>3. CASE pc = "start" /\ \E units \in SUBSET active : running' = Started(units)
    <3>1. Up = {} /\ code # None
      BY <2>3, StateFacts DEF Forward, AllStopped, Switched, Shapes, target
    <3>2. QED
      BY <1>3, <2>3, <3>1, StartedFacts
  <2>4. QED
    BY <1>1, <2>1, <2>2, <2>3 DEF Halfway
<1>7. Shapes'
  BY <1>1, <1>2, <1>4, <1>5, <1>6 DEF Shapes, Undoing
<1>8. FlagsAhead' /\ Forward' /\ Upgraded'
  BY <1>1 DEF FlagsAhead, Forward, Upgraded, Main, Untouched, Stateful, Migrated, Switched,
     Verdict, Late
<1>9. ASSUME ~ Excused'
      PROVE  Backward' /\ Between' /\ Consistent' /\ WasConsistent'
  <2>1. ~ Excused /\ ~ was.newer /\ pc \notin Late
    BY <1>2, <1>9 DEF Excused
  <2>2. state' # None /\ (Same(state) /\ pc # "migrate" => Same(state)')
    BY <1>2, <1>4, StateFacts DEF Same
  <2>3. pc \in Main \ (Untouched \union {"copy", "prune"}) => Same(copy)'
    BY <1>2, <1>5, <2>1 DEF Forward, Same
  <2>4. /\ "mutation" \in flags => {"snapshot", "quiesced"} \subseteq flags
        /\ "cutover" \in flags => "mutation" \in flags
        /\ "mutation" \in flags => Same(copy)'
    BY <1>1, <2>1, <2>3 DEF FlagsAhead, Main, Untouched, Stateful, Migrated, Switched, Verdict, Late
  <2>5. "mutation" \notin flags => Same(state)' /\ code = was.code
    BY <1>1, <2>1, <2>2 DEF FlagsAhead, Forward, Main, Untouched, Stateful, Migrated, Switched,
       Verdict, Late
  <2>6. "quiesced" \in flags => active = was.up /\ Up' \subseteq was.up
    <3>1. CASE pc \in {"stop", "start"}
      BY <1>1, <1>6, <3>1 DEF Forward, Main, Untouched, Stateful, Migrated, Switched, Verdict, Late
    <3>2. CASE pc \notin {"stop", "start"}
      <4>1. Up' = Up
        BY <1>6, <3>2 DEF Up
      <4>2. pc \in Verdict => Up \subseteq was.up
        BY DEF Forward, AllOn, Up
      <4>3. pc # "prepare" /\ pc # "capture" => active = was.up /\ Up \subseteq was.up
        BY <1>1, <4>2 DEF Forward, AllStopped, Main, Untouched, Stateful, Migrated, Switched,
           Verdict, Late
      <4>4. QED
        BY <1>1, <2>1, <4>1, <4>3 DEF FlagsAhead, Main, Untouched, Stateful, Migrated, Switched,
           Verdict, Late
    <3>3. QED
      BY <3>1, <3>2
  <2>7. "quiesced" \notin flags => Up' = was.up
    <3>1. "quiesced" \notin flags => pc \in {"prepare", "capture"}
      BY <1>1, <2>1 DEF FlagsAhead, Main, Untouched, Stateful, Migrated, Switched, Verdict, Late
    <3>2. pc \in {"prepare", "capture"} => Up' = Up /\ Up = was.up
      BY <1>6 DEF Up, Forward, Main, Untouched, Stateful, Migrated, Switched, Verdict, Late
    <3>3. QED
      BY <3>1, <3>2
  <2>8. IF "cutover" \in flags THEN Restorable ELSE code = was.code
    BY <1>1, <2>1 DEF FlagsAhead, Forward, Restorable, Main, Untouched, Stateful, Migrated,
       Switched, Verdict, Late
  <2>9. (IF "cutover" \in flags THEN Restorable ELSE code = was.code)'
    BY <1>1, <1>2, <2>8 DEF Restorable
  <2>10. intact
    BY <1>1 DEF Forward
  <2>11. Backward'
    BY <1>1, <1>2, <2>2, <2>4, <2>5, <2>6, <2>7, <2>9, <2>10 DEF Backward
  <2>12. Consistent'
    <3>1. CASE pc \in {"start", "migrate"}
      <4>1. Heeded' = Up' /\ (pc = "migrate" => Up' = {})
        BY <1>1, <1>6, <3>1 DEF Forward, AllStopped, Heeded, Up, Switched, Stateful
      <4>2. CASE pc = "start"
        <5>1. state' = state /\ state.format = code /\ code' = code /\ code \in Nat
          BY <1>1, <1>3, <1>4, <4>2, StateFacts DEF Forward, Shapes, Main, Untouched, Stateful,
             Migrated, Switched, Verdict, Late
        <5>2. QED
          BY <1>6, <4>1, <4>2, <5>1 DEF Consistent
      <4>3. QED
        BY <3>1, <4>1, <4>2 DEF Consistent
    <3>2. CASE pc \notin {"start", "migrate"}
      <4>1. Heeded' \subseteq Heeded /\ \A u \in Heeded' : running'[u] = running[u]
        BY <1>1, <1>6, <3>2 DEF Heeded, Up
      <4>2. QED
        BY <1>1, <1>4, <2>1, <3>2, <4>1 DEF Consistent
    <3>3. QED
      BY <3>1, <3>2
  <2>13. Between' /\ WasConsistent'
    BY <1>1, <1>2, <2>1 DEF Between, WasConsistent, Main, Untouched, Stateful, Migrated,
       Switched, Verdict, Late
  <2>14. QED
    BY <2>11, <2>12, <2>13
<1>10. QED
  BY <1>7, <1>8, <1>9

(* Wherever the script is killed, the state it found is in place or beside it. *)
LEMMA KilledGood ==
    ASSUME UpgradeInv, Killed
    PROVE  UpgradeInv'
<1> USE DEF UpgradeInv
<1>1. /\ pc # "idle" /\ pc' = "idle"
      /\ result' = IF pc = "prune" THEN "upgraded" ELSE "killed"
      /\ UNCHANGED <<flags, active, intact, previous, failed, code, kind, releases, aside, copy,
                     archive, wrapper, state, running, was, stray, runs>>
  BY DEF Killed, Fault, disk
<1>2. Shapes'
  BY <1>1 DEF Shapes
<1>3. FlagsAhead' /\ Forward'
  BY <1>1 DEF FlagsAhead, Forward, Main, Untouched, Stateful, Migrated, Switched, Verdict, Late
<1>4. Upgraded'
  <2>1. pc = "prune" => /\ state # None /\ {code, state.format, wrapper} = {target}
                        /\ AllOn
    BY DEF Forward, Main, Untouched, Stateful, Migrated, Switched, Verdict, Late
  <2>2. UNCHANGED <<AllOn, target>>
    BY <1>1 DEF AllOn, target
  <2>3. QED
    BY <1>1, <2>1, <2>2 DEF Upgraded
<1>5. ASSUME ~ Excused'
      PROVE  Backward' /\ Between' /\ Consistent' /\ WasConsistent'
  <2>1. ~ Excused /\ ~ was.newer
    BY <1>1, <1>5 DEF Excused
  <2>2. Backward' /\ WasConsistent' /\ Consistent'
    BY <1>1, <2>1 DEF Backward, WasConsistent, Consistent, Heeded, Up, Jobs, Undoing
  <2>3. pc # "prune" => Same(state) \/ Same(copy)
    <3>1. CASE pc \in Main
      BY <2>1, <3>1 DEF Forward, Main, Untouched, Stateful, Migrated, Switched, Verdict, Late
    <3>2. CASE pc \in Undoing
      BY <1>1, <2>1, <3>2 DEF Backward, Undoing
    <3>3. QED
      BY <1>1, <3>1, <3>2 DEF Shapes
  <2>4. Between'
    BY <1>1, <2>3 DEF Between, Same
  <2>5. QED
    BY <2>2, <2>4
<1>6. QED
  BY <1>2, <1>3, <1>4, <1>5

-------------------------------------------------------------------------------
(* The steps of the rollback.                                                *)

LEMMA UndoStopGood ==
    ASSUME UpgradeInv, UndoStop
    PROVE  UpgradeInv'
<1> USE DEF UpgradeInv
<1>1. /\ pc = "undoStop" /\ pc' \in {"undoState", "cleanup"}
      /\ UNCHANGED <<flags, active, previous, was, result, failed, code, kind, releases, aside,
                     copy, archive, wrapper, state, runs>>
  BY DEF UndoStop, Undo, UndoAt, Fault, NoFault, disk
<1>2. /\ running' \in [Units -> (0..runs) \union {None}] /\ Jobs' = Jobs
      /\ stray \subseteq stray'
      /\ Up' \subseteq Up /\ \A u \in Up' \union Jobs : running'[u] = running[u]
      /\ "quiesced" \notin flags => Up' = Up
      /\ pc' = "undoState" /\ "quiesced" \in flags => Up' = Up \ active /\ Jobs \subseteq stray'
  <2>1. active \in SUBSET (Units \ Oneshots)
    BY DEF Shapes
  <2>2. CASE running' = running /\ "quiesced" \notin flags /\ stray' = stray
    BY <2>2 DEF Shapes, Up, Jobs
  <2>3. CASE /\ running' = Stopped(active) /\ "quiesced" \in flags
             /\ stray' = stray \union Jobs
    BY <2>1, <2>3, StoppedFacts
  <2>4. CASE /\ "quiesced" \in flags /\ pc' = "cleanup" /\ stray' = stray
             /\ \E units \in SUBSET active : running' = Stopped(units)
    BY <2>1, <2>4, StoppedFacts
  <2>5. QED
    BY <2>2, <2>3, <2>4 DEF UndoStop, Undo, UndoAt
<1>3. /\ pc' = "undoState" => intact' = intact
      /\ pc' = "cleanup" => intact' = ({"mutation", "cutover"} \intersect flags = {})
  BY DEF UndoStop, Undo, UndoAt
<1>4. Shapes'
  <2>1. intact' \in BOOLEAN
    BY <1>1, <1>3 DEF Shapes
  <2>2. QED
    BY <1>1, <1>2, <2>1 DEF Shapes, Undoing
<1>5. ASSUME ~ Excused PROVE Backward' /\ Consistent'
  <2>1. Consistent'
    <3>1. Heeded' \subseteq Heeded /\ \A u \in Heeded' : running'[u] = running[u]
      BY <1>2 DEF Heeded
    <3>2. QED
      BY <1>1, <1>5, <3>1 DEF Consistent
  <2>2. /\ "mutation" \in flags => {"snapshot", "quiesced"} \subseteq flags
        /\ "cutover" \in flags => "mutation" \in flags
        /\ "mutation" \notin flags => intact /\ Same(state) /\ code = was.code
        /\ "quiesced" \in flags => active = was.up /\ Up \subseteq was.up
        /\ "quiesced" \notin flags => Up = was.up
        /\ intact /\ state # None /\ ("mutation" \in flags => Same(copy))
        /\ IF "cutover" \in flags THEN Restorable ELSE code = was.code
    BY <1>1, <1>5 DEF Backward, Undoing
  <2>3. UNCHANGED <<Same(state), Same(copy), Restorable>>
    BY <1>1 DEF Same, Restorable
  <2>4. pc' = "undoState" /\ "quiesced" \in flags => AllStopped'
    BY <1>2, <2>2 DEF AllStopped
  <2>5. Backward'
    BY <1>1, <1>2, <1>3, <2>2, <2>3, <2>4 DEF Backward
  <2>6. QED
    BY <2>1, <2>5
<1>6. QED
  BY <1>1, <1>4, <1>5, UndoGood DEF Undoing

LEMMA UndoStateGood ==
    ASSUME UpgradeInv, UndoState
    PROVE  UpgradeInv'
<1> USE DEF UpgradeInv
<1>1. /\ pc = "undoState" /\ pc' \in {"undoCode", "undoStateBack"}
      /\ UNCHANGED <<flags, active, previous, was, stray, result, code, kind, releases, aside,
                     copy, archive, wrapper, running, runs>>
  BY DEF UndoState, UndoAt, Undo, Refused, Fault, NoFault, disk
<1>2. Shapes'
  BY <1>1 DEF Shapes, UndoState, Refused, Undoing
<1>3. ASSUME ~ Excused PROVE Backward' /\ Consistent'
  <2>1. Consistent'
    BY <1>1, <1>3 DEF Consistent, Heeded, Up, Jobs, UndoState, Refused
  <2>2. /\ "mutation" \in flags => {"snapshot", "quiesced"} \subseteq flags
        /\ "cutover" \in flags => "mutation" \in flags
        /\ "mutation" \notin flags => intact /\ Same(state) /\ code = was.code
        /\ "quiesced" \in flags => active = was.up /\ Up \subseteq was.up /\ AllStopped
        /\ "quiesced" \notin flags => Up = was.up
        /\ intact /\ state # None /\ ("mutation" \in flags => Same(copy))
        /\ IF "cutover" \in flags THEN Restorable ELSE code = was.code
    BY <1>1, <1>3 DEF Backward, Undoing
  <2>3. UNCHANGED <<Same(copy), Restorable, Up, AllStopped, Heeded>> /\ (state' = state => UNCHANGED Same(state))
    BY <1>1 DEF Same, Restorable, AllStopped, Heeded, Up, Jobs
  <2>4. \/ /\ "mutation" \notin flags /\ pc' = "undoCode" /\ intact' /\ state' = state
        \/ /\ "mutation" \in flags /\ pc' = "undoStateBack" /\ intact' = intact
           /\ failed' = state
        \/ /\ "mutation" \in flags /\ pc' = "undoCode" /\ intact' = FALSE /\ state' = state
    BY <2>2 DEF UndoState, SnapshotUsable, UndoAt, Undo, Refused
  <2>5. Backward'
    BY <1>1, <2>2, <2>3, <2>4 DEF Backward
  <2>6. QED
    BY <2>1, <2>5
<1>4. QED
  BY <1>1, <1>2, <1>3, UndoGood DEF Undoing

LEMMA UndoStateBackGood ==
    ASSUME UpgradeInv, UndoStateBack
    PROVE  UpgradeInv'
<1> USE DEF UpgradeInv
<1>1. /\ pc = "undoStateBack" /\ pc' = "undoCode"
      /\ UNCHANGED <<flags, active, previous, was, stray, result, code, kind, releases, aside,
                     wrapper, running, runs>>
      /\ \/ state' = copy /\ copy' = None /\ failed' = None /\ intact' = intact
         \/ state' = failed /\ failed' = None /\ intact' = FALSE /\ copy' = copy
  BY DEF UndoStateBack, UndoAt, Undo, Fault, NoFault
<1>2. Shapes'
  BY <1>1 DEF Shapes, Undoing
<1>3. ASSUME ~ Excused PROVE Backward' /\ Consistent'
  <2>1. /\ {"mutation", "snapshot", "quiesced"} \subseteq flags
        /\ active = was.up /\ AllStopped /\ Up = {} /\ intact /\ Same(copy) /\ failed # None
        /\ IF "cutover" \in flags THEN Restorable ELSE code = was.code
    BY <1>1, <1>3 DEF Backward, AllStopped, Undoing
  <2>2. UNCHANGED <<Restorable, Up, AllStopped, Heeded>>
    BY <1>1 DEF Restorable, AllStopped, Heeded, Up, Jobs
  <2>3. (intact' => Same(state)') /\ (Same(state)' \/ Same(copy)')
    BY <1>1, <2>1 DEF Same
  <2>4. Backward'
    BY <1>1, <2>1, <2>2, <2>3 DEF Backward
  <2>5. QED
    BY <2>1, <2>2, <2>4 DEF Consistent, AllStopped, Heeded
<1>4. QED
  BY <1>1, <1>2, <1>3, UndoGood DEF Undoing

LEMMA UndoCodeGood ==
    ASSUME UpgradeInv, UndoCode
    PROVE  UpgradeInv'
<1> USE DEF UpgradeInv
<1>1. /\ pc = "undoCode" /\ pc' \in {"undoWrapper", "undoCodeBack"}
      /\ UNCHANGED <<flags, active, previous, was, stray, result, kind, releases, aside, state, failed,
                     copy, archive, wrapper, running, runs>>
      /\ \/ /\ "cutover" \notin flags \/ (previous.kind = "directory" /\ aside = None)
            /\ pc' = "undoWrapper" /\ code' = code /\ intact' = intact
         \/ /\ "cutover" \in flags /\ previous.kind = "symlink"
            /\ pc' = "undoWrapper" /\ code' = previous.to /\ intact' = intact
         \/ /\ "cutover" \in flags /\ previous.kind = "directory" /\ aside # None
            /\ pc' = "undoCodeBack" /\ code' = None /\ intact' = intact
         \/ "cutover" \in flags /\ pc' = "undoWrapper" /\ code' = code /\ intact' = FALSE
  BY DEF UndoCode, UndoAt, Undo, Nothing, Refused, Fault, NoFault, disk
<1>2. Shapes'
  BY <1>1 DEF Shapes, Undoing
<1>3. ASSUME ~ Excused PROVE Backward' /\ Consistent'
  <2>1. /\ "mutation" \in flags => {"snapshot", "quiesced"} \subseteq flags
        /\ "cutover" \in flags => "mutation" \in flags
        /\ "mutation" \notin flags => intact /\ Same(state) /\ code = was.code
        /\ "quiesced" \in flags => active = was.up /\ Up \subseteq was.up /\ AllStopped
        /\ "quiesced" \notin flags => Up = was.up
        /\ (intact => Same(state)) /\ (Same(state) \/ Same(copy))
        /\ IF "cutover" \in flags THEN Restorable ELSE code = was.code
    BY <1>1, <1>3 DEF Backward, Undoing
  <2>2. UNCHANGED <<Same(state), Same(copy), Up, AllStopped, Heeded>>
    BY <1>1 DEF Same, AllStopped, Heeded, Up, Jobs
  <2>3. was.code # None
    BY StateFacts DEF Shapes
  <2>4. /\ pc' = "undoWrapper" /\ intact' => code' = was.code
        /\ pc' = "undoCodeBack" => "mutation" \in flags /\ aside = was.code
        /\ "mutation" \notin flags => code' = code /\ intact' = intact
    BY <1>1, <2>1, <2>3 DEF Restorable
  <2>5. Backward'
    BY <1>1, <2>1, <2>2, <2>4 DEF Backward
  <2>6. Consistent'
    <3>1. CASE "quiesced" \in flags
      BY <2>1, <2>2, <3>1 DEF Consistent, AllStopped, Heeded
    <3>2. CASE "quiesced" \notin flags
      BY <1>1, <1>3, <2>1, <2>2, <2>4, <3>2 DEF Consistent, AllStopped, Heeded
    <3>3. QED
      BY <3>1, <3>2
  <2>7. QED
    BY <2>5, <2>6
<1>4. QED
  BY <1>1, <1>2, <1>3, UndoGood DEF Undoing

LEMMA UndoCodeBackGood ==
    ASSUME UpgradeInv, UndoCodeBack
    PROVE  UpgradeInv'
<1> USE DEF UpgradeInv
<1>1. /\ pc = "undoCodeBack" /\ pc' = "undoWrapper"
      /\ UNCHANGED <<flags, active, previous, was, stray, result, releases, state, failed, copy, archive,
                     wrapper, running, runs>>
      /\ \/ code' = aside /\ aside' = None /\ kind' = "directory" /\ intact' = intact
         \/ UNCHANGED <<code, aside, kind>> /\ intact' = FALSE
  BY DEF UndoCodeBack, UndoAt, Undo, Refused, Fault, NoFault, disk
<1>2. Shapes'
  BY <1>1 DEF Shapes, Undoing
<1>3. ASSUME ~ Excused PROVE Backward' /\ Consistent'
  <2>1. /\ {"mutation", "snapshot", "quiesced"} \subseteq flags
        /\ active = was.up /\ AllStopped /\ Up = {} /\ aside = was.code
        /\ (intact => Same(state)) /\ (Same(state) \/ Same(copy))
    BY <1>1, <1>3 DEF Backward, AllStopped, Undoing
  <2>2. UNCHANGED <<Same(state), Same(copy), Up, AllStopped, Heeded>>
    BY <1>1 DEF Same, AllStopped, Heeded, Up, Jobs
  <2>3. Backward'
    BY <1>1, <2>1, <2>2 DEF Backward
  <2>4. QED
    BY <2>1, <2>2, <2>3 DEF Consistent, AllStopped, Heeded
<1>4. QED
  BY <1>1, <1>2, <1>3, UndoGood DEF Undoing

LEMMA UndoWrapperGood ==
    ASSUME UpgradeInv, UndoWrapper
    PROVE  UpgradeInv'
<1> USE DEF UpgradeInv
<1>1. /\ pc = "undoWrapper" /\ pc' = "cleanup"
      /\ UNCHANGED <<flags, active, previous, was, stray, result, releases, state, failed, copy, archive,
                     running, runs, code, aside, kind, intact>>
      /\ wrapper' \in {wrapper, previous.wrapper, None}
  BY DEF UndoWrapper, UndoAt, Undo, Fault, NoFault
<1>2. Shapes'
  BY <1>1 DEF Shapes, Undoing
<1>3. ASSUME ~ Excused PROVE Backward' /\ Consistent'
  <2>1. UNCHANGED <<Same(state), Same(copy), Up, AllStopped, Heeded>>
    BY <1>1 DEF Same, AllStopped, Heeded, Up, Jobs
  <2>2. Backward'
    BY <1>1, <1>3, <2>1 DEF Backward, Undoing
  <2>3. QED
    BY <1>1, <1>3, <2>1, <2>2 DEF Consistent, AllStopped, Heeded
<1>4. QED
  BY <1>1, <1>2, <1>3, UndoGood DEF Undoing

(* The copy goes only when the state was never touched. *)
LEMMA CleanupGood ==
    ASSUME UpgradeInv, Cleanup
    PROVE  UpgradeInv'
<1> USE DEF UpgradeInv
<1>1. /\ pc = "cleanup" /\ pc' = "undoStart"
      /\ UNCHANGED <<flags, active, previous, was, stray, result, releases, state, failed, archive,
                     running, runs, code, aside, kind, intact, wrapper>>
      /\ copy' = IF "mutation" \in flags THEN copy ELSE None
  BY DEF Cleanup, UndoAt, Undo, NoFault
<1>2. Shapes'
  BY <1>1 DEF Shapes, Undoing
<1>3. ASSUME ~ Excused PROVE Backward' /\ Consistent'
  <2>1. UNCHANGED <<Same(state), Up, AllStopped, Heeded>> /\ ("mutation" \in flags => UNCHANGED Same(copy))
    BY <1>1 DEF Same, AllStopped, Heeded, Up, Jobs
  <2>2. Backward'
    BY <1>1, <1>3, <2>1 DEF Backward, Undoing
  <2>3. QED
    BY <1>1, <1>3, <2>1, <2>2 DEF Consistent, AllStopped, Heeded
<1>4. QED
  BY <1>1, <1>2, <1>3, UndoGood DEF Undoing

(* The units start on code and state that belong together, or not at all. *)
LEMMA UndoStartGood ==
    ASSUME UpgradeInv, UndoStart
    PROVE  UpgradeInv'
<1> USE DEF UpgradeInv
<1>1. /\ pc = "undoStart" /\ pc' = "idle"
      /\ UNCHANGED <<flags, active, previous, was, state, failed, copy, code, aside, kind, wrapper,
                     stray, runs>>
  BY DEF UndoStart, Fault, NoFault, disk
<1>2. /\ intact' \in BOOLEAN /\ result' = IF intact' THEN "rolledback" ELSE "incomplete"
      /\ intact' => intact
      /\ \/ /\ "quiesced" \in flags /\ intact
            /\ \E units \in SUBSET active :
                  running' = Started(units) /\ (intact' => units = active)
         \/ ("quiesced" \notin flags \/ ~ intact) /\ running' = running
  <2>1. intact \in BOOLEAN /\ active \in SUBSET active
    BY DEF Shapes
  <2>2. CASE "quiesced" \in flags /\ intact /\ running' = Started(active) /\ Finish(TRUE)
    BY <2>1, <2>2 DEF Finish
  <2>3. CASE /\ "quiesced" \in flags /\ intact /\ Finish(FALSE)
             /\ \E units \in SUBSET active : running' = Started(units)
    BY <2>3 DEF Finish
  <2>4. CASE ("quiesced" \notin flags \/ ~ intact) /\ running' = running /\ Finish(intact)
    BY <2>1, <2>4 DEF Finish
  <2>5. QED
    BY <2>2, <2>3, <2>4 DEF UndoStart
<1>3. UNCHANGED <<Same(state), Same(copy)>>
  BY <1>1 DEF Same
<1>4. running' \in [Units -> (0..runs) \union {None}]
  <2>1. ASSUME NEW units \in SUBSET active, running' = Started(units)
        PROVE  running' \in [Units -> (0..runs) \union {None}]
    BY <2>1 DEF Shapes, Started
  <2>2. QED
    BY <1>2, <2>1 DEF Shapes
<1>5. Shapes'
  BY <1>1, <1>2, <1>4 DEF Shapes
<1>6. FlagsAhead' /\ Forward' /\ Upgraded'
  BY <1>1, <1>2 DEF FlagsAhead, Forward, Upgraded, Main, Untouched, Stateful, Migrated, Switched,
     Verdict, Late
<1>7. ASSUME ~ Excused'
      PROVE  Backward' /\ Between' /\ Consistent' /\ WasConsistent'
  <2>1. ~ Excused
    BY <1>1, <1>7 DEF Excused
  <2>2. /\ "quiesced" \in flags => active = was.up /\ Up \subseteq was.up
        /\ "quiesced" \notin flags => Up = was.up
        /\ (intact => Same(state) /\ code = was.code) /\ (Same(state) \/ Same(copy))
    BY <1>1, <2>1 DEF Backward, Undoing
  <2>3. Backward' /\ WasConsistent'
    BY <1>1 DEF Backward, WasConsistent, Undoing
  <2>4. CASE "quiesced" \in flags /\ intact
    <3>1. PICK units \in SUBSET active :
             running' = Started(units) /\ (intact' => units = active)
      BY <1>2, <2>4
    <3>2. /\ units \in SUBSET (Units \ Oneshots) /\ code # None /\ code \in Nat
          /\ state # None
      BY <2>2, <2>4, StateFacts DEF Shapes, Same
    <3>3. /\ Up' = Up \union units /\ Jobs' = Jobs
          /\ \A u \in Up' \union Jobs' : running'[u] = IF u \in units THEN code
                                                      ELSE running[u]
      BY <3>1, <3>2, StartedFacts
    <3>4. units # {} => code >= state.format
      <4>1. units # {} => was.code >= was.state.format
        BY <1>1, <2>1, <2>2, <2>4 DEF WasConsistent
      <4>2. QED
        BY <2>2, <2>4, <4>1 DEF Same
    <3>5. Consistent'
      <4>1. Heeded' = Heeded \union units
        BY <1>1, <3>3 DEF Heeded
      <4>2. \A u \in Heeded' : running'[u] = IF u \in units THEN code ELSE running[u]
        BY <3>3 DEF Heeded
      <4>3. QED
        BY <1>1, <2>1, <3>4, <4>1, <4>2 DEF Consistent
    <3>6. Between'
      BY <1>1, <1>2, <1>3, <2>2, <2>4, <3>1, <3>3 DEF Between
    <3>7. QED
      BY <2>3, <3>5, <3>6
  <2>5. CASE ("quiesced" \notin flags \/ ~ intact) /\ running' = running
    <3>1. UNCHANGED <<Up, Heeded>>
      BY <1>1, <2>5 DEF Heeded, Up, Jobs
    <3>2. Consistent'
      BY <1>1, <2>1, <2>5, <3>1 DEF Consistent
    <3>3. Between'
      BY <1>1, <1>2, <1>3, <2>2, <2>5, <3>1 DEF Between
    <3>4. QED
      BY <2>3, <3>2, <3>3
  <2>6. QED
    BY <1>2, <2>4, <2>5
<1>8. QED
  BY <1>5, <1>6, <1>7

-------------------------------------------------------------------------------
(* A save counts as part of the state that was found, unless newer code makes *)
(* it: no code is newer than the target of the last run.                       *)
LEMMA SaveGood ==
    ASSUME UpgradeInv, Save
    PROVE  UpgradeInv'
<1> USE DEF UpgradeInv
<1>1. PICK by \in (0..runs) :
         /\ by >= state.format
         /\ state' = [format |-> by, edits |-> state.edits + 1]
         /\ was' = [was EXCEPT !.newer = was.newer \/ by > state.format]
  <2>1. PICK by \in {running[u] : u \in Up \union Jobs} \union {code} :
           /\ by # None /\ by >= state.format
           /\ state' = [format |-> by, edits |-> state.edits + 1]
           /\ was' = [was EXCEPT !.newer = was.newer \/ by > state.format]
    BY DEF Save
  <2>2. \A u \in Up \union Jobs : running[u] \in (0..runs) \union {None}
    BY UpgradeAssumption DEF Shapes, Up, Jobs
  <2>3. by \in 0..runs
    BY <2>1, <2>2 DEF Shapes
  <2>4. QED
    BY <2>1, <2>3
<1>2. /\ state \in State /\ state # None
      /\ UNCHANGED <<pc, flags, code, kind, releases, aside, copy, archive, wrapper, running,
                     active, intact, previous, failed, stray, result, runs>>
  BY DEF Save, Shapes, disk
<1>3. /\ state' \in State /\ state' # None /\ state'.format = by
      /\ state'.edits >= state.edits
  <2>1. by \in Releases /\ state.edits + 1 \in Nat /\ state.edits + 1 >= state.edits
    BY <1>2, StateFacts DEF Shapes
  <2>2. QED
    BY <1>1, <1>2, <2>1, StateFacts DEF State
<1>4. /\ was'.code = was.code /\ was'.state = was.state /\ was'.up = was.up
      /\ was'.late = was.late /\ was'.newer = (was.newer \/ by > state.format)
      /\ was' \in [code : 0..runs, state : State, up : SUBSET (Units \ Oneshots),
                  late : BOOLEAN, newer : BOOLEAN]
  BY <1>1 DEF Shapes
<1>5. /\ ~ was'.newer => ~ was.newer /\ state'.format = state.format
      /\ ~ Excused' => ~ Excused
  BY <1>1, <1>2, <1>3, <1>4, StateFacts DEF Excused, Shapes
<1>6. ~ was'.newer /\ Same(state) => Same(state)'
  BY <1>2, <1>3, <1>4, <1>5, StateFacts DEF Same, Shapes
<1>7. UNCHANGED <<Same(copy), Restorable, Up, Heeded, AllStopped, AllOn>>
  BY <1>2, <1>4 DEF Same, Restorable, AllStopped, AllOn, Heeded, Up, Jobs, target
<1>8. state.format = target => state'.format = target
  BY <1>1, <1>2, <1>3, StateFacts DEF Shapes, target
<1>9. Shapes'
  BY <1>2, <1>3, <1>4 DEF Shapes
<1>10. FlagsAhead'
  BY <1>2 DEF FlagsAhead
<1>11. Forward'
  BY <1>2, <1>3, <1>4, <1>5, <1>6, <1>7, <1>8 DEF Forward, target
<1>12. Upgraded'
  BY <1>2, <1>3, <1>7, <1>8 DEF Upgraded, target
<1>13. ~ Excused' => ~ was'.newer
  BY DEF Excused
<1>14. ~ Excused' => Backward'
  BY <1>2, <1>3, <1>4, <1>5, <1>6, <1>7, <1>13 DEF Backward
<1>15. ~ Excused' => Between' /\ WasConsistent'
  BY <1>2, <1>4, <1>5, <1>6, <1>7, <1>13 DEF Between, WasConsistent
<1>16. ~ Excused' => Consistent'
  BY <1>2, <1>5, <1>7, <1>13 DEF Consistent
<1>17. QED
  BY <1>9, <1>10, <1>11, <1>12, <1>14, <1>15, <1>16

(* What a job does to the units that run leaves the script's own ones alone. *)
LEMMA JobSteps ==
    ASSUME UpgradeInv, UNCHANGED <<pc, flags, disk, state, active, intact, previous, failed, was,
                                   result, runs>>,
           running' \in [Units -> (0..runs) \union {None}],
           \A u \in Units \ Oneshots : running'[u] = running[u],
           AllStopped => AllStopped',
           ~ Excused => Consistent'
    PROVE  UpgradeInv'
<1> USE DEF UpgradeInv, disk
<1>1. UNCHANGED <<Same(state), Same(copy), Restorable, Up, AllOn, target>>
  BY DEF Same, Restorable, Up, AllOn, target
<1>2. Shapes'
  BY DEF Shapes
<1>3. FlagsAhead' /\ Upgraded'
  BY <1>1 DEF FlagsAhead, Upgraded
<1>4. Forward'
  BY <1>1 DEF Forward
<1>5. Excused' = Excused
  BY DEF Excused
<1>6. ~ Excused => Backward' /\ Between' /\ WasConsistent'
  BY <1>1 DEF Backward, Between, WasConsistent
<1>7. QED
  BY <1>2, <1>3, <1>4, <1>5, <1>6

(* The timer that starts a job is up: the units are not stopped. *)
LEMMA TimerFiresGood ==
    ASSUME UpgradeInv, NEW u \in Oneshots, TimerFires(u)
    PROVE  UpgradeInv'
<1>1. /\ code # None /\ Timer[u] \in Up /\ running' = [running EXCEPT ![u] = code]
      /\ UNCHANGED <<pc, flags, disk, state, active, intact, previous, failed, was, stray, result,
                     runs>>
  BY UpgradeAssumption DEF TimerFires, NoFault, Up
<1>2. Shapes
  BY DEF UpgradeInv
<1>3. /\ running' \in [Units -> (0..runs) \union {None}]
      /\ \A v \in Units \ Oneshots : running'[v] = running[v]
      /\ \A v \in Units \ {u} : running'[v] = running[v]
      /\ running'[u] = code
  BY <1>1, <1>2, UpgradeAssumption DEF Shapes
<1>4. ~ AllStopped
  BY <1>1 DEF AllStopped
<1>5. ~ Excused => Consistent'
  <2>1. SUFFICES ASSUME ~ Excused PROVE Consistent'
    OBVIOUS
  <2>2. Consistent /\ Timer[u] \in Heeded
    BY <1>1, <2>1 DEF UpgradeInv, Heeded
  <2>3. state # None => code >= state.format
    BY <2>2 DEF Consistent
  <2>4. Heeded' \subseteq Heeded \union {u}
    BY <1>1, <1>3 DEF Heeded, Up, Jobs
  <2>5. QED
    BY <1>1, <1>3, <2>2, <2>3, <2>4, UpgradeAssumption DEF Consistent, disk, Heeded, Up, Jobs
<1>6. QED
  BY <1>1, <1>3, <1>4, <1>5, JobSteps

LEMMA JobEndsGood ==
    ASSUME UpgradeInv, NEW u \in Oneshots, JobEnds(u)
    PROVE  UpgradeInv'
<1>1. /\ running' = [running EXCEPT ![u] = None] /\ stray' = stray \ {u}
      /\ UNCHANGED <<pc, flags, disk, state, active, intact, previous, failed, was, result, runs>>
  BY DEF JobEnds, NoFault
<1>2. Shapes
  BY DEF UpgradeInv
<1>3. /\ running' \in [Units -> (0..runs) \union {None}]
      /\ \A v \in Units \ Oneshots : running'[v] = running[v]
      /\ \A v \in Units \ {u} : running'[v] = running[v]
      /\ running'[u] = None
  BY <1>1, <1>2, UpgradeAssumption DEF Shapes
<1>4. Up' = Up /\ Jobs' = Jobs \ {u}
  BY <1>3, UpgradeAssumption DEF Up, Jobs
<1>5. ~ Excused => Consistent'
  <2>1. Heeded' \subseteq Heeded \ {u} /\ Heeded \subseteq Units
    BY <1>1, <1>4, UpgradeAssumption DEF Heeded, Up, Jobs
  <2>2. QED
    BY <1>1, <1>3, <2>1 DEF UpgradeInv, Consistent, disk
<1>6. AllStopped => AllStopped'
  BY <1>1, <1>4 DEF AllStopped
<1>7. QED
  BY <1>1, <1>3, <1>5, <1>6, JobSteps

LEMMA InitGood == Init => UpgradeInv
<1> SUFFICES ASSUME Init PROVE UpgradeInv
  OBVIOUS
<1>1. state = [format |-> 0, edits |-> 0] /\ 0 \in Releases /\ runs = 0 /\ 0 \in 0..MaxRuns
  BY StateFacts DEF Init, Releases
<1>2. state \in State /\ state.format = 0 /\ state # None
  BY <1>1, StateFacts DEF State
<1>3. /\ was = [code |-> 0, state |-> state, up |-> Up, late |-> FALSE, newer |-> FALSE]
      /\ Up \in SUBSET (Units \ Oneshots)
  BY DEF Init, Up
<1>4. /\ was \in [code : 0..runs, state : State, up : SUBSET (Units \ Oneshots),
                 late : BOOLEAN, newer : BOOLEAN]
      /\ was.code = 0 /\ was.state = state /\ was.up = Up
  BY <1>1, <1>2, <1>3
<1>5. previous \in [kind : {None, "directory", "symlink"}, to : (0..runs) \union {None},
                    wrapper : (0..runs) \union {None}]
  BY DEF Init
<1>6. running \in [Units -> (0..runs) \union {None}]
  BY <1>1 DEF Init
<1>7. Shapes
  BY <1>1, <1>2, <1>4, <1>5, <1>6, StateFacts DEF Init, Shapes
<1>8. FlagsAhead /\ Forward /\ Upgraded
  BY DEF Init, FlagsAhead, Forward, Upgraded, Main, Untouched, Stateful, Migrated, Switched,
     Verdict, Late
<1>9. Backward /\ Between /\ WasConsistent
  BY DEF Init, Backward, Between, WasConsistent, Undoing
<1>10. Consistent
  <2>1. \A u \in Heeded : running[u] = 0
    BY UpgradeAssumption DEF Init, Heeded, Up, Jobs
  <2>2. QED
    BY <1>2, <2>1 DEF Init, Consistent
<1>11. QED
  BY <1>7, <1>8, <1>9, <1>10 DEF UpgradeInv

LEMMA StutterGood == UpgradeInv /\ UNCHANGED vars => UpgradeInv'
<1> SUFFICES ASSUME UpgradeInv, UNCHANGED vars PROVE UpgradeInv'
  OBVIOUS
<1>1. UNCHANGED <<Same(state), Same(copy), Restorable, Up, Heeded, AllStopped, AllOn, Excused>>
  BY DEF Same, Restorable, Up, Heeded, Jobs, AllStopped, AllOn, Excused, vars, disk, target
<1>2. Shapes' /\ FlagsAhead' /\ Forward' /\ Upgraded'
  BY <1>1 DEF UpgradeInv, Shapes, FlagsAhead, Forward, Upgraded, vars, disk, target
<1>3. ~ Excused' => Backward' /\ Between' /\ Consistent' /\ WasConsistent'
  BY <1>1 DEF UpgradeInv, Backward, Between, Consistent, WasConsistent, vars, disk
<1>4. QED
  BY <1>2, <1>3 DEF UpgradeInv

LEMMA NextGood == UpgradeInv /\ [Next]_vars => UpgradeInv'
<1> SUFFICES ASSUME UpgradeInv, [Next]_vars PROVE UpgradeInv'
  OBVIOUS
<1>1. CASE Upgrade
  BY <1>1, StartGood, PrepareGood, CaptureUnitsGood, StopUnitsGood, CopyStateGood, ArchiveGood,
     MarkMutationGood, MigrateStateGood, PublishReleaseGood, MarkCutoverGood, SwitchLinkGood,
     MoveAsideGood, LinkReleaseGood, MarkWrapperGood, WriteWrapperGood, StartUnitsGood,
     PostCheckGood, ClearFlagsGood, TidyGood, PruneGood DEF Upgrade
<1>2. CASE Rollback
  BY <1>2, UndoStopGood, UndoStateGood, UndoStateBackGood, UndoCodeGood, UndoCodeBackGood,
     UndoWrapperGood, CleanupGood, UndoStartGood DEF Rollback
<1>3. CASE Fails \/ Killed \/ Save
  BY <1>3, FailsGood, KilledGood, SaveGood
<1>4. CASE \E u \in Oneshots : TimerFires(u) \/ JobEnds(u)
  BY <1>4, TimerFiresGood, JobEndsGood
<1>5. QED
  BY <1>1, <1>2, <1>3, <1>4, StutterGood DEF Next

-------------------------------------------------------------------------------
(* The annotation of the script is an invariant. *)
THEOREM UpgradeInvariant == Spec => []UpgradeInv
<1>1. Init => UpgradeInv
  BY InitGood
<1>2. UpgradeInv /\ [Next]_vars => UpgradeInv'
  BY NextGood
<1>3. QED
  BY <1>1, <1>2, PTL DEF Spec

(* "The old code must not see state of the new format": no unit the script has *)
(* stopped, and no job begun since, ever runs code older than the state,       *)
(* however the upgrade and its rollback fail.  A job the stop has missed is    *)
(* excepted, and so is what Excused names.                                     *)
THEOREM OldCodeNever == Spec => []OldCodeNeverMeetsNewState
<1>1. UpgradeInv => OldCodeNeverMeetsNewState
  BY DEF UpgradeInv, Consistent, Heeded, OldCodeNeverMeetsNewState
<1>2. QED
  BY <1>1, UpgradeInvariant, PTL

(* A run that reports success runs the target everywhere; one that reports a   *)
(* complete rollback left code, state and units as it found them.              *)
THEOREM AllOrNothingHolds == Spec => []AllOrNothing
<1>1. UpgradeInv => AllOrNothing
  <2> SUFFICES ASSUME UpgradeInv PROVE AllOrNothing
    OBVIOUS
  <2>1. result \in {"rolledback"} => pc = "idle"
    BY DEF UpgradeInv, Shapes
  <2>2. QED
    BY <2>1 DEF UpgradeInv, Upgraded, AllOn, Between, Same, AllOrNothing
<1>2. QED
  BY <1>1, UpgradeInvariant, PTL

(* Until the new release was found healthy the state the run found is in place *)
(* or beside it: cleanup_transient_paths keeps the copy once it is needed.     *)
THEOREM StateIsKept == Spec => []StateKept
<1>1. UpgradeInv => StateKept
  <2> SUFFICES ASSUME UpgradeInv,
                      result \in {"running", "rolledback", "incomplete", "killed"}, ~ Excused,
                      pc \notin Late
               PROVE  \E s \in {state, copy} \ {None} :
                         s.format = was.state.format /\ s.edits >= was.state.edits
    BY DEF StateKept
  <2>1. Same(state) \/ Same(copy)
    <3>1. CASE pc = "idle"
      BY <3>1 DEF UpgradeInv, Between, Shapes
    <3>2. CASE pc \in Main
      BY <3>2 DEF UpgradeInv, Excused, Forward, Main, Untouched, Stateful, Migrated, Switched,
         Verdict, Late
    <3>3. CASE pc \in Undoing
      BY <3>3 DEF UpgradeInv, Backward, Undoing
    <3>4. QED
      BY <3>1, <3>2, <3>3 DEF UpgradeInv, Shapes
  <2>2. QED
    BY <2>1 DEF Same
<1>2. QED
  BY <1>1, UpgradeInvariant, PTL
===============================================================================
