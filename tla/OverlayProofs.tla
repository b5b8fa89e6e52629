---------------------------- MODULE OverlayProofs ----------------------------
(***************************************************************************)
(* Proofs about OverlayApply: the generations of the apply record, of the  *)
(* published overlay record and of the copy in the Run record, the place   *)
(* of the originals moved aside, and what a batch leaves in the target.    *)
(*                                                                         *)
(* The inductive invariant has three parts.  DiskInv says what the files   *)
(* of one stage have in common between any two steps, so that whatever     *)
(* crash comes finds it; OpInv says what the operation in progress on a    *)
(* stage knows of these files; TargetInv says which stage an entry of the  *)
(* target can belong to.  DiskInv and OpInv of a stage depend on nothing   *)
(* but that stage, so a step has to be followed for its own stage only.    *)
(***************************************************************************)
EXTENDS OverlayApply, TLAPS

Records == [state : {"Staged"} \cup Terminal, gen : Nat]
Ledgers == [state : {"none", "Prepared", "TargetApplied", "Committed"}, gen : Nat,
            paths : SUBSET Paths, preimages : [Paths -> Contents \cup {None}]]

\* The steps that write the target, those that complete the apply record, and
\* all that are taken under the target lock.
Writing == {"restore", "check", "backup", "install", "publish", "rebase", "mark"}
Completing == {"prune", "settle", "consume", "commit"}
Locked == Writing \cup Completing \cup
    {"enter", "sweep", "sweeping", "clean", "cleaning", "clear", "discard"}

\* The state of OverlayApply has its types.
TypeOK ==
    /\ target \in [Paths -> Contents]
    /\ upper \in [Stages -> [Paths -> {"full", "torn", "gone"}]]
    /\ unsynced \in [Stages -> SUBSET Paths]
    /\ preimages \in [Stages -> [Paths -> Contents \cup {None}]]
    /\ ledger \in [Stages -> Ledgers]
    /\ slot \in [Stages -> [Paths -> Contents \cup {None}]]
    /\ backup \in [Stages -> {"none", "owned", "unowned"}]
    /\ meta \in [Stages -> Records]
    /\ run \in [Stages -> Records]
    /\ lock \in Stages \cup {None}
    /\ pc \in [Stages -> Locked \cup {"idle", "lock", "save"}]
    /\ op \in [Stages -> {"none", "apply", "recover", "drop"}]
    /\ sel \in [Stages -> SUBSET Paths]
    /\ todo \in [Stages -> SUBSET Paths]
    /\ mem \in [Stages -> Records]
    /\ edits \in Nat
    /\ faults \in Nat

\* The records: a pending apply has the generation of the Run record, which is
\* not terminal yet, and a terminal published record is the one the Run record
\* has or is about to have.
RecordInv(s) ==
    /\ has_pending_applies(s) =>
           /\ ledger[s].gen = run[s].gen
           /\ run[s].state = "Staged" /\ meta[s].state # "Discarded"
    /\ meta[s].state \in Terminal =>
           \/ run[s].state = meta[s].state
           \/ run[s].state = "Staged" /\ meta[s].gen = run[s].gen
    /\ meta[s].state = "Applied" => unsynced[s] = {} /\ \A p \in Paths : upper[s][p] = "gone"

\* The batch: as long as it is Prepared nothing of it is lost from the upper, it
\* is recorded over the contents the stage was made from, and a backup slot has
\* that content or what the stage publishes.
BatchInv(s) ==
    /\ ledger[s].state = "Prepared" =>
           /\ meta[s].state \notin Terminal /\ unsynced[s] = {}
           /\ \A p \in ledger[s].paths :
                  /\ upper[s][p] # "gone"
                  /\ ledger[s].preimages[p] = Old
                  /\ preimages[s][p] # None
                  /\ slot[s][p] \in {None, Old, desired_fingerprint(s, p)}
    /\ ledger[s].state = "Committed" => \A p \in ledger[s].paths : preimages[s][p] = None
    /\ ledger[s].state = "none" => ledger[s].paths = {}
    /\ \A p \in Paths :
           /\ \/ preimages[s][p] \in {None, Old}
              \/ has_pending_applies(s) /\ p \in ledger[s].paths
           /\ Change[s][p] = "none" => preimages[s][p] = None /\ p \notin ledger[s].paths

\* The backup directory: it belongs to the latest batch, and it outlives that
\* batch's generation only when there can be no further batch.
BackupInv(s) ==
    /\ \A p \in Paths : slot[s][p] # None => backup[s] # "none" /\ p \in ledger[s].paths
    /\ backup[s] # "none" =>
           \/ has_pending_applies(s)
           \/ /\ ledger[s].state = "Committed"
              /\ ledger[s].gen = run[s].gen \/ run[s].state \in Terminal

DiskInv(s) == RecordInv(s) /\ BatchInv(s) /\ BackupInv(s)

\* What an operation knows.
OpInv(s) ==
    /\ pc[s] = "idle" <=> op[s] = "none"
    /\ pc[s] \in Locked => lock = s
    /\ op[s] \in {"apply", "drop"} => run[s].state = "Staged" /\ mem[s].gen = run[s].gen
    /\ op[s] = "apply" /\ pc[s] \in {"lock", "enter", "sweep", "sweeping"} =>
           /\ ~has_pending_applies(s) /\ meta[s].state \notin Terminal
           /\ \A p \in sel[s] : upper[s][p] # "gone"
    /\ op[s] = "drop" =>
           /\ ~has_pending_applies(s)
           /\ pc[s] \in {"lock", "enter", "clear", "discard", "save"}
           /\ pc[s] # "save" => meta[s].state \notin Terminal
    /\ pc[s] \in {"clear", "discard"} => op[s] = "drop"
    /\ pc[s] \in Writing =>
           /\ ledger[s].state = "Prepared" /\ sel[s] = ledger[s].paths
           /\ mem[s].gen = ledger[s].gen /\ todo[s] \subseteq sel[s]
           /\ pc[s] = "install" => \A p \in todo[s] : Opaque(s, p)
    /\ pc[s] \in Completing =>
           /\ ledger[s].state = "TargetApplied" /\ sel[s] = ledger[s].paths
           /\ mem[s].gen = ledger[s].gen
           /\ \A p \in sel[s] : p \in todo[s] \/ upper[s][p] = "gone"
           /\ pc[s] # "prune" => todo[s] = {}
    /\ pc[s] = "commit" => \A p \in sel[s] : preimages[s][p] = None
    /\ pc[s] \in {"sweep", "sweeping", "clean", "cleaning"} => ledger[s].state = "Committed"
    /\ op[s] = "apply" /\ pc[s] \in {"consume", "commit", "clean", "cleaning"} => meta[s] = mem[s]
    /\ pc[s] = "save" =>
           /\ op[s] \in {"apply", "drop"} /\ ~has_pending_applies(s) /\ meta[s] = mem[s]
           /\ op[s] = "apply" => backup[s] = "none"
           /\ op[s] = "drop" => mem[s].state = "Discarded"

\* Stage s has an unfinished apply that has moved the original of p aside.
Aside(s, p) == p \in Prepared(s) /\ slot[s][p] # None

\* An original moved aside belongs to one stage, which is the only one to have
\* written the path since, and no other stage writes a path whose original is
\* aside, unless to remove it.
TargetInv ==
    /\ \A s \in Stages, p \in Paths :
           Aside(s, p) => target[p] \in {Absent, Foreign, s, Torn[s]}
    /\ \A s, t \in Stages, p \in Paths : Aside(s, p) /\ Aside(t, p) => s = t
    /\ \A s, t \in Stages, p \in Paths :
           /\ pc[s] \in {"backup", "install", "publish", "rebase", "mark"}
           /\ p \in sel[s] /\ ~whiteout(s, p) /\ Aside(t, p)
           => s = t

\* The current step has already written p.
Written(s, p) ==
    \/ pc[s] = "install" /\ Opaque(s, p) /\ p \notin todo[s]
    \/ pc[s] = "publish" /\ (Opaque(s, p) \/ p \notin todo[s])
    \/ pc[s] \in {"rebase", "mark"}

\* What is in the target where no editor writes: under the lock, what the
\* operation has written, and for good, what no other stage has crossed.
LandInv ==
    edits = 0 =>
        \A s \in Stages, p \in Paths :
            p \in ledger[s].paths =>
                /\ Written(s, p) => target[p] = desired_fingerprint(s, p)
                /\ ledger[s].state \in {"TargetApplied", "Committed"} /\ ~Crossed(s, p) =>
                       LandedAt(s, p)

IInv ==
    /\ TypeOK
    /\ \A s \in Stages : DiskInv(s) /\ OpInv(s)
    /\ TargetInv
    /\ LandInv

-----------------------------------------------------------------------------
(* Contents, and what a step of one stage leaves alone.                     *)

\* The contents of one stage are nobody else's.
LEMMA OwnContents ==
  ASSUME NEW s \in Stages
  PROVE  /\ s \in Contents /\ s \notin {None, Absent, Old, Foreign}
         /\ Torn[s] \in Contents /\ Torn[s] \notin {None, Absent, Old, Foreign}
         /\ \A t \in Stages : {s, Torn[s]} \cap {t, Torn[t]} # {} => s = t
         /\ {Absent, Old, Foreign} \subseteq Contents /\ None \notin Contents
         /\ None # Absent /\ Old # None /\ Old # Absent /\ Foreign # None
         /\ Foreign # Absent /\ Foreign # Old
  BY ContentsAssumption, Zenon DEF Contents

\* What desired_fingerprint returns.
LEMMA Desired ==
  ASSUME TypeOK, NEW s \in Stages, NEW p \in Paths
  PROVE  /\ UpperContent(s, p) \in {Absent, s, Torn[s]}
         /\ upper[s][p] # "gone" => UpperContent(s, p) \in {s, Torn[s]}
         /\ desired_fingerprint(s, p) \in {Absent, s, Torn[s]}
         /\ upper[s][p] # "gone" /\ ~whiteout(s, p) =>
                desired_fingerprint(s, p) \in {s, Torn[s]}
         /\ UpperContent(s, p) \in Contents /\ desired_fingerprint(s, p) \in Contents
         /\ desired_fingerprint(s, p) # None /\ UpperContent(s, p) # None
         /\ desired_fingerprint(s, p) # Old /\ desired_fingerprint(s, p) # Foreign
<1>1. upper[s][p] \in {"full", "torn", "gone"}
  BY DEF TypeOK
<1>2. UpperContent(s, p) \in {Absent, s, Torn[s]} /\
      (upper[s][p] # "gone" => UpperContent(s, p) \in {s, Torn[s]})
  BY <1>1 DEF UpperContent
<1>3. /\ desired_fingerprint(s, p) \in {Absent, s, Torn[s]}
      /\ upper[s][p] # "gone" /\ ~whiteout(s, p) => desired_fingerprint(s, p) \in {s, Torn[s]}
  BY <1>2 DEF desired_fingerprint
<1> QED
  BY <1>2, <1>3, OwnContents

\* Nothing of stage t changes.
SameStage(t) ==
    /\ upper'[t] = upper[t] /\ unsynced'[t] = unsynced[t] /\ preimages'[t] = preimages[t]
    /\ ledger'[t] = ledger[t] /\ slot'[t] = slot[t] /\ backup'[t] = backup[t]
    /\ meta'[t] = meta[t] /\ run'[t] = run[t] /\ pc'[t] = pc[t] /\ op'[t] = op[t]
    /\ sel'[t] = sel[t] /\ todo'[t] = todo[t] /\ mem'[t] = mem[t]

OnlyStage(s) == \A t \in Stages \ {s} : SameStage(t)

\* The lock is left alone, taken when it is free, or given back by its holder.
LockMove(s) ==
    lock' = lock \/ (lock = None /\ lock' = s) \/ (lock = s /\ lock' = None)

\* The steps that can find the original of a path of another stage aside.
Replacing == {"backup", "install", "publish", "rebase", "mark"}

\* The steps an operation can be at.
AllSteps == Locked \cup {"idle", "lock", "save"}

\* Goto moves one operation.
LEMMA Goes ==
  ASSUME TypeOK, NEW s \in Stages, NEW step \in AllSteps, NEW paths \in SUBSET Paths,
         Goto(s, step, paths)
  PROVE  /\ pc' \in [Stages -> AllSteps] /\ todo' \in [Stages -> SUBSET Paths]
         /\ pc'[s] = step /\ todo'[s] = paths
         /\ \A t \in Stages \ {s} : pc'[t] = pc[t] /\ todo'[t] = todo[t]
<1>1. pc \in [Stages -> AllSteps] /\ todo \in [Stages -> SUBSET Paths]
  BY DEF TypeOK, AllSteps
<1> QED
  BY <1>1 DEF Goto

\* Return forgets one operation.
LEMMA Returns ==
  ASSUME TypeOK, NEW s \in Stages, Return(s)
  PROVE  /\ pc' \in [Stages -> AllSteps] /\ todo' \in [Stages -> SUBSET Paths]
         /\ op' \in [Stages -> {"none", "apply", "recover", "drop"}]
         /\ sel' \in [Stages -> SUBSET Paths] /\ mem' \in [Stages -> Records]
         /\ lock' \in Stages \cup {None} /\ LockMove(s)
         /\ pc'[s] = "idle" /\ op'[s] = "none"
         /\ \A t \in Stages \ {s} : /\ pc'[t] = pc[t] /\ todo'[t] = todo[t] /\ op'[t] = op[t]
                                    /\ sel'[t] = sel[t] /\ mem'[t] = mem[t]
         /\ OpInv(s)'
<1>1. NoRecord \in Records
  BY DEF NoRecord, Records
<1>2. /\ pc' \in [Stages -> AllSteps] /\ todo' \in [Stages -> SUBSET Paths]
      /\ pc'[s] = "idle"
      /\ \A t \in Stages \ {s} : pc'[t] = pc[t] /\ todo'[t] = todo[t]
  BY Goes DEF Return, AllSteps
<1>3. /\ op' = [op EXCEPT ![s] = "none"] /\ sel' = [sel EXCEPT ![s] = {}]
      /\ mem' = [mem EXCEPT ![s] = NoRecord]
  BY DEF Return
<1>4. /\ op' \in [Stages -> {"none", "apply", "recover", "drop"}] /\ op'[s] = "none"
      /\ \A t \in Stages \ {s} : op'[t] = op[t]
  BY <1>3 DEF TypeOK
<1>5. /\ sel' \in [Stages -> SUBSET Paths]
      /\ \A t \in Stages \ {s} : sel'[t] = sel[t]
  BY <1>3 DEF TypeOK
<1>6. /\ mem' \in [Stages -> Records]
      /\ \A t \in Stages \ {s} : mem'[t] = mem[t]
  BY <1>1, <1>3 DEF TypeOK
<1>7. lock' \in Stages \cup {None} /\ LockMove(s)
  BY DEF TypeOK, Return, Release, LockMove
<1>8. OpInv(s)'
  BY <1>2, <1>4 DEF OpInv, Locked, Writing, Completing
<1> QED
  BY <1>2, <1>4, <1>5, <1>6, <1>7, <1>8

\* What a reader of the Run record finds.
LEMMA ReadFacts ==
  ASSUME IInv, NEW s \in Stages
  PROVE  /\ ReadRun(s) \in Records /\ run[s] \in Records /\ meta[s] \in Records
         /\ ReadRun(s).state = (IF Reconciles(s, run[s]) THEN meta[s].state ELSE run[s].state)
         /\ ReadRun(s).state = "Staged" =>
                ReadRun(s) = run[s] /\ run[s].state = "Staged" /\ meta[s].state \notin Terminal
<1>1. run[s] \in Records /\ meta[s] \in Records /\ RecordInv(s)
  BY Zenon DEF IInv, TypeOK, DiskInv
<1>2. [meta[s] EXCEPT !.gen = @ + 1] \in Records /\
      [meta[s] EXCEPT !.gen = @ + 1].state = meta[s].state
  BY <1>1 DEF Records
<1>3. /\ ReadRun(s) \in Records
      /\ ReadRun(s).state = (IF Reconciles(s, run[s]) THEN meta[s].state ELSE run[s].state)
  BY <1>1, <1>2 DEF ReadRun, reconcile_terminal_overlay
<1>4. ASSUME ReadRun(s).state = "Staged"
      PROVE  ReadRun(s) = run[s] /\ run[s].state = "Staged" /\ meta[s].state \notin Terminal
  <2>1. ~Reconciles(s, run[s])
    BY <1>3, <1>4 DEF Reconciles, Terminal
  <2>2. ReadRun(s) = run[s] /\ run[s].state = "Staged"
    BY <1>3, <1>4, <2>1 DEF ReadRun, reconcile_terminal_overlay
  <2> QED
    BY <1>1, <2>1, <2>2 DEF Reconciles, RecordInv, Terminal
<1> QED
  BY <1>1, <1>3, <1>4

\* Sync.
LEMMA Syncs ==
  ASSUME TypeOK, NEW s \in Stages, Sync(s)
  PROVE  /\ unsynced' \in [Stages -> SUBSET Paths] /\ unsynced'[s] = {}
         /\ \A t \in Stages \ {s} : unsynced'[t] = unsynced[t]
  BY DEF TypeOK, Sync

\* The state of the apply record moves on.
LEMMA LedgerState ==
  ASSUME TypeOK, NEW s \in Stages, NEW st \in {"TargetApplied", "Committed"},
         ledger' = [ledger EXCEPT ![s].state = st]
  PROVE  /\ ledger' \in [Stages -> Ledgers]
         /\ ledger'[s].state = st /\ ledger'[s].gen = ledger[s].gen
         /\ ledger'[s].paths = ledger[s].paths /\ ledger'[s].preimages = ledger[s].preimages
         /\ \A t \in Stages \ {s} : ledger'[t] = ledger[t]
<1> DEFINE new == [ledger[s] EXCEPT !.state = st]
<1>1. ledger[s] \in Ledgers /\ ledger \in [Stages -> Ledgers]
  BY DEF TypeOK
<1>2. /\ new \in Ledgers /\ new.state = st /\ new.gen = ledger[s].gen
      /\ new.paths = ledger[s].paths /\ new.preimages = ledger[s].preimages
  BY <1>1, Zenon DEF Ledgers
<1>3. ledger' = [ledger EXCEPT ![s] = new]
  OBVIOUS
<1> HIDE DEF new
<1> QED
  BY <1>1, <1>2, <1>3

\* Facts about a writing step.
LEMMA WritingFacts ==
  ASSUME IInv, NEW s \in Stages, pc[s] \in Writing
  PROVE  /\ TypeOK /\ OpInv(s) /\ DiskInv(s) /\ lock = s /\ pc[s] \in Locked
         /\ ledger[s].state = "Prepared" /\ sel[s] = ledger[s].paths
         /\ sel[s] \subseteq Paths /\ todo[s] \subseteq sel[s]
         /\ pc[s] = "install" => \A p \in todo[s] : Opaque(s, p)
         /\ has_pending_applies(s) /\ meta[s].state \notin Terminal /\ unsynced[s] = {}
         /\ \A p \in sel[s] : /\ upper[s][p] # "gone" /\ ledger[s].preimages[p] = Old
                              /\ preimages[s][p] # None
                              /\ slot[s][p] \in {None, Old, desired_fingerprint(s, p)}
                              /\ Aside(s, p) <=> slot[s][p] # None
<1>1. TypeOK /\ OpInv(s) /\ DiskInv(s) /\ sel[s] \subseteq Paths
  BY DEF IInv, TypeOK
<1>2. /\ ledger[s].state = "Prepared" /\ sel[s] = ledger[s].paths /\ todo[s] \subseteq sel[s]
      /\ pc[s] = "install" => \A p \in todo[s] : Opaque(s, p)
      /\ lock = s /\ pc[s] \in Locked
  BY <1>1, Zenon DEF OpInv, Locked
<1> QED
  BY <1>1, <1>2, Zenon DEF DiskInv, BatchInv, has_pending_applies, Aside, Prepared

-----------------------------------------------------------------------------
(* The environment, and the invariant.                                      *)

\* The stages as they are made.
LEMMA InitInv ==
  ASSUME Init PROVE IInv
<1>1. NoRecord \in Records /\ NoRecord.state = "Staged" /\ NoRecord.gen = 0
  BY DEF NoRecord, Records
<1>2. [state |-> "none", gen |-> 0, paths |-> {}, preimages |-> [p \in Paths |-> None]] \in Ledgers
  BY Zenon DEF Ledgers
<1>3. Old \in Contents /\ Old # None
  BY ContentsAssumption DEF Contents
<1>4. /\ ledger \in [Stages -> Ledgers] /\ meta \in [Stages -> Records]
      /\ run \in [Stages -> Records] /\ mem \in [Stages -> Records]
  BY <1>1, <1>2, Zenon DEF Init, NoRecord
<1>5. /\ upper \in [Stages -> [Paths -> {"full", "torn", "gone"}]]
      /\ preimages \in [Stages -> [Paths -> Contents \cup {None}]]
      /\ slot \in [Stages -> [Paths -> Contents \cup {None}]]
      /\ target \in [Paths -> Contents] /\ unsynced \in [Stages -> SUBSET Paths]
      /\ sel \in [Stages -> SUBSET Paths] /\ todo \in [Stages -> SUBSET Paths]
  BY <1>3, Zenon DEF Init
<1>6. /\ backup \in [Stages -> {"none", "owned", "unowned"}] /\ pc \in [Stages -> AllSteps]
      /\ op \in [Stages -> {"none", "apply", "recover", "drop"}]
      /\ lock \in Stages \cup {None} /\ edits \in Nat /\ faults \in Nat
  BY Zenon DEF Init, AllSteps
<1>7. TypeOK
  BY <1>4, <1>5, <1>6, Zenon DEF TypeOK, AllSteps
<1>8. ASSUME NEW s \in Stages PROVE DiskInv(s) /\ OpInv(s)
  <2>1. /\ ledger[s].state = "none" /\ ledger[s].paths = {} /\ meta[s].state = "Staged"
        /\ backup[s] = "none" /\ pc[s] = "idle" /\ op[s] = "none"
        /\ \A p \in Paths : /\ slot[s][p] = None
                            /\ preimages[s][p] = IF Change[s][p] = "none" THEN None ELSE Old
    BY Zenon DEF Init
  <2>2. RecordInv(s)
    BY <2>1, Zenon DEF RecordInv, has_pending_applies, Terminal
  <2>3. BatchInv(s)
    BY <2>1 DEF BatchInv
  <2>4. BackupInv(s)
    BY <2>1, Zenon DEF BackupInv
  <2>5. OpInv(s)
    BY <2>1, Zenon DEF OpInv, Locked, Writing, Completing
  <2> QED
    BY <2>2, <2>3, <2>4, <2>5 DEF DiskInv
<1>9. TargetInv /\ LandInv
  BY Zenon DEF Init, TargetInv, LandInv, Aside, Prepared
<1> QED
  BY <1>7, <1>8, <1>9 DEF IInv

\* Every step preserves the invariant.
LEMMA NextInv ==
  IInv /\ [Next]_vars => IInv'

(* Contents, and what a step of one stage leaves alone.                     *)

\* A step of one stage keeps what the others rely on.
<1>OtherStages.
  ASSUME IInv, NEW s \in Stages, OnlyStage(s), LockMove(s), DiskInv(s)', OpInv(s)'
  PROVE  \A t \in Stages : DiskInv(t)' /\ OpInv(t)'
  <2> USE <1>OtherStages
  <2> SUFFICES ASSUME NEW t \in Stages, t # s PROVE DiskInv(t)' /\ OpInv(t)'
    OBVIOUS
  <2>1. SameStage(t) /\ DiskInv(t) /\ OpInv(t)
    BY Zenon DEF OnlyStage, IInv
  <2>2. pc[t] \in Locked => lock' = t
    BY <2>1, OwnContents DEF LockMove, OpInv
  <2>3. \A p : /\ has_pending_applies(t)' = has_pending_applies(t)
               /\ desired_fingerprint(t, p)' = desired_fingerprint(t, p)
    BY <2>1, Zenon DEF SameStage, has_pending_applies, desired_fingerprint, UpperContent, whiteout
  <2>4. RecordInv(t)'
    BY <2>1, <2>3, Zenon DEF DiskInv, RecordInv, SameStage
  <2>5. BatchInv(t)'
    BY <2>1, <2>3, SMTT(30), Z3T(30) DEF DiskInv, BatchInv, SameStage
  <2>6. BackupInv(t)'
    BY <2>1, <2>3, Zenon DEF DiskInv, BackupInv, SameStage
  <2>7. OpInv(t)'
    <3>1. /\ OpInv(t) /\ has_pending_applies(t)' = has_pending_applies(t)
          /\ upper'[t] = upper[t] /\ preimages'[t] = preimages[t] /\ ledger'[t] = ledger[t]
          /\ backup'[t] = backup[t] /\ meta'[t] = meta[t] /\ run'[t] = run[t] /\ pc'[t] = pc[t]
          /\ op'[t] = op[t] /\ sel'[t] = sel[t] /\ todo'[t] = todo[t] /\ mem'[t] = mem[t]
      BY <2>1, <2>3, Zenon DEF SameStage
    <3> HIDE <1>OtherStages
    <3> QED
      BY <2>2, <3>1, SMTT(30), Z3T(30) DEF OpInv
  <2> QED
    BY <2>4, <2>5, <2>6, <2>7, Zenon DEF DiskInv

\* A step that leaves the target alone, forgets nothing of a batch but what is
\* over, and takes its operation to no step that writes.
<1>QuietTarget.
  ASSUME IInv, NEW s \in Stages, OnlyStage(s), target' = target, edits' = edits,
         pc'[s] \notin Replacing,
         ledger'[s].paths = ledger[s].paths,
         ledger'[s].state = "Prepared" => ledger[s].state = "Prepared",
         ledger'[s].state \in {"TargetApplied", "Committed"} =>
             ledger[s].state \in {"TargetApplied", "Committed"},
         \A p \in Paths : /\ slot'[s][p] # None => slot[s][p] # None
                          /\ preimages[s][p] = None => preimages'[s][p] = None
  PROVE  TargetInv' /\ LandInv'
  <2> USE <1>QuietTarget
  <2>1. ASSUME NEW t \in Stages, NEW p \in Paths PROVE Aside(t, p)' => Aside(t, p)
    <3>1. CASE t = s
      BY <3>1, Zenon DEF Aside, Prepared
    <3>2. CASE t # s
      BY <3>2, Zenon DEF OnlyStage, SameStage, Aside, Prepared
    <3> QED
      BY <3>1, <3>2, Zenon
  <2>2. \A t \in Stages : pc'[t] \in Replacing =>
            t # s /\ pc[t] \in Replacing /\ sel'[t] = sel[t]
    BY Zenon DEF OnlyStage, SameStage
  <2>3. TargetInv'
    BY <2>1, <2>2, Zenon DEF IInv, TargetInv, Replacing, whiteout
  <2>4. \A t \in Stages, p \in Paths : Crossed(t, p) => Crossed(t, p)'
    BY Zenon DEF OnlyStage, SameStage, Crossed
  <2>5. \A t \in Stages, p \in Paths : Written(t, p)' =>
            Written(t, p) /\ desired_fingerprint(t, p)' = desired_fingerprint(t, p)
    BY DEF OnlyStage, SameStage, Written, Replacing, desired_fingerprint, UpperContent,
           whiteout, Opaque
  <2>6. \A t \in Stages : /\ ledger'[t].paths = ledger[t].paths
                          /\ ledger'[t].state \in {"TargetApplied", "Committed"} =>
                                 ledger[t].state \in {"TargetApplied", "Committed"}
    BY Zenon DEF OnlyStage, SameStage
  <2>7. LandInv'
    BY <2>4, <2>5, <2>6, SMTT(30), Z3T(30) DEF IInv, LandInv, LandedAt, whiteout
  <2> QED
    BY <2>3, <2>7, Zenon

\* The files of a stage stand when nothing is written to them.
<1>DiskKept.
  ASSUME NEW s \in Stages, DiskInv(s),
         upper'[s] = upper[s], unsynced'[s] = unsynced[s], preimages'[s] = preimages[s],
         ledger'[s] = ledger[s], slot'[s] = slot[s], backup'[s] = backup[s],
         meta'[s] = meta[s], run'[s] = run[s]
  PROVE  DiskInv(s)' /\ has_pending_applies(s)' = has_pending_applies(s)
  <2> USE <1>DiskKept
  <2>1. \A p : /\ has_pending_applies(s)' = has_pending_applies(s)
               /\ desired_fingerprint(s, p)' = desired_fingerprint(s, p)
    BY Zenon DEF has_pending_applies, desired_fingerprint, UpperContent, whiteout
  <2>4. RecordInv(s)'
    BY <2>1, Zenon DEF DiskInv, RecordInv
  <2>5. BatchInv(s)'
    BY <2>1, Zenon DEF DiskInv, BatchInv
  <2>6. BackupInv(s)'
    BY <2>1, Zenon DEF DiskInv, BackupInv
  <2> QED
    BY <2>1, <2>4, <2>5, <2>6, Zenon DEF DiskInv

\* A step that writes nothing: it moves the operation on s to a step that is
\* not one of the writing ones.
<1>MemoryStep.
  ASSUME IInv, NEW s \in Stages, UNCHANGED <<disk, edits>>, faults' \in Nat,
         pc' \in [Stages -> AllSteps], todo' \in [Stages -> SUBSET Paths],
         op' \in [Stages -> {"none", "apply", "recover", "drop"}],
         sel' \in [Stages -> SUBSET Paths], mem' \in [Stages -> Records],
         lock' \in Stages \cup {None}, LockMove(s),
         \A t \in Stages \ {s} : /\ pc'[t] = pc[t] /\ todo'[t] = todo[t] /\ op'[t] = op[t]
                                 /\ sel'[t] = sel[t] /\ mem'[t] = mem[t],
         pc'[s] \notin Replacing, OpInv(s)'
  PROVE  IInv'
  <2> USE <1>MemoryStep
  <2>1. TypeOK'
    BY Zenon DEF IInv, TypeOK, disk, AllSteps
  <2>2. OnlyStage(s)
    BY Zenon DEF OnlyStage, SameStage, disk
  <2>3. DiskInv(s)'
    BY <1>DiskKept, Zenon DEF disk, IInv
  <2>4. TargetInv' /\ LandInv'
    BY <2>2, <1>QuietTarget, Zenon DEF disk
  <2> QED
    BY <2>1, <2>2, <2>3, <2>4, <1>OtherStages, Zenon DEF IInv

\* An operation that ends, with an error or not, changes nothing on disk.
<1>EndsInv.
  ASSUME IInv, NEW s \in Stages, Return(s), UNCHANGED <<disk, edits>>, faults' \in Nat
  PROVE  IInv'
  <2> USE <1>EndsInv
  <2>1. TypeOK
    BY Zenon DEF IInv
  <2> QED
    BY <2>1, Returns, <1>MemoryStep, Zenon DEF Replacing

\* Refuse.
<1>RefuseInv.
  ASSUME IInv, NEW s \in Stages, Refuse(s)
  PROVE  IInv'
  BY <1>RefuseInv, <1>EndsInv, Zenon DEF Refuse, IInv, TypeOK

(* Steps that only move the operation.                                      *)

\* An operation starts.
<1>BeginInv.
  ASSUME IInv, NEW s \in Stages, NEW o \in {"apply", "recover", "drop"},
         NEW paths \in SUBSET Paths, Begin(s, o, paths)
  PROVE  IInv'
  <2> USE <1>BeginInv
  <2>1. TypeOK /\ ReadRun(s) \in Records /\ OpInv(s) /\ DiskInv(s)
    BY ReadFacts DEF IInv
  <2>2. /\ pc' \in [Stages -> AllSteps] /\ todo' \in [Stages -> SUBSET Paths]
        /\ pc'[s] = "lock" /\ pc[s] = "idle"
        /\ \A t \in Stages \ {s} : pc'[t] = pc[t] /\ todo'[t] = todo[t]
    BY <2>1, Goes, Zenon DEF Begin, AllSteps
  <2>3. /\ op' \in [Stages -> {"none", "apply", "recover", "drop"}] /\ op'[s] = o
        /\ \A t \in Stages \ {s} : op'[t] = op[t]
    BY <2>1 DEF Begin, TypeOK
  <2>4. /\ sel' \in [Stages -> SUBSET Paths] /\ sel'[s] = paths
        /\ \A t \in Stages \ {s} : sel'[t] = sel[t]
    BY <2>1 DEF Begin, TypeOK
  <2>5. /\ mem' \in [Stages -> Records] /\ mem'[s] = ReadRun(s)
        /\ \A t \in Stages \ {s} : mem'[t] = mem[t]
    BY <2>1 DEF Begin, TypeOK
  <2>6. /\ UNCHANGED <<disk, edits>> /\ lock' = lock /\ lock' \in Stages \cup {None}
        /\ faults' \in Nat /\ LockMove(s)
    BY <2>1 DEF Begin, TypeOK, LockMove
  <2>7. o \in {"apply", "drop"} =>
            /\ ~has_pending_applies(s) /\ run[s].state = "Staged" /\ mem'[s] = run[s]
            /\ meta[s].state \notin Terminal
    BY <2>5, ReadFacts, Zenon DEF Begin
  <2>8. o = "apply" => \A p \in paths : upper[s][p] # "gone"
    BY DEF Begin, Staged
  <2>9. /\ has_pending_applies(s)' = has_pending_applies(s)
        /\ run'[s] = run[s] /\ meta'[s] = meta[s] /\ upper'[s] = upper[s]
    BY <2>6, Zenon DEF disk, has_pending_applies
  <2>10. OpInv(s)'
    BY <2>2, <2>3, <2>4, <2>7, <2>8, <2>9, Zenon DEF OpInv, Locked, Writing, Completing
  <2> QED
    BY <2>2, <2>3, <2>4, <2>5, <2>6, <2>10, <1>MemoryStep, Zenon DEF Replacing

\* The operation on s goes on to another step with the same selection.
<1>MovesOn.
  ASSUME IInv, NEW s \in Stages, UNCHANGED <<disk, lock, op, sel, mem, edits, faults>>,
         NEW step \in AllSteps, NEW paths \in SUBSET Paths, Goto(s, step, paths),
         step \notin Replacing, OpInv(s)'
  PROVE  IInv'
  <2> USE <1>MovesOn
  <2>1. TypeOK
    BY DEF IInv
  <2>2. /\ pc' \in [Stages -> AllSteps] /\ todo' \in [Stages -> SUBSET Paths]
        /\ pc'[s] = step
        /\ \A t \in Stages \ {s} : pc'[t] = pc[t] /\ todo'[t] = todo[t]
    BY <2>1, Goes
  <2>3. /\ lock' \in Stages \cup {None} /\ LockMove(s)
        /\ op' \in [Stages -> {"none", "apply", "recover", "drop"}]
        /\ sel' \in [Stages -> SUBSET Paths] /\ mem' \in [Stages -> Records] /\ faults' \in Nat
    BY <2>1, Zenon DEF TypeOK, LockMove
  <2> QED
    BY <2>2, <2>3, <1>MemoryStep, Zenon

\* The target lock is taken.
<1>LockInv.
  ASSUME IInv, NEW s \in Stages, Lock(s)
  PROVE  IInv'
  <2> USE <1>LockInv
  <2>1. TypeOK /\ OpInv(s) /\ mem[s] \in Records /\ meta[s] \in Records
    BY DEF IInv, TypeOK
  <2>2. /\ pc' \in [Stages -> AllSteps] /\ todo' \in [Stages -> SUBSET Paths]
        /\ pc'[s] = "enter" /\ pc[s] = "lock"
        /\ \A t \in Stages \ {s} : pc'[t] = pc[t] /\ todo'[t] = todo[t]
    <3>1. Goto(s, "enter", {}) /\ pc[s] = "lock"
      BY Zenon DEF Lock
    <3>2. "enter" \in AllSteps /\ {} \in SUBSET Paths
      BY DEF AllSteps, Locked
    <3> QED
      BY <2>1, <3>1, <3>2, Goes, Zenon
  <2>3. /\ UNCHANGED <<disk, edits>> /\ lock = None /\ lock' = s /\ LockMove(s)
        /\ lock' \in Stages \cup {None} /\ op' = op /\ sel' = sel /\ faults' \in Nat
        /\ op' \in [Stages -> {"none", "apply", "recover", "drop"}]
        /\ sel' \in [Stages -> SUBSET Paths]
    BY <2>1, Zenon DEF Lock, TypeOK, LockMove
  <2>4. reconcile_terminal_overlay(s, mem[s]) \in Records
    BY <2>1 DEF reconcile_terminal_overlay
  <2>5. /\ mem' \in [Stages -> Records]
        /\ mem'[s] = IF op[s] = "apply" THEN mem[s] ELSE reconcile_terminal_overlay(s, mem[s])
        /\ \A t \in Stages \ {s} : mem'[t] = mem[t]
    BY <2>1, <2>4, Zenon DEF Lock, TypeOK
  <2>6. op[s] \in {"apply", "drop"} => mem'[s] = mem[s]
    BY <2>1, <2>2, <2>5 DEF OpInv, reconcile_terminal_overlay, Reconciles
  <2>7. /\ has_pending_applies(s)' = has_pending_applies(s)
        /\ run'[s] = run[s] /\ meta'[s] = meta[s] /\ upper'[s] = upper[s]
    BY <2>3 DEF disk, has_pending_applies
  <2>8. OpInv(s)'
    BY <2>1, <2>2, <2>3, <2>6, <2>7, ZenonT(60) DEF OpInv, Locked, Writing, Completing
  <2> QED
    BY <2>2, <2>3, <2>5, <2>8, <1>MemoryStep, Zenon DEF Replacing

\* A leftover backup is found.
<1>SweepInv.
  ASSUME IInv, NEW s \in Stages, Sweep(s)
  PROVE  IInv'
  <2> USE <1>SweepInv
  <2>1. TypeOK /\ OpInv(s) /\ Goto(s, "sweep", {})
    BY DEF IInv, Sweep
  <2>2. pc'[s] = "sweep" /\ todo'[s] = {}
    <3>1. "sweep" \in AllSteps /\ {} \in SUBSET Paths
      BY Zenon DEF AllSteps, Locked
    <3> QED
      BY <2>1, <3>1, Goes, Zenon
  <2>3. OpInv(s)'
    BY <2>1, <2>2, Zenon DEF Sweep, LeftoverBackup, OpInv, Locked, Writing, Completing, disk,
       has_pending_applies
  <2> QED
    BY <2>1, <2>3, <1>MovesOn DEF Sweep, AllSteps, Locked, Replacing

\* A pending apply is taken up again.
<1>ResumeInv.
  ASSUME IInv, NEW s \in Stages, Resume(s)
  PROVE  IInv'
  <2> USE <1>ResumeInv
  <2>1. TypeOK /\ OpInv(s) /\ ledger[s] \in Ledgers /\ pc[s] = "enter" /\ op[s] = "recover"
    BY Zenon DEF IInv, TypeOK, Resume
  <2>2. CASE ledger[s].gen # mem[s].gen
    BY <2>2, <1>RefuseInv, Zenon DEF Resume
  <2>3. CASE ledger[s].gen = mem[s].gen
    <3> DEFINE paths == ledger[s].paths
               step == IF ledger[s].state = "TargetApplied" THEN "prune"
                       ELSE IF Replaced(s, paths) # {} THEN "restore" ELSE "check"
               rest == IF ledger[s].state = "TargetApplied" THEN paths
                       ELSE IF Replaced(s, paths) # {} THEN Replaced(s, paths) ELSE {}
    <3>1. /\ Goto(s, step, rest) /\ sel' = [sel EXCEPT ![s] = paths]
          /\ UNCHANGED <<disk, lock, op, mem, edits, faults>>
      BY <2>3, Zenon DEF Resume
    <3>2. paths \in SUBSET Paths /\ rest \in SUBSET paths /\ rest \in SUBSET Paths
      BY <2>1 DEF Ledgers, Replaced
    <3>3. step \in AllSteps /\ step \notin Replacing
      BY Zenon DEF AllSteps, Locked, Writing, Completing, Replacing
    <3>4. /\ pc' \in [Stages -> AllSteps] /\ todo' \in [Stages -> SUBSET Paths]
          /\ pc'[s] = step /\ todo'[s] = rest
          /\ \A t \in Stages \ {s} : pc'[t] = pc[t] /\ todo'[t] = todo[t]
      BY <2>1, <3>1, <3>2, <3>3, Goes, SMTT(30), Z3T(30)
    <3>5. /\ sel' \in [Stages -> SUBSET Paths] /\ sel'[s] = paths
          /\ \A t \in Stages \ {s} : sel'[t] = sel[t]
      BY <2>1, <3>1, <3>2, Zenon DEF TypeOK
    <3>6. /\ lock' \in Stages \cup {None} /\ LockMove(s) /\ faults' \in Nat
          /\ op' \in [Stages -> {"none", "apply", "recover", "drop"}]
          /\ mem' \in [Stages -> Records]
      BY <2>1, <3>1 DEF TypeOK, LockMove
    <3>7. ledger[s].state = "TargetApplied" \/ ledger[s].state = "Prepared"
      BY Zenon DEF Resume, has_pending_applies
    <3>8. OpInv(s)'
      <4>1. CASE ledger[s].state = "TargetApplied"
        <5>1. pc'[s] = "prune" /\ todo'[s] = paths /\ sel'[s] = paths
          BY <3>4, <3>5, <4>1
        <5> QED
          BY <2>1, <2>3, <3>1, <4>1, <5>1, Zenon DEF OpInv, Locked, Writing, Completing, disk
      <4>2. CASE ledger[s].state = "Prepared"
        <5>1. pc'[s] \in {"restore", "check"} /\ todo'[s] \subseteq paths /\ sel'[s] = paths
          BY <3>2, <3>4, <3>5, <4>2
        <5> QED
          BY <2>1, <2>3, <3>1, <4>2, <5>1, Zenon DEF OpInv, Locked, Writing, Completing, disk
      <4> QED
        BY <3>7, <4>1, <4>2
    <3> HIDE DEF step, rest, paths
    <3> QED
      BY <3>1, <3>3, <3>4, <3>5, <3>6, <3>8, <1>MemoryStep
  <2> QED
    BY <2>2, <2>3

\* A drop begins to remove what is staged.
<1>DiscardInv.
  ASSUME IInv, NEW s \in Stages, Discard(s)
  PROVE  IInv'
  <2> USE <1>DiscardInv
  <2>1. TypeOK /\ OpInv(s) /\ pc[s] = "enter" /\ op[s] = "drop"
    BY DEF IInv, Discard
  <2>2. CASE has_pending_applies(s) \/ mem[s].state # "Staged"
    BY <2>2, <1>RefuseInv DEF Discard
  <2>3. CASE ~(has_pending_applies(s) \/ mem[s].state # "Staged")
    <3> DEFINE step == IF Staged(s) # {} THEN "clear" ELSE "discard"
               rest == IF Staged(s) # {} THEN Staged(s) ELSE {}
    <3>1. Goto(s, step, rest) /\ UNCHANGED <<disk, lock, op, sel, mem, edits, faults>>
      BY <2>3, Zenon DEF Discard
    <3>2. step \in AllSteps /\ step \notin Replacing /\ rest \in SUBSET Paths
          /\ step \in {"clear", "discard"}
      BY Zenon DEF AllSteps, Locked, Replacing, Staged
    <3>3. pc'[s] = step
      BY <2>1, <3>1, <3>2, Goes
    <3>4. OpInv(s)'
      BY <2>1, <3>1, <3>2, <3>3, Zenon DEF OpInv, Locked, Writing, Completing, disk,
         has_pending_applies
    <3> HIDE DEF step, rest
    <3> QED
      BY <3>1, <3>2, <3>4, <1>MovesOn
  <2> QED
    BY <2>2, <2>3, Zenon

\* After a cleanup the sweep goes back to its operation, an apply goes on to the
\* Run record and a recovery ends.
<1>AfterCleanupGoes.
  ASSUME IInv, NEW s \in Stages, AfterCleanup(s),
         pc[s] \in {"sweep", "sweeping", "clean", "cleaning"},
         ledger'[s] = ledger[s], meta'[s] = meta[s], run'[s] = run[s], upper'[s] = upper[s],
         backup'[s] = "none"
  PROVE  /\ pc' \in [Stages -> AllSteps] /\ todo' \in [Stages -> SUBSET Paths]
         /\ op' \in [Stages -> {"none", "apply", "recover", "drop"}]
         /\ sel' \in [Stages -> SUBSET Paths] /\ mem' \in [Stages -> Records]
         /\ lock' \in Stages \cup {None} /\ LockMove(s)
         /\ \A t \in Stages \ {s} : /\ pc'[t] = pc[t] /\ todo'[t] = todo[t] /\ op'[t] = op[t]
                                    /\ sel'[t] = sel[t] /\ mem'[t] = mem[t]
         /\ pc'[s] \notin Replacing /\ OpInv(s)'
  <2> USE <1>AfterCleanupGoes
  <2>1. TypeOK /\ OpInv(s) /\ has_pending_applies(s)' = has_pending_applies(s)
    BY Zenon DEF IInv, has_pending_applies
  <2>0. "enter" \in AllSteps /\ "save" \in AllSteps /\ {} \in SUBSET Paths
    BY DEF AllSteps, Locked
  <2>2. CASE pc[s] \in {"sweep", "sweeping"}
    <3>1. Goto(s, "enter", {}) /\ UNCHANGED <<lock, op, sel, mem>>
      BY <2>2, ZenonT(60) DEF AfterCleanup
    <3>2. /\ pc' \in [Stages -> AllSteps] /\ todo' \in [Stages -> SUBSET Paths]
          /\ pc'[s] = "enter"
          /\ \A t \in Stages \ {s} : pc'[t] = pc[t] /\ todo'[t] = todo[t]
      BY <2>0, <2>1, <3>1, Goes
    <3>3. OpInv(s)'
      BY <2>1, <2>2, <3>1, <3>2, ZenonT(60) DEF OpInv, Locked, Writing, Completing
    <3> QED
      BY <2>1, <3>1, <3>2, <3>3, Zenon DEF TypeOK, LockMove, Replacing
  <2>3. CASE pc[s] \in {"clean", "cleaning"} /\ op[s] = "apply"
    <3>1. Goto(s, "save", {}) /\ Release(s) /\ UNCHANGED <<op, sel, mem>>
      BY <2>3, Zenon DEF AfterCleanup
    <3>2. /\ pc' \in [Stages -> AllSteps] /\ todo' \in [Stages -> SUBSET Paths]
          /\ pc'[s] = "save"
          /\ \A t \in Stages \ {s} : pc'[t] = pc[t] /\ todo'[t] = todo[t]
      BY <2>0, <2>1, <3>1, Goes, Zenon
    <3>3. OpInv(s)'
      BY <2>1, <2>3, <3>1, <3>2, Zenon DEF OpInv, Locked, Writing, Completing, has_pending_applies
    <3> QED
      BY <2>1, <3>1, <3>2, <3>3, Zenon DEF TypeOK, LockMove, Replacing, Release
  <2>4. CASE pc[s] \notin {"sweep", "sweeping"} /\ ~(pc[s] \in {"clean", "cleaning"} /\ op[s] = "apply")
    <3>1. Return(s)
      BY <2>4, Zenon DEF AfterCleanup
    <3> QED
      BY <2>1, <3>1, Returns, Zenon DEF Replacing
  <2> QED
    BY <2>2, <2>3, <2>4, Zenon

\* The backup directory is opened, or there is none.
<1>OpenBackupInv.
  ASSUME IInv, NEW s \in Stages, OpenBackup(s)
  PROVE  IInv'
  <2> USE <1>OpenBackupInv
  <2>1. /\ TypeOK /\ OpInv(s) /\ UNCHANGED <<disk, edits, faults>> /\ faults' \in Nat
        /\ backup[s] \in {"none", "owned", "unowned"} /\ pc[s] \in {"sweep", "clean"}
    BY ZenonT(60) DEF IInv, TypeOK, OpenBackup
  <2>2. CASE backup[s] = "none"
    <3>1. AfterCleanup(s)
      BY <2>2, Zenon DEF OpenBackup
    <3>2. /\ ledger'[s] = ledger[s] /\ meta'[s] = meta[s] /\ run'[s] = run[s]
          /\ upper'[s] = upper[s] /\ backup'[s] = "none" /\ UNCHANGED <<disk, edits>>
      BY <2>1, <2>2 DEF disk
    <3> QED
      BY <2>1, <3>1, <3>2, <1>AfterCleanupGoes, <1>MemoryStep
  <2>3. CASE backup[s] = "owned"
    <3> DEFINE step == IF pc[s] = "sweep" THEN "sweeping" ELSE "cleaning"
    <3>1. Goto(s, step, {}) /\ UNCHANGED <<lock, op, sel, mem>>
      BY <2>3, Zenon DEF OpenBackup
    <3>2. step \in AllSteps /\ step \notin Replacing /\ {} \in SUBSET Paths
      BY Zenon DEF AllSteps, Locked, Replacing
    <3>3. pc'[s] = step
      BY <2>1, <3>1, <3>2, Goes
    <3>4. OpInv(s)'
      BY <2>1, <3>1, <3>3, Zenon DEF OpInv, Locked, Writing, Completing, disk, has_pending_applies
    <3>5. UNCHANGED <<disk, lock, op, sel, mem, edits, faults>>
      BY <2>1, <3>1
    <3> HIDE DEF step
    <3> QED
      BY <3>1, <3>2, <3>4, <3>5, <1>MovesOn
  <2>4. CASE backup[s] = "unowned"
    <3>1. Return(s)
      BY <2>4, Zenon DEF OpenBackup
    <3> QED
      BY <2>1, <3>1, <1>EndsInv
  <2> QED
    BY <2>1, <2>2, <2>3, <2>4

\* The ownership receipt goes.
<1>RemoveReceiptInv.
  ASSUME IInv, NEW s \in Stages, RemoveReceipt(s)
  PROVE  IInv'
  <2> USE <1>RemoveReceiptInv
  <2>1. /\ TypeOK /\ OpInv(s) /\ DiskInv(s)
        /\ pc[s] \in {"sweeping", "cleaning"} /\ backup[s] = "owned"
        /\ backup' = [backup EXCEPT ![s] = "unowned"]
        /\ UNCHANGED <<target, upper, unsynced, preimages, ledger, slot, meta, run, lock, pc, op,
                     sel, todo, mem, edits, faults>>
    BY Zenon DEF IInv, RemoveReceipt
  <2>2. /\ backup' \in [Stages -> {"none", "owned", "unowned"}]
        /\ backup'[s] = "unowned" /\ \A t \in Stages \ {s} : backup'[t] = backup[t]
    BY <2>1 DEF TypeOK
  <2>3. TypeOK'
    BY <2>1, <2>2, Zenon DEF TypeOK
  <2>4. OnlyStage(s) /\ LockMove(s)
    BY <2>1, <2>2, Zenon DEF OnlyStage, SameStage, LockMove
  <2>5. DiskInv(s)'
    BY <2>1, <2>2 DEF DiskInv, RecordInv, BatchInv, BackupInv, has_pending_applies,
       desired_fingerprint, UpperContent, whiteout
  <2>6. OpInv(s)'
    BY <2>1, <2>2, Zenon DEF OpInv, Locked, has_pending_applies
  <2>7. TargetInv' /\ LandInv'
    BY <2>1, <2>4, <1>QuietTarget, Zenon DEF Replacing
  <2> QED
    BY <2>3, <2>4, <2>5, <2>6, <2>7, <1>OtherStages DEF IInv

\* An original in the backup of a committed apply goes.
<1>RemoveOriginalInv.
  ASSUME IInv, NEW s \in Stages, NEW q \in Paths, RemoveOriginal(s, q)
  PROVE  IInv'
  <2> USE <1>RemoveOriginalInv
  <2>1. /\ TypeOK /\ OpInv(s) /\ DiskInv(s)
        /\ pc[s] \in {"sweeping", "cleaning"}
        /\ slot' = [slot EXCEPT ![s][q] = None]
        /\ UNCHANGED <<target, upper, unsynced, preimages, ledger, backup, meta, run, lock, pc, op,
                     sel, todo, mem, edits, faults>>
    BY Zenon DEF IInv, RemoveOriginal
  <2>2. /\ slot' \in [Stages -> [Paths -> Contents \cup {None}]]
        /\ \A t \in Stages \ {s} : slot'[t] = slot[t]
        /\ \A p \in Paths : slot'[s][p] = IF p = q THEN None ELSE slot[s][p]
    BY <2>1 DEF TypeOK
  <2>3. TypeOK'
    BY <2>1, <2>2, Zenon DEF TypeOK
  <2>4. OnlyStage(s) /\ LockMove(s)
    BY <2>1, <2>2, Zenon DEF OnlyStage, SameStage, LockMove
  <2>5. ledger[s].state = "Committed"
    BY <2>1 DEF OpInv
  <2>6. DiskInv(s)'
    BY <2>1, <2>2, <2>5, Zenon DEF DiskInv, RecordInv, BatchInv, BackupInv, has_pending_applies
  <2>7. OpInv(s)'
    BY <2>1, <2>2, Zenon DEF OpInv, Locked, has_pending_applies
  <2>8. TargetInv' /\ LandInv'
    BY <2>1, <2>2, <2>4, <1>QuietTarget, Zenon DEF Replacing
  <2> QED
    BY <2>3, <2>4, <2>6, <2>7, <2>8, <1>OtherStages DEF IInv

\* The empty backup directory goes.
<1>RemoveBackupInv.
  ASSUME IInv, NEW s \in Stages, RemoveBackup(s)
  PROVE  IInv'
  <2> USE <1>RemoveBackupInv
  <2>1. /\ TypeOK /\ OpInv(s) /\ DiskInv(s)
        /\ pc[s] \in {"sweeping", "cleaning"} /\ \A p \in Paths : slot[s][p] = None
        /\ backup' = [backup EXCEPT ![s] = "none"] /\ AfterCleanup(s)
        /\ UNCHANGED <<target, upper, unsynced, preimages, ledger, slot, meta, run, edits, faults>>
    BY Zenon DEF IInv, RemoveBackup
  <2>2. /\ backup' \in [Stages -> {"none", "owned", "unowned"}]
        /\ backup'[s] = "none" /\ \A t \in Stages \ {s} : backup'[t] = backup[t]
    BY <2>1 DEF TypeOK
  <2>a. /\ pc' \in [Stages -> AllSteps] /\ todo' \in [Stages -> SUBSET Paths]
        /\ op' \in [Stages -> {"none", "apply", "recover", "drop"}]
        /\ sel' \in [Stages -> SUBSET Paths] /\ mem' \in [Stages -> Records]
        /\ lock' \in Stages \cup {None} /\ LockMove(s)
        /\ \A t \in Stages \ {s} : /\ pc'[t] = pc[t] /\ todo'[t] = todo[t] /\ op'[t] = op[t]
                                   /\ sel'[t] = sel[t] /\ mem'[t] = mem[t]
        /\ pc'[s] \notin Replacing /\ OpInv(s)'
    BY <2>1, <2>2, <1>AfterCleanupGoes, Zenon
  <2>3. TypeOK'
    BY <2>1, <2>2, <2>a, ZenonT(60) DEF TypeOK, AllSteps
  <2>4. OnlyStage(s)
    BY <2>1, <2>2, <2>a, Zenon DEF OnlyStage, SameStage
  <2>5. DiskInv(s)'
    BY <2>1, <2>2 DEF DiskInv, RecordInv, BatchInv, BackupInv, has_pending_applies,
       desired_fingerprint, UpperContent, whiteout
  <2>7. TargetInv' /\ LandInv'
    BY <2>1, <2>4, <2>a, <1>QuietTarget, Zenon
  <2> QED
    BY <2>3, <2>4, <2>5, <2>a, <2>7, <1>OtherStages, Zenon DEF IInv

(* Steps that write the records and the upper, not the target.              *)

\* The Run record is written.
<1>SaveInv.
  ASSUME IInv, NEW s \in Stages, Save(s)
  PROVE  IInv'
  <2> USE <1>SaveInv
  <2>1. /\ TypeOK /\ OpInv(s) /\ DiskInv(s) /\ pc[s] = "save" /\ Return(s) /\ Sync(s)
        /\ run' = [run EXCEPT ![s] = [mem[s] EXCEPT !.gen = @ + 1]]
        /\ UNCHANGED <<target, upper, preimages, ledger, slot, backup, meta, edits, faults>>
    BY DEF IInv, Save
  <2>2. mem[s] \in Records
    BY <2>1 DEF TypeOK
  <2>3. /\ [mem[s] EXCEPT !.gen = @ + 1] \in Records
        /\ [mem[s] EXCEPT !.gen = @ + 1].state = mem[s].state
    BY <2>2 DEF Records
  <2>4. /\ run' \in [Stages -> Records] /\ run'[s].state = mem[s].state
        /\ \A t \in Stages \ {s} : run'[t] = run[t]
    BY <2>1, <2>3 DEF TypeOK
  <2>5. TypeOK'
    BY <2>1, <2>4, Returns, Syncs, Zenon DEF TypeOK, AllSteps
  <2>6. OnlyStage(s) /\ LockMove(s) /\ OpInv(s)' /\ pc'[s] \notin Replacing /\ unsynced'[s] = {}
    BY <2>1, <2>4, Returns, Syncs DEF OnlyStage, SameStage, Replacing
  <2>7. /\ ~has_pending_applies(s) /\ meta[s] = mem[s]
        /\ backup[s] = "none" \/ mem[s].state \in Terminal
    BY <2>1, Zenon DEF OpInv, Terminal
  <2>8. DiskInv(s)'
    BY <2>1, <2>4, <2>6, <2>7 DEF DiskInv, RecordInv, BatchInv, BackupInv, has_pending_applies
  <2>9. TargetInv' /\ LandInv'
    BY <2>1, <2>6, <1>QuietTarget, Zenon
  <2> QED
    BY <2>5, <2>6, <2>8, <2>9, <1>OtherStages, Zenon DEF IInv

\* The overlay record of a dropped stage is published.
<1>DiscardedInv.
  ASSUME IInv, NEW s \in Stages, Discarded(s)
  PROVE  IInv'
  <2> USE <1>DiscardedInv
  <2>1. /\ TypeOK /\ OpInv(s) /\ DiskInv(s) /\ pc[s] = "discard" /\ Goto(s, "save", {}) /\ Sync(s)
        /\ mem' = [mem EXCEPT ![s].state = "Discarded"] /\ meta' = [meta EXCEPT ![s] = mem'[s]]
        /\ Release(s)
        /\ UNCHANGED <<target, upper, preimages, ledger, slot, backup, run, op, sel, edits, faults>>
    BY DEF IInv, Discarded
  <2>2. mem[s] \in Records
    BY <2>1 DEF TypeOK
  <2>3. /\ [mem[s] EXCEPT !.state = "Discarded"] \in Records
        /\ [mem[s] EXCEPT !.state = "Discarded"].state = "Discarded"
        /\ [mem[s] EXCEPT !.state = "Discarded"].gen = mem[s].gen
    BY <2>2 DEF Records, Terminal
  <2>4. /\ mem' \in [Stages -> Records] /\ mem'[s].state = "Discarded" /\ mem'[s] \in Records
        /\ mem'[s].gen = mem[s].gen /\ \A t \in Stages \ {s} : mem'[t] = mem[t]
    BY <2>1, <2>3 DEF TypeOK
  <2>5. /\ meta' \in [Stages -> Records] /\ meta'[s] = mem'[s]
        /\ \A t \in Stages \ {s} : meta'[t] = meta[t]
    BY <2>1, <2>4 DEF TypeOK
  <2>6. lock' \in Stages \cup {None} /\ LockMove(s)
    BY <2>1 DEF Release, LockMove, TypeOK
  <2>7. "save" \in AllSteps /\ {} \in SUBSET Paths
    BY DEF AllSteps
  <2>8. /\ pc' \in [Stages -> AllSteps] /\ todo' \in [Stages -> SUBSET Paths] /\ pc'[s] = "save"
        /\ \A t \in Stages \ {s} : pc'[t] = pc[t] /\ todo'[t] = todo[t]
    BY <2>1, <2>7, Goes
  <2>9. TypeOK'
    BY <2>1, <2>4, <2>5, <2>6, <2>8, Syncs, Zenon DEF TypeOK, AllSteps
  <2>10. OnlyStage(s) /\ unsynced'[s] = {}
    BY <2>1, <2>4, <2>5, <2>8, Syncs DEF OnlyStage, SameStage
  <2>11. /\ op[s] = "drop" /\ ~has_pending_applies(s) /\ run[s].state = "Staged"
         /\ mem[s].gen = run[s].gen
    BY <2>1, Zenon DEF OpInv
  <2>12. DiskInv(s)'
    BY <2>1, <2>4, <2>5, <2>10, <2>11 DEF DiskInv, RecordInv, BatchInv, BackupInv,
       has_pending_applies
  <2>13. OpInv(s)'
    BY <2>1, <2>4, <2>5, <2>8, <2>11 DEF OpInv, has_pending_applies, Locked, Writing, Completing
  <2>14. TargetInv' /\ LandInv'
    BY <2>1, <2>8, <2>10, <1>QuietTarget, Zenon DEF Replacing
  <2> QED
    BY <2>6, <2>9, <2>10, <2>12, <2>13, <2>14, <1>OtherStages DEF IInv

\* An entry of the upper is removed, wholly or in part; nothing of a prepared
\* batch is.
<1>RemoveUpperInv.
  ASSUME IInv, NEW s \in Stages, NEW q \in Paths, RemoveUpper(s, q), q \in todo[s],
         pc[s] \in {"prune", "clear"}
  PROVE  IInv'
  <2> USE <1>RemoveUpperInv
  <2>1. /\ TypeOK /\ OpInv(s) /\ DiskInv(s)
        /\ UNCHANGED <<target, preimages, ledger, slot, backup, meta, run, lock, op,
                       sel, mem, edits, faults>>
    BY DEF IInv, RemoveUpper
  <2> DEFINE partly == Opaque(s, q) /\ upper[s][q] = "full"
  <2>2. /\ upper' = [upper EXCEPT ![s][q] = IF partly THEN "torn" ELSE "gone"]
        /\ unsynced' = [unsynced EXCEPT ![s] = @ \cup ({q} \cap Staged(s))]
    BY Zenon DEF RemoveUpper
  <2>3. /\ upper' \in [Stages -> [Paths -> {"full", "torn", "gone"}]]
        /\ \A t \in Stages \ {s} : upper'[t] = upper[t]
        /\ \A p \in Paths : upper'[s][p] = IF p # q THEN upper[s][p]
                                           ELSE IF partly THEN "torn" ELSE "gone"
    BY <2>1, <2>2, Zenon DEF TypeOK
  <2>4. /\ unsynced' \in [Stages -> SUBSET Paths]
        /\ \A t \in Stages \ {s} : unsynced'[t] = unsynced[t]
        /\ upper[s][q] = "gone" => unsynced'[s] = unsynced[s]
    BY <2>1, <2>2 DEF TypeOK, Staged
  <2>5. /\ pc' \in [Stages -> AllSteps] /\ todo' \in [Stages -> SUBSET Paths]
        /\ \A t \in Stages \ {s} : pc'[t] = pc[t] /\ todo'[t] = todo[t]
        /\ \/ pc'[s] = pc[s] /\ todo'[s] = todo[s] /\ partly
           \/ pc'[s] = pc[s] /\ todo'[s] = todo[s] \ {q} /\ ~partly
           \/ /\ todo'[s] = {} /\ todo[s] = {q} /\ ~partly
              /\ pc'[s] = IF pc[s] = "prune" THEN "settle" ELSE "discard"
    <3>0. todo[s] \in SUBSET Paths /\ pc[s] \in AllSteps
      BY <2>1 DEF TypeOK, AllSteps
    <3>1. CASE partly
      <4>1. pc' = pc /\ todo' = todo
        BY <3>1 DEF RemoveUpper
      <4>2. pc \in [Stages -> AllSteps] /\ todo \in [Stages -> SUBSET Paths]
        BY <2>1, Zenon DEF TypeOK, AllSteps
      <4> QED
        BY <3>1, <4>1, <4>2, Zenon
    <3>2. CASE ~partly /\ todo[s] # {q}
      <4>1. Goto(s, pc[s], todo[s] \ {q})
        BY <3>2 DEF RemoveUpper, Done
      <4>2. todo[s] \ {q} \in SUBSET Paths
        BY <3>0
      <4>3. /\ pc' \in [Stages -> AllSteps] /\ todo' \in [Stages -> SUBSET Paths]
            /\ pc'[s] = pc[s] /\ todo'[s] = todo[s] \ {q}
            /\ \A t \in Stages \ {s} : pc'[t] = pc[t] /\ todo'[t] = todo[t]
        <5>1. TypeOK /\ s \in Stages
          BY <2>1, ZenonT(60)
        <5> HIDE DEF partly
        <5> QED
          BY <3>0, <4>1, <4>2, <5>1, Goes, Zenon
      <4> QED
        BY <3>2, <4>3, Zenon
    <3>3. CASE ~partly /\ todo[s] = {q}
      <4> DEFINE step == IF pc[s] = "prune" THEN "settle" ELSE "discard"
      <4>1. Goto(s, step, {})
        BY <3>3, Zenon DEF RemoveUpper, Done, Onward
      <4>2. step \in AllSteps /\ {} \in SUBSET Paths
        BY DEF AllSteps, Locked, Completing
      <4> HIDE DEF step
      <4>3. /\ pc' \in [Stages -> AllSteps] /\ todo' \in [Stages -> SUBSET Paths]
            /\ \A t \in Stages \ {s} : pc'[t] = pc[t] /\ todo'[t] = todo[t]
            /\ pc'[s] = step /\ todo'[s] = {}
        BY <2>1, <4>1, <4>2, Goes, Zenon
      <4> QED
        BY <3>3, <4>3 DEF step
    <3> QED
      BY <3>1, <3>2, <3>3, Zenon
  <2>6. TypeOK'
    BY <2>1, <2>3, <2>4, <2>5, Zenon DEF TypeOK, AllSteps
  <2>7. OnlyStage(s) /\ LockMove(s)
    BY <2>1, <2>3, <2>4, <2>5, Zenon DEF OnlyStage, SameStage, LockMove
  <2>8. ledger[s].state # "Prepared"
    BY <2>1, Zenon DEF OpInv, Completing, has_pending_applies
  <2>9. DiskInv(s)'
    <3>1. RecordInv(s)'
      BY <2>1, <2>3, <2>4, Zenon DEF DiskInv, RecordInv, has_pending_applies
    <3> QED
      BY <2>1, <2>8, <3>1, Zenon DEF DiskInv, BatchInv, BackupInv, has_pending_applies
  <2>10. OpInv(s)'
    <3>1. CASE pc[s] = "prune"
      <4>1. /\ ledger[s].state = "TargetApplied" /\ sel[s] = ledger[s].paths
            /\ mem[s].gen = ledger[s].gen /\ lock = s /\ op[s] # "none" /\ op[s] # "drop"
            /\ \A p \in sel[s] : p \in todo[s] \/ upper[s][p] = "gone"
            /\ op[s] = "apply" => run[s].state = "Staged" /\ mem[s].gen = run[s].gen
        BY <2>1, <3>1, Zenon DEF OpInv, Locked, Writing, Completing
      <4>2. pc'[s] \in {"prune", "settle"} /\ (pc'[s] = "settle" => todo'[s] = {})
        BY <2>5, <3>1, Zenon
      <4>3. sel[s] \subseteq Paths
        BY <2>1 DEF TypeOK
      <4>4. \A p \in sel[s] : p \in todo'[s] \/ upper'[s][p] = "gone"
        BY <2>3, <2>5, <4>1, <4>3, ZenonT(60)
      <4> QED
        BY <2>1, <4>1, <4>2, <4>4, Zenon DEF OpInv, has_pending_applies, Locked, Writing, Completing
    <3>2. CASE pc[s] = "clear"
      BY <2>1, <2>3, <2>5, <3>2, Zenon DEF OpInv, has_pending_applies, Locked, Writing, Completing
    <3> QED
      BY <3>1, <3>2
  <2>11. TargetInv' /\ LandInv'
    BY <2>1, <2>5, <2>7, <1>QuietTarget, Zenon DEF Replacing
  <2> QED
    BY <2>6, <2>7, <2>9, <2>10, <2>11, <1>OtherStages DEF IInv

\* The overlay record of an applied batch is published.
<1>SettleInv.
  ASSUME IInv, NEW s \in Stages, Settle(s)
  PROVE  IInv'
  <2> USE <1>SettleInv
  <2> DEFINE state == IF Staged(s) = {} THEN "Applied" ELSE "Staged"
             rec == [mem[s] EXCEPT !.state = state]
  <2>1. /\ TypeOK /\ OpInv(s) /\ DiskInv(s) /\ pc[s] = "settle" /\ Goto(s, "consume", {})
        /\ Sync(s) /\ mem' = [mem EXCEPT ![s].state = state] /\ meta' = [meta EXCEPT ![s] = rec]
        /\ UNCHANGED <<target, upper, preimages, ledger, slot, backup, run, lock, op,
                       sel, edits, faults>>
    BY DEF IInv, Settle
  <2>2. mem[s] \in Records /\ state \in {"Applied", "Staged"}
    BY <2>1 DEF TypeOK
  <2>3. rec \in Records /\ rec.state = state /\ rec.gen = mem[s].gen
    BY <2>2 DEF Records, Terminal
  <2>4. /\ mem' \in [Stages -> Records] /\ mem'[s] = rec
        /\ \A t \in Stages \ {s} : mem'[t] = mem[t]
    BY <2>1, <2>3 DEF TypeOK
  <2>5. /\ meta' \in [Stages -> Records] /\ meta'[s] = rec
        /\ \A t \in Stages \ {s} : meta'[t] = meta[t]
    BY <2>1, <2>3 DEF TypeOK
  <2>6. state = "Applied" => \A p \in Paths : upper[s][p] = "gone"
    BY DEF Staged
  <2>7. "consume" \in AllSteps /\ {} \in SUBSET Paths
    BY DEF AllSteps, Locked, Completing
  <2>8. /\ pc' \in [Stages -> AllSteps] /\ todo' \in [Stages -> SUBSET Paths]
        /\ pc'[s] = "consume" /\ todo'[s] = {}
        /\ \A t \in Stages \ {s} : pc'[t] = pc[t] /\ todo'[t] = todo[t]
    BY <2>1, <2>7, Goes
  <2> HIDE DEF state, rec
  <2>9. TypeOK'
    BY <2>1, <2>4, <2>5, <2>8, Syncs, Zenon DEF TypeOK, AllSteps
  <2>10. OnlyStage(s) /\ unsynced'[s] = {} /\ LockMove(s)
    BY <2>1, <2>4, <2>5, <2>8, Syncs DEF OnlyStage, SameStage, LockMove
  <2>11. /\ ledger[s].state = "TargetApplied" /\ mem[s].gen = ledger[s].gen
         /\ ledger[s].gen = run[s].gen /\ run[s].state = "Staged"
    BY <2>1 DEF OpInv, Completing, DiskInv, RecordInv, has_pending_applies
  <2>12. DiskInv(s)'
    <3>1. RecordInv(s)'
      BY <2>1, <2>2, <2>3, <2>5, <2>6, <2>10, <2>11, Zenon DEF DiskInv, RecordInv, has_pending_applies
    <3> QED
      BY <2>1, <2>11, <3>1 DEF DiskInv, BatchInv, BackupInv, has_pending_applies
  <2>13. OpInv(s)'
    BY <2>1, <2>3, <2>4, <2>5, <2>8, <2>11 DEF OpInv, has_pending_applies, Locked, Writing,
       Completing
  <2>14. TargetInv' /\ LandInv'
    BY <2>1, <2>8, <2>10, <1>QuietTarget, Zenon DEF Replacing
  <2> QED
    BY <2>9, <2>10, <2>12, <2>13, <2>14, <1>OtherStages, Zenon DEF IInv

\* The preimages of the applied paths are consumed.
<1>ConsumeInv.
  ASSUME IInv, NEW s \in Stages, Consume(s)
  PROVE  IInv'
  <2> USE <1>ConsumeInv
  <2>1. /\ TypeOK /\ OpInv(s) /\ DiskInv(s) /\ pc[s] = "consume" /\ Goto(s, "commit", {}) /\ Sync(s)
        /\ preimages' = [preimages EXCEPT ![s] =
             [p \in Paths |->
                 IF p \in sel[s] /\ ~(Opaque(s, p) /\ upper[s][p] # "gone")
                 THEN None ELSE @[p]]]
        /\ UNCHANGED <<target, upper, ledger, slot, backup, meta, run, lock, op, sel,
                       mem, edits, faults>>
    BY DEF IInv, Consume
  <2>2. /\ ledger[s].state = "TargetApplied" /\ sel[s] = ledger[s].paths
        /\ \A p \in sel[s] : upper[s][p] = "gone"
    BY <2>1, Zenon DEF OpInv, Completing
  <2>3. /\ preimages' \in [Stages -> [Paths -> Contents \cup {None}]]
        /\ \A t \in Stages \ {s} : preimages'[t] = preimages[t]
        /\ \A p \in Paths : preimages'[s][p] = IF p \in sel[s] THEN None ELSE preimages[s][p]
    BY <2>1, <2>2, Zenon DEF TypeOK
  <2>7. "commit" \in AllSteps /\ {} \in SUBSET Paths
    BY DEF AllSteps, Locked, Completing
  <2>8. /\ pc' \in [Stages -> AllSteps] /\ todo' \in [Stages -> SUBSET Paths]
        /\ pc'[s] = "commit" /\ todo'[s] = {}
        /\ \A t \in Stages \ {s} : pc'[t] = pc[t] /\ todo'[t] = todo[t]
    BY <2>1, <2>7, Goes, Zenon
  <2>9. TypeOK'
    BY <2>1, <2>3, <2>8, Syncs, Zenon DEF TypeOK, AllSteps
  <2>10. OnlyStage(s) /\ unsynced'[s] = {} /\ LockMove(s)
    BY <2>1, <2>3, <2>8, Syncs, ZenonT(60) DEF OnlyStage, SameStage, LockMove
  <2>11. DiskInv(s)'
    BY <2>1, <2>2, <2>3, <2>10, Zenon DEF DiskInv, RecordInv, BatchInv, BackupInv,
       has_pending_applies
  <2>12. sel[s] \subseteq Paths
    BY <2>1 DEF TypeOK
  <2>13. OpInv(s)'
    BY <2>1, <2>2, <2>3, <2>8, <2>12, Zenon DEF OpInv, has_pending_applies, Locked, Writing,
       Completing
  <2>14. TargetInv' /\ LandInv'
    BY <2>1, <2>3, <2>8, <2>10, <1>QuietTarget, Zenon DEF Replacing
  <2> QED
    BY <2>9, <2>10, <2>11, <2>13, <2>14, <1>OtherStages, Zenon DEF IInv

\* The batch is committed.
<1>CommitInv.
  ASSUME IInv, NEW s \in Stages, Commit(s)
  PROVE  IInv'
  <2> USE <1>CommitInv
  <2>1. /\ TypeOK /\ OpInv(s) /\ DiskInv(s) /\ pc[s] = "commit" /\ Goto(s, "clean", {}) /\ Sync(s)
        /\ ledger' = [ledger EXCEPT ![s].state = "Committed"]
        /\ UNCHANGED <<target, upper, preimages, slot, backup, meta, run, lock, op,
                       sel, mem, edits, faults>>
    BY DEF IInv, Commit
  <2>2. /\ ledger' \in [Stages -> Ledgers]
        /\ ledger'[s].state = "Committed" /\ ledger'[s].gen = ledger[s].gen
        /\ ledger'[s].paths = ledger[s].paths /\ ledger'[s].preimages = ledger[s].preimages
        /\ \A t \in Stages \ {s} : ledger'[t] = ledger[t]
    BY <2>1, LedgerState, Zenon
  <2>3. /\ ledger[s].state = "TargetApplied" /\ sel[s] = ledger[s].paths
        /\ \A p \in sel[s] : preimages[s][p] = None
    BY <2>1 DEF OpInv, Completing
  <2>7. "clean" \in AllSteps /\ {} \in SUBSET Paths
    BY DEF AllSteps, Locked
  <2>8. /\ pc' \in [Stages -> AllSteps] /\ todo' \in [Stages -> SUBSET Paths]
        /\ pc'[s] = "clean" /\ todo'[s] = {}
        /\ \A t \in Stages \ {s} : pc'[t] = pc[t] /\ todo'[t] = todo[t]
    BY <2>1, <2>7, Goes
  <2>9. TypeOK'
    BY <2>1, <2>2, <2>8, Syncs, Zenon DEF TypeOK, AllSteps
  <2>10. OnlyStage(s) /\ unsynced'[s] = {} /\ LockMove(s)
    BY <2>1, <2>2, <2>8, Syncs, Zenon DEF OnlyStage, SameStage, LockMove
  <2>11. DiskInv(s)'
    BY <2>1, <2>2, <2>3, <2>10 DEF DiskInv, RecordInv, BatchInv, BackupInv, has_pending_applies
  <2>13. OpInv(s)'
    BY <2>1, <2>2, <2>3, <2>8 DEF OpInv, has_pending_applies, Locked, Writing, Completing
  <2>14. TargetInv' /\ LandInv'
    BY <2>1, <2>2, <2>3, <2>8, <2>10, <1>QuietTarget DEF Replacing
  <2> QED
    BY <2>9, <2>10, <2>11, <2>13, <2>14, <1>OtherStages DEF IInv

(* Steps that write the target, and those that decide it.                   *)

\* The batch is recorded.  No original of an earlier batch is left aside, for a
\* leftover backup has the generation of the Run record and is swept first.
<1>PrepareInv.
  ASSUME IInv, NEW s \in Stages, Prepare(s)
  PROVE  IInv'
  <2> USE <1>PrepareInv
  <2>1. TypeOK /\ OpInv(s) /\ DiskInv(s) /\ pc[s] = "enter" /\ op[s] = "apply" /\ ~LeftoverBackup(s)
    BY DEF IInv, Prepare
  <2>2. CASE \E p \in sel[s] : preimages[s][p] = None \/ target[p] # preimages[s][p]
    BY <2>2, <1>RefuseInv, Zenon DEF Prepare
  <2>3. CASE ~\E p \in sel[s] : preimages[s][p] = None \/ target[p] # preimages[s][p]
    <3> DEFINE new == [state |-> "Prepared", gen |-> mem[s].gen, paths |-> sel[s],
                       preimages |-> [p \in Paths |->
                           IF p \in sel[s] THEN preimages[s][p] ELSE None]]
    <3>1. /\ ledger' = [ledger EXCEPT ![s] = new] /\ Sync(s) /\ Goto(s, "check", {})
          /\ UNCHANGED <<target, upper, preimages, slot, backup, meta, run,
                         lock, op, sel, mem, edits, faults>>
      BY <2>3, Zenon DEF Prepare
    <3>2. /\ mem[s] \in Records /\ sel[s] \subseteq Paths /\ mem[s].gen \in Nat
          /\ \A p \in Paths : preimages[s][p] \in Contents \cup {None}
      BY <2>1 DEF TypeOK, Records
    <3>3. /\ new \in Ledgers /\ new.state = "Prepared" /\ new.gen = mem[s].gen
          /\ new.paths = sel[s] /\ \A p \in sel[s] : new.preimages[p] = preimages[s][p]
      BY <3>2, ZenonT(60) DEF Ledgers
    <3>4. /\ ledger' \in [Stages -> Ledgers] /\ ledger'[s] = new
          /\ \A t \in Stages \ {s} : ledger'[t] = ledger[t]
      BY <2>1, <3>1, <3>3 DEF TypeOK
    <3> HIDE DEF new
    <3>5. "check" \in AllSteps /\ {} \in SUBSET Paths
      BY SMTT(30) DEF AllSteps, Locked, Writing
    <3>6. /\ pc' \in [Stages -> AllSteps] /\ todo' \in [Stages -> SUBSET Paths]
          /\ pc'[s] = "check" /\ todo'[s] = {}
          /\ \A t \in Stages \ {s} : pc'[t] = pc[t] /\ todo'[t] = todo[t]
      BY <2>1, <3>1, <3>5, Goes, Zenon
    <3>7. TypeOK'
      BY <2>1, <3>1, <3>4, <3>6, Syncs, Zenon DEF TypeOK, AllSteps
    <3>8. OnlyStage(s) /\ unsynced'[s] = {} /\ LockMove(s)
      BY <2>1, <3>1, <3>4, <3>6, Syncs, Zenon DEF OnlyStage, SameStage, LockMove
    <3>9. /\ ~has_pending_applies(s) /\ run[s].state = "Staged" /\ mem[s].gen = run[s].gen
          /\ meta[s].state \notin Terminal /\ \A p \in sel[s] : upper[s][p] # "gone"
      BY <2>1, Zenon DEF OpInv
    <3>10. backup[s] = "none" /\ \A p \in Paths : slot[s][p] = None
      BY <2>1, <3>9, Zenon DEF DiskInv, BackupInv, LeftoverBackup, Terminal
    <3>11. \A p \in sel[s] : preimages[s][p] = Old /\ Change[s][p] # "none"
      BY <2>1, <2>3, <3>2, <3>9, Zenon DEF DiskInv, BatchInv
    <3>12. DiskInv(s)'
      <4>1. RecordInv(s)'
        BY <2>1, <3>1, <3>3, <3>4, <3>8, <3>9, Zenon DEF DiskInv, RecordInv,
           has_pending_applies, Terminal
      <4>2. BatchInv(s)'
        <5>1. /\ ledger'[s].state = "Prepared" /\ ledger'[s].paths = sel[s]
              /\ meta'[s].state \notin Terminal /\ unsynced'[s] = {}
          BY <3>1, <3>3, <3>4, <3>8, <3>9, Zenon
        <5>2. has_pending_applies(s)'
          BY <5>1, Zenon DEF has_pending_applies
        <5>3. \A p \in sel[s] : /\ upper'[s][p] # "gone" /\ ledger'[s].preimages[p] = Old
                                /\ preimages'[s][p] # None /\ slot'[s][p] = None
          <6>1. sel[s] \subseteq Paths /\ Old # None
            BY <2>1, <3>2, OwnContents, Zenon DEF TypeOK
          <6> QED
            BY <3>1, <3>3, <3>4, <3>9, <3>10, <3>11, <6>1, Zenon
        <5>4. \A p \in Paths :
                  /\ preimages'[s][p] \in {None, Old} \/ p \in sel[s]
                  /\ Change[s][p] = "none" => preimages'[s][p] = None /\ p \notin sel[s]
          <6>1. \A p \in Paths : /\ preimages[s][p] \in {None, Old}
                                 /\ Change[s][p] = "none" => preimages[s][p] = None
            BY <2>1, <3>9, Zenon DEF DiskInv, BatchInv
          <6> QED
            BY <3>1, <3>11, <6>1, Zenon
        <5> QED
          BY <5>1, <5>2, <5>3, <5>4, Zenon DEF BatchInv
      <4>3. BackupInv(s)'
        BY <3>1, <3>10, Zenon DEF BackupInv
      <4> QED
        BY <4>1, <4>2, <4>3 DEF DiskInv
    <3>13. OpInv(s)'
      BY <2>1, <3>1, <3>3, <3>4, <3>6, <3>9, Zenon DEF OpInv, has_pending_applies, Locked, Writing,
         Completing
    <3>14. TargetInv'
      <4>1. \A t \in Stages, p \in Paths : Aside(t, p)' => Aside(t, p)
        BY <3>1, <3>4, <3>10, Zenon DEF Aside, Prepared
      <4>2. \A t \in Stages : pc'[t] \in Replacing =>
                t # s /\ pc[t] \in Replacing /\ sel'[t] = sel[t]
        BY <3>1, <3>6, Zenon DEF Replacing
      <4> QED
        BY <3>1, <4>1, <4>2, Zenon DEF IInv, TargetInv, Replacing, whiteout
    <3>15. LandInv'
      <4>1. \A p \in ledger[s].paths : preimages[s][p] = None /\ Change[s][p] # "none"
        <5>1. ledger[s].state \in {"none", "Committed"} /\ ledger[s].paths \subseteq Paths
          BY <2>1, <3>9, Zenon DEF TypeOK, Ledgers, has_pending_applies
        <5> QED
          BY <2>1, <5>1, Zenon DEF DiskInv, BatchInv
      <4>2. \A t \in Stages, p \in Paths : Crossed(t, p) => Crossed(t, p)'
        BY <3>1, <3>4, <4>1, Zenon DEF Crossed
      <4>3. \A p \in Paths : ~Written(s, p)'
        BY <3>6 DEF Written
      <4>4. \A t \in Stages \ {s}, p \in Paths : Written(t, p)' =>
                Written(t, p) /\ desired_fingerprint(t, p)' = desired_fingerprint(t, p)
        BY <3>1, <3>6 DEF Written, desired_fingerprint, UpperContent, whiteout, Opaque
      <4>5. LandInv /\ edits' = edits
        BY <3>1, Zenon DEF IInv
      <4>6. \A t \in Stages \ {s}, p \in Paths :
                LandedAt(t, p) /\ ledger'[t] = ledger[t] => LandedAt(t, p)'
        BY <3>1, Zenon DEF LandedAt, whiteout
      <4>7. ledger'[s].state \notin {"TargetApplied", "Committed"}
        BY <3>3, <3>4
      <4> SUFFICES ASSUME edits = 0, NEW t \in Stages, NEW p \in Paths, p \in ledger'[t].paths
                   PROVE  /\ Written(t, p)' => target'[p] = desired_fingerprint(t, p)'
                          /\ /\ ledger'[t].state \in {"TargetApplied", "Committed"}
                             /\ ~Crossed(t, p)'
                             => LandedAt(t, p)'
        BY <4>5, Zenon DEF LandInv
      <4>8. CASE t = s
        BY <4>3, <4>7, <4>8, Zenon
      <4>9. CASE t # s
        <5>1. ledger'[t] = ledger[t] /\ target' = target
          BY <3>1, <3>4, <4>9, Zenon
        <5>2. /\ Written(t, p) => target[p] = desired_fingerprint(t, p)
              /\ ledger[t].state \in {"TargetApplied", "Committed"} /\ ~Crossed(t, p) => LandedAt(t, p)
          BY <4>5, <5>1, Zenon DEF LandInv
        <5> QED
          BY <4>2, <4>4, <4>6, <4>9, <5>1, <5>2, Zenon
      <4> QED
        BY <4>8, <4>9, Zenon
    <3> QED
      BY <3>7, <3>8, <3>12, <3>13, <3>14, <3>15, <1>OtherStages DEF IInv
  <2> QED
    BY <2>2, <2>3, Zenon

\* Where the loops of apply_prepared_target lead: what the next step takes for
\* written, the loop that is over has written.
<1>OnwardWrites.
  ASSUME TypeOK, NEW s \in Stages, NEW step \in {"backup", "install", "publish", "rebase"},
         Onward(s, step), sel' = sel
  PROVE  /\ pc' \in [Stages -> AllSteps] /\ todo' \in [Stages -> SUBSET Paths]
         /\ \A t \in Stages \ {s} : pc'[t] = pc[t] /\ todo'[t] = todo[t]
         /\ pc'[s] \in {"install", "publish", "rebase", "mark"} /\ todo'[s] \subseteq sel[s]
         /\ pc'[s] = "install" => \A p \in todo'[s] : Opaque(s, p)
         /\ \A p \in sel[s] : Written(s, p)' =>
                step # "backup" /\ (step = "install" => Opaque(s, p))
  <2> USE <1>OnwardWrites
  <2> DEFINE opaque == {p \in sel[s] : Opaque(s, p)}
             others == sel[s] \ opaque
  <2>1. /\ opaque \in SUBSET Paths /\ others \in SUBSET Paths /\ {} \in SUBSET Paths
        /\ opaque \subseteq sel[s] /\ others \subseteq sel[s]
    BY DEF TypeOK
  <2>2. \A x \in {"install", "publish", "rebase", "mark"} : x \in AllSteps
    BY Zenon DEF AllSteps, Locked, Writing
  <2>3. ASSUME NEW x \in {"install", "publish", "rebase", "mark"},
               NEW paths \in {opaque, others, {}}, Goto(s, x, paths)
        PROVE  /\ pc' \in [Stages -> AllSteps] /\ todo' \in [Stages -> SUBSET Paths]
               /\ \A t \in Stages \ {s} : pc'[t] = pc[t] /\ todo'[t] = todo[t]
               /\ pc'[s] = x /\ todo'[s] = paths /\ todo'[s] \subseteq sel[s]
    <3>1. x \in AllSteps /\ paths \in SUBSET Paths
      BY <2>1, <2>2
    <3> QED
      BY <2>1, <2>3, <3>1, Goes
  <2>4. CASE step = "backup"
    <3>1. CASE opaque # {}
      <4>1. Goto(s, "install", opaque)
        BY <2>4, <3>1, ZenonT(60) DEF Onward
      <4> QED
        BY <2>3, <2>4, <4>1 DEF Written, Opaque
    <3>2. CASE opaque = {}
      <4>1. Goto(s, "publish", others)
        BY <2>4, <3>2, Zenon DEF Onward
      <4> QED
        BY <2>3, <2>4, <3>2, <4>1 DEF Written, Opaque
    <3> QED
      BY <3>1, <3>2, ZenonT(60)
  <2>5. CASE step = "install"
    <3>1. CASE others # {}
      <4>1. Goto(s, "publish", others)
        BY <2>5, <3>1, ZenonT(60) DEF Onward
      <4> QED
        BY <2>3, <2>5, <4>1, Zenon DEF Written, Opaque
    <3>2. CASE others = {}
      <4>1. Goto(s, "rebase", opaque)
        BY <2>5, <3>2, ZenonT(60) DEF Onward
      <4> QED
        BY <2>3, <2>5, <3>2, <4>1 DEF Written, Opaque
    <3> QED
      BY <3>1, <3>2, Zenon
  <2>6. CASE step = "publish"
    <3>1. CASE opaque # {}
      <4>1. Goto(s, "rebase", opaque)
        BY <2>6, <3>1, ZenonT(60) DEF Onward
      <4> QED
        BY <2>3, <2>6, <4>1
    <3>2. CASE opaque = {}
      <4>1. Goto(s, "mark", {})
        BY <2>6, <3>2, ZenonT(60) DEF Onward
      <4> QED
        BY <2>3, <2>6, <4>1, Zenon
    <3> QED
      BY <3>1, <3>2, Zenon
  <2>7. CASE step = "rebase"
    <3>1. Goto(s, "mark", {})
      BY <2>7, Zenon DEF Onward
    <3> QED
      BY <2>3, <2>7, <3>1
  <2> QED
    BY <2>4, <2>5, <2>6, <2>7, Zenon

\* One path of a loop: no path but this one becomes written.
<1>DoneWrites.
  ASSUME TypeOK, NEW s \in Stages, NEW q \in todo[s], Done(s, q), sel' = sel,
         pc[s] \in {"backup", "install", "publish", "rebase"}, todo[s] \subseteq sel[s],
         pc[s] = "install" => \A p \in todo[s] : Opaque(s, p)
  PROVE  /\ pc' \in [Stages -> AllSteps] /\ todo' \in [Stages -> SUBSET Paths]
         /\ \A t \in Stages \ {s} : pc'[t] = pc[t] /\ todo'[t] = todo[t]
         /\ pc'[s] \in Replacing /\ todo'[s] \subseteq sel[s]
         /\ pc'[s] = "install" => \A p \in todo'[s] : Opaque(s, p)
         /\ \A p \in sel[s] : Written(s, p)' => pc[s] # "backup" /\ (p = q \/ Written(s, p))
  <2> USE <1>DoneWrites
  <2>1. CASE todo[s] = {q}
    <3>1. Onward(s, pc[s])
      BY <2>1, Zenon DEF Done
    <3>2. /\ pc' \in [Stages -> AllSteps] /\ todo' \in [Stages -> SUBSET Paths]
          /\ \A t \in Stages \ {s} : pc'[t] = pc[t] /\ todo'[t] = todo[t]
          /\ pc'[s] \in {"install", "publish", "rebase", "mark"} /\ todo'[s] \subseteq sel[s]
          /\ pc'[s] = "install" => \A p \in todo'[s] : Opaque(s, p)
          /\ \A p \in sel[s] : Written(s, p)' =>
                 pc[s] # "backup" /\ (pc[s] = "install" => Opaque(s, p))
      BY <3>1, <1>OnwardWrites, Zenon
    <3>3. \A p \in sel[s] :
              /\ p # q
              /\ (pc[s] = "install" /\ Opaque(s, p)) \/ pc[s] \in {"publish", "rebase"}
              => Written(s, p)
      BY <2>1, Zenon DEF Written
    <3> QED
      BY <3>2, <3>3, ZenonT(60) DEF Replacing
  <2>2. CASE todo[s] # {q}
    <3>1. Goto(s, pc[s], todo[s] \ {q})
      BY <2>2, Zenon DEF Done
    <3>2. pc[s] \in AllSteps /\ todo[s] \ {q} \in SUBSET Paths
      BY Zenon DEF TypeOK, AllSteps
    <3>3. /\ pc' \in [Stages -> AllSteps] /\ todo' \in [Stages -> SUBSET Paths]
          /\ \A t \in Stages \ {s} : pc'[t] = pc[t] /\ todo'[t] = todo[t]
          /\ pc'[s] = pc[s] /\ todo'[s] = todo[s] \ {q}
      BY <3>1, <3>2, Goes
    <3>4. \A p \in sel[s] : Written(s, p)' => pc[s] # "backup" /\ (p = q \/ Written(s, p))
      BY <3>3 DEF Written, Opaque
    <3> QED
      BY <3>3, <3>4, Zenon DEF Replacing
  <2> QED
    BY <2>1, <2>2, Zenon

\* Only the holder of the target lock is replacing anything.
<1>OneReplaces.
  ASSUME IInv, NEW s \in Stages, pc[s] \in Locked, NEW t \in Stages, pc[t] \in Locked
  PROVE  s = t
  BY <1>OneReplaces, ZenonT(60) DEF IInv, OpInv

\* A step of a prepared batch writes at most one of its own paths, which other
\* stages count as crossed, and the step that counts a path as written has
\* written it.
<1>WritesLand.
  ASSUME IInv, NEW s \in Stages, NEW q \in ledger[s].paths, OnlyStage(s),
         ledger[s].state = "Prepared", sel[s] = ledger[s].paths, pc[s] \in Writing,
         ledger' = ledger, upper' = upper, edits' = edits,
         \A p \in Paths : p # q => target'[p] = target[p] /\ preimages'[s][p] = preimages[s][p],
         \A p \in sel[s] : Written(s, p)' =>
             \/ p # q /\ Written(s, p)
             \/ p = q /\ target'[q] = desired_fingerprint(s, q)
  PROVE  LandInv'
  <2> USE <1>WritesLand
  <2>1. \A t \in Stages, p \in Paths : Crossed(t, p) => Crossed(t, p)'
    <3>1. ASSUME NEW r \in Stages, NEW p \in Paths,
                 p \in ledger[r].paths \/ (Change[r][p] # "none" /\ preimages[r][p] = None)
          PROVE  p \in ledger'[r].paths \/ (Change[r][p] # "none" /\ preimages'[r][p] = None)
      <4>1. CASE r = s
        BY <3>1, <4>1, Zenon
      <4>2. CASE r # s
        BY <3>1, <4>2, Zenon DEF OnlyStage, SameStage
      <4> QED
        BY <4>1, <4>2, Zenon
    <3> QED
      BY <3>1, Zenon DEF Crossed
  <2>2. \A t \in Stages \ {s} : Crossed(t, q) /\ Crossed(t, q)'
    BY Zenon DEF Crossed
  <2>3. \A t \in Stages, p \in Paths : desired_fingerprint(t, p)' = desired_fingerprint(t, p)
    BY DEF desired_fingerprint, UpperContent, whiteout
  <2>4. \A t \in Stages \ {s}, p \in Paths : ~Written(t, p)'
    <3>1. \A t \in Stages \ {s} : pc'[t] = pc[t] /\ pc[t] \notin Writing
      BY <1>OneReplaces, Zenon DEF OnlyStage, SameStage, Locked
    <3> QED
      BY <3>1, Zenon DEF Written, Writing
  <2>5. ledger[s].paths \subseteq Paths
    BY Zenon DEF IInv, TypeOK, Ledgers
  <2> SUFFICES ASSUME edits = 0, NEW t \in Stages, NEW p \in Paths,
                      p \in ledger[t].paths
               PROVE  /\ Written(t, p)' => target'[p] = desired_fingerprint(t, p)
                      /\ ledger[t].state \in {"TargetApplied", "Committed"} /\ ~Crossed(t, p)' =>
                             LandedAt(t, p)'
    BY <2>3, Zenon DEF LandInv
  <2>6. /\ Written(t, p) => target[p] = desired_fingerprint(t, p)
        /\ ledger[t].state \in {"TargetApplied", "Committed"} /\ ~Crossed(t, p) => LandedAt(t, p)
    BY Zenon DEF IInv, LandInv
  <2>7. CASE t = s
    BY <2>6, <2>7, Zenon
  <2>8. CASE t # s
    <3>1. ~Crossed(t, p)' => target'[p] = target[p] /\ ~Crossed(t, p)
      BY <2>1, <2>2, <2>8
    <3> QED
      BY <2>4, <2>6, <2>8, <3>1, ZenonT(60) DEF LandedAt, whiteout
  <2> QED
    BY <2>7, <2>8

\* The operation on s goes on to a step of its batch: what it knows stands.
<1>StillWriting.
  ASSUME IInv, NEW s \in Stages, pc[s] \in Writing, pc'[s] \in Writing,
         todo'[s] \subseteq sel[s],
         pc'[s] = "install" => \A p \in todo'[s] : Opaque(s, p),
         UNCHANGED <<ledger, run, meta, lock, op, sel, mem>>
  PROVE  OpInv(s)' /\ LockMove(s)
  <2> USE <1>StillWriting
  <2>1. /\ ledger[s].state = "Prepared" /\ sel[s] = ledger[s].paths /\ lock = s
        /\ mem[s].gen = ledger[s].gen /\ op[s] # "none" /\ op[s] # "drop"
        /\ op[s] = "apply" => run[s].state = "Staged" /\ mem[s].gen = run[s].gen
    BY Zenon DEF IInv, OpInv, Writing, Locked
  <2>2. /\ pc'[s] \notin {"idle", "lock", "enter", "sweep", "sweeping", "clean", "cleaning",
                         "clear", "discard", "save", "consume", "commit"}
        /\ pc'[s] \notin Completing
    BY DEF Writing, Completing
  <2> QED
    BY <2>1, <2>2, Zenon DEF OpInv, LockMove, Opaque

\* The paths of the batch are checked before anything is moved.
<1>CheckInv.
  ASSUME IInv, NEW s \in Stages, Check(s)
  PROVE  IInv'
  <2> USE <1>CheckInv
  <2>1. pc[s] = "check" /\ pc[s] \in Writing
    BY Zenon DEF Check, Writing
  <2>2. CASE \E p \in sel[s] : ~validate_target_path(s, p)
    BY <2>2, <1>RefuseInv, Zenon DEF Check
  <2>3. CASE ~\E p \in sel[s] : ~validate_target_path(s, p)
    <3>1. UNCHANGED <<disk, lock, op, sel, mem, edits, faults>>
      BY <2>3, Zenon DEF Check
    <3>2. /\ pc' \in [Stages -> AllSteps] /\ todo' \in [Stages -> SUBSET Paths]
          /\ \A t \in Stages \ {s} : pc'[t] = pc[t] /\ todo'[t] = todo[t]
          /\ pc'[s] \in Replacing /\ todo'[s] \subseteq sel[s]
          /\ pc'[s] = "install" => \A p \in todo'[s] : Opaque(s, p)
          /\ \A p \in sel[s] : ~Written(s, p)'
      <4>1. CASE Replaced(s, sel[s]) # {}
        <5>1. Goto(s, "backup", Replaced(s, sel[s]))
          BY <2>3, <4>1 DEF Check
        <5>2. /\ "backup" \in AllSteps /\ Replaced(s, sel[s]) \in SUBSET Paths
              /\ Replaced(s, sel[s]) \subseteq sel[s]
          BY <2>1, WritingFacts, Zenon DEF AllSteps, Locked, Writing, Replaced
        <5>3. /\ pc' \in [Stages -> AllSteps] /\ todo' \in [Stages -> SUBSET Paths]
              /\ \A t \in Stages \ {s} : pc'[t] = pc[t] /\ todo'[t] = todo[t]
              /\ pc'[s] = "backup" /\ todo'[s] = Replaced(s, sel[s])
          <6>1. TypeOK
            BY <2>1, WritingFacts, Zenon
          <6> QED
            BY <5>1, <5>2, <6>1, Goes, Zenon
        <5> QED
          BY <5>2, <5>3, Zenon DEF Written, Replacing
      <4>2. CASE Replaced(s, sel[s]) = {}
        <5>1. Onward(s, "backup")
          BY <2>3, <4>2, Zenon DEF Check
        <5> QED
          BY <2>1, <3>1, <5>1, WritingFacts, <1>OnwardWrites, Zenon DEF Replacing
      <4> QED
        BY <4>1, <4>2, Zenon
    <3>3. TypeOK'
      BY <2>1, <3>1, <3>2, WritingFacts, Zenon DEF TypeOK, AllSteps, disk
    <3>4. OnlyStage(s)
      BY <3>1, <3>2, Zenon DEF OnlyStage, SameStage, disk
    <3>5. OpInv(s)' /\ LockMove(s)
      BY <2>1, <3>1, <3>2, <1>StillWriting, Zenon DEF disk, Writing, Replacing
    <3>6. DiskInv(s)'
      BY <2>1, <3>1, WritingFacts, <1>DiskKept, Zenon DEF disk
    <3>7. \A t \in Stages, p \in Paths : Aside(t, p)' = Aside(t, p)
      BY <3>1, Zenon DEF disk, Aside, Prepared
    <3>8. \A t \in Stages : pc'[t] \in Replacing => t = s
      BY <2>1, <3>2, <1>OneReplaces DEF Replacing, Locked, Writing
    <3>9. ASSUME NEW t \in Stages, NEW p \in sel[s], ~whiteout(s, p), Aside(t, p)
          PROVE  t = s
      <4>1. target[p] \in {Old, s, Torn[s]} /\ p \in Paths
        <5>1. /\ p \in Paths /\ ledger[s].preimages[p] = Old
              /\ desired_fingerprint(s, p) \in {s, Torn[s]}
          BY <2>1, <3>9, WritingFacts, Desired, ZenonT(60)
        <5>2. validate_target_path(s, p)
          BY <2>3, <3>9, Zenon
        <5> QED
          BY <5>1, <5>2, Zenon DEF validate_target_path
      <4>2. target[p] \in {Absent, Foreign, t, Torn[t]}
        BY <3>9, <4>1, Zenon DEF IInv, TargetInv
      <4> QED
        BY <4>1, <4>2, OwnContents, Zenon
    <3>10. TargetInv'
      <4>1. TargetInv /\ target' = target /\ sel' = sel
        BY <3>1, Zenon DEF IInv, disk
      <4>2. /\ \A a \in Stages, p \in Paths :
                   Aside(a, p)' => target'[p] \in {Absent, Foreign, a, Torn[a]}
            /\ \A a, t \in Stages, p \in Paths : Aside(a, p)' /\ Aside(t, p)' => a = t
        BY <3>7, <4>1, Zenon DEF TargetInv
      <4>3. ASSUME NEW a \in Stages, NEW t \in Stages, NEW p \in Paths, pc'[a] \in Replacing,
                   p \in sel'[a], ~whiteout(a, p), Aside(t, p)'
            PROVE  a = t
        BY <3>7, <3>8, <3>9, <4>1, <4>3, Zenon
      <4> QED
        BY <4>2, <4>3, Zenon DEF TargetInv, Replacing, whiteout
    <3>11. LandInv'
      <4>1. \A t \in Stages, p \in Paths :
                Crossed(t, p)' = Crossed(t, p) /\ LandedAt(t, p)' = LandedAt(t, p)
        BY <3>1, Zenon DEF disk, Crossed, LandedAt, whiteout
      <4>2. \A t \in Stages : \A p \in ledger[t].paths : Written(t, p)' =>
                Written(t, p) /\ desired_fingerprint(t, p)' = desired_fingerprint(t, p)
        BY <2>1, <3>1, <3>2, WritingFacts DEF disk, Written, desired_fingerprint, UpperContent,
           whiteout, Opaque
      <4> QED
        BY <3>1, <4>1, <4>2, Zenon DEF IInv, LandInv, disk
    <3> QED
      BY <3>3, <3>4, <3>5, <3>6, <3>10, <3>11, <1>OtherStages DEF IInv
  <2> QED
    BY <2>2, <2>3, Zenon

\* An entry of the target, or a slot of the backup, is written.
<1>EntryWritten.
  ASSUME TypeOK, NEW q \in Paths, NEW v \in Contents, target' = [target EXCEPT ![q] = v]
  PROVE  /\ target' \in [Paths -> Contents] /\ target'[q] = v
         /\ \A p \in Paths \ {q} : target'[p] = target[p]
  BY <1>EntryWritten, Zenon DEF TypeOK

\* What a write of one slot leaves of the others.
<1>SlotWritten.
  ASSUME TypeOK, NEW s \in Stages, NEW q \in Paths, NEW v \in Contents \cup {None},
         slot' = [slot EXCEPT ![s][q] = v]
  PROVE  /\ slot' \in [Stages -> [Paths -> Contents \cup {None}]] /\ slot'[s][q] = v
         /\ \A p \in Paths \ {q} : slot'[s][p] = slot[s][p]
         /\ \A t \in Stages \ {s} : slot'[t] = slot[t]
  BY <1>SlotWritten, Zenon DEF TypeOK

\* An original that an interrupted apply moved aside is put back.
<1>RestoreInv.
  ASSUME IInv, NEW s \in Stages, NEW q \in Paths, Restore(s, q)
  PROVE  IInv'
  <2> USE <1>RestoreInv
  <2>1. pc[s] = "restore" /\ pc[s] \in Writing /\ q \in todo[s]
    BY Zenon DEF Restore, Writing
  <2>2. CASE \/ backup[s] = "unowned"
             \/ slot[s][q] # None /\ slot[s][q] # ledger[s].preimages[q]
    BY <2>2, <1>RefuseInv, Zenon DEF Restore
  <2>3. CASE ~(\/ backup[s] = "unowned"
               \/ slot[s][q] # None /\ slot[s][q] # ledger[s].preimages[q])
    <3>0. /\ TypeOK /\ q \in sel[s] /\ q \in ledger[s].paths /\ sel[s] = ledger[s].paths
          /\ ledger[s].state = "Prepared" /\ ledger[s].preimages[q] = Old /\ DiskInv(s)
          /\ sel[s] \subseteq Paths /\ todo[s] \subseteq sel[s]
      BY <2>1, WritingFacts, Zenon
    <3>1. /\ UNCHANGED <<upper, unsynced, preimages, ledger, backup, meta, run, lock, op,
                         sel, mem, edits, faults>>
          /\ Done(s, q)
      BY <2>3 DEF Restore
    <3>2. /\ pc' \in [Stages -> AllSteps] /\ todo' \in [Stages -> SUBSET Paths]
          /\ \A t \in Stages \ {s} : pc'[t] = pc[t] /\ todo'[t] = todo[t]
          /\ pc'[s] \in {"restore", "check"} /\ todo'[s] \subseteq sel[s]
      <4>1. CASE todo[s] = {q}
        <5>1. Goto(s, "check", {})
          BY <2>1, <3>1, <4>1, Zenon DEF Done, Onward
        <5>2. "check" \in AllSteps /\ {} \in SUBSET Paths
          BY Zenon DEF AllSteps, Locked, Writing
        <5>3. /\ pc' \in [Stages -> AllSteps] /\ todo' \in [Stages -> SUBSET Paths]
              /\ \A t \in Stages \ {s} : pc'[t] = pc[t] /\ todo'[t] = todo[t]
              /\ pc'[s] = "check" /\ todo'[s] = {}
          <6>1. TypeOK
            BY <3>0, Zenon
          <6> QED
            BY <5>1, <5>2, <6>1, Goes
        <5> QED
          BY <5>3, Zenon
      <4>2. CASE todo[s] # {q}
        <5>1. Goto(s, "restore", todo[s] \ {q})
          BY <2>1, <3>1, <4>2, Zenon DEF Done
        <5>2. "restore" \in AllSteps /\ todo[s] \ {q} \in SUBSET Paths
          BY <3>0, Zenon DEF AllSteps, Locked, Writing
        <5>3. /\ pc' \in [Stages -> AllSteps] /\ todo' \in [Stages -> SUBSET Paths]
              /\ \A t \in Stages \ {s} : pc'[t] = pc[t] /\ todo'[t] = todo[t]
              /\ pc'[s] = "restore" /\ todo'[s] = todo[s] \ {q}
          <6>1. TypeOK
            BY <3>0, Zenon
          <6> QED
            BY <5>1, <5>2, <6>1, Goes, Zenon
        <5> QED
          BY <3>0, <5>3, Zenon
      <4> QED
        BY <4>1, <4>2, Zenon
    <3>3. /\ target' \in [Paths -> Contents]
          /\ slot' \in [Stages -> [Paths -> Contents \cup {None}]]
          /\ \A p \in Paths \ {q} : target'[p] = target[p] /\ slot'[s][p] = slot[s][p]
          /\ \A t \in Stages \ {s} : slot'[t] = slot[t]
          /\ \/ Aside(s, q) /\ target'[q] = Old /\ slot'[s][q] = None
             \/ target' = target /\ slot' = slot
      <4>1. CASE slot[s][q] # None /\ target[q] = Absent
        <5>1. /\ slot[s][q] = Old /\ Old \in Contents /\ None \in Contents \cup {None}
              /\ Aside(s, q)
          BY <2>1, <2>3, <3>0, <4>1, WritingFacts, OwnContents, Zenon
        <5>2. /\ target' = [target EXCEPT ![q] = Old]
              /\ slot' = [slot EXCEPT ![s][q] = None]
          BY <2>3, <4>1, <5>1 DEF Restore
        <5>3. /\ target' \in [Paths -> Contents] /\ target'[q] = Old
              /\ \A p \in Paths \ {q} : target'[p] = target[p]
          BY <3>0, <5>1, <5>2, <1>EntryWritten, Zenon
        <5>4. /\ slot' \in [Stages -> [Paths -> Contents \cup {None}]] /\ slot'[s][q] = None
              /\ \A p \in Paths \ {q} : slot'[s][p] = slot[s][p]
              /\ \A t \in Stages \ {s} : slot'[t] = slot[t]
          BY <3>0, <5>1, <5>2, <1>SlotWritten, Zenon
        <5> QED
          BY <5>1, <5>3, <5>4
      <4>2. CASE ~(slot[s][q] # None /\ target[q] = Absent)
        <5>1. UNCHANGED <<target, slot>>
          BY <2>3, <4>2 DEF Restore
        <5> QED
          BY <3>0, <5>1, Zenon DEF TypeOK
      <4> QED
        BY <4>1, <4>2, Zenon
    <3>4. TypeOK'
      BY <3>0, <3>1, <3>2, <3>3, Zenon DEF TypeOK, AllSteps
    <3>5. OnlyStage(s)
      BY <3>1, <3>2, <3>3, Zenon DEF OnlyStage, SameStage
    <3>6. OpInv(s)' /\ LockMove(s)
      BY <2>1, <3>1, <3>2, <1>StillWriting, Zenon DEF Writing
    <3>7. DiskInv(s)'
      <4>1. \A p \in Paths : slot'[s][p] \in {None, slot[s][p]}
        BY <3>3
      <4>2. \A p : /\ has_pending_applies(s)' = has_pending_applies(s)
                   /\ desired_fingerprint(s, p)' = desired_fingerprint(s, p)
        BY <3>1 DEF has_pending_applies, desired_fingerprint, UpperContent, whiteout
      <4> QED
        BY <3>0, <3>1, <4>1, <4>2, ZenonT(60) DEF DiskInv, RecordInv, BatchInv, BackupInv
    <3>8. TargetInv'
      <4>1. \A t \in Stages : pc'[t] \notin Replacing
        BY <2>1, <3>2, <1>OneReplaces, Zenon DEF Replacing, Locked, Writing
      <4>2. \A t \in Stages, p \in Paths : Aside(t, p)' =>
                Aside(t, p) /\ target'[p] = target[p]
        <5>1. \A t \in Stages, p \in Paths : Aside(t, p)' => Aside(t, p)
          BY <3>1, <3>3 DEF Aside, Prepared
        <5>2. \A t \in Stages : Aside(t, q)' => target'[q] = target[q]
          BY <3>3, <5>1, Zenon DEF IInv, TargetInv, Aside
        <5> QED
          BY <3>3, <5>1, <5>2, Zenon
      <4> QED
        BY <4>1, <4>2, Zenon DEF IInv, TargetInv, Replacing
    <3>9. LandInv'
      <4>1. \A p \in sel[s] : ~Written(s, p)'
        BY <3>2, Zenon DEF Written
      <4> QED
        BY <2>1, <3>0, <3>1, <3>3, <3>5, <4>1, <1>WritesLand, Zenon
    <3> QED
      BY <3>4, <3>5, <3>6, <3>7, <3>8, <3>9, <1>OtherStages DEF IInv
  <2> QED
    BY <2>2, <2>3, Zenon

\* An original is moved aside: it is the content the batch was made for or what
\* the stage itself has published.
<1>BackUpInv.
  ASSUME IInv, NEW s \in Stages, NEW q \in Paths, BackUp(s, q)
  PROVE  IInv'
  <2> USE <1>BackUpInv
  <2>1. pc[s] = "backup" /\ pc[s] \in Writing /\ q \in todo[s]
    BY Zenon DEF BackUp, Writing
  <2>2. CASE \/ backup[s] = "unowned"
             \/ slot[s][q] = None /\ target[q] # Absent /\ ~validate_target_path(s, q)
    BY <2>2, <1>RefuseInv DEF BackUp
  <2>3. CASE ~(\/ backup[s] = "unowned"
               \/ slot[s][q] = None /\ target[q] # Absent /\ ~validate_target_path(s, q))
    <3>0. /\ TypeOK /\ q \in sel[s] /\ q \in ledger[s].paths /\ sel[s] = ledger[s].paths
          /\ ledger[s].state = "Prepared" /\ ledger[s].preimages[q] = Old /\ DiskInv(s)
          /\ sel[s] \subseteq Paths /\ todo[s] \subseteq sel[s] /\ has_pending_applies(s)
      BY <2>1, WritingFacts, Zenon
    <3>1. /\ UNCHANGED <<upper, unsynced, preimages, ledger, meta, run, lock, op,
                         sel, mem, edits, faults>>
          /\ Done(s, q) /\ backup' = [backup EXCEPT ![s] = "owned"]
      BY <2>3 DEF BackUp
    <3>2. /\ pc' \in [Stages -> AllSteps] /\ todo' \in [Stages -> SUBSET Paths]
          /\ \A t \in Stages \ {s} : pc'[t] = pc[t] /\ todo'[t] = todo[t]
          /\ pc'[s] \in Replacing /\ todo'[s] \subseteq sel[s]
          /\ pc'[s] = "install" => \A p \in todo'[s] : Opaque(s, p)
          /\ \A p \in sel[s] : ~Written(s, p)'
      BY <2>1, <3>0, <3>1, <1>DoneWrites, Zenon
    <3>3. /\ backup' \in [Stages -> {"none", "owned", "unowned"}] /\ backup'[s] = "owned"
          /\ \A t \in Stages \ {s} : backup'[t] = backup[t]
      BY <3>0, <3>1, ZenonT(60) DEF TypeOK
    <3>4. /\ target' \in [Paths -> Contents]
          /\ slot' \in [Stages -> [Paths -> Contents \cup {None}]]
          /\ \A p \in Paths \ {q} : target'[p] = target[p] /\ slot'[s][p] = slot[s][p]
          /\ \A t \in Stages \ {s} : slot'[t] = slot[t]
          /\ \/ /\ target[q] \in {Old, s, Torn[s]} /\ target'[q] = Absent
                /\ slot'[s][q] = target[q] /\ target[q] \in {Old, desired_fingerprint(s, q)}
             \/ target' = target /\ slot' = slot
      <4>1. CASE slot[s][q] = None /\ target[q] # Absent
        <5>1. /\ target[q] \in {Old, s, Torn[s]} /\ target[q] \in {Old, desired_fingerprint(s, q)}
              /\ target[q] \in Contents \cup {None} /\ Absent \in Contents
          <6>1. target[q] \in {Old, desired_fingerprint(s, q)}
            BY <2>3, <3>0, <4>1, Zenon DEF validate_target_path
          <6>2. /\ desired_fingerprint(s, q) \in {Absent, s, Torn[s]} /\ Absent \in Contents
                /\ target[q] \in Contents
            BY <3>0, Desired, OwnContents, Zenon DEF TypeOK
          <6> QED
            BY <4>1, <6>1, <6>2, Zenon
        <5>2. /\ target' = [target EXCEPT ![q] = Absent]
              /\ slot' = [slot EXCEPT ![s][q] = target[q]]
          BY <2>3, <4>1 DEF BackUp
        <5>3. /\ target' \in [Paths -> Contents] /\ target'[q] = Absent
              /\ \A p \in Paths \ {q} : target'[p] = target[p]
          BY <3>0, <5>1, <5>2, <1>EntryWritten, Zenon
        <5>4. /\ slot' \in [Stages -> [Paths -> Contents \cup {None}]] /\ slot'[s][q] = target[q]
              /\ \A p \in Paths \ {q} : slot'[s][p] = slot[s][p]
              /\ \A t \in Stages \ {s} : slot'[t] = slot[t]
          BY <3>0, <5>1, <5>2, <1>SlotWritten, ZenonT(60)
        <5> QED
          BY <5>1, <5>3, <5>4, Zenon
      <4>2. CASE ~(slot[s][q] = None /\ target[q] # Absent)
        <5>1. UNCHANGED <<slot, target>>
          BY <2>3, <4>2, Zenon DEF BackUp
        <5> QED
          BY <3>0, <5>1, Zenon DEF TypeOK
      <4> QED
        BY <4>1, <4>2
    <3>5. TypeOK'
      BY <3>0, <3>1, <3>2, <3>3, <3>4, Zenon DEF TypeOK, AllSteps
    <3>6. OnlyStage(s)
      BY <3>1, <3>2, <3>3, <3>4, Zenon DEF OnlyStage, SameStage
    <3>7. OpInv(s)' /\ LockMove(s)
      BY <2>1, <3>1, <3>2, <1>StillWriting, Zenon DEF Writing, Replacing
    <3>8. DiskInv(s)'
      <4>1. \A p \in Paths :
                \/ slot'[s][p] = slot[s][p]
                \/ p = q /\ slot'[s][p] \in {Old, desired_fingerprint(s, p)}
        BY <3>4, Zenon
      <4>2. \A p : /\ has_pending_applies(s)' = has_pending_applies(s)
                   /\ desired_fingerprint(s, p)' = desired_fingerprint(s, p)
        BY <3>1 DEF has_pending_applies, desired_fingerprint, UpperContent, whiteout
      <4>3. RecordInv(s)'
        BY <3>0, <3>1, <4>2, Zenon DEF DiskInv, RecordInv
      <4>6. \A p \in ledger[s].paths : slot'[s][p] \in {None, Old, desired_fingerprint(s, p)}
        BY <3>0, <4>1, Zenon DEF DiskInv, BatchInv
      <4>4. BatchInv(s)'
        BY <3>0, <3>1, <4>2, <4>6, Zenon DEF DiskInv, BatchInv
      <4>5. BackupInv(s)'
        BY <3>0, <3>1, <3>3, <4>1, <4>2, Zenon DEF DiskInv, BackupInv
      <4> QED
        BY <4>3, <4>4, <4>5 DEF DiskInv
    <3>9. TargetInv'
      <4>1. \A t \in Stages : pc'[t] \in Replacing => t = s
        BY <2>1, <3>2, <1>OneReplaces, Zenon DEF Replacing, Locked, Writing
      <4>2. \A t \in Stages \ {s}, p \in Paths : Aside(t, p)' = Aside(t, p)
        BY <3>1, <3>4, ZenonT(60) DEF Aside, Prepared
      <4>3. \A p \in Paths \ {q} : Aside(s, p)' = Aside(s, p)
        BY <3>1, <3>4, Zenon DEF Aside, Prepared
      <4>4. CASE target' = target /\ slot' = slot
        <5>1. \A t \in Stages, p \in Paths : Aside(t, p)' = Aside(t, p)
          BY <3>1, <4>4, Zenon DEF Aside, Prepared
        <5>2. TargetInv /\ UNCHANGED <<sel, Change>>
          BY <3>1, Zenon DEF IInv
        <5> QED
          <6>1. \A t \in Stages, p \in Paths : Aside(t, p)' => target'[p] \in {Absent, Foreign, t, Torn[t]}
            BY <4>4, <5>1, <5>2, Zenon DEF TargetInv
          <6>2. \A t, u \in Stages, p \in Paths : Aside(t, p)' /\ Aside(u, p)' => t = u
            BY <5>1, <5>2, Zenon DEF TargetInv
          <6>3. \A p \in Paths : p \in sel'[s] /\ ~whiteout(s, p)' => p \in sel[s] /\ ~whiteout(s, p)
            BY <3>1, Zenon DEF whiteout
          <6>4. pc[s] \in {"backup", "install", "publish", "rebase", "mark"}
            BY <2>1, Zenon
          <6>5. \A t, u \in Stages, p \in Paths :
                    /\ pc'[t] \in {"backup", "install", "publish", "rebase", "mark"}
                    /\ p \in sel'[t] /\ ~whiteout(t, p)' /\ Aside(u, p)'
                    => t = u
            BY <4>1, <5>1, <5>2, <6>3, <6>4, ZenonT(60) DEF TargetInv, Replacing
          <6> QED
            BY <6>1, <6>2, <6>5, Zenon DEF TargetInv
      <4>5. CASE target[q] \in {Old, s, Torn[s]} /\ target'[q] = Absent
        <5>1. \A t \in Stages : Aside(t, q)  => t = s
          <6> SUFFICES ASSUME NEW t \in Stages, Aside(t, q) PROVE t = s
            OBVIOUS
          <6>1. target[q] \in {Absent, Foreign, t, Torn[t]}
            BY Zenon DEF IInv, TargetInv
          <6> QED
            BY <4>5, <6>1, OwnContents, Zenon
        <5>2. \A t \in Stages, p \in Paths : Aside(t, p)' =>
                  target'[p] \in {Absent, Foreign, t, Torn[t]}
          BY <3>4, <4>2, <4>3, <4>5, ZenonT(60) DEF IInv, TargetInv
        <5>3. \A t \in Stages \ {s} : ~Aside(t, q)'
          BY <4>2, <5>1
        <5>4. ASSUME NEW t \in Stages, NEW u \in Stages, NEW p \in Paths, Aside(t, p)', Aside(u, p)'
              PROVE  t = u
          <6>1. CASE p = q
            BY <5>3, <5>4, <6>1, Zenon
          <6>2. CASE p # q
            <7>1. Aside(t, p) /\ Aside(u, p)
              BY <4>2, <4>3, <5>4, <6>2, Zenon
            <7> QED
              BY <7>1, Zenon DEF IInv, TargetInv
          <6> QED
            BY <6>1, <6>2, Zenon
        <5>5. \A t, u \in Stages, p \in Paths :
                  /\ pc'[t] \in {"backup", "install", "publish", "rebase", "mark"}
                  /\ p \in sel'[t] /\ ~whiteout(t, p)' /\ Aside(u, p)'
                  => t = u
          <6>1. TargetInv /\ pc[s] \in {"backup", "install", "publish", "rebase", "mark"}
            BY <2>1, Zenon DEF IInv, Replacing
          <6>2. \A u \in Stages \ {s}, p \in Paths : Aside(u, p)' => Aside(u, p)
            BY <4>2, Zenon
          <6>3. \A t \in Stages, p \in Paths : sel'[t] = sel[t] /\ whiteout(t, p)' = whiteout(t, p)
            BY <3>1, Zenon DEF whiteout
          <6> QED
            BY <4>1, <6>1, <6>2, <6>3, Zenon DEF TargetInv, Replacing
        <5> QED
          BY <5>2, <5>4, <5>5, Zenon DEF TargetInv
      <4> QED
        BY <3>4, <4>4, <4>5, Zenon
    <3>10. LandInv'
      BY <2>1, <3>0, <3>1, <3>2, <3>4, <3>6, <1>WritesLand, ZenonT(60)
    <3> QED
      BY <3>5, <3>6, <3>7, <3>8, <3>9, <3>10, <1>OtherStages DEF IInv
  <2> QED
    BY <2>2, <2>3, Zenon

\* Installing and publishing write what the stage offers.  A path whose original
\* another stage has aside is only ever removed.
<1>WriteInv.
  ASSUME IInv, NEW s \in Stages, NEW q \in todo[s], pc[s] \in {"install", "publish"},
         target' = [target EXCEPT ![q] = desired_fingerprint(s, q)], Done(s, q),
         UNCHANGED <<upper, unsynced, preimages, ledger, slot, backup, meta, run, lock,
                     op, sel, mem, edits, faults>>
  PROVE  IInv'
  <2> USE <1>WriteInv
  <2>1. pc[s] \in Writing
    BY Zenon DEF Writing
  <2>2. /\ TypeOK /\ q \in sel[s] /\ q \in ledger[s].paths /\ sel[s] = ledger[s].paths
        /\ ledger[s].state = "Prepared" /\ DiskInv(s) /\ q \in Paths
        /\ sel[s] \subseteq Paths /\ todo[s] \subseteq sel[s]
        /\ pc[s] = "install" => \A p \in todo[s] : Opaque(s, p)
    BY <2>1, WritingFacts, Zenon
  <2>3. /\ desired_fingerprint(s, q) \in Contents
        /\ desired_fingerprint(s, q) \in {Absent, s, Torn[s]}
    BY <2>2, Desired, Zenon
  <2>4. /\ target' \in [Paths -> Contents] /\ target'[q] = desired_fingerprint(s, q)
        /\ \A p \in Paths \ {q} : target'[p] = target[p]
    BY <2>2, <2>3, <1>EntryWritten, Zenon
  <2>5. /\ pc' \in [Stages -> AllSteps] /\ todo' \in [Stages -> SUBSET Paths]
        /\ \A t \in Stages \ {s} : pc'[t] = pc[t] /\ todo'[t] = todo[t]
        /\ pc'[s] \in Replacing /\ todo'[s] \subseteq sel[s]
        /\ pc'[s] = "install" => \A p \in todo'[s] : Opaque(s, p)
        /\ \A p \in sel[s] : Written(s, p)' => p = q \/ Written(s, p)
    BY <2>2, <1>DoneWrites, Zenon
  <2>6. TypeOK'
    BY <2>2, <2>4, <2>5, Zenon DEF TypeOK, AllSteps
  <2>7. OnlyStage(s)
    BY <2>5, Zenon DEF OnlyStage, SameStage
  <2>8. OpInv(s)' /\ LockMove(s)
    BY <2>1, <2>5, <1>StillWriting, Zenon DEF Writing, Replacing
  <2>9. DiskInv(s)'
    BY <2>2, <1>DiskKept, Zenon
  <2>10. TargetInv'
    <3>1. \A t \in Stages : pc'[t] \in Replacing => t = s
      BY <2>1, <2>5, <1>OneReplaces, Zenon DEF Replacing, Locked, Writing
    <3>2. \A t \in Stages, p \in Paths : Aside(t, p)' = Aside(t, p)
      BY Zenon DEF Aside, Prepared
    <3>3. \A t \in Stages : Aside(t, q) => target'[q] \in {Absent, Foreign, t, Torn[t]}
      <4> SUFFICES ASSUME NEW t \in Stages, Aside(t, q)
                   PROVE  target'[q] \in {Absent, Foreign, t, Torn[t]}
        BY Zenon
      <4>1. CASE whiteout(s, q)
        BY <2>4, <4>1, Zenon DEF desired_fingerprint
      <4>2. CASE ~whiteout(s, q)
        <5>1. t = s
          BY <2>2, <4>2, Zenon DEF IInv, TargetInv
        <5> QED
          BY <2>3, <2>4, <5>1, Zenon
      <4> QED
        BY <4>1, <4>2, Zenon
    <3>4. \A t \in Stages, p \in Paths : Aside(t, p)' =>
              target'[p] \in {Absent, Foreign, t, Torn[t]}
      <4>1. \A t \in Stages, p \in Paths : Aside(t, p) => target[p] \in {Absent, Foreign, t, Torn[t]}
        BY Zenon DEF IInv, TargetInv
      <4> SUFFICES ASSUME NEW t \in Stages, NEW p \in Paths, Aside(t, p)
                   PROVE  target'[p] \in {Absent, Foreign, t, Torn[t]}
        BY <3>2, Zenon
      <4>2. CASE p = q
        BY <3>3, <4>2, Zenon
      <4>3. CASE p # q
        BY <2>4, <4>1, <4>3, Zenon
      <4> QED
        BY <4>2, <4>3, Zenon
    <3>5. TargetInv /\ pc[s] \in {"backup", "install", "publish", "rebase", "mark"}
      BY <2>1, Zenon DEF IInv
    <3>6. \A p \in Paths : p \in sel'[s] /\ ~whiteout(s, p)' => p \in sel[s] /\ ~whiteout(s, p)
      BY Zenon DEF whiteout
    <3>7. \A t, u \in Stages, p \in Paths :
              /\ pc'[t] \in {"backup", "install", "publish", "rebase", "mark"}
              /\ p \in sel'[t] /\ ~whiteout(t, p)' /\ Aside(u, p)'
              => t = u
      BY <3>1, <3>2, <3>5, <3>6, ZenonT(60) DEF TargetInv, Replacing
    <3> QED
      <4>1. \A t, u \in Stages, p \in Paths : Aside(t, p)' /\ Aside(u, p)' => t = u
        BY <3>2, <3>5, ZenonT(60) DEF TargetInv
      <4> QED
        BY <3>4, <3>7, <4>1, Zenon DEF TargetInv
  <2>11. LandInv'
    BY <2>1, <2>2, <2>4, <2>5, <2>7, <1>WritesLand, Zenon
  <2> QED
    BY <2>6, <2>7, <2>8, <2>9, <2>10, <2>11, <1>OtherStages, Zenon DEF IInv

\* The installation of a path keeps the invariant.
<1>InstallInv.
  ASSUME IInv, NEW s \in Stages, NEW q \in Paths, Install(s, q)
  PROVE  IInv'
  <2> USE <1>InstallInv
  <2>1. pc[s] = "install" /\ pc[s] \in Writing /\ q \in todo[s]
    BY Zenon DEF Install, Writing
  <2>2. CASE \/ backup[s] = "unowned"
             \/ target[q] # Absent /\ target[q] # UpperContent(s, q)
    BY <2>2, <1>RefuseInv, Zenon DEF Install
  <2>3. CASE ~(\/ backup[s] = "unowned"
               \/ target[q] # Absent /\ target[q] # UpperContent(s, q))
    <3>1. desired_fingerprint(s, q) = UpperContent(s, q)
      BY <2>1, WritingFacts, Zenon DEF desired_fingerprint, whiteout, Opaque
    <3>2. /\ target' = [target EXCEPT ![q] = desired_fingerprint(s, q)] /\ Done(s, q)
          /\ UNCHANGED <<upper, unsynced, preimages, ledger, slot, backup, meta, run, lock,
                         op, sel, mem, edits, faults>>
      BY <2>3, <3>1, Zenon DEF Install
    <3> QED
      BY <2>1, <3>2, <1>WriteInv, Zenon
  <2> QED
    BY <2>2, <2>3

\* So does the publication of one.
<1>PublishInv.
  ASSUME IInv, NEW s \in Stages, NEW q \in Paths, Publish(s, q)
  PROVE  IInv'
  <2> USE <1>PublishInv
  <2>1. pc[s] = "publish" /\ q \in todo[s]
    BY Zenon DEF Publish
  <2>2. CASE ~(slot[s][q] # None /\ target[q] = Absent) /\ ~validate_target_path(s, q)
    BY <2>2, <1>RefuseInv, Zenon DEF Publish
  <2>3. CASE ~(~(slot[s][q] # None /\ target[q] = Absent) /\ ~validate_target_path(s, q))
    <3>1. /\ target' = [target EXCEPT ![q] = desired_fingerprint(s, q)] /\ Done(s, q)
          /\ UNCHANGED <<upper, unsynced, preimages, ledger, slot, backup, meta, run, lock,
                         op, sel, mem, edits, faults>>
      BY <2>3, Zenon DEF Publish
    <3> QED
      BY <2>1, <3>1, <1>WriteInv, Zenon
  <2> QED
    BY <2>2, <2>3

\* A replaced directory becomes the new baseline.
<1>RebaseInv.
  ASSUME IInv, NEW s \in Stages, NEW q \in Paths, Rebase(s, q)
  PROVE  IInv'
  <2> USE <1>RebaseInv
  <2>1. /\ pc[s] = "rebase" /\ pc[s] \in Writing /\ q \in todo[s] /\ Sync(s) /\ Done(s, q)
        /\ preimages' = [preimages EXCEPT ![s][q] = UpperContent(s, q)]
        /\ UNCHANGED <<target, upper, ledger, slot, backup, meta, run, lock, op, sel,
                       mem, edits, faults>>
    BY Zenon DEF Rebase, Writing
  <2>2. /\ TypeOK /\ q \in sel[s] /\ q \in ledger[s].paths /\ sel[s] = ledger[s].paths
        /\ ledger[s].state = "Prepared" /\ DiskInv(s) /\ has_pending_applies(s)
        /\ sel[s] \subseteq Paths /\ todo[s] \subseteq sel[s] /\ unsynced[s] = {}
    BY <2>1, WritingFacts
  <2>3. UpperContent(s, q) \in Contents /\ UpperContent(s, q) # None
    BY <2>2, Desired, Zenon
  <2>4. /\ preimages' \in [Stages -> [Paths -> Contents \cup {None}]]
        /\ preimages'[s][q] = UpperContent(s, q)
        /\ \A p \in Paths \ {q} : preimages'[s][p] = preimages[s][p]
        /\ \A t \in Stages \ {s} : preimages'[t] = preimages[t]
    BY <2>1, <2>2, <2>3, Zenon DEF TypeOK
  <2>5. /\ pc' \in [Stages -> AllSteps] /\ todo' \in [Stages -> SUBSET Paths]
        /\ \A t \in Stages \ {s} : pc'[t] = pc[t] /\ todo'[t] = todo[t]
        /\ pc'[s] \in Replacing /\ todo'[s] \subseteq sel[s]
        /\ pc'[s] = "install" => \A p \in todo'[s] : Opaque(s, p)
        /\ \A p \in sel[s] : Written(s, p)' => p = q \/ Written(s, p)
    BY <2>1, <2>2, <1>DoneWrites
  <2>6. TypeOK'
    BY <2>1, <2>2, <2>4, <2>5, Syncs, Zenon DEF TypeOK, AllSteps
  <2>7. OnlyStage(s) /\ unsynced'[s] = {}
    BY <2>1, <2>2, <2>4, <2>5, Syncs, Zenon DEF OnlyStage, SameStage
  <2>8. OpInv(s)' /\ LockMove(s)
    BY <2>1, <2>5, <1>StillWriting DEF Writing, Replacing
  <2>9. DiskInv(s)'
    <3>1. \A p : /\ has_pending_applies(s)' = has_pending_applies(s)
                 /\ desired_fingerprint(s, p)' = desired_fingerprint(s, p)
      BY <2>1, Zenon DEF has_pending_applies, desired_fingerprint, UpperContent, whiteout
    <3>2. RecordInv(s)'
      BY <2>1, <2>2, <2>7, <3>1 DEF DiskInv, RecordInv
    <3>3. BatchInv(s)'
      <4>1. /\ \A p \in ledger[s].paths : preimages'[s][p] # None
            /\ Change[s][q] # "none"
        BY <2>2, <2>3, <2>4, Zenon DEF DiskInv, BatchInv
      <4>2. \A p \in Paths :
                /\ preimages'[s][p] \in {None, Old} \/ p \in ledger[s].paths
                /\ Change[s][p] = "none" => preimages'[s][p] = None /\ p \notin ledger[s].paths
        BY <2>2, <2>4, <4>1, Zenon DEF DiskInv, BatchInv
      <4>3. /\ ledger'[s] = ledger[s] /\ meta'[s] = meta[s] /\ upper'[s] = upper[s]
            /\ slot'[s] = slot[s]
        BY <2>1
      <4> QED
        BY <2>2, <2>7, <3>1, <4>1, <4>2, <4>3, Zenon DEF DiskInv, BatchInv
    <3>4. BackupInv(s)'
      BY <2>1, <2>2, <3>1, Zenon DEF DiskInv, BackupInv
    <3> QED
      BY <3>2, <3>3, <3>4 DEF DiskInv
  <2>10. TargetInv'
    <3>1. \A t \in Stages : pc'[t] \in Replacing => t = s
      BY <2>1, <2>5, <1>OneReplaces, Zenon DEF Replacing, Locked, Writing
    <3>2. \A t \in Stages, p \in Paths : Aside(t, p)' = Aside(t, p)
      BY <2>1, Zenon DEF Aside, Prepared
    <3> QED
      BY <2>1, <3>1, <3>2 DEF IInv, TargetInv, Replacing, whiteout
  <2>11. LandInv'
    <3>1. \A t \in Stages, p \in Paths : Crossed(t, p) => Crossed(t, p)'
      BY <2>1, <2>2, <2>3, <2>4, ZenonT(60) DEF Crossed
    <3>2. \A t \in Stages, p \in Paths : /\ desired_fingerprint(t, p)' = desired_fingerprint(t, p)
                                         /\ LandedAt(t, p)' = LandedAt(t, p)
      BY <2>1 DEF desired_fingerprint, UpperContent, whiteout, LandedAt
    <3>3. \A t \in Stages \ {s}, p \in Paths : Written(t, p)' => Written(t, p)
      BY <2>5, Zenon DEF Written, Opaque
    <3>4. \A p \in Paths : Written(s, p)
      BY <2>1, Zenon DEF Written
    <3> QED
      BY <2>1, <3>1, <3>2, <3>3, <3>4 DEF IInv, LandInv
  <2> QED
    BY <2>6, <2>7, <2>8, <2>9, <2>10, <2>11, <1>OtherStages, Zenon DEF IInv

\* The batch is marked TargetApplied: every path of it is written.
<1>MarkInv.
  ASSUME IInv, NEW s \in Stages, Mark(s)
  PROVE  IInv'
  <2> USE <1>MarkInv
  <2>1. /\ pc[s] = "mark" /\ pc[s] \in Writing /\ Goto(s, "prune", sel[s]) /\ Sync(s)
        /\ ledger' = [ledger EXCEPT ![s].state = "TargetApplied"]
        /\ UNCHANGED <<target, upper, preimages, slot, backup, meta, run, lock, op,
                       sel, mem, edits, faults>>
    BY DEF Mark, Writing
  <2>2. /\ TypeOK /\ OpInv(s) /\ sel[s] = ledger[s].paths /\ ledger[s].state = "Prepared"
        /\ DiskInv(s) /\ sel[s] \subseteq Paths /\ \A p \in sel[s] : upper[s][p] # "gone"
    BY <2>1, WritingFacts
  <2>3. /\ ledger' \in [Stages -> Ledgers]
        /\ ledger'[s].state = "TargetApplied" /\ ledger'[s].gen = ledger[s].gen
        /\ ledger'[s].paths = ledger[s].paths /\ ledger'[s].preimages = ledger[s].preimages
        /\ \A t \in Stages \ {s} : ledger'[t] = ledger[t]
    BY <2>1, <2>2, LedgerState, Zenon
  <2>4. "prune" \in AllSteps /\ sel[s] \in SUBSET Paths
    BY <2>2, Zenon DEF AllSteps, Locked, Completing
  <2>5. /\ pc' \in [Stages -> AllSteps] /\ todo' \in [Stages -> SUBSET Paths]
        /\ pc'[s] = "prune" /\ todo'[s] = sel[s]
        /\ \A t \in Stages \ {s} : pc'[t] = pc[t] /\ todo'[t] = todo[t]
    BY <2>1, <2>2, <2>4, Goes
  <2>6. TypeOK'
    BY <2>1, <2>2, <2>3, <2>5, Syncs, Zenon DEF TypeOK, AllSteps
  <2>7. OnlyStage(s) /\ unsynced'[s] = {} /\ LockMove(s)
    BY <2>1, <2>2, <2>3, <2>5, Syncs, Zenon DEF OnlyStage, SameStage, LockMove
  <2>8. DiskInv(s)'
    BY <2>1, <2>2, <2>3, <2>7, Zenon DEF DiskInv, RecordInv, BatchInv, BackupInv, has_pending_applies
  <2>9. OpInv(s)'
    BY <2>1, <2>2, <2>3, <2>5 DEF OpInv, has_pending_applies, Locked, Writing, Completing
  <2>10. TargetInv'
    <3>1. \A t \in Stages, p \in Paths : Aside(t, p)' => Aside(t, p)
      BY <2>1, <2>3, Zenon DEF Aside, Prepared
    <3>2. \A t \in Stages : pc'[t] \in Replacing => t # s /\ pc[t] \in Replacing
      BY <2>5 DEF Replacing
    <3> QED
      BY <2>1, <3>1, <3>2 DEF IInv, TargetInv, Replacing, whiteout
  <2>11. LandInv'
    <3>1. \A t \in Stages, p \in Paths : Crossed(t, p)' = Crossed(t, p)
      BY <2>1, <2>3 DEF Crossed
    <3>2. \A t \in Stages, p \in Paths : /\ desired_fingerprint(t, p)' = desired_fingerprint(t, p)
                                         /\ LandedAt(t, p)' = LandedAt(t, p)
      BY <2>1, Zenon DEF desired_fingerprint, UpperContent, whiteout, LandedAt
    <3>3. \A t \in Stages \ {s}, p \in Paths : Written(t, p)' => Written(t, p)
      BY <2>5 DEF Written, Opaque
    <3>4. \A p \in Paths : Written(s, p) /\ ~Written(s, p)'
      BY <2>1, <2>5 DEF Written
    <3>5. \A p \in sel[s] : target[p] = desired_fingerprint(s, p) => LandedAt(s, p)
      <4> SUFFICES ASSUME NEW p \in sel[s], target[p] = desired_fingerprint(s, p)
                   PROVE  LandedAt(s, p)
        BY Zenon
      <4>1. p \in Paths /\ upper[s][p] # "gone"
        BY <2>2
      <4> QED
        BY <2>2, <4>1, Desired, Zenon DEF LandedAt, desired_fingerprint
    <3> QED
      BY <2>1, <2>2, <2>3, <3>1, <3>2, <3>3, <3>4, <3>5 DEF IInv, LandInv
  <2> QED
    BY <2>6, <2>7, <2>8, <2>9, <2>10, <2>11, <1>OtherStages DEF IInv

(* The environment, and the invariant.                                      *)

\* An editor writes neither a stage's content nor the original one.
<1>EditInv.
  ASSUME IInv, NEW q \in Paths, NEW c \in {Foreign, Absent}, Edit(q, c)
  PROVE  IInv'
  <2> USE <1>EditInv
  <2>1. /\ TypeOK /\ target' = [target EXCEPT ![q] = c] /\ edits' = edits + 1
        /\ UNCHANGED <<upper, unsynced, preimages, ledger, slot, backup, meta, run, lock, pc, op,
                       sel, todo, mem, faults>>
    BY DEF IInv, Edit
  <2>2. c \in Contents
    BY DEF Contents
  <2>3. /\ target' \in [Paths -> Contents] /\ target'[q] = c
        /\ \A p \in Paths \ {q} : target'[p] = target[p]
    BY <2>1, <2>2, <1>EntryWritten, Zenon
  <2>4. edits' \in Nat /\ edits' # 0
    BY <2>1 DEF TypeOK
  <2>5. TypeOK'
    BY <2>1, <2>3, <2>4, Zenon DEF TypeOK
  <2>6. ASSUME NEW s \in Stages PROVE DiskInv(s)' /\ OpInv(s)'
    <3>1. DiskInv(s) /\ OpInv(s)
      BY Zenon DEF IInv
    <3>2. DiskInv(s)' /\ has_pending_applies(s)' = has_pending_applies(s)
      BY <2>1, <3>1, <1>DiskKept, Zenon
    <3> QED
      BY <2>1, <3>1, <3>2, ZenonT(60) DEF OpInv, Opaque
  <2>7. TargetInv'
    <3>1. \A t \in Stages, p \in Paths : Aside(t, p)' = Aside(t, p)
      BY <2>1, Zenon DEF Aside, Prepared
    <3>2. TargetInv
      BY Zenon DEF IInv
    <3>3. \A t \in Stages, p \in Paths : Aside(t, p)' => target'[p] \in {Absent, Foreign, t, Torn[t]}
      BY <2>3, <3>1, <3>2, Zenon DEF TargetInv
    <3>4. \A t, u \in Stages, p \in Paths : Aside(t, p)' /\ Aside(u, p)' => t = u
      BY <3>1, <3>2, Zenon DEF TargetInv
    <3>5. \A t, u \in Stages, p \in Paths :
              /\ pc'[t] \in {"backup", "install", "publish", "rebase", "mark"}
              /\ p \in sel'[t] /\ ~whiteout(t, p)' /\ Aside(u, p)'
              => t = u
      <4>1. pc' = pc /\ sel' = sel /\ \A t \in Stages, p \in Paths : whiteout(t, p)' = whiteout(t, p)
        BY <2>1, Zenon DEF whiteout
      <4> QED
        BY <3>1, <3>2, <4>1, Zenon DEF TargetInv
    <3> QED
      BY <3>3, <3>4, <3>5, Zenon DEF TargetInv
  <2>8. LandInv'
    BY <2>4, Zenon DEF LandInv
  <2> QED
    BY <2>5, <2>6, <2>7, <2>8, Zenon DEF IInv

\* Power is lost: no operation is left, and what comes back to the upper was
\* not synced.
<1>PowerLossInv.
  ASSUME IInv, NEW back \in SUBSET Removed, PowerLoss(back)
  PROVE  IInv'
  <2> USE <1>PowerLossInv
  <2>1. /\ TypeOK /\ faults' = faults + 1
        /\ upper' = [s \in Stages |-> [p \in Paths |->
                      IF <<s, p>> \in back THEN "full" ELSE upper[s][p]]]
        /\ unsynced' = [s \in Stages |-> {}]
        /\ pc' = [s \in Stages |-> "idle"] /\ op' = [s \in Stages |-> "none"]
        /\ sel' = [s \in Stages |-> {}] /\ todo' = sel'
        /\ mem' = [s \in Stages |-> NoRecord] /\ lock' = None
        /\ UNCHANGED <<target, preimages, ledger, slot, backup, meta, run, edits>>
    BY Zenon DEF IInv, PowerLoss
  <2>2. NoRecord \in Records
    BY Zenon DEF NoRecord, Records
  <2>3. /\ upper' \in [Stages -> [Paths -> {"full", "torn", "gone"}]]
        /\ unsynced' \in [Stages -> SUBSET Paths]
        /\ sel' \in [Stages -> SUBSET Paths] /\ mem' \in [Stages -> Records]
    BY <2>1, <2>2 DEF TypeOK
  <2>4. /\ pc' \in [Stages -> AllSteps] /\ lock' \in Stages \cup {None}
        /\ op' \in [Stages -> {"none", "apply", "recover", "drop"}]
    BY <2>1, Zenon DEF AllSteps
  <2>5. faults' \in Nat /\ todo' \in [Stages -> SUBSET Paths]
    <3>1. faults \in Nat
      BY <2>1, Zenon DEF TypeOK
    <3>2. todo' \in [Stages -> SUBSET Paths]
      BY <2>1, <2>3, Zenon
    <3>3. faults + 1 \in Nat
      BY <3>1
    <3> QED
      BY <2>1, <3>2, <3>3, Zenon
  <2>6. TypeOK'
    BY <2>1, <2>3, <2>4, <2>5, Zenon DEF TypeOK, AllSteps
  <2>7. \A s \in Stages : unsynced[s] = {} =>
            \A p \in Paths : upper'[s][p] = upper[s][p]
    BY <2>1, Zenon DEF Removed
  <2>8. ASSUME NEW s \in Stages PROVE DiskInv(s)' /\ OpInv(s)'
    <3>1. DiskInv(s) /\ has_pending_applies(s)' = has_pending_applies(s) /\ unsynced'[s] = {}
          /\ ledger[s].paths \subseteq Paths
      BY <2>1, Zenon DEF IInv, has_pending_applies, TypeOK, Ledgers
    <3>2. unsynced[s] = {} => \A p \in Paths :
              desired_fingerprint(s, p)' = desired_fingerprint(s, p)
      BY <2>7 DEF desired_fingerprint, UpperContent, whiteout
    <3>3. RecordInv(s)'
      BY <2>1, <2>7, <3>1, Zenon DEF DiskInv, RecordInv
    <3>4. BatchInv(s)'
      BY <2>1, <2>7, <3>1, <3>2, Zenon DEF DiskInv, BatchInv
    <3>5. BackupInv(s)'
      BY <2>1, <3>1, Zenon DEF DiskInv, BackupInv
    <3>6. OpInv(s)'
      <4>1. pc'[s] = "idle" /\ op'[s] = "none"
        BY <2>1
      <4> QED
        BY <4>1, ZenonT(60) DEF OpInv, Locked, Writing, Completing
    <3> QED
      BY <3>3, <3>4, <3>5, <3>6 DEF DiskInv
  <2>9. TargetInv'
    <3>1. \A t \in Stages, p \in Paths : Aside(t, p)' = Aside(t, p)
      BY <2>1, Zenon DEF Aside, Prepared
    <3> QED
      BY <2>1, <3>1, Zenon DEF IInv, TargetInv
  <2>10. LandInv'
    <3>1. \A t \in Stages, p \in Paths :
              /\ Crossed(t, p)' = Crossed(t, p) /\ LandedAt(t, p)' = LandedAt(t, p)
              /\ ~Written(t, p)'
      BY <2>1, ZenonT(60) DEF Crossed, LandedAt, whiteout, Written
    <3> QED
      BY <2>1, <3>1, Zenon DEF IInv, LandInv
  <2> QED
    BY <2>6, <2>8, <2>9, <2>10 DEF IInv

\* A step of an operation.
<1>StepInv.
  ASSUME IInv, NEW s \in Stages, Step(s)
  PROVE  IInv'
  <2> USE <1>StepInv
  <2>1. ASSUME NEW p \in Paths, Restore(s, p) \/ BackUp(s, p) \/ Install(s, p)
               \/ Publish(s, p) \/ Rebase(s, p) \/ Prune(s, p)
               \/ RemoveOriginal(s, p) \/ Clear(s, p)
        PROVE  IInv'
    <3>1. CASE Prune(s, p) \/ Clear(s, p)
      BY <3>1, <1>RemoveUpperInv, Zenon DEF Prune, Clear
    <3>2. CASE Restore(s, p) \/ BackUp(s, p) \/ Install(s, p) \/ Publish(s, p)
      BY <3>2, <1>RestoreInv, <1>BackUpInv, <1>InstallInv, <1>PublishInv
    <3>3. CASE Rebase(s, p) \/ RemoveOriginal(s, p)
      BY <3>3, <1>RebaseInv, <1>RemoveOriginalInv
    <3> QED
      BY <2>1, <3>1, <3>2, <3>3
  <2>2. CASE Lock(s) \/ Sweep(s) \/ Resume(s) \/ Recovered(s) \/ Prepare(s)
    BY <2>2, <1>LockInv, <1>SweepInv, <1>ResumeInv, <1>PrepareInv, <1>RefuseInv, Zenon DEF Recovered
  <2>3. CASE Check(s) \/ Mark(s) \/ Settle(s) \/ Consume(s) \/ Commit(s)
    BY <2>3, <1>CheckInv, <1>MarkInv, <1>SettleInv, <1>ConsumeInv, <1>CommitInv
  <2>4. CASE OpenBackup(s) \/ RemoveReceipt(s) \/ RemoveBackup(s) \/ Save(s)
    BY <2>4, <1>OpenBackupInv, <1>RemoveReceiptInv, <1>RemoveBackupInv, <1>SaveInv
  <2>5. CASE Discard(s) \/ Discarded(s)
    BY <2>5, <1>DiscardInv, <1>DiscardedInv
  <2> QED
    BY <2>1, <2>2, <2>3, <2>4, <2>5, Zenon DEF Step

<1> SUFFICES ASSUME IInv, [Next]_vars PROVE IInv'
  OBVIOUS
<1>1. CASE UNCHANGED vars
  <2>1. UNCHANGED <<target, upper, unsynced, preimages, ledger, slot, backup, meta, run, lock,
                    pc, op, sel, todo, mem, edits, faults>>
    BY <1>1 DEF vars, disk
  <2>2. TypeOK'
    BY <2>1, Zenon DEF IInv, TypeOK
  <2>3. ASSUME NEW s \in Stages PROVE DiskInv(s)' /\ OpInv(s)'
    <3>1. DiskInv(s) /\ OpInv(s)
      BY Zenon DEF IInv
    <3>2. DiskInv(s)' /\ has_pending_applies(s)' = has_pending_applies(s)
      BY <2>1, <3>1, <1>DiskKept, Zenon
    <3>3. OpInv(s)'
      <4>1. \A p : Opaque(s, p)' = Opaque(s, p)
        BY <2>1, Zenon DEF Opaque
      <4> QED
        BY <2>1, <3>1, <3>2, <4>1, ZenonT(60) DEF OpInv
    <3> QED
      BY <3>2, <3>3, Zenon
  <2>4. \A t \in Stages, p \in Paths :
            /\ Aside(t, p)' = Aside(t, p) /\ Crossed(t, p)' = Crossed(t, p)
            /\ LandedAt(t, p)' = LandedAt(t, p) /\ Written(t, p)' = Written(t, p)
            /\ desired_fingerprint(t, p)' = desired_fingerprint(t, p)
    BY <2>1 DEF Aside, Prepared, Crossed, LandedAt, whiteout, Written, Opaque,
       desired_fingerprint, UpperContent
  <2>5. TargetInv' /\ LandInv'
    <3>1. TargetInv /\ LandInv
      BY Zenon DEF IInv
    <3>2. TargetInv'
      BY <2>1, <2>4, <3>1, Zenon DEF TargetInv, whiteout
    <3> QED
      BY <2>1, <2>4, <3>1, <3>2, Zenon DEF LandInv
  <2> QED
    BY <2>2, <2>3, <2>5, Zenon DEF IInv
<1>2. ASSUME NEW s \in Stages, Step(s) \/ Abort(s) PROVE IInv'
  <2>1. CASE Abort(s)
    <3>1. Return(s) /\ UNCHANGED <<disk, edits>> /\ faults' \in Nat
      BY <2>1 DEF Abort, IInv, TypeOK
    <3> QED
      BY <3>1, <1>EndsInv, Zenon
  <2> QED
    BY <1>2, <2>1, <1>StepInv
<1>3. ASSUME NEW s \in Stages, NEW o \in {"apply", "recover", "drop"},
             NEW paths \in SUBSET Paths, Begin(s, o, paths)
      PROVE  IInv'
  BY <1>3, <1>BeginInv
<1>4. ASSUME NEW p \in Paths, NEW c \in {Foreign, Absent}, Edit(p, c) PROVE IInv'
  BY <1>4, <1>EditInv
<1>5. ASSUME NEW back \in SUBSET Removed, PowerLoss(back) PROVE IInv'
  BY <1>5, <1>PowerLossInv
<1> QED
  BY <1>1, <1>2, <1>3, <1>4, <1>5 DEF Next

\* The inductive invariant holds in every state the stages can be in.
THEOREM Invariant == Spec => []IInv
<1>1. Init => IInv
  BY InitInv
<1>2. IInv /\ [Next]_vars => IInv'
  BY NextInv
<1> QED
  BY <1>1, <1>2, PTL DEF Spec

\* Once a batch is marked TargetApplied its changes are in the target and stay
\* there, unless another stage has an apply over the same path or an editor
\* writes (apply_prepared_target, restore_interrupted_replacements).
THEOREM AppliesAreIn == Spec => []AppliesLand
<1>1. IInv => AppliesLand
  <2> SUFFICES ASSUME IInv, edits = 0, NEW s \in Stages,
                      ledger[s].state \in {"TargetApplied", "Committed"},
                      NEW p \in ledger[s].paths
               PROVE  Crossed(s, p) \/ LandedAt(s, p)
    BY Zenon DEF AppliesLand, LandedUnless
  <2>1. p \in Paths
    BY Zenon DEF IInv, TypeOK, Ledgers
  <2> QED
    BY <2>1, Zenon DEF IInv, LandInv
<1> QED
  BY <1>1, Invariant, PTL

\* A pending apply has the generation under which recovery reads its overlay
\* back (reconcile_terminal_overlay, RunRecord::read).
THEOREM PendingIsCurrent == Spec => []PendingMatches
<1>1. IInv => PendingMatches
  <2> SUFFICES ASSUME IInv, NEW s \in Stages, has_pending_applies(s)
               PROVE  ledger[s].gen = reconcile_terminal_overlay(s, ReadRun(s)).gen
    BY Zenon DEF PendingMatches
  <2>1. ledger[s].gen = run[s].gen
    BY DEF IInv, DiskInv, RecordInv
  <2>2. ReadRun(s).gen = run[s].gen
    BY DEF ReadRun, reconcile_terminal_overlay, Reconciles
  <2> QED
    BY <2>1, <2>2, Zenon DEF reconcile_terminal_overlay, Reconciles
<1> QED
  BY <1>1, Invariant, PTL

-----------------------------------------------------------------------------
(* The state of a Run's overlay.                                            *)

\* What a reader finds is the terminal state of the Run record, and before it
\* has one, the state that was published.
StateRead ==
    \A s \in Stages :
        /\ run[s].state \in Terminal => ReadRun(s).state = run[s].state
        /\ run[s].state \notin Terminal => ReadRun(s).state = meta[s].state

\* RunRecord::read.
LEMMA Reads == IInv => StateRead
<1> SUFFICES ASSUME IInv, NEW s \in Stages
             PROVE  /\ run[s].state \in Terminal => ReadRun(s).state = run[s].state
                    /\ run[s].state \notin Terminal => ReadRun(s).state = meta[s].state
  BY Zenon DEF StateRead
<1>1. /\ ReadRun(s).state = (IF Reconciles(s, run[s]) THEN meta[s].state ELSE run[s].state)
      /\ run[s] \in Records /\ meta[s] \in Records /\ RecordInv(s)
  BY ReadFacts, Zenon DEF IInv, DiskInv
<1>2. run[s].state \in {"Staged"} \cup Terminal /\ meta[s].state \in {"Staged"} \cup Terminal
  BY <1>1 DEF Records
<1> QED
  BY <1>1, <1>2, Zenon DEF RecordInv, Reconciles, Terminal

\* The same in the next state.
LEMMA ReadsNext == IInv' => StateRead'
  BY Reads, PTL

\* The records of a stage change in three steps only.
LEMMA RecordsStand ==
  ASSUME IInv, [Next]_vars, NEW s \in Stages
  PROVE  \/ run'[s] = run[s] /\ meta'[s] = meta[s]
         \/ Save(s) \/ Settle(s) \/ Discarded(s)
<1>0. run \in [Stages -> Records] /\ meta \in [Stages -> Records]
  BY DEF IInv, TypeOK
<1>1. CASE UNCHANGED vars
  BY <1>1, Zenon DEF vars, disk
<1>2. ASSUME NEW t \in Stages, Step(t) \/ Abort(t)
      PROVE  \/ run'[s] = run[s] /\ meta'[s] = meta[s]
             \/ Save(s) \/ Settle(s) \/ Discarded(s)
  <2>1. CASE Save(t)
    BY <1>0, <2>1, Zenon DEF Save
  <2>2. CASE Settle(t)
    BY <1>0, <2>2, Zenon DEF Settle
  <2>3. CASE Discarded(t)
    BY <1>0, <2>3, Zenon DEF Discarded
  <2>4. CASE \/ Lock(t) \/ Sweep(t) \/ Resume(t) \/ Recovered(t) \/ Prepare(t) \/ Check(t)
             \/ OpenBackup(t) \/ Discard(t) \/ Abort(t)
    <3>1. UNCHANGED <<run, meta>>
      BY <2>4, Zenon DEF Lock, Sweep, Resume, Recovered, Prepare, Check, OpenBackup, Discard, Abort,
         Refuse, disk
    <3> QED
      BY <3>1, Zenon
  <2>5. CASE \/ Mark(t) \/ Consume(t) \/ Commit(t) \/ RemoveReceipt(t) \/ RemoveBackup(t)
    BY <2>5 DEF Mark, Consume, Commit, RemoveReceipt, RemoveBackup
  <2>6. ASSUME NEW p \in Paths, Restore(t, p) \/ BackUp(t, p) \/ Install(t, p) \/ Publish(t, p)
               \/ Rebase(t, p) \/ Prune(t, p) \/ RemoveOriginal(t, p) \/ Clear(t, p)
        PROVE  UNCHANGED <<run, meta>>
    BY <2>6, Zenon DEF Restore, BackUp, Install, Publish, Rebase, Prune, RemoveOriginal, Clear,
       RemoveUpper, Refuse, disk
  <2> QED
    BY <1>2, <2>1, <2>2, <2>3, <2>4, <2>5, <2>6, Zenon DEF Step
<1>3. ASSUME NEW t \in Stages, NEW o \in {"apply", "recover", "drop"},
             NEW paths \in SUBSET Paths, Begin(t, o, paths)
      PROVE  UNCHANGED <<run, meta>>
  BY <1>3, Zenon DEF Begin, disk
<1>4. ASSUME NEW p \in Paths, NEW c \in {Foreign, Absent}, Edit(p, c)
      PROVE  UNCHANGED <<run, meta>>
  BY <1>4 DEF Edit
<1>5. ASSUME NEW back \in SUBSET Removed, PowerLoss(back) PROVE UNCHANGED <<run, meta>>
  BY <1>5, Zenon DEF PowerLoss
<1> QED
  BY <1>1, <1>2, <1>3, <1>4, <1>5, Zenon DEF Next

\* A stage that is over stays what it is: no read, apply, recovery or drop
\* brings it back to Staged, and none turns Applied into Discarded or back
\* (reconcile_terminal_overlay, RunRecord::read).
THEOREM TerminalForGood == Spec => TerminalStands
<1>1. ASSUME IInv, IInv', [Next]_vars, NEW s \in Stages, ReadRun(s).state \in Terminal
      PROVE  ReadRun(s)'.state = ReadRun(s).state
  <2>1. /\ run[s].state \in Terminal => ReadRun(s).state = run[s].state
        /\ run[s].state \notin Terminal => ReadRun(s).state = meta[s].state
    BY <1>1, Reads, ZenonT(60) DEF StateRead
  <2>2. /\ run'[s].state \in Terminal => ReadRun(s)'.state = run'[s].state
        /\ run'[s].state \notin Terminal => ReadRun(s)'.state = meta'[s].state
    BY <1>1, ReadsNext, Zenon DEF StateRead
  <2>3. /\ run \in [Stages -> Records] /\ meta \in [Stages -> Records]
        /\ mem \in [Stages -> Records] /\ mem[s] \in Records
        /\ OpInv(s) /\ RecordInv(s)
    BY <1>1 DEF IInv, TypeOK, DiskInv
  <2>4. CASE run'[s] = run[s] /\ meta'[s] = meta[s]
    BY <2>1, <2>2, <2>4, Zenon
  <2>5. CASE Save(s)
    <3>1. /\ run'[s].state = mem[s].state /\ meta'[s] = meta[s]
      BY <2>3, <2>5 DEF Save, Records
    <3>2. meta[s] = mem[s] /\ run[s].state = "Staged"
      BY <2>3, <2>5 DEF Save, OpInv
    <3> QED
      BY <2>1, <2>2, <3>1, <3>2, Zenon DEF Terminal
  <2>6. CASE Settle(s)
    <3>1. /\ run'[s] = run[s]
          /\ meta'[s].state = IF Staged(s) = {} THEN "Applied" ELSE "Staged"
      BY <2>3, <2>6 DEF Settle, Records
    <3>2. has_pending_applies(s)
      BY <2>3, <2>6 DEF Settle, OpInv, Completing, has_pending_applies
    <3>3. run[s].state = "Staged" /\ meta[s].state # "Discarded"
      BY <2>3, <3>2, Zenon DEF RecordInv
    <3>4. meta[s].state = "Applied"
      BY <1>1, <2>1, <3>3 DEF Terminal
    <3>5. Staged(s) = {}
      BY <2>3, <3>4, Zenon DEF RecordInv, Staged
    <3> QED
      BY <2>1, <2>2, <3>1, <3>3, <3>4, <3>5, Zenon DEF Terminal
  <2>7. CASE Discarded(s)
    <3>1. run[s].state = "Staged" /\ meta[s].state \notin Terminal
      BY <2>3, <2>7, Zenon DEF Discarded, OpInv
    <3> QED
      BY <1>1, <2>1, <3>1 DEF Terminal
  <2> QED
    BY <1>1, <2>4, <2>5, <2>6, <2>7, RecordsStand, ZenonT(60)
<1>2. IInv /\ IInv' /\ [Next]_vars =>
      [\A s \in Stages : ReadRun(s).state \in Terminal =>
           ReadRun(s)'.state = ReadRun(s).state]_vars
  BY <1>1
<1> QED
  BY <1>2, Invariant, PTL DEF Spec, TerminalStands
=============================================================================
