----------------------------- MODULE DaemonProofs -----------------------------
(***************************************************************************)
(* Proofs about the sandbox daemon, for every set of identifiers and every *)
(* capacity: a sandbox without a record is absent, the node never holds    *)
(* more sandboxes than its capacity, and a serving daemon sees the records *)
(* that are on disk.                                                       *)
(***************************************************************************)
EXTENDS Daemon, FiniteSetTheorems, TLAPS

\* The native side of a sandbox is gone and cannot come back.
Absent(id) ==
    /\ ~Populated(id) /\ proc[id] # "entering"
    /\ proc[id] = "forked" => "deleting" \in marks[id]
    /\ Identified(id) => Tombstoned(id)

\* What the operation in progress may rely on at each of its steps.
StepInv(id) ==
    /\ At(id, "fresh") => proc[id] = "none"
    /\ op[id].pc \in {"prepare", "rollback", "spawn"} =>
         proc[id] = "none" /\ disk[id] # Gone /\ synced[id] # Gone
    /\ At(id, "spawn") => Identified(id)
    /\ op[id].pc \in {"kill", "reclaim"} => "deleting" \in marks[id]
    /\ At(id, "reclaim") => Tombstoned(id)
    /\ op[id].pc \in {"absent", "remove"} => Absent(id)
    /\ At(id, "settle") => op[id].to # "Gone"

\* What the marker files, the owner lock and the supervisor say of each other.
NativeInv(id) ==
    /\ Tombstoned(id) => /\ "deleting" \in marks[id]
                         /\ ~Populated(id) /\ proc[id] # "entering"
    /\ proc[id] \notin {"none", "dead"} => Identified(id) \/ Tombstoned(id)
    /\ proc[id] = "entering" => lock[id] = "child"
    /\ proc[id] = "serving" => vm[id] # "off"

\* A missing record, durable or only visible, means an absent sandbox.
RecordInv(id) == disk[id] = Gone \/ synced[id] = Gone => Absent(id)

\* The update that holds `commits` belongs to an operation that waits for it.
CommitInv(c) ==
    /\ op[c.id].pc = "committing"
    /\ c.rec = Gone => Absent(c.id)
    /\ c.next = "prepare" => proc[c.id] = "none" /\ c.rec # Gone

\* The capacity and the bounds of the behaviour.
LoadOK == load \in Loads

IInv ==
    /\ TypeOK
    /\ \A id \in Id : StepInv(id) /\ NativeInv(id) /\ RecordInv(id)
    /\ \A c \in commit : CommitInv(c)

-----------------------------------------------------------------------------
\* The capacity is positive and the bounds are natural numbers.
LEMMA LoadTypes ==
  ASSUME load \in Loads
  PROVE  /\ MaxSandboxes \in Nat \ {0} /\ MaxTime \in Nat /\ load.troubles \in Nat
         /\ load.controls \subseteq {"pause", "resume"}
<1>1. load \in [places : Nat \ {0}, ids : SUBSET Id,
               controls : SUBSET {"pause", "resume"}, troubles : Nat, end : Nat]
  BY LoadsAssumption
<1> QED
  BY <1>1 DEF MaxSandboxes, MaxTime

\* A daemon that starts on an empty store satisfies the invariant.
LEMMA InitInv == Init => IInv
<1> SUFFICES ASSUME Init PROVE IInv
  OBVIOUS
<1>1. Gone \in Records
  BY DEF Gone, Records, States
<1>2. TypeOK
  <2>1. /\ load \in Loads
        /\ op = [id \in Id |-> IF id \in load.ids THEN Fresh ELSE Idle]
        /\ troubles = load.troubles
    BY DEF Init
  <2>2. troubles \in Nat
    BY <2>1, LoadTypes
  <2>3. Fresh \in Ops /\ Idle \in Ops
    BY DEF Fresh, Idle, Ops, States, Committing, Pcs
  <2>4. op \in [Id -> Ops]
    BY <2>1, <2>3
  <2> QED
    BY <1>1, <2>2, <2>4, Zenon DEF Init, TypeOK
<1>3. \A id \in Id : StepInv(id) /\ NativeInv(id) /\ RecordInv(id)
  BY DEF Init, StepInv, NativeInv, RecordInv, Absent, At, Populated, Identified,
         Tombstoned, Fresh, Idle
<1>4. \A c \in commit : CommitInv(c)
  BY DEF Init
<1> QED
  BY <1>2, <1>3, <1>4 DEF IInv

\* Moving an operation on changes its program point and nothing else.
LEMMA GotoMoves ==
  ASSUME op \in [Id -> Ops], NEW id \in Id, NEW pc \in Pcs, Goto(id, pc)
  PROVE  /\ op' \in [Id -> Ops] /\ \A i \in Id \ {id} : op'[i] = op[i]
         /\ op'[id].pc = pc /\ op'[id].kind = op[id].kind
BY DEF Goto, Ops, Pcs

\* The sandboxes other than id do not notice the step.
Elsewhere(id) ==
    \A i \in Id \ {id} : /\ op'[i] = op[i] /\ marks'[i] = marks[i] /\ lock'[i] = lock[i]
                         /\ proc'[i] = proc[i] /\ vm'[i] = vm[i]
                         /\ disk'[i] = disk[i] /\ synced'[i] = synced[i]

\* A step that only moves an operation, to a point where nothing is assumed of it.
Harmless(pc) == pc \notin {"fresh", "prepare", "rollback", "spawn", "kill", "reclaim",
                          "absent", "remove", "settle", "committing"}

-----------------------------------------------------------------------------
(* The invariant, and what follows from it.                                *)

\* What a client may ask for.
LEMMA RequestCases ==
  ASSUME LoadOK, NEW id \in Id, Request(id)
  PROVE  \/ \E until \in Nat : Create(id, until) \/ Renew(id, until)
         \/ Get(id) \/ Controls(id, "pause") \/ Controls(id, "resume") \/ Delete(id)
<1>1. 0..MaxTime \subseteq Nat /\ load.controls \subseteq {"pause", "resume"}
  BY LoadTypes DEF LoadOK
<1> QED
  BY <1>1 DEF Request

\* The capacity and the bounds never change.
LEMMA LoadFixed == Spec => []LoadOK
<1>1. Init => LoadOK
  BY DEF Init, LoadOK
<1>2. LoadOK /\ [Next]_<<load, vars>> => LoadOK'
  BY DEF LoadOK, Next
<1> QED
  BY <1>1, <1>2, PTL DEF Spec

\* Every step keeps the invariant.
LEMMA NextInv == LoadOK /\ IInv /\ [Next]_<<load, vars>> => IInv'

\* The bound on troubles stays a natural number.
<1>TroubleCounts. ASSUME troubles \in Nat, Trouble PROVE troubles' \in Nat
  BY <1>TroubleCounts DEF Trouble

\* Marker files are only added, to one sandbox directory.
<1>MarkMoves.
  ASSUME marks \in [Id -> SUBSET Marks], NEW id \in Id, NEW names \in SUBSET Marks,
         Mark(id, names)
  PROVE  /\ marks' \in [Id -> SUBSET Marks] /\ \A i \in Id \ {id} : marks'[i] = marks[i]
         /\ marks'[id] = marks[id] \cup names
  BY <1>MarkMoves DEF Mark

\* A step of one sandbox keeps the invariant when it keeps its part of it, and
\* does not pull the ground from under a commit in flight.
<1>LocalStep.
  ASSUME IInv, TypeOK', NEW id \in Id, Elsewhere(id), UNCHANGED commit,
         At(id, "committing") => /\ At(id, "committing")'
                                 /\ Absent(id) => Absent(id)'
                                 /\ proc[id] = "none" => proc'[id] = "none",
         StepInv(id)', NativeInv(id)', RecordInv(id)'
  PROVE  IInv'
  <2> USE <1>LocalStep
  <2>1. ASSUME NEW i \in Id PROVE StepInv(i)' /\ NativeInv(i)' /\ RecordInv(i)'
    <3>1. StepInv(i) /\ NativeInv(i) /\ RecordInv(i)
      BY DEF IInv
    <3> QED
      BY <3>1 DEF Elsewhere, StepInv, NativeInv, RecordInv, Absent, At, Populated,
         Identified, Tombstoned
  <2>2. ASSUME NEW c \in commit' PROVE CommitInv(c)'
    <3>1. CommitInv(c) /\ c.id \in Id
      BY DEF IInv, TypeOK
    <3>2. CASE c.id = id
      BY <3>1, <3>2, Zenon DEF CommitInv, At
    <3>3. CASE c.id # id
      BY <3>1, <3>3, Zenon DEF Elsewhere, CommitInv, Absent, Populated, Identified, Tombstoned
    <3> QED
      BY <3>2, <3>3
  <2> QED
    BY <2>1, <2>2, Zenon DEF IInv

\* Such a step keeps the invariant.
<1>OpMoves.
  ASSUME IInv, NEW id \in Id, op[id].pc # "committing",
         op' \in [Id -> Ops], \A i \in Id \ {id} : op'[i] = op[i],
         Harmless(op'[id].pc) \/ (op'[id].pc = "settle" /\ op'[id].to # "Gone"),
         UNCHANGED <<up, failed, store, commit, marks, lock, proc, vm, now>>,
         scanned' \subseteq Id, troubles' \in Nat
  PROVE  IInv'
  <2> USE <1>OpMoves
  <2>1. TypeOK'
    BY DEF IInv, TypeOK, store
  <2>2. Elsewhere(id)
    BY Zenon DEF Elsewhere, store
  <2>3. NativeInv(id)' /\ RecordInv(id)'
    BY Zenon DEF IInv, NativeInv, RecordInv, Absent, Populated, Identified, Tombstoned, store
  <2>4. StepInv(id)'
    BY DEF Harmless, StepInv, At
  <2> QED
    BY <2>1, <2>2, <2>3, <2>4, <1>LocalStep DEF At

(* The first step of each operation, and the maintenance scan.             *)

\* Get, pause, resume, delete and the maintenance scan keep the invariant.
<1>BeginInv.
  ASSUME IInv, NEW id \in Id,
         \/ Get(id) \/ Controls(id, "pause") \/ Controls(id, "resume") \/ Delete(id)
         \/ Scan(id) \/ Cleanup(id)
  PROVE  IInv'
  <2> USE <1>BeginInv
  <2>1. op \in [Id -> Ops] /\ scanned \subseteq Id /\ troubles \in Nat
    BY Zenon DEF IInv, TypeOK
  <2>2. CASE Scan(id)
    <3>1. TypeOK'
      BY <2>2, Zenon DEF Scan, IInv, TypeOK, store, native
    <3> QED
      BY <2>2, <3>1 DEF Scan, IInv, StepInv, NativeInv, RecordInv, CommitInv, Absent, At,
         Populated, Identified, Tombstoned, store, native
  <2>3. CASE Get(id)
    BY <2>1, <2>3, <1>OpMoves, Zenon DEF native, Get, Begin, Starts, At, Ops, Pcs, States, Harmless
  <2>4. CASE Controls(id, "pause") \/ Controls(id, "resume")
    BY <2>1, <2>4, <1>OpMoves DEF native, Controls, Begin, Starts, At, Ops, Pcs, States, Harmless
  <2>5. CASE Delete(id)
    BY <2>1, <2>5, <1>OpMoves, Zenon DEF native, Delete, Begin, Starts, At, Ops, States, Committing,
       Pcs, Harmless
  <2>6. CASE Cleanup(id)
    BY <2>1, <2>6, <1>OpMoves DEF native, Cleanup, Begin, Starts, At, Ops, States, Committing,
       Pcs, Harmless
  <2> QED
    BY <2>2, <2>3, <2>4, <2>5, <2>6

(* Commits.                                                                *)

\* An update takes the commit lock with a record that its operation vouches for.
<1>HoldInv.
  ASSUME IInv, NEW id \in Id,
         NEW rec \in Records, NEW next \in {"idle", "request", "terminate", "prepare"},
         Held(id, rec, next),
         op' \in [Id -> Ops], \A i \in Id \ {id} : op'[i] = op[i],
         op'[id].pc = "committing", commit = {},
         rec = Gone => Absent(id),
         next = "prepare" => proc[id] = "none" /\ rec # Gone,
         UNCHANGED <<up, failed, store, scanned, native, now, troubles>>
  PROVE  IInv'
  <2> USE <1>HoldInv
  <2>1. TypeOK'
    BY SMTT(30), Z3T(30) DEF IInv, TypeOK, Held, store, native
  <2>2. ASSUME NEW i \in Id PROVE StepInv(i)' /\ NativeInv(i)' /\ RecordInv(i)'
    <3>1. StepInv(i) /\ NativeInv(i) /\ RecordInv(i)
      BY Zenon DEF IInv
    <3> QED
      BY <3>1, Zenon DEF StepInv, NativeInv, RecordInv, Absent, At, Populated,
         Identified, Tombstoned, store, native
  <2>3. ASSUME NEW c \in commit' PROVE CommitInv(c)'
    <3>1. c.id = id /\ c.rec = rec /\ c.next = next
      BY DEF Held
    <3> QED
      BY <3>1, Zenon DEF CommitInv, Absent, Populated, Identified, Tombstoned, native
  <2> QED
    BY <2>1, <2>2, <2>3, Zenon DEF IInv

\* Creation and renewal keep the invariant: neither of them commits a removal.
<1>AdmitInv.
  ASSUME IInv, NEW id \in Id, NEW until \in Nat,
         Create(id, until) \/ Renew(id, until)
  PROVE  IInv'
  <2> USE <1>AdmitInv
  <2>1. op \in [Id -> Ops] /\ memory \in [Id -> Records] /\ until \in Nat
    BY Zenon DEF IInv, TypeOK
  <2>2. CASE Create(id, until)
    <3> DEFINE rec == [state |-> "Pending", until |-> until]
    <3>1. rec \in Records /\ rec # Gone
      BY <2>1, Zenon DEF Records, States, Gone
    <3>2. proc[id] = "none"
      BY <2>2, Zenon DEF Create, IInv, StepInv
    <3>3. op' \in [Id -> Ops] /\ op'[id].pc = "committing"
      BY <2>1, <2>2 DEF Create, Starts, Ops, Pcs, States
    <3>4. \A i \in Id \ {id} : op'[i] = op[i]
      BY <2>1, <2>2 DEF Create, Starts
    <3>5. commit = {} /\ Held(id, rec, "prepare")
      BY <2>2 DEF Create
    <3> HIDE DEF rec
    <3> QED
      BY <2>2, <3>1, <3>2, <3>3, <3>4, <3>5, <1>HoldInv DEF Create
  <2>3. CASE Renew(id, until)
    <3> DEFINE rec == [memory[id] EXCEPT !.until = until]
    <3>1. rec \in Records /\ rec # Gone
      <4>1. memory[id] \in Records /\ memory[id].state # "Gone"
        BY <2>1, <2>3 DEF Renew, Begin, Present, Gone, Records
      <4> QED
        BY <2>1, <4>1 DEF Records, Gone
    <3>2. op' \in [Id -> Ops] /\ op'[id].pc = "committing"
      BY <2>1, <2>3 DEF Renew, Starts, Ops, Pcs, States
    <3>3. \A i \in Id \ {id} : op'[i] = op[i]
      BY <2>1, <2>3 DEF Renew, Starts
    <3>4. commit = {} /\ Held(id, rec, "idle")
      BY <2>3 DEF Renew
    <3> HIDE DEF rec
    <3> QED
      BY <2>3, <3>1, <3>2, <3>3, <3>4, <1>HoldInv DEF Renew
  <2> QED
    BY <2>2, <2>3

\* The later commits of an operation keep it: only an operation that has proven the
\* absence of its sandbox commits a removal.
<1>UpdateInv.
  ASSUME IInv, NEW id \in Id, Update(id) \/ UpdateRefused(id)
  PROVE  IInv'
  <2> USE <1>UpdateInv
  <2>1. op \in [Id -> Ops] /\ memory \in [Id -> Records] /\ StepInv(id)
        /\ scanned \subseteq Id /\ troubles \in Nat
    BY Zenon DEF IInv, TypeOK
  <2>2. CASE Update(id)
    <3> DEFINE rec == Change(id).rec
               next == Change(id).next
    <3>1. op[id].pc \in Committing /\ memory[id] \in Records
      BY <2>1, <2>2 DEF Update
    <3>2. rec \in Records /\ (rec = Gone => Absent(id))
      <4>1. CASE op[id].pc \in {"created", "unsure", "intend", "stopping"}
        BY <3>1, <4>1 DEF Change, At, Records, States, Gone
      <4>2. CASE op[id].pc = "settle"
        BY <2>1, <3>1, <4>2, Zenon DEF Change, At, Records, Ops, Pcs, Gone, StepInv
      <4>3. CASE op[id].pc \in {"absent", "remove"}
        BY <2>1, <4>3 DEF Change, At, Records, States, Gone, StepInv
      <4> QED
        BY <3>1, <4>1, <4>2, <4>3, Zenon DEF Committing
    <3>3. next \in {"idle", "request", "terminate"}
      BY <3>1 DEF Change, At, Committing, Pcs
    <3>4. op' \in [Id -> Ops] /\ op'[id].pc = "committing"
      BY <2>1, <2>2 DEF Update, Goto, Ops, Pcs
    <3>5. \A i \in Id \ {id} : op'[i] = op[i]
      BY <2>1, <2>2 DEF Update, Goto
    <3>6. commit = {} /\ Held(id, rec, next)
      BY <2>2, Zenon DEF Update
    <3> HIDE DEF rec, next
    <3> QED
      BY <2>2, <3>2, <3>3, <3>4, <3>5, <3>6, <1>HoldInv DEF Update
  <2>3. CASE UpdateRefused(id)
    BY <2>1, <2>3, <1>OpMoves DEF native, UpdateRefused, Ends, Idle, Ops, States, Harmless,
       Committing, Pcs
  <2> QED
    BY <2>2, <2>3

\* A commit that lands, is rejected or ends with an unknown outcome keeps it.
<1>CommitEnds.
  ASSUME IInv, NEW c \in commit, Lands(c) \/ BudgetRejected(c) \/ CommitUnknown(c)
  PROVE  IInv'
  <2> USE <1>CommitEnds
  <2>1. /\ c.id \in Id /\ c.rec \in Records /\ CommitInv(c)
        /\ c.next \in {"idle", "request", "terminate", "prepare"}
        /\ op \in [Id -> Ops] /\ disk \in [Id -> Records] /\ synced \in [Id -> Records]
    BY Zenon DEF IInv, TypeOK
  <2>2. commit' = {}
    BY Zenon DEF Lands, BudgetRejected, CommitUnknown, IInv, TypeOK
  <2>3. op' \in [Id -> Ops] /\ \A i \in Id \ {c.id} : op'[i] = op[i]
    BY <2>1 DEF Lands, BudgetRejected, CommitUnknown, After, Ends, Goto, Idle, Ops, Pcs, States
  <2>4. op'[c.id].pc \in {"idle", "request", "terminate", "prepare"}
        /\ (op'[c.id].pc = "prepare" => Lands(c) /\ c.next = "prepare")
    BY <2>1 DEF Lands, BudgetRejected, CommitUnknown, After, Ends, Goto, Idle, Ops, Pcs
  <2>5. /\ disk' \in {disk, [disk EXCEPT ![c.id] = c.rec]}
        /\ synced' \in {synced, [synced EXCEPT ![c.id] = c.rec]}
        /\ Lands(c) => disk'[c.id] = c.rec /\ synced'[c.id] = c.rec
    BY <2>1, Zenon DEF Lands, BudgetRejected, CommitUnknown, store
  <2>6. UNCHANGED native
    BY Zenon DEF Lands, BudgetRejected, CommitUnknown
  <2>7. TypeOK'
    <3>1. /\ up' \in BOOLEAN /\ failed' \in BOOLEAN /\ now' \in Nat
          /\ memory' \in [Id -> Records] /\ scanned' \subseteq Id
      BY <2>1, Zenon DEF Lands, BudgetRejected, CommitUnknown, IInv, TypeOK, store
    <3>2. troubles' \in Nat
      BY <1>TroubleCounts DEF Lands, BudgetRejected, CommitUnknown, IInv, TypeOK
    <3>3. disk' \in [Id -> Records] /\ synced' \in [Id -> Records]
      BY <2>1, <2>5
    <3> QED
      BY <2>2, <2>3, <2>6, <3>1, <3>2, <3>3 DEF IInv, TypeOK, native
  <2>8. ASSUME NEW i \in Id PROVE StepInv(i)' /\ NativeInv(i)' /\ RecordInv(i)'
    <3>1. StepInv(i) /\ NativeInv(i) /\ RecordInv(i)
      BY Zenon DEF IInv
    <3>2. Absent(i)' <=> Absent(i)
      BY <2>6, Zenon DEF Absent, Populated, Identified, Tombstoned, native
    <3>3. CASE i = c.id
      <4>1. RecordInv(i)'
        BY <2>1, <2>5, <3>1, <3>2, <3>3, Zenon DEF RecordInv, CommitInv
      <4>2. StepInv(i)'
        BY <2>1, <2>4, <2>5, <2>6, <3>3 DEF StepInv, CommitInv, At, native
      <4> QED
        BY <2>6, <3>1, <4>1, <4>2, Zenon DEF NativeInv, Populated, Identified, Tombstoned, native
    <3>4. CASE i # c.id
      <4>1. op'[i] = op[i] /\ disk'[i] = disk[i] /\ synced'[i] = synced[i]
        BY <2>1, <2>3, <2>5, <3>4
      <4> QED
        BY <2>6, <3>1, <3>2, <4>1, Zenon DEF StepInv, NativeInv, RecordInv, At, Populated,
           Identified, Tombstoned, native
    <3> QED
      BY <3>3, <3>4
  <2> QED
    BY <2>2, <2>7, <2>8 DEF IInv

(* Preparation and spawn.                                                  *)

\* Preparing, rolling back and spawning keep it: the Pending record is durable by
\* then.
<1>CreationInv.
  ASSUME IInv, NEW id \in Id,
         Prepare(id) \/ PrepareFails(id) \/ Rollback(id) \/ Spawn(id)
  PROVE  IInv'
  <2> USE <1>CreationInv
  <2>1. /\ StepInv(id) /\ NativeInv(id) /\ RecordInv(id)
        /\ op \in [Id -> Ops] /\ marks \in [Id -> SUBSET Marks]
    BY Zenon DEF IInv, TypeOK
  <2>2. CASE Prepare(id)
    <3>1. /\ TypeOK' /\ Elsewhere(id) /\ UNCHANGED commit
      BY <2>1, <2>2 DEF Prepare, Goto, Mark, Stages, Here, IInv, TypeOK, Elsewhere, Ops, Pcs, Marks
    <3>2. ~At(id, "committing") /\ StepInv(id)' /\ NativeInv(id)' /\ RecordInv(id)'
      BY <2>1, <2>2, Zenon DEF Prepare, Goto, Mark, Stages, Here, Ops, Pcs, StepInv, NativeInv, RecordInv,
         Absent, At, Populated, Identified, Tombstoned
    <3> QED
      BY <3>1, <3>2, <1>LocalStep, Zenon
  <2>3. CASE PrepareFails(id)
    <3>1. PICK i \in 1..3 :
            /\ Mark(id, Stages[i])
            /\ Goto(id, CASE i = 1 -> "unsure" [] i = 2 -> "rollback" [] i = 3 -> "mark")
      BY <2>3 DEF PrepareFails
    <3>2. Stages[i] \subseteq {"dir", "preparing"}
      BY DEF Stages
    <3>3. PICK pc \in {"unsure", "rollback", "mark"} : Goto(id, pc)
      BY <3>1
    <3>4. /\ TypeOK' /\ Elsewhere(id) /\ UNCHANGED commit
      <4>1. troubles' \in Nat
        BY <2>3, <1>TroubleCounts DEF PrepareFails, IInv, TypeOK
      <4>2. op' \in [Id -> Ops] /\ marks' \in [Id -> SUBSET Marks]
        BY <2>1, <3>1, <3>2, <3>3 DEF Goto, Mark, Ops, Marks, Committing, Pcs
      <4> QED
        BY <2>1, <2>3, <3>1, <3>3, <4>1, <4>2 DEF PrepareFails, Goto, Mark, Here, IInv, TypeOK,
           Elsewhere
    <3>5. ~At(id, "committing") /\ StepInv(id)' /\ NativeInv(id)' /\ RecordInv(id)'
      <4>1. op'[id].pc = pc /\ op[id].pc = "prepare"
        BY <2>1, <2>3, <3>3 DEF Goto, Ops, PrepareFails, At
      <4>2. /\ marks[id] \subseteq marks'[id]
            /\ marks'[id] \subseteq marks[id] \cup {"dir", "preparing"}
        BY <2>1, <3>1, <3>2 DEF Mark
      <4>3. UNCHANGED <<proc, lock, vm, disk, synced>>
        BY <2>3, Zenon DEF PrepareFails, Here
      <4>4. proc[id] = "none" /\ disk[id] # Gone /\ synced[id] # Gone
        BY <2>1, <4>1, Zenon DEF StepInv
      <4>5. NativeInv(id)'
        BY <2>1, <4>2, <4>3, <4>4, Zenon DEF NativeInv, Populated, Identified, Tombstoned
      <4> QED
        BY <4>1, <4>3, <4>4, <4>5 DEF StepInv, RecordInv, At
    <3> QED
      BY <3>4, <3>5, <1>LocalStep
  <2>4. CASE Rollback(id)
    <3>1. /\ TypeOK' /\ Elsewhere(id) /\ UNCHANGED commit
      BY <2>1, <2>4, SMTT(30) DEF Rollback, Goto, Here, IInv, TypeOK, Elsewhere, Ops, Marks,
         Committing, Pcs
    <3>2. ~At(id, "committing") /\ StepInv(id)' /\ NativeInv(id)' /\ RecordInv(id)'
      BY <2>1, <2>4, Zenon DEF Rollback, Goto, Here, Ops, Pcs, StepInv, NativeInv, RecordInv,
         Absent, At, Populated, Identified, Tombstoned
    <3> QED
      BY <3>1, <3>2, <1>LocalStep, Zenon
  <2>5. CASE Spawn(id)
    <3>1. /\ TypeOK' /\ Elsewhere(id) /\ UNCHANGED commit
      BY <2>1, <2>5 DEF Spawn, Goto, Here, IInv, TypeOK, Elsewhere, Ops, Pcs
    <3>2. proc'[id] = "forked" /\ op'[id].pc = "ready"
      BY <2>1, <2>5 DEF Spawn, Goto, Ops, Pcs, IInv, TypeOK
    <3>3. ~At(id, "committing") /\ StepInv(id)' /\ NativeInv(id)' /\ RecordInv(id)'
      BY <2>1, <2>5, <3>2, Zenon DEF Spawn, Here, StepInv, NativeInv, RecordInv,
         Absent, At, Populated, Identified, Tombstoned
    <3> QED
      BY <3>1, <3>3, <1>LocalStep
  <2> QED
    BY <2>2, <2>3, <2>4, <2>5

\* The steps of a creation and of a request that change nothing but the operation.
<1>AnsweredInv.
  ASSUME IInv, NEW id \in Id,
         SpawnFails(id) \/ Ready(id) \/ NotReady(id) \/ Unanswered(id) \/ LostAnswer(id)
  PROVE  IInv'
  <2> USE <1>AnsweredInv
  <2>1. op \in [Id -> Ops] /\ scanned \subseteq Id /\ troubles \in Nat
    BY Zenon DEF IInv, TypeOK
  <2>2. troubles' \in Nat
    BY <2>1, <1>TroubleCounts DEF SpawnFails, Ready, NotReady, Unanswered, LostAnswer
  <2>3. CASE SpawnFails(id)
    BY <2>1, <2>2, <2>3, <1>OpMoves DEF SpawnFails, Goto, Here, native, store, At, Ops, Pcs,
       Harmless
  <2>4. CASE Ready(id)
    BY <2>1, <2>2, <2>4, <1>OpMoves DEF Ready, Goto, Here, native, store, At, Ops, Harmless,
       Committing, Pcs
  <2>5. CASE NotReady(id)
    BY <2>1, <2>2, <2>5, <1>OpMoves, Zenon DEF NotReady, Goto, Here, native, store, At, Ops, Pcs, Harmless
  <2>6. CASE Unanswered(id)
    BY <2>1, <2>2, <2>6, <1>OpMoves, Zenon DEF Unanswered, Asking, Ends, Idle, Here, native, store,
       Ops, Pcs,
       States, Harmless
  <2>7. CASE LostAnswer(id)
    BY <2>1, <2>2, <2>7, <1>OpMoves, Zenon DEF LostAnswer, Asking, Ends, Idle, Here, store, Ops, Pcs,
       States, Harmless
  <2> QED
    BY <2>3, <2>4, <2>5, <2>6, <2>7

\* Acting on an observed state leads to a commit of a status, to a deletion or to
\* the end of the operation.
<1>ObservedMoves.
  ASSUME op \in [Id -> Ops], NEW id \in Id,
         NEW st \in {"running", "paused", "stopped", "missing"}, Observed(id, st)
  PROVE  /\ op' \in [Id -> Ops] /\ \A i \in Id \ {id} : op'[i] = op[i]
         /\ Harmless(op'[id].pc) \/ (op'[id].pc = "settle" /\ op'[id].to # "Gone")
  <2> USE <1>ObservedMoves
  <2> DEFINE to == CASE st = "running" -> "Running" [] st = "paused" -> "Paused"
                     [] st = "stopped" -> "Terminated" [] st = "missing" -> "Failed"
  <2>1. to \in States \ {"Gone"}
    BY DEF States
  <2>2. \/ Ends(id) \/ Settle(id, to) \/ Goto(id, "stopping") \/ Goto(id, "intend")
    BY Zenon DEF Observed
  <2> HIDE DEF to
  <2>3. CASE Ends(id)
    BY <2>3 DEF Ends, Idle, Ops, Pcs, States, Harmless
  <2>4. CASE Settle(id, to)
    BY <2>1, <2>4, ZenonT(30) DEF Settle, Ops, Committing, Pcs
  <2>5. CASE Goto(id, "stopping") \/ Goto(id, "intend")
    BY <2>5 DEF Goto, Ops, Committing, Pcs, Harmless
  <2> QED
    BY <2>2, <2>3, <2>4, <2>5

(* Termination, reclaiming and the inspections.                            *)

\* Reclaiming under a tombstone leaves an absent sandbox, whoever holds the lock.
<1>ReclaimedAbsent.
  ASSUME IInv, NEW id \in Id, Tombstoned(id), Reclaimed(id),
         UNCHANGED <<proc, vm, disk, synced>>
  PROVE  /\ marks' \in [Id -> SUBSET Marks] /\ \A i \in Id \ {id} : marks'[i] = marks[i]
         /\ Absent(id)' /\ NativeInv(id)' /\ RecordInv(id)'
  <2> USE <1>ReclaimedAbsent
  <2>1. NativeInv(id) /\ marks \in [Id -> SUBSET Marks]
    BY DEF IInv, TypeOK
  <2>2. marks'[id] = (marks[id] \ {"preparing", "identity"}) \cup {"deleting", "reclaimed"}
    BY <2>1 DEF Reclaimed
  <2>3. marks' \in [Id -> SUBSET Marks] /\ \A i \in Id \ {id} : marks'[i] = marks[i]
    BY <2>1 DEF Reclaimed, Marks
  <2> QED
    BY <2>1, <2>2, <2>3, Zenon DEF Absent, NativeInv, RecordInv, Populated, Identified, Tombstoned

\* Without a tombstone and without an identity there is nothing that could run.
<1>UnidentifiedAbsent.
  ASSUME IInv, NEW id \in Id, ~Tombstoned(id), ~Identified(id)
  PROVE  Absent(id)
  <2> USE <1>UnidentifiedAbsent
  <2>1. proc[id] \in {"none", "dead"}
    BY Zenon DEF IInv, NativeInv
  <2> QED
    BY <2>1, Zenon DEF Absent, Populated

\* An inspection, a termination or a confirmation that finds a tombstone finishes
\* its reclaiming and goes on, or ends.
<1>FinishInv.
  ASSUME IInv, NEW id \in Id, Tombstoned(id), op[id].pc # "committing",
         \/ Reclaimed(id)
            /\ (op'[id].pc \in {"absent", "remove"}
                \/ Harmless(op'[id].pc) \/ (op'[id].pc = "settle" /\ op'[id].to # "Gone"))
         \/ UNCHANGED marks /\ Harmless(op'[id].pc),
         op' \in [Id -> Ops], \A i \in Id \ {id} : op'[i] = op[i],
         lock' \in [Id -> {"free", "daemon", "child"}],
         \A i \in Id \ {id} : lock'[i] = lock[i],
         UNCHANGED <<Here, proc, vm, troubles>>
  PROVE  IInv'
  <2> USE <1>FinishInv
  <2>1. NativeInv(id) /\ RecordInv(id)
    BY Zenon DEF IInv
  <2>2. /\ marks' \in [Id -> SUBSET Marks] /\ \A i \in Id \ {id} : marks'[i] = marks[i]
        /\ NativeInv(id)' /\ RecordInv(id)'
        /\ op'[id].pc \in {"absent", "remove"} => Absent(id)'
    <3>1. CASE UNCHANGED marks /\ Harmless(op'[id].pc)
      BY <2>1, <3>1, Zenon DEF Here, IInv, TypeOK, Harmless, NativeInv, RecordInv, Absent, Populated,
         Identified, Tombstoned
    <3>2. CASE Reclaimed(id)
      BY <3>2, <1>ReclaimedAbsent, Zenon DEF Here
    <3> QED
      BY <3>1, <3>2, Zenon
  <2>3. TypeOK'
    BY <2>2 DEF Here, IInv, TypeOK
  <2>4. Elsewhere(id)
    BY <2>2, Zenon DEF Here, Elsewhere
  <2>5. StepInv(id)'
    BY <2>2, Zenon DEF Harmless, StepInv, At
  <2> QED
    BY <2>2, <2>3, <2>4, <2>5, <1>LocalStep, Zenon DEF At, Here

\* Marking, killing and recording the absence keep it: a tombstone is written while
\* the group is empty and the lock is held.
<1>CleanupInv.
  ASSUME IInv, NEW id \in Id,
         MarkDeleting(id) \/ Kill(id) \/ Tombstone(id) \/ CleanupFails(id)
  PROVE  IInv'
  <2> USE <1>CleanupInv
  <2>1. /\ StepInv(id) /\ NativeInv(id) /\ RecordInv(id)
        /\ op \in [Id -> Ops] /\ marks \in [Id -> SUBSET Marks]
        /\ lock \in [Id -> {"free", "daemon", "child"}]
        /\ proc \in [Id -> {"none", "forked", "entering", "entered", "supervising",
                            "starting", "serving", "dead"}]
    BY DEF IInv, TypeOK
  <2>2. CASE MarkDeleting(id)
    <3>1. /\ marks' \in [Id -> SUBSET Marks] /\ \A i \in Id \ {id} : marks'[i] = marks[i]
          /\ marks'[id] = marks[id] \cup {"deleting"}
      BY <2>1, <2>2, <1>MarkMoves, Zenon DEF MarkDeleting, Marks
    <3>2. op' \in [Id -> Ops] /\ op'[id].pc = "kill" /\ \A i \in Id \ {id} : op'[i] = op[i]
      BY <2>1, <2>2, GotoMoves, Zenon DEF MarkDeleting, Pcs
    <3>4. TypeOK' /\ Elsewhere(id) /\ UNCHANGED commit
      BY <2>2, <3>1, <3>2 DEF MarkDeleting, Here, IInv, TypeOK, Elsewhere
    <3>3. ~At(id, "committing") /\ StepInv(id)' /\ NativeInv(id)' /\ RecordInv(id)'
      BY <2>1, <2>2, <3>1, <3>2, Zenon DEF MarkDeleting, Here, StepInv, NativeInv, RecordInv,
         Absent, At, Populated, Identified, Tombstoned
    <3> QED
      BY <3>3, <3>4, <1>LocalStep, Zenon
  <2>3. CASE Kill(id)
    <3>1. proc'[id] = "dead" /\ op' = op /\ marks' = marks
      BY <2>1, <2>3, Zenon DEF Kill
    <3>2. TypeOK' /\ Elsewhere(id) /\ UNCHANGED commit
      BY <2>1, <2>3 DEF Kill, Here, IInv, TypeOK, Elsewhere
    <3>3. ~At(id, "committing") /\ StepInv(id)' /\ NativeInv(id)' /\ RecordInv(id)'
      BY <2>1, <2>3, <3>1, Zenon DEF Kill, Here, StepInv, NativeInv, RecordInv,
         Absent, At, Populated, Identified, Tombstoned
    <3> QED
      BY <3>2, <3>3, <1>LocalStep, Zenon
  <2>4. CASE Tombstone(id)
    <3>1. /\ marks' \in [Id -> SUBSET Marks] /\ \A i \in Id \ {id} : marks'[i] = marks[i]
          /\ marks'[id] = marks[id] \cup {"tombstone"}
      BY <2>1, <2>4, <1>MarkMoves, Zenon DEF Tombstone, Marks
    <3>2. op' \in [Id -> Ops] /\ op'[id].pc = "reclaim" /\ \A i \in Id \ {id} : op'[i] = op[i]
      BY <2>1, <2>4, GotoMoves DEF Tombstone, Pcs
    <3>4. TypeOK' /\ Elsewhere(id) /\ UNCHANGED commit
      BY <2>1, <2>4, <3>1, <3>2, Zenon DEF Tombstone, Here, IInv, TypeOK, Elsewhere
    <3>5. proc[id] # "entering" /\ ~Populated(id)
      BY <2>1, <2>4 DEF Tombstone, NativeInv
    <3>3. ~At(id, "committing") /\ StepInv(id)' /\ NativeInv(id)' /\ RecordInv(id)'
      BY <2>1, <2>4, <3>1, <3>2, <3>5, Zenon DEF Tombstone, Here, StepInv, NativeInv, RecordInv,
         Absent, At, Populated, Identified, Tombstoned
    <3> QED
      BY <3>3, <3>4, <1>LocalStep, Zenon
  <2>5. CASE CleanupFails(id)
    <3>1. op' \in [Id -> Ops] /\ op'[id].pc \in {"unsure", "idle"}
      <4>1. Goto(id, "unsure") \/ Ends(id)
        BY <2>5, Zenon DEF CleanupFails, Unclean
      <4>2. CASE Goto(id, "unsure")
        BY <2>1, <4>2, Zenon DEF Goto, Ops, Committing, Pcs
      <4>3. CASE Ends(id)
        BY <2>1, <4>3, Zenon DEF Ends, Idle, Ops, States, Pcs
      <4> QED
        BY <4>1, <4>2, <4>3
    <3>4. troubles' \in Nat
      BY <2>5, <1>TroubleCounts, Zenon DEF CleanupFails, IInv, TypeOK
    <3>2. TypeOK' /\ Elsewhere(id) /\ UNCHANGED commit
      BY <2>1, <2>5, <3>1, <3>4 DEF CleanupFails, Unclean, Ends, Goto, Here, IInv, TypeOK, Elsewhere
    <3>3. ~At(id, "committing") /\ StepInv(id)' /\ NativeInv(id)' /\ RecordInv(id)'
      BY <2>1, <2>5, <3>1, Zenon DEF CleanupFails, Here, StepInv, NativeInv, RecordInv,
         Absent, At, Populated, Identified, Tombstoned
    <3> QED
      BY <3>2, <3>3, <1>LocalStep, Zenon
  <2> QED
    BY <2>2, <2>3, <2>4, <2>5

\* A step of an inspection or a termination that finds no tombstone: the marks
\* stay, or the deletion is marked and the killing begins.
<1>UntombstonedInv.
  ASSUME IInv, NEW id \in Id, op[id].pc # "committing",
         \/ /\ UNCHANGED marks
            /\ \/ Harmless(op'[id].pc)
               \/ op'[id].pc = "settle" /\ op'[id].to # "Gone"
               \/ op'[id].pc = "remove" /\ Absent(id)
         \/ Mark(id, {"deleting"}) /\ op'[id].pc = "kill",
         op' \in [Id -> Ops], \A i \in Id \ {id} : op'[i] = op[i],
         UNCHANGED <<Here, lock, proc, vm, troubles>>
  PROVE  IInv'
  <2> USE <1>UntombstonedInv
  <2>1. NativeInv(id) /\ RecordInv(id) /\ marks \in [Id -> SUBSET Marks]
    BY Zenon DEF IInv, TypeOK
  <2>2. /\ marks' \in [Id -> SUBSET Marks] /\ \A i \in Id \ {id} : marks'[i] = marks[i]
        /\ marks'[id] \in {marks[id], marks[id] \cup {"deleting"}}
        /\ op'[id].pc = "kill" => "deleting" \in marks'[id]
    <3>1. CASE UNCHANGED marks /\ op'[id].pc # "kill"
      BY <2>1, <3>1, Zenon
    <3>2. CASE Mark(id, {"deleting"})
      <4>1. {"deleting"} \in SUBSET Marks
        BY Zenon DEF Marks
      <4> QED
        BY <2>1, <3>2, <4>1, <1>MarkMoves
    <3> QED
      BY <3>1, <3>2, Zenon DEF Harmless
  <2>3. TypeOK' /\ Elsewhere(id) /\ UNCHANGED commit
    BY <2>2 DEF Here, IInv, TypeOK, Elsewhere
  <2>4. NativeInv(id)' /\ RecordInv(id)' /\ (Absent(id) => Absent(id)')
    BY <2>1, <2>2, Zenon DEF Here, NativeInv, RecordInv, Absent, Populated, Identified, Tombstoned
  <2>5. StepInv(id)'
    BY <2>2, <2>4, Zenon DEF Harmless, StepInv, At
  <2> QED
    BY <2>3, <2>4, <2>5, <1>LocalStep, Zenon DEF At

\* Reclaiming under the owner lock keeps it.
<1>ReclaimInv.
  ASSUME IInv, NEW id \in Id, Reclaim(id)
  PROVE  IInv'
  <2> USE <1>ReclaimInv
  <2>1. op \in [Id -> Ops] /\ StepInv(id) /\ lock \in [Id -> {"free", "daemon", "child"}]
    BY Zenon DEF IInv, TypeOK
  <2>2. Tombstoned(id) /\ op[id].pc # "committing" /\ Reclaimed(id)
    BY <2>1 DEF Reclaim, StepInv, At
  <2>3. lock' \in [Id -> {"free", "daemon", "child"}] /\ \A i \in Id \ {id} : lock'[i] = lock[i]
    BY <2>1, Zenon DEF Reclaim, Unlocked
  <2>4. /\ op' \in [Id -> Ops] /\ \A i \in Id \ {id} : op'[i] = op[i]
        /\ \/ op'[id].pc \in {"absent", "remove"} \/ Harmless(op'[id].pc)
           \/ op'[id].pc = "settle" /\ op'[id].to # "Gone"
    <3>1. CASE Goto(id, "absent") \/ Goto(id, "confirm")
      BY <2>1, <3>1, GotoMoves DEF Pcs, Committing, Harmless
    <3>2. CASE Observed(id, "missing")
      BY <2>1, <3>2, <1>ObservedMoves
    <3> QED
      BY <3>1, <3>2, Zenon DEF Reclaim, Cleaned
  <2> QED
    BY <2>2, <2>3, <2>4, <1>FinishInv, Zenon DEF Reclaim

\* The inspections and the termination keep it: a removal follows a tombstone, or a
\* directory without an identity.
<1>InspectInv.
  ASSUME IInv, NEW id \in Id, Inspect(id) \/ Terminate(id) \/ Confirm(id)
  PROVE  IInv'
  <2> USE <1>InspectInv
  <2>1. /\ op \in [Id -> Ops] /\ op[id].pc # "committing"
        /\ lock \in [Id -> {"free", "daemon", "child"}]
    BY DEF IInv, TypeOK, Inspect, Terminate, Confirm, At
  <2>2. UNCHANGED <<Here, lock, proc, vm, troubles>>
    BY Zenon DEF Inspect, Terminate, Confirm
  <2>3. ASSUME NEW pc \in {"mark", "ask", "confirm", "kill", "remove"}, Goto(id, pc)
        PROVE  /\ op' \in [Id -> Ops] /\ \A i \in Id \ {id} : op'[i] = op[i]
               /\ op'[id].pc = pc
    BY <2>1, <2>3, GotoMoves, Zenon DEF Pcs, Committing
  <2>4. ASSUME Ends(id)
        PROVE  /\ op' \in [Id -> Ops] /\ \A i \in Id \ {id} : op'[i] = op[i]
               /\ op'[id].pc = "idle"
    BY <2>1, <2>4, Zenon DEF Ends, Idle, Ops, Pcs, States
  <2>5. ASSUME Observed(id, "missing")
        PROVE  /\ op' \in [Id -> Ops] /\ \A i \in Id \ {id} : op'[i] = op[i]
               /\ Harmless(op'[id].pc) \/ (op'[id].pc = "settle" /\ op'[id].to # "Gone")
    BY <2>1, <2>5, <1>ObservedMoves, Zenon
  <2>6. CASE Tombstoned(id)
    <3>1. \/ Reclaimed(id) /\ (Observed(id, "missing") \/ Goto(id, "confirm") \/ Goto(id, "remove"))
          \/ UNCHANGED marks /\ Ends(id)
      BY <2>6, Zenon DEF Inspect, Terminate, Confirm, FinishTombstone
    <3> QED
      BY <2>1, <2>2, <2>3, <2>4, <2>5, <2>6, <3>1, <1>FinishInv DEF Harmless
  <2>7. CASE ~Tombstoned(id)
    <3>1. \/ UNCHANGED marks /\ (\/ Ends(id) \/ Goto(id, "mark") \/ Goto(id, "ask")
                                \/ Goto(id, "confirm") \/ Observed(id, "missing"))
          \/ UNCHANGED marks /\ Goto(id, "remove") /\ ~Identified(id)
          \/ Mark(id, {"deleting"}) /\ Goto(id, "kill")
      BY <2>7 DEF Inspect, Terminate, Confirm
    <3>2. ~Identified(id) => Absent(id)
      BY <2>7, <1>UnidentifiedAbsent
    <3> QED
      BY <2>1, <2>2, <2>3, <2>4, <2>5, <3>1, <3>2, <1>UntombstonedInv DEF Harmless
  <2> QED
    BY <2>6, <2>7

(* Requests, and the supervisor process.                                   *)

\* A serving supervisor reports a state before and after a control.
<1>ControlledLive.
  ASSUME IInv, NEW id \in Id, proc[id] = "serving", NEW req
  PROVE  /\ vm[id] \in {"running", "paused", "stopped"}
         /\ Controlled(id, req) \in {"running", "paused", "stopped"}
  <2> USE <1>ControlledLive
  <2>1. vm[id] \in {"running", "paused", "stopped"}
    BY DEF IInv, TypeOK, NativeInv
  <2> QED
    BY <2>1, Zenon DEF Controlled

\* An answered request keeps it.
<1>AnswerInv.
  ASSUME IInv, NEW id \in Id, Answer(id)
  PROVE  IInv'
  <2> USE <1>AnswerInv
  <2>1. /\ op \in [Id -> Ops] /\ NativeInv(id) /\ RecordInv(id)
        /\ vm \in [Id -> {"off", "running", "paused", "stopped"}]
        /\ proc[id] = "serving" /\ op[id].pc # "committing"
    BY DEF IInv, TypeOK, Answer, Asking
  <2>2. vm[id] \in {"running", "paused", "stopped"}
        /\ Controlled(id, Requested(id)) \in {"running", "paused", "stopped"}
    BY <2>1, <1>ControlledLive
  <2>3. /\ op' \in [Id -> Ops] /\ \A i \in Id \ {id} : op'[i] = op[i]
        /\ Harmless(op'[id].pc) \/ (op'[id].pc = "settle" /\ op'[id].to # "Gone")
    <3>1. \/ Observed(id, vm[id]) \/ Settle(id, "Paused") \/ Settle(id, "Running") \/ Ends(id)
      BY Zenon DEF Answer
    <3>2. CASE Observed(id, vm[id])
      BY <2>1, <2>2, <3>2, <1>ObservedMoves
    <3>3. CASE Settle(id, "Paused") \/ Settle(id, "Running")
      BY <2>1, <3>3 DEF Settle, Ops, Pcs, Committing, States
    <3>4. CASE Ends(id)
      BY <2>1, <3>4 DEF Ends, Idle, Ops, Pcs, States, Harmless
    <3> QED
      BY <3>1, <3>2, <3>3, <3>4, Zenon
  <2>4. /\ vm' \in [Id -> {"off", "running", "paused", "stopped"}]
        /\ vm'[id] # "off" /\ \A i \in Id \ {id} : vm'[i] = vm[i]
    BY <2>1, <2>2, Zenon DEF Answer
  <2>5. TypeOK' /\ Elsewhere(id) /\ UNCHANGED commit
    BY <2>3, <2>4 DEF Answer, Here, IInv, TypeOK, Elsewhere
  <2>6. NativeInv(id)' /\ RecordInv(id)'
    BY <2>1, <2>4, Zenon DEF Answer, Here, NativeInv, RecordInv, Absent, Populated, Identified, Tombstoned
  <2>7. StepInv(id)'
    BY <2>3 DEF Harmless, StepInv, At
  <2> QED
    BY <2>1, <2>5, <2>6, <2>7, <1>LocalStep, Zenon DEF At

\* The steps of the guest and of a serving supervisor.
<1>GuestInv.
  ASSUME IInv, NEW id \in Id, ServeLate(id) \/ GuestStops(id) \/ SupervisorDies(id)
  PROVE  IInv'
  <2> USE <1>GuestInv
  <2>1. /\ StepInv(id) /\ NativeInv(id) /\ RecordInv(id)
        /\ vm \in [Id -> {"off", "running", "paused", "stopped"}]
        /\ lock \in [Id -> {"free", "daemon", "child"}]
        /\ proc \in [Id -> {"none", "forked", "entering", "entered", "supervising",
                            "starting", "serving", "dead"}]
    BY Zenon DEF IInv, TypeOK
  <2>2. /\ proc[id] \in {"starting", "serving"}
        /\ UNCHANGED <<Here, op, marks>>
        /\ troubles' \in Nat
    BY <1>TroubleCounts, Zenon DEF ServeLate, GuestStops, SupervisorDies, IInv, TypeOK
  <2>3. /\ lock' \in [Id -> {"free", "daemon", "child"}]
        /\ proc' \in [Id -> {"none", "forked", "entering", "entered", "supervising",
                            "starting", "serving", "dead"}]
        /\ \A i \in Id \ {id} : lock'[i] = lock[i] /\ proc'[i] = proc[i] /\ vm'[i] = vm[i]
    BY <2>1, Zenon DEF ServeLate, GuestStops, SupervisorDies, Unlocked
  <2>4. /\ vm' \in [Id -> {"off", "running", "paused", "stopped"}]
        /\ \/ proc'[id] = "dead"
           \/ proc'[id] = proc[id] /\ lock'[id] = lock[id] /\ vm'[id] # "off"
    BY <2>1, <1>ControlledLive, Zenon DEF ServeLate, GuestStops, SupervisorDies
  <2>5. TypeOK' /\ Elsewhere(id) /\ UNCHANGED commit
    BY <2>2, <2>3, <2>4 DEF Here, IInv, TypeOK, Elsewhere
  <2>6. StepInv(id)' /\ NativeInv(id)' /\ RecordInv(id)' /\ (Absent(id) => Absent(id)')
    BY <2>1, <2>2, <2>4, Zenon DEF Here, StepInv, NativeInv, RecordInv, Absent, At, Populated,
       Identified, Tombstoned
  <2> QED
    BY <2>2, <2>5, <2>6, <1>LocalStep, Zenon DEF At

\* From fork to service: a deletion mark or a tombstone stops the child on its way.
<1>ChildInv.
  ASSUME IInv, NEW id \in Id,
         Enter(id) \/ Join(id) \/ Supervise(id) \/ MarkStarted(id) \/ Serve(id)
  PROVE  IInv'
  <2> USE <1>ChildInv
  <2> DEFINE Procs == {"none", "forked", "entering", "entered", "supervising",
                       "starting", "serving", "dead"}
  <2>1. /\ StepInv(id) /\ NativeInv(id) /\ RecordInv(id)
        /\ marks \in [Id -> SUBSET Marks] /\ lock \in [Id -> {"free", "daemon", "child"}]
        /\ proc \in [Id -> Procs] /\ vm \in [Id -> {"off", "running", "paused", "stopped"}]
    BY Zenon DEF IInv, TypeOK
  <2>2. UNCHANGED <<Here, op, troubles>>
    BY DEF Enter, Join, Supervise, MarkStarted, Serve, Child
  <2>3. PICK to \in {"entering", "entered", "supervising", "starting", "serving", "dead"},
             held \in {"free", "daemon", "child"} :
          /\ proc' = [proc EXCEPT ![id] = to] /\ lock' = [lock EXCEPT ![id] = held]
          /\ to = "entering" => /\ proc[id] = "forked" /\ held = "child"
                                /\ marks[id] \cap {"deleting", "tombstone"} = {}
          /\ to \notin {"entering", "dead"} => Populated(id) \/ proc[id] = "entering"
          /\ to = "serving" => vm' = [vm EXCEPT ![id] = "running"]
    <3>1. lock = [lock EXCEPT ![id] = lock[id]] /\ lock[id] \in {"free", "daemon", "child"}
      BY <2>1, Zenon
    <3>2. CASE Enter(id)
      BY <2>1, <3>1, <3>2 DEF Enter, Child
    <3>3. CASE Join(id)
      BY <3>3, Zenon DEF Join, Child
    <3>4. CASE Supervise(id)
      BY <2>1, <3>1, <3>4, Zenon DEF Supervise, Child, Populated
    <3>5. CASE MarkStarted(id)
      BY <3>5, Zenon DEF MarkStarted, Child, Populated
    <3>6. CASE Serve(id)
      BY <3>1, <3>6, Zenon DEF Serve, Populated
    <3> QED
      BY <3>2, <3>3, <3>4, <3>5, <3>6, Zenon
  <2>4. /\ vm' \in [Id -> {"off", "running", "paused", "stopped"}]
        /\ \A i \in Id \ {id} : vm'[i] = vm[i]
    BY <2>1, Zenon DEF Enter, Join, Supervise, MarkStarted, Serve, Child
  <2>5. /\ marks' \in [Id -> SUBSET Marks] /\ \A i \in Id \ {id} : marks'[i] = marks[i]
        /\ marks'[id] \in {marks[id], marks[id] \cup {"started"}}
    BY <2>1, <1>MarkMoves DEF Enter, Join, Supervise, MarkStarted, Serve, Marks
  <2>6. TypeOK' /\ Elsewhere(id) /\ UNCHANGED commit
    BY <2>1, <2>2, <2>3, <2>4, <2>5, ZenonT(30) DEF Here, IInv, TypeOK, Elsewhere
  <2>7. proc'[id] = to /\ lock'[id] = held /\ proc[id] \notin {"none", "dead"}
    BY <2>1, <2>3 DEF Enter, Join, Supervise, MarkStarted, Serve
  <2>8. NativeInv(id)' /\ RecordInv(id)' /\ (Absent(id) => Absent(id)')
    BY <2>1, <2>2, <2>3, <2>5, <2>7, Zenon DEF Here, NativeInv, RecordInv, Absent, Populated,
       Identified, Tombstoned
  <2>9. StepInv(id)'
    BY <2>1, <2>2, <2>5, <2>7, <2>8, Zenon DEF Here, StepInv, At, Identified, Tombstoned
  <2> QED
    BY <2>2, <2>6, <2>7, <2>8, <2>9, <1>LocalStep, Zenon DEF At

(* The daemon process and the machine.                                     *)

\* A record of `Visible` is the one on disk or the one being committed.
<1>VisibleRecords.
  ASSUME IInv, NEW d \in Visible
  PROVE  d \in [Id -> Records] /\ \A id \in Id : d[id] = Gone => Absent(id)
  <2> USE <1>VisibleRecords
  <2>1. disk \in [Id -> Records] /\ \A id \in Id : disk[id] = Gone => Absent(id)
    BY Zenon DEF IInv, TypeOK, RecordInv
  <2>2. \A c \in commit : c.id \in Id /\ c.rec \in Records /\ (c.rec = Gone => Absent(c.id))
    BY DEF IInv, TypeOK, CommitInv
  <2>3. CASE d = disk
    BY <2>1, <2>3
  <2>4. ASSUME NEW c \in commit, d = [disk EXCEPT ![c.id] = c.rec]
        PROVE  d \in [Id -> Records] /\ \A id \in Id : d[id] = Gone => Absent(id)
    BY <2>1, <2>2, <2>4
  <2> QED
    BY <2>3, <2>4, Zenon DEF Visible

\* What a stopped daemon leaves behind satisfies the invariant when the records
\* that are gone belong to absent sandboxes.
<1>DownInv.
  ASSUME IInv, Down, troubles' \in Nat, UNCHANGED marks,
         disk' \in [Id -> Records], synced' \in [Id -> Records],
         \A id \in Id : disk'[id] = Gone \/ synced'[id] = Gone => Absent(id),
         lock' \in [Id -> {"free", "daemon", "child"}],
         vm' \in [Id -> {"off", "running", "paused", "stopped"}],
         proc' \in [Id -> {"none", "forked", "entering", "entered", "supervising",
                          "starting", "serving", "dead"}],
         \A id \in Id :
            \/ /\ proc'[id] = proc[id] /\ vm'[id] = vm[id]
               /\ lock[id] = "child" => lock'[id] = "child"
            \/ proc'[id] = IF proc[id] = "none" THEN "none" ELSE "dead"
  PROVE  IInv'
  <2> USE <1>DownInv
  <2>1. /\ op' \in [Id -> Ops] /\ commit' = {}
        /\ \A id \in Id : op'[id].pc \in {"fresh", "idle"} /\ (At(id, "fresh")' => At(id, "fresh"))
    <3>1. Fresh \in Ops /\ Idle \in Ops /\ Fresh.pc = "fresh" /\ Idle.pc = "idle"
      BY Zenon DEF Fresh, Idle, Ops, Pcs, States
    <3> QED
      BY <3>1 DEF Down, At
  <2>2. TypeOK'
    <3>1. Gone \in Records
      BY Zenon DEF Gone, Records, States
    <3> QED
      BY <2>1, <3>1, Zenon DEF Down, IInv, TypeOK
  <2>3. ASSUME NEW id \in Id PROVE StepInv(id)' /\ NativeInv(id)' /\ RecordInv(id)'
    <3>1. StepInv(id) /\ NativeInv(id)
      BY Zenon DEF IInv
    <3>2. RecordInv(id)'
      BY Zenon DEF RecordInv, Absent, Populated, Identified, Tombstoned
    <3>3. NativeInv(id)'
      BY <3>1 DEF NativeInv, Populated, Identified, Tombstoned
    <3>4. StepInv(id)'
      BY <2>1, <3>1, Zenon DEF StepInv, At
    <3> QED
      BY <3>2, <3>3, <3>4, Zenon
  <2> QED
    BY <2>1, <2>2, <2>3, Zenon DEF IInv

\* The invariant speaks of the stored records, the operations and the native state
\* only: a step that leaves these alone keeps it.
<1>Untouched.
  ASSUME IInv, TypeOK', UNCHANGED <<disk, synced, commit, op, native>>
  PROVE  IInv'
  <2> USE <1>Untouched
  <2>1. UNCHANGED <<disk, synced, commit, op, marks, lock, proc, vm>>
    BY DEF native
  <2>2. ASSUME NEW id \in Id PROVE StepInv(id)' /\ NativeInv(id)' /\ RecordInv(id)'
    <3>1. StepInv(id) /\ NativeInv(id) /\ RecordInv(id)
      BY DEF IInv
    <3>2. StepInv(id)'
      BY <2>1, <3>1, Zenon DEF StepInv, Absent, At, Populated, Identified, Tombstoned
    <3>3. NativeInv(id)'
      BY <2>1, <3>1, Zenon DEF NativeInv, Absent, Populated, Identified, Tombstoned
    <3>4. RecordInv(id)'
      BY <2>1, <3>1, Zenon DEF RecordInv, Absent, Populated, Identified, Tombstoned
    <3> QED
      BY <3>2, <3>3, <3>4
  <2>3. ASSUME NEW c \in commit PROVE CommitInv(c)'
    BY <2>1, Zenon DEF IInv, CommitInv, Absent, Populated, Identified, Tombstoned
  <2> QED
    BY <2>1, <2>2, <2>3, Zenon DEF IInv

\* The end of the daemon, a power loss, a restart and the clock keep it.
<1>MachineInv.
  ASSUME IInv, Stop \/ PowerLoss \/ Open \/ Tick
  PROVE  IInv'
  <2> USE <1>MachineInv
  <2>1. TypeOK /\ synced \in [Id -> Records]
        /\ \A id \in Id : synced[id] = Gone => Absent(id)
    BY Zenon DEF IInv, TypeOK, RecordInv
  <2>2. CASE Stop
    <3>1. troubles' \in Nat
      BY <2>1, <2>2, <1>TroubleCounts, Zenon DEF Stop, TypeOK
    <3>2. disk' \in [Id -> Records] /\ \A id \in Id : disk'[id] = Gone => Absent(id)
      BY <2>2, <1>VisibleRecords, Zenon DEF Stop
    <3>3. /\ lock' \in [Id -> {"free", "daemon", "child"}]
          /\ \A id \in Id : lock[id] = "child" => lock'[id] = "child"
      BY <2>1, <2>2, Zenon DEF Stop, TypeOK
    <3> QED
      BY <2>1, <2>2, <3>1, <3>2, <3>3, <1>DownInv, Zenon DEF Stop, TypeOK
  <2>3. CASE PowerLoss
    <3>1. troubles' \in Nat
      BY <2>1, <2>3, <1>TroubleCounts DEF PowerLoss, TypeOK
    <3>2. PICK d \in Visible, kept \in SUBSET Id :
            disk' = [id \in Id |-> IF id \in kept THEN d[id] ELSE synced[id]]
      <4>1. disk' \in {[id \in Id |-> IF id \in kept THEN d[id] ELSE synced[id]] :
                          d \in Visible, kept \in SUBSET Id}
        BY <2>3, SMTT(30) DEF PowerLoss
      <4> QED
        BY <4>1, Zenon, Z3T(30)
    <3>3. disk' \in [Id -> Records] /\ \A id \in Id : disk'[id] = Gone => Absent(id)
      BY <2>1, <3>2, <1>VisibleRecords, Zenon
    <3>4. /\ lock' \in [Id -> {"free", "daemon", "child"}]
          /\ vm' \in [Id -> {"off", "running", "paused", "stopped"}]
          /\ proc' \in [Id -> {"none", "forked", "entering", "entered", "supervising",
                              "starting", "serving", "dead"}]
      BY <2>3, Zenon DEF PowerLoss
    <3>5. Down /\ UNCHANGED marks /\ synced' = disk'
      BY <2>3 DEF PowerLoss
    <3>6. \A id \in Id : proc'[id] = IF proc[id] = "none" THEN "none" ELSE "dead"
      BY <2>3 DEF PowerLoss
    <3> QED
      BY <3>1, <3>3, <3>4, <3>5, <3>6, <1>DownInv, Zenon
  <2>4. CASE Open \/ Tick
    <3>1. TypeOK'
      <4>1. now' \in Nat
        BY <2>1, <2>4 DEF Open, Tick, TypeOK
      <4>2. up' \in BOOLEAN /\ failed' \in BOOLEAN /\ memory' \in [Id -> Records]
        BY <2>1, <2>4, Zenon DEF Open, Tick, TypeOK, store
      <4> QED
        BY <2>1, <2>4, <4>1, <4>2, Zenon DEF Open, Tick, TypeOK, store, native
    <3>2. UNCHANGED <<disk, synced, commit, op, native>>
      BY <2>4 DEF Open, Tick, store
    <3> QED
      BY <3>1, <3>2, <1>Untouched, Zenon
  <2> QED
    BY <2>2, <2>3, <2>4, Zenon

<1> SUFFICES ASSUME LoadOK, IInv, [Next]_<<load, vars>> PROVE IInv'
  OBVIOUS
<1>1. CASE UNCHANGED vars
  <2>1. TypeOK'
    BY <1>1, Zenon DEF vars, IInv, TypeOK
  <2>2. UNCHANGED <<disk, synced, commit, op, native>>
    BY <1>1, Zenon DEF vars, native
  <2> QED
    BY <2>1, <2>2, <1>Untouched, Zenon
<1>2. ASSUME NEW id \in Id, Request(id) PROVE IInv'
  BY <1>2, RequestCases, <1>AdmitInv, <1>BeginInv
<1>3. ASSUME NEW id \in Id, Scan(id) \/ Cleanup(id) PROVE IInv'
  BY <1>3, <1>BeginInv, Zenon
<1>4. ASSUME NEW id \in Id, Step(id) PROVE IInv'
  BY <1>4, <1>UpdateInv, <1>CommitEnds, <1>CreationInv, <1>AnsweredInv, <1>CleanupInv,
     <1>ReclaimInv,
     <1>InspectInv, <1>AnswerInv, Zenon DEF Step
<1>5. ASSUME NEW id \in Id, StepFails(id) PROVE IInv'
  BY <1>5, <1>CommitEnds, <1>CreationInv, <1>AnsweredInv, <1>CleanupInv, Zenon DEF StepFails
<1>6. ASSUME NEW id \in Id, Supervisor(id) \/ GuestStops(id) \/ SupervisorDies(id)
      PROVE  IInv'
  BY <1>6, <1>ChildInv, <1>GuestInv DEF Supervisor
<1>7. CASE Stop \/ PowerLoss \/ Open \/ Tick
  BY <1>7, <1>MachineInv
<1> QED
  BY <1>1, <1>2, <1>3, <1>4, <1>5, <1>6, <1>7 DEF Next

\* The inductive invariant: types, the single commit, and for each sandbox the
\* agreement of records, operation, marker files, lock and process.
THEOREM DaemonInvariant == Spec => []IInv
<1> QED
  BY InitInv, NextInv, LoadFixed, PTL DEF Spec

\* A sandbox whose record is gone has no process, cannot get one from a child that
\* is still on its way to exec, and has been reclaimed (delete_locked,
\* create_admitted), whatever fails and whenever the daemon or the machine stops.
THEOREM AbsenceAlwaysProven == Spec => []AbsenceProven
<1>1. IInv => AbsenceProven
  BY DEF IInv, RecordInv, AbsenceProven, Absent
<1> QED
  BY <1>1, DaemonInvariant, PTL

\* A daemon that serves calls sees the records that are on disk: a commit whose
\* outcome is unknown stops it until it is restarted (update).
THEOREM ViewCommitted == Spec => []CommittedView
<1>1. Init => CommittedView
  BY Zenon DEF Init, CommittedView
<1>2. IInv /\ CommittedView /\ [Next]_<<load, vars>> => CommittedView'
  <2> SUFFICES ASSUME IInv, CommittedView, [Next]_<<load, vars>>, Serving'
               PROVE  memory' = disk'
    BY Zenon DEF CommittedView
  <2>1. CASE Stop \/ PowerLoss
    BY <2>1 DEF Stop, PowerLoss, Down, Serving
  <2>2. CASE Open
    BY <2>2 DEF Open
  <2>3. ASSUME NEW c \in commit, Lands(c) PROVE memory' = disk'
    BY <2>3, Zenon DEF Lands, Serving, CommittedView
  <2>4. ASSUME NEW c \in commit, CommitUnknown(c) PROVE FALSE
    BY <2>4 DEF CommitUnknown, Serving
  <2>5. CASE UNCHANGED <<up, failed, memory, disk>>
    BY <2>5 DEF Serving, CommittedView
  <2>6. ASSUME NEW id \in Id, Request(id) \/ Scan(id) \/ Cleanup(id)
        PROVE  UNCHANGED <<up, failed, memory, disk>>
    BY <2>6, Zenon DEF Request, Create, Renew, Get, Controls, Delete, Scan, Cleanup, store
  <2>7. ASSUME NEW id \in Id, Step(id), ~\E c \in commit : Lands(c)
        PROVE  UNCHANGED <<up, failed, memory, disk>>
    BY <2>7, Zenon DEF Step, Update, UpdateRefused, Prepare, Rollback, Spawn, Ready, NotReady,
       MarkDeleting, Kill, Tombstone, Reclaim, Inspect, Terminate, Confirm, Answer,
       Unanswered, Here, store
  <2>8. ASSUME NEW id \in Id, StepFails(id), ~\E c \in commit : CommitUnknown(c)
        PROVE  UNCHANGED <<up, failed, memory, disk>>
    BY <2>8 DEF StepFails, BudgetRejected, PrepareFails, SpawnFails, CleanupFails,
       LostAnswer, Here, store
  <2>9. ASSUME NEW id \in Id, Supervisor(id) \/ GuestStops(id) \/ SupervisorDies(id)
        PROVE  UNCHANGED <<up, failed, memory, disk>>
    BY <2>9, Zenon DEF Supervisor, Enter, Join, Supervise, MarkStarted, Serve, ServeLate, Child,
       GuestStops, SupervisorDies, Here
  <2>10. CASE Tick
    BY <2>10, <2>5, Zenon DEF Tick, store
  <2>11. CASE UNCHANGED vars
    BY <2>11, <2>5 DEF vars
  <2> QED
    BY <2>1, <2>2, <2>3, <2>4, <2>5, <2>6, <2>7, <2>8, <2>9, <2>10, <2>11 DEF Next
<1> QED
  BY <1>1, <1>2, DaemonInvariant, PTL DEF Spec

-----------------------------------------------------------------------------
(* Capacity.  A sandbox occupies the node from its admission until its     *)
(* last process is gone or fenced off.                                     *)

\* It has a process, or a child that nothing keeps from becoming one.
Runs(id) ==
    \/ Populated(id) \/ proc[id] = "entering"
    \/ proc[id] = "forked" /\ "deleting" \notin marks[id]

Spawning(id) == op[id].pc \in {"prepare", "spawn"}
Admitting(id) == \E c \in commit : c.id = id /\ c.next = "prepare"
Occupies(id) == Runs(id) \/ Spawning(id) \/ Admitting(id)
Occupants == {id \in Id : Occupies(id)}

\* No step but the admission lets a sandbox occupy the node anew.
Kept == \A id \in Id : Occupies(id)' => Occupies(id)

\* While nothing is being committed, an occupant has its record on disk.
LEMMA OccupantsRecorded ==
  ASSUME IInv, commit = {}, NEW id \in Occupants
  PROVE  disk[id] # Gone
BY Zenon DEF IInv, Occupants, Occupies, Runs, Spawning, Admitting, StepInv, RecordInv, Absent

\* A step that leaves processes and marks alone, starts no commit of an admission
\* and takes the operation anywhere but to the preparation.
LEMMA QuietKept ==
  ASSUME NEW id \in Id, UNCHANGED <<marks, proc>>,
         \A i \in Id \ {id} : op'[i] = op[i], op'[id].pc \notin {"prepare", "spawn"},
         \A c \in commit' : c.next = "prepare" => c \in commit
  PROVE  Kept
BY Zenon DEF Kept, Occupies, Runs, Spawning, Admitting, Populated

\* Requests other than creation, and the maintenance scan, add no occupant.
LEMMA RequestKept ==
  ASSUME IInv, NEW id \in Id,
         \/ \E until \in Nat : Renew(id, until)
         \/ Get(id) \/ Controls(id, "pause") \/ Controls(id, "resume") \/ Delete(id)
         \/ Scan(id) \/ Cleanup(id)
  PROVE  Kept
<1>1. op \in [Id -> Ops]
  BY DEF IInv, TypeOK
<1>2. CASE Scan(id)
  BY <1>2, Zenon DEF Scan, native, Kept, Occupies, Runs, Spawning, Admitting, Populated
<1>0. ASSUME NEW kind, NEW step, step \notin {"prepare", "spawn"}, Starts(id, kind, step),
             UNCHANGED <<commit, native>>
      PROVE  Kept
  <2>1. op'[id].pc = step /\ \A i \in Id \ {id} : op'[i] = op[i]
    BY <1>0, <1>1 DEF Starts
  <2>2. UNCHANGED <<marks, proc>> /\ commit' = commit
    BY <1>0, Zenon DEF native
  <2> QED
    BY <1>0, <2>1, <2>2, QuietKept, Zenon
<1>3. ASSUME NEW until \in Nat, Renew(id, until) PROVE Kept
  BY <1>1, <1>3, QuietKept DEF Renew, Held, Starts, native
<1>4. CASE Get(id)
  <2>1. Starts(id, "get", "inspect") /\ UNCHANGED <<commit, native>>
    BY <1>4, Zenon DEF Get
  <2> QED
    BY <1>0, <2>1
<1>5. CASE Controls(id, "pause") \/ Controls(id, "resume")
  <2>1. PICK kind \in {"pause", "resume"} :
             Starts(id, kind, "inspect") /\ UNCHANGED <<commit, native>>
    BY <1>5, Zenon DEF Controls
  <2> QED
    BY <1>0, <2>1
<1>6. CASE Delete(id)
  <2>1. Starts(id, "delete", "stopping") /\ UNCHANGED <<commit, native>>
    BY <1>6, Zenon DEF Delete
  <2> QED
    BY <1>0, <2>1
<1>7. CASE Cleanup(id)
  BY <1>1, <1>7, QuietKept DEF Cleanup, Starts, At, native
<1> QED
  BY <1>2, <1>3, <1>4, <1>5, <1>6, <1>7, Zenon

\* A commit adds no occupant: an admission occupies the node since it took the lock.
LEMMA CommitKept ==
  ASSUME IInv, NEW id \in Id,
         \/ Update(id) \/ UpdateRefused(id)
         \/ \E c \in commit : Lands(c) \/ BudgetRejected(c) \/ CommitUnknown(c)
  PROVE  Kept
<1>1. op \in [Id -> Ops]
  BY DEF IInv, TypeOK
<1>2. CASE Update(id)
  <2>1. Change(id).next # "prepare"
    BY <1>2, Zenon DEF Update, Change, At, Committing
  <2> QED
    BY <1>1, <1>2, <2>1, QuietKept, SMTT(30), Z3T(30) DEF Update, Held, Goto, Ops, native
<1>3. CASE UpdateRefused(id)
  BY <1>1, <1>3, QuietKept DEF UpdateRefused, Ends, Idle, native
<1>4. ASSUME NEW c \in commit, Lands(c) \/ BudgetRejected(c) \/ CommitUnknown(c)
      PROVE  Kept
  <2>1. c.id \in Id /\ commit' \subseteq commit /\ UNCHANGED <<marks, proc>>
    BY <1>4, Zenon DEF Lands, BudgetRejected, CommitUnknown, IInv, TypeOK, native
  <2>2. \A i \in Id \ {c.id} : op'[i] = op[i]
    BY <1>1, <1>4, <2>1, Zenon DEF Lands, BudgetRejected, CommitUnknown, After, Ends, Goto
  <2>3. c.next \in {"idle", "request", "terminate", "prepare"}
    BY Zenon DEF IInv, TypeOK
  <2>4. Spawning(c.id)' => Admitting(c.id)
    BY <1>1, <1>4, <2>1, <2>3 DEF Lands, BudgetRejected, CommitUnknown, After, Ends, Goto,
       Idle, Ops, Spawning, Admitting
  <2> QED
    BY <2>1, <2>2, <2>4, Zenon DEF Kept, Occupies, Runs, Spawning, Admitting, Populated
<1> QED
  BY <1>2, <1>3, <1>4, Zenon

\* A step of one sandbox adds no occupant when it does not make that one an occupant.
LEMMA NativeKept ==
  ASSUME NEW id \in Id, UNCHANGED commit,
         \A i \in Id \ {id} : op'[i] = op[i] /\ marks'[i] = marks[i] /\ proc'[i] = proc[i],
         Spawning(id)' => Spawning(id), Runs(id)' => Occupies(id)
  PROVE  Kept
BY Zenon DEF Kept, Occupies, Runs, Spawning, Admitting, Populated

\* The steps of a creation add no occupant.
LEMMA CreationKept ==
  ASSUME IInv, NEW id \in Id,
         \/ Prepare(id) \/ PrepareFails(id) \/ Rollback(id) \/ Spawn(id) \/ SpawnFails(id)
         \/ Ready(id) \/ NotReady(id) \/ Unanswered(id) \/ LostAnswer(id)
  PROVE  Kept
<1>1. op \in [Id -> Ops] /\ marks \in [Id -> SUBSET Marks] /\ StepInv(id)
      /\ proc \in [Id -> {"none", "forked", "entering", "entered", "supervising",
                          "starting", "serving", "dead"}]
  BY DEF IInv, TypeOK
<1>2. CASE Prepare(id) \/ PrepareFails(id) \/ Rollback(id)
  <2>1. /\ proc[id] = "none" /\ proc' = proc /\ commit' = commit
        /\ \A i \in Id \ {id} : op'[i] = op[i] /\ marks'[i] = marks[i]
    BY <1>1, <1>2 DEF Prepare, PrepareFails, Rollback, Goto, Mark, Here, StepInv, At
  <2>2. Spawning(id)' => Spawning(id)
    BY <1>1, <1>2 DEF Prepare, PrepareFails, Rollback, Goto, Ops, At, Spawning
  <2>3. ~Runs(id)'
    BY <2>1, Zenon DEF Runs, Populated
  <2> QED
    BY <2>1, <2>2, <2>3, NativeKept, Zenon
<1>3. CASE Spawn(id)
  <2>1. /\ commit' = commit /\ Spawning(id)
        /\ \A i \in Id \ {id} : op'[i] = op[i] /\ marks'[i] = marks[i] /\ proc'[i] = proc[i]
    BY <1>1, <1>3 DEF Spawn, Goto, Here, At, Spawning
  <2> QED
    BY <2>1, NativeKept, Zenon DEF Occupies
<1>4. CASE SpawnFails(id)
  BY <1>1, <1>4, QuietKept DEF SpawnFails, Goto, Here, native, Ops
<1>5. CASE Ready(id)
  BY <1>1, <1>5, QuietKept DEF Ready, Goto, Here, native, Ops
<1>6. CASE NotReady(id)
  BY <1>1, <1>6, QuietKept DEF NotReady, Goto, Here, native, Ops
<1>7. CASE Unanswered(id) \/ LostAnswer(id)
  <2>1. Ends(id) /\ UNCHANGED <<commit, marks, proc>>
    BY <1>7, Zenon DEF Unanswered, LostAnswer, Here, native
  <2>2. (\A i \in Id \ {id} : op'[i] = op[i]) /\ op'[id].pc = "idle"
    BY <1>1, <2>1 DEF Ends, Idle
  <2> QED
    BY <2>1, <2>2, QuietKept, Zenon
<1> QED
  BY <1>2, <1>3, <1>4, <1>5, <1>6, <1>7, Zenon

\* Cleaning up and inspecting add no occupant: deletion marks are never taken back.
LEMMA CleanupKept ==
  ASSUME IInv, NEW id \in Id,
         \/ MarkDeleting(id) \/ Kill(id) \/ Tombstone(id) \/ Reclaim(id) \/ CleanupFails(id)
         \/ Inspect(id) \/ Terminate(id) \/ Confirm(id) \/ Answer(id)
  PROVE  Kept
<1>1. /\ op \in [Id -> Ops] /\ marks \in [Id -> SUBSET Marks]
      /\ proc \in [Id -> {"none", "forked", "entering", "entered", "supervising",
                          "starting", "serving", "dead"}]
  BY Zenon DEF IInv, TypeOK
<1>2. /\ commit' = commit
      /\ \A i \in Id \ {id} : proc'[i] = proc[i]
      /\ proc'[id] \in {proc[id], "dead"}
  BY <1>1, Zenon DEF MarkDeleting, Kill, Tombstone, Reclaim, CleanupFails, Inspect, Terminate,
     Confirm, Answer, Here
<1>3. /\ \A i \in Id \ {id} : marks'[i] = marks[i]
      /\ "deleting" \in marks[id] => "deleting" \in marks'[id]
  BY <1>1, Zenon DEF MarkDeleting, Kill, Tombstone, Reclaim, CleanupFails, Inspect, Terminate,
     Confirm, Answer, FinishTombstone, Reclaimed, Mark
<1>4. op'[id].pc \notin {"prepare", "spawn"} /\ \A i \in Id \ {id} : op'[i] = op[i]
  <2>1. CASE Kill(id)
    BY <2>1, Zenon DEF Kill, At
  <2>2. ASSUME NEW pc \in Pcs \ {"prepare", "spawn"}, Goto(id, pc)
        PROVE  op'[id].pc \notin {"prepare", "spawn"} /\ \A i \in Id \ {id} : op'[i] = op[i]
    BY <1>1, <2>2, GotoMoves, Zenon
  <2>3. CASE Ends(id)
    BY <1>1, <2>3 DEF Ends, Idle
  <2>4. ASSUME NEW to, Settle(id, to)
        PROVE  op'[id].pc \notin {"prepare", "spawn"} /\ \A i \in Id \ {id} : op'[i] = op[i]
    BY <1>1, <2>4 DEF Settle, Ops
  <2>5. ASSUME NEW st, Observed(id, st)
        PROVE  op'[id].pc \notin {"prepare", "spawn"} /\ \A i \in Id \ {id} : op'[i] = op[i]
    BY <2>2, <2>3, <2>4, <2>5 DEF Observed, Pcs, Committing
  <2> QED
    BY <2>1, <2>2, <2>3, <2>4, <2>5 DEF MarkDeleting, Tombstone, Reclaim, CleanupFails,
       Inspect, Terminate, Confirm, Answer, FinishTombstone, Cleaned, Unclean, Pcs, Committing
<1>5. Runs(id)' => Runs(id)
  BY <1>2, <1>3, Zenon DEF Runs, Populated
<1> QED
  BY <1>2, <1>3, <1>4, <1>5, NativeKept, Zenon DEF Spawning, Occupies

\* The supervisor adds no occupant: a child that a deletion mark fences stays out.
LEMMA SupervisorKept ==
  ASSUME IInv, NEW id \in Id, Supervisor(id) \/ GuestStops(id) \/ SupervisorDies(id)
  PROVE  Kept
<1>1. /\ marks \in [Id -> SUBSET Marks]
      /\ proc \in [Id -> {"none", "forked", "entering", "entered", "supervising",
                          "starting", "serving", "dead"}]
  BY DEF IInv, TypeOK
<1>2. UNCHANGED <<commit, op>> /\ \A i \in Id \ {id} : proc'[i] = proc[i]
  BY <1>1, Zenon DEF Supervisor, Enter, Join, Supervise, MarkStarted, Serve, ServeLate, Child,
     GuestStops, SupervisorDies, Here
<1>3. /\ \A i \in Id \ {id} : marks'[i] = marks[i]
      /\ "deleting" \in marks[id] => "deleting" \in marks'[id]
  BY <1>1 DEF Supervisor, Enter, Join, Supervise, MarkStarted, Serve, ServeLate, Mark,
     GuestStops, SupervisorDies
<1>4. Runs(id)' => Runs(id)
  BY <1>1, <1>3, Zenon DEF Supervisor, Enter, Join, Supervise, MarkStarted, Serve, ServeLate, Child,
     GuestStops, SupervisorDies, Runs, Populated
<1> QED
  BY <1>2, <1>3, <1>4, NativeKept, Zenon DEF Spawning, Occupies

\* Stops, power losses and restarts add no occupant, whatever records reappear.
LEMMA MachineKept ==
  ASSUME IInv, Stop \/ PowerLoss \/ Open \/ Tick
  PROVE  Kept
<1>1. CASE Stop \/ PowerLoss
  <2>1. commit' = {} /\ UNCHANGED marks /\ \A id \in Id : ~Spawning(id)'
    <3>1. Down /\ UNCHANGED marks
      BY <1>1 DEF Stop, PowerLoss
    <3> QED
      BY <3>1, Zenon DEF Down, Spawning, Fresh, Idle
  <2>2. \A id \in Id : proc'[id] \in {proc[id], "none", "dead"}
    <3>1. \/ proc' = proc
          \/ proc' = [id \in Id |-> IF proc[id] = "none" THEN "none" ELSE "dead"]
      <4>1. CASE Stop
        BY <4>1, Zenon DEF Stop
      <4>2. CASE PowerLoss
        BY <4>2, Zenon DEF PowerLoss
      <4> QED
        BY <1>1, <4>1, <4>2, Zenon
    <3> QED
      BY <3>1
  <2> QED
    BY <2>1, <2>2, Zenon DEF Kept, Occupies, Runs, Admitting, Populated
<1>2. CASE Open \/ Tick
  BY <1>2, Zenon DEF Open, Tick, native, Kept, Occupies, Runs, Spawning, Admitting, Populated
<1> QED
  BY <1>1, <1>2, Zenon

\* An admission adds its own sandbox and no other.
LEMMA CreateAdds ==
  ASSUME IInv, NEW id \in Id, NEW until, Create(id, until)
  PROVE  Occupants' \subseteq Occupants \cup {id}
<1>1. op \in [Id -> Ops]
  BY Zenon DEF IInv, TypeOK
<1>2. UNCHANGED <<marks, proc>> /\ \A i \in Id \ {id} : op'[i] = op[i]
  BY <1>1, Zenon DEF Create, Starts, native
<1>3. \A c \in commit' : c.id = id
  BY DEF Create, Held
<1> QED
  BY <1>2, <1>3, Zenon DEF Occupants, Occupies, Runs, Spawning, Admitting, Populated

\* The sandboxes on the node are within max_sandboxes at every moment: an admission
\* counts the committed records while it holds `commits`, and a record outlives
\* everything that runs on its behalf (create_admitted, delete_locked).
THEOREM CapacityAlwaysHeld == Spec => []CapacityHeld
<1> DEFINE Fits == Cardinality(Occupants) <= MaxSandboxes
<1>1. IsFiniteSet(Occupants) /\ Cardinality(Occupants) \in Nat
  BY IdAssumption, FS_Subset, FS_CardinalityType, Zenon DEF Occupants
<1>2. Init => Fits
  <2> SUFFICES ASSUME Init PROVE Fits
    BY Zenon
  <2>1. Occupants = {}
    BY Zenon DEF Init, Occupants, Occupies, Runs, Spawning, Admitting, Populated, Fresh, Idle
  <2> QED
    BY <2>1, FS_EmptySet, LoadTypes DEF Init
<1>3. LoadOK /\ IInv /\ CommittedView /\ Fits /\ [Next]_<<load, vars>> => Fits'
  <2> SUFFICES ASSUME LoadOK, IInv, CommittedView, Fits, [Next]_<<load, vars>> PROVE Fits'
    OBVIOUS
  <2>0. MaxSandboxes \in Nat /\ MaxSandboxes' = MaxSandboxes
    BY LoadTypes, Zenon DEF LoadOK, Next, MaxSandboxes
  <2>1. ASSUME Kept PROVE Fits'
    <3>1. Occupants' \subseteq Occupants
      BY <2>1, Zenon DEF Kept, Occupants
    <3>2. Cardinality(Occupants') <= Cardinality(Occupants) /\ Cardinality(Occupants') \in Nat
      BY <1>1, <3>1, FS_Subset, FS_CardinalityType, Zenon
    <3> QED
      BY <1>1, <2>0, <3>2
  <2>2. ASSUME NEW id \in Id, NEW until \in Nat, Create(id, until) PROVE Fits'
    <3>1. /\ commit = {} /\ memory = disk
          /\ Cardinality(HoldsCapacity) < MaxSandboxes
      BY <2>2, Zenon DEF Create, CommittedView
    <3>2. Occupants \subseteq HoldsCapacity
      BY <3>1, OccupantsRecorded, Zenon DEF HoldsCapacity, Present, Occupants
    <3>3. IsFiniteSet(HoldsCapacity) /\ Cardinality(HoldsCapacity) \in Nat
      BY IdAssumption, FS_Subset, FS_CardinalityType DEF HoldsCapacity
    <3>4. Cardinality(Occupants) <= Cardinality(HoldsCapacity)
      BY <3>2, <3>3, FS_Subset, Zenon
    <3>5. /\ IsFiniteSet(Occupants \cup {id})
          /\ Cardinality(Occupants \cup {id}) <= Cardinality(Occupants) + 1
      <4>1. IsFiniteSet(Occupants \cup {id})
        BY <1>1, FS_AddElement, Zenon
      <4>2. Cardinality(Occupants \cup {id}) =
              IF id \in Occupants THEN Cardinality(Occupants) ELSE Cardinality(Occupants) + 1
        BY <1>1, FS_AddElement, Zenon
      <4> QED
        BY <1>1, <4>1, <4>2
    <3>6. /\ Cardinality(Occupants') <= Cardinality(Occupants \cup {id})
          /\ Cardinality(Occupants \cup {id}) \in Nat
      BY <2>2, <3>5, CreateAdds, FS_Subset, FS_CardinalityType, Zenon
    <3>7. Cardinality(Occupants') \in Nat
      BY <2>2, <3>5, CreateAdds, FS_Subset, FS_CardinalityType, Zenon
    <3> QED
      BY <1>1, <3>1, <3>3, <3>4, <3>5, <3>6, <3>7, <2>0
  <2>3. ASSUME NEW id \in Id, Request(id) PROVE Fits'
    BY <2>1, <2>2, <2>3, RequestCases, RequestKept
  <2>4. ASSUME NEW id \in Id, Scan(id) \/ Cleanup(id) PROVE Kept
    BY <2>4, RequestKept, Zenon
  <2>5. ASSUME NEW id \in Id, Step(id) \/ StepFails(id) PROVE Kept
    BY <2>5, CommitKept, CreationKept, CleanupKept DEF Step, StepFails
  <2>6. ASSUME NEW id \in Id, Supervisor(id) \/ GuestStops(id) \/ SupervisorDies(id)
        PROVE  Kept
    BY <2>6, SupervisorKept
  <2>7. CASE Stop \/ PowerLoss \/ Open \/ Tick
    BY <2>1, <2>7, MachineKept, Zenon
  <2>8. CASE UNCHANGED vars
    BY <2>1, <2>8, Zenon DEF vars, Kept, Occupies, Runs, Spawning, Admitting, Populated
  <2> HIDE DEF Fits
  <2> QED
    BY <2>1, <2>3, <2>4, <2>5, <2>6, <2>7, <2>8 DEF Next
<1>4. LoadOK /\ Fits => CapacityHeld
  <2> SUFFICES ASSUME LoadOK, Fits PROVE CapacityHeld
    BY Zenon
  <2> DEFINE Live == {id \in Id : Populated(id) \/ proc[id] = "entering"}
  <2>1. Live \subseteq Occupants
    BY Zenon DEF Occupants, Occupies, Runs
  <2>2. Cardinality(Live) <= Cardinality(Occupants) /\ Cardinality(Live) \in Nat
    BY <1>1, <2>1, FS_Subset, FS_CardinalityType
  <2> QED
    BY <1>1, <2>2, LoadTypes DEF LoadOK, CapacityHeld
<1> HIDE DEF Fits
<1> QED
  BY <1>2, <1>3, <1>4, LoadFixed, DaemonInvariant, ViewCommitted, PTL DEF Spec
=============================================================================
