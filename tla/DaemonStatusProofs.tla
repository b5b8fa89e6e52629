-------------------------- MODULE DaemonStatusProofs --------------------------
(***************************************************************************)
(* Proofs about what the records of the sandbox daemon say: between        *)
(* operations a status Running or Paused is that of the live VM, and a     *)
(* deletion intent is never withdrawn.                                     *)
(*                                                                         *)
(* Neither follows from the record in memory alone.  A record can be on    *)
(* disk, durable or on its way there, and a restart makes any of these the *)
(* one that the next operation reads, so the invariant is about all three, *)
(* and about what the operation that holds the gate is about to commit.    *)
(***************************************************************************)
EXTENDS DaemonProofs

\* The VM can be what a record with status st says: while the status is Running
\* or Paused no request is left in the supervisor's socket that could change it.
Fits(id, st) ==
    /\ st \in {"Running", "Paused", "Pausing", "Resuming"} => proc[id] \in {"serving", "dead"}
    /\ st \in {"Running", "Paused"} =>
         /\ late[id] = <<>>
         /\ proc[id] = "serving" =>
              vm[id] \in {"stopped", IF st = "Running" THEN "running" ELSE "paused"}

\* The records on disk, as a process and as a power loss finds them.
StatusInv(id) ==
    /\ Fits(id, disk[id].state) /\ Fits(id, synced[id].state)
    /\ synced[id].state = "Stopping" => disk[id].state \in {"Stopping", "Gone"}

Creating == {"prepare", "rollback", "spawn", "ready", "created", "unsure"}

\* What an operation knows of the record and of the VM: from its first read to its
\* last commit it is the only one to change them.
GateInv(id) ==
    /\ ~At(id, "idle") => memory[id] = disk[id]
    /\ At(id, "fresh") => disk[id] = Gone /\ synced[id] = Gone
    /\ op[id].pc \in {"fresh", "prepare", "spawn", "ready", "created"} => late[id] = <<>>
    /\ At(id, "created") => Fits(id, "Running")
    /\ At(id, "settle") => Fits(id, op[id].to)
    /\ At(id, "intend") => Fits(id, "Pausing")
    /\ At(id, "request") => {disk[id].state, synced[id].state} \subseteq {"Pausing", "Resuming"}
    /\ op[id].pc \in {"ask", "intend", "request"} => "deleting" \notin marks[id]
    /\ \/ op[id].pc \in Creating \cup {"inspect", "ask", "intend", "request", "settle"}
       \/ op[id].kind = "create" /\ op[id].pc \in {"mark", "kill", "reclaim"}
       => disk[id].state # "Stopping"
    /\ op[id].kind = "expire" =>
         /\ disk[id].state = "Stopping" \/ Expired(disk[id])
         /\ op[id].pc \in {"stopping", "committing", "terminate", "kill", "reclaim",
                          "confirm", "remove"}
    /\ op[id].pc \in {"stopping", "terminate"} => op[id].kind # "create"
    /\ op[id].pc \notin {"fresh", "idle"} => up
    /\ op[id].pc \notin {"fresh", "idle", "committing"} => disk[id].state # "Gone"

\* The record on its way to disk.
RecInv(c) ==
    /\ Fits(c.id, c.rec.state)
    /\ "Stopping" \in {disk[c.id].state, synced[c.id].state} =>
         c.rec.state \in {"Stopping", "Gone"}
    /\ c.next = "request" =>
         c.rec.state \in {"Pausing", "Resuming"} /\ "deleting" \notin marks[c.id]
    /\ c.next = "prepare" => c.rec.state = "Pending" /\ late[c.id] = <<>>
    /\ c.next = "terminate" => c.rec.state = "Stopping" /\ op[c.id].kind # "create"
    /\ op[c.id].kind = "expire" => c.next \in {"idle", "terminate"}

Kinds == {"none", "create", "get", "pause", "resume", "delete", "renew", "expire"}

\* A commit is in flight only while the daemon serves calls.
SInv ==
    /\ late \in [Id -> Seq(Kinds)]
    /\ Serving => memory = disk
    /\ commit # {} => Serving
    /\ \A id \in Id : StatusInv(id) /\ GateInv(id)
    /\ \A c \in commit : RecInv(c)

-----------------------------------------------------------------------------
(* What a step of one sandbox leaves alone.                                 *)

\* Nothing of the sandboxes other than id changes.
Apart(id) ==
    \A i \in Id \ {id} : /\ op'[i] = op[i] /\ marks'[i] = marks[i] /\ proc'[i] = proc[i]
                         /\ vm'[i] = vm[i] /\ late'[i] = late[i]

\* A record that the VM fits, it fits after the step.
Keeps(id) == \A st \in States : Fits(id, st) => Fits(id, st)'

\* An operation that is left alone knows what it knew.
LEMMA GateKept ==
  ASSUME NEW i, GateInv(i), op'[i] = op[i], memory'[i] = memory[i], disk'[i] = disk[i],
         synced'[i] = synced[i], marks'[i] = marks[i], late'[i] = late[i], up' = up,
         \A st : Fits(i, st) => Fits(i, st)', Expired(disk[i]) => Expired(disk[i])'
  PROVE  GateInv(i)'
<1>1. /\ ~At(i, "idle")' => memory'[i] = disk'[i]
      /\ At(i, "fresh")' => disk'[i] = Gone /\ synced'[i] = Gone
      /\ op'[i].pc \in {"fresh", "prepare", "spawn", "ready", "created"} => late'[i] = <<>>
  BY Zenon DEF GateInv, At
<1>2. /\ At(i, "created")' => Fits(i, "Running")'
      /\ At(i, "settle")' => Fits(i, op[i].to)'
      /\ At(i, "intend")' => Fits(i, "Pausing")'
  BY Zenon DEF GateInv, At
<1>3. /\ At(i, "request")' => {disk'[i].state, synced'[i].state} \subseteq {"Pausing", "Resuming"}
      /\ op'[i].pc \in {"ask", "intend", "request"} => "deleting" \notin marks'[i]
  BY Zenon DEF GateInv, At
<1>4. \/ op'[i].pc \in Creating \cup {"inspect", "ask", "intend", "request", "settle"}
      \/ op'[i].kind = "create" /\ op'[i].pc \in {"mark", "kill", "reclaim"}
      => disk'[i].state # "Stopping"
  BY Zenon DEF GateInv
<1>5. op'[i].kind = "expire" =>
        /\ disk'[i].state = "Stopping" \/ Expired(disk[i])'
        /\ op'[i].pc \in {"stopping", "committing", "terminate", "kill", "reclaim",
                         "confirm", "remove"}
  BY Zenon DEF GateInv
<1>6. /\ op'[i].pc \in {"stopping", "terminate"} => op'[i].kind # "create"
      /\ op'[i].pc \notin {"fresh", "idle"} => up'
      /\ op'[i].pc \notin {"fresh", "idle", "committing"} => disk'[i].state # "Gone"
  BY Zenon DEF GateInv
<1> QED
  BY <1>1, <1>2, <1>3, <1>4, <1>5, <1>6, Zenon DEF GateInv

\* What fits a record depends on the VM alone.
LEMMA SameFits ==
  ASSUME NEW i, proc'[i] = proc[i], vm'[i] = vm[i], late'[i] = late[i]
  PROVE  \A st : Fits(i, st)' = Fits(i, st)
  BY DEF Fits

\* A step that changes no record keeps the invariant when it keeps its part for its
\* own sandbox and what a commit in flight relies on.
LEMMA SandboxStep ==
  ASSUME IInv, SInv, NEW id \in Id, Apart(id),
         UNCHANGED <<up, failed, memory, disk, synced, commit, now>>,
         late' \in [Id -> Seq(Kinds)],
         StatusInv(id)', GateInv(id)',
         At(id, "committing") =>
             /\ op'[id] = op[id] /\ Keeps(id)
             /\ late[id] = <<>> => late'[id] = <<>>
             /\ "deleting" \notin marks[id] => "deleting" \notin marks'[id]
  PROVE  SInv'
<1>1. ASSUME NEW i \in Id, i # id PROVE StatusInv(i)' /\ GateInv(i)'
  <2>1. /\ op'[i] = op[i] /\ marks'[i] = marks[i] /\ proc'[i] = proc[i]
        /\ vm'[i] = vm[i] /\ late'[i] = late[i] /\ StatusInv(i) /\ GateInv(i)
    BY <1>1 DEF Apart, SInv
  <2>2. \A st : Fits(i, st)' = Fits(i, st)
    BY <2>1, SameFits
  <2>3. Expired(disk[i])' = Expired(disk[i])
    BY DEF Expired
  <2>4. StatusInv(i)'
    BY <2>1, <2>2 DEF StatusInv
  <2>5. GateInv(i)'
    <3>1. (\A st : Fits(i, st) => Fits(i, st)') /\ (Expired(disk[i]) => Expired(disk[i])')
      BY <2>2, <2>3, Zenon
    <3> QED
      BY <2>1, <3>1, GateKept, Zenon
  <2> QED
    BY <2>4, <2>5
<1>2. ASSUME NEW c \in commit PROVE RecInv(c)'
  <2>1. /\ RecInv(c) /\ c.id \in Id /\ c.rec.state \in States /\ op[c.id].pc = "committing"
    BY DEF SInv, IInv, TypeOK, Records, CommitInv
  <2>2. CASE c.id = id
    <3>1. At(id, "committing")
      BY <2>1, <2>2, Zenon DEF At
    <3> QED
      BY <2>1, <2>2, <3>1, Zenon DEF RecInv, Keeps
  <2>3. CASE c.id # id
    <3>1. /\ op'[c.id] = op[c.id] /\ marks'[c.id] = marks[c.id] /\ proc'[c.id] = proc[c.id]
          /\ vm'[c.id] = vm[c.id] /\ late'[c.id] = late[c.id]
      BY <2>1, <2>3 DEF Apart
    <3>2. Fits(c.id, c.rec.state)' = Fits(c.id, c.rec.state)
      BY <3>1, SameFits, Zenon
    <3> QED
      BY <2>1, <3>1, <3>2 DEF RecInv
  <2> QED
    BY <2>2, <2>3, Zenon
<1>3. (Serving => memory = disk)' /\ (commit # {} => Serving)'
  BY DEF SInv, Serving
<1> QED
  BY <1>1, <1>2, <1>3 DEF SInv

\* Steps of an operation that leave the VM alone.
LEMMA GateStep ==
  ASSUME IInv, SInv, NEW id \in Id, op[id].pc # "committing",
         \A i \in Id \ {id} : op'[i] = op[i] /\ marks'[i] = marks[i],
         UNCHANGED <<up, failed, memory, disk, synced, commit, now, proc, vm, late>>,
         GateInv(id)'
  PROVE  SInv'
<1>1. Apart(id)
  BY DEF Apart
<1>2. late' \in [Id -> Seq(Kinds)] /\ StatusInv(id)
  BY DEF SInv
<1>3. StatusInv(id)'
  BY <1>2, SameFits DEF StatusInv
<1> QED
  BY <1>1, <1>2, <1>3, SandboxStep DEF At

\* An operation that ends, or one that goes on to a step that knows nothing.
LEMMA EndsGate ==
  ASSUME NEW id \in Id, op'[id] = Idle
  PROVE  GateInv(id)'
  BY DEF GateInv, At, Idle, Creating

\* Steps of the supervisor and of the guest.
LEMMA VmStep ==
  ASSUME IInv, SInv, NEW id \in Id, Apart(id), Keeps(id), op' = op,
         UNCHANGED <<up, failed, memory, disk, synced, commit, now>>,
         late' \in [Id -> Seq(Kinds)],
         late[id] = <<>> => late'[id] = <<>>,
         "deleting" \notin marks[id] => "deleting" \notin marks'[id]
  PROVE  SInv'
<1>1. /\ StatusInv(id) /\ GateInv(id) /\ disk[id].state \in States /\ synced[id].state \in States
      /\ op[id].to \in States
  BY Zenon DEF SInv, IInv, TypeOK, Records, Ops
<1>2. StatusInv(id)'
  BY <1>1 DEF StatusInv, Keeps
<1>3. "Running" \in States /\ "Pausing" \in States
  BY DEF States
<1>4. /\ Fits(id, "Running") => Fits(id, "Running")'
      /\ Fits(id, "Pausing") => Fits(id, "Pausing")'
      /\ Fits(id, op[id].to) => Fits(id, op[id].to)'
  BY <1>1, <1>3 DEF Keeps
<1>5. Expired(disk[id])' = Expired(disk[id])
  BY Zenon DEF Expired
<1>6. GateInv(id)'
  BY <1>1, <1>4, <1>5 DEF GateInv, At
<1> QED
  BY <1>2, <1>6, SandboxStep, Zenon

-----------------------------------------------------------------------------
\* A daemon that starts on an empty store satisfies the invariant.
LEMMA InitStatus == Init => SInv
<1> SUFFICES ASSUME Init PROVE SInv
  OBVIOUS
<1>1. late \in [Id -> Seq(Kinds)]
  <2>1. <<>> \in Seq(Kinds)
    OBVIOUS
  <2> QED
    BY <2>1 DEF Init
<1>2. ASSUME NEW id \in Id PROVE StatusInv(id) /\ GateInv(id)
  <2>1. /\ memory[id] = Gone /\ disk[id] = Gone /\ synced[id] = Gone /\ late[id] = <<>>
        /\ op[id] \in {Fresh, Idle}
    BY <1>2 DEF Init
  <2>2. Gone.state = "Gone" /\ Fresh.kind = "none" /\ Idle.kind = "none"
        /\ Fresh.pc = "fresh" /\ Idle.pc = "idle"
    BY DEF Gone, Fresh, Idle
  <2>3. StatusInv(id)
    BY <2>1, <2>2 DEF StatusInv, Fits
  <2>4. GateInv(id)
    BY <2>1, <2>2, Zenon DEF GateInv, At, Creating
  <2> QED
    BY <2>3, <2>4
<1>3. (Serving => memory = disk) /\ commit = {}
  BY DEF Init
<1> QED
  BY <1>1, <1>2, <1>3 DEF SInv

\* The invariant does not speak of the lock, the scan and the bounds.
LEMMA StatusUntouched ==
  ASSUME SInv, UNCHANGED <<up, failed, memory, disk, synced, commit, op, marks, proc, vm,
                           late, now>>
  PROVE  SInv'
<1>1. ASSUME NEW i \in Id PROVE StatusInv(i)' /\ GateInv(i)'
  <2>1. StatusInv(i) /\ GateInv(i) /\ \A st : Fits(i, st)' = Fits(i, st)
    BY SameFits DEF SInv
  <2>2. Expired(disk[i])' = Expired(disk[i])
    BY DEF Expired
  <2>3. StatusInv(i)'
    BY <2>1, Zenon DEF StatusInv
  <2>4. GateInv(i)'
    BY <2>1, <2>2, Zenon DEF GateInv, At
  <2> QED
    BY <2>3, <2>4
<1>2. ASSUME NEW c \in commit PROVE RecInv(c)'
  <2>1. RecInv(c) /\ Fits(c.id, c.rec.state)' = Fits(c.id, c.rec.state)
    BY SameFits DEF SInv
  <2> QED
    BY <2>1, Zenon DEF RecInv
<1>3. (Serving => memory = disk)' /\ (commit # {} => Serving)'
  BY DEF SInv, Serving
<1> QED
  BY <1>1, <1>2, <1>3 DEF SInv

\* Operations begin with a record read under the gate.
LEMMA BeginStatus ==
  ASSUME IInv, SInv, NEW id \in Id,
         \/ Get(id) \/ Controls(id, "pause") \/ Controls(id, "resume") \/ Delete(id)
         \/ Scan(id) \/ Cleanup(id)
  PROVE  SInv'
<1>1. op \in [Id -> Ops]
  BY DEF IInv, TypeOK
<1>2. CASE Scan(id)
  BY <1>2, StatusUntouched, Zenon DEF Scan, store, native
<1>3. CASE Cleanup(id) /\ op' = op
  BY <1>3, StatusUntouched, Zenon DEF Cleanup, store, native
<1>4. ASSUME NEW kind, NEW pc, Starts(id, kind, pc), Begin(id), ~(Scan(id) \/ op' = op),
             \/ pc = "inspect" /\ Status(id) # "Stopping" /\ kind \in {"get", "pause", "resume"}
             \/ pc = "stopping" /\ kind = "delete"
             \/ /\ pc = "stopping" /\ kind = "expire"
                /\ Status(id) = "Stopping" \/ Expired(memory[id])
      PROVE  SInv'
  <2>1. op'[id].kind = kind /\ op'[id].pc = pc /\ \A i \in Id \ {id} : op'[i] = op[i]
    BY <1>1, <1>4, Zenon DEF Starts
  <2>2. UNCHANGED <<up, failed, memory, disk, synced, commit, now, marks, proc, vm, late>>
    BY <1>4, Zenon DEF Get, Controls, Delete, Cleanup, store, native
  <2>3. up /\ memory = disk /\ op[id].pc # "committing" /\ Status(id) = disk[id].state
    BY <1>4, Zenon DEF Begin, At, SInv, Status, Serving
  <2>4. Expired(disk[id])' = Expired(disk[id]) /\ Expired(memory[id]) = Expired(disk[id])
    BY <2>2, <2>3 DEF Expired
  <2>5. disk[id].state # "Gone"
    BY <1>4, <2>3, Zenon DEF Begin, Present, Gone, Records, IInv, TypeOK
  <2>6. GateInv(id)'
    BY <1>4, <2>1, <2>2, <2>3, <2>4, <2>5 DEF GateInv, At, Creating
  <2> QED
    BY <2>1, <2>2, <2>3, <2>6, GateStep
<1>5. CASE Get(id)
  <2>1. Begin(id) /\ Status(id) # "Stopping" /\ Starts(id, "get", "inspect")
    BY <1>5, Zenon DEF Get
  <2> QED
    BY <1>2, <1>4, <1>5, <2>1, StatusUntouched DEF Get, store, native
<1>6. ASSUME NEW kind \in {"pause", "resume"}, Controls(id, kind) PROVE SInv'
  <2>1. Begin(id) /\ Status(id) # "Stopping" /\ Starts(id, kind, "inspect")
    BY <1>6, Zenon DEF Controls
  <2> QED
    BY <1>2, <1>4, <1>6, <2>1, StatusUntouched DEF Controls, store, native
<1>7. CASE Delete(id)
  <2>1. Begin(id) /\ Starts(id, "delete", "stopping")
    BY <1>7 DEF Delete
  <2> QED
    BY <1>2, <1>4, <1>7, <2>1, StatusUntouched DEF Delete, store, native
<1>8. CASE Cleanup(id) /\ op' # op
  <2>1. /\ Begin(id) /\ Starts(id, "expire", "stopping")
        /\ Status(id) = "Stopping" \/ Expired(memory[id])
    BY <1>8 DEF Cleanup, Begin
  <2> QED
    BY <1>2, <1>4, <1>8, <2>1
<1> QED
  BY <1>2, <1>3, <1>5, <1>6, <1>7, <1>8

-----------------------------------------------------------------------------
(* Commits.                                                                *)

\* An update takes the commit lock with a record that the VM fits.
LEMMA HoldStatus ==
  ASSUME IInv, SInv, Serving, NEW id \in Id, NEW rec, NEW next, Held(id, rec, next),
         \A i \in Id \ {id} : op'[i] = op[i], op'[id].pc = "committing",
         Fits(id, rec.state),
         "Stopping" \in {disk[id].state, synced[id].state} => rec.state \in {"Stopping", "Gone"},
         next = "request" => rec.state \in {"Pausing", "Resuming"} /\ "deleting" \notin marks[id],
         next = "prepare" => rec.state = "Pending" /\ late[id] = <<>>,
         next = "terminate" => rec.state = "Stopping" /\ op'[id].kind # "create",
         op'[id].kind = "expire" =>
            next \in {"idle", "terminate"} /\ (disk[id].state = "Stopping" \/ Expired(disk[id])),
         UNCHANGED <<up, failed, store, scanned, native, now, troubles>>
  PROVE  SInv'
<1>0. UNCHANGED <<up, failed, memory, disk, synced, marks, proc, vm, late, now>>
  BY Zenon DEF store, native
<1>1. ASSUME NEW i \in Id PROVE StatusInv(i)' /\ GateInv(i)'
  <2>1. StatusInv(i) /\ GateInv(i) /\ memory = disk /\ up
    BY Zenon DEF SInv, Serving
  <2>2. \A st : Fits(i, st)' = Fits(i, st)
    BY <1>0, SameFits, Zenon
  <2>3. Expired(disk[i])' = Expired(disk[i])
    BY <1>0, Zenon DEF Expired
  <2>4. StatusInv(i)'
    BY <1>0, <2>1, <2>2, Zenon DEF StatusInv
  <2>5. CASE i = id
    <3>1. op'[i].pc = "committing" /\ memory'[i] = disk'[i] /\ up'
      BY <1>0, <2>1, <2>5
    <3>2. op'[i].kind = "expire" => disk'[i].state = "Stopping" \/ Expired(disk[i])'
      BY <1>0, <2>3, <2>5, Zenon
    <3>3. GateInv(i)'
      BY <3>1, <3>2, Zenon DEF GateInv, At, Creating
    <3> QED
      BY <2>4, <3>3, Zenon
  <2>6. CASE i # id
    <3>1. op'[i] = op[i]
      BY <2>6
    <3>2. GateInv(i)'
      <4>1. /\ \A st : Fits(i, st) => Fits(i, st)'
            /\ Expired(disk[i]) => Expired(disk[i])'
        BY <2>2, <2>3, Zenon
      <4> QED
        BY <1>0, <2>1, <3>1, <4>1, GateKept, Zenon
    <3> QED
      BY <2>4, <3>2, Zenon
  <2> QED
    BY <2>5, <2>6
<1>2. ASSUME NEW c \in commit' PROVE RecInv(c)'
  <2>1. c.id = id /\ c.rec = rec /\ c.next = next
    BY DEF Held
  <2>2. Fits(id, rec.state)' = Fits(id, rec.state)
    BY <1>0, SameFits, Zenon
  <2> QED
    BY <1>0, <2>1, <2>2, Zenon DEF RecInv
<1>3. late' \in [Id -> Seq(Kinds)] /\ memory' = disk' /\ Serving'
  <2>1. late \in [Id -> Seq(Kinds)] /\ memory = disk
    BY ZenonT(60) DEF SInv
  <2>2. late' \in [Id -> Seq(Kinds)] /\ memory' = disk'
    BY <1>0, <2>1, Zenon
  <2>3. Serving'
    BY <1>0 DEF Serving
  <2> QED
    BY <2>2, <2>3, Zenon
<1> QED
  BY <1>1, <1>2, <1>3, Zenon DEF SInv

\* Creations and renewals.
LEMMA AdmitStatus ==
  ASSUME IInv, SInv, NEW id \in Id, NEW until \in Nat,
         Create(id, until) \/ Renew(id, until)
  PROVE  SInv'
<1>1. op \in [Id -> Ops] /\ memory \in [Id -> Records] /\ GateInv(id) /\ StatusInv(id)
  BY Zenon DEF IInv, TypeOK, SInv
<1>2. CASE Create(id, until)
  <2> DEFINE rec == [state |-> "Pending", until |-> until]
  <2>1. rec.state = "Pending" /\ disk[id] = Gone /\ synced[id] = Gone /\ late[id] = <<>>
    BY <1>1, <1>2, Zenon DEF Create, GateInv, At
  <2>2. op'[id].pc = "committing" /\ op'[id].kind = "create" /\ \A i \in Id \ {id} : op'[i] = op[i]
    BY <1>1, <1>2 DEF Create, Starts
  <2>3. /\ Serving /\ Held(id, rec, "prepare")
        /\ UNCHANGED <<up, failed, store, scanned, native, now, troubles>>
    BY <1>2 DEF Create
  <2>4. Fits(id, rec.state) /\ disk[id].state # "Stopping" /\ synced[id].state # "Stopping"
    BY <2>1 DEF Fits, Gone
  <2> HIDE DEF rec
  <2> QED
    BY <2>1, <2>2, <2>3, <2>4, HoldStatus
<1>3. CASE Renew(id, until)
  <2> DEFINE rec == [memory[id] EXCEPT !.until = until]
  <2>1. memory = disk /\ memory[id] \in Records
    BY <1>1, <1>3 DEF Renew, Begin, SInv
  <2>2. rec.state = disk[id].state
    BY <2>1 DEF Records
  <2>3. op'[id].pc = "committing" /\ op'[id].kind = "renew" /\ \A i \in Id \ {id} : op'[i] = op[i]
    BY <1>1, <1>3 DEF Renew, Starts
  <2>4. /\ Serving /\ Held(id, rec, "idle")
        /\ UNCHANGED <<up, failed, store, scanned, native, now, troubles>>
    BY <1>3 DEF Renew, Begin
  <2>5. Fits(id, rec.state)
    BY <1>1, <2>2, Zenon DEF StatusInv
  <2>6. synced[id].state = "Stopping" => disk[id].state = "Stopping"
    <3>1. disk[id].state # "Gone"
      BY <1>3, <2>1, Zenon DEF Renew, Begin, Present, Gone, Records
    <3> QED
      BY <1>1, <3>1 DEF StatusInv
  <2> HIDE DEF rec
  <2> QED
    BY <2>2, <2>3, <2>4, <2>5, <2>6, HoldStatus
<1> QED
  BY <1>2, <1>3

\* The later commits of an operation: what it records it has just seen.
LEMMA UpdateStatus ==
  ASSUME IInv, SInv, NEW id \in Id, Update(id)
  PROVE  SInv'
<1>1. op \in [Id -> Ops] /\ memory[id] \in Records /\ GateInv(id) /\ op[id].pc \in Committing
  BY Zenon DEF IInv, TypeOK, SInv, Update
<1>2. up /\ Serving /\ memory[id] = disk[id]
  BY <1>1 DEF GateInv, At, Update, Serving, Committing
<1> DEFINE rec == Change(id).rec
           next == Change(id).next
<1>3. /\ Fits(id, rec.state)
      /\ disk[id].state = "Stopping" => rec.state \in {"Stopping", "Gone"}
      /\ next = "request" => rec.state \in {"Pausing", "Resuming"} /\ "deleting" \notin marks[id]
      /\ next # "prepare"
      /\ next = "terminate" => rec.state = "Stopping" /\ op[id].kind # "create"
      /\ op[id].kind = "expire" => next \in {"idle", "terminate"}
  <2>1. CASE op[id].pc \in {"created", "unsure"}
    BY <1>1, <2>1, ZenonT(60) DEF Change, At, Records, GateInv, Fits, Creating
  <2>2. CASE op[id].pc = "settle"
    <3>1. rec = [memory[id] EXCEPT !.state = op[id].to] /\ next = "idle"
      BY <2>2 DEF Change, At
    <3>2. rec.state = op[id].to
      BY <1>1, <3>1, Zenon DEF Records
    <3>3. Fits(id, op[id].to) /\ disk[id].state # "Stopping"
      BY <1>1, <2>2 DEF GateInv, At
    <3> QED
      BY <3>1, <3>2, <3>3
  <2>3. CASE op[id].pc = "intend"
    <3>1. /\ rec = [memory[id] EXCEPT !.state = IF op[id].kind = "pause" THEN "Pausing"
                                                                          ELSE "Resuming"]
          /\ next = "request"
      BY <2>3 DEF Change, At
    <3>2. rec.state \in {"Pausing", "Resuming"}
      BY <1>1, <3>1, Zenon DEF Records
    <3>3. /\ Fits(id, "Pausing") /\ disk[id].state # "Stopping" /\ "deleting" \notin marks[id]
          /\ op[id].kind # "expire"
      BY <1>1, <2>3 DEF GateInv, At
    <3> QED
      BY <3>1, <3>2, <3>3 DEF Fits
  <2>4. CASE op[id].pc = "stopping"
    BY <1>1, <2>4 DEF Change, At, Records, GateInv, Fits
  <2>5. CASE op[id].pc \in {"absent", "remove"}
    BY <1>1, <2>5, ZenonT(60) DEF Change, At, Gone, GateInv, Fits
  <2> QED
    BY <1>1, <2>1, <2>2, <2>3, <2>4, <2>5, Zenon DEF Committing
<1>4. op'[id].pc = "committing" /\ op'[id].kind = op[id].kind /\ \A i \in Id \ {id} : op'[i] = op[i]
  BY <1>1 DEF Update, Goto, Ops
<1>5. op[id].kind = "expire" => disk[id].state = "Stopping" \/ Expired(disk[id])
  BY <1>1 DEF GateInv
<1>6. /\ Held(id, rec, next)
      /\ UNCHANGED <<up, failed, store, scanned, native, now, troubles>>
  BY DEF Update
<1>7. synced[id].state = "Stopping" => disk[id].state = "Stopping"
  BY <1>1, Zenon DEF GateInv, Committing, SInv, StatusInv
<1> HIDE DEF rec, next
<1> QED
  BY <1>2, <1>3, <1>4, <1>5, <1>6, <1>7, HoldStatus, Zenon

\* A commit that ends, in any way, leaves records that the VM fits.
LEMMA CommitEndsStatus ==
  ASSUME IInv, SInv, NEW c \in commit, Lands(c) \/ BudgetRejected(c) \/ CommitUnknown(c)
  PROVE  SInv'
<1> DEFINE id == c.id
<1>1. /\ id \in Id /\ c.rec \in Records /\ RecInv(c) /\ op[id].pc = "committing" /\ Serving
      /\ c.next \in {"idle", "request", "terminate", "prepare"}
      /\ op \in [Id -> Ops] /\ disk \in [Id -> Records] /\ synced \in [Id -> Records]
      /\ memory \in [Id -> Records] /\ memory = disk /\ StatusInv(id) /\ GateInv(id)
  BY Zenon DEF IInv, TypeOK, SInv, CommitInv
<1>2. commit' = {} /\ UNCHANGED <<up, marks, proc, vm, late, now>>
  BY DEF Lands, BudgetRejected, CommitUnknown, IInv, TypeOK, native
<1>3. \A i \in Id \ {id} : op'[i] = op[i]
  BY <1>1, Zenon DEF Lands, BudgetRejected, CommitUnknown, After, Ends, Goto
<1>4. \A i \in Id \ {id} : memory'[i] = memory[i] /\ disk'[i] = disk[i] /\ synced'[i] = synced[i]
  BY <1>1, Zenon DEF Lands, BudgetRejected, CommitUnknown, store
<1>5. /\ disk'[id] \in {disk[id], c.rec} /\ synced'[id] \in {synced[id], c.rec}
      /\ synced'[id] # synced[id] => disk'[id] = c.rec
  BY <1>1, Zenon DEF Lands, BudgetRejected, CommitUnknown, store
<1>6. \A i \in Id : \A st : Fits(i, st)' = Fits(i, st)
  BY <1>2, SameFits, Zenon
<1>7. StatusInv(id)'
  BY <1>1, <1>5, <1>6, Zenon DEF StatusInv, RecInv
<1>8. GateInv(id)'
  <2>1. CASE op'[id] = Idle
    BY <1>1, <2>1, EndsGate, Zenon
  <2>2. CASE Lands(c) /\ c.next # "idle"
    <3>1. disk'[id] = c.rec /\ synced'[id] = c.rec /\ memory'[id] = c.rec /\ up
      BY <1>1, <2>2, Zenon DEF Lands, Serving
    <3>2. op'[id].pc = c.next /\ op'[id].kind = op[id].kind
      BY <1>1, <2>2 DEF Lands, After, Goto, Ops
    <3>3. CASE c.next = "prepare"
      BY <1>1, <1>2, <3>1, <3>2, <3>3, Zenon DEF GateInv, RecInv, At, Creating
    <3>4. CASE c.next = "request"
      BY <1>1, <1>2, <3>1, <3>2, <3>4, Zenon DEF GateInv, RecInv, At, Creating
    <3>5. CASE c.next = "terminate"
      BY <1>1, <1>2, <3>1, <3>2, <3>5, Zenon DEF GateInv, RecInv, At, Creating
    <3> QED
      BY <1>1, <2>2, <3>3, <3>4, <3>5, Zenon
  <2> QED
    BY <1>1, <2>1, <2>2, Zenon DEF Lands, BudgetRejected, CommitUnknown, After, Ends
<1>9. ASSUME NEW i \in Id, i # id PROVE StatusInv(i)' /\ GateInv(i)'
  <2>1. StatusInv(i) /\ GateInv(i)
    BY Zenon DEF SInv
  <2>2. /\ op'[i] = op[i] /\ memory'[i] = memory[i] /\ disk'[i] = disk[i] /\ synced'[i] = synced[i]
        /\ marks'[i] = marks[i] /\ late'[i] = late[i] /\ up' = up
    BY <1>2, <1>3, <1>4, <1>9, Zenon
  <2>3. Expired(disk[i])' = Expired(disk[i])
    BY <1>2, <2>2, Zenon DEF Expired
  <2>4. StatusInv(i)'
    BY <1>6, <2>1, <2>2 DEF StatusInv
  <2>5. GateInv(i)'
    <3>1. (\A st : Fits(i, st) => Fits(i, st)') /\ (Expired(disk[i]) => Expired(disk[i])')
      BY <1>6, <2>3, Zenon
    <3> QED
      BY <2>1, <2>2, <3>1, GateKept, Zenon
  <2> QED
    BY <2>4, <2>5
<1>10. (Serving => memory = disk)'
  BY <1>1, <1>2, Zenon DEF Lands, BudgetRejected, CommitUnknown, Serving, store
<1> QED
  BY <1>1, <1>2, <1>7, <1>8, <1>9, <1>10, Zenon DEF SInv

-----------------------------------------------------------------------------
(* The steps of an operation between its commits.                          *)

\* Operation id may go on to pc.
Allows(id, pc) ==
    /\ pc \notin {"idle", "fresh", "committing", "settle", "request"}
    /\ pc \in {"prepare", "spawn", "ready", "created"} => late[id] = <<>>
    /\ pc = "created" => Fits(id, "Running")
    /\ pc = "intend" => Fits(id, "Pausing")
    /\ pc \in {"ask", "intend"} => "deleting" \notin marks'[id]
    /\ \/ pc \in Creating \cup {"inspect", "ask", "intend"}
       \/ op[id].kind = "create" /\ pc \in {"mark", "kill", "reclaim"}
       => disk[id].state # "Stopping"
    /\ op[id].kind = "expire" => pc \in {"stopping", "terminate", "kill", "reclaim", "confirm",
                                         "remove"}
    /\ pc \in {"stopping", "terminate"} => op[id].kind # "create"

\* An operation under way, which holds the gate.
Busy(id) == op[id].pc \notin {"idle", "fresh", "committing"}

\* Only the marker files of one sandbox change, and its operation.
Marking(id) ==
    /\ \A i \in Id \ {id} : marks'[i] = marks[i]
    /\ UNCHANGED <<up, failed, memory, disk, synced, commit, now, proc, vm, late>>

\* An operation that goes on to an allowed step keeps the invariant.
LEMMA GotoStatus ==
  ASSUME IInv, SInv, NEW id \in Id, Busy(id), Marking(id),
         NEW pc \in Pcs, Goto(id, pc), Allows(id, pc)
  PROVE  SInv'
<1>1. op \in [Id -> Ops] /\ GateInv(id)
  BY Zenon DEF IInv, TypeOK, SInv
<1>2. op'[id].pc = pc /\ op'[id].kind = op[id].kind /\ \A i \in Id \ {id} : op'[i] = op[i]
  BY <1>1, GotoMoves, Zenon
<1>3. UNCHANGED <<up, failed, memory, disk, synced, commit, now, proc, vm, late>>
  BY Zenon DEF Marking
<1>4. \A st : Fits(id, st)' = Fits(id, st)
  BY <1>3, SameFits, Zenon
<1>5. Expired(disk[id])' = Expired(disk[id])
  BY <1>3, Zenon DEF Expired
<1>6. memory[id] = disk[id] /\ up /\ disk[id].state # "Gone"
      /\ (op[id].kind = "expire" => disk[id].state = "Stopping" \/ Expired(disk[id]))
  BY <1>1, Zenon DEF GateInv, Busy, At
<1>7. GateInv(id)'
  BY <1>2, <1>3, <1>4, <1>5, <1>6 DEF GateInv, At, Allows
<1> QED
  BY <1>2, <1>3, <1>7, GateStep, Zenon DEF Marking, Busy

\* An operation that ends.
LEMMA EndsStatus ==
  ASSUME IInv, SInv, NEW id \in Id, Busy(id), Marking(id), Ends(id)
  PROVE  SInv'
<1>1. op \in [Id -> Ops]
  BY DEF IInv, TypeOK
<1>2. op'[id] = Idle /\ \A i \in Id \ {id} : op'[i] = op[i]
  BY <1>1 DEF Ends
<1> QED
  BY <1>2, EndsGate, GateStep, Zenon DEF Marking, Busy

\* An operation that is about to record what it has seen.
LEMMA SettleStatus ==
  ASSUME IInv, SInv, NEW id \in Id, Busy(id), Marking(id),
         NEW to, Settle(id, to), Fits(id, to), disk[id].state # "Stopping",
         op[id].kind # "expire"
  PROVE  SInv'
<1>1. op \in [Id -> Ops] /\ GateInv(id)
  BY DEF IInv, TypeOK, SInv
<1>2. /\ op'[id].pc = "settle" /\ op'[id].to = to /\ op'[id].kind = op[id].kind
      /\ \A i \in Id \ {id} : op'[i] = op[i]
  BY <1>1 DEF Settle, Ops
<1>3. UNCHANGED <<up, failed, memory, disk, synced, commit, now, proc, vm, late>>
  BY ZenonT(60) DEF Marking
<1>4. Fits(id, to)'
  BY <1>3, SameFits
<1>5. memory[id] = disk[id] /\ up /\ disk[id].state # "Gone"
  BY <1>1, Zenon DEF GateInv, Busy, At
<1>6. GateInv(id)'
  BY <1>2, <1>3, <1>4, <1>5, Zenon DEF GateInv, At, Creating
<1> QED
  BY <1>2, <1>3, <1>6, GateStep, Zenon DEF Marking, Busy

\* What the caller of an inspection does with what it was told.
LEMMA ObservedStatus ==
  ASSUME IInv, SInv, NEW id \in Id, Busy(id), Marking(id),
         NEW s \in {"running", "paused", "stopped", "missing"}, Observed(id, s),
         disk[id].state # "Stopping",
         s = "running" => Fits(id, "Running"), s = "paused" => Fits(id, "Paused"),
         s \in {"running", "paused"} => "deleting" \notin marks'[id],
         op[id].kind = "expire" => s = "missing"
  PROVE  SInv'
<1>1. \/ Ends(id)
      \/ op[id].kind = "get" /\ Goto(id, "stopping")
      \/ s \in {"running", "paused"} /\ op[id].kind # "expire" /\ Goto(id, "intend")
      \/ s = "running" /\ op[id].kind # "expire" /\ Settle(id, "Running")
      \/ s = "paused" /\ op[id].kind # "expire" /\ Settle(id, "Paused")
      \/ op[id].kind # "expire" /\ (Settle(id, "Terminated") \/ Settle(id, "Failed"))
  BY Zenon DEF Observed
<1>2. "stopping" \in Pcs /\ "intend" \in Pcs
  BY Zenon DEF Pcs, Committing
<1>3. Fits(id, "Terminated") /\ Fits(id, "Failed")
  BY Zenon DEF Fits
<1>4. CASE op[id].kind = "get" /\ Goto(id, "stopping")
  <2>1. Allows(id, "stopping")
    BY <1>4, Zenon DEF Allows, Creating
  <2> QED
    BY <1>2, <1>4, <2>1, GotoStatus, Zenon
<1>5. CASE s \in {"running", "paused"} /\ op[id].kind # "expire" /\ Goto(id, "intend")
  <2>1. Fits(id, "Pausing")
    BY <1>5, Zenon DEF Fits
  <2>2. Allows(id, "intend")
    BY <1>5, <2>1 DEF Allows, Creating
  <2> QED
    BY <1>2, <1>5, <2>2, GotoStatus, Zenon
<1> QED
  BY <1>1, <1>3, <1>4, <1>5, EndsStatus, SettleStatus, ZenonT(60)

\* The steps of a creation.
LEMMA CreationStatus ==
  ASSUME IInv, SInv, NEW id \in Id,
         \/ Prepare(id) \/ PrepareFails(id) \/ Rollback(id) \/ SpawnFails(id)
         \/ Ready(id) \/ NotReady(id)
  PROVE  SInv'
<1>1. /\ op \in [Id -> Ops] /\ marks \in [Id -> SUBSET Marks] /\ GateInv(id)
  BY DEF IInv, TypeOK, SInv
<1>2. op[id].pc \in {"prepare", "rollback", "spawn", "ready"}
  BY DEF Prepare, PrepareFails, Rollback, SpawnFails, Ready, NotReady, At
<1>3. Busy(id) /\ disk[id].state # "Stopping" /\ op[id].kind # "expire"
      /\ (op[id].pc # "rollback" => late[id] = <<>>)
  BY <1>1, <1>2, Zenon DEF GateInv, Busy, Creating
<1>4. Marking(id)
  BY <1>1, Zenon DEF Prepare, PrepareFails, Rollback, SpawnFails, Ready, NotReady, Mark, Marking, Here,
     native
<1>5. ASSUME NEW pc \in {"unsure", "rollback", "mark", "absent"}, Goto(id, pc) PROVE SInv'
  <2>1. Allows(id, pc) /\ pc \in Pcs
    BY <1>3, <1>5, Zenon DEF Allows, Creating, Pcs, Committing
  <2> QED
    BY <1>3, <1>4, <1>5, <2>1, GotoStatus, Zenon
<1>6. CASE Prepare(id)
  <2>1. Goto(id, "spawn") /\ late[id] = <<>>
    BY <1>3, <1>6, Zenon DEF Prepare, At
  <2>2. Allows(id, "spawn") /\ "spawn" \in Pcs
    BY <1>3, <2>1 DEF Allows, Creating, Pcs
  <2> QED
    BY <1>3, <1>4, <2>1, <2>2, GotoStatus, Zenon
<1>7. CASE PrepareFails(id)
  <2>1. Goto(id, "unsure") \/ Goto(id, "rollback") \/ Goto(id, "mark")
    BY <1>7, SMTT(30) DEF PrepareFails
  <2> QED
    BY <1>5, <2>1
<1>8. CASE Ready(id) /\ vm[id] = "running"
  <2>1. Goto(id, "created") /\ late[id] = <<>> /\ proc[id] = "serving"
    BY <1>3, <1>8, Zenon DEF Ready, At
  <2>2. Fits(id, "Running")
    BY <1>8, <2>1, Zenon DEF Fits
  <2>3. Allows(id, "created") /\ "created" \in Pcs
    BY <1>3, <2>1, <2>2, Zenon DEF Allows, Creating, Pcs, Committing
  <2> QED
    BY <1>3, <1>4, <2>1, <2>3, GotoStatus, Zenon
<1>9. CASE Ready(id) /\ vm[id] # "running"
  BY <1>5, <1>9, Zenon DEF Ready
<1>10. CASE Rollback(id) \/ SpawnFails(id) \/ NotReady(id)
  BY <1>5, <1>10 DEF Rollback, SpawnFails, NotReady
<1> QED
  BY <1>6, <1>7, <1>8, <1>9, <1>10, Zenon

\* The fork of the supervisor: no record says yet that anything runs.
LEMMA SpawnStatus ==
  ASSUME IInv, SInv, NEW id \in Id, Spawn(id)
  PROVE  SInv'
<1>1. /\ op \in [Id -> Ops] /\ GateInv(id) /\ StatusInv(id) /\ op[id].pc = "spawn"
      /\ proc[id] = "none" /\ late \in [Id -> Seq(Kinds)]
      /\ proc \in [Id -> {"none", "forked", "entering", "entered", "supervising",
                          "starting", "serving", "dead"}]
  BY SMTT(30) DEF IInv, TypeOK, SInv, StepInv, Spawn, At
<1>2. UNCHANGED <<up, failed, memory, disk, synced, commit, now, marks, vm, late>>
  BY DEF Spawn, Here
<1>3. op'[id].pc = "ready" /\ op'[id].kind = op[id].kind /\ \A i \in Id \ {id} : op'[i] = op[i]
  BY <1>1 DEF Spawn, Goto, Ops
<1>4. Apart(id)
  BY <1>1, <1>2, <1>3, ZenonT(60) DEF Apart, Spawn
<1>5. Keeps(id)
  BY <1>1 DEF Keeps, Fits
<1>6. StatusInv(id)'
  <2>1. disk[id].state \in States /\ synced[id].state \in States
    BY Zenon DEF IInv, TypeOK, Records
  <2> QED
    BY <1>1, <1>2, <1>5, <2>1, Zenon DEF StatusInv, Keeps
<1>7. GateInv(id)'
  <2>1. /\ memory[id] = disk[id] /\ up /\ disk[id].state \notin {"Gone", "Stopping"}
        /\ late[id] = <<>> /\ op[id].kind # "expire"
    BY <1>1, Zenon DEF GateInv, At, Creating
  <2> QED
    BY <1>2, <1>3, <2>1, Zenon DEF GateInv, At, Creating
<1> QED
  BY <1>1, <1>2, <1>4, <1>6, <1>7, SandboxStep, Zenon DEF At

\* Marking, tombstone, termination and confirmation.
LEMMA CleanupStatus ==
  ASSUME IInv, SInv, NEW id \in Id,
         MarkDeleting(id) \/ Tombstone(id) \/ Terminate(id) \/ Confirm(id) \/ CleanupFails(id)
         \/ UpdateRefused(id)
  PROVE  SInv'
<1>1. op \in [Id -> Ops] /\ marks \in [Id -> SUBSET Marks] /\ GateInv(id)
  BY Zenon DEF IInv, TypeOK, SInv
<1>2. op[id].pc \in {"rollback", "mark", "kill", "reclaim", "terminate", "confirm"} \cup Committing
  BY Zenon DEF MarkDeleting, Tombstone, Terminate, Confirm, CleanupFails, UpdateRefused, At
<1>3. Busy(id)
  BY <1>2, Zenon DEF Busy, Committing
<1>4. Marking(id)
  <2>1. UNCHANGED <<up, failed, memory, disk, synced, commit, now, proc, vm, late>>
    BY Zenon DEF MarkDeleting, Tombstone, Terminate, Confirm, CleanupFails, UpdateRefused, Here,
       store, native
  <2>2. \A i \in Id \ {id} : marks'[i] = marks[i]
    BY <1>1, Zenon DEF MarkDeleting, Tombstone, Terminate, Confirm, CleanupFails, UpdateRefused,
       Mark, FinishTombstone, Reclaimed, native
  <2> QED
    BY <2>1, <2>2 DEF Marking
<1>5. \/ Ends(id)
      \/ At(id, "mark") /\ Goto(id, "kill")
      \/ At(id, "kill") /\ Goto(id, "reclaim")
      \/ At(id, "terminate") /\ (Goto(id, "confirm") \/ Goto(id, "kill"))
      \/ At(id, "confirm") /\ Goto(id, "remove")
      \/ op[id].pc \in {"rollback", "mark", "kill", "reclaim"} /\ op[id].kind = "create"
         /\ Goto(id, "unsure")
  BY Zenon DEF MarkDeleting, Tombstone, Terminate, Confirm, CleanupFails, UpdateRefused, Unclean,
     FinishTombstone
<1>6. ASSUME NEW pc \in {"kill", "reclaim", "confirm", "remove"}, Goto(id, pc),
             \/ At(id, "mark") /\ pc = "kill"
             \/ At(id, "kill") /\ pc = "reclaim"
             \/ At(id, "terminate") /\ pc \in {"confirm", "kill"}
             \/ At(id, "confirm") /\ pc = "remove"
      PROVE  SInv'
  <2>1. Allows(id, pc) /\ pc \in Pcs
    BY <1>1, <1>6, Zenon DEF Allows, GateInv, At, Creating, Pcs, Committing
  <2> QED
    BY <1>3, <1>4, <1>6, <2>1, GotoStatus
<1>7. CASE /\ op[id].pc \in {"rollback", "mark", "kill", "reclaim"} /\ op[id].kind = "create"
           /\ Goto(id, "unsure")
  <2>1. Allows(id, "unsure") /\ "unsure" \in Pcs
    BY <1>1, <1>7, Zenon DEF Allows, GateInv, At, Creating, Pcs, Committing
  <2> QED
    BY <1>3, <1>4, <1>7, <2>1, GotoStatus, Zenon
<1>8. CASE Ends(id)
  BY <1>3, <1>4, <1>8, EndsStatus
<1>9. CASE At(id, "mark") /\ Goto(id, "kill")
  BY <1>6, <1>9, Zenon
<1>10. CASE At(id, "kill") /\ Goto(id, "reclaim")
  BY <1>6, <1>10, Zenon
<1>11. CASE At(id, "terminate") /\ (Goto(id, "confirm") \/ Goto(id, "kill"))
  BY <1>6, <1>11, Zenon
<1>12. CASE At(id, "confirm") /\ Goto(id, "remove")
  BY <1>6, <1>12
<1> QED
  BY <1>5, <1>7, <1>8, <1>9, <1>10, <1>11, <1>12, Zenon

\* Reclaiming and the inspection of a sandbox that is not being deleted.
LEMMA InspectStatus ==
  ASSUME IInv, SInv, NEW id \in Id, Reclaim(id) \/ Inspect(id)
  PROVE  SInv'
<1>1. op \in [Id -> Ops] /\ marks \in [Id -> SUBSET Marks] /\ GateInv(id)
  BY DEF IInv, TypeOK, SInv
<1>2. op[id].pc \in {"reclaim", "inspect"}
  BY DEF Reclaim, Inspect, At
<1>3. Busy(id) /\ memory[id] = disk[id]
  BY <1>1, <1>2, Zenon DEF Busy, GateInv, At
<1>4. Marking(id)
  <2>1. UNCHANGED <<up, failed, memory, disk, synced, commit, now, proc, vm, late>>
    BY Zenon DEF Reclaim, Inspect, Here
  <2>2. \A i \in Id \ {id} : marks'[i] = marks[i]
    BY <1>1, Zenon DEF Reclaim, Inspect, FinishTombstone, Reclaimed
  <2> QED
    BY <2>1, <2>2 DEF Marking
<1>5. CASE Reclaim(id)
  <2>1. op[id].pc = "reclaim"
    BY <1>5, Zenon DEF Reclaim, At
  <2>2. \/ op[id].kind = "create" /\ Goto(id, "absent")
        \/ op[id].kind # "create" /\ disk[id].state = "Stopping" /\ Goto(id, "confirm")
        \/ disk[id].state # "Stopping" /\ Observed(id, "missing")
    BY <1>3, <1>5 DEF Reclaim, Cleaned, Deleting, Status
  <2>3. "absent" \in Pcs /\ "confirm" \in Pcs
    BY Zenon DEF Pcs, Committing
  <2>4. CASE op[id].kind = "create" /\ Goto(id, "absent")
    <3>1. Allows(id, "absent")
      BY <2>4, Zenon DEF Allows, Creating
    <3> QED
      BY <1>3, <1>4, <2>3, <2>4, <3>1, GotoStatus, Zenon
  <2>5. CASE op[id].kind # "create" /\ Goto(id, "confirm")
    <3>1. Allows(id, "confirm")
      BY <2>5, Zenon DEF Allows, Creating
    <3> QED
      BY <1>3, <1>4, <2>3, <2>5, <3>1, GotoStatus, Zenon
  <2>6. CASE disk[id].state # "Stopping" /\ Observed(id, "missing")
    BY <1>3, <1>4, <2>6, ObservedStatus, Zenon
  <2> QED
    BY <2>2, <2>4, <2>5, <2>6, Zenon
<1>6. CASE Inspect(id)
  <2>1. op[id].pc = "inspect" /\ disk[id].state # "Stopping" /\ op[id].kind # "expire"
    BY <1>1, <1>6, Zenon DEF Inspect, At, GateInv
  <2>2. \/ Ends(id) \/ Observed(id, "missing") \/ Goto(id, "mark")
        \/ UNCHANGED marks /\ "deleting" \notin marks[id] /\ Goto(id, "ask")
    BY <1>6, Zenon DEF Inspect, FinishTombstone
  <2>3. "mark" \in Pcs /\ "ask" \in Pcs
    BY Zenon DEF Pcs
  <2>4. CASE Goto(id, "mark")
    <3>1. Allows(id, "mark")
      BY <2>1, Zenon DEF Allows, Creating
    <3> QED
      BY <1>3, <1>4, <2>3, <2>4, <3>1, GotoStatus
  <2>5. CASE UNCHANGED marks /\ "deleting" \notin marks[id] /\ Goto(id, "ask")
    <3>1. Allows(id, "ask")
      BY <2>1, <2>5, Zenon DEF Allows, Creating
    <3> QED
      BY <1>3, <1>4, <2>3, <2>5, <3>1, GotoStatus, Zenon
  <2>6. CASE Observed(id, "missing")
    BY <1>3, <1>4, <2>1, <2>6, ObservedStatus, Zenon
  <2>7. CASE Ends(id)
    BY <1>3, <1>4, <2>7, EndsStatus, Zenon
  <2> QED
    BY <2>2, <2>4, <2>5, <2>6, <2>7, Zenon
<1> QED
  BY <1>5, <1>6, Zenon

-----------------------------------------------------------------------------
(* Requests to the supervisor.                                             *)

\* The answer to an inspection: the state it reports is that of the VM, and no
\* request is left in the socket that could change it.
LEMMA AskStatus ==
  ASSUME IInv, SInv, NEW id \in Id, At(id, "ask"), Answer(id)
  PROVE  SInv'
<1>1. /\ GateInv(id) /\ NativeInv(id)
      /\ vm \in [Id -> {"off", "running", "paused", "stopped"}]
  BY SMTT(30) DEF IInv, TypeOK, SInv
<1>2. /\ Busy(id) /\ disk[id].state # "Stopping" /\ "deleting" \notin marks[id]
      /\ op[id].kind # "expire"
  BY <1>1, Zenon DEF GateInv, At, Busy
<1>3. proc[id] = "serving" /\ late[id] = <<>> /\ Observed(id, vm[id])
  BY Zenon DEF Answer
<1>4. vm' = vm /\ marks' = marks
  <2>1. Controlled(id, "inspect") = vm[id]
    BY Zenon DEF Controlled, Paused, Resumed
  <2> QED
    BY <1>1, <2>1, Zenon DEF Answer, Requested
<1>5. Marking(id)
  BY <1>4 DEF Marking, Answer, Here
<1>6. vm[id] \in {"running", "paused", "stopped"}
  BY <1>1, <1>3, Zenon DEF NativeInv
<1>7. /\ vm[id] = "running" => Fits(id, "Running")
      /\ vm[id] = "paused" => Fits(id, "Paused")
  BY <1>3 DEF Fits
<1> QED
  BY <1>2, <1>3, <1>4, <1>5, <1>6, <1>7, ObservedStatus, Zenon

\* The answer to a pause or a resume: the record says Pausing or Resuming until the
\* operation commits what it was told.
LEMMA RequestStatus ==
  ASSUME IInv, SInv, NEW id \in Id, At(id, "request"), Answer(id)
  PROVE  SInv'
<1>1. /\ op \in [Id -> Ops] /\ GateInv(id) /\ StatusInv(id) /\ late \in [Id -> Seq(Kinds)]
      /\ vm \in [Id -> {"off", "running", "paused", "stopped"}]
  BY Zenon DEF IInv, TypeOK, SInv
<1>2. /\ disk[id].state \in {"Pausing", "Resuming"} /\ synced[id].state \in {"Pausing", "Resuming"}
      /\ "deleting" \notin marks[id] /\ memory[id] = disk[id] /\ up
      /\ op[id].pc = "request" /\ op[id].kind # "expire"
  BY <1>1, Zenon DEF GateInv, At
<1>3. /\ proc[id] = "serving" /\ late[id] = <<>>
      /\ UNCHANGED <<up, failed, memory, disk, synced, commit, now, marks, proc, late>>
  BY Zenon DEF Answer, Here
<1>4. vm' = [vm EXCEPT ![id] = Controlled(id, op[id].kind)]
  BY <1>2, Zenon DEF Answer, Requested, At
<1>5. \/ Ends(id)
      \/ Settle(id, "Paused") /\ Paused(id, op[id].kind)
      \/ Settle(id, "Running") /\ Resumed(id, op[id].kind)
  BY <1>2 DEF Answer, At
<1>6. \A i \in Id \ {id} : op'[i] = op[i] /\ vm'[i] = vm[i]
  BY <1>1, <1>4, <1>5, Zenon DEF Ends, Settle
<1>7. Apart(id)
  BY <1>3, <1>6 DEF Apart
<1>8. StatusInv(id)'
  BY <1>2, <1>3, Zenon DEF StatusInv, Fits
<1>9. GateInv(id)'
  <2>1. CASE Ends(id)
    <3>1. op'[id] = Idle
      BY <1>1, <2>1 DEF Ends
    <3> QED
      BY <3>1, EndsGate
  <2>2. ASSUME NEW to \in {"Paused", "Running"}, Settle(id, to),
               vm'[id] = IF to = "Running" THEN "running" ELSE "paused"
        PROVE  GateInv(id)'
    <3>1. op'[id].pc = "settle" /\ op'[id].to = to /\ op'[id].kind = op[id].kind
      BY <1>1, <2>2, Zenon DEF Settle, Ops
    <3>2. Fits(id, to)'
      BY <1>3, <2>2, Zenon DEF Fits
    <3> QED
      BY <1>2, <1>3, <3>1, <3>2, Zenon DEF GateInv, At, Creating
  <2>3. Paused(id, op[id].kind) => vm'[id] = "paused"
    BY <1>1, <1>2, <1>4, Zenon DEF Controlled
  <2>4. Resumed(id, op[id].kind) => vm'[id] = "running"
    BY <1>1, <1>2, <1>4, Zenon DEF Controlled, Paused, Resumed
  <2> QED
    BY <1>5, <2>1, <2>2, <2>3, <2>4, Zenon
<1> QED
  BY <1>1, <1>2, <1>3, <1>7, <1>8, <1>9, SandboxStep, Zenon DEF At

\* A call without an answer: its request may be left in the socket, but then the
\* records say Pausing or Resuming.
LEMMA LostStatus ==
  ASSUME IInv, SInv, NEW id \in Id, Unanswered(id) \/ LostAnswer(id)
  PROVE  SInv'
<1>1. /\ op \in [Id -> Ops] /\ GateInv(id) /\ StatusInv(id) /\ late \in [Id -> Seq(Kinds)]
      /\ op[id].pc \in {"ask", "request"}
  BY Zenon DEF IInv, TypeOK, SInv, Unanswered, LostAnswer, Asking
<1>2. Busy(id) /\ Ends(id)
  BY <1>1, Zenon DEF Busy, Unanswered, LostAnswer
<1>3. UNCHANGED <<up, failed, memory, disk, synced, commit, now, marks, proc, vm>>
  BY DEF Unanswered, LostAnswer, Here, native
<1>4. CASE UNCHANGED late
  <2>1. Marking(id)
    BY <1>3, <1>4 DEF Marking
  <2> QED
    BY <1>2, <2>1, EndsStatus, Zenon
<1>5. CASE At(id, "request") /\ late' = [late EXCEPT ![id] = Append(@, op[id].kind)]
  <2>1. op[id].kind \in Kinds /\ late[id] \in Seq(Kinds)
    BY <1>1, Zenon DEF Ops, Kinds
  <2>2. Append(late[id], op[id].kind) \in Seq(Kinds)
    BY <2>1
  <2>3. late' \in [Id -> Seq(Kinds)] /\ \A i \in Id \ {id} : late'[i] = late[i]
    BY <1>1, <1>5, <2>2, Zenon
  <2>4. op'[id] = Idle /\ \A i \in Id \ {id} : op'[i] = op[i]
    BY <1>1, <1>2, Zenon DEF Ends
  <2>5. Apart(id)
    BY <1>3, <2>3, <2>4 DEF Apart
  <2>6. disk[id].state \in {"Pausing", "Resuming"} /\ synced[id].state \in {"Pausing", "Resuming"}
    BY <1>1, <1>5, Zenon DEF GateInv
  <2>7. StatusInv(id)'
    BY <1>1, <1>3, <2>6, Zenon DEF StatusInv, Fits
  <2>8. GateInv(id)'
    BY <2>4, EndsGate
  <2> QED
    BY <1>2, <1>3, <2>3, <2>5, <2>7, <2>8, SandboxStep, Zenon DEF At, Busy
<1> QED
  BY <1>4, <1>5, Zenon DEF Unanswered, LostAnswer, native

\* A request without a client is served while no record says Running or Paused.
LEMMA ServeLateStatus ==
  ASSUME IInv, SInv, NEW id \in Id, ServeLate(id)
  PROVE  SInv'
<1>1. /\ late \in [Id -> Seq(Kinds)] /\ vm \in [Id -> {"off", "running", "paused", "stopped"}]
  BY Zenon DEF IInv, TypeOK, SInv
<1>2. /\ late[id] # <<>> /\ late[id] \in Seq(Kinds)
      /\ UNCHANGED <<up, failed, memory, disk, synced, commit, now, op, marks, proc>>
  BY <1>1, Zenon DEF ServeLate, Here
<1>3. Tail(late[id]) \in Seq(Kinds)
  BY <1>2
<1>4. late' \in [Id -> Seq(Kinds)] /\ \A i \in Id \ {id} : late'[i] = late[i] /\ vm'[i] = vm[i]
  BY <1>1, <1>3, Zenon DEF ServeLate
<1>5. Apart(id)
  BY <1>2, <1>4, Zenon DEF Apart
<1>6. Keeps(id)
  BY <1>2, SMTT(30) DEF Keeps, Fits
<1> QED
  BY <1>2, <1>4, <1>5, <1>6, VmStep, Zenon

-----------------------------------------------------------------------------
(* The supervisor and the guest.                                           *)

\* A process that dies fits every record.
LEMMA DeadStatus ==
  ASSUME IInv, SInv, NEW id \in Id, Kill(id) \/ SupervisorDies(id)
  PROVE  SInv'
<1>1. /\ late \in [Id -> Seq(Kinds)] /\ vm \in [Id -> {"off", "running", "paused", "stopped"}]
      /\ proc \in [Id -> {"none", "forked", "entering", "entered", "supervising",
                          "starting", "serving", "dead"}]
  BY Zenon DEF IInv, TypeOK, SInv
<1>2. /\ UNCHANGED <<up, failed, memory, disk, synced, commit, now, op, marks>>
      /\ proc' = [proc EXCEPT ![id] = "dead"] /\ vm' = [vm EXCEPT ![id] = "off"]
      /\ late' = [late EXCEPT ![id] = <<>>]
  BY DEF Kill, SupervisorDies, Here
<1>3. <<>> \in Seq(Kinds)
  OBVIOUS
<1>4. /\ late' \in [Id -> Seq(Kinds)] /\ late'[id] = <<>> /\ proc'[id] = "dead"
      /\ \A i \in Id \ {id} : late'[i] = late[i] /\ vm'[i] = vm[i] /\ proc'[i] = proc[i]
  BY <1>1, <1>2, <1>3, Zenon
<1>5. Apart(id)
  BY <1>2, <1>4, Zenon DEF Apart
<1>6. Keeps(id)
  BY <1>4 DEF Keeps, Fits
<1> QED
  BY <1>2, <1>4, <1>5, <1>6, VmStep, Zenon

\* Until it serves its socket, a supervisor fits no record that it could contradict.
LEMMA ChildStatus ==
  ASSUME IInv, SInv, NEW id \in Id,
         Enter(id) \/ Join(id) \/ Supervise(id) \/ MarkStarted(id) \/ Serve(id)
  PROVE  SInv'
<1>1. /\ marks \in [Id -> SUBSET Marks]
      /\ late \in [Id -> Seq(Kinds)] /\ vm \in [Id -> {"off", "running", "paused", "stopped"}]
      /\ proc \in [Id -> {"none", "forked", "entering", "entered", "supervising",
                          "starting", "serving", "dead"}]
  BY Zenon DEF IInv, TypeOK, SInv
<1>2. proc[id] \in {"forked", "entering", "entered", "supervising", "starting"}
  BY DEF Enter, Join, Supervise, MarkStarted, Serve
<1>3. UNCHANGED <<up, failed, memory, disk, synced, commit, now, op, late>>
  BY ZenonT(60) DEF Enter, Join, Supervise, MarkStarted, Serve, Child, Here
<1>4. \A i \in Id \ {id} : marks'[i] = marks[i] /\ vm'[i] = vm[i] /\ proc'[i] = proc[i]
  BY <1>1, Zenon DEF Enter, Join, Supervise, MarkStarted, Serve, Child, Mark
<1>5. "deleting" \notin marks[id] => "deleting" \notin marks'[id]
  BY <1>1 DEF Enter, Join, Supervise, MarkStarted, Serve, Mark
<1>6. Apart(id)
  BY <1>3, <1>4, Zenon DEF Apart
<1>7. Keeps(id)
  BY <1>2, ZenonT(60) DEF Keeps, Fits
<1> QED
  BY <1>1, <1>3, <1>5, <1>6, <1>7, VmStep, Zenon

\* A guest that ends by itself is reported stopped, which fits a running VM's record.
LEMMA GuestStatus ==
  ASSUME IInv, SInv, NEW id \in Id, GuestStops(id)
  PROVE  SInv'
<1>1. vm \in [Id -> {"off", "running", "paused", "stopped"}] /\ late \in [Id -> Seq(Kinds)]
  BY Zenon DEF IInv, TypeOK, SInv
<1>2. /\ vm'[id] = "stopped" /\ \A i \in Id \ {id} : vm'[i] = vm[i]
      /\ UNCHANGED <<up, failed, memory, disk, synced, commit, now, op, marks, proc, late>>
  BY <1>1, Zenon DEF GuestStops, Here
<1>3. Apart(id)
  BY <1>2, Zenon DEF Apart
<1>4. Keeps(id)
  BY <1>2 DEF Keeps, Fits
<1> QED
  BY <1>1, <1>2, <1>3, <1>4, VmStep, Zenon

-----------------------------------------------------------------------------
(* The daemon process and the machine.                                     *)

\* Whatever records a restart finds, the VM fits them and no deletion intent is
\* withdrawn.
LEMMA VisibleStatus ==
  ASSUME IInv, SInv, NEW d \in Visible, NEW id \in Id
  PROVE  /\ d[id] \in Records /\ Fits(id, d[id].state)
         /\ "Stopping" \in {disk[id].state, synced[id].state} => d[id].state \in {"Stopping", "Gone"}
         /\ At(id, "fresh") => d[id] = Gone
<1>1. /\ disk \in [Id -> Records] /\ StatusInv(id) /\ GateInv(id)
  BY DEF IInv, TypeOK, SInv
<1>2. CASE d[id] = disk[id]
  BY <1>1, <1>2, Zenon DEF StatusInv, GateInv
<1>3. ASSUME NEW c \in commit, c.id = id, d[id] = c.rec
      PROVE  /\ d[id] \in Records /\ Fits(id, d[id].state)
             /\ "Stopping" \in {disk[id].state, synced[id].state} =>
                  d[id].state \in {"Stopping", "Gone"}
             /\ At(id, "fresh") => d[id] = Gone
  <2>1. c.rec \in Records /\ RecInv(c) /\ op[id].pc = "committing"
    BY <1>3 DEF IInv, TypeOK, SInv, CommitInv
  <2> QED
    BY <1>3, <2>1, Zenon DEF RecInv, At
<1>4. d[id] = disk[id] \/ \E c \in commit : c.id = id /\ d[id] = c.rec
  BY <1>1 DEF Visible
<1> QED
  BY <1>2, <1>3, <1>4, Zenon

\* A power loss keeps of each record what was visible or what was synced.
LEMMA PowerLossPicks ==
  ASSUME PowerLoss
  PROVE  \E d \in Visible, kept \in SUBSET Id :
           disk' = [id \in Id |-> IF id \in kept THEN d[id] ELSE synced[id]]
<1>1. disk' \in {[id \in Id |-> IF id \in kept THEN d[id] ELSE synced[id]] :
                    d \in Visible, kept \in SUBSET Id}
  BY SMTT(30) DEF PowerLoss
<1> QED
  BY <1>1

\* A stopped daemon leaves no operation and no commit behind.
LEMMA DownStatus ==
  ASSUME IInv, SInv, Down, late' \in [Id -> Seq(Kinds)],
         \A id \in Id :
            /\ StatusInv(id)'
            /\ At(id, "fresh") => disk'[id] = Gone /\ synced'[id] = Gone /\ late'[id] = <<>>
  PROVE  SInv'
<1>1. commit' = {} /\ ~Serving'
  BY Zenon DEF Down, Serving
<1>2. ASSUME NEW id \in Id PROVE GateInv(id)'
  <2>1. CASE At(id, "fresh")
    <3>1. op'[id] = Fresh /\ memory'[id] = Gone /\ disk'[id] = Gone /\ synced'[id] = Gone
          /\ late'[id] = <<>>
      BY <2>1, Zenon DEF Down
    <3>2. Fresh.pc = "fresh" /\ Fresh.kind = "none"
      BY Zenon DEF Fresh
    <3> QED
      BY <3>1, <3>2, ZenonT(60) DEF GateInv, At, Creating
  <2>2. CASE ~At(id, "fresh")
    <3>1. op'[id] = Idle
      BY <2>2 DEF Down
    <3> QED
      BY <3>1, EndsGate, Zenon
  <2> QED
    BY <2>1, <2>2
<1> QED
  BY <1>1, <1>2, Zenon DEF SInv

\* Stops, power losses, restarts and the clock.
LEMMA MachineStatus ==
  ASSUME IInv, SInv, Stop \/ PowerLoss \/ Open \/ Tick
  PROVE  SInv'
<1>1. /\ late \in [Id -> Seq(Kinds)]
      /\ commit # {} => Serving
      /\ \A id \in Id : StatusInv(id) /\ GateInv(id)
  BY Zenon DEF SInv
<1>2. CASE Stop
  <2>1. Down /\ disk' \in Visible /\ UNCHANGED <<synced, proc, vm, late>>
    BY <1>2, Zenon DEF Stop
  <2>2. ASSUME NEW id \in Id
        PROVE  /\ StatusInv(id)'
               /\ At(id, "fresh") => disk'[id] = Gone /\ synced'[id] = Gone /\ late'[id] = <<>>
    <3>1. \A st : Fits(id, st)' = Fits(id, st)
      BY <2>1, SameFits, Zenon
    <3>2. /\ Fits(id, disk'[id].state) /\ (At(id, "fresh") => disk'[id] = Gone)
          /\ synced[id].state = "Stopping" => disk'[id].state \in {"Stopping", "Gone"}
      BY <2>1, VisibleStatus
    <3>3. StatusInv(id) /\ (At(id, "fresh") => synced[id] = Gone /\ late[id] = <<>>)
      BY <1>1, Zenon DEF GateInv, At
    <3> QED
      BY <2>1, <3>1, <3>2, <3>3, Zenon DEF StatusInv
  <2>3. late' \in [Id -> Seq(Kinds)]
    BY <1>1, <2>1, Zenon
  <2> QED
    BY <2>1, <2>2, <2>3, DownStatus, Zenon
<1>3. CASE PowerLoss
  <2>1. /\ Down /\ synced' = disk'
        /\ proc' = [id \in Id |-> IF proc[id] = "none" THEN "none" ELSE "dead"]
        /\ late' = [id \in Id |-> <<>>]
    BY <1>3 DEF PowerLoss
  <2>2. PICK d \in Visible, kept \in SUBSET Id :
          disk' = [id \in Id |-> IF id \in kept THEN d[id] ELSE synced[id]]
    BY <1>3, PowerLossPicks
  <2>3. late' \in [Id -> Seq(Kinds)]
    <3>1. <<>> \in Seq(Kinds)
      BY SMTT(30), Z3T(30)
    <3> QED
      BY <2>1, <3>1
  <2>4. ASSUME NEW id \in Id
        PROVE  /\ StatusInv(id)'
               /\ At(id, "fresh") => disk'[id] = Gone /\ synced'[id] = Gone /\ late'[id] = <<>>
    <3>1. disk'[id] \in {d[id], synced[id]} /\ synced'[id] = disk'[id] /\ late'[id] = <<>>
          /\ proc'[id] = IF proc[id] = "none" THEN "none" ELSE "dead"
      BY <2>1, <2>2
    <3>2. Fits(id, d[id].state) /\ Fits(id, synced[id].state)
          /\ (At(id, "fresh") => d[id] = Gone /\ synced[id] = Gone)
      BY <1>1, VisibleStatus, Zenon DEF StatusInv, GateInv
    <3>3. \A st : Fits(id, st) => Fits(id, st)'
      BY <3>1, Zenon DEF Fits
    <3>4. Fits(id, disk[id].state)'
      BY <3>1, <3>2, <3>3, Zenon
    <3> QED
      BY <3>1, <3>2, <3>4, Zenon DEF StatusInv
  <2> QED
    BY <2>1, <2>3, <2>4, DownStatus, Zenon
<1>4. CASE Open \/ Tick
  <2>1. /\ UNCHANGED <<failed, disk, synced, commit, op, marks, proc, vm, late>>
        /\ Open => up' = TRUE /\ memory' = disk /\ now' = now /\ up = FALSE
        /\ Tick => up' = up /\ memory' = memory /\ now' = now + 1
    BY <1>4, Zenon DEF Open, Tick, store, native, IInv, TypeOK
  <2>2. ASSUME NEW id \in Id PROVE StatusInv(id)' /\ GateInv(id)'
    <3>1. \A st : Fits(id, st)' = Fits(id, st)
      BY <2>1, SameFits, Zenon
    <3>2. Expired(disk[id]) => Expired(disk[id])'
      <4>1. disk[id].until \in Nat /\ now \in Nat
        BY Zenon DEF IInv, TypeOK, Records
      <4>2. now' \in Nat /\ now <= now'
        BY <1>4, <2>1, <4>1
      <4> QED
        BY <2>1, <4>1, <4>2 DEF Expired
    <3>3. StatusInv(id) /\ GateInv(id)
      BY <1>1
    <3>4. StatusInv(id)'
      BY <2>1, <3>1, <3>3, Zenon DEF StatusInv
    <3>5. (~At(id, "idle") => memory'[id] = disk'[id]) /\ (up => up')
      BY <1>4, <2>1, <3>3, Zenon DEF GateInv
    <3>6. GateInv(id)'
      BY <2>1, <3>1, <3>2, <3>3, <3>5, ZenonT(60) DEF GateInv, At
    <3> QED
      BY <3>4, <3>6
  <2>3. ASSUME NEW c \in commit PROVE RecInv(c)'
    <3>1. RecInv(c) /\ Fits(c.id, c.rec.state)' = Fits(c.id, c.rec.state)
      BY <2>1, SameFits, Zenon DEF SInv
    <3> QED
      BY <2>1, <3>1, Zenon DEF RecInv
  <2>4. (Serving => memory = disk)' /\ (commit # {} => Serving)'
    BY <1>1, <1>4, <2>1 DEF SInv, Serving
  <2> QED
    BY <1>1, <2>1, <2>2, <2>3, <2>4 DEF SInv
<1> QED
  BY <1>2, <1>3, <1>4, Zenon

-----------------------------------------------------------------------------
\* Every step keeps the invariant.
LEMMA NextStatus == LoadOK /\ IInv /\ SInv /\ [Next]_<<load, vars>> => SInv'
<1> SUFFICES ASSUME LoadOK, IInv, SInv, [Next]_<<load, vars>> PROVE SInv'
  BY Zenon
<1>1. CASE UNCHANGED vars
  BY <1>1, StatusUntouched, Zenon DEF vars
<1>2. ASSUME NEW id \in Id, Request(id) PROVE SInv'
  BY <1>2, RequestCases, AdmitStatus, BeginStatus
<1>3. ASSUME NEW id \in Id, Scan(id) \/ Cleanup(id) PROVE SInv'
  BY <1>3, BeginStatus, Zenon
<1>4. ASSUME NEW id \in Id, Answer(id) PROVE SInv'
  <2>1. At(id, "ask") \/ At(id, "request")
    BY <1>4, Zenon DEF Answer, Asking, At
  <2> QED
    BY <1>4, <2>1, AskStatus, RequestStatus
<1>5. ASSUME NEW id \in Id, Step(id) PROVE SInv'
  BY <1>4, <1>5, UpdateStatus, CommitEndsStatus, CreationStatus, SpawnStatus, CleanupStatus,
     DeadStatus, InspectStatus, LostStatus DEF Step
<1>6. ASSUME NEW id \in Id, StepFails(id) PROVE SInv'
  BY <1>6, CommitEndsStatus, CreationStatus, CleanupStatus, LostStatus, Zenon DEF StepFails
<1>7. ASSUME NEW id \in Id, Supervisor(id) \/ GuestStops(id) \/ SupervisorDies(id)
      PROVE  SInv'
  BY <1>7, ChildStatus, ServeLateStatus, GuestStatus, DeadStatus DEF Supervisor
<1>8. CASE Stop \/ PowerLoss \/ Open \/ Tick
  BY <1>8, MachineStatus
<1> QED
  BY <1>1, <1>2, <1>3, <1>5, <1>6, <1>7, <1>8, Zenon DEF Next

\* The inductive invariant: the VM fits every record that a call, a restart or a power
\* loss can find, and each operation knows what it has read under the gate.
THEOREM StatusInvariant == Spec => []SInv
<1> QED
  BY InitStatus, NextStatus, LoadFixed, DaemonInvariant, PTL DEF Spec

\* Between operations a status Running or Paused is that of the live VM, for every set
\* of identifiers and any number of lost answers, late requests, crashes and power
\* losses: before a pause or resume is sent its intention is recorded, and only an
\* answer that no older request can follow settles it (control_locked, get_owned).
THEOREM StatusSettled == Spec => []SettledStatus
<1>1. SInv => SettledStatus
  BY DEF SInv, StatusInv, Fits, SettledStatus, Status
<1> QED
  BY <1>1, StatusInvariant, PTL

\* A durable deletion intent stands until the record is gone, also across restarts and
\* power losses, and a cleanup makes it durable only for a deadline that has passed,
\* whatever was renewed after the scan (delete_conditionally, delete_locked).
THEOREM IntentStands == Spec => DeletionIntent
<1> DEFINE Intent == \A id \in Id :
      /\ synced[id].state = "Stopping" => synced'[id].state \in {"Stopping", "Gone"}
      /\ (disk'[id].state = "Stopping" /\ disk[id].state # "Stopping"
            /\ op[id].kind = "expire") => Expired(disk[id])
<1>1. IInv /\ SInv /\ [Next]_<<load, vars>> => [Intent]_vars
  <2> SUFFICES ASSUME IInv, SInv, Next, NEW id \in Id
               PROVE  /\ synced[id].state = "Stopping" => synced'[id].state \in {"Stopping", "Gone"}
                      /\ op[id].kind = "expire" /\ disk[id].state # "Stopping" => Expired(disk[id])
    BY Zenon DEF vars
  <2>1. op[id].kind = "expire" /\ disk[id].state # "Stopping" => Expired(disk[id])
    BY Zenon DEF SInv, GateInv
  <2>2. CASE synced' = synced
    BY <2>1, <2>2, Zenon
  <2>3. ASSUME NEW c \in commit, Lands(c)
        PROVE  synced[id].state = "Stopping" => synced'[id].state \in {"Stopping", "Gone"}
    <3>1. RecInv(c) /\ synced \in [Id -> Records] /\ synced' = [synced EXCEPT ![c.id] = c.rec]
      BY <2>3 DEF SInv, IInv, TypeOK, Lands
    <3>2. synced'[id] = IF id = c.id THEN c.rec ELSE synced[id]
      BY <3>1
    <3> QED
      BY <3>1, <3>2, Zenon DEF RecInv
  <2>4. CASE PowerLoss
    <3>1. PICK d \in Visible, kept \in SUBSET Id :
            disk' = [i \in Id |-> IF i \in kept THEN d[i] ELSE synced[i]]
      BY <2>4, PowerLossPicks, Zenon
    <3>2. synced'[id] \in {d[id], synced[id]}
      BY <2>4, <3>1, Zenon DEF PowerLoss
    <3> QED
      BY <2>1, <3>2, VisibleStatus, ZenonT(60)
  <2>5. \/ synced' = synced \/ PowerLoss \/ \E c \in commit : Lands(c)
    <3>1. ASSUME NEW i \in Id, Request(i) \/ Scan(i) \/ Cleanup(i) PROVE synced' = synced
      BY <3>1, Zenon DEF Request, Create, Renew, Get, Controls, Delete, Scan, Cleanup, store
    <3>2. ASSUME NEW i \in Id, Step(i), ~\E c \in commit : Lands(c) PROVE synced' = synced
      BY <3>2, Zenon DEF Step, Update, UpdateRefused, Prepare, Rollback, Spawn, Ready, NotReady,
         MarkDeleting, Kill, Tombstone, Reclaim, Inspect, Terminate, Confirm, Answer,
         Unanswered, Here, store
    <3>3. ASSUME NEW i \in Id, StepFails(i) PROVE synced' = synced
      BY <3>3, Zenon DEF StepFails, BudgetRejected, CommitUnknown, PrepareFails, SpawnFails,
         CleanupFails, LostAnswer, Here, store
    <3>4. ASSUME NEW i \in Id, Supervisor(i) \/ GuestStops(i) \/ SupervisorDies(i)
          PROVE  synced' = synced
      BY <3>4, Zenon DEF Supervisor, Enter, Join, Supervise, MarkStarted, Serve, ServeLate, Child,
         GuestStops, SupervisorDies, Here
    <3>5. CASE Stop \/ Open \/ Tick
      BY <3>5 DEF Stop, Open, Tick, store
    <3> QED
      BY <3>1, <3>2, <3>3, <3>4, <3>5 DEF Next
  <2> QED
    BY <2>1, <2>2, <2>3, <2>4, <2>5, Zenon
<1>2. [][Intent]_vars => DeletionIntent
  BY DEF DeletionIntent
<1> HIDE DEF Intent
<1> QED
  BY <1>1, <1>2, DaemonInvariant, StatusInvariant, PTL DEF Spec
=============================================================================
