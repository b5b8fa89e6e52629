-------------------------------- MODULE Daemon --------------------------------
(***************************************************************************)
(* The sandbox daemon of one node (pvisor-daemon): the lifecycle           *)
(* operations of daemon/mod.rs and the E2B timeout of daemon/e2b.rs, the   *)
(* record store they commit to (daemon/store.rs), and the native runtime   *)
(* they drive (runtime.rs) down to the marker files, the owner lock, the   *)
(* cgroup and the detached supervisor of each sandbox.                     *)
(*                                                                         *)
(* The daemon persists an intention before each native effect and removes  *)
(* a record, which frees its capacity, only once the native sandbox is     *)
(* known to be absent.  The supervisor is another process: it survives the *)
(* daemon, it may still be on its way to exec when the daemon that forked  *)
(* it is gone, and it serves requests whose client has given up.           *)
(***************************************************************************)
EXTENDS Naturals, Sequences, FiniteSets

CONSTANTS
    Id,     \* the sandbox identifiers that creations draw, each one once
    Loads   \* the capacity of a node and the bounds of a behaviour: the identifiers
            \* drawn, the controls asked for, the troubles and the last instant

ASSUME IdAssumption == IsFiniteSet(Id)
ASSUME LoadsAssumption ==
    Loads \subseteq [places : Nat \ {0}, ids : SUBSET Id,
                    controls : SUBSET {"pause", "resume"}, troubles : Nat, end : Nat]

VARIABLES
    load,      \* the capacity and the bounds of this behaviour, they never change
    up,        \* the daemon process runs
    failed,    \* storage_failed: a commit ended with an unknown outcome
    memory,    \* Daemon::registry
    disk,      \* the records directory as a process reads it
    synced,    \* the records directory as a power loss leaves it
    commit,    \* the update that holds `commits`: a set of at most one
    op,        \* the lifecycle operation that holds the gate of each sandbox
    scanned,   \* the sandboxes the maintenance scan has handed to a cleanup
    marks,     \* the files of each native sandbox directory
    lock,      \* the holder of each owner.lock
    proc,      \* the supervisor process of each sandbox
    vm,        \* the state that the supervisor's Execution reports
    late,      \* requests in a supervisor's socket whose client has given up
    now,       \* the clock
    troubles   \* crashes, power losses, failed calls and timeouts still to come

store == <<memory, disk, synced>>
native == <<marks, lock, proc, vm, late>>
vars == <<up, failed, memory, disk, synced, commit, op, scanned, marks, lock,
          proc, vm, late, now, troubles>>

MaxSandboxes == load.places  \* Config::max_sandboxes
MaxTime == load.end

-----------------------------------------------------------------------------
(* Records.  `until` is expires_at, 0 when the sandbox has no deadline.    *)

Gone == [state |-> "Gone", until |-> 0]
States == {"Gone", "Pending", "Running", "Paused", "Pausing", "Resuming",
           "Stopping", "Terminated", "Failed"}

Present(id) == memory[id] # Gone
Status(id) == memory[id].state
Expired(r) == r.until # 0 /\ r.until <= now

\* The marker files.  "reclaimed" stands for the deleted marker, the removal of
\* everything but the barrier files, and the removal of the cgroup.
Marks == {"dir", "preparing", "identity", "started", "deleting", "tombstone",
          "reclaimed"}

\* The processes charged to the sandbox's cgroup: cgroup.events says populated.
Populated(id) == proc[id] \in {"entered", "supervising", "starting", "serving"}

Fresh == [kind |-> "none", pc |-> "fresh", to |-> "Gone"]
Idle == [kind |-> "none", pc |-> "idle", to |-> "Gone"]
At(id, pc) == op[id].pc = pc
Goto(id, pc) == op' = [op EXCEPT ![id].pc = pc]
Ends(id) == op' = [op EXCEPT ![id] = Idle]
Settle(id, to) == op' = [op EXCEPT ![id].pc = "settle", ![id].to = to]

\* The daemon may serve a call.
Serving == up /\ ~failed

Trouble == troubles > 0 /\ troubles' = troubles - 1

-----------------------------------------------------------------------------
(* Daemon::update: the change is computed and the record committed under   *)
(* one lock; readers see the last committed record in the meantime.        *)

HoldsCapacity == {id \in Id : Present(id)}

\* The record and the next step that each committing step asks for.
Change(id) ==
    LET r == memory[id] k == op[id].kind IN
    CASE At(id, "created") -> [rec |-> [r EXCEPT !.state = "Running"], next |-> "idle"]
      [] At(id, "unsure") -> [rec |-> [r EXCEPT !.state = "Failed"], next |-> "idle"]
      [] At(id, "settle") -> [rec |-> [r EXCEPT !.state = op[id].to], next |-> "idle"]
      [] At(id, "intend") ->
           [rec |-> [r EXCEPT !.state = IF k = "pause" THEN "Pausing" ELSE "Resuming"],
            next |-> "request"]
      [] At(id, "stopping") -> [rec |-> [r EXCEPT !.state = "Stopping"], next |-> "terminate"]
      [] At(id, "absent") \/ At(id, "remove") -> [rec |-> Gone, next |-> "idle"]

Committing == {"created", "unsure", "settle", "intend", "stopping", "absent", "remove"}

Held(id, rec, next) == commit' = {[id |-> id, rec |-> rec, next |-> next]}

\* commits is taken, ensure_storage passes and the change is computed.
Update(id) ==
    /\ commit = {} /\ ~failed /\ op[id].pc \in Committing
    /\ Held(id, Change(id).rec, Change(id).next)
    /\ Goto(id, "committing")
    /\ UNCHANGED <<up, failed, store, scanned, native, now, troubles>>

\* ensure_storage refuses: the operation returns 503 and releases the gate.
UpdateRefused(id) ==
    /\ failed /\ op[id].pc \in Committing
    /\ Ends(id)
    /\ UNCHANGED <<up, failed, store, commit, scanned, native, now, troubles>>

After(c) == IF c.next = "idle" THEN Ends(c.id) ELSE Goto(c.id, c.next)

\* commit_record renames or unlinks and syncs the directory, then the registry
\* in memory follows.
Lands(c) ==
    /\ c \in commit
    /\ memory' = [memory EXCEPT ![c.id] = c.rec]
    /\ disk' = [disk EXCEPT ![c.id] = c.rec]
    /\ synced' = [synced EXCEPT ![c.id] = c.rec]
    /\ commit' = commit \ {c}
    /\ After(c)
    /\ UNCHANGED <<up, failed, scanned, native, now, troubles>>

\* BudgetRejected: nothing was attempted on disk, the operation returns 429.
BudgetRejected(c) ==
    /\ c \in commit /\ c.rec # Gone
    /\ Trouble
    /\ commit' = commit \ {c} /\ Ends(c.id)
    /\ UNCHANGED <<up, failed, store, scanned, native, now>>

\* Mutant: a failed commit is reported but does not stop later mutations.
CommitUnlatched(c) ==
    /\ c \in commit
    /\ Trouble
    /\ disk' \in {disk, [disk EXCEPT ![c.id] = c.rec]}
    /\ commit' = commit \ {c} /\ Ends(c.id)
    /\ UNCHANGED <<up, failed, memory, synced, scanned, native, now>>

\* Any other failure: the rename or unlink may have happened before it.
CommitUnknown(c) ==
    /\ c \in commit
    /\ Trouble
    /\ failed' = TRUE
    /\ disk' \in {disk, [disk EXCEPT ![c.id] = c.rec]}
    /\ commit' = commit \ {c} /\ Ends(c.id)
    /\ UNCHANGED <<up, memory, synced, scanned, native, now>>

-----------------------------------------------------------------------------
(* The operations up to their first native call or commit.  Each one waits *)
(* for the gate of its sandbox and only then reads the record.             *)

Starts(id, kind, pc) ==
    op' = [op EXCEPT ![id] = [kind |-> kind, pc |-> pc, to |-> "Gone"]]
Begin(id) == Serving /\ At(id, "idle") /\ Present(id)

\* Mutant: the capacity is checked against the records committed so far without
\* holding the commit lock.
CreateUnserialised(id, until) ==
    /\ Serving /\ At(id, "fresh")
    /\ Cardinality(HoldsCapacity) < MaxSandboxes
    /\ commit' = commit \cup {[id |-> id, rec |-> [state |-> "Pending", until |-> until],
                               next |-> "prepare"]}
    /\ Starts(id, "create", "committing")
    /\ UNCHANGED <<up, failed, store, scanned, native, now, troubles>>

\* create_admitted: a new identifier, the gate is held before the Pending record
\* is exposed, and the capacity check is part of the committed change.
Create(id, until) ==
    /\ Serving /\ At(id, "fresh") /\ commit = {}
    /\ Cardinality(HoldsCapacity) < MaxSandboxes
    /\ until = 0 \/ until > now
    /\ Held(id, [state |-> "Pending", until |-> until], "prepare")
    /\ Starts(id, "create", "committing")
    /\ UNCHANGED <<up, failed, store, scanned, native, now, troubles>>

\* get_owned: a record that is being deleted is returned as it stands.
Get(id) ==
    /\ Begin(id) /\ Status(id) # "Stopping"
    /\ Starts(id, "get", "inspect")
    /\ UNCHANGED <<up, failed, store, commit, scanned, native, now, troubles>>

\* control_locked up to its first inspection.
Controls(id, kind) ==
    /\ Begin(id) /\ Status(id) \in {"Running", "Paused", "Pausing", "Resuming"}
    /\ ~Expired(memory[id])
    /\ Starts(id, kind, "inspect")
    /\ UNCHANGED <<up, failed, store, commit, scanned, native, now, troubles>>

Delete(id) ==
    /\ Begin(id)
    /\ Starts(id, "delete", "stopping")
    /\ UNCHANGED <<up, failed, store, commit, scanned, native, now, troubles>>

\* renew_owned, and replace_timeout of the E2B interface, which may shorten.
Renews(id, until) ==
    /\ until > now /\ ~Expired(memory[id])
    /\ \/ /\ Status(id) \notin {"Stopping", "Terminated", "Failed"}
          /\ until > memory[id].until
       \/ Status(id) \in {"Running", "Paused"}

Renew(id, until) ==
    /\ Begin(id) /\ commit = {} /\ Renews(id, until)
    /\ Held(id, [memory[id] EXCEPT !.until = until], "idle")
    /\ Starts(id, "renew", "committing")
    /\ UNCHANGED <<up, failed, store, scanned, native, now, troubles>>

\* Mutant: the scan looks at the deadlines only.
ScanDeadlines(id) ==
    /\ Serving /\ Present(id) /\ Expired(memory[id])
    /\ id \notin scanned /\ op[id].kind # "expire"
    /\ scanned' = scanned \cup {id}
    /\ UNCHANGED <<up, failed, store, commit, op, native, now, troubles>>

\* One tick of start_maintenance: a record due for cleanup that is not in flight.
Scan(id) ==
    /\ Serving /\ Present(id)
    /\ Expired(memory[id]) \/ Status(id) = "Stopping"
    /\ id \notin scanned /\ op[id].kind # "expire"
    /\ scanned' = scanned \cup {id}
    /\ UNCHANGED <<up, failed, store, commit, op, native, now, troubles>>

\* Mutant: the cleanup trusts the scan.
CleanupUnchecked(id) ==
    /\ up /\ id \in scanned /\ At(id, "idle")
    /\ scanned' = scanned \ {id}
    /\ IF Serving /\ Present(id) THEN Starts(id, "expire", "stopping") ELSE UNCHANGED op
    /\ UNCHANGED <<up, failed, store, commit, native, now, troubles>>

\* delete_conditionally(expired_only): the deadline is read again under the gate.
Cleanup(id) ==
    /\ up /\ id \in scanned /\ At(id, "idle")
    /\ scanned' = scanned \ {id}
    /\ IF Serving /\ Present(id) /\ (Status(id) = "Stopping" \/ Expired(memory[id]))
       THEN Starts(id, "expire", "stopping") ELSE UNCHANGED op
    /\ UNCHANGED <<up, failed, store, commit, native, now, troubles>>

-----------------------------------------------------------------------------
(* NativeRuntime::create, under the gate of the new sandbox.               *)

Here == <<up, failed, memory, disk, synced, commit, scanned, now>>
Mark(id, names) == marks' = [marks EXCEPT ![id] = @ \cup names]

\* The stages of the preparation, each one made durable before the next.
Stages == <<{}, {"dir"}, {"dir", "preparing"}, {"dir", "preparing", "identity"}>>

Prepare(id) ==
    /\ At(id, "prepare")
    /\ Mark(id, Stages[4]) /\ Goto(id, "spawn")
    /\ UNCHANGED <<Here, lock, proc, vm, late, troubles>>

\* A stage fails and rollback_preparation follows; before the first one the call
\* fails without the typed error and nothing is known to be cleaned.
PrepareFails(id) ==
    /\ At(id, "prepare")
    /\ Trouble
    /\ \E i \in 1..3 :
         /\ Mark(id, Stages[i])
         /\ Goto(id, CASE i = 1 -> "unsure" [] i = 2 -> "rollback" [] i = 3 -> "mark")
    /\ UNCHANGED <<Here, lock, proc, vm, late>>

\* Nothing was published: the directory is removed.
Rollback(id) ==
    /\ At(id, "rollback")
    /\ marks' = [marks EXCEPT ![id] = {}] /\ Goto(id, "absent")
    /\ UNCHANGED <<Here, lock, proc, vm, late, troubles>>

\* The supervisor is forked.
Spawn(id) ==
    /\ At(id, "spawn")
    /\ proc' = [proc EXCEPT ![id] = "forked"] /\ Goto(id, "ready")
    /\ UNCHANGED <<Here, marks, lock, vm, late, troubles>>

SpawnFails(id) ==
    /\ At(id, "spawn")
    /\ Trouble /\ Goto(id, "mark")
    /\ UNCHANGED <<Here, native>>

\* The supervisor answers an inspection.
Ready(id) ==
    /\ At(id, "ready") /\ proc[id] = "serving"
    /\ Goto(id, IF vm[id] = "running" THEN "created" ELSE "mark")
    /\ UNCHANGED <<Here, native, troubles>>

\* The spawn fails or the readiness times out.  Command::spawn returns only after
\* the child has reached exec or died.
NotReady(id) ==
    /\ At(id, "ready") /\ proc[id] \notin {"forked", "entering"}
    /\ IF proc[id] = "dead" THEN UNCHANGED troubles ELSE Trouble
    /\ Goto(id, "mark")
    /\ UNCHANGED <<Here, native>>

-----------------------------------------------------------------------------
(* cleanup, reclaim and finish_tombstone: the native absence of a sandbox. *)

Identified(id) == marks[id] \cap {"preparing", "identity"} # {}
Tombstoned(id) == "tombstone" \in marks[id]
Deleting(id) == Status(id) = "Stopping"

\* Mutant: pause and resume are sent without a recorded intention.
ObservedUnmarked(id, s) ==
    LET k == op[id].kind
        to == CASE s = "running" -> "Running" [] s = "paused" -> "Paused"
                [] s = "stopped" -> "Terminated" [] s = "missing" -> "Failed"
        desired == IF k = "pause" THEN "paused" ELSE "running"
        allowed == IF k = "pause" THEN "running" ELSE "paused"
        settled == IF Status(id) = to THEN Ends(id) ELSE Settle(id, to)
    IN CASE k = "get" -> IF s = "missing" /\ Status(id) = "Pending"
                         THEN Goto(id, "stopping") ELSE settled
         [] k # "get" /\ s = desired -> settled
         [] k # "get" /\ s = allowed -> Goto(id, "request")
         [] OTHER -> Ends(id)

\* What the caller of an inspection does with the state it reports.
Observed(id, s) ==
    LET k == op[id].kind
        to == CASE s = "running" -> "Running" [] s = "paused" -> "Paused"
                [] s = "stopped" -> "Terminated" [] s = "missing" -> "Failed"
        desired == IF k = "pause" THEN "paused" ELSE "running"
        allowed == IF k = "pause" THEN "running" ELSE "paused"
        settled == IF Status(id) = to THEN Ends(id) ELSE Settle(id, to)
    IN CASE k = "get" -> IF s = "missing" /\ Status(id) = "Pending"
                         THEN Goto(id, "stopping") ELSE settled
         [] k # "get" /\ s = desired -> settled
         [] k # "get" /\ s = allowed -> Goto(id, "intend")
         [] OTHER -> Ends(id)

\* cleanup succeeded: a creation knows that its sandbox is absent, a deletion
\* confirms it, an inspection reports it missing.
Cleaned(id) ==
    IF op[id].kind = "create" THEN Goto(id, "absent")
    ELSE IF Deleting(id) THEN Goto(id, "confirm") ELSE Observed(id, "missing")
Unclean(id) == IF op[id].kind = "create" THEN Goto(id, "unsure") ELSE Ends(id)

Unlocked(id) == lock' = [lock EXCEPT ![id] = "free"]
Reclaimed(id) == marks' = [marks EXCEPT ![id] =
                    (@ \ {"preparing", "identity"}) \cup {"deleting", "reclaimed"}]

\* The deletion intent is marked before the lock is tried.
MarkDeleting(id) ==
    /\ At(id, "mark")
    /\ Mark(id, {"deleting"}) /\ Goto(id, "kill")
    /\ UNCHANGED <<Here, lock, proc, vm, late, troubles>>

\* cgroup.kill: the whole tree dies, its lock and its sockets with it.
Kill(id) ==
    /\ At(id, "kill") /\ Populated(id)
    /\ proc' = [proc EXCEPT ![id] = "dead"]
    /\ lock' = [lock EXCEPT ![id] = IF @ = "child" THEN "free" ELSE @]
    /\ vm' = [vm EXCEPT ![id] = "off"] /\ late' = [late EXCEPT ![id] = <<>>]
    /\ UNCHANGED <<Here, op, marks, troubles>>

\* The group is empty while the lock is held: the absence is recorded.
Tombstone(id) ==
    /\ At(id, "kill") /\ lock[id] = "free" /\ ~Populated(id)
    /\ lock' = [lock EXCEPT ![id] = "daemon"] /\ Mark(id, {"tombstone"})
    /\ Goto(id, "reclaim")
    /\ UNCHANGED <<Here, proc, vm, late, troubles>>

Reclaim(id) ==
    /\ At(id, "reclaim")
    /\ Reclaimed(id) /\ Unlocked(id) /\ Cleaned(id)
    /\ UNCHANGED <<Here, proc, vm, late, troubles>>

\* The deadline of the cleanup passes or a file operation fails.
CleanupFails(id) ==
    /\ op[id].pc \in {"rollback", "mark", "kill", "reclaim"}
    /\ Trouble
    /\ lock' = [lock EXCEPT ![id] = IF @ = "daemon" THEN "free" ELSE @]
    /\ Unclean(id)
    /\ UNCHANGED <<Here, marks, proc, vm, late>>

\* finish_tombstone in one step: the lock is tried once and the reclaiming, which
\* may be repeated, is done again.
FinishTombstone(id, continue) ==
    IF lock[id] = "free" THEN Reclaimed(id) /\ continue
                         ELSE UNCHANGED marks /\ Ends(id)

\* NativeRuntime::observe, up to the request it sends.
Inspect(id) ==
    /\ At(id, "inspect")
    /\ CASE Tombstoned(id) -> FinishTombstone(id, Observed(id, "missing"))
         [] ~Tombstoned(id) /\ ~Identified(id) ->
              UNCHANGED marks /\ Observed(id, "missing")
         [] ~Tombstoned(id) /\ Identified(id) /\ "started" \notin marks[id] ->
              UNCHANGED marks /\ Goto(id, "mark")
         [] OTHER -> /\ UNCHANGED marks
                     /\ IF "deleting" \in marks[id] THEN Ends(id) ELSE Goto(id, "ask")
    /\ UNCHANGED <<Here, lock, proc, vm, late, troubles>>

\* NativeRuntime::delete.  The answer to the Terminate request is ignored and its
\* effect, the exit of the supervisor, is that of the kill that follows.
Terminate(id) ==
    /\ At(id, "terminate")
    /\ CASE Tombstoned(id) -> FinishTombstone(id, Goto(id, "confirm"))
         [] ~Tombstoned(id) /\ ~Identified(id) ->
              UNCHANGED marks /\ Goto(id, "confirm")
         [] OTHER -> Mark(id, {"deleting"}) /\ Goto(id, "kill")
    /\ UNCHANGED <<Here, lock, proc, vm, late, troubles>>

\* The second inspection of delete_locked.
Confirm(id) ==
    /\ At(id, "confirm")
    /\ CASE Tombstoned(id) -> FinishTombstone(id, Goto(id, "remove"))
         [] ~Tombstoned(id) /\ ~Identified(id) -> UNCHANGED marks /\ Goto(id, "remove")
         [] OTHER -> UNCHANGED marks /\ Ends(id)
    /\ UNCHANGED <<Here, lock, proc, vm, late, troubles>>

-----------------------------------------------------------------------------
(* Requests to the supervisor.  It serves its socket in order, so a        *)
(* request is answered only after those whose client has given up.         *)

\* pause or resume is sent once the intention is recorded.
Requested(id) == IF At(id, "ask") THEN "inspect" ELSE op[id].kind
Asking(id) == op[id].pc \in {"ask", "request"}

Paused(id, req) == req = "pause" /\ vm[id] = "running"
Resumed(id, req) == req = "resume" /\ vm[id] = "paused"

\* execute_control: the state that the Execution reports afterwards.
Controlled(id, req) ==
    IF "deleting" \in marks[id] THEN vm[id]
    ELSE IF Paused(id, req) THEN "paused"
    ELSE IF Resumed(id, req) THEN "running" ELSE vm[id]

\* The answer to the operation that waits for it.
Answer(id) ==
    /\ Asking(id) /\ proc[id] = "serving" /\ late[id] = <<>>
    /\ vm' = [vm EXCEPT ![id] = Controlled(id, Requested(id))]
    /\ IF At(id, "ask") THEN Observed(id, vm[id])
       ELSE CASE Paused(id, op[id].kind) -> Settle(id, "Paused")
              [] Resumed(id, op[id].kind) -> Settle(id, "Running")
              [] OTHER -> Ends(id)
    /\ UNCHANGED <<Here, marks, lock, proc, late, troubles>>

\* There is no supervisor to connect to, or it has not opened its socket.
Unanswered(id) ==
    /\ Asking(id) /\ proc[id] # "serving"
    /\ Ends(id)
    /\ UNCHANGED <<Here, native, troubles>>

\* The call fails or times out; the request may still be in the socket.
LostAnswer(id) ==
    /\ Asking(id) /\ proc[id] = "serving"
    /\ Trouble
    /\ \/ UNCHANGED late
       \/ At(id, "request") /\ late' = [late EXCEPT ![id] = Append(@, op[id].kind)]
    /\ Ends(id)
    /\ UNCHANGED <<Here, marks, lock, proc, vm>>

\* A request without a client is served like any other.
ServeLate(id) ==
    /\ proc[id] = "serving" /\ late[id] # <<>>
    /\ vm' = [vm EXCEPT ![id] = Controlled(id, Head(late[id]))]
    /\ late' = [late EXCEPT ![id] = Tail(@)]
    /\ UNCHANGED <<Here, op, marks, lock, proc, troubles>>

-----------------------------------------------------------------------------
(* The supervisor process, from fork to exit.                              *)

Child(id, to, held) ==
    /\ proc' = [proc EXCEPT ![id] = to]
    /\ lock' = [lock EXCEPT ![id] = held]
    /\ UNCHANGED <<Here, op, vm, late, troubles>>

\* Mutant: the forked child joins the cgroup without looking at the markers.
EnterUnfenced(id) ==
    /\ proc[id] = "forked"
    /\ IF lock[id] = "free" THEN Child(id, "entering", "child")
                            ELSE Child(id, "dead", lock[id])
    /\ UNCHANGED marks

\* enter_cgroup_before_exec: the lock is tried once and the markers are checked
\* while it is held.
Enter(id) ==
    /\ proc[id] = "forked"
    /\ IF lock[id] # "free" THEN Child(id, "dead", lock[id])
       ELSE IF marks[id] \cap {"deleting", "tombstone", "started"} # {}
       THEN Child(id, "dead", "free") ELSE Child(id, "entering", "child")
    /\ UNCHANGED marks

\* The child is a member of the cgroup, releases the lock and execs.
Join(id) ==
    /\ proc[id] = "entering"
    /\ Child(id, "entered", "free")
    /\ UNCHANGED marks

\* run_native_supervisor takes the lock for its lifetime and checks the markers.
Supervise(id) ==
    /\ proc[id] = "entered"
    /\ IF lock[id] # "free" THEN Child(id, "dead", lock[id])
       ELSE IF "identity" \notin marks[id] \/ marks[id] \cap {"deleting", "started"} # {}
       THEN Child(id, "dead", "free") ELSE Child(id, "supervising", "child")
    /\ UNCHANGED marks

MarkStarted(id) ==
    /\ proc[id] = "supervising"
    /\ Child(id, "starting", "child")
    /\ Mark(id, {"started"})

\* The VM runs, its live controls and services are verified, the socket is served.
Serve(id) ==
    /\ proc[id] = "starting"
    /\ proc' = [proc EXCEPT ![id] = "serving"]
    /\ vm' = [vm EXCEPT ![id] = "running"]
    /\ UNCHANGED <<Here, op, marks, lock, late, troubles>>

\* The guest ends by itself; the supervisor reports the Execution stopped.
GuestStops(id) ==
    /\ proc[id] = "serving" /\ vm[id] = "running"
    /\ vm' = [vm EXCEPT ![id] = "stopped"]
    /\ UNCHANGED <<Here, op, marks, lock, proc, late, troubles>>

SupervisorDies(id) ==
    /\ proc[id] \in {"starting", "serving"}
    /\ Trouble
    /\ proc' = [proc EXCEPT ![id] = "dead"]
    /\ Unlocked(id)
    /\ vm' = [vm EXCEPT ![id] = "off"] /\ late' = [late EXCEPT ![id] = <<>>]
    /\ UNCHANGED <<Here, op, marks>>

-----------------------------------------------------------------------------
(* The daemon process and the machine.                                     *)

\* A commit in flight may have replaced the record already.
Visible == {disk} \cup {[disk EXCEPT ![c.id] = c.rec] : c \in commit}

Down ==
    /\ up' = FALSE /\ failed' = FALSE
    /\ memory' = [id \in Id |-> Gone]
    /\ commit' = {} /\ scanned' = {}
    /\ op' = [id \in Id |-> IF At(id, "fresh") THEN Fresh ELSE Idle]
    /\ UNCHANGED now

\* The daemon stops, at any point or because a failed store asks for a restart.
Stop ==
    /\ up
    /\ IF failed THEN UNCHANGED troubles ELSE Trouble
    /\ Down
    /\ disk' \in Visible
    /\ lock' = [id \in Id |-> IF lock[id] = "daemon" THEN "free" ELSE lock[id]]
    /\ UNCHANGED <<synced, marks, proc, vm, late>>

\* The machine loses power: no process survives, and a record that was replaced
\* without a directory sync may be the old one again.
PowerLoss ==
    /\ Trouble
    /\ Down
    /\ disk' \in {[id \in Id |-> IF id \in kept THEN d[id] ELSE synced[id]] :
                     d \in Visible, kept \in SUBSET Id}
    /\ synced' = disk'
    /\ lock' = [id \in Id |-> "free"]
    /\ proc' = [id \in Id |-> IF proc[id] = "none" THEN "none" ELSE "dead"]
    /\ vm' = [id \in Id |-> "off"] /\ late' = [id \in Id |-> <<>>]
    /\ UNCHANGED marks

\* Store::open reads every record; the reconciliation it spawns is Get and Delete.
Open ==
    /\ ~up
    /\ up' = TRUE
    /\ memory' = disk
    /\ UNCHANGED <<failed, disk, synced, commit, op, scanned, native, now, troubles>>

Tick ==
    /\ now < MaxTime
    /\ now' = now + 1
    /\ UNCHANGED <<up, failed, store, commit, op, scanned, native, troubles>>

-----------------------------------------------------------------------------
Init ==
    /\ up = TRUE /\ failed = FALSE
    /\ memory = [id \in Id |-> Gone] /\ disk = memory /\ synced = memory
    /\ commit = {} /\ scanned = {}
    /\ load \in Loads
    /\ op = [id \in Id |-> IF id \in load.ids THEN Fresh ELSE Idle]
    /\ troubles = load.troubles
    /\ marks = [id \in Id |-> {}] /\ lock = [id \in Id |-> "free"]
    /\ proc = [id \in Id |-> "none"] /\ vm = [id \in Id |-> "off"]
    /\ late = [id \in Id |-> <<>>]
    /\ now = 0

\* What clients ask for.
Request(id) ==
    \/ \E until \in 0..MaxTime : Create(id, until) \/ Renew(id, until)
    \/ \E kind \in load.controls : Controls(id, kind)
    \/ Get(id) \/ Delete(id)

\* The steps that an operation takes by itself.
Step(id) ==
    \/ Update(id) \/ UpdateRefused(id) \/ \E c \in commit : c.id = id /\ Lands(c)
    \/ Prepare(id) \/ Rollback(id) \/ Spawn(id) \/ Ready(id) \/ NotReady(id)
    \/ MarkDeleting(id) \/ Kill(id) \/ Tombstone(id) \/ Reclaim(id)
    \/ Inspect(id) \/ Terminate(id) \/ Confirm(id) \/ Answer(id) \/ Unanswered(id)

StepFails(id) ==
    \/ \E c \in commit : c.id = id /\ (BudgetRejected(c) \/ CommitUnknown(c))
    \/ PrepareFails(id) \/ SpawnFails(id) \/ CleanupFails(id) \/ LostAnswer(id)

Supervisor(id) ==
    \/ Enter(id) \/ Join(id) \/ Supervise(id) \/ MarkStarted(id) \/ Serve(id)
    \/ ServeLate(id)

Next ==
    /\ UNCHANGED load
    /\ \/ \E id \in Id : \/ Request(id) \/ Scan(id) \/ Cleanup(id) \/ Step(id)
                         \/ StepFails(id) \/ Supervisor(id) \/ GuestStops(id)
                         \/ SupervisorDies(id)
       \/ Stop \/ PowerLoss \/ Open \/ Tick

Spec == Init /\ [][Next]_<<load, vars>>

-----------------------------------------------------------------------------
\* A record without a sandbox is exactly Gone.
Records == {r \in [state : States, until : Nat] : r.state = "Gone" => r.until = 0}

Pcs == Committing \cup
       {"fresh", "idle", "committing", "prepare", "rollback", "spawn", "ready", "mark",
        "kill", "reclaim", "inspect", "ask", "request", "terminate", "confirm"}
Ops == [kind : {"none", "create", "get", "pause", "resume", "delete", "renew", "expire"},
        pc : Pcs, to : States]

\* Every variable keeps its type, and one update at a time holds `commits`.
TypeOK ==
    /\ up \in BOOLEAN /\ failed \in BOOLEAN /\ now \in Nat /\ troubles \in Nat
    /\ memory \in [Id -> Records] /\ disk \in [Id -> Records] /\ synced \in [Id -> Records]
    /\ commit \subseteq [id : Id, rec : Records, next : {"idle", "request", "terminate", "prepare"}]
    /\ \A c, d \in commit : c = d
    /\ op \in [Id -> Ops]
    /\ scanned \subseteq Id
    /\ marks \in [Id -> SUBSET Marks]
    /\ lock \in [Id -> {"free", "daemon", "child"}]
    /\ proc \in [Id -> {"none", "forked", "entering", "entered", "supervising",
                        "starting", "serving", "dead"}]
    /\ vm \in [Id -> {"off", "running", "paused", "stopped"}]

\* While a sandbox has no record in the registry, its native side is absent for
\* good: no process of it is in its cgroup, a child that was forked but has not
\* entered is fenced by the deletion marks, and everything that was prepared has
\* been reclaimed (delete_locked, create_admitted, get_owned; "releases capacity
\* only after the cgroup is empty and the owner lock is released").
AbsenceProven ==
    \A id \in Id : disk[id] = Gone =>
        /\ ~Populated(id) /\ proc[id] # "entering"
        /\ proc[id] = "forked" => "deleting" \in marks[id]
        /\ Identified(id) => Tombstoned(id)

\* The sandboxes that occupy the node never exceed max_sandboxes, whatever
\* interleaves with an admission and whatever a restart finds (create_admitted).
CapacityHeld ==
    Cardinality({id \in Id : Populated(id) \/ proc[id] = "entering"}) <= MaxSandboxes

\* Whenever the daemon serves calls, its view of the registry is the one on disk,
\* so that no later commit can overwrite a record it has not seen (update).
CommittedView == Serving => memory = disk

\* Between operations the status Running or Paused is that of the live VM, even
\* when acknowledgements were lost and the supervisor served a request after its
\* client had given up (control_locked, get_owned).
SettledStatus ==
    \A id \in Id :
        Serving /\ op[id].pc = "idle" /\ Status(id) \in {"Running", "Paused"} =>
            /\ proc[id] \in {"serving", "dead"}
            /\ proc[id] = "serving" =>
                 vm[id] \in {"stopped", IF Status(id) = "Running" THEN "running" ELSE "paused"}

\* A deletion begun on behalf of a deadline finds that deadline passed, also when
\* a renewal was committed after the scan; and a durable deletion intent is never
\* withdrawn, it ends with the removal of the record (delete_conditionally,
\* delete_locked).
DeletionIntent ==
    [][\A id \in Id :
         /\ synced[id].state = "Stopping" => synced'[id].state \in {"Stopping", "Gone"}
         /\ (disk'[id].state = "Stopping" /\ disk[id].state # "Stopping"
               /\ op[id].kind = "expire") => Expired(disk[id])]_vars

-----------------------------------------------------------------------------
(* Liveness.  The runtime polls every task and the supervisor is scheduled; *)
(* the gate and the commit lock are fair, so a queued cleanup and a waiting *)
(* commit get them although clients keep asking.  Nothing is assumed of     *)
(* clients, guests and faults, nor that a stopped daemon, or one whose      *)
(* store has failed, is ever started again.                                 *)
Fairness ==
    \A id \in Id : /\ WF_vars(Step(id)) /\ WF_vars(Supervisor(id)) /\ WF_vars(Scan(id))
                   /\ SF_vars(Update(id)) /\ SF_vars(Cleanup(id))

FairSpec == Spec /\ Fairness

\* While the daemon serves, an expired or stopping sandbox is eventually reclaimed
\* and its record removed, across failed attempts, restarts and power losses
\* (start_maintenance).
Reclaims ==
    []<>(Serving => \A id \in Id : Present(id) => Status(id) # "Stopping" /\ ~Expired(memory[id]))
=============================================================================
