# pVisor: TLA+ models and proofs

pVisor runs agent commands in supervised Sessions.  An *Execution* is one run of
a backend (a process, a container or a VM); its facts go to a durable *trace
journal*, clients control it through an owner, and the optional Gateway pauses a
VM while the agent waits for a model.  This directory holds TLA+ modules for the
parts where concurrency and crashes decide correctness, TLC instances that check
them, and TLAPS proofs.  `PROJECT.json` maps every definition to its source lines.

## 1. The system

| Part | State | Operations | Hard behaviour |
| --- | --- | --- | --- |
| Trace journal (`pvisor-journal/journal.rs`) | one JSONL file, an index of identities and causes, poisoned flag | open, append, read, snapshot | lost acknowledgement, torn tail, failed sync, power loss, forward references that close a cycle later |
| Execution owner (`pvisor/runtime/execution`) | projection: status, pending controls, gap and unknown flags | lifecycle notifications, controls, cancel, finish, replay | native effect outside the lock; journal failures; late results |
| VM control channel and runner (`executor/vm/control.rs`, `supported.rs`) | one stream, transition fence, suspension receipt | exchange, attach, detach, serve | timeouts and late replies, runner death, detach against a running exchange |
| Wait coordinator (`runtime/wait_coordinator.rs`, `model_wait.rs`) | ownership (manual, automatic), slot, rounds, tokens | reserve, enter, batches, delivery, idle rounds, manual controls | permits that go stale, human against automation, overlap, barriers |
| Idle lease (`executor/vm/idle.rs`) | epoch, claimed, offered | arm, offer, retire | stale epochs on a shared stream |
| Completion receipts, Session records, registry (`runtime/completion.rs`, `session_execution.rs`, `execution/session.rs`, `registry.rs`) | files under leases | commit once, reconcile, capture, terminate | crash between two files, stale selection under a lock |
| Overlay apply (`pvisor-overlay-core/apply.rs`, `preimage_log.rs`) | ledger, backups, upper, target, overlay record | prepare, apply, prune, commit, recover, drop | crash at every step, foreign edits, generations |
| Daemon (`pvisor-daemon/daemon`) | durable sandbox records, runtime states | create, pause, resume, renew, expire, delete, restart | unknown commits, lost acknowledgements, expiry against renewal |
| Gateway capture queue (`engine/apply_queue.rs`) | budgets, per-story queues | enqueue, apply, flush, shutdown | admission against shutdown, budgets held while waiting |
| Memory pool (`memory_pool.rs`) | one service process per pool, lease and socket files | ensure service | a starter that dies, two starters |
| Snapshots, image cache, RAM backing | content-addressed objects, references | capture, publish, collect | publication order, collection of live objects |
| Network, guest, VMM, shim, CLI, replay, Docker frontend | mostly I/O, parsing and emulation | | |

How they interact: the owner appends every fact to the journal and publishes its
projection; a control goes owner → transition fence → control channel → runner;
with the Gateway enabled every control goes through the wait coordinator first,
which sees the Execution as a published state, a cancellation token and one
exchange at a time; the executor task starts, awaits and reaps the runner and is
the only one to publish a terminal state.  The overlay core works on the stage that
an Execution leaves behind, through the Run record that the Session service keeps;
the daemon starts each Execution in a supervisor process of its own and only sees
the state that supervisor publishes.

What each modelled part has to guarantee, with the properties that state it:

* Journal: an acknowledged record survives and is never rewritten (`ReceiptDurable`,
  `DurableGrows`); a rejected one is never found (`RejectedNeverStored`); every
  file a crash can leave opens again (`Recoverable`); the incremental index is what
  a scan would compute (`IndexExact`); subscribers hear of a record once
  (`NotifiedOnce`); an export is a prefix of the log (`SnapshotIsPrefix`).
* Execution: replaying the journal gives the published state unless a gap is
  published (`HistoryReplays`); the runner is never touched before the intent is
  recorded (`EffectsRecorded`); under a coordinator the status
  tells the truth (`CoordinatedStatus`; finding 1 without one), and it
  never goes back (`NeverGoesBack`); an unknown exchange stops all later ones
  (`FailStop`); pending entries belong to tasks and never
  exceed the queue's limit (`NoLeakedPending`); terminal means
  torn down (`TerminalAfterTeardown`); controls and cancellation end
  (`ControlsEnd`, `CancellationCompletes`).
* Wait coordinator: a reply reaches a VM that automation does not hold
  (`DeliveredRunning`, `BarrierClear`); one wait owns the slot until its delivery
  (`SlotKept`); a pause is never started on a stale permit (`NoLatePause`) and never
  orphaned (`PauseHasOwner`, `PauseReleased`); a human's pause is not undone
  (`HumanPauseStands`); snapshots see a running VM (`SnapshotRunning`); barriers and
  waits end (`BarrierEnds`, `WaitEnds`).
* Overlay apply: a batch is written only over the contents the stage was made from,
  originals are never lost while it is unfinished, and nothing applied or dropped is
  written again (`ImplementsContract`); a finished batch is in the target and stays
  (`AppliesLand`); an interrupted one recovers forward (`RecoversForward`) and is not
  locked out by its own generation fence (`PendingMatches`); a terminal overlay stays
  terminal (`TerminalStands`).
* Daemon: a record is removed, and its place given away, only when the native sandbox
  is absent for good (`AbsenceProven`, `CapacityHeld`); a commit with unknown outcome
  stops every later one (`CommittedView`); a settled status is the VM's
  (`SettledStatus`); expiry never deletes a renewed sandbox and a deletion is never
  withdrawn (`DeletionIntent`); expired and stopping sandboxes are reclaimed
  (`Reclaims`).
* Capture queue: a flush or shutdown that returns Ok has persisted every capture
  submitted before it (`BarrierReports`); barriers and waiting producers end
  (`BarriersEnd`).

## 2. Modules

| Module | Models |
| --- | --- |
| `Causality` | the causal graph: the append search (`Reached`), `Acyclic`, unresolved references (`Dangling`) |
| `Journal` | the journal file, its lock holder, crashes |
| `JournalProofs` | theorems about `Journal` |
| `Execution` | owner, control tasks, channel, runner, executor task |
| `ExecutionProofs` | theorems about `Execution` |
| `WaitCoordinator` | coordinator, wait tasks, callers, manual controls |
| `WaitProofs` | theorems about `WaitCoordinator` |
| `OverlayApply` | apply, recovery and drop of the stages of one target, editors, crashes |
| `StageContract` | what `OverlayApply` implements: stages that open, write and finish batches |
| `OverlayProofs`, `OverlayRefinement` | theorems about `OverlayApply`; that it implements `StageContract`, and that its operations end |
| `Daemon` | lifecycle operations, record store, native runtime and supervisor of each sandbox |
| `DaemonProofs`, `DaemonStatusProofs` | theorems about `Daemon`: absence and capacity; status and deletion |
| `CaptureQueue` | story queues and workers, budgets, flush, shutdown, the rejected-event writer |
| `CaptureProofs` | theorems about `CaptureQueue` |
| `MCJournal`, `MCExecution`, `MCWaitCoordinator`, `MCOverlayApply`, `MCDaemon`, `MCCaptureQueue` | constants for TLC |

A definition that a comment marks as *Mutant* is a broken variant of the one that
follows it.  No specification uses it; it is there to show that a property
notices the corresponding bug.

### Journal

`file` is what the kernel shows, `disk` what a power loss is certain to leave,
`linked` whether the directory entry is durable.  `phase` is the lock holder's
position: `closed`, inside open (`header`, `directory`, `recovered`), `open`,
inside append (`written`, `synced`).  A line is a record with the offset it
carries and whether it parses.  Each write and each sync is a step of its own, so
that `Stop` (process death, or dropping the handle) and `PowerLoss` come between
any two.  An unsynced write survives a power loss whole, in part or not at all.
The constant `FsyncLinks` says whether syncing a new file also makes its directory
entry durable: POSIX does not promise it, the usual Linux file systems do it.
An event is an identity, a set of causes and the rest (`Data`); payloads in
`Unreadable` serialise but cannot be read back.  The volatile journal
(`Journal::memory`) has the same index and no file and is left out.

### Execution

`proj` is `State`: status, queued and dispatched controls, `outcome_unknown`.
`Admits` and `Apply` are `State::apply`; `Commit` is `commit_owned`, one step
because the owner's lock is held.  Its outcome comes from the journal's contract:
stored, rejected with nothing written, or unknown with the record lost or kept and
the handle poisoned.  `replayed` is what `State::apply` makes of the records that
were kept: a set of one projection, empty if a record were refused.

A control task runs idle → queued → fenced → dispatched → sent → replied, with
failing and checking for `control_error`.  Merged, because nothing another actor
does in between changes the outcome: ensure_live with the admission (the admission
checks the status again), the request event with the second ensure_live and the
dispatch record, wait_failed's decision with its record.  The exchange is split at
every point where the runner, the timeout or the executor may act.  A two-phase
checkpoint capture is one `Serve`, since both phases happen under the connection
lock and any failure between them is the same `Uncertain` step.  `vm` is the
truth about the vCPUs: running, halted, exited, or exited at a sealed suspension.

`setup` is the kind of Execution, chosen once: with a wait coordinator or without
(`Serialised`: the coordinator holds its lock across every exchange, and only then
there are automatic controls and `wait_failed`), the limit of the queue, and the
append failures its journal may show.

### WaitCoordinator

Every call has a caller (`call`), a wait task (`task`) and shared tokens (`tok`).
Ownership changes under the `state` lock only; `Locked` is derived from the actors
inside an exchange, and steps that take and release the lock at once need it free.
Rounds, tokens, the delivery hold and the watch version `changes` are as in the
code.  Time is nondeterministic: a grace period, permit, offload or recheck
deadline may pass whenever nothing stops it.  The idle client is a permit that may
be refused, revoked at any time, or fail to settle.  The Execution is one exchange
with six results (`Results`) that cover what module `Execution` can return:
took effect, conditionally denied, known rejection, refused at admission, effect
with a failed record, unknown.  `starting` stands for created and starting, `ended`
for every state without controls.

Left out: `wait_for_round_wake`, which only delays a stream read; the policy branch
without guest idle evidence, which configuration rejects (`config.rs`,
CooperativeModelWait); re-use of a wait by a later call (identities are never
re-used either); the `model wait already retired` error of a caller that delivers
after its own drop.

### OverlayApply and StageContract

A path stands for a top-level entry with all that is below it; a content is a model
value, because the code compares fingerprints only.  `Change` says what a stage does
to a path: write or delete a file, or replace a directory by a tree, by nothing or by
something else, which are the changes that need a backup.  An operation on a stage
(`apply` and `drop` of the Session service, and an explicit `recover`) holds that
stage's Run lease from `Begin` until it returns; its steps are the durable effects of the code in
their order: `Lock`, then sweep and resume an unfinished batch (`Sweep`, `Restore`,
`Resume`), `Prepare` and `Check` the new one, `BackUp` the originals, `Install` trees,
`Publish` files, `Rebase` the preimages of replaced trees, `Mark` it TargetApplied,
`Prune` the upper, `Settle`, `Consume`, `Commit`, remove the backup, `Save` the Run
record.  `Abort` ends an operation between any two steps, for process death and for a failed call alike,
since both leave the durable state and release the locks.  `PowerLoss` also brings
back any upper entries whose removal was not synced.  `Edit` is another program.

`StageContract` has no ledger, locks, backups or processes.  The refinement mapping
takes the paths of a Prepared ledger as the open batch, the target with the originals
of unfinished batches put back as its content, and a path that is applied, dropped or
without a preimage as closed (`ImplementsContract`, checked by `overlay` and proved in
`OverlayRefinement`).  A stage's name stands for the content it stages and `Torn[s]` for a
staged tree that has lost entries: different stages stage different contents, and the
proofs need that to tell whose an entry of the target is.

Left out: stages that predate complete preimages, applies of one project inside a
larger target, the closure of a selection over hard links and opaque directories, and
the window between the check of a path and the rename after it, for which the
documentation asks that editors be stopped.

### Daemon

`load`, chosen once, is the capacity with the bounds of the instance: the sandboxes and
controls that clients ask for, troubles and instants.  `memory`, `disk` and `synced` are
the registry, the records directory as processes see it and as a power loss leaves it.
`commit` is the update that holds the commit lock;
it ends by landing, by a budget rejection, or with an unknown outcome
(`CommitUnknown`), where the record may be visible and not durable.  `op` is the
operation that holds the gate of each sandbox, `scanned` what the maintenance scan has
handed out: it looks at one moment and its cleanup runs later, under the gate.  The
native side is the set of marker files, the owner lock, the supervisor process from
fork through cgroup entry to serving, the state it publishes (`vm`) and the requests
left in its socket by clients that gave up (`late`).  A daemon's death (`Stop`) leaves
supervisors and forked children alive; `PowerLoss` does not.

Requests to a supervisor are first in, first out: it serves one connection at a time,
and its own exchange limit is shorter than the client's timeout.  Capacity is counted
in sandboxes; processor and memory sums are checked in the same place in the same
way.  Left out: claims (compiled for tests only), the migration of version 1 stores,
listing, authentication and proxying, the error for a cgroup that vanished within one
boot.  The size of records is not modelled, so `BudgetRejected` may refuse any commit.

### CaptureQueue

One FIFO and one worker per story.  A producer calls `enqueue`, which never waits, or
`apply`, which reserves a place, sends and awaits the receipt, and may be dropped while
it does.  A worker that applies a subagent's capture sends its link records to the main
story and waits for each receipt.  `barrier` is the flush or shutdown that holds the
runtime's mutex.  `limit` is a record of the four limits, chosen once.  Byte budgets
follow the task budgets and are left out, as are the other commands of the same path
(rebuilding projections, snapshots of a story) and a runtime dropped without shutdown.

## 3. Runs

Every passing run explores its whole state space.

| Run | Instance | Checks | Distinct states |
| --- | --- | --- | --- |
| `journal` | 3 identities, 7 events: a conflict, a three-event cycle, a self-reference, an unreadable payload; `FsyncLinks` | the journal properties and the inductive invariant | 110 487 |
| `journal_link` | the same, `FsyncLinks = FALSE` | `ReceiptDurable` is violated (finding 2) | |
| `execution` | 2 controls and all append failures: a queue that holds both, a queue of one, a coordinator | `HistoryReplays`, `EffectsRecorded`, `NoLeakedPending`, `TerminalAfterTeardown`, `CoordinatedStatus`, `FailStop`, `NeverGoesBack` | 396 220 |
| `execution_concurrent` | 2 controls, no coordinator | `StatusMatchesVm` is violated (finding 1) | |
| `execution_live` | 2 controls that pause, checkpoint or suspend, no append failures, fairness | `ControlsEnd`, `CancellationCompletes` | 37 720 |
| `waits` | 2 calls, 2 rounds, 1 manual control | `DeliveredRunning`, `BarrierClear`, `SlotKept`, `NoLatePause` | 634 330 |
| `waits_manual` | 1 call, 2 rounds, offload, 3 manual controls; and a call beside a host read without rounds; fairness | `PauseHasOwner`, `SnapshotRunning`, `HumanPauseStands`, `BarrierEnds`, `PauseReleased`, `WaitEnds` | 260 407 |
| `wait_claim` | 1 call, no rounds, 2 manual controls | `RunningUnclaimed` is violated (finding 3) | |
| `overlay` | 2 stages and 2 paths: one stage replaces a directory and writes a file, the other removes the same directory; 2 troubles; fairness | `AppliesLand`, `PendingMatches`, `ImplementsContract`, `TerminalStands`, `RecoversForward` | 123 700 |
| `overlay_crossed` | the same | `AppliesStand` is violated (finding 4) | |
| `daemon` | 1 sandbox with pauses and 2 troubles, 3 instants; 2 sandboxes for one place with 1 trouble, 3 instants; 2 sandboxes in two places with 1 trouble, 1 instant; fairness | `AbsenceProven`, `CapacityHeld`, `CommittedView`, `SettledStatus`, `DeletionIntent`, `Reclaims` | 272 331 |
| `capture` | 2 captures, a main and a subagent story, 2 barriers, 1 failure: queues of one with room for both stories; queues of two with room for one; fairness | `BarrierReports`, `BarriersEnd` | 832 630 |

Bounds.  The journal needs three identities for a cycle that is closed by an event
whose own causes are stored, and two events of one identity for a conflict;
retries, crashes and power losses are unbounded.  Two controls are enough for any
pairwise race of an Execution, and overfill a queue of one.  `Requests` is every kind
of control except in `execution_live`, which leaves out resume and offload: they take
the same steps as pause, and a VM that nobody resumes is the harder case there.  The
coordinator needs two calls for overlap, two rounds for rearming, and two manual
controls to take a pause and give it back; `MaxRounds` and `MaxManual` bound counters
that grow for ever.  In the overlay, two paths give a batch with a backup and one
without, and a partial selection; two troubles (`MaxTroubles`: edits, interruptions,
power losses together) interrupt a recovery of an interrupted apply; a deleted file and a
directory replaced by a file are in the proofs, which are for every `Change`.  In the daemon,
two troubles are a lost answer or a failed call, and a crash during the recovery of one
sandbox; the race for capacity needs two sandboxes and one trouble; two sandboxes with a
place each let the failed commit of one refuse the update of the other.  Instant 0 is
before a deadline, 1 and 2 let a renewal move it.  In the capture queue two captures fill a queue of one
or compete for it with a link record, and two barriers are a flush and the shutdown
after it.  Symmetry is used for controls and for calls of the same kind, in runs
without liveness.  Deadlock checking is off where the system really stops: an
Execution that ended with no control left, a coordinator whose Execution ended and
whose calls are used up, stages that are all applied, a daemon whose bounds are spent,
a capture runtime that has shut down.

Fairness.  Tokio tasks that can run are run: weak fairness of the steps of a
control task, the executor task, a wait task, a caller inside a barrier, the manual
control that holds the lock and the termination monitor.  An exchange has a
timeout, so its end belongs to those steps.  `Acquire` has strong fairness because
the fence is Tokio's FIFO mutex.  For the coordinator's lock weak fairness is
enough: rounds and manual controls are bounded in the instance, so the lock cannot
be taken for ever.  In the overlay the process that runs an operation goes on (`Abort`
and `PowerLoss` are bounded), the kernel queues the waiters of the target lock, hence
strong fairness of `Lock`, and somebody keeps calling `recover_pending_applies` while a
batch is pending: apply and drop refuse such a stage and ask for that reconciliation, so
`RecoversForward` says that it succeeds when it is repeated.  In the daemon the steps of an operation, of
the supervisor and of the maintenance scan are weakly fair; `Update` and `Cleanup` wait
for Tokio's fair locks and have strong fairness.  That a stopped daemon, or one with a
failed store, is started again is not assumed: `Reclaims` speaks of a daemon that
serves.  In the capture queue producers inside a call, workers, the barrier and the
writer are weakly fair.  Nothing is assumed of clients, the guest, the runner, editors,
or a human.

## 4. Proofs

`JournalProofs` proves for every set of identities, events and payloads:

* `Invariant`: `Spec => []IInv`, and from it
* `TypeCorrect`, `AlwaysRecoverable`, `IndexAlwaysExact`, `DurableNeverShrinks`, and
* under `FsyncLinks`, `ReceiptsDurable` and, through a second induction (`PastStands`),
  `RejectionsFinal`, `NotificationsUnique` and `SnapshotsStand`.

None of the properties is inductive alone.  `IInv` adds that both logs are *sound*
(scan accepts their lines, and the number of identities is the number of lines, so
the next offset is the size of the index); that the durable log is a prefix of the
visible one, and equal to it whenever the handle is usable; that a usable handle
indexes exactly the visible log, without the record of an append in progress; and
that a file whose directory entry may be lost holds no record.  The argument needs
one fact about graphs, `ExtendedAcyclic`: adding an event to an acyclic graph keeps
it acyclic when the event is not referred to, or when its causes do not reach it.
This is why the search of `append` may be skipped for identities outside
`unresolved`, and why `IndexExact` is part of the invariant.  The second group speaks of
the past: what was rejected, notified or exported.  `PastInv` gives the reason that each
stays true.  A rejection was for a cycle or a conflict whose evidence is durable, and a
durable log only grows (`DiskGrows`), so the evidence stays.  Without `FsyncLinks` a power
loss may take the whole file and with it the evidence.  The only assumptions
are `EventAssumption` and `FsyncLinksAssumption`, which TLC evaluates in `journal`.

`DaemonProofs` proves for every finite set of sandboxes, every capacity and any number
of troubles and instants:

* `DaemonInvariant`: `Spec => []IInv`, and from it
* `AbsenceAlwaysProven` and `ViewCommitted`, and
* `CapacityAlwaysHeld`.

`AbsenceProven` alone is not inductive: a record is removed at the end of an operation
of many steps, and in between a crash may leave a child on its way into the cgroup.
`IInv` says what each step may rely on (`StepInv`), how marker files, owner lock and
process restrict each other (`NativeInv`: a tombstone is only there without a live
process, a child about to enter holds the lock), that a record missing from the visible
*or the durable* directory means absence (`RecordInv`: otherwise a power loss breaks
it), and that a commit in flight belongs to an operation that waits for it, with its
removal justified when it was computed (`CommitInv`).  `LocalStep` reduces a step of one
sandbox to that sandbox's part.  Capacity follows in a second induction: whatever
occupies the node has a record or a running commit, and only `Create` adds to these, one
at a time under the commit lock (`CreateAdds`); the proof counts with the cardinality
theorems of finite sets.  The assumptions are `IdAssumption` and `LoadsAssumption`, which
TLC evaluates in `daemon`.  `Daemon`'s `TypeOK` is part of `IInv`.

`DaemonStatusProofs` goes on from there:

* `StatusInvariant`: `Spec => []SInv`, and from it
* `StatusSettled` and the action property `IntentStands`.

The record in memory is not enough to reason about: a restart or a power loss makes the
record on disk, the durable one or one still on its way the record that the next
operation reads.  `SInv` says of all three that the VM *fits* them (`Fits`: under Running
or Paused no request is left in the socket that could still change the VM), and of the
operation that holds the gate what it knows (`GateInv`): an intention is recorded before a
request is sent, and an expiry still finds its deadline passed.

`ExecutionProofs` proves for every set of controls, every limit of the queue and every
kind of append failure, with and without a coordinator:

* `TypeCorrect` and `HistoryFollows` (`[]HistoryInv`), and from them
  `HistoryAlwaysReplays` and `StatusNeverGoesBack`;
* `ExecutorOrder` (`[]ExecInv`), and from it `TerminalIsLast` and `UnknownIsLast`;
* `PendingMatches` (`[]PendingInv`), and from it `PendingNeverLeaks` and, with
  `HistoryInv`, `EffectsAlwaysRecorded`;
* `CoordinatedStatusHolds`;
* `FenceNeverLeaks` (`[]FenceInv`), and from it `ControlsNeverStuck`; and
  `ControlsAdvance`.

`HistoryReplays` is not inductive because it says nothing about the replay once a gap is
reported, and the facts committed after that must still be accepted by it.  `HistoryInv`
adds what survives a gap: every control that is pending or in flight in the projection
is so in the replay (`Trails`), so whatever the owner accepts the replay accepts
(`ReplayAdmits`).  `PendingInv` ties each control task to the set that holds it, which
makes the result of a task always acceptable, so that recording it cannot leave it
pending.  `ExecInv` orders executor, runner and channel: nothing can be asked before the
runner is attached, a runner that has been awaited is gone, the end is published last.
For `CoordinatedStatus`, `StatusInv` adds that under the coordinator's lock one task at
a time is busy, and that the result it carries says where the runner left the vCPUs.
`FenceInv` says that the transition fence is with the one control between its second
`ensure_live` and the end of its exchange, so every error path gives it back; hence an
admitted control can step or waits for a holder that can, and a cancelled Execution can
step or waits in `detach` for an exchange that times out (`Unblocked`).  `ControlsAdvance`
bounds what is left: each step of a control or of the executor decreases its rank, and no
step of another raises it.  The assumptions are `RequestsAssumption` and `SetupsAssumption`, which TLC evaluates in
`execution`.

`WaitProofs` proves for every set of calls and every policy, with any number of rounds and
manual controls:

* `Invariant`: `Spec => []IInv`, and from it
* `SlotIsKept`, `PausesOwned`, `DeliveriesRun`, `BarriersClear`, `SnapshotsRun`, and
* the action properties `HumanPausesStand` and `PausesNotLate`;
* `WakesAreHeard`: `Spec => []HeardInv`, and from both `BarriersAreServed`;
* the action property `ToldWaitsWindDown`.

`IInv` relates the tokens, the task and the caller of each wait (`Sound`: the round that a
batch holds back is over when the batch goes out), the one exchange that holds the lock
and what a human's claim forbids meanwhile (`LockInv`), the slot (`SlotInv`), and claims
with the published state (`ClaimInv`: a wait in `automatic` is one that will release the
VM).  `PassiveInv` is for callers that came second: the wait they found in the slot is
over before they deliver, and nobody else can take it.  `HeardInv` is a second invariant,
about wakes: a caller that holds a batch has woken the round its task is in, one that
delivers or overlaps has woken the wait it awaits, and a caller that a human's pause
blocks has not missed the change that ended it (its `seen` is current).  With it, whoever
is in a barrier can go on, or a pause in force blocks them, or an exchange has the lock,
or the wait whose cleanup they await was told and can step (`BarriersServed`); and a wait
that was told only goes down in `Rank`, and nothing but the delivery of the held batch
takes the word back (`WindsDown`).  The assumptions are
`CallAssumption` and `PoliciesAssumption`, which TLC evaluates in `waits`.

`OverlayProofs` proves for every set of stages, paths and changes and any number of
troubles:

* `Invariant`: `Spec => []IInv`, and from it
* `AppliesAreIn`, `PendingIsCurrent`, and the action property `TerminalForGood`,

and `OverlayRefinement` proves `Refinement`: `Spec => ImplementsContract`.  A crash may
come between any two steps, so the invariant has a part that mentions no operation:
`DiskInv` says what record, ledger, preimages, backup and Run record of a stage have in
common at any moment, and a recovery starts from nothing else.  `OpInv` is what the
operation in progress knows at each step.  Both are about one stage, so a step is followed
for its own stage only.  `TargetInv` is where stages meet: an original that was moved
aside belongs to one stage, and no other writes its place, unless to remove it.  For the
refinement, `Prepare` opens a batch, `Install` and `Publish` write one path of it and
`Mark` finishes it; steps that prune, or a power loss that undoes pruning, spoil what a
stage offers, and all others stutter.  Finding 4 does not contradict the contract, which
lets a batch write over an absent path; it is why `AppliesLand` excludes paths that
another stage applies too.  The assumptions are `ChangeAssumption`, `ContentsAssumption` and `MaxTroublesAssumption`,
which TLC evaluates in `overlay`.

The last section of `OverlayRefinement` is about an operation coming to its end:

* `OperationsNeverStuck`: an operation that has begun can step, or waits for the target
  lock, and then the holder of the lock can step;
* `OperationsAdvance`: each step of an operation decreases a measure, and no step of
  another stage, an editor or a reader raises it again.

The first needs an invariant of its own (`ReadyInv`): at each step the ledger, upper layer
and Run record that the code goes on to read are there, whatever a crash or another stage
did in between.  The measure is lexicographic: the place in the protocol (`Rank`), the
paths the current loop has left, then what is left of the stage's own files.  A crash or
power loss ends the operation, and recovery starts with a measure of its own.

`CaptureProofs` proves for every set of stories and events, any limits and any number of
barriers and failures:

* `Invariant`: `Spec => []IInv`, and from it
* `BarriersReport`;
* `AnswersOwed`: `Spec => []OwedInv`, and from both `NeverStuck`.

`BarrierReports` speaks of the end of a barrier; `IInv` says where each event is until
then.  An event whose submission has returned is applied, is held by one queue or its
worker, or has left a failure on record (`EventInv`).  The barrier has one task on its
way, and an event it waits for is never behind that task nor in a queue that has answered
(`SignalInv`, `HeldInv`); after the last answer it is held nowhere.  From a shutdown on
nothing is admitted, so the workers that `Seal` cuts off hold nothing, and no worker is
waiting for a receipt that a stopped one would owe (`Drained`).  `RecordInv` is what makes
the receipts exact: a link record is under way once, to the main story, and its sender
waits for it.  `RejectInv` is the order of the dead-letter channel.  `OwedInv` is a second
invariant, for those who wait: an open queue has a running worker, and each reply, receipt,
answer or marker that someone waits for is in a queue or with a worker.  `NeverStuck`
follows by going along the waits.  A caller waits for room in a queue or for its reply, so
for a worker; the worker of a subagent story waits for room in the main queue or for a
receipt, so for the main story's worker; and that one waits for nobody, since the link
records of its own captures do not go through its queue.  The assumptions are `LimitsAssumption`
and `RejectedAssumption` (every limit is positive), which TLC evaluates in `capture`; only
`NeverStuck` needs them.

`Can...` in these four modules are the enabling conditions of the steps written out by
hand, since the provers cannot reason about ENABLED.

Model-checked only: all liveness (`ControlsEnd`, `CancellationCompletes`, `BarrierEnds`,
`PauseReleased`, `WaitEnds`, `RecoversForward`, `Reclaims`, `BarriersEnd`), because
fairness and ENABLED are outside the prover.  What they rest on is proved for every
instance, namely that whoever waits is never stuck and that steps bring them nearer:
`ControlsNeverStuck` with `ControlsAdvance` for `ControlsEnd` and `CancellationCompletes`,
`BarriersAreServed` with `ToldWaitsWindDown` for `BarrierEnds`, `OperationsNeverStuck` with
`OperationsAdvance` for `RecoversForward`, and `NeverStuck` for `BarriersEnd`.  Every
invariant and action property of a passing run has a theorem, and so has the refinement.  That the depth-first search of
`validate_causality` computes `Acyclic` needs induction over data, which the prover
cannot do either.

## 5. Findings

1. `execution_concurrent`: without a coordinator a rejected control is recorded
   after the transition fence is released; a pause or resume that was recorded in
   between is overwritten by the older state (`runtime/execution/vm.rs:263`).
2. `journal_link`: reopening a journal whose creation was cut short before
   `sync_directory` never syncs the directory (`journal.rs:106`).
3. `wait_claim`: a manual pause refused before the VM is ready keeps its claim, and
   delivery stays blocked once the VM runs (`wait_coordinator.rs:856`).  The same lines
   keep the claim of a manual pause that fails while automation holds the VM.
4. `overlay_crossed`: two interrupted applies that replace the same directory; one
   recovery takes the directory that the other moved aside for its own finished
   deletion, and the other then undoes it (`apply.rs:2563`).

`PROJECT.json` quotes the comment, document or test that each one contradicts, and lists
the hazards no property covers, with the reason.

## 6. Not modelled

* Completion receipts, Session records, the hand-off between Session owners and the
  memory pool: state machines over files, the first candidates for further modules.
* The epochs of the guest idle lease, which `WaitCoordinator` sees as permit, revoke and
  settle; the composition of `Execution` with `WaitCoordinator`, which share one exchange
  and are each checked against all results the other can give.
* Snapshots, image cache and RAM backing: content addressing, descriptors and memory.
* The VMM, guest, FUSE, network and image code, whose risk is in I/O, parsing and
  emulation; the shim and the frontends, which translate requests; protocol conversion,
  policy evaluation and trajectory replay, which are pure data processing.

`PROJECT.json` gives the reason for every component.
