----------------------------- MODULE CaptureQueue -----------------------------
(***************************************************************************)
(* The capture scheduler of the gateway (engine/apply_queue.rs, with       *)
(* apply_to_story of engine/coordinator.rs): one bounded FIFO and one      *)
(* worker per story, global admission budgets, the link records that a     *)
(* subagent's story sends to the main story, flush, shutdown and the       *)
(* writer of rejected events.                                              *)
(*                                                                         *)
(* A worker that applies a capture of a subagent waits for the receipt of  *)
(* its link records from the worker of the main story, through the same    *)
(* bounded queue that producers and barriers use.                          *)
(***************************************************************************)
EXTENDS Naturals, Sequences, FiniteSets

CONSTANTS
    Event,          \* the captures that producers submit, each one once
    Main,           \* the main story of the run
    Subagent,       \* the stories of its subagents
    Limits,         \* the values examined of APPLY_QUEUE_CAPACITY (queue),
                    \* MAX_RETAINED_STORIES (stories), MAX_EXTERNAL_TASKS
                    \* (external) and MAX_INTERNAL_TASKS (internal)
    MaxRejected,    \* REJECTED_EVENT_QUEUE_CAPACITY
    MaxFaults,      \* bound: preparations, persists and appends that fail
    MaxBarriers     \* bound: calls of flush and shutdown

\* A queue holds at least one task (a channel of tokio has a positive capacity).
ASSUME LimitsAssumption == \A l \in Limits : l.queue \in Nat \ {0}
ASSUME RejectedAssumption == MaxRejected \in Nat \ {0}

Story == Subagent \cup {Main}

VARIABLES
    limit,     \* the limits of this behaviour
    accepting, stopped, failure,  \* SchedulingState and SchedulingOwner::failure
    queues,    \* the stories that have a queue: keys of SchedulingState::queues
    chan,      \* the tasks in each story's channel
    worker,    \* the worker of each story
    call,      \* the producer of each event
    barrier,   \* the flush or shutdown that holds CaptureRuntimeInner::shutdown
    rejected,  \* the rejected events and markers queued for their writer
    lost,      \* the writer failed to append a rejected event
    applied,   \* the events persisted together with their link records
    faults, barriers

vars == <<accepting, stopped, failure, queues, chan, worker, call, barrier,
          rejected, lost, applied, faults, barriers, limit>>
bound == <<barriers, limit>>

-----------------------------------------------------------------------------
\* ApplyTask; `of` is the event, or the story that waits for the receipt.
Task(kind, of) == [kind |-> kind, of |-> of]
NoTask == Task("none", Main)

\* `left` counts the link records still to send, `gap` is backfill_error.
NoWorker == [pc |-> "none", task |-> NoTask, left |-> 0, gap |-> FALSE]
Waiting == [NoWorker EXCEPT !.pc = "recv"]

At(s, pc) == worker[s].pc = pc
CallAt(e, pc) == call[e].pc = pc
CallGoto(e, pc) == call' = [call EXCEPT ![e].pc = pc]

Pending(kind) ==
    LET inChannel(s) == {i \in DOMAIN chan[s] : chan[s][i].kind = kind}
    IN  {s \in Story : worker[s].task.kind = kind}
        \cup UNION {{<<s, i>> : i \in inChannel(s)} : s \in Story}

\* TaskBudget: a permit is held from the admission to the end of the task.
External == Cardinality(Pending("capture"))
            + Cardinality({e \in Event : call[e].pc \in {"reserve", "reserved"}})
Internal == Cardinality(Pending("record"))
            + Cardinality({s \in Story : worker[s].pc \in {"reserve", "reserved"}})

\* The slots of a channel that are taken by a task or by a reservation.
Slots(s) == Len(chan[s])
            + Cardinality({e \in Event : CallAt(e, "reserved") /\ call[e].story = s})
            + (IF s = Main THEN Cardinality({c \in Story : At(c, "reserved")}) ELSE 0)
Room(s) == Slots(s) < limit.queue
Closed(s) == At(s, "exited")

\* queue(): the queue of a story, created with its worker on first use.
MayQueue(s) == s \in queues \/ Cardinality(queues) < limit.stories
Queued(s) == queues' = queues \cup {s}
Spawned(s) == IF s \in queues THEN worker ELSE [worker EXCEPT ![s] = Waiting]

Fault == faults < MaxFaults /\ faults' = faults + 1
\* Every outcome of a step that may fail.
Outcome(ok) == (ok /\ UNCHANGED faults) \/ (~ok /\ Fault)

-----------------------------------------------------------------------------
(* Producers.                                                              *)

\* enqueue: never waits; everything up to try_send happens under the state lock.
Enqueue(e, s) ==
    /\ CallAt(e, "new")
    /\ IF accepting /\ External < limit.external /\ MayQueue(s)
       THEN /\ Queued(s) /\ worker' = Spawned(s)
            /\ chan' = IF Room(s) THEN [chan EXCEPT ![s] = Append(@, Task("capture", e))]
                                  ELSE chan
            /\ call' = [call EXCEPT ![e] =
                           [pc |-> IF Room(s) THEN "returned" ELSE "refused", story |-> s]]
       ELSE /\ call' = [call EXCEPT ![e] = [pc |-> "refused", story |-> s]]
            /\ UNCHANGED <<queues, worker, chan>>
    /\ UNCHANGED <<accepting, stopped, failure, barrier, rejected, lost, applied,
                   faults, bound>>

\* record_rejected_task, after the state lock is given up: the gap is recorded and
\* the event offered to the dead-letter writer, which may have no room for it.
RecordRejected(e) ==
    /\ CallAt(e, "refused")
    /\ failure' = TRUE
    /\ rejected' = IF Len(rejected) < MaxRejected THEN Append(rejected, Task("event", e))
                                                  ELSE rejected
    /\ CallGoto(e, "returned")
    /\ UNCHANGED <<accepting, stopped, queues, chan, worker, barrier, lost, applied,
                   faults, bound>>

\* apply, up to the wait for a slot: the budget is tried once, never waited for.
Apply(e, s) ==
    /\ CallAt(e, "new")
    /\ IF External < limit.external /\ accepting /\ MayQueue(s)
       THEN /\ Queued(s) /\ worker' = Spawned(s)
            /\ call' = [call EXCEPT ![e] = [pc |-> "reserve", story |-> s]]
       ELSE /\ call' = [call EXCEPT ![e] = [pc |-> "failed", story |-> s]]
            /\ UNCHANGED <<queues, worker>>
    /\ UNCHANGED <<accepting, stopped, failure, chan, barrier, rejected, lost,
                   applied, faults, bound>>

\* reserve_owned, outside the lock.
Reserve(e) ==
    LET s == call[e].story IN
    /\ CallAt(e, "reserve") /\ (Closed(s) \/ Room(s))
    /\ CallGoto(e, IF Closed(s) THEN "failed" ELSE "reserved")
    /\ UNCHANGED <<accepting, stopped, failure, queues, chan, worker, barrier,
                   rejected, lost, applied, faults, bound>>

\* Mutant: the admission is not checked again once the slot is there.
SendUnchecked(e) ==
    /\ CallAt(e, "reserved")
    /\ chan' = [chan EXCEPT ![call[e].story] = Append(@, Task("capture", e))]
    /\ CallGoto(e, "await")
    /\ UNCHANGED <<accepting, stopped, failure, queues, worker, barrier, rejected,
                   lost, applied, faults, bound>>

\* The admission takes effect when the task is sent.
Send(e) ==
    /\ CallAt(e, "reserved")
    /\ IF accepting
       THEN /\ chan' = [chan EXCEPT ![call[e].story] = Append(@, Task("capture", e))]
            /\ CallGoto(e, "await")
       ELSE UNCHANGED chan /\ CallGoto(e, "failed")
    /\ UNCHANGED <<accepting, stopped, failure, queues, worker, barrier, rejected,
                   lost, applied, faults, bound>>

\* The caller of apply is dropped; a capture that was sent goes on.
Abandon(e) ==
    /\ call[e].pc \in {"reserve", "reserved", "await"}
    /\ CallGoto(e, "abandoned")
    /\ UNCHANGED <<accepting, stopped, failure, queues, chan, worker, barrier,
                   rejected, lost, applied, faults, bound>>

-----------------------------------------------------------------------------
(* The worker of a story.                                                  *)

\* A command without a receipt is a gap, and the next link record follows.
Gap(w) == [w EXCEPT !.pc = "link", !.left = @ - 1, !.gap = TRUE]
Receipt(w, ok) == [w EXCEPT !.pc = "link", !.left = @ - 1, !.gap = @ \/ ~ok]

\* The next task is received.
Receive(s) ==
    /\ At(s, "recv") /\ chan[s] # <<>> /\ Head(chan[s]).kind # "stop"
    /\ worker' = [worker EXCEPT ![s] =
         [pc |-> IF Head(chan[s]).kind = "capture" THEN "prepare" ELSE "command",
          task |-> Head(chan[s]), left |-> 0, gap |-> FALSE]]
    /\ chan' = [chan EXCEPT ![s] = Tail(@)]
    /\ UNCHANGED <<accepting, stopped, failure, queues, call, barrier, rejected,
                   lost, applied, faults, bound>>

\* Command: the story handles it and its sender, another worker or the barrier,
\* gets the answer.
Command(s) ==
    LET t == worker[s].task IN
    /\ At(s, "command")
    /\ \E ok \in BOOLEAN :
         /\ Outcome(ok)
         /\ failure' = (failure \/ ~ok)
         /\ IF t.kind = "record"
            THEN /\ worker' = [worker EXCEPT ![s].pc = "release", ![t.of] = Receipt(@, ok)]
                 /\ UNCHANGED barrier
            ELSE /\ worker' = [worker EXCEPT ![s].pc = "release"]
                 /\ barrier' = [barrier EXCEPT !.pc = "flush", !.left = @ \ {s},
                                               !.ok = @ /\ ok]
    /\ UNCHANGED <<accepting, stopped, queues, chan, call, rejected, lost, applied,
                   bound>>

\* The iteration ends and the permit is dropped.
Release(s) ==
    /\ At(s, "release")
    /\ worker' = [worker EXCEPT ![s] = Waiting]
    /\ UNCHANGED <<accepting, stopped, failure, queues, chan, call, barrier,
                   rejected, lost, applied, faults, bound>>

\* The result of apply_to_story: a failure is recorded, the caller is answered.
Finish(s, ok) ==
    LET e == worker[s].task.of IN
    /\ worker' = [worker EXCEPT ![s].pc = "release"]
    /\ failure' = (failure \/ ~ok)
    /\ applied' = IF ok THEN applied \cup {e} ELSE applied
    /\ IF CallAt(e, "await") THEN CallGoto(e, IF ok THEN "acked" ELSE "failed")
                             ELSE UNCHANGED call

\* prepare finds how many link records the main story needs, or fails.
Prepare(s) ==
    /\ At(s, "prepare")
    /\ \E ok \in BOOLEAN :
         /\ Outcome(ok)
         /\ IF ok
            THEN /\ \E n \in 0..1 :
                      worker' = [worker EXCEPT ![s].pc = "link", ![s].left = n]
                 /\ UNCHANGED <<failure, applied, call>>
            ELSE Finish(s, FALSE)
    /\ UNCHANGED <<accepting, stopped, queues, chan, barrier, rejected, lost,
                   bound>>

\* A link record of the main story itself is handled without its queue.
LinkInline(s) ==
    /\ At(s, "link") /\ worker[s].left > 0 /\ s = Main
    /\ \E ok \in BOOLEAN :
         /\ Outcome(ok)
         /\ failure' = (failure \/ ~ok)
         /\ worker' = [worker EXCEPT ![s] = Receipt(@, ok)]
    /\ UNCHANGED <<accepting, stopped, queues, chan, call, barrier, rejected, lost,
                   applied, bound>>

\* Mutant: a record of the main story's own capture goes through its queue.
LinkThroughQueue(s) ==
    /\ At(s, "link") /\ worker[s].left > 0
    /\ IF Internal < limit.internal /\ ~stopped /\ MayQueue(Main)
       THEN /\ Queued(Main)
            /\ worker' = [Spawned(Main) EXCEPT ![s].pc = "reserve"]
            /\ UNCHANGED failure
       ELSE /\ worker' = [worker EXCEPT ![s] = Gap(@)]
            /\ failure' = TRUE /\ UNCHANGED queues
    /\ UNCHANGED <<accepting, stopped, chan, call, barrier, rejected, lost, applied,
                   faults, bound>>

\* command_internal, up to the wait for a slot of the main story's queue.
LinkMain(s) ==
    /\ At(s, "link") /\ worker[s].left > 0 /\ s # Main
    /\ IF Internal < limit.internal /\ ~stopped /\ MayQueue(Main)
       THEN /\ Queued(Main)
            /\ worker' = [Spawned(Main) EXCEPT ![s].pc = "reserve"]
            /\ UNCHANGED failure
       ELSE /\ worker' = [worker EXCEPT ![s] = Gap(@)]
            /\ failure' = TRUE /\ UNCHANGED queues
    /\ UNCHANGED <<accepting, stopped, chan, call, barrier, rejected, lost, applied,
                   faults, bound>>

LinkReserve(s) ==
    /\ At(s, "reserve") /\ (Closed(Main) \/ Room(Main))
    /\ worker' = [worker EXCEPT ![s] = IF Closed(Main) THEN Gap(@)
                                       ELSE [@ EXCEPT !.pc = "reserved"]]
    /\ failure' = (failure \/ Closed(Main))
    /\ UNCHANGED <<accepting, stopped, queues, chan, call, barrier, rejected, lost,
                   applied, faults, bound>>

LinkSend(s) ==
    /\ At(s, "reserved")
    /\ IF stopped
       THEN /\ worker' = [worker EXCEPT ![s] = Gap(@)]
            /\ failure' = TRUE /\ UNCHANGED chan
       ELSE /\ worker' = [worker EXCEPT ![s].pc = "receipt"]
            /\ chan' = [chan EXCEPT ![Main] = Append(@, Task("record", s))]
            /\ UNCHANGED failure
    /\ UNCHANGED <<accepting, stopped, queues, call, barrier, rejected, lost,
                   applied, faults, bound>>

\* The capture's own record is persisted, whatever became of its link records.
Persist(s) ==
    /\ At(s, "link") /\ worker[s].left = 0
    /\ \E ok \in BOOLEAN : Outcome(ok) /\ Finish(s, ok /\ ~worker[s].gap)
    /\ UNCHANGED <<accepting, stopped, queues, chan, barrier, rejected, lost,
                   bound>>

\* Stop: the answer is the last snapshot; what is left in the channel is dropped,
\* which its senders see as a lost reply.
StopWorker(s) ==
    LET rest == {Tail(chan[s])[i] : i \in DOMAIN Tail(chan[s])} IN
    /\ At(s, "recv") /\ chan[s] # <<>> /\ Head(chan[s]).kind = "stop"
    /\ chan' = [chan EXCEPT ![s] = <<>>]
    /\ worker' = [c \in Story |->
         IF c = s THEN [Waiting EXCEPT !.pc = "exited"]
         ELSE IF Task("record", c) \in rest THEN Gap(worker[c]) ELSE worker[c]]
    /\ call' = [e \in Event |->
         IF Task("capture", e) \in rest /\ CallAt(e, "await")
         THEN [call[e] EXCEPT !.pc = "failed"] ELSE call[e]]
    /\ failure' = (failure \/ \E t \in rest : t.kind = "record")
    /\ barrier' = [barrier EXCEPT !.pc = "stop", !.left = @ \ {s}]
    /\ UNCHANGED <<accepting, stopped, queues, rejected, lost, applied, faults,
                   bound>>

-----------------------------------------------------------------------------
(* flush and shutdown.                                                     *)

BarrierAt(pc) == barrier.pc = pc
NoBarrier == [pc |-> "none", kind |-> "flush", left |-> {}, ok |-> TRUE, before |-> {}]

\* The events whose submission had returned without an error.
Submitted == {e \in Event : call[e].pc \in {"returned", "acked"}}

\* The mutex of flush and shutdown is taken; shutdown closes external admission.
Begin(kind) ==
    /\ barrier.pc \in {"none", "done"} /\ barriers < MaxBarriers
    /\ barriers' = barriers + 1
    /\ barrier' = [NoBarrier EXCEPT !.pc = "begin", !.kind = kind, !.before = Submitted]
    /\ accepting' = (accepting /\ kind = "flush")
    /\ UNCHANGED <<stopped, failure, queues, chan, worker, call, rejected, lost,
                   applied, faults, limit>>

\* flush: the queues present at entry.
Snapshot ==
    /\ BarrierAt("begin")
    /\ barrier' = [barrier EXCEPT !.pc = "flush", !.left = queues]
    /\ UNCHANGED <<accepting, stopped, failure, queues, chan, worker, call,
                   rejected, lost, applied, faults, bound>>

\* A Flush or Stop task waits for a slot like any other; one queue at a time.
BarrierSend(s) ==
    /\ barrier.pc \in {"flush", "stop"} /\ s \in barrier.left /\ Room(s)
    /\ chan' = [chan EXCEPT ![s] = Append(@, Task(barrier.pc, s))]
    /\ barrier' = [barrier EXCEPT !.pc = "sent"]
    /\ UNCHANGED <<accepting, stopped, failure, queues, worker, call, rejected,
                   lost, applied, faults, bound>>

\* The end of flush reads the recorded failure; shutdown goes on to stop.
Flushed ==
    /\ BarrierAt("flush") /\ barrier.left = {}
    /\ barrier' = [barrier EXCEPT !.ok = @ /\ ~failure,
                                  !.pc = IF barrier.kind = "flush" THEN "done" ELSE "seal"]
    /\ UNCHANGED <<accepting, stopped, failure, queues, chan, worker, call,
                   rejected, lost, applied, faults, bound>>

Seal ==
    /\ BarrierAt("seal")
    /\ stopped' = TRUE /\ queues' = {}
    /\ barrier' = [barrier EXCEPT !.pc = "stop", !.left = queues]
    /\ UNCHANGED <<accepting, failure, chan, worker, call, rejected, lost, applied,
                   faults, bound>>

\* The workers have ended; the marker follows the rejected events queued so far.
\* The writer's channel blocks the marker while it is full.
Drain ==
    /\ BarrierAt("stop") /\ barrier.left = {}
    /\ Len(rejected) < MaxRejected
    /\ rejected' = Append(rejected, Task("marker", Main))
    /\ barrier' = [barrier EXCEPT !.pc = "drain"]
    /\ UNCHANGED <<accepting, stopped, failure, queues, chan, worker, call, lost,
                   applied, faults, bound>>

\* The thread of RejectedEventWriter: append, or answer a marker.
Write ==
    /\ rejected # <<>>
    /\ rejected' = Tail(rejected)
    /\ IF Head(rejected).kind = "event"
       THEN /\ \E ok \in BOOLEAN : Outcome(ok) /\ lost' = (lost \/ ~ok)
            /\ UNCHANGED barrier
       ELSE /\ barrier' = [barrier EXCEPT !.pc = "done", !.ok = @ /\ ~lost]
            /\ UNCHANGED <<lost, faults>>
    /\ UNCHANGED <<accepting, stopped, failure, queues, chan, worker, call, applied,
                   bound>>

-----------------------------------------------------------------------------
Init ==
    /\ limit \in Limits
    /\ accepting = TRUE /\ stopped = FALSE /\ failure = FALSE
    /\ queues = {} /\ chan = [s \in Story |-> <<>>]
    /\ worker = [s \in Story |-> NoWorker]
    /\ call = [e \in Event |-> [pc |-> "new", story |-> Main]]
    /\ barrier = NoBarrier
    /\ rejected = <<>> /\ lost = FALSE /\ applied = {}
    /\ faults = 0 /\ barriers = 0

Produce(e) ==
    \/ \E s \in Story : Enqueue(e, s) \/ Apply(e, s)
    \/ Abandon(e)

Proceed(e) == RecordRejected(e) \/ Reserve(e) \/ Send(e)

Work(s) ==
    \/ Receive(s) \/ Command(s) \/ Release(s) \/ Prepare(s) \/ LinkInline(s)
    \/ LinkMain(s) \/ LinkReserve(s) \/ LinkSend(s) \/ Persist(s) \/ StopWorker(s)

Drive == Snapshot \/ Flushed \/ Seal \/ Drain \/ (\E s \in Story : BarrierSend(s))

Next ==
    \/ \E e \in Event : Produce(e) \/ Proceed(e)
    \/ \E s \in Story : Work(s)
    \/ Begin("flush") \/ Begin("shutdown") \/ Drive \/ Write

Spec == Init /\ [][Next]_vars

\* Tasks are polled and the writer is scheduled.
Fairness ==
    /\ \A e \in Event : WF_vars(Proceed(e))
    /\ \A s \in Story : WF_vars(Work(s))
    /\ WF_vars(Drive) /\ WF_vars(Write)

FairSpec == Spec /\ Fairness

-----------------------------------------------------------------------------
\* A flush or shutdown that returns Ok has every event whose submission returned
\* before it persisted with all its link records, whatever was full, failed or was
\* racing it; and when a shutdown returns at all, no such event is still in a
\* queue, a worker or the dead-letter writer (flush, shutdown, apply_to_story).
BarrierReports ==
    BarrierAt("done") =>
        /\ barrier.ok => barrier.before \subseteq applied
        /\ barrier.kind = "shutdown" =>
             /\ \A s \in Story : chan[s] = <<>> /\ worker[s].pc \in {"none", "exited"}
             /\ \A e \in barrier.before : Task("event", e) \notin
                    {rejected[i] : i \in DOMAIN rejected}

\* Every flush, shutdown and waiting apply ends, although workers wait for other
\* workers' bounded queues (send, apply_to_story, flush, shutdown).
BarriersEnd ==
    []<>(/\ barrier.pc \in {"none", "done"}
         /\ \A e \in Event : call[e].pc \notin {"reserve", "reserved", "await"})
=============================================================================
