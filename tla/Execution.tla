------------------------------ MODULE Execution ------------------------------
(***************************************************************************)
(* The owner of one VM Execution (runtime/execution/mod.rs and vm.rs), the *)
(* control tasks that clients start on it, the control channel to the      *)
(* runner process (executor/vm/control.rs), the runner's control thread    *)
(* and the executor task that starts, awaits and reaps the runner          *)
(* (executor/vm/supported.rs, execution_context/lifecycle.rs).             *)
(*                                                                         *)
(* The owner keeps one projection of committed facts.  A control runs as a *)
(* task: admit, take the transition fence, record the dispatch, exchange   *)
(* with the runner, record the result.  The native effect happens in       *)
(* another process, outside the owner's lock; everything below is about    *)
(* keeping the projection, the history and that process in agreement while *)
(* replies are lost, appends fail, the guest exits and the Execution is    *)
(* cancelled at any step.                                                  *)
(***************************************************************************)
EXTENDS Naturals, FiniteSets

CONSTANTS
    Control,      \* the control tasks that may be alive at the same time
    Requests,     \* the kinds of control that clients ask for
    Setups        \* the settings under which an Execution may be created

Kinds == {"pause", "resume", "offload", "checkpoint", "suspend"}
Origins == {"manual", "wait"}
Terminal == {"completed", "failed", "cancelled", "hibernated"}
RunState == {"created", "starting", "running", "suspended", "checkpointing",
             "cancelling"} \cup Terminal

ASSUME RequestsAssumption == Requests \subseteq Kinds
ASSUME SetupsAssumption ==
    Setups \subseteq [serialised : BOOLEAN, limit : Nat,
                      faults : SUBSET {"rejected", "lost", "kept"}]

VARIABLES
    setup,      \* the settings of this Execution, they never change
    proj,       \* State: what the owner publishes (status, pending, outcome_unknown)
    gap,        \* history_gap: some observation is missing from the journal
    replayed,   \* what replaying the journal yields: {} when a record is refused
    poisoned,   \* the journal handle was poisoned by an append of unknown outcome
    cancelled,  \* the latched cancellation token
    ctl,        \* the control tasks
    fence,      \* the holder of VmControl::transition, a set of at most one
    conn,       \* VmControl::connection: none yet, up, or taken
    suspension, \* Connection::suspension is set
    vm,         \* the runner process and its vCPUs
    exec,       \* the executor task
    uncertain   \* history: some exchange ended without a known outcome

vars == <<proj, gap, replayed, poisoned, cancelled, ctl, fence, conn,
          suspension, vm, exec, uncertain>>

MaxPending == setup.limit       \* MAX_PENDING: the most controls admitted and not finished
Serialised == setup.serialised  \* a wait coordinator is bound: it runs one control at a time
Faults == setup.faults          \* the append failures the journal may show, see Appends

-----------------------------------------------------------------------------
(* The pure transition rules, State::apply.                                *)

Live(s) == s.state \in {"running", "suspended"}
Pending(s) == s.queued \cup s.inflight

Initial == [state |-> "created", queued |-> {}, inflight |-> {}, unknown |-> FALSE]

\* A fact the history records.  `id` is a set so that facts that name no control
\* carry {}; `to` is the state, result or rejection the fact reports.
Fact(event, id, to) == [event |-> event, id |-> id, to |-> to]

Admission(f) == f.event \in {"queued", "dispatched"}

\* apply returns Ok.  history_gap is not part of a replayed state.
Admits(s, g, f) ==
    /\ Admission(f) => ~g /\ ~s.unknown /\ Live(s)
    /\ f.event = "queued" => /\ f.id \cap Pending(s) = {}
                             /\ Cardinality(Pending(s)) < MaxPending
    /\ f.event = "dispatched" => f.id \subseteq s.queued
    /\ f.event = "succeeded" => f.id \subseteq s.inflight
    /\ f.event = "failed" => f.id \subseteq Pending(s)

\* Whether a lifecycle notification still advances the status.
Advances(s, to) ==
    \/ to = "starting" /\ s.state \in {"created", "starting"}
    \/ to = "running" /\ s.state \in {"created", "starting", "running"}
    \/ to = "cancelling" /\ s.state \notin Terminal

\* Mutant: a late result is applied to a status that is no longer live.
ReportedAlways(s, to) ==
    CASE to \in {"running", "rejects_running"} -> "running"
      [] to \in {"paused", "rejects_paused"} -> "suspended"
      [] to = "sealed" -> "checkpointing"
      [] OTHER -> s.state

\* The status after a control's result: only a live status follows the VM, and a
\* plain checkpoint leaves it alone.
Reported(s, to) ==
    IF ~Live(s) THEN s.state
    ELSE CASE to \in {"running", "rejects_running"} -> "running"
           [] to \in {"paused", "rejects_paused"} -> "suspended"
           [] to = "sealed" -> "checkpointing"
           [] OTHER -> s.state

Lifecycle(s, to) == IF Advances(s, to) THEN to ELSE s.state

Apply(s, f) ==
    CASE f.event = "queued" -> [s EXCEPT !.queued = @ \cup f.id]
      [] f.event = "dispatched" ->
           [s EXCEPT !.queued = @ \ f.id, !.inflight = @ \cup f.id]
      [] f.event = "succeeded" ->
           [s EXCEPT !.inflight = @ \ f.id, !.state = Reported(s, f.to)]
      [] f.event = "failed" ->
           [s EXCEPT !.queued = @ \ f.id, !.inflight = @ \ f.id,
                     !.unknown = @ \/ (f.to = "lost" /\ f.id \subseteq s.inflight),
                     !.state = Reported(s, f.to)]
      [] f.event = "lifecycle" -> [s EXCEPT !.state = Lifecycle(s, f.to)]
      [] f.event = "wait_failed" ->
           [s EXCEPT !.state = IF f.to = "cancelling" THEN Lifecycle(s, f.to) ELSE @]
      [] f.event = "finished" ->
           [s EXCEPT !.state = IF @ \in Terminal THEN @ ELSE f.to]

-----------------------------------------------------------------------------
(* commit_owned: one fact goes through apply and the journal under the     *)
(* owner's lock, so it is one step.  An append is stored, is rejected with *)
(* nothing written, or ends Unknown with the record lost or kept; after an *)
(* Unknown the handle is poisoned and every append is Unknown and lost.    *)

Appends == IF poisoned THEN {"lost"} ELSE {"stored"} \cup Faults
Unknown(out) == out \in {"lost", "kept"}

\* Mutant: only an append of unknown outcome is reported as a gap.
CommitSilently(f, out) ==
    IF ~Admits(proj, gap, f)
    THEN /\ gap' = (gap \/ ~Admission(f))
         /\ UNCHANGED <<proj, replayed, poisoned>>
    ELSE /\ out \in Appends
         /\ poisoned' = (poisoned \/ Unknown(out))
         /\ gap' = (gap \/ Unknown(out))
         /\ proj' = IF out = "stored" \/ ~Admission(f) THEN Apply(proj, f) ELSE proj
         /\ replayed' = IF out \in {"stored", "kept"}
                        THEN {Apply(s, f) : s \in {r \in replayed : Admits(r, FALSE, f)}}
                        ELSE replayed

Commit(f, out) ==
    IF ~Admits(proj, gap, f)
    THEN /\ gap' = (gap \/ ~Admission(f))
         /\ UNCHANGED <<proj, replayed, poisoned>>
    ELSE /\ out \in Appends
         /\ poisoned' = (poisoned \/ Unknown(out))
         /\ gap' = (gap \/ (out # "stored" /\ (Unknown(out) \/ ~Admission(f))))
         /\ proj' = IF out = "stored" \/ ~Admission(f) THEN Apply(proj, f) ELSE proj
         /\ replayed' = IF out \in {"stored", "kept"}
                        THEN {Apply(s, f) : s \in {r \in replayed : Admits(r, FALSE, f)}}
                        ELSE replayed

\* The commit returned Ok to its caller.
Committed(f, out) == Admits(proj, gap, f) /\ out = "stored"

Outcomes == {"stored", "rejected", "lost", "kept"}

-----------------------------------------------------------------------------
(* Control tasks, Execution::exchange and perform_control.                 *)

Idle == [pc |-> "idle", kind |-> "pause", origin |-> "manual", res |-> "none"]

\* ensure_live
EnsureLive == ~cancelled /\ Live(proj)

At(c, pc) == ctl[c].pc = pc
Goto(c, pc, res) == ctl' = [ctl EXCEPT ![c].pc = pc, ![c].res = res]
Ends(c) == ctl' = [ctl EXCEPT ![c] = Idle]

\* ensure_live and enqueue.  An admission that is refused or not stored returns
\* to the client at once.  Under a coordinator no other control is running.
Enqueue(c, kind, origin, out) ==
    /\ At(c, "idle") /\ EnsureLive
    /\ Serialised => \A d \in Control : At(d, "idle")
    /\ ~Serialised => origin = "manual"
    /\ Commit(Fact("queued", {c}, kind), out)
    /\ IF Committed(Fact("queued", {c}, kind), out)
       THEN ctl' = [ctl EXCEPT ![c] = [pc |-> "queued", kind |-> kind,
                                       origin |-> origin, res |-> "none"]]
       ELSE UNCHANGED ctl
    /\ UNCHANGED <<cancelled, fence, conn, suspension, vm, exec, uncertain>>

\* Mutant: a control that finds the Execution ending returns without recording it.
AcquireForgets(c) ==
    /\ At(c, "queued") /\ fence = {}
    /\ IF EnsureLive THEN fence' = {c} /\ Goto(c, "fenced", "none")
                     ELSE UNCHANGED fence /\ Ends(c)
    /\ UNCHANGED <<proj, gap, replayed, poisoned, cancelled, conn, suspension, vm,
                   exec, uncertain>>

\* The transition fence, then ensure_live again.
Acquire(c) ==
    /\ At(c, "queued") /\ fence = {}
    /\ IF EnsureLive THEN fence' = {c} /\ Goto(c, "fenced", "none")
                     ELSE UNCHANGED fence /\ Goto(c, "failing", "lost")
    /\ UNCHANGED <<proj, gap, replayed, poisoned, cancelled, conn, suspension, vm,
                   exec, uncertain>>

\* Mutant: the exchange goes ahead when the dispatch could not be recorded.
DispatchUnrecorded(c, out) ==
    /\ At(c, "fenced") /\ EnsureLive
    /\ Commit(Fact("dispatched", {c}, "none"), out)
    /\ Goto(c, "dispatched", "none")
    /\ UNCHANGED <<cancelled, fence, conn, suspension, vm, exec, uncertain>>

\* The request event is published, the Execution is still live, and the dispatch
\* is recorded before any native byte is sent.  Any failure releases the fence.
Dispatch(c, out) ==
    /\ At(c, "fenced") /\ EnsureLive
    /\ Commit(Fact("dispatched", {c}, "none"), out)
    /\ IF Committed(Fact("dispatched", {c}, "none"), out)
       THEN Goto(c, "dispatched", "none") /\ UNCHANGED fence
       ELSE Goto(c, "failing", "lost") /\ fence' = {}
    /\ UNCHANGED <<cancelled, conn, suspension, vm, exec, uncertain>>

\* The event sink refuses the request event, or the Execution is no longer live.
DispatchRefused(c) ==
    /\ At(c, "fenced")
    /\ Goto(c, "failing", "lost") /\ fence' = {}
    /\ UNCHANGED <<proj, gap, replayed, poisoned, cancelled, conn, suspension, vm,
                   exec, uncertain>>

\* VmControl::exchange up to the first byte: the connection lock is held from here
\* until the exchange ends.
Send(c) ==
    /\ At(c, "dispatched") /\ conn = "up"
    /\ Goto(c, "sent", "none")
    /\ UNCHANGED <<proj, gap, replayed, poisoned, cancelled, fence, conn, suspension,
                   vm, exec, uncertain>>

\* No connection, or preparation failed: ControlFailure::BeforeDispatch.
SendRefused(c) ==
    /\ At(c, "dispatched")
    /\ Goto(c, "failing", "before") /\ fence' = {}
    /\ UNCHANGED <<proj, gap, replayed, poisoned, cancelled, conn, suspension, vm,
                   exec, uncertain>>

\* lookup_request: a capture already sealed under this request is returned without
\* asking the runner.
SendKnown(c) ==
    /\ At(c, "dispatched") /\ conn = "up" /\ ctl[c].kind = "checkpoint"
    /\ Goto(c, "replied", "captured")
    /\ UNCHANGED <<proj, gap, replayed, poisoned, cancelled, fence, conn, suspension,
                   vm, exec, uncertain>>

\* What the runner may do with a request and reply, with the vCPUs at v.  A reply
\* "fails" carries no state: the transition itself failed.
Serves(kind, origin, v) ==
    LET To(w, res) == [vm |-> w, res |-> res]
        Failed == {To(w, "fails") : w \in {v, "halted"}}
        Refused == To(v, IF v = "halted" THEN "rejects_paused" ELSE "rejects_running")
        \* a conditional pause or offload the idle evidence no longer covers
        Denied == To(v, IF v = "halted" THEN "paused" ELSE "running")
    IN CASE kind = "pause" ->
              {To("halted", "paused")} \cup Failed
                \cup {r \in {Denied} : origin = "wait" /\ v = "running"}
         [] kind = "resume" -> {To("running", "running")} \cup Failed
         [] kind = "offload" ->
              {To("halted", "paused")} \cup Failed
                \cup {r \in {Refused} : origin = "manual"}
                \cup {r \in {Denied} : origin = "wait" /\ v = "halted"}
         [] kind = "checkpoint" ->
              IF v = "halted" THEN {Refused}
              ELSE {To(v, "captured"), Refused} \cup Failed
         [] kind = "suspend" -> {To("suspended", "sealed")} \cup Failed

\* The runner's control thread serves the request and writes its reply.
Serve(c) ==
    /\ At(c, "sent") /\ ctl[c].res = "none" /\ vm \in {"running", "halted"}
    /\ \E r \in Serves(ctl[c].kind, ctl[c].origin, vm) :
         vm' = r.vm /\ Goto(c, "sent", r.res)
    /\ UNCHANGED <<proj, gap, replayed, poisoned, cancelled, fence, conn, suspension,
                   exec, uncertain>>

\* A complete, valid reply ends the exchange; a rejection with a known live state
\* also releases the fence and becomes the control's error.
Reply(c) ==
    /\ At(c, "sent") /\ ctl[c].res \notin {"none", "fails"}
    /\ IF ctl[c].res \in {"rejects_running", "rejects_paused"}
       THEN Goto(c, "failing", ctl[c].res) /\ fence' = {}
       ELSE Goto(c, "replied", ctl[c].res) /\ UNCHANGED fence
    /\ suspension' = (suspension \/ ctl[c].res = "sealed")
    /\ UNCHANGED <<proj, gap, replayed, poisoned, cancelled, conn, vm, exec, uncertain>>

\* Mutant: a failed exchange neither drops the connection nor cancels.
UncertainTolerated(c) ==
    /\ At(c, "sent")
    /\ Goto(c, "failing", "lost") /\ fence' = {} /\ uncertain' = TRUE
    /\ UNCHANGED <<proj, gap, replayed, poisoned, cancelled, conn, suspension, vm, exec>>

\* Mutant: no timeout, the exchange waits for an error or the end of the stream.
UncertainWithoutTimeout(c) ==
    /\ At(c, "sent") /\ (ctl[c].res = "fails" \/ vm \notin {"running", "halted"})
    /\ Goto(c, "failing", "lost") /\ fence' = {}
    /\ conn' = "down" /\ suspension' = FALSE /\ cancelled' = TRUE /\ uncertain' = TRUE
    /\ UNCHANGED <<proj, gap, replayed, poisoned, vm, exec>>

\* Mutant: the connection is dropped and the Execution goes on.
UncertainUncancelled(c) ==
    /\ At(c, "sent")
    /\ Goto(c, "failing", "lost") /\ fence' = {}
    /\ conn' = "down" /\ suspension' = FALSE /\ uncertain' = TRUE
    /\ UNCHANGED <<proj, gap, replayed, poisoned, cancelled, vm, exec>>

\* Anything else, a timeout included, is fail-stop: the connection is dropped and
\* the Execution cancelled.
Uncertain(c) ==
    /\ At(c, "sent")
    /\ Goto(c, "failing", "lost") /\ fence' = {}
    /\ conn' = "down" /\ suspension' = FALSE /\ cancelled' = TRUE /\ uncertain' = TRUE
    /\ UNCHANGED <<proj, gap, replayed, poisoned, vm, exec>>

\* succeeded and the completion event, then the fence is released.  A failed append
\* or event turns the confirmed effect into an error for the client.
Complete(c, out) ==
    LET fact == Fact("succeeded", {c}, ctl[c].res) IN
    /\ At(c, "replied")
    /\ Commit(fact, out) /\ fence' = {}
    /\ IF ~Admits(proj, gap, fact) THEN Goto(c, "failing", "lost")
       ELSE Goto(c, "checking", "none") \/ (Committed(fact, out) /\ Ends(c))
    /\ UNCHANGED <<cancelled, conn, suspension, vm, exec, uncertain>>

\* control_error, first half: failed records the error after the fence is released.
Fail(c, out) ==
    /\ At(c, "failing")
    /\ Commit(Fact("failed", {c}, ctl[c].res), out)
    /\ Goto(c, "checking", "none")
    /\ UNCHANGED <<cancelled, fence, conn, suspension, vm, exec, uncertain>>

\* control_error, second half: an unknown outcome, or an automatic control that
\* leaves the VM paused, cancels the Execution.
Check(c) ==
    /\ At(c, "checking")
    /\ cancelled' = \/ cancelled
                    \/ proj.unknown
                    \/ ctl[c].origin = "wait" /\ proj.state = "suspended"
    /\ Ends(c)
    /\ UNCHANGED <<proj, gap, replayed, poisoned, fence, conn, suspension, vm, exec,
                   uncertain>>

-----------------------------------------------------------------------------
(* The runner process by itself.                                           *)

\* The guest shuts down or the process dies.
VmExits ==
    /\ vm \in {"running", "halted"}
    /\ vm' = "exited"
    /\ UNCHANGED <<proj, gap, replayed, poisoned, cancelled, ctl, fence, conn,
                   suspension, exec, uncertain>>

\* The control thread reads end of file and exits instead of leaving an orphan.
Orphaned ==
    /\ conn = "down" /\ vm \in {"running", "halted"}
    /\ vm' = "exited"
    /\ UNCHANGED <<proj, gap, replayed, poisoned, cancelled, ctl, fence, conn,
                   suspension, exec, uncertain>>

-----------------------------------------------------------------------------
(* The executor task and the single completion path.                       *)

Lifecycles(to, out) == Commit(Fact("lifecycle", {}, to), out)

\* complete finds the token already cancelled: the backend is never invoked.
NeverInvoked ==
    /\ exec = "new" /\ cancelled
    /\ exec' = "cancelled"
    /\ UNCHANGED <<proj, gap, replayed, poisoned, cancelled, ctl, fence, conn,
                   suspension, vm, uncertain>>

\* Execution::starting
Starting(out) ==
    /\ exec = "new" /\ ~cancelled
    /\ Lifecycles("starting", out)
    /\ exec' = "starting"
    /\ UNCHANGED <<cancelled, ctl, fence, conn, suspension, vm, uncertain>>

\* abort_startup, or a backend that fails before the runner is attached.
StartupFails ==
    /\ exec \in {"new", "starting"}
    /\ exec' = "failed"
    /\ UNCHANGED <<proj, gap, replayed, poisoned, cancelled, ctl, fence, conn,
                   suspension, vm, uncertain>>

\* The runner is spawned and attach_with_checkpoint installs its control channel.
Attach ==
    /\ exec = "starting"
    /\ exec' = "attached" /\ conn' = "up" /\ vm' = "running"
    /\ UNCHANGED <<proj, gap, replayed, poisoned, cancelled, ctl, fence, suspension,
                   uncertain>>

\* Execution::ready
Ready(out) ==
    /\ exec = "attached"
    /\ Lifecycles("running", out)
    /\ exec' = "waiting"
    /\ UNCHANGED <<cancelled, ctl, fence, conn, suspension, vm, uncertain>>

\* wait_exit: the exit of the runner wins over cancellation and deadline.
Exited ==
    /\ exec = "waiting" /\ vm \in {"exited", "suspended"}
    /\ exec' = "exited"
    /\ UNCHANGED <<proj, gap, replayed, poisoned, cancelled, ctl, fence, conn,
                   suspension, vm, uncertain>>

\* Mutant: only a running VM is cancelled.
CancellingRunning(out) ==
    /\ exec = "waiting" /\ cancelled /\ vm = "running"
    /\ Lifecycles("cancelling", out)
    /\ exec' = "terminating"
    /\ UNCHANGED <<cancelled, ctl, fence, conn, suspension, vm, uncertain>>

Cancelling(out) ==
    /\ exec = "waiting" /\ cancelled /\ vm \in {"running", "halted"}
    /\ Lifecycles("cancelling", out)
    /\ exec' = "terminating"
    /\ UNCHANGED <<cancelled, ctl, fence, conn, suspension, vm, uncertain>>

Deadline ==
    /\ exec = "waiting" /\ ~cancelled /\ vm \in {"running", "halted"}
    /\ exec' = "overdue"
    /\ UNCHANGED <<proj, gap, replayed, poisoned, cancelled, ctl, fence, conn,
                   suspension, vm, uncertain>>

\* Mutant: the runner is signalled and not reaped.
TerminateUnreaped ==
    /\ exec \in {"terminating", "overdue"}
    /\ exec' = IF exec = "terminating" THEN "reaped" ELSE "late"
    /\ UNCHANGED <<proj, gap, replayed, poisoned, cancelled, ctl, fence, conn,
                   suspension, vm, uncertain>>

\* terminate_process_tree returns when the runner is reaped.
Terminate ==
    /\ exec \in {"terminating", "overdue"}
    /\ exec' = IF exec = "terminating" THEN "reaped" ELSE "late"
    /\ vm' = IF vm = "suspended" THEN vm ELSE "exited"
    /\ UNCHANGED <<proj, gap, replayed, poisoned, cancelled, ctl, fence, conn,
                   suspension, uncertain>>

\* detach waits for the connection lock, that is for a running exchange, and takes
\* the suspension receipt; with it and the suspend exit code the run hibernates.
Detach ==
    /\ exec \in {"exited", "reaped", "late"}
    /\ \A c \in Control : ~At(c, "sent")
    /\ exec' = CASE exec = "reaped" -> "cancelled"
                 [] exec = "late" -> "failed"
                 [] OTHER -> IF vm = "suspended" /\ suspension THEN "hibernated"
                             ELSE "completed"
    /\ conn' = "down" /\ suspension' = FALSE
    /\ UNCHANGED <<proj, gap, replayed, poisoned, cancelled, ctl, fence, vm, uncertain>>

\* finalize, commit and finish.  Normalisation or a failed commit turns any
\* backend report into a failure.
Finish(out) ==
    /\ exec \in Terminal
    /\ \E to \in {exec, "failed"} : Commit(Fact("finished", {}, to), out)
    /\ exec' = "done"
    /\ UNCHANGED <<cancelled, ctl, fence, conn, suspension, vm, uncertain>>

-----------------------------------------------------------------------------
(* Callers of the owner.                                                   *)

\* Execution::cancel
Cancel ==
    /\ ~cancelled /\ cancelled' = TRUE
    /\ UNCHANGED <<proj, gap, replayed, poisoned, ctl, fence, conn, suspension, vm,
                   exec, uncertain>>

\* Execution::wait_failed, reported by the coordinator.  A known control failure of
\* a healthy running Execution is only recorded.
WaitFailed(known, out) ==
    LET cancels == ~known \/ proj.state # "running" \/ gap \/ proj.unknown IN
    /\ Serialised /\ exec # "done"
    /\ cancelled' = (cancelled \/ cancels)
    /\ Commit(Fact("wait_failed", {}, IF cancels THEN "cancelling" ELSE "none"), out)
    /\ UNCHANGED <<ctl, fence, conn, suspension, vm, exec, uncertain>>

\* monitor_wait_termination
MonitorTermination ==
    /\ Serialised /\ proj.state \in Terminal /\ ~cancelled
    /\ cancelled' = TRUE
    /\ UNCHANGED <<proj, gap, replayed, poisoned, ctl, fence, conn, suspension, vm,
                   exec, uncertain>>

-----------------------------------------------------------------------------
Init ==
    /\ setup \in Setups
    /\ proj = Initial /\ gap = FALSE /\ replayed = {Initial} /\ poisoned = FALSE
    /\ cancelled = FALSE
    /\ ctl = [c \in Control |-> Idle] /\ fence = {}
    /\ conn = "none" /\ suspension = FALSE /\ vm = "none"
    /\ exec = "new" /\ uncertain = FALSE

\* The steps of a control task after its admission.
Advance(c, out) ==
    \/ Acquire(c) \/ Dispatch(c, out) \/ DispatchRefused(c)
    \/ Send(c) \/ SendRefused(c) \/ SendKnown(c)
    \/ Reply(c) \/ Uncertain(c)
    \/ Complete(c, out) \/ Fail(c, out) \/ Check(c)

\* The steps of the executor task.
Execute(out) ==
    \/ NeverInvoked \/ Starting(out) \/ StartupFails \/ Attach \/ Ready(out)
    \/ Exited \/ Cancelling(out) \/ Terminate \/ Detach \/ Finish(out)

Next ==
    /\ UNCHANGED setup
    /\ \/ \E out \in Outcomes :
            \/ \E c \in Control :
                 \/ \E kind \in Requests, origin \in Origins : Enqueue(c, kind, origin, out)
                 \/ Advance(c, out)
            \/ Execute(out)
            \/ \E known \in BOOLEAN : WaitFailed(known, out)
       \/ \E c \in Control : Serve(c)
       \/ VmExits \/ Orphaned \/ Deadline \/ Cancel \/ MonitorTermination

\* Spawned tasks keep running: a control task and the executor take their next step,
\* an exchange ends at the latest by its timeout, and the transition fence is a FIFO
\* lock, so a waiting control gets it although others keep taking it.
Fairness ==
    /\ \A c \in Control : /\ WF_vars(\E out \in Outcomes : Advance(c, out))
                          /\ SF_vars(Acquire(c))
    /\ WF_vars(\E out \in Outcomes : Execute(out))

Spec == Init /\ [][Next]_<<setup, vars>>
FairSpec == Spec /\ Fairness

-----------------------------------------------------------------------------
(* Properties.                                                             *)

\* A control that has touched the runner, or knows what the runner answered, and
\* has not yet recorded it.
Unsettled(c) == ctl[c].pc \in {"sent", "replied", "failing"}

\* The published status tells the truth: while the Execution is not being cancelled
\* and no control is between the runner and the record of its result, `running` means
\* that the vCPUs are not parked and `suspended` that they are not executing
\* (status.rs: "A live owner confirms running execution").
StatusMatchesVm ==
    (exec = "waiting" /\ ~cancelled /\ \A c \in Control : ~Unsettled(c)) =>
        /\ proj.state = "running" => vm # "halted"
        /\ proj.state = "suspended" => vm # "running"

\* The same for an Execution with a wait coordinator, which lets one control at a time
\* reach the owner: there a rejection is recorded before the next control starts.
CoordinatedStatus == Serialised => StatusMatchesVm

\* The journal can always be replayed, and while no gap is reported the replay yields
\* exactly the published projection: an admission that was not stored is never acted
\* on, and an observation that was not stored is reported as a gap (commit_owned).
HistoryReplays == replayed # {} /\ (~gap => replayed = {proj})

\* Write-ahead: from the moment native bytes may be sent until the result is applied,
\* the replayed history already shows the control as dispatched, whatever the journal
\* did since (perform_control records the dispatch before the exchange).
EffectsRecorded ==
    \A c \in Control : ctl[c].pc \in {"dispatched", "sent", "replied"} =>
        \A r \in replayed : c \in r.inflight

\* Exactly the running control tasks are pending: none is forgotten when an append
\* fails or the Execution ends first, so the bounded queue never fills with leftovers,
\* and they stay within MAX_PENDING.
NoLeakedPending ==
    /\ \A c \in Control :
         c \in Pending(proj) <=> ctl[c].pc \in {"queued", "fenced", "dispatched", "sent",
                                               "replied", "failing"}
    /\ Cardinality(Pending(proj)) <= MaxPending

\* A terminal status is published after teardown only: the runner is gone and the
\* control channel closed, and `hibernated` stands for a runner that exited at its
\* sealed suspension point (lifecycle.rs complete).
TerminalAfterTeardown ==
    proj.state \in Terminal =>
        /\ vm \notin {"running", "halted"}
        /\ conn # "up"
        /\ proj.state = "hibernated" => vm = "suspended"

\* After an exchange of unknown outcome no further request reaches the runner: the
\* next one could be answered with the reply that belongs to the lost one.
FailStop ==
    [][uncertain => \A c \in Control : ctl'[c].pc = "sent" => At(c, "sent")]_vars

Rank(state) ==
    CASE state = "created" -> 0
      [] state = "starting" -> 1
      [] state \in {"running", "suspended"} -> 2
      [] state = "checkpointing" -> 3
      [] state = "cancelling" -> 4
      [] OTHER -> 5

\* Late startup notifications and control results never take the status back: not out
\* of a sealed suspension, not out of cancellation, and never out of a terminal state.
NeverGoesBack ==
    [][/\ Rank(proj'.state) >= Rank(proj.state)
       /\ proj.state \in Terminal => proj'.state = proj.state]_vars

\* Every admitted control ends, whatever the runner, the journal and the other
\* controls do, and frees its place in the queue.
ControlsEnd == \A c \in Control : At(c, "queued") ~> At(c, "idle")

\* Cancellation always completes: even with an exchange in progress or a parked VM
\* the executor reaps the runner and publishes the completion.
CancellationCompletes == cancelled ~> exec = "done"

=============================================================================
