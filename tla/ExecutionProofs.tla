---------------------------- MODULE ExecutionProofs ----------------------------
(***************************************************************************)
(* Proofs about the owner of an Execution, for every number of control     *)
(* tasks, every queue limit and every mix of append failures: the journal  *)
(* replays to what is published, effects are recorded ahead, no pending    *)
(* entry leaks, a terminal status comes after teardown, an unknown         *)
(* exchange is the last one, the status never goes back, under a wait      *)
(* coordinator it agrees with the vCPUs, the transition fence is never     *)
(* leaked, and controls and a cancelled Execution are never stuck.         *)
(***************************************************************************)
EXTENDS Execution, FiniteSetTheorems, TLAPS

-----------------------------------------------------------------------------
(* Types.                                                                  *)

Projections == [state : RunState, queued : SUBSET Control, inflight : SUBSET Control,
                unknown : BOOLEAN]

Pcs == {"idle", "queued", "fenced", "dispatched", "sent", "replied", "failing", "checking"}
Results == {"none", "lost", "before", "running", "paused", "captured", "sealed", "fails",
            "rejects_running", "rejects_paused"}
Tasks == [pc : Pcs, kind : Kinds, origin : Origins, res : Results]

\* The facts that some step commits.
ControlFact(f) ==
    \E c \in Control, to \in Kinds \cup Results :
        \/ f = Fact("queued", {c}, to) \/ f = Fact("dispatched", {c}, to)
        \/ f = Fact("succeeded", {c}, to) \/ f = Fact("failed", {c}, to)
OwnerFact(f) ==
    \/ \E to \in {"starting", "running", "cancelling"} : f = Fact("lifecycle", {}, to)
    \/ \E to \in {"none", "cancelling"} : f = Fact("wait_failed", {}, to)
    \/ \E to \in Terminal : f = Fact("finished", {}, to)
IsFact(f) == ControlFact(f) \/ OwnerFact(f)

\* Every variable keeps its type.
TypeOK ==
    /\ setup \in [serialised : BOOLEAN, limit : Nat,
                  faults : SUBSET {"rejected", "lost", "kept"}]
    /\ proj \in Projections /\ replayed \in SUBSET Projections
    /\ gap \in BOOLEAN /\ poisoned \in BOOLEAN /\ cancelled \in BOOLEAN
    /\ suspension \in BOOLEAN /\ uncertain \in BOOLEAN
    /\ ctl \in [Control -> Tasks] /\ fence \in SUBSET Control
    /\ conn \in {"none", "up", "down"}
    /\ vm \in {"none", "running", "halted", "suspended", "exited"}
    /\ exec \in {"new", "starting", "attached", "waiting", "exited", "terminating",
                 "overdue", "reaped", "late", "done"} \cup Terminal

\* The status that a control's result leads to is a status.
LEMMA ReportedType ==
  ASSUME NEW s \in Projections, NEW to
  PROVE  Reported(s, to) \in RunState
BY DEF Reported, Projections, RunState

\* What each fact makes of a projection (State::apply).
LEMMA ApplyQueued ==
  ASSUME NEW s \in Projections, NEW c \in Control, NEW to
  PROVE  LET t == Apply(s, Fact("queued", {c}, to)) IN
         /\ t \in Projections /\ t.state = s.state
         /\ t.queued = s.queued \cup {c} /\ t.inflight = s.inflight
BY DEF Apply, Fact, Projections

\* A dispatched control moves from the queue to the ones in flight.
LEMMA ApplyDispatched ==
  ASSUME NEW s \in Projections, NEW c \in Control, NEW to
  PROVE  LET t == Apply(s, Fact("dispatched", {c}, to)) IN
         /\ t \in Projections /\ t.state = s.state
         /\ t.queued = s.queued \ {c} /\ t.inflight = s.inflight \cup {c}
BY Zenon DEF Apply, Fact, Projections

\* A control that succeeded is no longer in flight.
LEMMA ApplySucceeded ==
  ASSUME NEW s \in Projections, NEW c \in Control, NEW to
  PROVE  LET t == Apply(s, Fact("succeeded", {c}, to)) IN
         /\ t \in Projections /\ t.state = Reported(s, to)
         /\ t.queued = s.queued /\ t.inflight = s.inflight \ {c}
BY ReportedType, Zenon DEF Apply, Fact, Projections

\* A control that failed is no longer pending.
LEMMA ApplyFailed ==
  ASSUME NEW s \in Projections, NEW c \in Control, NEW to
  PROVE  LET t == Apply(s, Fact("failed", {c}, to)) IN
         /\ t \in Projections /\ t.state = Reported(s, to)
         /\ t.queued = s.queued \ {c} /\ t.inflight = s.inflight \ {c}
<1>1. Reported(s, to) \in RunState
  BY ReportedType
<1>2. (s.unknown \/ (to = "lost" /\ {c} \subseteq s.inflight)) \in BOOLEAN
  OBVIOUS
<1> QED
  BY <1>1, <1>2, Zenon DEF Apply, Fact, Projections

\* The status after a control's result.
LEMMA ApplyReports ==
  ASSUME NEW s \in Projections, NEW c \in Control, NEW to
  PROVE  /\ Apply(s, Fact("succeeded", {c}, to)).state = Reported(s, to)
         /\ Apply(s, Fact("failed", {c}, to)).state = Reported(s, to)
BY Zenon DEF Apply, Fact, Projections

\* Every other fact leaves the pending controls alone.
LEMMA ApplyOwner ==
  ASSUME NEW s \in Projections, NEW f, OwnerFact(f)
  PROVE  LET t == Apply(s, f) IN
         /\ t \in Projections
         /\ t.queued = s.queued /\ t.inflight = s.inflight
<1>1. ASSUME NEW to \in {"starting", "running", "cancelling"} PROVE Lifecycle(s, to) \in RunState
  BY DEF Lifecycle, Projections, RunState
<1>2. CASE \E to \in {"starting", "running", "cancelling"} : f = Fact("lifecycle", {}, to)
  BY <1>1, <1>2 DEF Apply, Fact, Projections
<1>3. CASE \E to \in {"none", "cancelling"} : f = Fact("wait_failed", {}, to)
  BY <1>1, <1>3 DEF Apply, Fact, Projections
<1>4. CASE \E to \in Terminal : f = Fact("finished", {}, to)
  BY <1>4 DEF Apply, Fact, Projections, RunState
<1> QED
  BY <1>2, <1>3, <1>4 DEF OwnerFact

\* A fact turns a projection into a projection.
LEMMA ApplyType ==
  ASSUME NEW s \in Projections, NEW f, IsFact(f)
  PROVE  Apply(s, f) \in Projections
BY ApplyQueued, ApplyDispatched, ApplySucceeded, ApplyFailed, ApplyOwner, ZenonT(30)
   DEF IsFact, ControlFact

\* The owner's part of the state.
history == <<proj, gap, replayed, poisoned>>

\* A commit keeps the types of what it changes.
LEMMA CommitType ==
  ASSUME TypeOK, NEW f, IsFact(f), NEW out, Commit(f, out)
  PROVE  /\ proj' \in Projections /\ replayed' \in SUBSET Projections
         /\ gap' \in BOOLEAN /\ poisoned' \in BOOLEAN
<1>1. proj' \in Projections
  <2>1. proj \in Projections /\ Apply(proj, f) \in Projections
    BY ApplyType DEF TypeOK
  <2> QED
    BY <2>1, Zenon DEF Commit
<1>2. replayed' \in SUBSET Projections
  <2>1. replayed \subseteq Projections /\ \A s \in replayed : Apply(s, f) \in Projections
    BY ApplyType DEF TypeOK
  <2>2. CASE ~Admits(proj, gap, f)
    BY <2>1, <2>2 DEF Commit
  <2>3. CASE Admits(proj, gap, f)
    <3>1. replayed' = replayed
          \/ replayed' = {Apply(s, f) : s \in {r \in replayed : Admits(r, FALSE, f)}}
      BY <2>3, Zenon DEF Commit
    <3> QED
      BY <2>1, <3>1, Zenon
  <2> QED
    BY <2>2, <2>3
<1>3. gap' \in BOOLEAN /\ poisoned' \in BOOLEAN
  BY Zenon DEF TypeOK, Commit
<1> QED
  BY <1>1, <1>2, <1>3

\* The steps that commit a fact, and which one.
LEMMA TaskCommits ==
  ASSUME TypeOK, NEW c \in Control, NEW out
  PROVE  /\ \A kind \in Requests, origin \in Origins : Enqueue(c, kind, origin, out) =>
              IsFact(Fact("queued", {c}, kind)) /\ Commit(Fact("queued", {c}, kind), out)
         /\ Dispatch(c, out) =>
              IsFact(Fact("dispatched", {c}, "none")) /\ Commit(Fact("dispatched", {c}, "none"), out)
         /\ Complete(c, out) =>
              IsFact(Fact("succeeded", {c}, ctl[c].res)) /\ Commit(Fact("succeeded", {c}, ctl[c].res), out)
         /\ Fail(c, out) =>
              IsFact(Fact("failed", {c}, ctl[c].res)) /\ Commit(Fact("failed", {c}, ctl[c].res), out)
<1>1. ctl[c].res \in Results /\ "none" \in Results /\ Requests \subseteq Kinds
  BY RequestsAssumption DEF TypeOK, Tasks, Results
<1> QED
  BY <1>1, Zenon DEF Enqueue, Dispatch, Complete, Fail, IsFact, ControlFact

\* The same for the executor task and the coordinator's report.
LEMMA OwnerCommits ==
  ASSUME TypeOK, NEW out
  PROVE  /\ Starting(out) => Commit(Fact("lifecycle", {}, "starting"), out)
         /\ Ready(out) => Commit(Fact("lifecycle", {}, "running"), out)
         /\ Cancelling(out) => Commit(Fact("lifecycle", {}, "cancelling"), out)
         /\ Finish(out) => \E to \in Terminal : Commit(Fact("finished", {}, to), out)
         /\ \A known \in BOOLEAN : WaitFailed(known, out) =>
              \E to \in {"none", "cancelling"} : Commit(Fact("wait_failed", {}, to), out)
BY DEF Starting, Ready, Cancelling, Finish, WaitFailed, Lifecycles, Terminal

\* A step commits one fact or leaves the owner's state alone.
LEMMA StepCommits ==
  ASSUME TypeOK, [Next]_<<setup, vars>>
  PROVE  UNCHANGED history \/ \E f, out : IsFact(f) /\ Commit(f, out)
<1>1. CASE UNCHANGED <<setup, vars>>
  BY <1>1 DEF vars, history
<1>2. ASSUME NEW c \in Control, NEW out \in Outcomes, NEW kind \in Requests,
             NEW origin \in Origins, Enqueue(c, kind, origin, out)
      PROVE  \E f : IsFact(f) /\ Commit(f, out)
  BY <1>2, TaskCommits, Zenon
<1>3. ASSUME NEW c \in Control, NEW out \in Outcomes, Advance(c, out)
      PROVE  UNCHANGED history \/ \E f : IsFact(f) /\ Commit(f, out)
  <2>1. CASE Dispatch(c, out) \/ Complete(c, out) \/ Fail(c, out)
    BY <2>1, TaskCommits, Zenon
  <2>2. CASE Acquire(c) \/ DispatchRefused(c) \/ Send(c) \/ SendRefused(c) \/ SendKnown(c)
             \/ Reply(c) \/ Uncertain(c) \/ Check(c)
    BY <2>2, Zenon DEF Acquire, DispatchRefused, Send, SendRefused, SendKnown, Reply, Uncertain,
       Check, history
  <2> QED
    BY <1>3, <2>1, <2>2 DEF Advance
<1>4. ASSUME NEW out \in Outcomes, Execute(out) \/ \E known \in BOOLEAN : WaitFailed(known, out)
      PROVE  UNCHANGED history \/ \E f : IsFact(f) /\ Commit(f, out)
  <2>1. CASE Starting(out) \/ Ready(out) \/ Cancelling(out) \/ Finish(out)
             \/ \E known \in BOOLEAN : WaitFailed(known, out)
    BY <2>1, OwnerCommits DEF IsFact, OwnerFact
  <2>2. CASE NeverInvoked \/ StartupFails \/ Attach \/ Exited \/ Terminate \/ Detach
    BY <2>2 DEF NeverInvoked, StartupFails, Attach, Exited, Terminate, Detach, history
  <2> QED
    BY <1>4, <2>1, <2>2 DEF Execute
<1>5. CASE (\E c \in Control : Serve(c)) \/ VmExits \/ Orphaned \/ Deadline \/ Cancel
           \/ MonitorTermination
  BY <1>5 DEF Serve, VmExits, Orphaned, Deadline, Cancel, MonitorTermination, history
<1> QED
  BY <1>1, <1>2, <1>3, <1>4, <1>5 DEF Next

\* Moving a control task changes its program point and its result.
LEMMA GotoMoves ==
  ASSUME ctl \in [Control -> Tasks], NEW c \in Control, NEW pc \in Pcs, NEW res \in Results,
         Goto(c, pc, res)
  PROVE  /\ ctl' \in [Control -> Tasks]
         /\ ctl'[c].pc = pc /\ ctl'[c].res = res
         /\ ctl'[c].kind = ctl[c].kind /\ ctl'[c].origin = ctl[c].origin
         /\ \A d \in Control \ {c} : ctl'[d] = ctl[d]
BY Zenon DEF Goto, Tasks

\* A control task that ends is idle again.
LEMMA EndsMoves ==
  ASSUME ctl \in [Control -> Tasks], NEW c \in Control, Ends(c)
  PROVE  /\ ctl' \in [Control -> Tasks] /\ ctl'[c].pc = "idle"
         /\ \A d \in Control \ {c} : ctl'[d] = ctl[d]
BY DEF Ends, Idle, Tasks, Pcs, Results, Kinds, Origins

\* What the runner answers is a result, and the vCPUs stay in a state of theirs.
LEMMA ServesType ==
  ASSUME NEW kind \in Kinds, NEW origin, NEW v \in {"running", "halted"},
         NEW r \in Serves(kind, origin, v)
  PROVE  r.vm \in {"running", "halted", "suspended"} /\ r.res \in Results
BY DEF Serves, Kinds, Results

\* Steps of a control task other than its commits: where they lead.
LEMMA TaskMoves ==
  ASSUME TypeOK, NEW c \in Control, NEW out, Advance(c, out)
  PROVE  /\ ctl' \in [Control -> Tasks] /\ \A d \in Control \ {c} : ctl'[d] = ctl[d]
         /\ fence' \in SUBSET Control /\ UNCHANGED <<vm, exec>>
<1> USE DEF Pcs, Results
<1>0. ctl \in [Control -> Tasks] /\ fence \in SUBSET Control /\ ctl[c].res \in Results
  BY DEF TypeOK, Tasks
<1>1. CASE Acquire(c)
  BY <1>0, <1>1, GotoMoves, ZenonT(60) DEF Acquire
<1>2. CASE Dispatch(c, out)
  BY <1>0, <1>2, GotoMoves, ZenonT(30) DEF Dispatch
<1>3. CASE DispatchRefused(c) \/ SendRefused(c)
  BY <1>0, <1>3, GotoMoves DEF DispatchRefused, SendRefused
<1>4. CASE Send(c) \/ SendKnown(c)
  BY <1>0, <1>4, GotoMoves DEF Send, SendKnown
<1>5. CASE Reply(c)
  BY <1>0, <1>5, GotoMoves, ZenonT(60) DEF Reply
<1>6. CASE Uncertain(c)
  BY <1>0, <1>6, GotoMoves, Zenon DEF Uncertain
<1>7. CASE Complete(c, out)
  <2>1. \/ Goto(c, "failing", "lost") \/ Goto(c, "checking", "none") \/ Ends(c)
    BY <1>7, ZenonT(60) DEF Complete
  <2> QED
    BY <1>0, <1>7, <2>1, GotoMoves, EndsMoves DEF Complete
<1>8. CASE Fail(c, out)
  BY <1>0, <1>8, GotoMoves DEF Fail
<1>9. CASE Check(c)
  BY <1>0, <1>9, EndsMoves DEF Check
<1> QED
  BY <1>1, <1>2, <1>3, <1>4, <1>5, <1>6, <1>7, <1>8, <1>9 DEF Advance

\* The Boolean variables and the connection.
LEMMA FlagTypes ==
  ASSUME TypeOK, [Next]_<<setup, vars>>
  PROVE  /\ cancelled' \in BOOLEAN /\ suspension' \in BOOLEAN /\ uncertain' \in BOOLEAN
         /\ conn' \in {"none", "up", "down"}
<1>0. /\ cancelled \in BOOLEAN /\ suspension \in BOOLEAN /\ uncertain \in BOOLEAN
      /\ conn \in {"none", "up", "down"}
  BY DEF TypeOK
<1>1. CASE UNCHANGED <<setup, vars>>
  BY <1>0, <1>1 DEF vars
<1>2. ASSUME NEW c \in Control, NEW out \in Outcomes, NEW kind \in Requests,
             NEW origin \in Origins, Enqueue(c, kind, origin, out)
      PROVE  UNCHANGED <<cancelled, suspension, uncertain, conn>>
  BY <1>2, Zenon DEF Enqueue
<1>3. ASSUME NEW c \in Control, NEW out \in Outcomes, Advance(c, out)
      PROVE  /\ cancelled' \in BOOLEAN /\ suspension' \in BOOLEAN /\ uncertain' \in BOOLEAN
             /\ conn' \in {"none", "up", "down"}
  <2>1. CASE UNCHANGED <<cancelled, suspension, uncertain, conn>>
    BY <1>0, <2>1
  <2>2. CASE Reply(c)
    BY <1>0, <2>2, Zenon DEF Reply
  <2>3. CASE Uncertain(c)
    BY <1>0, <2>3, Zenon DEF Uncertain
  <2>4. CASE Check(c)
    BY <1>0, <2>4, Zenon DEF Check
  <2> QED
    BY <1>3, <2>1, <2>2, <2>3, <2>4 DEF Advance, Acquire, Dispatch, DispatchRefused, Send,
       SendRefused, SendKnown, Complete, Fail
<1>4. ASSUME NEW out \in Outcomes, Execute(out)
      PROVE  /\ cancelled' \in BOOLEAN /\ suspension' \in BOOLEAN /\ uncertain' \in BOOLEAN
             /\ conn' \in {"none", "up", "down"}
  BY <1>0, <1>4, Zenon DEF Execute, NeverInvoked, Starting, StartupFails, Attach, Ready, Exited,
     Cancelling, Terminate, Detach, Finish
<1>5. ASSUME NEW out \in Outcomes, NEW known \in BOOLEAN, WaitFailed(known, out)
      PROVE  cancelled' \in BOOLEAN /\ UNCHANGED <<suspension, uncertain, conn>>
  BY <1>0, <1>5, Zenon DEF WaitFailed
<1>6. CASE (\E c \in Control : Serve(c)) \/ VmExits \/ Orphaned \/ Deadline \/ Cancel
           \/ MonitorTermination
  BY <1>0, <1>6, Zenon DEF Serve, VmExits, Orphaned, Deadline, Cancel, MonitorTermination
<1> QED
  BY <1>0, <1>1, <1>2, <1>3, <1>4, <1>5, <1>6 DEF Next

\* An admission that was stored starts the control task, any other changes no task.
LEMMA EnqueueMoves ==
  ASSUME TypeOK, NEW c \in Control, NEW kind \in Requests, NEW origin \in Origins, NEW out,
         Enqueue(c, kind, origin, out)
  PROVE  /\ ctl' \in [Control -> Tasks] /\ \A d \in Control \ {c} : ctl'[d] = ctl[d]
         /\ \/ /\ Committed(Fact("queued", {c}, kind), out)
               /\ ctl'[c].pc = "queued" /\ ctl'[c].res = "none"
            \/ ~Committed(Fact("queued", {c}, kind), out) /\ UNCHANGED ctl
         /\ UNCHANGED <<fence, vm, exec>>
<1>1. [pc |-> "queued", kind |-> kind, origin |-> origin, res |-> "none"] \in Tasks
  BY RequestsAssumption DEF Tasks, Pcs, Results
<1>2. ctl \in [Control -> Tasks]
  BY DEF TypeOK
<1>3. CASE Committed(Fact("queued", {c}, kind), out)
  <2>1. ctl' = [ctl EXCEPT ![c] = [pc |-> "queued", kind |-> kind,
                                   origin |-> origin, res |-> "none"]]
    BY <1>3, Zenon DEF Enqueue
  <2> QED
    BY <1>1, <1>2, <1>3, <2>1 DEF Enqueue
<1>4. CASE ~Committed(Fact("queued", {c}, kind), out)
  BY <1>2, <1>4, Zenon DEF Enqueue
<1> QED
  BY <1>3, <1>4

\* The runner's answer moves the vCPUs and the task that waits for it.
LEMMA ServeMoves ==
  ASSUME TypeOK, NEW c \in Control, Serve(c)
  PROVE  /\ ctl' \in [Control -> Tasks] /\ \A d \in Control \ {c} : ctl'[d] = ctl[d]
         /\ ctl'[c].pc = "sent"
         /\ \E r \in Serves(ctl[c].kind, ctl[c].origin, vm) : vm' = r.vm /\ ctl'[c].res = r.res
         /\ vm' \in {"running", "halted", "suspended"}
<1>1. PICK r \in Serves(ctl[c].kind, ctl[c].origin, vm) : vm' = r.vm /\ Goto(c, "sent", r.res)
  BY DEF Serve
<1>2. r.vm \in {"running", "halted", "suspended"} /\ r.res \in Results
  BY <1>1, ServesType DEF Serve, TypeOK, Tasks
<1>3. ctl \in [Control -> Tasks] /\ "sent" \in Pcs
  BY DEF TypeOK, Pcs
<1> QED
  BY <1>1, <1>2, <1>3, GotoMoves

\* Every step keeps the types.
LEMMA TypeNext == TypeOK /\ [Next]_<<setup, vars>> => TypeOK'
<1> SUFFICES ASSUME TypeOK, [Next]_<<setup, vars>> PROVE TypeOK'
  OBVIOUS
<1>1. /\ proj' \in Projections /\ replayed' \in SUBSET Projections
      /\ gap' \in BOOLEAN /\ poisoned' \in BOOLEAN
  BY StepCommits, CommitType DEF TypeOK, history
<1>2. setup' = setup
  BY DEF Next, vars
<1>3. /\ ctl' \in [Control -> Tasks] /\ fence' \in SUBSET Control
      /\ vm' \in {"none", "running", "halted", "suspended", "exited"}
      /\ exec' \in {"new", "starting", "attached", "waiting", "exited", "terminating",
                    "overdue", "reaped", "late", "done"} \cup Terminal
  <2>0. /\ ctl \in [Control -> Tasks] /\ fence \in SUBSET Control
        /\ vm \in {"none", "running", "halted", "suspended", "exited"}
        /\ exec \in {"new", "starting", "attached", "waiting", "exited", "terminating",
                     "overdue", "reaped", "late", "done"} \cup Terminal
    BY DEF TypeOK
  <2>1. CASE UNCHANGED <<setup, vars>>
    BY <2>0, <2>1 DEF vars
  <2>2. ASSUME NEW c \in Control, NEW out \in Outcomes,
               (\E kind \in Requests, origin \in Origins : Enqueue(c, kind, origin, out))
                 \/ Advance(c, out)
        PROVE  ctl' \in [Control -> Tasks] /\ fence' \in SUBSET Control /\ UNCHANGED <<vm, exec>>
    BY <2>0, <2>2, EnqueueMoves, TaskMoves, Zenon
  <2>3. ASSUME NEW out \in Outcomes, Execute(out)
        PROVE  /\ UNCHANGED <<ctl, fence>>
               /\ vm' \in {"none", "running", "halted", "suspended", "exited"}
               /\ exec' \in {"starting", "attached", "waiting", "exited", "terminating",
                             "reaped", "late", "done"} \cup Terminal
    BY <2>0, <2>3 DEF Execute, NeverInvoked, Starting, StartupFails, Attach, Ready, Exited,
       Cancelling, Terminate, Detach, Finish, Terminal
  <2>4. ASSUME NEW c \in Control, Serve(c)
        PROVE  ctl' \in [Control -> Tasks] /\ vm' \in {"running", "halted", "suspended"}
               /\ UNCHANGED <<fence, exec>>
    BY <2>4, ServeMoves DEF Serve
  <2>5. CASE VmExits \/ Orphaned \/ Deadline \/ Cancel \/ MonitorTermination
             \/ \E out \in Outcomes, known \in BOOLEAN : WaitFailed(known, out)
    BY <2>0, <2>5 DEF VmExits, Orphaned, Deadline, Cancel, MonitorTermination, WaitFailed
  <2> QED
    BY <2>0, <2>1, <2>2, <2>3, <2>4, <2>5 DEF Next
<1> QED
  BY <1>1, <1>2, <1>3, FlagTypes DEF TypeOK

\* The variables of an Execution keep their types.
THEOREM TypeCorrect == Spec => []TypeOK
<1>1. Init => TypeOK
  <2> SUFFICES ASSUME Init PROVE TypeOK
    OBVIOUS
  <2>1. Initial \in Projections
    BY DEF Initial, Projections, RunState
  <2>2. Idle \in Tasks
    BY DEF Idle, Tasks, Pcs, Results, Kinds, Origins
  <2> QED
    BY <2>1, <2>2, SetupsAssumption, Zenon DEF Init, TypeOK
<1> QED
  BY <1>1, TypeNext, PTL DEF Spec

-----------------------------------------------------------------------------
(* The history.                                                            *)

\* Every control that p has pending or in flight is so in r.
Trails(p, r) ==
    /\ p.queued \cap p.inflight = {}
    /\ Pending(p) \subseteq Pending(r) /\ p.inflight \subseteq r.inflight

\* The replayed projection r may lag behind the published one, or be ahead of it by
\* an admission that was kept and not acknowledged, but only once a gap is reported;
\* and it still has every control that is pending.
Follows(r) == replayed = {r} /\ (~gap => r = proj) /\ Trails(proj, r)

HistoryInv == \E r \in Projections : Follows(r)

\* A fact that the owner accepts is accepted by the replay.
LEMMA ReplayAdmits ==
  ASSUME TypeOK, NEW r \in Projections, Follows(r), NEW f, IsFact(f), Admits(proj, gap, f)
  PROVE  Admits(r, FALSE, f)
<1>1. CASE OwnerFact(f)
  BY <1>1 DEF OwnerFact, Fact, Admits, Admission
<1>2. ASSUME NEW c \in Control, NEW to,
             f = Fact("queued", {c}, to) \/ f = Fact("dispatched", {c}, to)
      PROVE  Admits(r, FALSE, f)
  <2>1. ~gap
    BY <1>2 DEF Fact, Admits, Admission
  <2> QED
    BY <2>1 DEF Follows, Admits
<1>3. ASSUME NEW c \in Control, NEW to,
             f = Fact("succeeded", {c}, to) \/ f = Fact("failed", {c}, to)
      PROVE  Admits(r, FALSE, f)
  BY <1>3 DEF Fact, Admits, Admission, Follows, Trails
<1> QED
  BY <1>1, <1>2, <1>3, Zenon DEF IsFact, ControlFact

\* A fact that both take, an admission that only the replay has, and an observation
\* that only the projection has: each keeps the replay after the projection.
LEMMA TrailsKept ==
  ASSUME NEW p \in Projections, NEW r \in Projections, Trails(p, r),
         NEW f, IsFact(f), NEW g, Admits(p, g, f)
  PROVE  /\ Trails(Apply(p, f), Apply(r, f))
         /\ Admission(f) => Trails(p, Apply(r, f))
         /\ ~Admission(f) => Trails(Apply(p, f), r)
<1> DEFINE Together(h) == Trails(Apply(p, h), Apply(r, h))
           Alone(h) == /\ Admission(h) => Trails(p, Apply(r, h))
                       /\ ~Admission(h) => Trails(Apply(p, h), r)
<1>1. CASE OwnerFact(f)
  <2> DEFINE q == Apply(p, f)
             t == Apply(r, f)
  <2>1. ~Admission(f)
    BY <1>1 DEF OwnerFact, Fact, Admission
  <2>2. /\ q.queued = p.queued /\ q.inflight = p.inflight
        /\ t.queued = r.queued /\ t.inflight = r.inflight
    BY <1>1, ApplyOwner
  <2>3. Trails(q, t) /\ Trails(q, r)
    <3> HIDE DEF q, t
    <3> QED
      BY <2>2 DEF Trails, Pending
  <2> QED
    BY <2>1, <2>3
<1>2. ASSUME NEW c \in Control, NEW to, Admits(p, g, Fact("queued", {c}, to))
      PROVE  LET e == Fact("queued", {c}, to) IN Together(e) /\ Alone(e)
  <2> DEFINE e == Fact("queued", {c}, to)
             q == Apply(p, e)
             t == Apply(r, e)
  <2>1. c \notin Pending(p)
    BY <1>2, Zenon DEF Fact, Admits, Admission
  <2>2. /\ q.queued = p.queued \cup {c} /\ q.inflight = p.inflight
        /\ t.queued = r.queued \cup {c} /\ t.inflight = r.inflight
    <3>1. q.queued = p.queued \cup {c} /\ q.inflight = p.inflight
      BY ApplyQueued, ZenonT(30)
    <3>2. t.queued = r.queued \cup {c} /\ t.inflight = r.inflight
      BY ApplyQueued, ZenonT(30)
    <3> QED
      BY <3>1, <3>2
  <2>3. Admission(e)
    BY DEF Fact, Admission
  <2>4. Trails(q, t) /\ Trails(p, t)
    <3> HIDE DEF q, t
    <3> QED
      BY <2>1, <2>2 DEF Trails, Pending
  <2> QED
    BY <2>3, <2>4
<1>3. ASSUME NEW c \in Control, NEW to, Admits(p, g, Fact("dispatched", {c}, to))
      PROVE  LET e == Fact("dispatched", {c}, to) IN Together(e) /\ Alone(e)
  <2> DEFINE e == Fact("dispatched", {c}, to)
             q == Apply(p, e)
             t == Apply(r, e)
  <2>1. c \in p.queued
    BY <1>3 DEF Fact, Admits, Admission
  <2>2. /\ q.queued = p.queued \ {c} /\ q.inflight = p.inflight \cup {c}
        /\ t.queued = r.queued \ {c} /\ t.inflight = r.inflight \cup {c}
    BY ApplyDispatched, ZenonT(30)
  <2>3. Admission(e)
    BY DEF Fact, Admission
  <2>4. Trails(q, t) /\ Trails(p, t)
    <3> HIDE DEF q, t
    <3> QED
      BY <2>1, <2>2 DEF Trails, Pending
  <2> QED
    BY <2>3, <2>4
<1>4. ASSUME NEW c \in Control, NEW to, Admits(p, g, Fact("succeeded", {c}, to))
      PROVE  LET e == Fact("succeeded", {c}, to) IN Together(e) /\ Alone(e)
  <2> DEFINE e == Fact("succeeded", {c}, to)
             q == Apply(p, e)
             t == Apply(r, e)
  <2>1. c \in p.inflight
    BY <1>4 DEF Fact, Admits, Admission
  <2>2. /\ q.queued = p.queued /\ q.inflight = p.inflight \ {c}
        /\ t.queued = r.queued /\ t.inflight = r.inflight \ {c}
    <3>1. q.queued = p.queued /\ q.inflight = p.inflight \ {c}
      BY ApplySucceeded, ZenonT(30)
    <3>2. t.queued = r.queued /\ t.inflight = r.inflight \ {c}
      BY ApplySucceeded, ZenonT(30)
    <3> QED
      BY <3>1, <3>2
  <2>3. ~Admission(e)
    BY DEF Fact, Admission
  <2>4. Trails(q, t) /\ Trails(q, r)
    <3> HIDE DEF q, t
    <3> QED
      BY <2>1, <2>2 DEF Trails, Pending
  <2> QED
    BY <2>3, <2>4
<1>5. ASSUME NEW c \in Control, NEW to, Admits(p, g, Fact("failed", {c}, to))
      PROVE  LET e == Fact("failed", {c}, to) IN Together(e) /\ Alone(e)
  <2> DEFINE e == Fact("failed", {c}, to)
             q == Apply(p, e)
             t == Apply(r, e)
  <2>1. c \in Pending(p)
    BY <1>5 DEF Fact, Admits, Admission
  <2>2. /\ q.queued = p.queued \ {c} /\ q.inflight = p.inflight \ {c}
        /\ t.queued = r.queued \ {c} /\ t.inflight = r.inflight \ {c}
    BY ApplyFailed, ZenonT(30)
  <2>3. ~Admission(e)
    BY DEF Fact, Admission
  <2>4. Trails(q, t) /\ Trails(q, r)
    <3> HIDE DEF q, t
    <3> QED
      BY <2>1, <2>2 DEF Trails, Pending
  <2> QED
    BY <2>3, <2>4
<1> QED
  BY <1>1, <1>2, <1>3, <1>4, <1>5, Zenon DEF IsFact, ControlFact

\* Whatever the journal does with a fact, its replay follows the projection.
LEMMA CommitHistory ==
  ASSUME TypeOK, HistoryInv, NEW f, IsFact(f), NEW out, Commit(f, out)
  PROVE  HistoryInv'
<1>1. PICK r \in Projections : Follows(r)
  BY DEF HistoryInv
<1> DEFINE q == Apply(proj, f)
           t == Apply(r, f)
<1>2. CASE ~Admits(proj, gap, f)
  <2>1. UNCHANGED <<proj, replayed>> /\ (~gap' => ~gap)
    BY <1>2, Zenon DEF Commit
  <2>2. Follows(r)'
    BY <1>1, <2>1 DEF Follows
  <2> QED
    BY <2>2 DEF HistoryInv
<1>3. CASE Admits(proj, gap, f)
  <2>1. /\ Trails(proj, r) /\ replayed = {r} /\ (~gap => r = proj)
        /\ proj \in Projections /\ t \in Projections
    BY <1>1, ApplyType DEF Follows, TypeOK
  <2>2. /\ Trails(q, t)
        /\ Admission(f) => Trails(proj, t)
        /\ ~Admission(f) => Trails(q, r)
    BY <1>3, <2>1, TrailsKept
  <2>3. {Apply(s, f) : s \in {x \in replayed : Admits(x, FALSE, f)}} = {t}
    BY <1>1, <1>3, <2>1, ReplayAdmits, Zenon
  <2>4. /\ proj' = IF out = "stored" \/ ~Admission(f) THEN q ELSE proj
        /\ replayed' = IF out \in {"stored", "kept"} THEN {t} ELSE replayed
        /\ gap' = (gap \/ (out # "stored" /\ (Unknown(out) \/ ~Admission(f))))
    BY <1>3, <2>3, Zenon DEF Commit
  <2> HIDE DEF q, t
  <2>5. CASE out = "stored"
    <3>1. proj' = q /\ replayed' = {t} /\ (~gap' => ~gap)
      BY <2>4, <2>5, Zenon
    <3>2. ~gap => t = q
      BY <2>1 DEF q, t
    <3>3. Follows(t)'
      BY <2>2, <3>1, <3>2 DEF Follows
    <3> QED
      BY <2>1, <3>3 DEF HistoryInv
  <2>6. CASE out = "kept"
    <3>1. replayed' = {t} /\ gap' /\ (IF Admission(f) THEN proj' = proj ELSE proj' = q)
      BY <2>4, <2>6, Zenon DEF Unknown
    <3>2. Follows(t)'
      BY <2>2, <3>1 DEF Follows
    <3> QED
      BY <2>1, <3>2 DEF HistoryInv
  <2>7. CASE out \notin {"stored", "kept"}
    <3>1. /\ replayed' = replayed
          /\ Admission(f) => proj' = proj /\ (~gap' => ~gap)
          /\ ~Admission(f) => proj' = q /\ gap'
      BY <2>4, <2>7, Zenon
    <3>2. Follows(r)'
      BY <2>1, <2>2, <3>1 DEF Follows
    <3> QED
      BY <3>2 DEF HistoryInv
  <2> QED
    BY <2>5, <2>6, <2>7
<1> QED
  BY <1>2, <1>3

\* The replay follows the projection in every reachable state.
THEOREM HistoryFollows == Spec => []HistoryInv
<1>1. Init => HistoryInv
  <2> SUFFICES ASSUME Init PROVE HistoryInv
    OBVIOUS
  <2>1. Initial \in Projections
    BY DEF Initial, Projections, RunState
  <2>2. Follows(Initial)
    BY DEF Init, Follows, Trails, Initial, Pending
  <2> QED
    BY <2>1, <2>2 DEF HistoryInv
<1>2. TypeOK /\ HistoryInv /\ [Next]_<<setup, vars>> => HistoryInv'
  <2> SUFFICES ASSUME TypeOK, HistoryInv, [Next]_<<setup, vars>> PROVE HistoryInv'
    OBVIOUS
  <2>1. CASE UNCHANGED history
    BY <2>1 DEF history, HistoryInv, Follows
  <2> QED
    BY <2>1, StepCommits, CommitHistory
<1> QED
  BY <1>1, <1>2, TypeCorrect, PTL DEF Spec

\* The journal can always be replayed, and without a reported gap the replay is the
\* published projection, however appends fail (commit_owned).
THEOREM HistoryAlwaysReplays == Spec => []HistoryReplays
<1>1. HistoryInv => HistoryReplays
  BY DEF HistoryInv, Follows, HistoryReplays
<1> QED
  BY <1>1, HistoryFollows, PTL

-----------------------------------------------------------------------------
(* The published status.                                                   *)

\* The status u may follow the status s before the end of the Execution.
Succeeds(s, u) ==
    \/ u = s
    \/ s \in {"running", "suspended"} /\ u \in {"running", "suspended", "checkpointing"}
    \/ s \in {"created", "starting"} /\ u \in {"starting", "running"}
    \/ s \notin Terminal /\ u = "cancelling"

\* Where a fact takes the status (State::apply).
LEMMA StatusMoves ==
  ASSUME NEW s \in Projections, NEW f, IsFact(f)
  PROVE  LET t == Apply(s, f) IN
         \/ Succeeds(s.state, t.state)
         \/ f.event = "finished" /\ s.state \notin Terminal /\ t.state = f.to /\ f.to \in Terminal
<1>1. ASSUME NEW to PROVE Succeeds(s.state, Reported(s, to))
  BY DEF Reported, Succeeds, Live
<1>2. ASSUME NEW to \in {"starting", "running", "cancelling"}
      PROVE  Succeeds(s.state, Lifecycle(s, to))
  BY Zenon DEF Lifecycle, Advances, Succeeds
<1>3. ASSUME NEW c \in Control, NEW to
      PROVE  /\ Succeeds(s.state, Apply(s, Fact("queued", {c}, to)).state)
             /\ Succeeds(s.state, Apply(s, Fact("dispatched", {c}, to)).state)
             /\ Succeeds(s.state, Apply(s, Fact("succeeded", {c}, to)).state)
             /\ Succeeds(s.state, Apply(s, Fact("failed", {c}, to)).state)
  <2>1. Succeeds(s.state, s.state)
    BY DEF Succeeds
  <2>2. Apply(s, Fact("queued", {c}, to)).state = s.state
    BY ApplyQueued, Zenon
  <2>3. Apply(s, Fact("dispatched", {c}, to)).state = s.state
    BY ApplyDispatched, ZenonT(30)
  <2> QED
    BY <1>1, <2>1, <2>2, <2>3, ApplyReports
<1>4. ASSUME NEW to \in {"starting", "running", "cancelling"}, f = Fact("lifecycle", {}, to)
      PROVE  Succeeds(s.state, Apply(s, f).state)
  <2>1. Apply(s, f).state = Lifecycle(s, to)
    BY <1>4 DEF Apply, Fact, Projections
  <2> QED
    BY <1>2, <2>1
<1>5. ASSUME NEW to \in {"none", "cancelling"}, f = Fact("wait_failed", {}, to)
      PROVE  Succeeds(s.state, Apply(s, f).state)
  <2>1. Apply(s, f).state \in {s.state, Lifecycle(s, "cancelling")}
    BY <1>5 DEF Apply, Fact, Projections
  <2> QED
    BY <1>2, <2>1 DEF Succeeds
<1>6. ASSUME NEW to \in Terminal, f = Fact("finished", {}, to)
      PROVE  /\ f.event = "finished" /\ f.to = to
             /\ Apply(s, f).state = IF s.state \in Terminal THEN s.state ELSE to
  BY <1>6 DEF Apply, Fact, Projections
<1>7. CASE ControlFact(f)
  BY <1>3, <1>7, Zenon DEF ControlFact
<1> QED
  BY <1>4, <1>5, <1>6, <1>7 DEF IsFact, OwnerFact, Succeeds

\* The same for a commit.
LEMMA CommitStatus ==
  ASSUME TypeOK, NEW f, IsFact(f), NEW out, Commit(f, out)
  PROVE  \/ Succeeds(proj.state, proj'.state)
         \/ /\ f.event = "finished" /\ proj.state \notin Terminal
            /\ proj'.state = f.to /\ f.to \in Terminal
<1>1. proj' \in {proj, Apply(proj, f)}
  BY Zenon DEF Commit
<1>2. proj \in Projections /\ Succeeds(proj.state, proj.state)
  BY DEF TypeOK, Succeeds
<1> QED
  BY <1>1, <1>2, StatusMoves

\* The status never goes back and never leaves a terminal state, however late a result
\* or a notification is committed (State::apply, commit_owned).
THEOREM StatusNeverGoesBack == Spec => NeverGoesBack
<1> DEFINE A == /\ Rank(proj'.state) >= Rank(proj.state)
                /\ proj.state \in Terminal => proj'.state = proj.state
<1>1. TypeOK /\ TypeOK' /\ [Next]_<<setup, vars>> => A
  <2> SUFFICES ASSUME TypeOK, TypeOK', [Next]_<<setup, vars>> PROVE A
    OBVIOUS
  <2>1. proj.state \in RunState /\ proj'.state \in RunState
    BY DEF TypeOK, Projections
  <2>2. \/ Succeeds(proj.state, proj'.state)
        \/ proj.state \notin Terminal /\ proj'.state \in Terminal
    <3>1. CASE UNCHANGED history
      BY <3>1 DEF history, Succeeds
    <3> QED
      BY <3>1, StepCommits, CommitStatus
  <2> QED
    BY <2>1, <2>2 DEF Succeeds, Rank, RunState, Terminal
<1>2. TypeOK /\ TypeOK' /\ [Next]_<<setup, vars>> => [A]_vars
  BY <1>1
<1> HIDE DEF A
<1>3. Spec => [][A]_vars
  BY <1>2, TypeCorrect, PTL DEF Spec
<1> QED
  BY <1>3 DEF A, NeverGoesBack

-----------------------------------------------------------------------------
(* The executor task, the runner and the control channel.                  *)

\* Before the Execution is ready nothing can be asked of it, once the runner has been
\* awaited it is gone, and the end is published last.
ExecInv ==
    /\ exec \in {"new", "starting"} => vm = "none" /\ conn = "none"
    /\ exec \in {"new", "starting", "attached"} =>
         /\ proj.state \in {"created", "starting", "cancelling"}
         /\ ~uncertain /\ \A c \in Control : At(c, "idle")
    /\ exec \in {"exited", "reaped", "late", "done"} \cup Terminal =>
         vm \notin {"running", "halted"}
    /\ exec \in {"done"} \cup Terminal => conn # "up"
    /\ exec = "hibernated" => vm = "suspended"
    /\ proj.state \in Terminal => exec = "done"
    /\ proj.state = "hibernated" => vm = "suspended"
    /\ uncertain => conn = "down"

\* A control fact is committed only by an Execution that has become ready.
LEMMA ExecControl ==
  ASSUME TypeOK, ExecInv, NEW c \in Control, NEW out \in Outcomes,
         \/ \E kind \in Requests, origin \in Origins : Enqueue(c, kind, origin, out)
         \/ Advance(c, out)
  PROVE  ExecInv'
<1>1. exec \notin {"new", "starting", "attached"} /\ UNCHANGED <<vm, exec>>
  <2>1. ASSUME NEW kind \in Requests, NEW origin \in Origins, Enqueue(c, kind, origin, out)
        PROVE  exec \notin {"new", "starting", "attached"} /\ UNCHANGED <<vm, exec>>
    BY <2>1 DEF Enqueue, EnsureLive, Live, ExecInv
  <2>2. CASE Advance(c, out)
    <3>1. ~At(c, "idle")
      BY <2>2, Zenon DEF Advance, Acquire, Dispatch, DispatchRefused, Send, SendRefused, SendKnown,
         Reply, Uncertain, Complete, Fail, Check, At
    <3> QED
      BY <2>2, <3>1, TaskMoves DEF ExecInv
  <2> QED
    BY <2>1, <2>2, Zenon
<1>2. proj'.state \in Terminal => proj'.state = proj.state
  <2>1. ASSUME NEW f, IsFact(f), f.event # "finished", Commit(f, out)
        PROVE  proj'.state \in Terminal => proj'.state = proj.state
    BY <2>1, CommitStatus DEF Succeeds, Terminal
  <2>2. ASSUME NEW to PROVE /\ Fact("queued", {c}, to).event # "finished"
                            /\ Fact("dispatched", {c}, to).event # "finished"
                            /\ Fact("succeeded", {c}, to).event # "finished"
                            /\ Fact("failed", {c}, to).event # "finished"
    BY DEF Fact
  <2>3. CASE Dispatch(c, out) \/ Complete(c, out) \/ Fail(c, out)
             \/ \E kind \in Requests, origin \in Origins : Enqueue(c, kind, origin, out)
    BY <2>1, <2>2, <2>3, TaskCommits, Zenon
  <2>4. CASE Acquire(c) \/ DispatchRefused(c) \/ Send(c) \/ SendRefused(c) \/ SendKnown(c)
             \/ Reply(c) \/ Uncertain(c) \/ Check(c)
    BY <2>4, Zenon DEF Acquire, DispatchRefused, Send, SendRefused, SendKnown, Reply, Uncertain, Check
  <2> QED
    BY <2>3, <2>4, Zenon DEF Advance
<1>3. UNCHANGED <<conn, uncertain>> \/ conn' = "down"
  BY Zenon DEF Enqueue, Advance, Acquire, Dispatch, DispatchRefused, Send, SendRefused, SendKnown,
     Reply, Uncertain, Complete, Fail, Check
<1> QED
  BY <1>1, <1>2, <1>3 DEF ExecInv, Terminal

\* The executor task keeps it.
LEMMA ExecExecute ==
  ASSUME TypeOK, ExecInv, NEW out \in Outcomes, Execute(out)
  PROVE  ExecInv'
<1>0. UNCHANGED <<ctl, uncertain>>
  BY DEF Execute, NeverInvoked, Starting, StartupFails, Attach, Ready, Exited, Cancelling,
     Terminate, Detach, Finish
<1>1. CASE NeverInvoked \/ StartupFails \/ Attach
  BY <1>0, <1>1, Zenon DEF NeverInvoked, StartupFails, Attach, ExecInv, At, Terminal
<1>2. CASE Exited \/ Terminate
  BY <1>0, <1>2 DEF Exited, Terminate, ExecInv, At, Terminal
<1>3. CASE Detach
  BY <1>0, <1>3 DEF Detach, ExecInv, At, Terminal
<1>4. ASSUME NEW to \in {"starting", "running", "cancelling"}, Lifecycles(to, out)
      PROVE  /\ proj'.state \in Terminal => proj'.state = proj.state
             /\ to = "starting" /\ proj.state \in {"created", "starting", "cancelling"} =>
                  proj'.state \in {"created", "starting", "cancelling"}
  <2> DEFINE f == Fact("lifecycle", {}, to)
  <2>1. Commit(f, out) /\ IsFact(f) /\ f.event # "finished"
    BY <1>4 DEF Lifecycles, IsFact, OwnerFact, Fact
  <2>2. proj'.state \in Terminal => proj'.state = proj.state
    BY <2>1, CommitStatus DEF Succeeds, Terminal
  <2>3. proj' \in {proj, Apply(proj, f)}
    BY <2>1, Zenon DEF Commit
  <2>4. Apply(proj, f).state = Lifecycle(proj, to)
    BY DEF Apply, Fact, TypeOK, Projections
  <2> QED
    BY <2>2, <2>3, <2>4 DEF Lifecycle
<1>5. CASE Starting(out)
  BY <1>0, <1>4, <1>5 DEF Starting, ExecInv, At, Terminal
<1>6. CASE Ready(out)
  BY <1>0, <1>4, <1>6 DEF Ready, ExecInv, At, Terminal
<1>7. CASE Cancelling(out)
  BY <1>0, <1>4, <1>7 DEF Cancelling, ExecInv, At, Terminal
<1>8. CASE Finish(out)
  <2>1. PICK to \in {exec, "failed"} : Commit(Fact("finished", {}, to), out)
    BY <1>8, Zenon DEF Finish
  <2>2. to \in Terminal /\ IsFact(Fact("finished", {}, to)) /\ Fact("finished", {}, to).to = to
    BY <1>8 DEF Finish, Terminal, IsFact, OwnerFact, Fact
  <2>3. proj.state \notin Terminal
    BY <1>8 DEF Finish, ExecInv, Terminal
  <2>4. proj'.state \in Terminal => proj'.state = to
    BY <2>1, <2>2, <2>3, CommitStatus DEF Succeeds, Terminal
  <2> QED
    BY <1>0, <1>8, <2>1, <2>3, <2>4 DEF Finish, ExecInv, At, Terminal
<1> QED
  BY <1>1, <1>2, <1>3, <1>5, <1>6, <1>7, <1>8 DEF Execute

\* The relation holds in every reachable state.
THEOREM ExecutorOrder == Spec => []ExecInv
<1>1. Init => ExecInv
  BY DEF Init, ExecInv, Initial, Idle, At, Terminal
<1>2. TypeOK /\ ExecInv /\ [Next]_<<setup, vars>> => ExecInv'
  <2> SUFFICES ASSUME TypeOK, ExecInv, [Next]_<<setup, vars>> PROVE ExecInv'
    OBVIOUS
  <2>1. CASE UNCHANGED <<setup, vars>>
    BY <2>1 DEF vars, ExecInv, At
  <2>2. ASSUME NEW c \in Control, Serve(c) PROVE ExecInv'
    <3>1. /\ exec \notin {"new", "starting", "attached"} /\ UNCHANGED <<proj, conn, exec, uncertain>>
          /\ vm \in {"running", "halted"}
      BY <2>2, Zenon DEF Serve, At, ExecInv
    <3> QED
      BY <3>1 DEF ExecInv, Terminal
  <2>3. CASE VmExits \/ Orphaned
    BY <2>3 DEF VmExits, Orphaned, ExecInv, At, Terminal
  <2>4. CASE Deadline \/ Cancel \/ MonitorTermination
    BY <2>4 DEF Deadline, Cancel, MonitorTermination, ExecInv, At, Terminal
  <2>5. ASSUME NEW out \in Outcomes, NEW known \in BOOLEAN, WaitFailed(known, out)
        PROVE  ExecInv'
    <3>1. PICK to \in {"none", "cancelling"} : Commit(Fact("wait_failed", {}, to), out)
      BY <2>5, OwnerCommits
    <3> DEFINE f == Fact("wait_failed", {}, to)
    <3>2. proj' \in {proj, Apply(proj, f)}
      BY <3>1, Zenon DEF Commit
    <3>3. Apply(proj, f).state \in {proj.state, Lifecycle(proj, "cancelling")}
      BY DEF Apply, Fact, TypeOK, Projections
    <3>4. proj'.state \in {proj.state, "cancelling"}
      BY <3>2, <3>3 DEF Lifecycle
    <3>5. UNCHANGED <<ctl, conn, vm, exec, uncertain>>
      BY <2>5 DEF WaitFailed
    <3> QED
      BY <3>4, <3>5 DEF ExecInv, At, Terminal
  <2> QED
    BY <2>1, <2>2, <2>3, <2>4, <2>5, ExecControl, ExecExecute DEF Next
<1> QED
  BY <1>1, <1>2, TypeCorrect, PTL DEF Spec

\* A terminal status is published only when the runner is gone and its control channel
\* closed, and `hibernated` only for a sealed suspension (complete, detach, finish).
THEOREM TerminalIsLast == Spec => []TerminalAfterTeardown
<1>1. ExecInv => TerminalAfterTeardown
  BY DEF ExecInv, TerminalAfterTeardown, Terminal
<1> QED
  BY <1>1, ExecutorOrder, PTL

\* No request follows an exchange of unknown outcome: the connection was dropped with
\* it and only a new runner could bring another (VmControl::exchange, Attach).
THEOREM UnknownIsLast == Spec => FailStop
<1> DEFINE A == uncertain => \A c \in Control : ctl'[c].pc = "sent" => At(c, "sent")
<1>1. TypeOK /\ ExecInv /\ [Next]_<<setup, vars>> => A
  <2> SUFFICES ASSUME TypeOK, ExecInv, [Next]_<<setup, vars>>, uncertain,
                      NEW c \in Control, ctl'[c].pc = "sent"
               PROVE  At(c, "sent")
    OBVIOUS
  <2>0. conn = "down"
    BY DEF ExecInv
  <2>1. CASE UNCHANGED ctl
    BY <2>1 DEF At
  <2>2. ASSUME NEW d \in Control, NEW out \in Outcomes, NEW kind \in Requests,
               NEW origin \in Origins, Enqueue(d, kind, origin, out)
        PROVE  At(c, "sent")
    BY <2>1, <2>2, EnqueueMoves, Zenon DEF At
  <2>3. ASSUME NEW d \in Control, NEW out \in Outcomes, Advance(d, out) PROVE At(c, "sent")
    <3>1. CASE d # c
      BY <2>3, <3>1, TaskMoves, Zenon DEF At
    <3>2. CASE d = c
      <4>0. ctl \in [Control -> Tasks] /\ ctl[c].res \in Results
        BY DEF TypeOK, Tasks
      <4>1. ~Send(c)
        BY <2>0 DEF Send
      <4>2. ASSUME NEW pc, NEW res, Goto(c, pc, res) PROVE ctl'[c].pc = pc
        BY <4>0, <4>2 DEF Goto, Tasks
      <4>3. ASSUME Ends(c) PROVE ctl'[c].pc = "idle"
        BY <4>0, <4>3 DEF Ends, Idle
      <4>4. CASE Acquire(c) \/ Dispatch(c, out) \/ DispatchRefused(c) \/ SendRefused(c) \/ SendKnown(c)
        BY <4>2, <4>4, Zenon DEF Acquire, Dispatch, DispatchRefused, SendRefused, SendKnown
      <4>5. CASE Reply(c) \/ Uncertain(c)
        BY <4>5, Zenon DEF Reply, Uncertain
      <4>6. CASE Complete(c, out)
        <5>1. Goto(c, "failing", "lost") \/ Goto(c, "checking", "none") \/ Ends(c)
          BY <4>6, Zenon DEF Complete
        <5> QED
          BY <4>2, <4>3, <5>1
      <4>7. CASE Fail(c, out) \/ Check(c)
        BY <4>2, <4>3, <4>7, Zenon DEF Fail, Check
      <4> QED
        BY <2>3, <3>2, <4>1, <4>4, <4>5, <4>6, <4>7 DEF Advance
    <3> QED
      BY <3>1, <3>2
  <2>4. ASSUME NEW d \in Control, Serve(d) PROVE At(c, "sent")
    BY <2>4, ServeMoves DEF Serve, At
  <2>5. ASSUME NEW out \in Outcomes, Execute(out) PROVE UNCHANGED ctl
    BY <2>5, Zenon DEF Execute, NeverInvoked, Starting, StartupFails, Attach, Ready, Exited, Cancelling,
       Terminate, Detach, Finish
  <2>6. CASE \/ VmExits \/ Orphaned \/ Deadline \/ Cancel \/ MonitorTermination
             \/ \E out \in Outcomes, known \in BOOLEAN : WaitFailed(known, out)
             \/ UNCHANGED <<setup, vars>>
    BY <2>1, <2>6, Zenon DEF VmExits, Orphaned, Deadline, Cancel, MonitorTermination, WaitFailed, vars
  <2> QED
    BY <2>1, <2>2, <2>3, <2>4, <2>5, <2>6 DEF Next
<1>2. TypeOK /\ ExecInv /\ [Next]_<<setup, vars>> => [A]_vars
  BY <1>1
<1> HIDE DEF A
<1>3. Spec => [][A]_vars
  BY <1>2, TypeCorrect, ExecutorOrder, PTL DEF Spec
<1> QED
  BY <1>3, Zenon DEF A, FailStop

-----------------------------------------------------------------------------
(* Pending controls.                                                       *)

\* A task is pending from its admission until its end is recorded, and in flight
\* from its dispatch until its result is known.
Holding == {"queued", "fenced", "dispatched", "sent", "replied", "failing"}
Held(c) ==
    /\ c \in Pending(proj) <=> ctl[c].pc \in Holding
    /\ ctl[c].pc \in {"queued", "fenced"} => c \in proj.queued
    /\ ctl[c].pc \in {"dispatched", "sent", "replied"} => c \in proj.inflight

Fits == IsFiniteSet(Pending(proj)) /\ Cardinality(Pending(proj)) <= MaxPending

PendingInv == Fits /\ \A c \in Control : Held(c)

\* Fewer pending controls still fit.
LEMMA FewerFit ==
  ASSUME TypeOK, Fits, UNCHANGED setup, Pending(proj)' \subseteq Pending(proj)
  PROVE  Fits'
<1>1. MaxPending \in Nat /\ MaxPending' = MaxPending
  BY DEF TypeOK, MaxPending
<1>2. /\ IsFiniteSet(Pending(proj)') /\ Cardinality(Pending(proj)') <= Cardinality(Pending(proj))
  BY FS_Subset DEF Fits
<1>3. Cardinality(Pending(proj)) \in Nat /\ Cardinality(Pending(proj)') \in Nat
  BY <1>2, FS_CardinalityType DEF Fits
<1> QED
  BY <1>1, <1>2, <1>3 DEF Fits

\* A step that leaves the pending controls alone.
LEMMA PendingQuiet ==
  ASSUME TypeOK, PendingInv, UNCHANGED setup,
         proj'.queued = proj.queued, proj'.inflight = proj.inflight,
         NEW c \in Control, \A d \in Control \ {c} : ctl'[d] = ctl[d],
         ctl'[c].pc \in Holding <=> ctl[c].pc \in Holding,
         ctl'[c].pc \in {"queued", "fenced"} => ctl[c].pc \in {"queued", "fenced"},
         ctl'[c].pc \in {"dispatched", "sent", "replied"} =>
             ctl[c].pc \in {"dispatched", "sent", "replied"}
  PROVE  PendingInv'
<1>1. Fits'
  BY FewerFit DEF PendingInv, Pending
<1>2. \A d \in Control : Held(d)'
  BY DEF PendingInv, Held, Pending
<1> QED
  BY <1>1, <1>2 DEF PendingInv

\* A commit applies its fact unless it refuses it or could not store an admission.
LEMMA CommitApplies ==
  ASSUME NEW f, NEW out, Commit(f, out)
  PROVE  /\ Committed(f, out) => proj' = Apply(proj, f)
         /\ Admission(f) /\ ~Committed(f, out) => proj' = proj
         /\ ~Admission(f) /\ Admits(proj, gap, f) => proj' = Apply(proj, f)
         /\ ~Admits(proj, gap, f) => proj' = proj
BY Zenon DEF Commit, Committed

\* An admission adds its control, within the limit.
LEMMA PendingEnqueue ==
  ASSUME TypeOK, PendingInv, UNCHANGED setup, NEW c \in Control, NEW out,
         NEW kind \in Requests, NEW origin \in Origins, Enqueue(c, kind, origin, out)
  PROVE  PendingInv'
<1> DEFINE f == Fact("queued", {c}, kind)
<1>1. Commit(f, out) /\ Admission(f) /\ At(c, "idle")
  BY Zenon DEF Enqueue, Fact, Admission
<1>2. CASE ~Committed(f, out)
  <2>1. proj' = proj /\ UNCHANGED ctl
    BY <1>1, <1>2, CommitApplies, EnqueueMoves, Zenon
  <2> QED
    BY <2>1, PendingQuiet
<1>3. CASE Committed(f, out)
  <2>1. /\ ctl'[c].pc = "queued" /\ \A d \in Control \ {c} : ctl'[d] = ctl[d]
    BY <1>3, EnqueueMoves, Zenon
  <2>2. proj' = Apply(proj, f) /\ proj \in Projections
    BY <1>1, <1>3, CommitApplies DEF TypeOK
  <2>3. proj'.queued = proj.queued \cup {c} /\ proj'.inflight = proj.inflight
    BY <2>2, ApplyQueued, ZenonT(30)
  <2>4. c \notin Pending(proj) /\ Cardinality(Pending(proj)) < MaxPending
    BY <1>3, Zenon DEF Committed, Admits, Fact
  <2>5. Pending(proj)' = Pending(proj) \cup {c}
    BY <2>3 DEF Pending
  <2>6. Fits'
    <3>1. MaxPending \in Nat /\ MaxPending' = MaxPending
      BY DEF TypeOK, MaxPending
    <3>2. IsFiniteSet(Pending(proj)) /\ Cardinality(Pending(proj)) \in Nat
      BY FS_CardinalityType DEF PendingInv, Fits
    <3>3. IsFiniteSet(Pending(proj) \cup {c})
      BY <3>2, FS_AddElement, Zenon
    <3>4. Cardinality(Pending(proj) \cup {c}) = Cardinality(Pending(proj)) + 1
      BY <2>4, <3>2, FS_AddElement, Zenon
    <3> QED
      BY <2>4, <2>5, <3>1, <3>2, <3>3, <3>4 DEF Fits
  <2>7. \A d \in Control : Held(d)'
    BY <2>1, <2>3 DEF PendingInv, Held, Pending, Holding
  <2> QED
    BY <2>6, <2>7 DEF PendingInv
<1> QED
  BY <1>2, <1>3

\* A dispatch moves its control to the ones in flight, or the control fails.
LEMMA PendingDispatch ==
  ASSUME TypeOK, PendingInv, UNCHANGED setup, NEW c \in Control, NEW out, Dispatch(c, out)
  PROVE  PendingInv'
<1> DEFINE f == Fact("dispatched", {c}, "none")
<1>0. ctl \in [Control -> Tasks] /\ proj \in Projections
  BY Zenon DEF TypeOK
<1>1. Commit(f, out) /\ Admission(f) /\ ctl[c].pc = "fenced"
  BY Zenon DEF Dispatch, Fact, Admission, At
<1>2. CASE ~Committed(f, out)
  <2>1. proj' = proj /\ Goto(c, "failing", "lost")
    BY <1>1, <1>2, CommitApplies, ZenonT(60) DEF Dispatch
  <2>2. ctl'[c].pc = "failing" /\ \A d \in Control \ {c} : ctl'[d] = ctl[d]
    BY <1>0, <2>1, GotoMoves DEF Pcs, Results
  <2> QED
    BY <1>1, <2>1, <2>2, PendingQuiet DEF Holding
<1>3. CASE Committed(f, out)
  <2>1. proj' = Apply(proj, f) /\ Goto(c, "dispatched", "none")
    BY <1>1, <1>3, CommitApplies, ZenonT(60) DEF Dispatch
  <2>2. ctl'[c].pc = "dispatched" /\ \A d \in Control \ {c} : ctl'[d] = ctl[d]
    BY <1>0, <2>1, GotoMoves DEF Pcs, Results
  <2>3. proj'.queued = proj.queued \ {c} /\ proj'.inflight = proj.inflight \cup {c}
    BY <1>0, <2>1, ApplyDispatched, ZenonT(30)
  <2>4. c \in proj.queued
    BY <1>1 DEF PendingInv, Held
  <2>5. Fits'
    BY <2>3, <2>4, FewerFit, Zenon DEF PendingInv, Pending
  <2>6. \A d \in Control : Held(d)'
    BY <1>1, <2>2, <2>3, <2>4 DEF PendingInv, Held, Pending, Holding
  <2> QED
    BY <2>5, <2>6 DEF PendingInv
<1> QED
  BY <1>2, <1>3

\* A recorded end removes its control; a replied control is always in flight and a
\* failing one always pending, so the record is never refused.
LEMMA PendingEnds ==
  ASSUME TypeOK, PendingInv, HistoryInv, UNCHANGED setup, NEW c \in Control, NEW out,
         Complete(c, out) \/ Fail(c, out)
  PROVE  PendingInv'
<1>0. ctl \in [Control -> Tasks] /\ proj \in Projections /\ proj.queued \cap proj.inflight = {}
  BY DEF TypeOK, HistoryInv, Follows, Trails
<1>1. CASE Complete(c, out)
  <2> DEFINE f == Fact("succeeded", {c}, ctl[c].res)
  <2>1. Commit(f, out) /\ ~Admission(f) /\ ctl[c].pc = "replied"
    BY <1>1, ZenonT(60) DEF Complete, Fact, Admission, At
  <2>2. Admits(proj, gap, f) /\ c \in proj.inflight
    BY <2>1, Zenon DEF PendingInv, Held, Admits, Admission, Fact
  <2>3. proj' = Apply(proj, f)
    BY <2>1, <2>2, CommitApplies
  <2>4. proj'.queued = proj.queued /\ proj'.inflight = proj.inflight \ {c}
    BY <1>0, <2>3, ApplySucceeded, ZenonT(30)
  <2>5. Goto(c, "checking", "none") \/ Ends(c)
    BY <1>1, <2>2, Zenon DEF Complete
  <2>6. ctl'[c].pc \in {"checking", "idle"} /\ \A d \in Control \ {c} : ctl'[d] = ctl[d]
    BY <1>0, <2>5, GotoMoves, EndsMoves, Zenon DEF Pcs, Results
  <2>7. Fits'
    BY <2>4, FewerFit, Zenon DEF PendingInv, Pending
  <2>8. \A d \in Control : Held(d)'
    BY <1>0, <2>2, <2>4, <2>6, Zenon DEF PendingInv, Held, Pending, Holding
  <2> QED
    BY <2>7, <2>8 DEF PendingInv
<1>2. CASE Fail(c, out)
  <2> DEFINE f == Fact("failed", {c}, ctl[c].res)
  <2>1. Commit(f, out) /\ ~Admission(f) /\ ctl[c].pc = "failing" /\ Goto(c, "checking", "none")
    BY <1>2, Zenon DEF Fail, Fact, Admission, At
  <2>2. Admits(proj, gap, f)
    BY <2>1, Zenon DEF PendingInv, Held, Holding, Admits, Admission, Fact
  <2>3. proj' = Apply(proj, f)
    BY <2>1, <2>2, CommitApplies
  <2>4. proj'.queued = proj.queued \ {c} /\ proj'.inflight = proj.inflight \ {c}
    BY <1>0, <2>3, ApplyFailed, ZenonT(30)
  <2>5. ctl'[c].pc = "checking" /\ \A d \in Control \ {c} : ctl'[d] = ctl[d]
    BY <1>0, <2>1, GotoMoves, Zenon DEF Pcs, Results
  <2>6. Fits'
    BY <2>4, FewerFit, Zenon DEF PendingInv, Pending
  <2>7. \A d \in Control : Held(d)'
    BY <2>4, <2>5 DEF PendingInv, Held, Pending, Holding
  <2> QED
    BY <2>6, <2>7 DEF PendingInv
<1> QED
  BY <1>1, <1>2, Zenon

\* The other steps of a control task change neither set.
LEMMA PendingMoves ==
  ASSUME TypeOK, PendingInv, UNCHANGED setup, NEW c \in Control,
         \/ Acquire(c) \/ DispatchRefused(c) \/ Send(c) \/ SendRefused(c) \/ SendKnown(c)
         \/ Reply(c) \/ Uncertain(c) \/ Check(c) \/ Serve(c)
  PROVE  PendingInv'
<1>0. ctl \in [Control -> Tasks] /\ ctl[c].res \in Results /\ UNCHANGED proj
  BY Zenon DEF TypeOK, Tasks, Acquire, DispatchRefused, Send, SendRefused, SendKnown, Reply,
     Uncertain, Check, Serve
<1>1. CASE Acquire(c) \/ DispatchRefused(c)
  <2>1. ctl[c].pc \in {"queued", "fenced"} /\ (Goto(c, "fenced", "none") \/ Goto(c, "failing", "lost"))
        /\ (At(c, "fenced") => Goto(c, "failing", "lost"))
    BY <1>1, ZenonT(60) DEF Acquire, DispatchRefused, At
  <2>2. ctl'[c].pc \in {"fenced", "failing"} /\ \A d \in Control \ {c} : ctl'[d] = ctl[d]
    BY <1>0, <2>1, GotoMoves, Zenon DEF Pcs, Results
  <2> QED
    BY <1>0, <2>1, <2>2, PendingQuiet, Zenon DEF Holding
<1>2. CASE Send(c) \/ SendRefused(c) \/ SendKnown(c)
  <2>1. ctl[c].pc = "dispatched"
        /\ (Goto(c, "sent", "none") \/ Goto(c, "failing", "before") \/ Goto(c, "replied", "captured"))
    BY <1>2, ZenonT(60) DEF Send, SendRefused, SendKnown, At
  <2>2. ctl'[c].pc \in {"sent", "failing", "replied"} /\ \A d \in Control \ {c} : ctl'[d] = ctl[d]
    BY <1>0, <2>1, GotoMoves, Zenon DEF Pcs, Results
  <2> QED
    BY <1>0, <2>1, <2>2, PendingQuiet DEF Holding
<1>3. CASE Reply(c) \/ Uncertain(c)
  <2>1. ctl[c].pc = "sent"
        /\ (Goto(c, "failing", ctl[c].res) \/ Goto(c, "replied", ctl[c].res) \/ Goto(c, "failing", "lost"))
    BY <1>3, ZenonT(60) DEF Reply, Uncertain, At
  <2>2. ctl'[c].pc \in {"failing", "replied"} /\ \A d \in Control \ {c} : ctl'[d] = ctl[d]
    BY <1>0, <2>1, GotoMoves, Zenon DEF Pcs, Results
  <2> QED
    BY <1>0, <2>1, <2>2, PendingQuiet DEF Holding
<1>4. CASE Check(c)
  <2>1. ctl[c].pc = "checking" /\ ctl'[c].pc = "idle" /\ \A d \in Control \ {c} : ctl'[d] = ctl[d]
    BY <1>0, <1>4, EndsMoves, Zenon DEF Check, At
  <2> QED
    BY <1>0, <2>1, PendingQuiet, Zenon DEF Holding
<1>5. CASE Serve(c)
  <2>1. ctl[c].pc = "sent" /\ ctl'[c].pc = "sent" /\ \A d \in Control \ {c} : ctl'[d] = ctl[d]
    BY <1>5, ServeMoves, Zenon DEF Serve, At
  <2> QED
    BY <1>0, <2>1, PendingQuiet, Zenon DEF Holding
<1> QED
  BY <1>1, <1>2, <1>3, <1>4, <1>5

\* The steps of nobody's control leave the pending controls alone.
LEMMA PendingElsewhere ==
  ASSUME TypeOK, PendingInv, UNCHANGED setup,
         \/ \E out \in Outcomes : Execute(out) \/ \E known \in BOOLEAN : WaitFailed(known, out)
         \/ VmExits \/ Orphaned \/ Deadline \/ Cancel \/ MonitorTermination \/ UNCHANGED vars
  PROVE  PendingInv'
<1>1. UNCHANGED ctl
  BY Zenon DEF Execute, NeverInvoked, Starting, StartupFails, Attach, Ready, Exited, Cancelling,
     Terminate, Detach, Finish, WaitFailed, VmExits, Orphaned, Deadline, Cancel,
     MonitorTermination, vars
<1>2. proj'.queued = proj.queued /\ proj'.inflight = proj.inflight
  <2>1. ASSUME NEW f, OwnerFact(f), NEW out, Commit(f, out)
        PROVE  proj'.queued = proj.queued /\ proj'.inflight = proj.inflight
    <3>1. proj' \in {proj, Apply(proj, f)} /\ proj \in Projections
      BY <2>1, Zenon DEF Commit, TypeOK
    <3> QED
      BY <2>1, <3>1, ApplyOwner
  <2>2. ASSUME NEW out \in Outcomes,
               \/ Starting(out) \/ Ready(out) \/ Cancelling(out) \/ Finish(out)
               \/ \E known \in BOOLEAN : WaitFailed(known, out)
        PROVE  \E f : OwnerFact(f) /\ Commit(f, out)
    BY <2>2, OwnerCommits, Zenon DEF OwnerFact
  <2>3. CASE NeverInvoked \/ StartupFails \/ Attach \/ Exited \/ Terminate \/ Detach \/ VmExits
             \/ Orphaned \/ Deadline \/ Cancel \/ MonitorTermination \/ UNCHANGED vars
    BY <2>3 DEF NeverInvoked, StartupFails, Attach, Exited, Terminate, Detach, VmExits,
       Orphaned, Deadline, Cancel, MonitorTermination, vars
  <2> QED
    BY <2>1, <2>2, <2>3 DEF Execute
<1>3. Fits'
  BY <1>2, FewerFit, Zenon DEF PendingInv, Pending
<1>4. \A d \in Control : Held(d)'
  BY <1>1, <1>2 DEF PendingInv, Held, Pending
<1> QED
  BY <1>3, <1>4, Zenon DEF PendingInv

\* The sets of pending controls match the tasks in every reachable state.
THEOREM PendingMatches == Spec => []PendingInv
<1>1. Init => PendingInv
  <2> SUFFICES ASSUME Init PROVE PendingInv
    OBVIOUS
  <2>1. Pending(proj) = {}
    BY DEF Init, Initial, Pending
  <2>2. MaxPending \in Nat
    BY SetupsAssumption DEF Init, MaxPending
  <2>3. Fits
    BY <2>1, <2>2, FS_EmptySet DEF Fits
  <2> QED
    BY <2>1, <2>3, Zenon DEF Init, PendingInv, Held, Holding, Idle
<1>2. TypeOK /\ HistoryInv /\ PendingInv /\ [Next]_<<setup, vars>> => PendingInv'
  <2> SUFFICES ASSUME TypeOK, HistoryInv, PendingInv, [Next]_<<setup, vars>> PROVE PendingInv'
    OBVIOUS
  <2>1. UNCHANGED setup
    BY Zenon DEF Next
  <2>2. ASSUME NEW c \in Control, NEW out \in Outcomes, Advance(c, out) PROVE PendingInv'
    BY <2>1, <2>2, PendingDispatch, PendingEnds, PendingMoves DEF Advance
  <2>3. CASE UNCHANGED <<setup, vars>>
    BY <2>3, PendingElsewhere, Zenon
  <2> QED
    BY <2>1, <2>2, <2>3, PendingEnqueue, PendingMoves, PendingElsewhere DEF Next
<1> QED
  BY <1>1, <1>2, TypeCorrect, HistoryFollows, PTL DEF Spec

\* Exactly the running control tasks are pending and they stay within MAX_PENDING,
\* whichever append fails and however the Execution ends (exchange, control_error).
THEOREM PendingNeverLeaks == Spec => []NoLeakedPending
<1>1. PendingInv => NoLeakedPending
  BY DEF PendingInv, Fits, Held, Holding, NoLeakedPending
<1> QED
  BY <1>1, PendingMatches, PTL

\* Write-ahead: a control that may have touched the runner is in flight in every replay
\* of the journal (perform_control).
THEOREM EffectsAlwaysRecorded == Spec => []EffectsRecorded
<1>1. PendingInv /\ HistoryInv => EffectsRecorded
  BY DEF PendingInv, Held, HistoryInv, Follows, Trails, EffectsRecorded
<1> QED
  BY <1>1, PendingMatches, HistoryFollows, PTL

-----------------------------------------------------------------------------
(* The status under a wait coordinator, which runs one control at a time.  *)

\* The published status is that of the vCPUs.
Match ==
    /\ proj.state = "running" => vm # "halted"
    /\ proj.state = "suspended" => vm # "running"

\* The status will be that of the vCPUs once the result is recorded.
Told(res) ==
    /\ res \in {"none", "lost", "before", "captured"} => Match
    /\ res \in {"running", "rejects_running"} => vm # "halted"
    /\ res \in {"paused", "rejects_paused"} => vm # "running"

\* A task between the runner and the record of its result.
Settles(c) ==
    Unsettled(c) => /\ Told(ctl[c].res)
                    /\ ctl[c].pc \in {"replied", "failing"} => ctl[c].res # "fails"

Alone == \A c, d \in Control : ~At(c, "idle") /\ ~At(d, "idle") => c = d
Waits == exec = "waiting" /\ ~cancelled

StatusInv ==
    /\ exec \in {"new", "starting", "attached"} => vm # "halted"
    /\ Serialised =>
         /\ Alone
         /\ Waits => /\ (\A c \in Control : ~Unsettled(c)) => Match
                     /\ \A c \in Control : Settles(c)

\* What the runner answers tells where the vCPUs are.
LEMMA ServesTells ==
  ASSUME NEW kind \in Kinds, NEW origin, NEW v \in {"running", "halted"},
         NEW r \in Serves(kind, origin, v)
  PROVE  /\ r.res \in {"none", "lost", "before", "captured"} => r.vm = v
         /\ r.res \in {"running", "rejects_running"} => r.vm # "halted"
         /\ r.res \in {"paused", "rejects_paused"} => r.vm # "running"
BY DEF Serves, Kinds

\* Recording a result that tells where the vCPUs are makes the status theirs.
LEMMA RecordMatches ==
  ASSUME NEW res \in Results \ {"fails"}, Told(res), UNCHANGED vm,
         proj'.state = Reported(proj, res)
  PROVE  Match'
BY Zenon DEF Results, Told, Match, Reported, Live

\* A step of the one control that is active.
LEMMA StatusStep ==
  ASSUME StatusInv, UNCHANGED <<setup, exec>>, cancelled => cancelled',
         exec \in {"new", "starting", "attached"} => vm' # "halted",
         NEW c \in Control, \A d \in Control \ {c} : ctl'[d] = ctl[d],
         Serialised => \A d \in Control \ {c} : At(d, "idle"),
         Serialised /\ Waits /\ Waits' =>
             /\ ctl'[c].pc \in {"sent", "replied", "failing"} => Settles(c)'
             /\ ctl'[c].pc \notin {"sent", "replied", "failing"} => Match'
  PROVE  StatusInv'
<1>1. Serialised' <=> Serialised
  BY Zenon DEF Serialised
<1>2. Waits' => Waits
  BY Zenon DEF Waits
<1>3. ASSUME Serialised PROVE Alone'
  BY <1>3 DEF Alone, At
<1>4. ASSUME Serialised, Waits'
      PROVE  /\ (\A d \in Control : ~Unsettled(d)') => Match'
             /\ \A d \in Control : Settles(d)'
  <2>1. \A d \in Control \ {c} : ~Unsettled(d)'
    BY <1>4, Zenon DEF Unsettled, At
  <2> QED
    BY <1>2, <1>4, <2>1, Zenon DEF Unsettled, Settles
<1> QED
  BY <1>1, <1>3, <1>4, Zenon DEF StatusInv

\* The active control of a coordinated Execution is the only one.
LEMMA OthersIdle ==
  ASSUME StatusInv, NEW c \in Control, ~At(c, "idle")
  PROVE  /\ Serialised => \A d \in Control \ {c} : At(d, "idle")
         /\ Serialised /\ Waits => /\ Settles(c)
                                   /\ ~Unsettled(c) => Match
BY Zenon DEF StatusInv, Alone, Unsettled, At

\* The runner serves a request.
LEMMA StatusServe ==
  ASSUME TypeOK, ExecInv, StatusInv, UNCHANGED setup, NEW c \in Control, Serve(c)
  PROVE  StatusInv'
<1>1. /\ ctl[c].pc = "sent" /\ ctl[c].res = "none" /\ vm \in {"running", "halted"}
      /\ UNCHANGED <<proj, exec, cancelled>> /\ ctl[c].kind \in Kinds
  BY Zenon DEF Serve, At, TypeOK, Tasks
<1>2. /\ \A d \in Control \ {c} : ctl'[d] = ctl[d]
      /\ ctl'[c].pc = "sent"
  BY ServeMoves, Zenon
<1>3. PICK r \in Serves(ctl[c].kind, ctl[c].origin, vm) : vm' = r.vm /\ ctl'[c].res = r.res
  BY ServeMoves, Zenon
<1>4. exec \notin {"new", "starting", "attached"} /\ ~At(c, "idle")
  BY <1>1, Zenon DEF ExecInv, At
<1>5. ASSUME Serialised, Waits PROVE Settles(c)'
  <2>1. Match
    BY <1>1, <1>4, <1>5, OthersIdle, Zenon DEF Settles, Unsettled, Told
  <2>2. Told(ctl[c].res)'
    BY <1>1, <1>3, <2>1, ServesTells DEF Told, Match
  <2> QED
    BY <1>2, <2>2, Zenon DEF Settles
<1> QED
  BY <1>1, <1>2, <1>4, <1>5, OthersIdle, StatusStep, Zenon

\* An admission changes no status.
LEMMA StatusEnqueue ==
  ASSUME TypeOK, StatusInv, UNCHANGED setup, NEW c \in Control, NEW out,
         NEW kind \in Requests, NEW origin \in Origins, Enqueue(c, kind, origin, out)
  PROVE  StatusInv'
<1>1. /\ \A d \in Control \ {c} : ctl'[d] = ctl[d]
      /\ ctl'[c].pc = "queued" \/ UNCHANGED ctl
      /\ UNCHANGED <<vm, exec, cancelled>> /\ ctl[c].pc = "idle"
      /\ Serialised => \A d \in Control : At(d, "idle")
  BY EnqueueMoves DEF Enqueue, At
<1>2. proj'.state = proj.state
  <2>1. proj' \in {proj, Apply(proj, Fact("queued", {c}, kind))} /\ proj \in Projections
    BY Zenon DEF Enqueue, Commit, TypeOK
  <2>2. Apply(proj, Fact("queued", {c}, kind)).state = proj.state
    BY <2>1, ApplyQueued, ZenonT(30)
  <2> QED
    BY <2>1, <2>2
<1>3. ctl'[c].pc \notin {"sent", "replied", "failing"}
  BY <1>1, Zenon
<1>4. ASSUME Serialised, Waits PROVE Match'
  <2>1. Match
    BY <1>1, <1>4, Zenon DEF StatusInv, Unsettled, At
  <2> QED
    BY <1>1, <1>2, <2>1, Zenon DEF Match
<1> QED
  BY <1>1, <1>3, <1>4, StatusStep, Zenon DEF StatusInv

\* A step towards the runner, or one that ends a control, finds the status right and
\* leaves it and the vCPUs alone.
LEMMA StatusQuiet ==
  ASSUME TypeOK, StatusInv, UNCHANGED <<setup, exec, vm>>, cancelled => cancelled',
         proj'.state = proj.state,
         NEW c \in Control, ctl[c].pc \in {"queued", "fenced", "dispatched", "checking"},
         \A d \in Control \ {c} : ctl'[d] = ctl[d],
         ctl'[c].pc \in {"sent", "replied", "failing"} =>
             ctl'[c].res \in {"none", "lost", "before", "captured"}
  PROVE  StatusInv'
<1>1. ~At(c, "idle") /\ ~Unsettled(c)
  BY DEF At, Unsettled
<1>2. ASSUME Serialised, Waits PROVE Match'
  BY <1>1, <1>2, OthersIdle, Zenon DEF Match
<1>3. ASSUME Serialised, Waits, ctl'[c].pc \in {"sent", "replied", "failing"} PROVE Settles(c)'
  BY <1>2, <1>3 DEF Settles, Told
<1> QED
  BY <1>1, <1>2, <1>3, OthersIdle, StatusStep, ZenonT(60) DEF StatusInv

\* A control task keeps the status right.
LEMMA StatusTask ==
  ASSUME TypeOK, PendingInv, StatusInv, UNCHANGED setup, NEW c \in Control, NEW out,
         Advance(c, out)
  PROVE  StatusInv'
<1>0. ctl \in [Control -> Tasks] /\ ctl[c].res \in Results /\ proj \in Projections
  BY Zenon DEF TypeOK, Tasks
<1>1. (\A d \in Control \ {c} : ctl'[d] = ctl[d]) /\ UNCHANGED <<vm, exec>>
  BY TaskMoves
<1>2. cancelled => cancelled'
  BY Zenon DEF Advance, Acquire, Dispatch, DispatchRefused, Send, SendRefused, SendKnown, Reply,
     Uncertain, Complete, Fail, Check
<1>3. CASE Acquire(c) \/ DispatchRefused(c) \/ Send(c) \/ SendRefused(c) \/ SendKnown(c)
  <2>1. /\ ctl[c].pc \in {"queued", "fenced", "dispatched"} /\ UNCHANGED proj
        /\ \/ Goto(c, "fenced", "none") \/ Goto(c, "failing", "lost") \/ Goto(c, "sent", "none")
           \/ Goto(c, "failing", "before") \/ Goto(c, "replied", "captured")
    BY <1>3, Zenon DEF Acquire, DispatchRefused, Send, SendRefused, SendKnown, At
  <2>2. ctl'[c].res \in {"none", "lost", "before", "captured"}
    BY <1>0, <2>1, GotoMoves, Zenon DEF Pcs, Results
  <2> QED
    BY <1>1, <1>2, <2>1, <2>2, StatusQuiet, ZenonT(60)
<1>4. CASE Dispatch(c, out)
  <2>1. proj' \in {proj, Apply(proj, Fact("dispatched", {c}, "none"))}
    BY <1>4, Zenon DEF Dispatch, Commit
  <2>2. proj'.state = proj.state
    <3>1. Apply(proj, Fact("dispatched", {c}, "none")).state = proj.state
      BY <1>0, ApplyDispatched, ZenonT(30)
    <3> QED
      BY <2>1, <3>1
  <2>3. ctl[c].pc = "fenced" /\ (Goto(c, "dispatched", "none") \/ Goto(c, "failing", "lost"))
    BY <1>4, Zenon DEF Dispatch, At
  <2>4. ctl'[c].res \in {"none", "lost"}
    BY <1>0, <2>3, GotoMoves DEF Pcs, Results
  <2> QED
    BY <1>1, <1>2, <2>2, <2>3, <2>4, StatusQuiet
<1>5. CASE Check(c)
  <2>1. ctl[c].pc = "checking" /\ UNCHANGED proj /\ ctl'[c].pc = "idle"
    BY <1>0, <1>5, EndsMoves DEF Check, At
  <2> QED
    BY <1>1, <1>2, <2>1, StatusQuiet, Zenon
<1>6. CASE Reply(c)
  <2>1. /\ ctl[c].pc = "sent" /\ ctl[c].res \notin {"none", "fails"} /\ UNCHANGED proj
        /\ Goto(c, "failing", ctl[c].res) \/ Goto(c, "replied", ctl[c].res)
    BY <1>6, Zenon DEF Reply, At
  <2>2. ctl'[c].pc \in {"failing", "replied"} /\ ctl'[c].res = ctl[c].res
    BY <1>0, <2>1, GotoMoves, ZenonT(60) DEF Pcs, Results
  <2>3. ~At(c, "idle") /\ Unsettled(c)
    BY <2>1 DEF At, Unsettled
  <2>4. ASSUME Serialised, Waits PROVE Settles(c)'
    <3>1. Told(ctl[c].res)
      BY <2>3, <2>4, OthersIdle DEF Settles
    <3> QED
      BY <1>1, <2>1, <2>2, <3>1, Zenon DEF Settles, Told, Match
  <2> QED
    BY <1>1, <1>2, <2>2, <2>3, <2>4, OthersIdle, StatusStep, Zenon DEF StatusInv
<1>7. CASE Uncertain(c)
  <2>1. cancelled' /\ ~At(c, "idle")
    BY <1>7 DEF Uncertain, At
  <2> QED
    BY <1>1, <1>2, <2>1, OthersIdle, StatusStep, Zenon DEF StatusInv, Waits
<1>8. CASE Complete(c, out) \/ Fail(c, out)
  <2>1. ctl[c].pc \in {"replied", "failing"} /\ ~At(c, "idle") /\ Unsettled(c)
    BY <1>8, Zenon DEF Complete, Fail, At, Unsettled
  <2>2. /\ proj'.state = Reported(proj, ctl[c].res)
        /\ ctl'[c].pc \in {"checking", "idle"}
    <3>1. CASE Complete(c, out)
      <4> DEFINE f == Fact("succeeded", {c}, ctl[c].res)
      <4>1. Commit(f, out) /\ ~Admission(f) /\ ctl[c].pc = "replied"
        BY <3>1, Zenon DEF Complete, Fact, Admission, At
      <4>2. Admits(proj, gap, f)
        BY <4>1, Zenon DEF PendingInv, Held, Admits, Admission, Fact
      <4>3. proj' = Apply(proj, f)
        BY <4>1, <4>2, CommitApplies, Zenon
      <4>4. Goto(c, "checking", "none") \/ Ends(c)
        BY <3>1, <4>2, ZenonT(60) DEF Complete
      <4>5. ctl'[c].pc \in {"checking", "idle"}
        BY <1>0, <4>4, GotoMoves, EndsMoves DEF Pcs, Results
      <4>6. Apply(proj, f).state = Reported(proj, ctl[c].res)
        BY <1>0, ApplyReports, Zenon
      <4> QED
        BY <4>3, <4>5, <4>6
    <3>2. CASE Fail(c, out)
      <4> DEFINE f == Fact("failed", {c}, ctl[c].res)
      <4>1. /\ Commit(f, out) /\ ~Admission(f) /\ ctl[c].pc = "failing"
            /\ Goto(c, "checking", "none")
        BY <3>2 DEF Fail, Fact, Admission, At
      <4>2. Admits(proj, gap, f)
        BY <4>1, Zenon DEF PendingInv, Held, Holding, Admits, Admission, Fact
      <4>3. proj' = Apply(proj, f)
        BY <4>1, <4>2, CommitApplies, Zenon
      <4>4. ctl'[c].pc = "checking"
        BY <1>0, <4>1, GotoMoves, Zenon DEF Pcs, Results
      <4>5. Apply(proj, f).state = Reported(proj, ctl[c].res)
        BY <1>0, ApplyReports, Zenon
      <4> QED
        BY <4>3, <4>4, <4>5, Zenon
    <3> QED
      BY <1>8, <3>1, <3>2, Zenon
  <2>3. ASSUME Serialised, Waits PROVE Match'
    <3>1. Told(ctl[c].res) /\ ctl[c].res # "fails"
      BY <2>1, <2>3, OthersIdle DEF Settles
    <3> QED
      BY <1>0, <1>1, <2>2, <3>1, RecordMatches, Zenon
  <2> QED
    BY <1>1, <1>2, <2>1, <2>2, <2>3, OthersIdle, StatusStep, Zenon DEF StatusInv
<1> QED
  BY <1>3, <1>4, <1>5, <1>6, <1>7, <1>8 DEF Advance

\* The runner that exits, the executor task and the callers of the owner keep it right.
LEMMA StatusElsewhere ==
  ASSUME TypeOK, ExecInv, StatusInv, UNCHANGED setup,
         \/ \E out \in Outcomes : Execute(out) \/ \E known \in BOOLEAN : WaitFailed(known, out)
         \/ VmExits \/ Orphaned \/ Deadline \/ Cancel \/ MonitorTermination \/ UNCHANGED vars
  PROVE  StatusInv'
<1>0. UNCHANGED ctl /\ (Serialised' <=> Serialised)
  BY Zenon DEF Execute, NeverInvoked, Starting, StartupFails, Attach, Ready, Exited, Cancelling,
     Terminate, Detach, Finish, WaitFailed, VmExits, Orphaned, Deadline, Cancel,
     MonitorTermination, vars, Serialised
<1>1. ASSUME exec' \in {"new", "starting", "attached"} => vm' # "halted", ~Waits' PROVE StatusInv'
  BY <1>0, <1>1 DEF StatusInv, Alone, At
<1>2. ASSUME UNCHANGED exec, cancelled => cancelled', vm' \in {vm, "exited"},
             proj'.state \in {proj.state, "cancelling"}
      PROVE  StatusInv'
  <2>1. Waits' => Waits
    BY <1>2 DEF Waits
  <2>2. Match => Match'
    BY <1>2 DEF Match
  <2>3. ASSUME NEW res, Told(res) PROVE Told(res)'
    BY <1>2, <2>2, <2>3, Zenon DEF Told
  <2>4. \A c \in Control : Settles(c) => Settles(c)'
    BY <1>0, <2>3 DEF Settles, Unsettled
  <2>5. \A c \in Control : Unsettled(c)' <=> Unsettled(c)
    BY <1>0 DEF Unsettled
  <2>6. exec' \in {"new", "starting", "attached"} => vm' # "halted"
    BY <1>2 DEF StatusInv
  <2>7. Serialised => Alone'
    BY <1>0, Zenon DEF StatusInv, Alone, At
  <2> QED
    BY <1>0, <2>1, <2>2, <2>4, <2>5, <2>6, <2>7 DEF StatusInv
<1>3. CASE VmExits \/ Orphaned \/ MonitorTermination \/ UNCHANGED vars
  BY <1>2, <1>3 DEF VmExits, Orphaned, MonitorTermination, vars
<1>4. CASE Cancel \/ Deadline
  BY <1>1, <1>4 DEF Cancel, Deadline, Waits, StatusInv
<1>5. ASSUME NEW out \in Outcomes, NEW known \in BOOLEAN, WaitFailed(known, out)
      PROVE  StatusInv'
  <2>1. PICK to \in {"none", "cancelling"} : Commit(Fact("wait_failed", {}, to), out)
    BY <1>5, OwnerCommits
  <2> DEFINE f == Fact("wait_failed", {}, to)
  <2>2. proj' \in {proj, Apply(proj, f)}
    BY <2>1, Zenon DEF Commit
  <2>3. Apply(proj, f).state \in {proj.state, Lifecycle(proj, "cancelling")}
    BY DEF Apply, Fact, TypeOK, Projections
  <2>4. proj'.state \in {proj.state, "cancelling"}
    BY <2>2, <2>3 DEF Lifecycle
  <2>5. UNCHANGED <<exec, vm>> /\ (cancelled => cancelled')
    BY <1>5, Zenon DEF WaitFailed
  <2> QED
    BY <1>2, <2>4, <2>5
<1>6. ASSUME NEW out \in Outcomes, Execute(out) PROVE StatusInv'
  <2>1. CASE Ready(out)
    <3> DEFINE f == Fact("lifecycle", {}, "running")
    <3>1. exec = "attached" /\ vm' # "halted" /\ exec' = "waiting" /\ Commit(f, out) /\ IsFact(f)
      BY <2>1, Zenon DEF Ready, StatusInv, Lifecycles, IsFact, OwnerFact
    <3>2. f.event # "finished" /\ proj.state \in {"created", "starting", "cancelling"}
      BY <3>1 DEF Fact, ExecInv
    <3>3. proj'.state # "suspended"
      BY <3>1, <3>2, CommitStatus DEF Succeeds
    <3>4. Match'
      BY <3>1, <3>3 DEF Match
    <3>5. \A c \in Control : At(c, "idle")
      BY <3>1, Zenon DEF ExecInv
    <3>6. Alone' /\ \A c \in Control : Settles(c)'
      BY <1>0, <3>5 DEF Alone, Settles, Unsettled, At
    <3> QED
      BY <3>1, <3>4, <3>6 DEF StatusInv
  <2>2. CASE NeverInvoked \/ StartupFails \/ Attach \/ Exited \/ Terminate \/ Detach
             \/ Starting(out) \/ Cancelling(out) \/ Finish(out)
    <3>1. exec' # "waiting"
      BY <2>2, Zenon DEF NeverInvoked, StartupFails, Attach, Exited, Terminate, Detach, Starting,
         Cancelling, Finish
    <3>2. exec' \in {"new", "starting", "attached"} => vm' # "halted"
      BY <2>2 DEF NeverInvoked, StartupFails, Attach, Exited, Terminate, Detach, Starting,
         Cancelling, Finish, StatusInv
    <3> QED
      BY <1>1, <3>1, <3>2 DEF Waits
  <2> QED
    BY <1>6, <2>1, <2>2 DEF Execute
<1> QED
  BY <1>3, <1>4, <1>5, <1>6, Zenon

\* Under a wait coordinator the published status is that of the vCPUs whenever no
\* control is between the runner and the record of its result (exchange,
\* perform_control): the coordinator's lock covers a control from its admission to the
\* record of its result or of its rejection.
THEOREM CoordinatedStatusHolds == Spec => []CoordinatedStatus
<1>1. Init => StatusInv
  <2> SUFFICES ASSUME Init PROVE StatusInv
    OBVIOUS
  <2>1. vm # "halted" /\ ~Waits /\ Alone
    BY Zenon DEF Init, Waits, Alone, At, Idle
  <2> QED
    BY <2>1, Zenon DEF StatusInv
<1>2. TypeOK /\ PendingInv /\ ExecInv /\ StatusInv /\ [Next]_<<setup, vars>> => StatusInv'
  <2> SUFFICES ASSUME TypeOK, PendingInv, ExecInv, StatusInv, [Next]_<<setup, vars>>
               PROVE  StatusInv'
    OBVIOUS
  <2>1. UNCHANGED setup
    BY DEF Next
  <2>2. CASE UNCHANGED <<setup, vars>>
    BY <2>2, StatusElsewhere
  <2> QED
    BY <2>1, <2>2, StatusEnqueue, StatusTask, StatusServe, StatusElsewhere DEF Next
<1>3. StatusInv => CoordinatedStatus
  BY DEF StatusInv, Waits, Match, CoordinatedStatus, StatusMatchesVm
<1> QED
  BY <1>1, <1>2, <1>3, TypeCorrect, PendingMatches, ExecutorOrder, PTL DEF Spec

-----------------------------------------------------------------------------
(* Controls and a cancelled Execution come to their end.                   *)

\* The fence is held by the control between Acquire and the end of its exchange, and
\* by nobody else.
Crossing == {"fenced", "dispatched", "sent", "replied"}
FenceInv ==
    /\ \A c \in Control : ctl[c].pc \in Crossing => fence = {c}
    /\ \A c \in fence : ctl[c].pc \in Crossing

\* The guards of Advance and of Execute, for some outcome of the append.
CanAdvance(c) == ~At(c, "idle") /\ (At(c, "queued") => fence = {})
CanExecute ==
    \/ exec \in {"new", "starting", "attached", "terminating", "overdue"} \cup Terminal
    \/ exec = "waiting" /\ vm \in {"exited", "suspended"}
    \/ exec = "waiting" /\ cancelled /\ vm \in {"running", "halted"}
    \/ exec \in {"exited", "reaped", "late"} /\ \A c \in Control : ~At(c, "sent")

\* An admitted control can go on, or waits for the fence and its holder can go on; a
\* cancelled Execution can go on, or waits in detach for an exchange, which has a
\* timeout.
Unblocked ==
    /\ \A c \in Control : ~At(c, "idle") => CanAdvance(c) \/ \E d \in fence : CanAdvance(d)
    /\ (cancelled /\ exec # "done") =>
         CanExecute \/ \E c \in Control : At(c, "sent") /\ CanAdvance(c)

\* How many steps a control, and the executor task, have before them at most.
TaskRank(pc) ==
    CASE pc = "queued" -> 7 [] pc = "fenced" -> 6 [] pc = "dispatched" -> 5
      [] pc = "sent" -> 4 [] pc = "replied" -> 3 [] pc = "failing" -> 2
      [] pc = "checking" -> 1 [] OTHER -> 0
ExecRank(e) ==
    CASE e = "new" -> 7 [] e = "starting" -> 6 [] e = "attached" -> 5 [] e = "waiting" -> 4
      [] e \in {"terminating", "overdue"} -> 3 [] e \in {"exited", "reaped", "late"} -> 2
      [] e \in Terminal -> 1 [] OTHER -> 0

\* Each of their own steps brings them nearer to the end, and no step of another
\* takes them back.
Nearer(c) == TaskRank(ctl'[c].pc) < TaskRank(ctl[c].pc)
ExecNearer == ExecRank(exec') < ExecRank(exec)
StepsCount ==
    /\ \A c \in Control :
         /\ (\E out \in Outcomes : Advance(c, out)) => Nearer(c)
         /\ ~At(c, "idle") => ctl'[c].pc = ctl[c].pc \/ Nearer(c)
    /\ (\E out \in Outcomes : Execute(out)) => ExecNearer
    /\ UNCHANGED exec \/ ExecNearer

\* Where each step of a control task leads, and what it does to the fence.
TaskStep(c, pc, pcn) ==
    \/ pc = "queued" /\ pcn = "fenced" /\ fence = {} /\ fence' = {c}
    \/ pc = "queued" /\ pcn = "failing" /\ UNCHANGED fence
    \/ pc = "fenced" /\ pcn = "dispatched" /\ UNCHANGED fence
    \/ pc = "dispatched" /\ pcn \in {"sent", "replied"} /\ UNCHANGED fence
    \/ pc = "sent" /\ pcn = "replied" /\ UNCHANGED fence
    \/ pc \in {"fenced", "dispatched", "sent"} /\ pcn = "failing" /\ fence' = {}
    \/ pc = "replied" /\ pcn \in {"failing", "checking", "idle"} /\ fence' = {}
    \/ pc = "failing" /\ pcn = "checking" /\ UNCHANGED fence
    \/ pc = "checking" /\ pcn = "idle" /\ UNCHANGED fence

\* Every step of a control task is one of these.
LEMMA TaskSteps ==
  ASSUME TypeOK, NEW c \in Control, NEW out, Advance(c, out)
  PROVE  TaskStep(c, ctl[c].pc, ctl'[c].pc)
<1>0. ctl \in [Control -> Tasks] /\ ctl[c].res \in Results
  BY Zenon DEF TypeOK, Tasks
<1>1. ASSUME NEW pc \in Pcs, NEW res \in Results, Goto(c, pc, res) PROVE ctl'[c].pc = pc
  BY <1>0, <1>1, GotoMoves, Zenon
<1>2. Ends(c) => ctl'[c].pc = "idle"
  BY <1>0, EndsMoves, Zenon
<1>3. /\ {"fenced", "dispatched", "sent", "replied", "failing", "checking"} \subseteq Pcs
      /\ {"none", "lost", "before", "captured"} \subseteq Results
  BY DEF Pcs, Results
<1>4. CASE Acquire(c)
  <2>1. /\ ctl[c].pc = "queued" /\ fence = {}
        /\ \/ fence' = {c} /\ Goto(c, "fenced", "none")
           \/ UNCHANGED fence /\ Goto(c, "failing", "lost")
    BY <1>4, ZenonT(60) DEF Acquire, At
  <2> QED
    BY <1>1, <1>3, <2>1, ZenonT(60) DEF TaskStep
<1>5. CASE Dispatch(c, out)
  <2>1. /\ ctl[c].pc = "fenced"
        /\ \/ UNCHANGED fence /\ Goto(c, "dispatched", "none")
           \/ fence' = {} /\ Goto(c, "failing", "lost")
    BY <1>5, ZenonT(60) DEF Dispatch, At
  <2> QED
    BY <1>1, <1>3, <2>1 DEF TaskStep
<1>6. CASE DispatchRefused(c)
  <2>1. ctl[c].pc = "fenced" /\ fence' = {} /\ Goto(c, "failing", "lost")
    BY <1>6, Zenon DEF DispatchRefused, At
  <2> QED
    BY <1>1, <1>3, <2>1 DEF TaskStep
<1>7. CASE Send(c)
  <2>1. ctl[c].pc = "dispatched" /\ UNCHANGED fence /\ Goto(c, "sent", "none")
    BY <1>7, ZenonT(60) DEF Send, At
  <2> QED
    BY <1>1, <1>3, <2>1 DEF TaskStep
<1>8. CASE SendRefused(c)
  <2>1. ctl[c].pc = "dispatched" /\ fence' = {} /\ Goto(c, "failing", "before")
    BY <1>8, ZenonT(60) DEF SendRefused, At
  <2> QED
    BY <1>1, <1>3, <2>1 DEF TaskStep
<1>9. CASE SendKnown(c)
  <2>1. ctl[c].pc = "dispatched" /\ UNCHANGED fence /\ Goto(c, "replied", "captured")
    BY <1>9, ZenonT(60) DEF SendKnown, At
  <2> QED
    BY <1>1, <1>3, <2>1 DEF TaskStep
<1>10. CASE Reply(c)
  <2>1. /\ ctl[c].pc = "sent"
        /\ \/ UNCHANGED fence /\ Goto(c, "replied", ctl[c].res)
           \/ fence' = {} /\ Goto(c, "failing", ctl[c].res)
    BY <1>10, ZenonT(60) DEF Reply, At
  <2> QED
    BY <1>0, <1>1, <1>3, <2>1 DEF TaskStep
<1>11. CASE Uncertain(c)
  <2>1. ctl[c].pc = "sent" /\ fence' = {} /\ Goto(c, "failing", "lost")
    BY <1>11, ZenonT(60) DEF Uncertain, At
  <2> QED
    BY <1>1, <1>3, <2>1 DEF TaskStep
<1>12. CASE Complete(c, out)
  <2>1. /\ ctl[c].pc = "replied" /\ fence' = {}
        /\ Goto(c, "failing", "lost") \/ Goto(c, "checking", "none") \/ Ends(c)
    BY <1>12, ZenonT(60) DEF Complete, At
  <2> QED
    BY <1>1, <1>2, <1>3, <2>1 DEF TaskStep
<1>13. CASE Fail(c, out)
  <2>1. ctl[c].pc = "failing" /\ UNCHANGED fence /\ Goto(c, "checking", "none")
    BY <1>13, ZenonT(60) DEF Fail, At
  <2> QED
    BY <1>1, <1>3, <2>1 DEF TaskStep
<1>14. CASE Check(c)
  <2>1. ctl[c].pc = "checking" /\ UNCHANGED fence /\ Ends(c)
    BY <1>14, Zenon DEF Check, At
  <2> QED
    BY <1>2, <2>1 DEF TaskStep
<1> QED
  BY <1>4, <1>5, <1>6, <1>7, <1>8, <1>9, <1>10, <1>11, <1>12, <1>13, <1>14, Zenon DEF Advance

\* Every step keeps the fence with the control inside it: a control gets it only when
\* it is free, and gives it back on every path that leaves the exchange.
LEMMA FenceNext == TypeOK /\ FenceInv /\ [Next]_<<setup, vars>> => FenceInv'
<1> SUFFICES ASSUME TypeOK, FenceInv, [Next]_<<setup, vars>> PROVE FenceInv'
  OBVIOUS
<1>0. ctl \in [Control -> Tasks] /\ fence \in SUBSET Control
  BY Zenon DEF TypeOK
<1>1. ASSUME \A c \in Control : ctl'[c].pc = ctl[c].pc, UNCHANGED fence PROVE FenceInv'
  BY <1>0, <1>1, Zenon DEF FenceInv
<1>2. ASSUME NEW c \in Control, NEW out \in Outcomes, Advance(c, out) PROVE FenceInv'
  <2>1. TaskStep(c, ctl[c].pc, ctl'[c].pc) /\ \A d \in Control \ {c} : ctl'[d].pc = ctl[d].pc
    BY <1>2, TaskSteps, TaskMoves, ZenonT(60)
  <2>2. CASE ctl[c].pc = "queued" /\ ctl'[c].pc = "fenced" /\ fence = {} /\ fence' = {c}
    BY <1>0, <2>1, <2>2, Zenon DEF FenceInv, Crossing
  <2>3. CASE ctl[c].pc \in Crossing /\ ctl'[c].pc \notin Crossing /\ fence' = {}
    BY <1>0, <2>1, <2>3, Zenon DEF FenceInv
  <2>4. CASE (ctl[c].pc \in Crossing <=> ctl'[c].pc \in Crossing) /\ UNCHANGED fence
    BY <1>0, <2>1, <2>4, Zenon DEF FenceInv
  <2> QED
    BY <2>1, <2>2, <2>3, <2>4 DEF TaskStep, Crossing
<1>3. ASSUME NEW c \in Control, NEW out \in Outcomes, NEW kind \in Requests,
             NEW origin \in Origins, Enqueue(c, kind, origin, out)
      PROVE  FenceInv'
  <2>1. /\ ctl[c].pc = "idle" /\ UNCHANGED fence
        /\ UNCHANGED ctl \/ ctl'[c].pc = "queued"
        /\ \A d \in Control \ {c} : ctl'[d].pc = ctl[d].pc
    BY <1>3, EnqueueMoves, Zenon DEF Enqueue, At
  <2> QED
    BY <1>0, <2>1 DEF FenceInv, Crossing
<1>4. ASSUME NEW c \in Control, Serve(c) PROVE FenceInv'
  <2>1. /\ ctl[c].pc = "sent" /\ ctl'[c].pc = "sent" /\ UNCHANGED fence
        /\ \A d \in Control \ {c} : ctl'[d].pc = ctl[d].pc
    BY <1>4, ServeMoves, Zenon DEF Serve, At
  <2> QED
    BY <1>1, <2>1
<1>5. ASSUME NEW out \in Outcomes, Execute(out) PROVE UNCHANGED <<ctl, fence>>
  BY <1>5, Zenon DEF Execute, NeverInvoked, Starting, StartupFails, Attach, Ready, Exited, Cancelling,
     Terminate, Detach, Finish
<1>6. CASE \/ VmExits \/ Orphaned \/ Deadline \/ Cancel \/ MonitorTermination
           \/ \E out \in Outcomes, known \in BOOLEAN : WaitFailed(known, out)
           \/ UNCHANGED <<setup, vars>>
  <2>1. UNCHANGED <<ctl, fence>>
    BY <1>6, Zenon DEF VmExits, Orphaned, Deadline, Cancel, MonitorTermination, WaitFailed, vars
  <2> QED
    BY <1>1, <2>1
<1> QED
  BY <1>1, <1>2, <1>3, <1>4, <1>5, <1>6 DEF Next

\* The transition fence is never leaked and never shared (perform_control): at most one
\* control is between its second ensure_live and the end of its exchange, it holds the
\* fence, and every way out, a refused dispatch, a lost reply or a rejection included,
\* gives it back.
THEOREM FenceNeverLeaks == Spec => []FenceInv
<1>1. Init => FenceInv
  BY DEF Init, FenceInv, Crossing, Idle
<1> QED
  BY <1>1, FenceNext, TypeCorrect, PTL DEF Spec

\* An executor task that waits for the runner has started one.
Started == exec \in {"attached", "waiting"} => vm # "none"

\* Every step keeps it: the runner's state is set in attach and never reset.
LEMMA StartedNext == TypeOK /\ Started /\ [Next]_<<setup, vars>> => Started'
<1> SUFFICES ASSUME TypeOK, Started, [Next]_<<setup, vars>> PROVE Started'
  OBVIOUS
<1>1. ASSUME UNCHANGED <<vm, exec>> PROVE Started'
  BY <1>1 DEF Started
<1>2. ASSUME NEW c \in Control, NEW out \in Outcomes,
             (\E kind \in Requests, origin \in Origins : Enqueue(c, kind, origin, out))
               \/ Advance(c, out)
      PROVE  Started'
  BY <1>1, <1>2, EnqueueMoves, TaskMoves, Zenon
<1>3. ASSUME NEW c \in Control, Serve(c) PROVE Started'
  <2>1. vm' \in {"running", "halted", "suspended"}
    BY <1>3, ServeMoves, Zenon
  <2> QED
    BY <2>1 DEF Started
<1>4. ASSUME NEW out \in Outcomes, Execute(out) PROVE Started'
  <2>1. CASE Attach
    BY <2>1 DEF Attach, Started
  <2>2. CASE Ready(out)
    BY <2>2 DEF Ready, Started
  <2>3. CASE NeverInvoked \/ Starting(out) \/ StartupFails \/ Exited \/ Cancelling(out)
             \/ Terminate \/ Detach \/ Finish(out)
    BY <2>3, Zenon DEF NeverInvoked, Starting, StartupFails, Exited, Cancelling, Terminate, Detach,
       Finish, Started
  <2> QED
    BY <1>4, <2>1, <2>2, <2>3, Zenon DEF Execute
<1>5. CASE VmExits \/ Orphaned \/ Deadline
  BY <1>5 DEF VmExits, Orphaned, Deadline, Started
<1>6. CASE \/ Cancel \/ MonitorTermination \/ UNCHANGED <<setup, vars>>
           \/ \E out \in Outcomes, known \in BOOLEAN : WaitFailed(known, out)
  <2>1. UNCHANGED <<vm, exec>>
    BY <1>6, Zenon DEF Cancel, MonitorTermination, WaitFailed, vars
  <2> QED
    BY <1>1, <2>1
<1> QED
  BY <1>2, <1>3, <1>4, <1>5, <1>6 DEF Next

\* Nothing waits for what cannot happen: an admitted control can take its next step or
\* waits for the fence, whose holder can; and a cancelled Execution that is not done can
\* take its next step or waits in detach for an exchange, which can end.  With
\* ControlsAdvance this is what ControlsEnd and CancellationCompletes rest on.
THEOREM ControlsNeverStuck == Spec => []Unblocked
<1>1. TypeOK /\ FenceInv /\ Started => Unblocked
  <2> SUFFICES ASSUME TypeOK, FenceInv, Started PROVE Unblocked
    OBVIOUS
  <2>1. ASSUME NEW c \in Control, ~At(c, "idle")
        PROVE  CanAdvance(c) \/ \E d \in fence : CanAdvance(d)
    <3>1. ASSUME NEW d \in fence PROVE CanAdvance(d)
      BY Zenon DEF FenceInv, CanAdvance, At, Crossing
    <3> QED
      BY <2>1, <3>1, Zenon DEF CanAdvance
  <2>2. ASSUME cancelled, exec # "done", ~CanExecute
        PROVE  \E c \in Control : At(c, "sent") /\ CanAdvance(c)
    <3>1. exec \in {"waiting", "exited", "reaped", "late"}
      BY <2>2, Zenon DEF TypeOK, CanExecute
    <3>2. exec # "waiting"
      BY <2>2 DEF TypeOK, CanExecute, Started
    <3>3. PICK c \in Control : At(c, "sent")
      BY <2>2, <3>1, <3>2 DEF CanExecute
    <3> QED
      BY <3>3, Zenon DEF CanAdvance, At
  <2> QED
    BY <2>1, <2>2 DEF Unblocked
<1>2. Init => Started
  BY Zenon DEF Init, Started
<1>3. Spec => []Started
  BY <1>2, StartedNext, TypeCorrect, PTL DEF Spec
<1> QED
  BY <1>1, <1>3, TypeCorrect, FenceNeverLeaks, PTL

\* A step of another task leaves a control where it is.
LEMMA OthersWait ==
  ASSUME TypeOK, Next, NEW c \in Control, ~At(c, "idle"),
         ~(\E out \in Outcomes : Advance(c, out))
  PROVE  ctl'[c].pc = ctl[c].pc
<1>1. ASSUME NEW d \in Control, NEW out \in Outcomes, NEW kind \in Requests,
             NEW origin \in Origins, Enqueue(d, kind, origin, out)
      PROVE  ctl'[c].pc = ctl[c].pc
  <2>1. c # d
    BY <1>1, Zenon DEF Enqueue, At
  <2> QED
    BY <1>1, <2>1, EnqueueMoves, Zenon
<1>2. ASSUME NEW d \in Control, NEW out \in Outcomes, Advance(d, out)
      PROVE  ctl'[c].pc = ctl[c].pc
  <2>1. c # d
    BY <1>2, Zenon
  <2> QED
    BY <1>2, <2>1, TaskMoves
<1>3. ASSUME NEW d \in Control, Serve(d) PROVE ctl'[c].pc = ctl[c].pc
  <2>1. /\ ctl[d].pc = "sent" /\ ctl'[d].pc = "sent"
        /\ \A e \in Control \ {d} : ctl'[e].pc = ctl[e].pc
    BY <1>3, ServeMoves, Zenon DEF Serve, At
  <2> QED
    BY <2>1
<1>4. ASSUME NEW out \in Outcomes, Execute(out) PROVE UNCHANGED ctl
  BY <1>4, Zenon DEF Execute, NeverInvoked, Starting, StartupFails, Attach, Ready, Exited, Cancelling,
     Terminate, Detach, Finish
<1>5. CASE \/ VmExits \/ Orphaned \/ Deadline \/ Cancel \/ MonitorTermination
           \/ \E out \in Outcomes, known \in BOOLEAN : WaitFailed(known, out)
  BY <1>5, Zenon DEF VmExits, Orphaned, Deadline, Cancel, MonitorTermination, WaitFailed
<1> QED
  BY <1>1, <1>2, <1>3, <1>4, <1>5 DEF Next

\* A step of the executor task takes it nearer to the end.
LEMMA ExecutorAdvances ==
  ASSUME TypeOK, NEW out, Execute(out)
  PROVE  ExecNearer
<1>1. CASE NeverInvoked \/ Starting(out) \/ StartupFails \/ Attach \/ Ready(out)
  BY <1>1 DEF NeverInvoked, Starting, StartupFails, Attach, Ready, ExecNearer, ExecRank, Terminal
<1>2. CASE Exited \/ Cancelling(out) \/ Terminate
  BY <1>2 DEF Exited, Cancelling, Terminate, ExecNearer, ExecRank, Terminal
<1>3. CASE Detach
  BY <1>3 DEF Detach, ExecNearer, ExecRank, Terminal
<1>4. CASE Finish(out)
  BY <1>4 DEF Finish, ExecNearer, ExecRank, Terminal
<1> QED
  BY <1>1, <1>2, <1>3, <1>4, Zenon DEF Execute

\* Each step of a control task and of the executor task brings it nearer to its end,
\* and no step of another, a cancellation, a late answer or a dead runner included,
\* takes it back: a control ends after at most seven steps of its own and the
\* executor task after at most seven (perform_control, control_error, complete).
THEOREM ControlsAdvance == Spec => [][StepsCount]_vars
<1>1. ASSUME TypeOK, NEW c \in Control, NEW out \in Outcomes, Advance(c, out)
      PROVE  Nearer(c)
  BY <1>1, TaskSteps DEF TaskStep, Nearer, TaskRank
<1>2. TypeOK /\ [Next]_<<setup, vars>> => [StepsCount]_vars
  <2> SUFFICES ASSUME TypeOK, Next PROVE StepsCount
    BY DEF vars
  <2>1. ASSUME NEW c \in Control, ~At(c, "idle") PROVE ctl'[c].pc = ctl[c].pc \/ Nearer(c)
    BY <1>1, <2>1, OthersWait, Zenon
  <2>2. UNCHANGED exec \/ ExecNearer
    <3>1. CASE \E out \in Outcomes : Execute(out)
      BY <3>1, ExecutorAdvances, Zenon
    <3>2. CASE Deadline
      BY <3>2 DEF Deadline, ExecNearer, ExecRank, Terminal
    <3>3. ASSUME NEW c \in Control, NEW out \in Outcomes,
                 (\E kind \in Requests, origin \in Origins : Enqueue(c, kind, origin, out))
                   \/ Advance(c, out)
          PROVE  UNCHANGED exec
      BY <3>3, EnqueueMoves, TaskMoves, Zenon
    <3>4. CASE \/ VmExits \/ Orphaned \/ Cancel \/ MonitorTermination
               \/ \E c \in Control : Serve(c)
               \/ \E out \in Outcomes, known \in BOOLEAN : WaitFailed(known, out)
      BY <3>4, Zenon DEF VmExits, Orphaned, Cancel, MonitorTermination, Serve, WaitFailed
    <3> QED
      BY <3>1, <3>2, <3>3, <3>4 DEF Next
  <2> QED
    BY <1>1, <2>1, <2>2, ExecutorAdvances, Zenon DEF StepsCount
<1> QED
  BY <1>2, TypeCorrect, PTL DEF Spec

=============================================================================
