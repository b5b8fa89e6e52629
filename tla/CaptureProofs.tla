---------------------------- MODULE CaptureProofs ----------------------------
(***************************************************************************)
(* Proofs about CaptureQueue: what a flush and a shutdown report, and that *)
(* nobody waits for a reply, a receipt or a place that cannot come.        *)
(*                                                                         *)
(* The argument follows the order of the queues.  Every event that was     *)
(* submitted is applied, is held by one queue or its worker, or has left a *)
(* failure behind.  The Flush task of a queue stands behind the events     *)
(* held there when the barrier began, so a queue that has answered holds   *)
(* none of them; after the last answer of a shutdown the queues hold       *)
(* nothing, and stopping the workers loses nothing.  Whoever waits is owed *)
(* an answer by a worker, and the waits end with the main story's worker.  *)
(***************************************************************************)
EXTENDS CaptureQueue, Integers, TLAPS

\* Task t is in queue q, and task u is in q behind task t.
Has(q, t) == \E i \in 1..Len(q) : q[i] = t
Follows(q, t, u) == \E i, j \in 1..Len(q) : i < j /\ q[i] = t /\ q[j] = u

Active == {"prepare", "link", "reserve", "reserved", "receipt"}

Tasks == [kind : {"capture"}, of : Event] \cup [kind : {"record", "flush", "stop"}, of : Story]
Rejects == [kind : {"event"}, of : Event] \cup {Task("marker", Main)}
Workers ==
    [pc : {"none", "recv", "command", "release", "exited"} \cup Active,
     task : Tasks \cup {NoTask}, left : Int, gap : BOOLEAN]
Calls ==
    [pc : {"new", "returned", "refused", "reserve", "reserved", "await", "acked", "failed",
           "abandoned"},
     story : Story]
Barriers ==
    [pc : {"none", "begin", "flush", "sent", "seal", "stop", "drain", "done"},
     kind : {"flush", "shutdown"}, left : SUBSET Story, ok : BOOLEAN, before : SUBSET Event]

TypeOK ==
    /\ accepting \in BOOLEAN /\ stopped \in BOOLEAN /\ failure \in BOOLEAN
    /\ queues \in SUBSET Story
    /\ chan \in [Story -> Seq(Tasks)]
    /\ worker \in [Story -> Workers]
    /\ call \in [Event -> Calls]
    /\ barrier \in Barriers
    /\ rejected \in Seq(Rejects)
    /\ lost \in BOOLEAN

\* The worker of s applies event e; the queue of s or its worker holds e; the worker
\* of s answers the barrier, or handles a link record of story c.
Capturing(s, e) == worker[s].task = Task("capture", e) /\ worker[s].pc \in Active
Held(s, e) == Has(chan[s], Task("capture", e)) \/ Capturing(s, e)
Flushing(s) == At(s, "command") /\ worker[s].task = Task("flush", s)
Linking(s, c) == At(s, "command") /\ worker[s].task = Task("record", c)

\* What a worker does fits its task, and only a subagent's worker waits for the main
\* story, whose queue is there as long as the queues are open.
WorkerInv(s) ==
    /\ worker[s].pc \in Active => worker[s].task.kind = "capture"
    /\ worker[s].pc = "command" =>
           Flushing(s) \/ \E c \in Story : Linking(s, c)
    /\ worker[s].pc \in {"reserve", "reserved", "receipt"} => s # Main
    /\ worker[s].pc \in {"reserve", "reserved"} /\ ~stopped => Main \in queues

\* A link record is on its way once, to the main story, while its sender waits.
RecordInv(s, c) ==
    /\ Has(chan[s], Task("record", c)) =>
           /\ s = Main /\ At(c, "receipt") /\ ~Linking(s, c)
           /\ ~Follows(chan[s], Task("record", c), Task("record", c))
    /\ Linking(s, c) => s = Main /\ At(c, "receipt")

\* The barrier's task is in the queue of s, or its worker is answering it.
Signal(s) ==
    Has(chan[s], Task("flush", s)) \/ Has(chan[s], Task("stop", s)) \/ Flushing(s)

\* The barrier has one task on its way, Flush before the queues close, Stop after.
SignalInv(s) ==
    /\ \A k \in {"flush", "stop"} : \A t \in Story : Has(chan[s], Task(k, t)) => t = s
    /\ Signal(s) =>
           /\ BarrierAt("sent") /\ s \in barrier.left
           /\ \A t \in Story : Signal(t) => t = s
    /\ Has(chan[s], Task("flush", s)) =>
           /\ ~stopped /\ ~Flushing(s)
           /\ ~Follows(chan[s], Task("flush", s), Task("flush", s))
    /\ Has(chan[s], Task("stop", s)) =>
           stopped /\ ~Follows(chan[s], Task("stop", s), Task("stop", s))
    /\ Flushing(s) => ~stopped

\* The events the barrier waits for: no event is admitted once a shutdown began.
Guarded(e) == e \in barrier.before \/ barrier.kind = "shutdown"

\* A guarded event is held only where the barrier has still to hear from, ahead of
\* its Flush task.
HeldInv(s, e) ==
    Held(s, e) =>
        /\ s \in queues
        /\ Guarded(e) =>
               /\ barrier.pc \in {"begin", "flush", "sent"}
               /\ barrier.pc # "begin" => s \in barrier.left
               /\ ~Follows(chan[s], Task("flush", s), Task("capture", e))
               /\ Flushing(s) => ~Has(chan[s], Task("capture", e))

\* The stages of a barrier, and what is closed in each.
StageInv ==
    /\ barrier.kind = "shutdown" => ~accepting
    /\ stopped => ~accepting /\ queues = {}
    /\ barrier.pc \in {"seal", "stop", "drain"} => barrier.kind = "shutdown"
    /\ barrier.pc \in {"stop", "drain"} => stopped
    /\ BarrierAt("flush") /\ stopped => barrier.left = {}
    /\ barrier.pc \in {"flush", "sent"} /\ ~stopped => barrier.left \subseteq queues
    /\ BarrierAt("sent") /\ stopped => barrier.kind = "shutdown"
    /\ BarrierAt("done") /\ barrier.kind = "shutdown" => stopped
    /\ accepting => \A e \in Event : call[e].pc \in {"reserve", "reserved"} => call[e].story \in queues

\* A story without a queue has an empty channel and no running worker, except one
\* that is being stopped.
IdleInv(s) ==
    \/ s \in queues
    \/ stopped /\ barrier.pc \in {"stop", "sent"} /\ s \in barrier.left
    \/ chan[s] = <<>> /\ worker[s].pc \in {"none", "exited"}

\* Where an event is whose submission has returned.
EventInv(e) ==
    /\ CallAt(e, "returned") => e \in applied \/ failure \/ \E s \in Story : Held(s, e)
    /\ CallAt(e, "acked") => e \in applied

\* The barrier's answer so far.
AnswerInv ==
    /\ barrier.before \subseteq Submitted
    /\ \/ barrier.pc \in {"seal", "stop", "drain", "done"}
       \/ BarrierAt("sent") /\ stopped
       => (barrier.ok => barrier.before \subseteq applied)

Marker == Task("marker", Main)

\* The marker of a shutdown stands behind every event rejected before it.
RejectInv ==
    /\ Has(rejected, Marker) =>
           /\ BarrierAt("drain") /\ ~Follows(rejected, Marker, Marker)
           /\ \A e \in barrier.before : ~Follows(rejected, Marker, Task("event", e))
    /\ BarrierAt("done") /\ barrier.kind = "shutdown" =>
           \A e \in barrier.before : ~Has(rejected, Task("event", e))

IInv ==
    /\ TypeOK
    /\ \A s \in Story : WorkerInv(s) /\ SignalInv(s) /\ IdleInv(s)
    /\ \A s, c \in Story : RecordInv(s, c)
    /\ \A s \in Story, e \in Event : HeldInv(s, e)
    /\ \A e \in Event : EventInv(e)
    /\ StageInv /\ AnswerInv /\ RejectInv

-----------------------------------------------------------------------------
(* Queues.                                                                  *)

\* A task that is appended stands behind every other one.
LEMMA AppendTask ==
  ASSUME NEW T, NEW q \in Seq(T), NEW t \in T
  PROVE  /\ \A u : Has(Append(q, t), u) <=> Has(q, u) \/ u = t
         /\ \A u, v : Follows(Append(q, t), u, v) <=> Follows(q, u, v) \/ (Has(q, u) /\ v = t)
<1> DEFINE a == Append(q, t)
<1>1. /\ Len(a) = Len(q) + 1 /\ Len(q) \in Nat /\ a[Len(q) + 1] = t
      /\ \A i \in 1..Len(q) : a[i] = q[i]
  OBVIOUS
<1> HIDE DEF a
<1>2. \A u : Has(a, u) <=> Has(q, u) \/ u = t
  <2>1. ASSUME NEW u, Has(a, u) PROVE Has(q, u) \/ u = t
    BY <1>1, <2>1 DEF Has
  <2>2. ASSUME NEW u, Has(q, u) \/ u = t PROVE Has(a, u)
    BY <1>1, <2>2 DEF Has
  <2> QED
    BY <2>1, <2>2
<1>3. \A u, v : Follows(a, u, v) <=> Follows(q, u, v) \/ (Has(q, u) /\ v = t)
  <2>1. ASSUME NEW u, NEW v, Follows(a, u, v) PROVE Follows(q, u, v) \/ (Has(q, u) /\ v = t)
    BY <1>1, <2>1 DEF Follows, Has
  <2>2. ASSUME NEW u, NEW v, Follows(q, u, v) PROVE Follows(a, u, v)
    BY <1>1, <2>2 DEF Follows
  <2>3. ASSUME NEW u, Has(q, u) PROVE Follows(a, u, t)
    <3>1. PICK i \in 1..Len(q) : q[i] = u
      BY <2>3 DEF Has
    <3>2. /\ i \in 1..Len(a) /\ Len(q) + 1 \in 1..Len(a) /\ i < Len(q) + 1 /\ a[i] = u
      BY <1>1, <3>1
    <3> QED
      BY <1>1, <3>2 DEF Follows
  <2> QED
    BY <2>1, <2>2, <2>3
<1> QED
  BY <1>2, <1>3 DEF a

\* The task that is received stood ahead of every other one.
LEMMA TakeTask ==
  ASSUME NEW T, NEW q \in Seq(T), q # <<>>
  PROVE  /\ Head(q) \in T /\ Tail(q) \in Seq(T) /\ Has(q, Head(q))
         /\ \A u : Has(q, u) <=> Has(Tail(q), u) \/ u = Head(q)
         /\ \A u : Has(Tail(q), u) => Follows(q, Head(q), u)
         /\ \A u, v : Follows(Tail(q), u, v) => Follows(q, u, v)
<1> DEFINE r == Tail(q)
<1>1. /\ Head(q) \in T /\ r \in Seq(T) /\ Len(q) \in Nat /\ Len(q) # 0 /\ Head(q) = q[1]
      /\ Len(r) = Len(q) - 1 /\ \A i \in 1..Len(r) : r[i] = q[i + 1]
  OBVIOUS
<1> HIDE DEF r
<1>2. Has(q, Head(q))
  BY <1>1 DEF Has
<1>3. \A u : Has(r, u) => Follows(q, Head(q), u) /\ Has(q, u)
  <2> SUFFICES ASSUME NEW u, Has(r, u) PROVE Follows(q, Head(q), u) /\ Has(q, u)
    OBVIOUS
  <2>1. PICK i \in 1..Len(r) : r[i] = u
    BY DEF Has
  <2>2. 1 \in 1..Len(q) /\ i + 1 \in 1..Len(q) /\ 1 < i + 1 /\ q[i + 1] = u
    BY <1>1, <2>1
  <2> QED
    BY <1>1, <2>2 DEF Follows, Has
<1>4. \A u : Has(q, u) => Has(r, u) \/ u = Head(q)
  <2> SUFFICES ASSUME NEW u, Has(q, u), u # Head(q) PROVE Has(r, u)
    OBVIOUS
  <2>1. PICK i \in 1..Len(q) : q[i] = u
    BY DEF Has
  <2>2. i - 1 \in 1..Len(r) /\ r[i - 1] = u
    BY <1>1, <2>1
  <2> QED
    BY <2>2 DEF Has
<1>5. \A u, v : Follows(r, u, v) => Follows(q, u, v)
  <2> SUFFICES ASSUME NEW u, NEW v, Follows(r, u, v) PROVE Follows(q, u, v)
    OBVIOUS
  <2>1. PICK i, j \in 1..Len(r) : i < j /\ r[i] = u /\ r[j] = v
    BY DEF Follows
  <2>2. i + 1 \in 1..Len(q) /\ j + 1 \in 1..Len(q) /\ i + 1 < j + 1 /\ q[i + 1] = u /\ q[j + 1] = v
    BY <1>1, <2>1
  <2> QED
    BY <2>2 DEF Follows
<1> QED
  BY <1>1, <1>2, <1>3, <1>4, <1>5 DEF r

\* An empty queue has no task.
LEMMA EmptyQueue == \A u, v : ~Has(<<>>, u) /\ ~Follows(<<>>, u, v)
  BY DEF Has, Follows

\* A task is what its kind and its target say.
LEMMA TaskParts ==
  /\ \A t \in Tasks : t = Task(t.kind, t.of)
  /\ \A t \in Tasks : \/ t.kind = "capture" /\ t.of \in Event
                      \/ t.kind \in {"record", "flush", "stop"} /\ t.of \in Story
  /\ \A e \in Event : Task("capture", e) \in Tasks
  /\ \A s \in Story : /\ Task("record", s) \in Tasks /\ Task("flush", s) \in Tasks
                      /\ Task("stop", s) \in Tasks
  /\ \A k, l, a, b : Task(k, a) = Task(l, b) <=> k = l /\ a = b
  /\ \A k, a : Task(k, a).kind = k /\ Task(k, a).of = a
  /\ Main \in Story
BY DEF Tasks, Task, Story

-----------------------------------------------------------------------------
(* What a step of one worker changes.                                       *)

WorkerPcs == {"none", "recv", "command", "release", "exited"} \cup Active

\* The workers stay typed, and all but s stand still.
OneWorker(s) ==
    worker' \in [Story -> Workers] /\ \A t \in Story \ {s} : worker'[t] = worker[t]

\* A worker moves on with the same task.
LEMMA WorkerMoves ==
  ASSUME TypeOK, NEW s \in Story, NEW pc \in WorkerPcs, worker' = [worker EXCEPT ![s].pc = pc]
  PROVE  OneWorker(s) /\ worker'[s].pc = pc /\ worker'[s].task = worker[s].task
<1>1. worker \in [Story -> Workers]
  BY DEF TypeOK
<1>2. worker[s] \in Workers
  BY <1>1
<1> QED
  BY <1>1, <1>2 DEF OneWorker, Workers, WorkerPcs

\* A worker is set.
LEMMA WorkerSet ==
  ASSUME TypeOK, NEW s \in Story, NEW w \in Workers, worker' = [worker EXCEPT ![s] = w]
  PROVE  OneWorker(s) /\ worker'[s] = w
  BY DEF TypeOK, OneWorker

\* A worker whose link record has an answer, or none, goes back to its links.
LEMMA Answered ==
  ASSUME NEW w \in Workers, NEW ok \in BOOLEAN
  PROVE  /\ Gap(w) \in Workers /\ Gap(w).pc = "link" /\ Gap(w).task = w.task
         /\ Receipt(w, ok) \in Workers /\ Receipt(w, ok).pc = "link"
         /\ Receipt(w, ok).task = w.task
<1>1. w.left - 1 \in Int
  BY DEF Workers
<1>2. (w.gap \/ ~ok) \in BOOLEAN
  BY DEF Workers
<1> DEFINE n == w.left - 1
           g == (w.gap \/ ~ok)
<1>3. /\ Gap(w) = [w EXCEPT !.pc = "link", !.left = n, !.gap = TRUE]
      /\ Receipt(w, ok) = [w EXCEPT !.pc = "link", !.left = n, !.gap = g]
  BY DEF Gap, Receipt
<1>5. w.task \in Tasks \cup {NoTask} /\ "link" \in WorkerPcs
  BY DEF Workers, WorkerPcs, Active
<1> QED
  <2> n \in Int /\ g \in BOOLEAN
    BY <1>1, <1>2
  <2> HIDE DEF n, g
  <2> QED
    BY <1>3, <1>5, Zenon DEF Workers, WorkerPcs

\* A new worker, and one that has ended.
LEMMA NewWorkers ==
  /\ Waiting \in Workers /\ Waiting.pc = "recv" /\ NoWorker \in Workers
  /\ NoWorker.pc = "none" /\ [Waiting EXCEPT !.pc = "exited"] \in Workers
  /\ [Waiting EXCEPT !.pc = "exited"].pc = "exited"
<1>1. NoWorker \in Workers
  <2>1. NoTask \in Tasks \cup {NoTask} /\ 0 \in Int /\ FALSE \in BOOLEAN /\ "none" \in WorkerPcs
    BY DEF WorkerPcs
  <2> QED
    BY <2>1, Zenon DEF NoWorker, Workers, WorkerPcs
<1>2. NoWorker.pc = "none"
  BY Zenon DEF NoWorker
<1>3. ASSUME NEW w \in Workers, NEW pc \in WorkerPcs
      PROVE  [w EXCEPT !.pc = pc] \in Workers /\ [w EXCEPT !.pc = pc].pc = pc
  BY <1>3 DEF Workers, WorkerPcs
<1>4. "recv" \in WorkerPcs /\ "exited" \in WorkerPcs
  BY DEF WorkerPcs
<1>5. Waiting \in Workers /\ Waiting.pc = "recv"
  BY <1>1, <1>3, <1>4, Zenon DEF Waiting
<1> QED
  BY <1>1, <1>2, <1>3, <1>4, <1>5, Zenon

\* The caller of one event moves on.
LEMMA CallMoves ==
  ASSUME TypeOK, NEW e \in Event, NEW pc \in {"returned", "reserved", "await", "acked", "failed",
                                              "abandoned"},
         CallGoto(e, pc)
  PROVE  /\ call' \in [Event -> Calls] /\ call'[e].pc = pc /\ call'[e].story = call[e].story
         /\ \A f \in Event \ {e} : call'[f] = call[f]
<1>1. call \in [Event -> Calls]
  BY DEF TypeOK
<1>2. call[e] \in Calls
  BY <1>1
<1> QED
  BY <1>1, <1>2 DEF CallGoto, Calls

\* What is seen of the workers: who waits for a receipt, what they answer and
\* handle, and no event that was not there before.
SameViews ==
    \A s \in Story :
        /\ \A e \in Event : Capturing(s, e)' => Capturing(s, e)
        /\ \A c \in Story : Linking(s, c)' <=> Linking(s, c)
        /\ Flushing(s)' <=> Flushing(s)
        /\ At(s, "receipt")' <=> At(s, "receipt")

\* The state of a worker that is seen in none of these ways.
Unseen(s) == ~Flushing(s) /\ ~At(s, "receipt") /\ \A c \in Story : ~Linking(s, c)

\* A worker that is not seen before or after a step, and has no event it had not.
Aside(s) == Unseen(s) /\ Unseen(s)' /\ \A e \in Event : Capturing(s, e)' => Capturing(s, e)

\* The states of a worker that are not seen.
LEMMA UnseenPcs ==
  ASSUME NEW s \in Story
  PROVE  /\ worker[s].pc \notin {"command", "receipt"} => Unseen(s)
         /\ worker'[s].pc \notin {"command", "receipt"} => Unseen(s)'
  BY Zenon DEF Unseen, Flushing, Linking, At

\* The barrier and the gates stand still.
Calm ==
    /\ UNCHANGED <<barrier, stopped, accepting>>
    /\ queues \subseteq queues' /\ (stopped => queues' = queues)
    /\ applied \subseteq applied'
    /\ \A e \in Event : /\ call[e].pc \in {"returned", "acked"} =>
                               call'[e].pc \in {"returned", "acked"}
                        /\ accepting /\ call'[e].pc \in {"reserve", "reserved"} =>
                               call'[e].story \in queues'

-----------------------------------------------------------------------------
(* Producers.                                                               *)

\* Task t stands behind every other task of the channel of s.
Arrives(s, t) ==
    /\ chan' \in [Story -> Seq(Tasks)] /\ \A r \in Story \ {s} : chan'[r] = chan[r]
    /\ \A r \in Story : \A u : Has(chan'[r], u) <=> Has(chan[r], u) \/ (r = s /\ u = t)
    /\ \A r \in Story : \A u, v :
           Follows(chan'[r], u, v) <=>
               Follows(chan[r], u, v) \/ (r = s /\ Has(chan[s], u) /\ v = t)

\* A task is sent to the channel of s.
LEMMA Sends ==
  ASSUME TypeOK, NEW s \in Story, NEW t \in Tasks, chan' = [chan EXCEPT ![s] = Append(@, t)]
  PROVE  Arrives(s, t)
<1>1. chan \in [Story -> Seq(Tasks)] /\ chan[s] \in Seq(Tasks)
  BY DEF TypeOK
<1>2. /\ chan' \in [Story -> Seq(Tasks)] /\ chan'[s] = Append(chan[s], t)
      /\ \A r \in Story \ {s} : chan'[r] = chan[r]
  BY <1>1
<1>3. /\ \A u : Has(chan'[s], u) <=> Has(chan[s], u) \/ u = t
      /\ \A u, v : Follows(chan'[s], u, v) <=> Follows(chan[s], u, v) \/ (Has(chan[s], u) /\ v = t)
  <2> DEFINE q == chan[s]
  <2>1. q \in Seq(Tasks) /\ chan'[s] = Append(q, t)
    BY <1>1, <1>2
  <2> HIDE DEF q
  <2>2. /\ \A u : Has(Append(q, t), u) <=> Has(q, u) \/ u = t
        /\ \A u, v : Follows(Append(q, t), u, v) <=> Follows(q, u, v) \/ (Has(q, u) /\ v = t)
    BY <2>1, AppendTask
  <2> QED
    BY <2>1, <2>2, Zenon DEF q
<1> QED
  BY <1>2, <1>3, Zenon DEF Arrives

-----------------------------------------------------------------------------
(* Workers.                                                                 *)

\* A worker has no event and is seen by nobody when its story has no queue.
LEMMA NoQueue ==
  ASSUME IInv, NEW s \in Story, s \notin queues, ~stopped
  PROVE  Unseen(s) /\ chan[s] = <<>> /\ \A e \in Event : ~Capturing(s, e)
<1>1. chan[s] = <<>> /\ worker[s].pc \in {"none", "exited"}
  BY Zenon DEF IInv, IdleInv
<1> QED
  BY <1>1, UnseenPcs DEF Capturing, Active

\* The capture a worker applies.
LEMMA CaptureOf ==
  ASSUME IInv, NEW s \in Story, worker[s].pc \in Active
  PROVE  /\ worker[s].task.of \in Event /\ worker[s].task = Task("capture", worker[s].task.of)
         /\ Capturing(s, worker[s].task.of) /\ s \in queues
<1>1. worker[s].task.kind = "capture" /\ worker[s] \in Workers
  BY Zenon DEF IInv, WorkerInv, TypeOK
<1>2. worker[s].task \in Tasks
  BY <1>1 DEF Workers, NoTask, Task
<1>3. worker[s].task.of \in Event /\ worker[s].task = Task("capture", worker[s].task.of)
  BY <1>1, <1>2, TaskParts
<1> QED
  BY <1>3, Zenon DEF IInv, HeldInv, Held, Capturing

\* The first task leaves the channel of s.
LEMMA Receives ==
  ASSUME TypeOK, NEW s \in Story, chan[s] # <<>>, chan' = [chan EXCEPT ![s] = Tail(@)]
  PROVE  /\ chan' \in [Story -> Seq(Tasks)] /\ \A r \in Story \ {s} : chan'[r] = chan[r]
         /\ Head(chan[s]) \in Tasks /\ Has(chan[s], Head(chan[s]))
         /\ \A r \in Story : \A u : Has(chan'[r], u) => Has(chan[r], u)
         /\ \A u : Has(chan[s], u) => Has(chan'[s], u) \/ u = Head(chan[s])
         /\ \A u : Has(chan'[s], u) => Follows(chan[s], Head(chan[s]), u)
         /\ \A r \in Story : \A u, v : Follows(chan'[r], u, v) => Follows(chan[r], u, v)
<1> DEFINE q == chan[s]
<1>1. chan \in [Story -> Seq(Tasks)] /\ q \in Seq(Tasks) /\ q # <<>>
  BY DEF TypeOK
<1>2. chan'[s] = Tail(q) /\ \A r \in Story \ {s} : chan'[r] = chan[r]
  BY <1>1
<1> HIDE DEF q
<1>3. /\ Head(q) \in Tasks /\ Tail(q) \in Seq(Tasks) /\ Has(q, Head(q))
      /\ \A u : Has(q, u) <=> Has(Tail(q), u) \/ u = Head(q)
      /\ \A u : Has(Tail(q), u) => Follows(q, Head(q), u)
      /\ \A u, v : Follows(Tail(q), u, v) => Follows(q, u, v)
  BY <1>1, TakeTask
<1>4. chan' \in [Story -> Seq(Tasks)]
  BY <1>1, <1>3 DEF q
<1> QED
  BY <1>2, <1>3, <1>4, Zenon DEF q

BarrierPcs == {"none", "begin", "flush", "sent", "seal", "stop", "drain", "done"}

\* The barrier after a step: its kind and the events it waits for stand.
BarrierNow(pc, left, ok) ==
    /\ barrier' \in Barriers /\ barrier'.pc = pc /\ barrier'.left = left /\ barrier'.ok = ok
    /\ barrier'.kind = barrier.kind /\ barrier'.before = barrier.before

\* The barrier moves on, hears from a queue, or takes in a result.
LEMMA BarrierMoves ==
  ASSUME TypeOK, NEW pc \in BarrierPcs, NEW left \in SUBSET Story, NEW ok \in BOOLEAN
  PROVE  /\ barrier' = [barrier EXCEPT !.pc = pc] => BarrierNow(pc, barrier.left, barrier.ok)
         /\ barrier' = [barrier EXCEPT !.pc = pc, !.left = left] => BarrierNow(pc, left, barrier.ok)
         /\ barrier' = [barrier EXCEPT !.pc = pc, !.ok = ok] => BarrierNow(pc, barrier.left, ok)
         /\ barrier' = [barrier EXCEPT !.ok = ok, !.pc = pc] => BarrierNow(pc, barrier.left, ok)
         /\ barrier' = [barrier EXCEPT !.pc = pc, !.left = left, !.ok = ok] =>
                BarrierNow(pc, left, ok)
<1>1. barrier \in Barriers
  BY DEF TypeOK
<1> QED
  BY <1>1, ZenonT(60) DEF Barriers, BarrierPcs, BarrierNow

\* Once the queues are closed no worker applies a capture or waits for a receipt.
LEMMA Drained ==
  ASSUME IInv, stopped
  PROVE  /\ \A t \in Story, e \in Event : ~Held(t, e)
         /\ \A t \in Story : worker[t].pc \notin Active
         /\ \A t, c \in Story : ~Has(chan[t], Task("record", c)) /\ ~Linking(t, c)
<1>1. \A t \in Story, e \in Event : ~Held(t, e)
  BY Zenon DEF IInv, HeldInv, StageInv
<1>2. \A t \in Story : worker[t].pc \notin Active
  BY <1>1, CaptureOf, Zenon DEF Held
<1> QED
  BY <1>1, <1>2, Zenon DEF IInv, RecordInv, At, Active

\* Stop: nothing is left behind the Stop task that anyone waits for, so that only the
\* worker and its channel change.
LEMMA StopWorkerStep ==
  ASSUME IInv, NEW s \in Story, StopWorker(s)
  PROVE  /\ stopped /\ barrier.pc = "sent" /\ \A t \in Story : Signal(t) => t = s
         /\ failure' = failure /\ call' = call
         /\ UNCHANGED <<accepting, stopped, queues, rejected, lost, applied>>
         /\ OneWorker(s) /\ worker'[s] = [Waiting EXCEPT !.pc = "exited"]
         /\ BarrierNow("stop", barrier.left \ {s}, barrier.ok)
         /\ chan' \in [Story -> Seq(Tasks)] /\ chan'[s] = <<>>
         /\ \A t \in Story \ {s} : chan'[t] = chan[t]
<1> DEFINE q == chan[s]
           rest == {Tail(chan[s])[i] : i \in DOMAIN Tail(chan[s])}
<1>1. /\ TypeOK /\ SignalInv(s) /\ worker[s].pc = "recv" /\ q # <<>> /\ Head(q).kind = "stop"
      /\ chan' = [chan EXCEPT ![s] = <<>>]
      /\ worker' = [c \in Story |->
           IF c = s THEN [Waiting EXCEPT !.pc = "exited"]
           ELSE IF Task("record", c) \in rest THEN Gap(worker[c]) ELSE worker[c]]
      /\ call' = [e \in Event |->
           IF Task("capture", e) \in rest /\ CallAt(e, "await")
           THEN [call[e] EXCEPT !.pc = "failed"] ELSE call[e]]
      /\ failure' = (failure \/ \E t \in rest : t.kind = "record")
      /\ barrier' = [barrier EXCEPT !.pc = "stop", !.left = @ \ {s}]
      /\ UNCHANGED <<accepting, stopped, queues, rejected, lost, applied>>
  BY Zenon DEF IInv, StopWorker, At
<1>2. /\ q \in Seq(Tasks) /\ Head(q) \in Tasks /\ Has(q, Head(q))
      /\ \A t \in rest : t \in Tasks /\ Has(q, t)
  <2>1. q \in Seq(Tasks)
    BY <1>1 DEF TypeOK
  <2> HIDE DEF q
  <2>2. /\ Head(q) \in Tasks /\ Tail(q) \in Seq(Tasks) /\ Has(q, Head(q))
        /\ \A u : Has(Tail(q), u) => Has(q, u)
    BY <1>1, <2>1, TakeTask
  <2>3. \A i \in DOMAIN Tail(q) : Tail(q)[i] \in Tasks /\ Has(Tail(q), Tail(q)[i])
    BY <2>2 DEF Has
  <2> QED
    BY <2>1, <2>2, <2>3 DEF q
<1>3. Has(chan[s], Task("stop", s))
  <2>1. Head(q) = Task("stop", Head(q).of) /\ Head(q).of \in Story
    BY <1>1, <1>2, TaskParts
  <2> QED
    BY <1>1, <1>2, <2>1, Zenon DEF SignalInv
<1>4. /\ stopped /\ barrier.pc = "sent" /\ s \in barrier.left
      /\ \A t \in Story : Signal(t) => t = s
  BY <1>1, <1>3, Zenon DEF SignalInv, Signal, BarrierAt
<1>5. /\ \A t \in Story, e \in Event : ~Held(t, e)
      /\ \A t \in Story : worker[t].pc \notin Active
      /\ \A t, c \in Story : ~Has(chan[t], Task("record", c)) /\ ~Linking(t, c)
  BY <1>4, Drained, Zenon
<1>6. /\ \A c \in Story : Task("record", c) \notin rest
      /\ \A e \in Event : Task("capture", e) \notin rest
      /\ \A t \in rest : t.kind # "record"
  <2>1. \A c \in Story : Task("record", c) \notin rest
    BY <1>2, <1>5, Zenon
  <2>2. \A e \in Event : Task("capture", e) \notin rest
    BY <1>2, <1>5, Zenon DEF Held
  <2> HIDE DEF rest, q
  <2>3. \A t \in rest : t.kind # "record"
    BY <1>2, <2>1, TaskParts
  <2> QED
    BY <2>1, <2>2, <2>3, Zenon
<1> HIDE DEF rest, q
<1>7. failure' = failure /\ failure \in BOOLEAN
  BY <1>1, <1>6, Zenon DEF TypeOK
<1>8. call' = call
  <2>1. call = [e \in Event |-> call[e]]
    BY <1>1 DEF TypeOK
  <2>2. call' = [e \in Event |-> call[e]]
    BY <1>1, <1>6, Zenon
  <2> QED
    BY <2>1, <2>2, Zenon
<1>9. OneWorker(s) /\ worker'[s] = [Waiting EXCEPT !.pc = "exited"]
  <2>1. worker \in [Story -> Workers]
    BY <1>1, Zenon DEF TypeOK
  <2> DEFINE w == [Waiting EXCEPT !.pc = "exited"]
  <2>2. w \in Workers /\ w.pc = "exited"
    BY NewWorkers, Zenon
  <2>3. worker' = [c \in Story |-> IF c = s THEN w ELSE worker[c]]
    BY <1>1, <1>6, Zenon
  <2> HIDE DEF w
  <2>4. OneWorker(s) /\ worker'[s] = w
    BY <2>1, <2>2, <2>3 DEF OneWorker
  <2> QED
    BY <2>4, Zenon DEF w
<1>10. BarrierNow("stop", barrier.left \ {s}, barrier.ok)
  <2>1. /\ (barrier.left \ {s}) \in SUBSET Story /\ barrier.ok \in BOOLEAN /\ "stop" \in BarrierPcs
    BY <1>1 DEF TypeOK, Barriers, BarrierPcs
  <2> QED
    BY <1>1, <2>1, BarrierMoves, Zenon
<1>11. /\ chan' \in [Story -> Seq(Tasks)] /\ chan'[s] = <<>>
       /\ \A t \in Story \ {s} : chan'[t] = chan[t]
  BY <1>1 DEF TypeOK
<1> QED
  BY <1>1, <1>4, <1>7, <1>8, <1>9, <1>10, <1>11, Zenon

-----------------------------------------------------------------------------
(* The theorems.                                                            *)

\* The invariant holds at the start.
LEMMA InitInv ==
  ASSUME Init
  PROVE  IInv
<1>1. /\ accepting = TRUE /\ stopped = FALSE /\ failure = FALSE /\ queues = {}
      /\ chan = [s \in Story |-> <<>>] /\ worker = [s \in Story |-> NoWorker]
      /\ call = [e \in Event |-> [pc |-> "new", story |-> Main]]
      /\ barrier = NoBarrier /\ rejected = <<>> /\ lost = FALSE /\ applied = {}
  BY DEF Init
<1>2. NoWorker \in Workers /\ NoWorker.pc = "none"
  BY DEF NoWorker, Workers
<1>3. /\ NoBarrier \in Barriers /\ NoBarrier.pc = "none" /\ NoBarrier.kind = "flush"
      /\ NoBarrier.before = {}
  BY DEF NoBarrier, Barriers
<1>4. TypeOK
  <2>1. chan \in [Story -> Seq(Tasks)] /\ worker \in [Story -> Workers]
    BY <1>1, <1>2
  <2>2. call \in [Event -> Calls] /\ rejected \in Seq(Rejects)
    BY <1>1 DEF Calls, Story
  <2> QED
    BY <1>1, <1>3, <2>1, <2>2, Zenon DEF TypeOK
<1>5. \A s \in Story : /\ chan[s] = <<>> /\ worker[s].pc = "none"
                       /\ \A e \in Event : ~Held(s, e)
                       /\ \A c \in Story : ~Linking(s, c)
                       /\ ~Flushing(s) /\ ~Signal(s)
  <2> SUFFICES ASSUME NEW s \in Story
               PROVE  /\ chan[s] = <<>> /\ worker[s].pc = "none"
                      /\ \A e \in Event : ~Held(s, e)
                      /\ \A c \in Story : ~Linking(s, c)
                      /\ ~Flushing(s) /\ ~Signal(s)
    BY Zenon
  <2>1. chan[s] = <<>> /\ worker[s].pc = "none"
    BY <1>1, <1>2
  <2>2. worker[s].pc \notin Active /\ worker[s].pc # "command"
    BY <2>1 DEF Active
  <2> QED
    BY <2>1, <2>2, EmptyQueue, Zenon DEF Held, Capturing, Linking, Flushing, Signal, At
<1>6. \A s \in Story : WorkerInv(s) /\ SignalInv(s) /\ IdleInv(s)
  <2>1. \A s \in Story : WorkerInv(s)
    BY <1>5 DEF WorkerInv, Active
  <2>2. \A s \in Story : SignalInv(s)
    BY <1>5, EmptyQueue, Zenon DEF SignalInv, Signal
  <2>3. \A s \in Story : IdleInv(s)
    BY <1>5 DEF IdleInv
  <2> QED
    BY <2>1, <2>2, <2>3, Zenon
<1>7. \A s, c \in Story : RecordInv(s, c)
  BY <1>5, EmptyQueue, Zenon DEF RecordInv
<1>8. \A s \in Story, e \in Event : HeldInv(s, e)
  BY <1>5, Zenon DEF HeldInv
<1>9. \A e \in Event : EventInv(e)
  BY <1>1 DEF EventInv, CallAt
<1>10. StageInv
  BY <1>1, <1>3 DEF StageInv, BarrierAt
<1>11. AnswerInv
  BY <1>1, <1>3 DEF AnswerInv, BarrierAt
<1>12. RejectInv
  BY <1>1, <1>3, EmptyQueue DEF RejectInv, BarrierAt
<1> QED
  BY <1>4, <1>6, <1>7, <1>8, <1>9, <1>10, <1>11, <1>12, Zenon DEF IInv

\* Every step keeps the invariant.
LEMMA NextInv ==
  IInv /\ [Next]_vars => IInv'

(* What a step of one worker changes.                                       *)

\* Nothing is seen of a step when the workers that move do so unseen.
<1>UnseenStep.
  ASSUME \A s \in Story : worker'[s] = worker[s] \/ Aside(s)
  PROVE  SameViews
  <2> USE <1>UnseenStep
  <2> SUFFICES ASSUME NEW t \in Story
               PROVE  /\ \A e \in Event : Capturing(t, e)' => Capturing(t, e)
                      /\ \A c \in Story : Linking(t, c)' <=> Linking(t, c)
                      /\ Flushing(t)' <=> Flushing(t)
                      /\ At(t, "receipt")' <=> At(t, "receipt")
    BY Zenon DEF SameViews
  <2>1. CASE Aside(t)
    BY <2>1, Zenon DEF Aside, Unseen
  <2>2. CASE worker'[t] = worker[t]
    BY <2>2, Zenon DEF Capturing, Linking, Flushing, At
  <2> QED
    BY <2>1, <2>2, Zenon

\* The queues as the barrier and the main story see them stay in order when the
\* channels and the barrier stand still.
<1>QueuesKept.
  ASSUME IInv, SameViews, UNCHANGED <<chan, barrier, stopped>>, queues \subseteq queues'
  PROVE  /\ \A s \in Story : SignalInv(s)'
         /\ \A s, c \in Story : RecordInv(s, c)'
         /\ \A s \in Story, e \in Event : HeldInv(s, e)'
  <2> USE <1>QueuesKept
  <2>1. \A s \in Story : Signal(s)' <=> Signal(s)
    BY Zenon DEF Signal, SameViews
  <2>2. \A s \in Story : SignalInv(s)'
    <3> SUFFICES ASSUME NEW s \in Story PROVE SignalInv(s)'
      BY Zenon
    <3>1. SignalInv(s) /\ (Flushing(s)' <=> Flushing(s))
      BY Zenon DEF IInv, SameViews
    <3> QED
      BY <2>1, <3>1, Zenon DEF SignalInv, BarrierAt
  <2>3. \A s, c \in Story : RecordInv(s, c)'
    <3> SUFFICES ASSUME NEW s \in Story, NEW c \in Story PROVE RecordInv(s, c)'
      BY Zenon
    <3>1. /\ RecordInv(s, c) /\ (Linking(s, c)' <=> Linking(s, c))
          /\ At(c, "receipt")' <=> At(c, "receipt")
      BY Zenon DEF IInv, SameViews
    <3> QED
      BY <3>1, Zenon DEF RecordInv
  <2>4. \A s \in Story, e \in Event : HeldInv(s, e)'
    <3> SUFFICES ASSUME NEW s \in Story, NEW e \in Event PROVE HeldInv(s, e)'
      BY Zenon
    <3>1. HeldInv(s, e) /\ (Flushing(s)' <=> Flushing(s)) /\ (Held(s, e)' => Held(s, e))
      BY Zenon DEF IInv, SameViews, Held
    <3> QED
      BY <3>1, Zenon DEF HeldInv, Guarded
  <2> QED
    BY <2>2, <2>3, <2>4, Zenon

\* A worker that stands still.
<1>WorkerKept.
  ASSUME NEW s \in Story, WorkerInv(s), worker'[s] = worker[s], stopped' = stopped,
         queues \subseteq queues'
  PROVE  WorkerInv(s)'
  <2> USE <1>WorkerKept
  <2>1. (Flushing(s)' <=> Flushing(s)) /\ \A c \in Story : Linking(s, c)' <=> Linking(s, c)
    BY Zenon DEF Flushing, Linking, At
  <2> QED
    BY <2>1, Zenon DEF WorkerInv

\* A story without a queue stays idle, and one whose worker runs has a queue.
<1>IdleKept.
  ASSUME NEW s \in Story, IdleInv(s), UNCHANGED <<barrier, stopped>>, queues \subseteq queues',
         \/ chan'[s] = chan[s] /\ worker'[s].pc = worker[s].pc
         \/ worker[s].pc \notin {"none", "exited"}
         \/ s \in queues'
  PROVE  IdleInv(s)'
  BY <1>IdleKept, Zenon DEF IdleInv

\* An event stays where it is unless it is applied or leaves a failure behind.
<1>EventKept.
  ASSUME NEW e \in Event, EventInv(e), applied \subseteq applied', failure => failure',
         call'[e].pc \in {"returned", "acked"} => call'[e].pc = call[e].pc,
         \A s \in Story : Held(s, e) => Held(s, e)' \/ e \in applied' \/ failure'
  PROVE  EventInv(e)'
  BY <1>EventKept, Zenon DEF EventInv, CallAt

\* Such a step keeps the stages of the barrier and the answers it has.
<1>CalmStep.
  ASSUME IInv, Calm
  PROVE  StageInv' /\ AnswerInv'
  <2> USE <1>CalmStep
  <2>1. StageInv'
    <3>1. StageInv
      BY Zenon DEF IInv
    <3> QED
      BY <3>1, Zenon DEF StageInv, Calm, BarrierAt
  <2>2. AnswerInv'
    <3>1. AnswerInv
      BY Zenon DEF IInv
    <3>2. Submitted \subseteq Submitted'
      BY Zenon DEF Calm, Submitted
    <3> QED
      BY <3>1, <3>2, Zenon DEF AnswerInv, Calm, BarrierAt
  <2> QED
    BY <2>1, <2>2, Zenon

\* The dead-letter writer stands still.
<1>RejectKept.
  ASSUME IInv, UNCHANGED <<barrier, rejected>>
  PROVE  RejectInv'
  <2> USE <1>RejectKept
  <2>1. RejectInv
    BY Zenon DEF IInv
  <2> QED
    BY <2>1, Zenon DEF RejectInv, BarrierAt

\* A step that moves workers unseen and leaves the channels alone.
<1>QuietStep.
  ASSUME IInv, TypeOK', Calm, UNCHANGED chan, failure => failure', RejectInv',
         \A s \in Story : worker'[s] = worker[s] \/ Aside(s),
         \A s \in Story : WorkerInv(s)',
         \A s \in Story : \/ worker'[s].pc = worker[s].pc \/ worker[s].pc \notin {"none", "exited"}
                          \/ s \in queues',
         \A e \in Event :
             \/ EventInv(e)'
             \/ /\ call'[e].pc \in {"returned", "acked"} => call'[e].pc = call[e].pc
                /\ \A s \in Story : Capturing(s, e) => Capturing(s, e)'
  PROVE  IInv'
  <2> USE <1>QuietStep
  <2>1. SameViews
    BY <1>UnseenStep, Zenon
  <2>2. UNCHANGED <<barrier, stopped>> /\ queues \subseteq queues' /\ applied \subseteq applied'
    BY Zenon DEF Calm
  <2>3. /\ \A s \in Story : SignalInv(s)'
        /\ \A s, c \in Story : RecordInv(s, c)'
        /\ \A s \in Story, e \in Event : HeldInv(s, e)'
    BY <2>1, <2>2, <1>QueuesKept, Zenon
  <2>4. ASSUME NEW s \in Story PROVE IdleInv(s)'
    <3>1. IdleInv(s)
      BY Zenon DEF IInv
    <3> QED
      BY <2>2, <3>1, <1>IdleKept, Zenon
  <2>5. ASSUME NEW e \in Event PROVE EventInv(e)'
    <3>1. CASE EventInv(e)'
      BY <3>1
    <3>2. CASE /\ call'[e].pc \in {"returned", "acked"} => call'[e].pc = call[e].pc
               /\ \A s \in Story : Capturing(s, e) => Capturing(s, e)'
      <4>1. EventInv(e)
        BY Zenon DEF IInv
      <4>2. \A s \in Story : Held(s, e) => Held(s, e)'
        BY <3>2, Zenon DEF Held
      <4> QED
        BY <2>2, <3>2, <4>1, <4>2, <1>EventKept, Zenon
    <3> QED
      BY <3>1, <3>2, Zenon
  <2> QED
    BY <2>3, <2>4, <2>5, <1>CalmStep, Zenon DEF IInv

(* Producers.                                                               *)

\* A queue is opened with a worker that waits for its first task.
<1>SpawnStep.
  ASSUME IInv, NEW s \in Story, ~stopped, stopped' = stopped, Queued(s), worker' = Spawned(s)
  PROVE  /\ worker' \in [Story -> Workers] /\ queues' \in SUBSET Story
         /\ s \in queues' /\ queues \subseteq queues'
         /\ \A t \in Story : worker'[t] = worker[t] \/ (Aside(t) /\ t \in queues')
         /\ \A t \in Story : WorkerInv(t)'
         /\ \A t \in Story, e \in Event : Capturing(t, e) => Capturing(t, e)'
  <2> USE <1>SpawnStep
  <2>1. /\ TypeOK /\ queues' = queues \cup {s} /\ IdleInv(s)
        /\ worker \in [Story -> Workers] /\ queues \in SUBSET Story
    BY Zenon DEF IInv, TypeOK, Queued
  <2>2. queues' \in SUBSET Story /\ s \in queues' /\ queues \subseteq queues'
    BY <2>1
  <2>3. \A t \in Story : worker'[t] = worker[t] => WorkerInv(t)'
    BY <2>2, <1>WorkerKept, Zenon DEF IInv
  <2>4. CASE s \in queues
    <3>1. worker' = worker
      BY <2>4, Zenon DEF Spawned
    <3> QED
      BY <2>1, <2>2, <2>3, <3>1, Zenon DEF Capturing
  <2>5. CASE s \notin queues
    <3>1. worker[s].pc \in {"none", "exited"}
      BY <2>1, <2>5, Zenon DEF IdleInv
    <3>2. OneWorker(s) /\ worker'[s] = Waiting
      BY <2>1, <2>5, NewWorkers, WorkerSet, Zenon DEF Spawned
    <3>3. worker'[s].pc = "recv"
      BY <3>2, NewWorkers, Zenon
    <3>4. \A e \in Event : ~Capturing(s, e) /\ ~Capturing(s, e)'
      BY <3>1, <3>3, Zenon DEF Capturing, Active
    <3>5. Unseen(s) /\ Unseen(s)'
      BY <3>1, <3>3, UnseenPcs, Zenon
    <3>6. WorkerInv(s)'
      BY <3>3, Zenon DEF WorkerInv, Active
    <3>7. worker' \in [Story -> Workers] /\ \A t \in Story : t = s \/ worker'[t] = worker[t]
      BY <3>2, Zenon DEF OneWorker
    <3> QED
      BY <2>2, <2>3, <3>4, <3>5, <3>6, <3>7, Zenon DEF Aside, Capturing
  <2> QED
    BY <2>4, <2>5, Zenon

\* A step in which one caller moves on, and at most a queue is opened.
<1>CallStep.
  ASSUME IInv, NEW e \in Event, UNCHANGED <<accepting, stopped, barrier, chan, applied, lost>>,
         failure' \in BOOLEAN, failure => failure', rejected' \in Seq(Rejects), RejectInv',
         \/ UNCHANGED <<queues, worker>>
         \/ \E s \in Story : ~stopped /\ Queued(s) /\ worker' = Spawned(s),
         call' \in [Event -> Calls], \A f \in Event \ {e} : call'[f] = call[f],
         call[e].pc \notin {"returned", "acked"},
         call'[e].pc \notin {"acked"}, call'[e].pc = "returned" => failure',
         accepting /\ call'[e].pc \in {"reserve", "reserved"} => call'[e].story \in queues'
  PROVE  IInv'
  <2> USE <1>CallStep
  <2>1. /\ worker' \in [Story -> Workers] /\ queues' \in SUBSET Story
        /\ queues \subseteq queues' /\ (stopped => queues' = queues)
        /\ \A t \in Story : worker'[t] = worker[t] \/ (Aside(t) /\ t \in queues')
        /\ \A t \in Story : WorkerInv(t)'
        /\ \A t \in Story, f \in Event : Capturing(t, f) => Capturing(t, f)'
    <3>1. CASE UNCHANGED <<queues, worker>>
      <4>1. worker \in [Story -> Workers] /\ queues \in SUBSET Story
        BY Zenon DEF IInv, TypeOK
      <4>2. \A t \in Story : WorkerInv(t)'
        BY <3>1, <1>WorkerKept, Zenon DEF IInv
      <4> QED
        BY <3>1, <4>1, <4>2, Zenon DEF Capturing
    <3>2. CASE \E s \in Story : ~stopped /\ Queued(s) /\ worker' = Spawned(s)
      BY <3>2, <1>SpawnStep, Zenon
    <3> QED
      BY <3>1, <3>2, Zenon
  <2>2. TypeOK'
    BY <2>1, Zenon DEF IInv, TypeOK
  <2>3. Calm
    <3>1. \A f \in Event : accepting /\ call[f].pc \in {"reserve", "reserved"} => call[f].story \in queues
      BY Zenon DEF IInv, StageInv
    <3> QED
      BY <2>1, <3>1, Zenon DEF Calm
  <2>4. EventInv(e)'
    BY Zenon DEF EventInv, CallAt
  <2> QED
    BY <2>1, <2>2, <2>3, <2>4, <1>QuietStep, Zenon

\* A capture is sent while external admission is open: no barrier waits for it.
<1>AdmitStep.
  ASSUME IInv, NEW e \in Event, NEW s \in Story, accepting,
         UNCHANGED <<accepting, stopped, barrier, applied, lost, failure, rejected>>,
         chan' = [chan EXCEPT ![s] = Append(@, Task("capture", e))], s \in queues',
         UNCHANGED <<queues, worker>> \/ (Queued(s) /\ worker' = Spawned(s)),
         call' \in [Event -> Calls], \A f \in Event \ {e} : call'[f] = call[f],
         call[e].pc \in {"new", "reserved"}, call'[e].pc \in {"returned", "await"}
  PROVE  IInv'
  <2> USE <1>AdmitStep
  <2>1. TypeOK /\ StageInv /\ AnswerInv /\ ~stopped /\ barrier.kind # "shutdown"
    BY Zenon DEF IInv, StageInv
  <2>2. ~Guarded(e)
    <3>1. e \notin Submitted
      BY DEF Submitted
    <3> QED
      BY <2>1, <3>1, Zenon DEF AnswerInv, Guarded
  <2>3. /\ worker' \in [Story -> Workers] /\ queues' \in SUBSET Story /\ queues \subseteq queues'
        /\ \A t \in Story : worker'[t] = worker[t] \/ (Aside(t) /\ t \in queues')
        /\ \A t \in Story : WorkerInv(t)'
        /\ \A t \in Story, f \in Event : Capturing(t, f) => Capturing(t, f)'
    <3>1. CASE UNCHANGED <<queues, worker>>
      <4>1. worker \in [Story -> Workers] /\ queues \in SUBSET Story
        BY <2>1, Zenon DEF TypeOK
      <4>2. \A t \in Story : WorkerInv(t)'
        BY <3>1, <1>WorkerKept, Zenon DEF IInv
      <4> QED
        BY <3>1, <4>1, <4>2, Zenon DEF Capturing
    <3>2. CASE Queued(s) /\ worker' = Spawned(s)
      BY <2>1, <3>2, <1>SpawnStep, Zenon
    <3> QED
      BY <3>1, <3>2, Zenon
  <2>4. SameViews
    BY <2>3, <1>UnseenStep, Zenon
  <2> DEFINE new == Task("capture", e)
  <2>5. /\ new \in Tasks /\ \A c : new # Task("record", c) /\ new # Task("flush", c) /\ new # Task("stop", c)
        /\ \A f : new = Task("capture", f) <=> f = e
    BY TaskParts
  <2>6. /\ chan' \in [Story -> Seq(Tasks)] /\ \A r \in Story \ {s} : chan'[r] = chan[r]
        /\ \A r \in Story : \A u : Has(chan'[r], u) <=> Has(chan[r], u) \/ (r = s /\ u = new)
        /\ \A r \in Story : \A u, v :
               Follows(chan'[r], u, v) <=>
                   Follows(chan[r], u, v) \/ (r = s /\ Has(chan[s], u) /\ v = new)
    <3>1. Arrives(s, Task("capture", e))
      BY <2>1, <2>5, Sends, Zenon
    <3> QED
      BY <3>1, Zenon DEF Arrives
  <2> HIDE DEF new
  <2>7. /\ \A r, t \in Story : /\ Has(chan'[r], Task("flush", t)) <=> Has(chan[r], Task("flush", t))
                               /\ Has(chan'[r], Task("stop", t)) <=> Has(chan[r], Task("stop", t))
                               /\ Has(chan'[r], Task("record", t)) <=> Has(chan[r], Task("record", t))
        /\ \A r, t \in Story : \A u :
               /\ Follows(chan'[r], u, Task("flush", t)) <=> Follows(chan[r], u, Task("flush", t))
               /\ Follows(chan'[r], u, Task("stop", t)) <=> Follows(chan[r], u, Task("stop", t))
               /\ Follows(chan'[r], u, Task("record", t)) <=> Follows(chan[r], u, Task("record", t))
    BY <2>5, <2>6, Zenon
  <2>8. \A t \in Story : SignalInv(t)'
    <3>1. \A t \in Story : (Flushing(t)' <=> Flushing(t)) /\ (Signal(t)' <=> Signal(t))
      BY <2>4, <2>7, Zenon DEF Signal, SameViews
    <3> SUFFICES ASSUME NEW t \in Story PROVE SignalInv(t)'
      BY Zenon
    <3>2. SignalInv(t)
      BY Zenon DEF IInv
    <3>3. \A k \in {"flush", "stop"} : \A r \in Story : Has(chan'[t], Task(k, r)) => r = t
      BY <2>7, <3>2, Zenon DEF SignalInv
    <3> QED
      BY <2>7, <3>1, <3>2, <3>3, Zenon DEF SignalInv, BarrierAt
  <2>9. \A t, c \in Story : RecordInv(t, c)'
    <3> SUFFICES ASSUME NEW t \in Story, NEW c \in Story PROVE RecordInv(t, c)'
      BY Zenon
    <3>1. /\ RecordInv(t, c) /\ (Linking(t, c)' <=> Linking(t, c))
          /\ At(c, "receipt")' <=> At(c, "receipt")
      BY <2>4, Zenon DEF IInv, SameViews
    <3> QED
      BY <2>7, <3>1, Zenon DEF RecordInv
  <2>10. \A t \in Story, f \in Event : HeldInv(t, f)'
    <3> SUFFICES ASSUME NEW t \in Story, NEW f \in Event PROVE HeldInv(t, f)'
      BY Zenon
    <3>1. HeldInv(t, f) /\ (Flushing(t)' <=> Flushing(t)) /\ (Guarded(f)' <=> Guarded(f))
      BY <2>4, Zenon DEF IInv, SameViews, Guarded
    <3>2. Held(t, f)' => Held(t, f) \/ (t = s /\ f = e)
      BY <2>4, <2>5, <2>6, Zenon DEF Held, SameViews
    <3>3. CASE f = e
      BY <2>2, <2>3, <3>1, <3>2, <3>3, Zenon DEF HeldInv
    <3>4. CASE f # e
      <4>1. /\ Has(chan'[t], Task("capture", f)) <=> Has(chan[t], Task("capture", f))
            /\ \A u : Follows(chan'[t], u, Task("capture", f)) <=> Follows(chan[t], u, Task("capture", f))
        BY <2>5, <2>6, <3>4, Zenon
      <4> QED
        BY <2>3, <3>1, <3>2, <3>4, <4>1, Zenon DEF HeldInv
    <3> QED
      BY <3>3, <3>4, Zenon
  <2>11. ASSUME NEW t \in Story PROVE IdleInv(t)'
    <3>1. IdleInv(t) /\ (t # s => chan'[t] = chan[t])
      BY <2>6, Zenon DEF IInv
    <3> QED
      BY <2>3, <3>1, <1>IdleKept, Zenon
  <2>12. ASSUME NEW f \in Event PROVE EventInv(f)'
    <3>1. \A t \in Story : Held(t, f) => Held(t, f)'
      BY <2>3, <2>6, Zenon DEF Held
    <3>2. CASE f = e
      <4>1. Held(s, e)'
        BY <2>6, Zenon DEF Held, new
      <4> QED
        BY <3>2, <4>1, Zenon DEF EventInv, CallAt
    <3>3. CASE f # e
      <4>1. EventInv(f) /\ call'[f] = call[f]
        BY <3>3, Zenon DEF IInv
      <4> QED
        BY <3>1, <4>1, <1>EventKept, Zenon
    <3> QED
      BY <3>2, <3>3, Zenon
  <2>13. Calm
    <3>1. \A f \in Event : accepting /\ call[f].pc \in {"reserve", "reserved"} => call[f].story \in queues
      BY <2>1, Zenon DEF StageInv
    <3> QED
      BY <2>1, <2>3, <3>1, Zenon DEF Calm
  <2>14. TypeOK'
    BY <2>1, <2>3, <2>6, Zenon DEF TypeOK
  <2> QED
    BY <2>3, <2>8, <2>9, <2>10, <2>11, <2>12, <2>13, <2>14, <1>CalmStep, <1>RejectKept,
       Zenon DEF IInv

\* enqueue: the capture is queued, or refused with or without a queue opened for it.
<1>EnqueueInv.
  ASSUME IInv, NEW e \in Event, NEW s \in Story, Enqueue(e, s)
  PROVE  IInv'
  <2> USE <1>EnqueueInv
  <2>1. /\ TypeOK /\ call[e].pc = "new" /\ failure \in BOOLEAN /\ rejected \in Seq(Rejects)
        /\ UNCHANGED <<accepting, stopped, failure, barrier, rejected, lost, applied>>
    BY Zenon DEF IInv, TypeOK, Enqueue, CallAt
  <2>2. accepting => ~stopped
    BY Zenon DEF IInv, StageInv
  <2>3. ASSUME NEW pc \in {"returned", "refused"},
               call' = [call EXCEPT ![e] = [pc |-> pc, story |-> s]]
        PROVE  /\ call' \in [Event -> Calls] /\ call'[e].pc = pc
               /\ \A f \in Event \ {e} : call'[f] = call[f]
    BY <2>1, <2>3 DEF TypeOK, Calls
  <2>4. CASE accepting /\ External < limit.external /\ MayQueue(s)
    <3>1. Queued(s) /\ worker' = Spawned(s) /\ s \in queues'
      BY <2>4, Zenon DEF Enqueue, Queued
    <3>2. CASE Room(s)
      <4>1. /\ chan' = [chan EXCEPT ![s] = Append(@, Task("capture", e))]
            /\ call' = [call EXCEPT ![e] = [pc |-> "returned", story |-> s]]
        BY <2>4, <3>2, Zenon DEF Enqueue
      <4> QED
        BY <2>1, <2>3, <2>4, <3>1, <4>1, <1>AdmitStep, Zenon
    <3>3. CASE ~Room(s)
      <4>1. /\ UNCHANGED chan
            /\ call' = [call EXCEPT ![e] = [pc |-> "refused", story |-> s]]
        BY <2>4, <3>3, Zenon DEF Enqueue
      <4> QED
        BY <2>1, <2>2, <2>3, <2>4, <3>1, <4>1, <1>RejectKept, <1>CallStep, Zenon
    <3> QED
      BY <3>2, <3>3, Zenon
  <2>5. CASE ~(accepting /\ External < limit.external /\ MayQueue(s))
    <3>1. /\ UNCHANGED <<queues, worker, chan>>
          /\ call' = [call EXCEPT ![e] = [pc |-> "refused", story |-> s]]
      BY <2>5, Zenon DEF Enqueue
    <3> QED
      BY <2>1, <2>3, <3>1, <1>RejectKept, <1>CallStep, Zenon
  <2> QED
    BY <2>4, <2>5, Zenon

\* record_rejected_task: the event was not submitted before the barrier began.
<1>RecordRejectedInv.
  ASSUME IInv, NEW e \in Event, RecordRejected(e)
  PROVE  IInv'
  <2> USE <1>RecordRejectedInv
  <2>1. /\ TypeOK /\ call[e].pc = "refused" /\ failure' = TRUE /\ CallGoto(e, "returned")
        /\ RejectInv /\ AnswerInv
        /\ UNCHANGED <<accepting, stopped, queues, chan, worker, barrier, lost, applied>>
    BY Zenon DEF IInv, TypeOK, RecordRejected, CallAt
  <2>2. e \notin barrier.before
    BY <2>1 DEF AnswerInv, Submitted
  <2> DEFINE new == Task("event", e)
  <2>3. new \in Rejects /\ new # Marker /\ \A f : new = Task("event", f) <=> f = e
    BY DEF Rejects, Task, Marker
  <2>4. rejected' = rejected \/ rejected' = Append(rejected, new)
    BY Zenon DEF RecordRejected
  <2>5. rejected \in Seq(Rejects)
    BY <2>1, Zenon DEF TypeOK
  <2>6. RejectInv' /\ rejected' \in Seq(Rejects)
    <3>1. CASE rejected' = rejected
      BY <2>1, <2>5, <3>1, <1>RejectKept, Zenon
    <3>2. CASE rejected' = Append(rejected, new)
      <4> HIDE DEF new
      <4>1. /\ \A u : Has(Append(rejected, new), u) <=> Has(rejected, u) \/ u = new
            /\ \A u, v : Follows(Append(rejected, new), u, v) <=>
                             Follows(rejected, u, v) \/ (Has(rejected, u) /\ v = new)
        BY <2>3, <2>5, AppendTask
      <4>2. rejected' \in Seq(Rejects)
        BY <2>3, <2>5, <3>2
      <4>3. /\ Has(rejected', Marker) <=> Has(rejected, Marker)
            /\ Follows(rejected', Marker, Marker) <=> Follows(rejected, Marker, Marker)
        BY <2>3, <3>2, <4>1, Zenon
      <4>4. \A f \in barrier.before :
                /\ Has(rejected', Task("event", f)) <=> Has(rejected, Task("event", f))
                /\ Follows(rejected', Marker, Task("event", f)) <=>
                       Follows(rejected, Marker, Task("event", f))
        <5>1. \A f \in barrier.before : Task("event", f) # new
          BY <2>2, <2>3, Zenon
        <5>2. \A u : u # new =>
                  /\ Has(rejected', u) <=> Has(rejected, u)
                  /\ Follows(rejected', Marker, u) <=> Follows(rejected, Marker, u)
          BY <3>2, <4>1, Zenon
        <5> QED
          BY <5>1, <5>2, Zenon
      <4> QED
        BY <2>1, <4>2, <4>3, <4>4, Zenon DEF RejectInv, BarrierAt
    <3> QED
      BY <2>4, <3>1, <3>2, Zenon
  <2>7. /\ call' \in [Event -> Calls] /\ call'[e].pc = "returned"
        /\ \A f \in Event \ {e} : call'[f] = call[f]
    BY <2>1, CallMoves, Zenon
  <2> QED
    BY <2>1, <2>6, <2>7, <1>CallStep, Zenon

\* apply: a queue is opened for a caller that then waits for a slot.
<1>ApplyInv.
  ASSUME IInv, NEW e \in Event, NEW s \in Story, Apply(e, s)
  PROVE  IInv'
  <2> USE <1>ApplyInv
  <2>1. /\ TypeOK /\ call[e].pc = "new" /\ failure \in BOOLEAN /\ rejected \in Seq(Rejects)
        /\ UNCHANGED <<accepting, stopped, failure, chan, barrier, rejected, lost, applied>>
    BY Zenon DEF IInv, TypeOK, Apply, CallAt
  <2>2. accepting => ~stopped
    BY Zenon DEF IInv, StageInv
  <2>3. ASSUME NEW pc \in {"reserve", "failed"},
               call' = [call EXCEPT ![e] = [pc |-> pc, story |-> s]]
        PROVE  /\ call' \in [Event -> Calls] /\ call'[e].pc = pc /\ call'[e].story = s
               /\ \A f \in Event \ {e} : call'[f] = call[f]
    BY <2>1, <2>3 DEF TypeOK, Calls
  <2>4. CASE External < limit.external /\ accepting /\ MayQueue(s)
    <3>1. /\ Queued(s) /\ worker' = Spawned(s) /\ s \in queues'
          /\ call' = [call EXCEPT ![e] = [pc |-> "reserve", story |-> s]]
      BY <2>4, Zenon DEF Apply, Queued
    <3> QED
      BY <2>1, <2>2, <2>3, <2>4, <3>1, <1>RejectKept, <1>CallStep, Zenon
  <2>5. CASE ~(External < limit.external /\ accepting /\ MayQueue(s))
    <3>1. /\ UNCHANGED <<queues, worker>>
          /\ call' = [call EXCEPT ![e] = [pc |-> "failed", story |-> s]]
      BY <2>5, Zenon DEF Apply
    <3> QED
      BY <2>1, <2>3, <3>1, <1>RejectKept, <1>CallStep, Zenon
  <2> QED
    BY <2>4, <2>5, Zenon

\* A caller moves on, and nothing else does.
<1>CallerInv.
  ASSUME IInv, NEW e \in Event, NEW pc \in {"reserved", "failed", "abandoned"}, CallGoto(e, pc),
         call[e].pc \in {"reserve", "reserved", "await"}, pc = "reserved" => call[e].pc = "reserve",
         UNCHANGED <<accepting, stopped, failure, queues, chan, worker, barrier, rejected, lost,
                     applied>>
  PROVE  IInv'
  <2> USE <1>CallerInv
  <2>1. /\ TypeOK /\ failure \in BOOLEAN /\ rejected \in Seq(Rejects)
        /\ accepting => (call[e].pc \in {"reserve", "reserved"} => call[e].story \in queues)
    BY Zenon DEF IInv, TypeOK, StageInv
  <2>2. /\ call' \in [Event -> Calls] /\ call'[e].pc = pc /\ call'[e].story = call[e].story
        /\ \A f \in Event \ {e} : call'[f] = call[f]
    BY <2>1, CallMoves, Zenon
  <2> QED
    BY <2>1, <2>2, <1>RejectKept, <1>CallStep, Zenon

\* reserve_owned, and a caller that is dropped.
<1>ReserveInv.
  ASSUME IInv, NEW e \in Event, Reserve(e)
  PROVE  IInv'
  <2> USE <1>ReserveInv
  <2>1. /\ call[e].pc = "reserve"
        /\ CallGoto(e, IF Closed(call[e].story) THEN "failed" ELSE "reserved")
        /\ UNCHANGED <<accepting, stopped, failure, queues, chan, worker, barrier, rejected, lost,
                       applied>>
    BY Zenon DEF Reserve, CallAt
  <2>2. CallGoto(e, "failed") \/ CallGoto(e, "reserved")
    BY <2>1, Zenon
  <2> QED
    BY <2>1, <2>2, <1>CallerInv, Zenon

\* A caller that is dropped leaves its capture on its way.
<1>AbandonInv.
  ASSUME IInv, NEW e \in Event, Abandon(e)
  PROVE  IInv'
  BY <1>AbandonInv, <1>CallerInv, Zenon DEF Abandon

\* The admission takes effect when the task is sent.
<1>SendInv.
  ASSUME IInv, NEW e \in Event, Send(e)
  PROVE  IInv'
  <2> USE <1>SendInv
  <2>1. /\ TypeOK /\ call[e].pc = "reserved"
        /\ UNCHANGED <<accepting, stopped, failure, queues, worker, barrier, rejected, lost, applied>>
    BY Zenon DEF IInv, Send, CallAt
  <2>2. CASE accepting
    <3>1. /\ chan' = [chan EXCEPT ![call[e].story] = Append(@, Task("capture", e))]
          /\ CallGoto(e, "await")
      BY <2>2, Zenon DEF Send
    <3>2. call[e].story \in queues /\ call[e].story \in Story
      BY <2>1, <2>2, Zenon DEF IInv, StageInv, TypeOK
    <3>3. /\ call' \in [Event -> Calls] /\ call'[e].pc = "await"
          /\ \A f \in Event \ {e} : call'[f] = call[f]
      BY <2>1, <3>1, CallMoves, Zenon
    <3> QED
      BY <2>1, <2>2, <3>1, <3>2, <3>3, <1>AdmitStep, Zenon
  <2>3. CASE ~accepting
    BY <2>1, <2>3, <1>CallerInv, Zenon DEF Send
  <2> QED
    BY <2>2, <2>3, Zenon

(* Workers.                                                                 *)

\* A worker goes on with its capture; at most the queue of the main story is opened.
<1>LinkStep.
  ASSUME IInv, NEW s \in Story, worker' \in [Story -> Workers],
         worker[s].pc \in {"prepare", "link", "reserve", "reserved"},
         worker'[s].pc \in {"link", "reserve", "reserved"}, worker'[s].task = worker[s].task,
         worker'[s].pc \in {"reserve", "reserved"} => s # Main /\ (~stopped => Main \in queues'),
         UNCHANGED <<accepting, stopped, barrier, chan, call, rejected, lost, applied>>,
         failure' \in BOOLEAN, failure => failure',
         queues' \in SUBSET Story, queues \subseteq queues', stopped => queues' = queues,
         \A t \in Story \ {s} :
             \/ worker'[t] = worker[t]
             \/ Unseen(t) /\ worker'[t] = Waiting /\ t \in queues'
                /\ \A e \in Event : ~Capturing(t, e)
  PROVE  IInv'
  <2> USE <1>LinkStep
  <2>1. TypeOK'
    BY Zenon DEF IInv, TypeOK
  <2>2. \A e \in Event : Capturing(s, e)' <=> Capturing(s, e)
    BY Zenon DEF Capturing, Active
  <2>3. Aside(s) /\ WorkerInv(s)'
    <3>1. Unseen(s) /\ Unseen(s)'
      BY UnseenPcs
    <3>2. WorkerInv(s)'
      <4>1. worker[s].task.kind = "capture"
        BY Zenon DEF IInv, WorkerInv, Active
      <4>2. worker'[s].pc \notin {"command", "receipt"}
        OBVIOUS
      <4> QED
        BY <4>1, <4>2, Zenon DEF WorkerInv
    <3> QED
      BY <2>2, <3>1, <3>2, Zenon DEF Aside
  <2>4. ASSUME NEW t \in Story \ {s}
        PROVE  /\ worker'[t] = worker[t] \/ (Aside(t) /\ t \in queues')
               /\ WorkerInv(t)' /\ \A e \in Event : Capturing(t, e) => Capturing(t, e)'
    <3>1. CASE worker'[t] = worker[t]
      <4>1. WorkerInv(t)
        BY Zenon DEF IInv
      <4> QED
        BY <3>1, <4>1, <1>WorkerKept, Zenon DEF Capturing
    <3>2. CASE /\ Unseen(t) /\ worker'[t] = Waiting /\ t \in queues'
               /\ \A e \in Event : ~Capturing(t, e)
      <4>1. worker'[t].pc = "recv"
        BY <3>2, NewWorkers, Zenon
      <4>2. Unseen(t)' /\ WorkerInv(t)' /\ \A e \in Event : ~Capturing(t, e)'
        BY <4>1, UnseenPcs DEF WorkerInv, Active, Capturing
      <4> QED
        BY <3>2, <4>2, Zenon DEF Aside
    <3> QED
      BY <3>1, <3>2, Zenon
  <2>5. Calm
    <3>1. StageInv
      BY Zenon DEF IInv
    <3> QED
      BY <3>1, Zenon DEF Calm, StageInv
  <2>6. /\ \A t \in Story : worker'[t] = worker[t] \/ Aside(t)
        /\ \A t \in Story : WorkerInv(t)'
        /\ \A t \in Story, e \in Event : Capturing(t, e) => Capturing(t, e)'
    BY <2>2, <2>3, <2>4, Zenon
  <2>7. \A t \in Story : \/ worker'[t].pc = worker[t].pc \/ worker[t].pc \notin {"none", "exited"}
                         \/ t \in queues'
    <3>1. worker[s].pc \notin {"none", "exited"}
      OBVIOUS
    <3> QED
      BY <2>4, <3>1, Zenon
  <2> QED
    BY <2>1, <2>5, <2>6, <2>7, <1>RejectKept, <1>QuietStep, Zenon

\* command_internal, up to the wait for a slot.
<1>LinkMainInv.
  ASSUME IInv, NEW s \in Story, LinkMain(s)
  PROVE  IInv'
  <2> USE <1>LinkMainInv
  <2>1. /\ TypeOK /\ worker[s].pc = "link" /\ s # Main /\ Main \in Story
        /\ worker \in [Story -> Workers] /\ worker[s] \in Workers /\ queues \in SUBSET Story
        /\ failure \in BOOLEAN
        /\ UNCHANGED <<accepting, stopped, chan, call, barrier, rejected, lost, applied>>
    BY TaskParts, Zenon DEF IInv, TypeOK, LinkMain, At
  <2>2. CASE ~(Internal < limit.internal /\ ~stopped /\ MayQueue(Main))
    <3>1. worker' = [worker EXCEPT ![s] = Gap(worker[s])] /\ failure' = TRUE /\ queues' = queues
      BY <2>1, <2>2 DEF LinkMain
    <3>2. OneWorker(s) /\ worker'[s].pc = "link" /\ worker'[s].task = worker[s].task
      BY <2>1, <3>1, Answered, WorkerSet, Zenon
    <3> QED
      BY <2>1, <3>1, <3>2, <1>LinkStep, Zenon DEF OneWorker
  <2>3. CASE Internal < limit.internal /\ ~stopped /\ MayQueue(Main)
    <3>1. /\ queues' = queues \cup {Main} /\ failure' = failure
          /\ worker' = [Spawned(Main) EXCEPT ![s].pc = "reserve"]
      BY <2>3, Zenon DEF LinkMain, Queued
    <3>2. /\ queues' \in SUBSET Story /\ queues \subseteq queues' /\ Main \in queues'
      BY <2>1, <3>1
    <3>3. "reserve" \in WorkerPcs
      BY DEF WorkerPcs, Active
    <3>4. CASE Main \in queues
      <4>1. OneWorker(s) /\ worker'[s].pc = "reserve" /\ worker'[s].task = worker[s].task
        BY <2>1, <3>1, <3>3, <3>4, WorkerMoves, Zenon DEF Spawned
      <4> QED
        BY <2>1, <2>3, <3>1, <3>2, <4>1, <1>LinkStep, Zenon DEF OneWorker
    <3>5. CASE Main \notin queues
      <4>1. worker' = [[worker EXCEPT ![Main] = Waiting] EXCEPT ![s].pc = "reserve"]
        BY <3>1, <3>5, Zenon DEF Spawned
      <4>2. Waiting \in Workers
        BY NewWorkers, Zenon
      <4>3. /\ worker' \in [Story -> Workers] /\ worker'[Main] = Waiting
            /\ worker'[s].pc = "reserve" /\ worker'[s].task = worker[s].task
            /\ \A t \in Story \ {s, Main} : worker'[t] = worker[t]
        BY <2>1, <3>3, <4>1, <4>2 DEF Workers, WorkerPcs
      <4>4. Unseen(Main) /\ \A e \in Event : ~Capturing(Main, e)
        BY <2>1, <2>3, <3>5, NoQueue, Zenon
      <4>5. \A t \in Story \ {s} :
                \/ worker'[t] = worker[t]
                \/ Unseen(t) /\ worker'[t] = Waiting /\ t \in queues'
                   /\ \A e \in Event : ~Capturing(t, e)
        BY <3>2, <4>3, <4>4, Zenon
      <4> QED
        BY <2>1, <2>3, <3>1, <3>2, <4>3, <4>5, <1>LinkStep, Zenon
    <3> QED
      BY <3>4, <3>5, Zenon
  <2> QED
    BY <2>2, <2>3, Zenon

\* A link record of the main story itself.
<1>LinkInlineInv.
  ASSUME IInv, NEW s \in Story, LinkInline(s)
  PROVE  IInv'
  <2> USE <1>LinkInlineInv
  <2>1. PICK ok \in BOOLEAN : failure' = (failure \/ ~ok) /\ worker' = [worker EXCEPT ![s] = Receipt(@, ok)]
    BY Zenon DEF LinkInline
  <2>2. /\ TypeOK /\ worker[s].pc = "link" /\ worker[s] \in Workers /\ queues \in SUBSET Story
        /\ failure \in BOOLEAN
        /\ UNCHANGED <<accepting, stopped, queues, chan, call, barrier, rejected, lost, applied>>
    BY Zenon DEF IInv, TypeOK, LinkInline, At
  <2>3. worker' = [worker EXCEPT ![s] = Receipt(worker[s], ok)] /\ failure' \in BOOLEAN
    BY <2>1, <2>2
  <2>4. OneWorker(s) /\ worker'[s].pc = "link" /\ worker'[s].task = worker[s].task
    <3>1. /\ Receipt(worker[s], ok) \in Workers /\ Receipt(worker[s], ok).pc = "link"
          /\ Receipt(worker[s], ok).task = worker[s].task
      BY <2>2, Answered
    <3> QED
      BY <2>2, <2>3, <3>1, WorkerSet, Zenon
  <2>5. failure => failure'
    BY <2>1, Zenon
  <2> QED
    BY <2>2, <2>3, <2>4, <2>5, <1>LinkStep, Zenon DEF OneWorker

\* The wait for a slot of the main story's queue.
<1>LinkReserveInv.
  ASSUME IInv, NEW s \in Story, LinkReserve(s)
  PROVE  IInv'
  <2> USE <1>LinkReserveInv
  <2>1. /\ TypeOK /\ worker[s].pc = "reserve" /\ worker[s] \in Workers /\ queues \in SUBSET Story
        /\ failure \in BOOLEAN /\ failure' = (failure \/ Closed(Main)) /\ WorkerInv(s)
        /\ UNCHANGED <<accepting, stopped, queues, chan, call, barrier, rejected, lost, applied>>
    BY Zenon DEF IInv, TypeOK, LinkReserve, At
  <2>2. s # Main /\ (~stopped => Main \in queues)
    BY <2>1, Zenon DEF WorkerInv
  <2>3. failure' \in BOOLEAN /\ (failure => failure')
    BY <2>1, Zenon DEF Closed, At
  <2>4. CASE Closed(Main)
    <3>1. worker' = [worker EXCEPT ![s] = Gap(worker[s])]
      BY <2>4 DEF LinkReserve
    <3>2. OneWorker(s) /\ worker'[s].pc = "link" /\ worker'[s].task = worker[s].task
      BY <2>1, <3>1, Answered, WorkerSet, ZenonT(60)
    <3> QED
      BY <2>1, <2>2, <2>3, <3>2, <1>LinkStep, Zenon DEF OneWorker
  <2>5. CASE ~Closed(Main)
    <3>1. worker' = [worker EXCEPT ![s].pc = "reserved"]
      BY <2>5 DEF LinkReserve
    <3>2. "reserved" \in WorkerPcs
      BY DEF WorkerPcs, Active
    <3>3. OneWorker(s) /\ worker'[s].pc = "reserved" /\ worker'[s].task = worker[s].task
      BY <2>1, <3>1, <3>2, WorkerMoves, Zenon
    <3> QED
      BY <2>1, <2>2, <2>3, <3>3, <1>LinkStep, Zenon DEF OneWorker
  <2> QED
    BY <2>4, <2>5, Zenon

\* Tasks that stand one behind the other are in the queue.
<1>FollowsHas. \A q, t, u : Follows(q, t, u) => Has(q, t) /\ Has(q, u)
  BY <1>FollowsHas, Zenon DEF Follows, Has

\* The record is sent to the main story, behind everything in its queue.
<1>LinkSendInv.
  ASSUME IInv, NEW s \in Story, LinkSend(s)
  PROVE  IInv'
  <2> USE <1>LinkSendInv
  <2>1. /\ TypeOK /\ worker[s].pc = "reserved" /\ worker[s] \in Workers /\ queues \in SUBSET Story
        /\ failure \in BOOLEAN /\ WorkerInv(s) /\ Main \in Story
        /\ UNCHANGED <<accepting, stopped, queues, call, barrier, rejected, lost, applied>>
    BY TaskParts, Zenon DEF IInv, TypeOK, LinkSend, At
  <2>2. CASE stopped
    <3>1. worker' = [worker EXCEPT ![s] = Gap(worker[s])] /\ failure' = TRUE /\ chan' = chan
      BY <2>2 DEF LinkSend
    <3>2. OneWorker(s) /\ worker'[s].pc = "link" /\ worker'[s].task = worker[s].task
      BY <2>1, <3>1, Answered, WorkerSet, ZenonT(60)
    <3> QED
      BY <2>1, <3>1, <3>2, <1>LinkStep, Zenon DEF OneWorker
  <2>3. CASE ~stopped
    <3>1. /\ worker' = [worker EXCEPT ![s].pc = "receipt"] /\ failure' = failure
          /\ chan' = [chan EXCEPT ![Main] = Append(@, Task("record", s))]
      BY <2>3, Zenon DEF LinkSend
    <3>2. "receipt" \in WorkerPcs
      BY DEF WorkerPcs, Active
    <3>3. OneWorker(s) /\ worker'[s].pc = "receipt" /\ worker'[s].task = worker[s].task
      BY <2>1, <3>1, <3>2, WorkerMoves, Zenon
    <3>4. /\ \A t \in Story, e \in Event : Capturing(t, e)' <=> Capturing(t, e)
          /\ \A t \in Story : Flushing(t)' <=> Flushing(t)
          /\ \A t, c \in Story : Linking(t, c)' <=> Linking(t, c)
          /\ \A t \in Story : At(t, "receipt")' <=> At(t, "receipt") \/ t = s
      <4>1. \A t \in Story : t = s \/ worker'[t] = worker[t]
        BY <3>3, Zenon DEF OneWorker
      <4> QED
        BY <2>1, <3>3, <4>1, Zenon DEF Capturing, Flushing, Linking, At, Active
    <3> DEFINE new == Task("record", s)
    <3>5. /\ new \in Tasks
          /\ \A e : new # Task("capture", e) /\ new # Task("flush", e) /\ new # Task("stop", e)
          /\ \A c : new = Task("record", c) <=> c = s
      BY TaskParts
    <3>6. Arrives(Main, Task("record", s))
      BY <2>1, <3>1, <3>5, Sends, Zenon
    <3>7. /\ chan' \in [Story -> Seq(Tasks)] /\ \A r \in Story \ {Main} : chan'[r] = chan[r]
          /\ \A r \in Story : \A u : Has(chan'[r], u) <=> Has(chan[r], u) \/ (r = Main /\ u = new)
          /\ \A r \in Story : \A u, v :
                 Follows(chan'[r], u, v) <=>
                     Follows(chan[r], u, v) \/ (r = Main /\ Has(chan[Main], u) /\ v = new)
      BY <3>6, Zenon DEF Arrives
    <3> HIDE DEF new
    <3>8. \A t \in Story : \A u : u # new =>
              /\ Has(chan'[t], u) <=> Has(chan[t], u)
              /\ \A v : Follows(chan'[t], v, u) <=> Follows(chan[t], v, u)
      BY <3>7, Zenon
    <3>9. TypeOK'
      BY <2>1, <3>1, <3>3, <3>7, Zenon DEF TypeOK, OneWorker
    <3>10. \A t \in Story : SignalInv(t)'
      <4>1. \A r, t \in Story :
                /\ Has(chan'[r], Task("flush", t)) <=> Has(chan[r], Task("flush", t))
                /\ Has(chan'[r], Task("stop", t)) <=> Has(chan[r], Task("stop", t))
                /\ Follows(chan'[r], Task("flush", t), Task("flush", t)) <=>
                       Follows(chan[r], Task("flush", t), Task("flush", t))
                /\ Follows(chan'[r], Task("stop", t), Task("stop", t)) <=>
                       Follows(chan[r], Task("stop", t), Task("stop", t))
        BY <3>5, <3>8, Zenon
      <4>2. \A t \in Story : Signal(t)' <=> Signal(t)
        BY <3>4, <4>1, Zenon DEF Signal
      <4> SUFFICES ASSUME NEW t \in Story PROVE SignalInv(t)'
        BY Zenon
      <4>3. SignalInv(t)
        BY Zenon DEF IInv
      <4>4. \A k \in {"flush", "stop"} : \A r \in Story : Has(chan'[t], Task(k, r)) => r = t
        BY <4>1, <4>3, Zenon DEF SignalInv
      <4> QED
        BY <2>1, <3>4, <4>1, <4>2, <4>3, <4>4, Zenon DEF SignalInv, BarrierAt
    <3>11. \A t, c \in Story : RecordInv(t, c)'
      <4>1. ~Has(chan[Main], new) /\ \A t \in Story : ~Linking(t, s) /\ ~Has(chan[t], new)
        BY <2>1, <3>5, Zenon DEF IInv, RecordInv, At
      <4> SUFFICES ASSUME NEW t \in Story, NEW c \in Story PROVE RecordInv(t, c)'
        BY Zenon
      <4>2. RecordInv(t, c)
        BY Zenon DEF IInv
      <4>3. CASE c = s
        <5>1. Task("record", c) = new
          BY <3>5, <4>3, Zenon
        <5>2. ~Follows(chan[t], new, new) /\ ~Follows(chan'[t], new, new)
          BY <3>7, <4>1, <1>FollowsHas, Zenon
        <5> QED
          BY <3>4, <3>7, <4>1, <4>3, <5>1, <5>2, Zenon DEF RecordInv
      <4>4. CASE c # s
        <5>1. Task("record", c) # new
          BY <3>5, <4>4, Zenon
        <5> QED
          BY <3>4, <3>8, <4>2, <5>1, Zenon DEF RecordInv
      <4> QED
        BY <4>3, <4>4, Zenon
    <3>12. \A t \in Story, e \in Event : Held(t, e)' <=> Held(t, e)
      BY <3>4, <3>5, <3>8, Zenon DEF Held
    <3>13. \A t \in Story, e \in Event : HeldInv(t, e)'
      <4> SUFFICES ASSUME NEW t \in Story, NEW e \in Event PROVE HeldInv(t, e)'
        BY Zenon
      <4>1. HeldInv(t, e) /\ (Held(t, e)' <=> Held(t, e)) /\ (Flushing(t)' <=> Flushing(t))
        BY <3>4, <3>12, Zenon DEF IInv
      <4>2. /\ Has(chan'[t], Task("capture", e)) <=> Has(chan[t], Task("capture", e))
            /\ \A v : Follows(chan'[t], v, Task("capture", e)) <=> Follows(chan[t], v, Task("capture", e))
        BY <3>5, <3>8, Zenon
      <4> QED
        BY <2>1, <4>1, <4>2, Zenon DEF HeldInv, Guarded
    <3>14. \A t \in Story : WorkerInv(t)' /\ IdleInv(t)'
      <4>1. Main \in queues /\ s # Main
        BY <2>1, <2>3, Zenon DEF WorkerInv
      <4>2. WorkerInv(s)'
        BY <2>1, <3>3, <4>1 DEF WorkerInv, Active
      <4>3. \A t \in Story \ {s} : WorkerInv(t)'
        BY <2>1, <3>3, <1>WorkerKept, Zenon DEF OneWorker, IInv
      <4>4. \A t \in Story : \/ chan'[t] = chan[t] /\ worker'[t].pc = worker[t].pc
                             \/ worker[t].pc \notin {"none", "exited"}
                             \/ t \in queues'
        BY <2>1, <3>3, <3>7, <4>1, Zenon DEF OneWorker
      <4>5. \A t \in Story : IdleInv(t)'
        BY <2>1, <4>4, <1>IdleKept, Zenon DEF IInv
      <4> QED
        BY <4>2, <4>3, <4>5, Zenon
    <3>15. \A e \in Event : EventInv(e)'
      BY <2>1, <3>1, <3>12, <1>EventKept, Zenon DEF IInv
    <3>16. Calm
      <4>1. StageInv
        BY Zenon DEF IInv
      <4> QED
        BY <2>1, <4>1, Zenon DEF Calm, StageInv
    <3> QED
      BY <2>1, <3>9, <3>10, <3>11, <3>13, <3>14, <3>15, <3>16, <1>CalmStep, <1>RejectKept,
         Zenon DEF IInv
  <2> QED
    BY <2>2, <2>3, Zenon

\* The result of apply_to_story.
<1>FinishInv.
  ASSUME IInv, NEW s \in Story, NEW ok \in BOOLEAN, Finish(s, ok), worker[s].pc \in {"prepare", "link"},
         UNCHANGED <<accepting, stopped, queues, chan, barrier, rejected, lost>>
  PROVE  IInv'
  <2> USE <1>FinishInv
  <2> DEFINE e == worker[s].task.of
  <2>1. TypeOK /\ worker[s].pc \in Active /\ failure \in BOOLEAN
    BY Zenon DEF IInv, TypeOK, Active
  <2>2. e \in Event /\ worker[s].task = Task("capture", e)
    BY <2>1, CaptureOf, Zenon
  <2>3. /\ worker' = [worker EXCEPT ![s].pc = "release"] /\ failure' = (failure \/ ~ok)
        /\ applied' = (IF ok THEN applied \cup {e} ELSE applied)
        /\ IF call[e].pc = "await" THEN CallGoto(e, IF ok THEN "acked" ELSE "failed") ELSE call' = call
    BY Zenon DEF Finish, CallAt
  <2>4. "release" \in WorkerPcs
    BY DEF WorkerPcs
  <2>5. OneWorker(s) /\ worker'[s].pc = "release"
    BY <2>1, <2>3, <2>4, WorkerMoves, Zenon
  <2>6. /\ call' \in [Event -> Calls] /\ \A f \in Event \ {e} : call'[f] = call[f]
        /\ \/ call' = call
           \/ call[e].pc = "await" /\ ok /\ call'[e].pc = "acked"
           \/ call[e].pc = "await" /\ ~ok /\ call'[e].pc = "failed"
    <3>1. CASE call[e].pc # "await"
      BY <2>1, <2>3, <3>1, Zenon DEF TypeOK
    <3>2. CASE call[e].pc = "await" /\ ok
      <4>1. CallGoto(e, "acked")
        BY <2>3, <3>2, Zenon
      <4> QED
        BY <2>1, <2>2, <3>2, <4>1, CallMoves, Zenon
    <3>3. CASE call[e].pc = "await" /\ ~ok
      <4>1. CallGoto(e, "failed")
        BY <2>3, <3>3, Zenon
      <4> QED
        BY <2>1, <2>2, <3>3, <4>1, CallMoves, Zenon
    <3> QED
      BY <3>1, <3>2, <3>3, Zenon
  <2>7. /\ failure' \in BOOLEAN /\ (failure => failure') /\ (~ok => failure')
        /\ applied \subseteq applied' /\ (ok => e \in applied')
    BY <2>1, <2>3, Zenon
  <2> HIDE DEF e
  <2>8. TypeOK'
    BY <2>1, <2>5, <2>6, <2>7, Zenon DEF TypeOK, OneWorker
  <2>9. Calm
    <3>1. StageInv
      BY Zenon DEF IInv
    <3>2. \A f \in Event : /\ call[f].pc \in {"returned", "acked"} => call'[f] = call[f]
                           /\ call'[f].pc \in {"reserve", "reserved"} => call'[f] = call[f]
      BY <2>6, Zenon
    <3> QED
      BY <2>7, <3>1, <3>2, Zenon DEF Calm, StageInv
  <2>10. Aside(s) /\ WorkerInv(s)'
    <3>1. worker[s].pc \notin {"command", "receipt"}
      OBVIOUS
    <3>2. Unseen(s) /\ Unseen(s)' /\ \A f \in Event : ~Capturing(s, f)'
      BY <2>5, <3>1, UnseenPcs, Zenon DEF Capturing, Active
    <3> QED
      BY <2>5, <3>2, Zenon DEF Aside, WorkerInv, Active
  <2>11. \A t \in Story : t # s => worker'[t] = worker[t] /\ WorkerInv(t)'
    BY <2>5, <1>WorkerKept, Zenon DEF IInv, OneWorker
  <2>12. \A f \in Event :
             \/ EventInv(f)'
             \/ /\ call'[f].pc \in {"returned", "acked"} => call'[f].pc = call[f].pc
                /\ \A t \in Story : Capturing(t, f) => Capturing(t, f)'
    <3> SUFFICES ASSUME NEW f \in Event
                 PROVE  \/ EventInv(f)'
                        \/ /\ call'[f].pc \in {"returned", "acked"} => call'[f].pc = call[f].pc
                           /\ \A t \in Story : Capturing(t, f) => Capturing(t, f)'
      BY Zenon
    <3>1. CASE f = e
      <4>1. EventInv(e)
        BY <2>2, Zenon DEF IInv
      <4> QED
        BY <2>6, <2>7, <3>1, <4>1, Zenon DEF EventInv, CallAt
    <3>2. CASE f # e
      <4>1. ~Capturing(s, f)
        <5>1. Task("capture", e) # Task("capture", f)
          BY <3>2, TaskParts
        <5> QED
          BY <2>2, <5>1, Zenon DEF Capturing
      <4> QED
        BY <2>6, <2>11, <3>2, <4>1, Zenon DEF Capturing
    <3> QED
      BY <3>1, <3>2, Zenon
  <2>13. worker[s].pc \notin {"none", "exited"}
    OBVIOUS
  <2> QED
    BY <2>7, <2>8, <2>9, <2>10, <2>11, <2>12, <2>13, <1>RejectKept, <1>QuietStep, Zenon

\* prepare, and the capture's own record.
<1>PrepareInv.
  ASSUME IInv, NEW s \in Story, Prepare(s)
  PROVE  IInv'
  <2> USE <1>PrepareInv
  <2>1. /\ TypeOK /\ worker[s].pc = "prepare" /\ queues \in SUBSET Story /\ failure \in BOOLEAN
        /\ worker \in [Story -> Workers] /\ worker[s] \in Workers
        /\ UNCHANGED <<accepting, stopped, queues, chan, barrier, rejected, lost>>
    BY Zenon DEF IInv, TypeOK, Prepare, At
  <2>2. CASE Finish(s, FALSE)
    BY <2>1, <2>2, <1>FinishInv, Zenon
  <2>3. CASE /\ \E n \in 0..1 : worker' = [worker EXCEPT ![s].pc = "link", ![s].left = n]
             /\ UNCHANGED <<failure, applied, call>>
    <3>1. PICK n \in 0..1 : worker' = [worker EXCEPT ![s].pc = "link", ![s].left = n]
      BY <2>3, Zenon
    <3>2. /\ worker' \in [Story -> Workers] /\ worker'[s].pc = "link"
          /\ worker'[s].task = worker[s].task /\ \A t \in Story \ {s} : worker'[t] = worker[t]
      <4> DEFINE w == [worker[s] EXCEPT !.pc = "link", !.left = n]
      <4>1. n \in Int /\ "link" \in WorkerPcs
        BY DEF WorkerPcs, Active
      <4>2. w \in Workers /\ w.pc = "link" /\ w.task = worker[s].task
        BY <2>1, <4>1, Zenon DEF Workers, WorkerPcs
      <4>3. worker' = [worker EXCEPT ![s] = w]
        BY <3>1, Zenon
      <4> HIDE DEF w
      <4> QED
        BY <2>1, <4>2, <4>3, WorkerSet, Zenon DEF OneWorker
    <3> QED
      BY <2>1, <2>3, <3>2, <1>LinkStep, Zenon
  <2> QED
    BY <2>2, <2>3, Zenon DEF Prepare

\* The record of a capture is persisted or fails.
<1>PersistInv.
  ASSUME IInv, NEW s \in Story, Persist(s)
  PROVE  IInv'
  <2> USE <1>PersistInv
  <2>1. PICK ok \in BOOLEAN : Finish(s, ok /\ ~worker[s].gap)
    BY Zenon DEF Persist
  <2>2. (ok /\ ~worker[s].gap) \in BOOLEAN
    OBVIOUS
  <2>3. /\ worker[s].pc = "link"
        /\ UNCHANGED <<accepting, stopped, queues, chan, barrier, rejected, lost>>
    BY Zenon DEF Persist, At
  <2> QED
    BY <2>1, <2>2, <2>3, <1>FinishInv, Zenon

\* The iteration ends.
<1>ReleaseInv.
  ASSUME IInv, NEW s \in Story, Release(s)
  PROVE  IInv'
  <2> USE <1>ReleaseInv
  <2>1. /\ TypeOK /\ worker[s].pc = "release" /\ worker' = [worker EXCEPT ![s] = Waiting]
        /\ UNCHANGED <<accepting, stopped, failure, queues, chan, call, barrier, rejected, lost, applied>>
    BY Zenon DEF IInv, Release, At
  <2>2. OneWorker(s) /\ worker'[s].pc = "recv"
    BY <2>1, NewWorkers, WorkerSet, Zenon
  <2>3. TypeOK'
    BY <2>1, <2>2, Zenon DEF TypeOK, OneWorker
  <2>4. /\ Aside(s) /\ WorkerInv(s)' /\ \A e \in Event : ~Capturing(s, e)
    BY <2>1, <2>2, UnseenPcs, Zenon DEF Aside, WorkerInv, Active, Capturing
  <2>5. \A t \in Story : t # s => worker'[t] = worker[t] /\ WorkerInv(t)'
    BY <2>1, <2>2, <1>WorkerKept, Zenon DEF IInv, OneWorker
  <2>6. Calm
    <3>1. StageInv
      BY Zenon DEF IInv
    <3> QED
      BY <2>1, <3>1, Zenon DEF Calm, StageInv
  <2>7. worker[s].pc \notin {"none", "exited"}
    BY <2>1
  <2>8. \A e \in Event, t \in Story : Capturing(t, e) => Capturing(t, e)'
    BY <2>4, <2>5, Zenon DEF Capturing
  <2> QED
    BY <2>1, <2>3, <2>4, <2>5, <2>6, <2>7, <2>8, <1>RejectKept, <1>QuietStep, Zenon

\* A worker receives its next task.
<1>ReceiveInv.
  ASSUME IInv, NEW s \in Story, Receive(s)
  PROVE  IInv'
  <2> USE <1>ReceiveInv
  <2> DEFINE h == Head(chan[s])
  <2>1. /\ TypeOK /\ worker[s].pc = "recv" /\ chan[s] # <<>> /\ h.kind # "stop"
        /\ chan' = [chan EXCEPT ![s] = Tail(@)]
        /\ worker' = [worker EXCEPT ![s] =
             [pc |-> IF h.kind = "capture" THEN "prepare" ELSE "command",
              task |-> h, left |-> 0, gap |-> FALSE]]
        /\ UNCHANGED <<accepting, stopped, failure, queues, call, barrier, rejected, lost, applied>>
    BY Zenon DEF IInv, Receive, At
  <2>2. /\ chan' \in [Story -> Seq(Tasks)] /\ \A r \in Story \ {s} : chan'[r] = chan[r]
        /\ h \in Tasks /\ Has(chan[s], h)
        /\ \A r \in Story : \A u : Has(chan'[r], u) => Has(chan[r], u)
        /\ \A u : Has(chan[s], u) => Has(chan'[s], u) \/ u = h
        /\ \A u : Has(chan'[s], u) => Follows(chan[s], h, u)
        /\ \A r \in Story : \A u, v : Follows(chan'[r], u, v) => Follows(chan[r], u, v)
    BY <2>1, Receives, Zenon
  <2>3. /\ OneWorker(s) /\ worker'[s].task = h
        /\ worker'[s].pc = IF h.kind = "capture" THEN "prepare" ELSE "command"
    <3> DEFINE p == IF h.kind = "capture" THEN "prepare" ELSE "command"
               w == [pc |-> p, task |-> h, left |-> 0, gap |-> FALSE]
    <3>1. p \in WorkerPcs /\ 0 \in Int /\ h \in Tasks \cup {NoTask} /\ FALSE \in BOOLEAN
      BY <2>2 DEF WorkerPcs, Active
    <3>2. worker' = [worker EXCEPT ![s] = w]
      BY <2>1, Zenon
    <3> HIDE DEF p, h
    <3>3. w \in Workers /\ w.task = h /\ w.pc = p
      BY <3>1, Zenon DEF Workers, WorkerPcs
    <3> HIDE DEF w
    <3> QED
      BY <2>1, <3>2, <3>3, WorkerSet, Zenon DEF p
  <2> HIDE DEF h
  <2>4. /\ \A k, a : h = Task(k, a) => h.kind = k /\ h.of = a
        /\ h = Task(h.kind, h.of)
        /\ \/ h.kind = "capture" /\ h.of \in Event
           \/ h.kind \in {"record", "flush"} /\ h.of \in Story
    BY <2>1, <2>2, TaskParts
  <2>5. /\ \A e \in Event : ~Capturing(s, e) /\ (Capturing(s, e)' <=> h = Task("capture", e))
        /\ ~Flushing(s) /\ (Flushing(s)' <=> h = Task("flush", s))
        /\ \A c \in Story : ~Linking(s, c) /\ (Linking(s, c)' <=> h = Task("record", c))
        /\ ~At(s, "receipt") /\ ~At(s, "receipt")'
    <3>1. worker'[s].pc \in Active <=> h.kind = "capture"
      BY <2>3 DEF Active
    <3>2. worker'[s].pc = "command" <=> h.kind # "capture"
      BY <2>3
    <3>3. worker[s].pc \notin Active /\ worker[s].pc # "command" /\ worker[s].pc # "receipt"
      BY <2>1 DEF Active
    <3>4. worker'[s].pc # "receipt"
      BY <2>3
    <3>5. \A e \in Event : ~Capturing(s, e) /\ (Capturing(s, e)' <=> h = Task("capture", e))
      BY <2>3, <2>4, <3>1, <3>3, Zenon DEF Capturing
    <3>6. ~Flushing(s) /\ (Flushing(s)' <=> h = Task("flush", s))
      <4>1. h = Task("flush", s) => h.kind # "capture"
        BY <2>4
      <4> QED
        BY <2>3, <3>2, <3>3, <4>1, Zenon DEF Flushing, At
    <3>7. \A c \in Story : ~Linking(s, c) /\ (Linking(s, c)' <=> h = Task("record", c))
      <4>1. \A c \in Story : h = Task("record", c) => h.kind # "capture"
        BY <2>4
      <4> QED
        BY <2>3, <3>2, <3>3, <4>1, Zenon DEF Linking, At
    <3> QED
      BY <3>3, <3>4, <3>5, <3>6, <3>7, Zenon DEF At
  <2>6. \A t \in Story : t # s =>
            /\ \A e \in Event : Capturing(t, e)' <=> Capturing(t, e)
            /\ \A c \in Story : Linking(t, c)' <=> Linking(t, c)
            /\ Flushing(t)' <=> Flushing(t)
    BY <2>3, Zenon DEF OneWorker, Capturing, Flushing, Linking, At
  <2>7. \A t \in Story : At(t, "receipt")' <=> At(t, "receipt")
    BY <2>3, <2>5, Zenon DEF OneWorker, At
  <2>8. TypeOK'
    BY <2>1, <2>2, <2>3, Zenon DEF TypeOK, OneWorker
  <2>9. \A t \in Story, e \in Event : Held(t, e)' <=> Held(t, e)
    <3> SUFFICES ASSUME NEW t \in Story, NEW e \in Event PROVE Held(t, e)' <=> Held(t, e)
      BY Zenon
    <3>1. CASE t = s
      BY <2>2, <2>5, <3>1, Zenon DEF Held
    <3>2. CASE t # s
      BY <2>2, <2>6, <3>2, Zenon DEF Held
    <3> QED
      BY <3>1, <3>2, Zenon
  <2>10. h.kind = "flush" => h = Task("flush", s)
    <3>1. SignalInv(s)
      BY Zenon DEF IInv
    <3> QED
      BY <2>2, <2>4, <3>1, Zenon DEF SignalInv
  <2>11. \A t \in Story : SignalInv(t)'
    <3>1. \A t \in Story : Signal(t)' => Signal(t)
      BY <2>2, <2>5, <2>6, Zenon DEF Signal
    <3> SUFFICES ASSUME NEW t \in Story PROVE SignalInv(t)'
      BY Zenon
    <3>2. SignalInv(t)
      BY Zenon DEF IInv
    <3>3. /\ \A k \in {"flush", "stop"} : \A r \in Story : Has(chan'[t], Task(k, r)) => r = t
          /\ Signal(t)' => /\ barrier.pc = "sent" /\ t \in barrier.left
                           /\ \A r \in Story : Signal(r)' => r = t
      BY <2>2, <3>1, <3>2, Zenon DEF SignalInv, BarrierAt
    <3>4. Has(chan'[t], Task("flush", t)) =>
              /\ ~stopped /\ ~Flushing(t)'
              /\ ~Follows(chan'[t], Task("flush", t), Task("flush", t))
      <4> DEFINE f == Task("flush", t)
      <4> SUFFICES ASSUME Has(chan'[t], f)
                   PROVE  ~stopped /\ ~Flushing(t)' /\ ~Follows(chan'[t], f, f)
        BY Zenon
      <4>1. Has(chan[t], f) /\ (Follows(chan'[t], f, f) => Follows(chan[t], f, f))
        BY <2>2, Zenon
      <4>2. ~stopped /\ ~Flushing(t) /\ ~Follows(chan[t], f, f)
        BY <3>2, <4>1, Zenon DEF SignalInv
      <4>3. CASE t = s
        <5>1. h # f
          BY <2>2, <4>2, <4>3, Zenon
        <5> QED
          BY <2>5, <4>1, <4>2, <4>3, <5>1, Zenon
      <4>4. CASE t # s
        BY <2>6, <4>1, <4>2, <4>4, Zenon
      <4> QED
        BY <4>3, <4>4, Zenon
    <3>5. Has(chan'[t], Task("stop", t)) =>
              stopped /\ ~Follows(chan'[t], Task("stop", t), Task("stop", t))
      BY <2>2, <3>2, Zenon DEF SignalInv
    <3>6. Flushing(t)' => ~stopped
      BY <2>2, <2>5, <2>6, <3>2, Zenon DEF SignalInv
    <3> QED
      BY <2>1, <3>3, <3>4, <3>5, <3>6, Zenon DEF SignalInv, BarrierAt
  <2>12. \A t, c \in Story : RecordInv(t, c)'
    <3> SUFFICES ASSUME NEW t \in Story, NEW c \in Story PROVE RecordInv(t, c)'
      BY Zenon
    <3>1. RecordInv(t, c) /\ (At(c, "receipt")' <=> At(c, "receipt"))
      BY <2>7, Zenon DEF IInv
    <3>2. CASE t = s
      <4>1. Linking(s, c)' => Has(chan[s], Task("record", c))
        BY <2>2, <2>5, Zenon
      <4>2. Has(chan'[s], Task("record", c)) /\ Linking(s, c)' =>
                Follows(chan[s], Task("record", c), Task("record", c))
        BY <2>2, <2>5, Zenon
      <4> QED
        BY <2>2, <3>1, <3>2, <4>1, <4>2, Zenon DEF RecordInv
    <3>3. CASE t # s
      BY <2>2, <2>6, <3>1, <3>3, Zenon DEF RecordInv
    <3> QED
      BY <3>2, <3>3, Zenon
  <2>13. \A t \in Story, e \in Event : HeldInv(t, e)'
    <3> SUFFICES ASSUME NEW t \in Story, NEW e \in Event PROVE HeldInv(t, e)'
      BY Zenon
    <3>1. HeldInv(t, e) /\ (Held(t, e)' <=> Held(t, e)) /\ (Guarded(e)' <=> Guarded(e))
      BY <2>1, <2>9, Zenon DEF IInv, Guarded
    <3>2. Follows(chan'[t], Task("flush", t), Task("capture", e)) =>
              Follows(chan[t], Task("flush", t), Task("capture", e))
      BY <2>2, Zenon
    <3>3. Flushing(t)' /\ Has(chan'[t], Task("capture", e)) =>
              \/ Flushing(t) /\ Has(chan[t], Task("capture", e))
              \/ Follows(chan[t], Task("flush", t), Task("capture", e))
      <4>1. CASE t = s
        BY <2>2, <2>5, <4>1, Zenon
      <4>2. CASE t # s
        BY <2>2, <2>6, <4>2, Zenon
      <4> QED
        BY <4>1, <4>2, Zenon
    <3> QED
      BY <2>1, <3>1, <3>2, <3>3, Zenon DEF HeldInv
  <2>14. \A t \in Story : WorkerInv(t)' /\ IdleInv(t)'
    <3>1. WorkerInv(s)'
      <4>1. h.kind = "capture" => worker'[s].pc = "prepare"
        BY <2>3, Zenon
      <4>2. h.kind # "capture" => worker'[s].pc = "command" /\ (Flushing(s)' \/ \E c \in Story : Linking(s, c)')
        BY <2>3, <2>4, <2>5, <2>10, Zenon
      <4> QED
        BY <2>3, <4>1, <4>2, Zenon DEF WorkerInv, Active
    <3>2. \A t \in Story : t # s => WorkerInv(t)'
      BY <2>1, <2>3, <1>WorkerKept, Zenon DEF OneWorker, IInv
    <3>3. worker[s].pc \notin {"none", "exited"}
      BY <2>1
    <3>4. \A t \in Story : IdleInv(t)'
      BY <2>1, <2>2, <2>3, <3>3, <1>IdleKept, Zenon DEF OneWorker, IInv
    <3> QED
      BY <3>1, <3>2, <3>4, Zenon
  <2>15. \A e \in Event : EventInv(e)'
    BY <2>1, <2>9, <1>EventKept, Zenon DEF IInv
  <2>16. Calm
    <3>1. StageInv
      BY Zenon DEF IInv
    <3> QED
      BY <2>1, <3>1, Zenon DEF Calm, StageInv
  <2> QED
    BY <2>1, <2>8, <2>11, <2>12, <2>13, <2>14, <2>15, <2>16, <1>CalmStep, <1>RejectKept,
       Zenon DEF IInv

\* The main story handles a link record and its sender goes on.
<1>ReceiptInv.
  ASSUME IInv, NEW s \in Story, NEW c \in Story, Linking(s, c), NEW ok \in BOOLEAN,
         failure' = (failure \/ ~ok),
         worker' = [worker EXCEPT ![s].pc = "release", ![c] = Receipt(@, ok)],
         UNCHANGED <<accepting, stopped, queues, chan, call, barrier, rejected, lost, applied>>
  PROVE  IInv'
  <2> USE <1>ReceiptInv
  <2>1. /\ TypeOK /\ RecordInv(s, c) /\ WorkerInv(c) /\ failure \in BOOLEAN
        /\ worker \in [Story -> Workers] /\ worker[s] \in Workers /\ worker[c] \in Workers
    BY Zenon DEF IInv, TypeOK
  <2>2. s = Main /\ worker[c].pc = "receipt" /\ c # s
    BY <2>1, Zenon DEF RecordInv, WorkerInv, At
  <2>3. worker[s].pc = "command" /\ worker[c].task.kind = "capture"
    BY <2>1, <2>2, Zenon DEF WorkerInv, Active, Linking, At
  <2> DEFINE v == [worker[s] EXCEPT !.pc = "release"]
             w == Receipt(worker[c], ok)
  <2>4. /\ v \in Workers /\ v.pc = "release" /\ w \in Workers /\ w.pc = "link"
        /\ w.task = worker[c].task
    <3>1. "release" \in WorkerPcs
      BY DEF WorkerPcs
    <3>2. v \in Workers /\ v.pc = "release"
      BY <2>1, <3>1 DEF Workers, WorkerPcs
    <3> QED
      BY <2>1, <3>2, Answered
  <2>5. /\ worker' \in [Story -> Workers] /\ worker'[s] = v /\ worker'[c] = w
        /\ \A t \in Story \ {s, c} : worker'[t] = worker[t]
    <3>1. worker' = [worker EXCEPT ![s] = v, ![c] = w]
      BY <2>1, <2>2
    <3> HIDE DEF v, w
    <3> QED
      BY <2>1, <2>2, <2>4, <3>1
  <2>6. /\ worker'[s].pc = "release" /\ worker'[c].pc = "link" /\ worker'[c].task = worker[c].task
    BY <2>4, <2>5, Zenon
  <2> HIDE DEF v, w
  <2>7. /\ \A t \in Story, e \in Event : Capturing(t, e)' <=> Capturing(t, e)
        /\ \A t \in Story : Flushing(t)' <=> Flushing(t)
        /\ \A t, d \in Story : Linking(t, d)' => Linking(t, d) /\ t # s
        /\ \A t \in Story : t # c => (At(t, "receipt")' <=> At(t, "receipt"))
    <3>1. ~Flushing(s)
      <4>1. Task("record", c) # Task("flush", s)
        BY TaskParts
      <4> QED
        BY <4>1, Zenon DEF Flushing, Linking
    <3>2. \A t \in Story : t = s \/ t = c \/ worker'[t] = worker[t]
      BY <2>5, Zenon
    <3>3. \A t \in Story : t = s \/ t = c \/
              /\ \A e \in Event : Capturing(t, e)' <=> Capturing(t, e)
              /\ \A d \in Story : Linking(t, d)' <=> Linking(t, d)
              /\ Flushing(t)' <=> Flushing(t)
              /\ At(t, "receipt")' <=> At(t, "receipt")
      BY <3>2, Zenon DEF Capturing, Linking, Flushing, At
    <3>4. /\ \A e \in Event : ~Capturing(s, e)' /\ ~Capturing(s, e)
          /\ \A d \in Story : ~Linking(s, d)'
          /\ ~Flushing(s)' /\ ~At(s, "receipt")' /\ ~At(s, "receipt")
      BY <2>3, <2>6, Zenon DEF Capturing, Linking, Flushing, At, Active
    <3>5. /\ \A e \in Event : Capturing(c, e)' <=> Capturing(c, e)
          /\ \A d \in Story : ~Linking(c, d)'
          /\ ~Flushing(c)' /\ ~Flushing(c)
      BY <2>2, <2>6, Zenon DEF Capturing, Linking, Flushing, At, Active
    <3> QED
      BY <2>2, <3>1, <3>3, <3>4, <3>5, Zenon
  <2>8. failure' \in BOOLEAN /\ (failure => failure')
    BY <2>1, Zenon
  <2>9. TypeOK'
    BY <2>1, <2>5, <2>8, Zenon DEF TypeOK
  <2>10. \A t \in Story : SignalInv(t)'
    <3>1. \A t \in Story : Signal(t)' <=> Signal(t)
      BY <2>7, Zenon DEF Signal
    <3> SUFFICES ASSUME NEW t \in Story PROVE SignalInv(t)'
      BY Zenon
    <3>2. SignalInv(t) /\ (Flushing(t)' <=> Flushing(t))
      BY <2>7, Zenon DEF IInv
    <3> QED
      BY <3>1, <3>2, Zenon DEF SignalInv, BarrierAt
  <2>11. \A t, d \in Story : RecordInv(t, d)'
    <3> SUFFICES ASSUME NEW t \in Story, NEW d \in Story PROVE RecordInv(t, d)'
      BY Zenon
    <3>1. RecordInv(t, d) /\ RecordInv(s, c)
      BY Zenon DEF IInv
    <3>2. CASE d = c
      <4>1. ~Has(chan[t], Task("record", c)) /\ ~Linking(t, c)'
        BY <2>2, <2>7, <3>1, <3>2, Zenon DEF RecordInv
      <4> QED
        BY <3>2, <4>1, Zenon DEF RecordInv
    <3>3. CASE d # c
      BY <2>7, <3>1, <3>3, Zenon DEF RecordInv
    <3> QED
      BY <3>2, <3>3, Zenon
  <2>12. \A t \in Story, e \in Event : Held(t, e)' <=> Held(t, e)
    BY <2>7, Zenon DEF Held
  <2>13. \A t \in Story, e \in Event : HeldInv(t, e)'
    <3> SUFFICES ASSUME NEW t \in Story, NEW e \in Event PROVE HeldInv(t, e)'
      BY Zenon
    <3>1. HeldInv(t, e) /\ (Held(t, e)' <=> Held(t, e)) /\ (Flushing(t)' <=> Flushing(t))
      BY <2>7, <2>12, Zenon DEF IInv
    <3> QED
      BY <3>1, Zenon DEF HeldInv, Guarded
  <2>14. \A t \in Story : WorkerInv(t)' /\ IdleInv(t)'
    <3>1. WorkerInv(s)' /\ WorkerInv(c)'
      BY <2>3, <2>6 DEF WorkerInv, Active
    <3>2. \A t \in Story : t = s \/ t = c \/ WorkerInv(t)'
      BY <2>5, <1>WorkerKept, Zenon DEF IInv
    <3>3. worker[s].pc \notin {"none", "exited"} /\ worker[c].pc \notin {"none", "exited"}
      BY <2>2, <2>3
    <3>4. \A t \in Story : IdleInv(t)'
      BY <2>5, <3>3, <1>IdleKept, Zenon DEF IInv
    <3> QED
      BY <3>1, <3>2, <3>4, Zenon
  <2>15. \A e \in Event : EventInv(e)'
    BY <2>8, <2>12, <1>EventKept, Zenon DEF IInv
  <2>16. Calm
    <3>1. StageInv
      BY Zenon DEF IInv
    <3> QED
      BY <3>1, Zenon DEF Calm, StageInv
  <2> QED
    BY <2>9, <2>10, <2>11, <2>13, <2>14, <2>15, <2>16, <1>CalmStep, <1>RejectKept, Zenon DEF IInv

\* Nothing is queued for the writer behind a marker before the workers have ended.
<1>NoMarker.
  ASSUME IInv, barrier.pc # "drain", UNCHANGED rejected, barrier'.pc # "done"
  PROVE  RejectInv'
  BY <1>NoMarker, Zenon DEF IInv, RejectInv, BarrierAt

\* A queue answers the Flush task: it holds none of the events the barrier waits for.
<1>FlushAnswerInv.
  ASSUME IInv, NEW s \in Story, Flushing(s), NEW ok \in BOOLEAN, failure' = (failure \/ ~ok),
         worker' = [worker EXCEPT ![s].pc = "release"],
         barrier' = [barrier EXCEPT !.pc = "flush", !.left = @ \ {s}, !.ok = @ /\ ok],
         UNCHANGED <<accepting, stopped, queues, chan, call, rejected, lost, applied>>
  PROVE  IInv'
  <2> USE <1>FlushAnswerInv
  <2>1. TypeOK /\ SignalInv(s) /\ failure \in BOOLEAN /\ barrier \in Barriers
    BY Zenon DEF IInv, TypeOK
  <2>2. /\ barrier.pc = "sent" /\ s \in barrier.left /\ ~stopped
        /\ \A t \in Story : Signal(t) => t = s
        /\ ~Has(chan[s], Task("flush", s)) /\ ~Has(chan[s], Task("stop", s))
    BY <2>1, Zenon DEF SignalInv, Signal, BarrierAt
  <2>3. /\ barrier.left \in SUBSET Story /\ barrier.ok \in BOOLEAN /\ "flush" \in BarrierPcs
        /\ "release" \in WorkerPcs /\ (barrier.left \ {s}) \in SUBSET Story
    BY <2>1 DEF Barriers, BarrierPcs, WorkerPcs
  <2>4. BarrierNow("flush", barrier.left \ {s}, (barrier.ok /\ ok))
    <3> DEFINE left == barrier.left \ {s}
               answer == (barrier.ok /\ ok)
    <3>1. left \in SUBSET Story /\ answer \in BOOLEAN
      BY <2>3
    <3>2. barrier' = [barrier EXCEPT !.pc = "flush", !.left = left, !.ok = answer]
      OBVIOUS
    <3> HIDE DEF left, answer
    <3>3. BarrierNow("flush", left, answer)
      BY <2>1, <2>3, <3>1, <3>2, BarrierMoves, Zenon
    <3> QED
      BY <3>3 DEF left, answer
  <2>5. OneWorker(s) /\ worker'[s].pc = "release" /\ worker[s].pc = "command"
    BY <2>1, <2>3, WorkerMoves, Zenon DEF Flushing, At
  <2>6. /\ \A t \in Story, e \in Event : (Capturing(t, e)' <=> Capturing(t, e)) /\ ~Capturing(s, e)
        /\ \A t \in Story : Flushing(t)' => Flushing(t) /\ t # s
        /\ \A t, c \in Story : Linking(t, c)' <=> Linking(t, c)
        /\ \A t \in Story : At(t, "receipt")' <=> At(t, "receipt")
    <3>1. /\ \A e \in Event : ~Capturing(s, e)' /\ ~Capturing(s, e)
          /\ ~Flushing(s)' /\ ~At(s, "receipt")' /\ ~At(s, "receipt")
          /\ \A c \in Story : ~Linking(s, c)'
      BY <2>5 DEF Capturing, Linking, Flushing, At, Active
    <3>2. \A c \in Story : ~Linking(s, c)
      <4>1. \A c \in Story : Task("record", c) # Task("flush", s)
        BY TaskParts
      <4> QED
        BY <4>1, Zenon DEF Linking, Flushing
    <3>3. \A t \in Story : t # s =>
              /\ \A e \in Event : Capturing(t, e)' <=> Capturing(t, e)
              /\ \A c \in Story : Linking(t, c)' <=> Linking(t, c)
              /\ Flushing(t)' <=> Flushing(t)
              /\ At(t, "receipt")' <=> At(t, "receipt")
      BY <2>5, Zenon DEF OneWorker, Capturing, Linking, Flushing, At
    <3> QED
      BY <3>1, <3>2, <3>3, Zenon
  <2>7. failure' \in BOOLEAN /\ (failure => failure')
    BY <2>1, Zenon
  <2>8. TypeOK'
    BY <2>1, <2>4, <2>5, <2>7, Zenon DEF TypeOK, OneWorker, BarrierNow
  <2>9. \A t \in Story : ~Signal(t)'
    <3>1. \A t \in Story : Signal(t)' => Signal(t) /\ t # s
      <4>1. ~Signal(s)'
        BY <2>2, <2>6, Zenon DEF Signal
      <4> QED
        BY <2>6, <4>1, Zenon DEF Signal
    <3> QED
      BY <2>2, <3>1, Zenon
  <2>10. \A t \in Story : SignalInv(t)'
    <3> SUFFICES ASSUME NEW t \in Story PROVE SignalInv(t)'
      BY Zenon
    <3>1. SignalInv(t) /\ ~Signal(t)'
      BY <2>9, Zenon DEF IInv
    <3> QED
      BY <3>1, Zenon DEF SignalInv, Signal
  <2>11. \A t, c \in Story : RecordInv(t, c)'
    <3> SUFFICES ASSUME NEW t \in Story, NEW c \in Story PROVE RecordInv(t, c)'
      BY Zenon
    <3>1. RecordInv(t, c)
      BY Zenon DEF IInv
    <3> QED
      BY <2>6, <3>1, Zenon DEF RecordInv
  <2>12. \A t \in Story, e \in Event : Held(t, e)' <=> Held(t, e)
    BY <2>6, Zenon DEF Held
  <2>13. \A t \in Story, e \in Event : HeldInv(t, e)'
    <3> SUFFICES ASSUME NEW t \in Story, NEW e \in Event, Held(t, e), Guarded(e)
                 PROVE  t \in queues /\ t \in barrier.left \ {s}
                        /\ ~Follows(chan[t], Task("flush", t), Task("capture", e))
                        /\ (Flushing(t)' => ~Has(chan[t], Task("capture", e)))
      <4>1. \A t \in Story, e \in Event : (Held(t, e) => t \in queues) /\ (Guarded(e)' <=> Guarded(e))
        BY <2>4, Zenon DEF IInv, HeldInv, Guarded, BarrierNow
      <4> QED
        BY <2>4, <2>12, <4>1 DEF HeldInv, BarrierNow
    <3>1. HeldInv(t, e)
      BY Zenon DEF IInv
    <3>2. /\ t \in queues /\ t \in barrier.left
          /\ ~Follows(chan[t], Task("flush", t), Task("capture", e))
          /\ Flushing(t) => ~Has(chan[t], Task("capture", e))
      BY <2>2, <3>1 DEF HeldInv
    <3>3. t # s
      BY <2>6, <3>2, Zenon DEF Held
    <3> QED
      BY <2>6, <3>2, <3>3, Zenon
  <2>14. \A t \in Story : WorkerInv(t)' /\ IdleInv(t)'
    <3>1. WorkerInv(s)'
      BY <2>5 DEF WorkerInv, Active
    <3>2. \A t \in Story : t # s => WorkerInv(t)'
      BY <2>5, <1>WorkerKept, Zenon DEF IInv, OneWorker
    <3>3. \A t \in Story : IdleInv(t)'
      <4> SUFFICES ASSUME NEW t \in Story PROVE IdleInv(t)'
        BY Zenon
      <4>1. t \in queues \/ (chan[t] = <<>> /\ worker[t].pc \in {"none", "exited"})
        BY <2>2, Zenon DEF IInv, IdleInv
      <4>2. t = s => t \in queues
        BY <2>5, <4>1
      <4> QED
        BY <2>5, <4>1, <4>2, Zenon DEF IdleInv, OneWorker
    <3> QED
      BY <3>1, <3>2, <3>3, Zenon
  <2>15. \A e \in Event : EventInv(e)'
    BY <2>7, <2>12, <1>EventKept, Zenon DEF IInv
  <2>16. StageInv'
    <3>1. StageInv
      BY Zenon DEF IInv
    <3> QED
      BY <2>2, <2>4, <3>1 DEF StageInv, BarrierNow, BarrierAt
  <2>17. AnswerInv'
    <3>1. barrier.before \subseteq Submitted /\ Submitted' = Submitted
      BY Zenon DEF IInv, AnswerInv, Submitted
    <3> QED
      BY <2>4, <3>1 DEF AnswerInv, BarrierNow, BarrierAt
  <2>18. RejectInv'
    <3>1. barrier.pc # "drain" /\ barrier'.pc # "done"
      BY <2>2, <2>4 DEF BarrierNow
    <3> QED
      BY <3>1, <1>NoMarker, Zenon
  <2> QED
    BY <2>8, <2>10, <2>11, <2>13, <2>14, <2>15, <2>16, <2>17, <2>18, Zenon DEF IInv

\* Command: a link record, or the barrier's Flush task.
<1>CommandInv.
  ASSUME IInv, NEW s \in Story, Command(s)
  PROVE  IInv'
  <2> USE <1>CommandInv
  <2> DEFINE t == worker[s].task
  <2>1. /\ worker[s].pc = "command" /\ WorkerInv(s)
        /\ UNCHANGED <<accepting, stopped, queues, chan, call, rejected, lost, applied>>
    BY Zenon DEF IInv, Command, At
  <2>2. PICK ok \in BOOLEAN :
            /\ failure' = (failure \/ ~ok)
            /\ IF t.kind = "record"
               THEN /\ worker' = [worker EXCEPT ![s].pc = "release", ![t.of] = Receipt(@, ok)]
                    /\ UNCHANGED barrier
               ELSE /\ worker' = [worker EXCEPT ![s].pc = "release"]
                    /\ barrier' = [barrier EXCEPT !.pc = "flush", !.left = @ \ {s}, !.ok = @ /\ ok]
    BY Zenon DEF Command
  <2>3. CASE Flushing(s)
    <3>1. t.kind # "record"
      <4>1. t = Task("flush", s)
        BY <2>3 DEF Flushing
      <4> QED
        BY <4>1, TaskParts
    <3> QED
      BY <2>1, <2>2, <2>3, <3>1, <1>FlushAnswerInv, Zenon
  <2>4. ASSUME NEW c \in Story, Linking(s, c) PROVE IInv'
    <3>1. t.kind = "record" /\ t.of = c
      <4>1. t = Task("record", c)
        BY <2>4 DEF Linking
      <4> QED
        BY <4>1, TaskParts
    <3> QED
      BY <2>1, <2>2, <2>4, <3>1, <1>ReceiptInv, Zenon
  <2> QED
    BY <2>1, <2>3, <2>4, Zenon DEF WorkerInv

\* A worker that is told to stop drops what is left in its channel, which is nothing.
<1>StopWorkerInv.
  ASSUME IInv, NEW s \in Story, StopWorker(s)
  PROVE  IInv'
  <2> USE <1>StopWorkerInv
  <2>1. /\ TypeOK /\ stopped /\ barrier.pc = "sent" /\ \A t \in Story : Signal(t) => t = s
        /\ UNCHANGED <<accepting, stopped, failure, call, queues, rejected, lost, applied>>
    BY StopWorkerStep, Zenon DEF IInv
  <2>4. stopped /\ barrier.pc = "sent" /\ \A t \in Story : Signal(t) => t = s
    BY <2>1, Zenon
  <2>5. /\ \A t \in Story, e \in Event : ~Held(t, e)
        /\ \A t \in Story : worker[t].pc \notin Active
        /\ \A t, c \in Story : ~Has(chan[t], Task("record", c)) /\ ~Linking(t, c)
    BY <2>4, Drained, Zenon
  <2>7. failure' = failure /\ failure \in BOOLEAN
    BY <2>1, Zenon DEF TypeOK
  <2>8. call' = call
    BY <2>1, Zenon
  <2>9. OneWorker(s) /\ worker'[s].pc = "exited"
    BY StopWorkerStep, NewWorkers, Zenon
  <2>10. BarrierNow("stop", barrier.left \ {s}, barrier.ok)
    BY StopWorkerStep, Zenon
  <2>11. /\ chan' \in [Story -> Seq(Tasks)] /\ chan'[s] = <<>>
         /\ \A t \in Story \ {s} : chan'[t] = chan[t]
    BY StopWorkerStep, Zenon
  <2>12. \A t \in Story : \A u : Has(chan'[t], u) => Has(chan[t], u) /\ t # s
    BY <2>11, EmptyQueue, Zenon
  <2>13. TypeOK'
    BY <2>1, <2>7, <2>8, <2>9, <2>10, <2>11, Zenon DEF TypeOK, OneWorker, BarrierNow
  <2>14. \A t \in Story :
             /\ worker'[t].pc \notin Active /\ \A e \in Event : ~Held(t, e)'
             /\ \A c \in Story : ~Linking(t, c)'
             /\ Flushing(t)' => Flushing(t) /\ t # s
    <3> SUFFICES ASSUME NEW t \in Story
                 PROVE  /\ worker'[t].pc \notin Active /\ \A e \in Event : ~Held(t, e)'
                        /\ \A c \in Story : ~Linking(t, c)'
                        /\ Flushing(t)' => Flushing(t) /\ t # s
      BY Zenon
    <3>1. worker'[t].pc \notin Active
      BY <2>5, <2>9 DEF OneWorker, Active
    <3>2. CASE t = s
      BY <2>9, <2>12, <3>1, <3>2 DEF Held, Capturing, Linking, Flushing, At
    <3>3. CASE t # s
      BY <2>5, <2>9, <2>12, <3>1, <3>3, Zenon DEF Held, Capturing, Linking, Flushing, At, OneWorker
    <3> QED
      BY <3>2, <3>3, Zenon
  <2>15. \A t \in Story : ~Signal(t)'
    BY <2>4, <2>12, <2>14, Zenon DEF Signal
  <2>16. \A t \in Story : SignalInv(t)'
    <3> SUFFICES ASSUME NEW t \in Story PROVE SignalInv(t)'
      BY Zenon
    <3>1. SignalInv(t) /\ ~Signal(t)'
      BY <2>15, Zenon DEF IInv
    <3> QED
      BY <2>12, <3>1, Zenon DEF SignalInv, Signal
  <2>17. \A t, c \in Story : RecordInv(t, c)'
    BY <2>5, <2>12, <2>14, Zenon DEF RecordInv
  <2>18. \A t \in Story, e \in Event : HeldInv(t, e)'
    BY <2>14, Zenon DEF HeldInv
  <2>19. \A t \in Story : WorkerInv(t)'
    <3>1. WorkerInv(s)'
      BY <2>9 DEF WorkerInv, Active
    <3> QED
      BY <2>1, <2>9, <3>1, <1>WorkerKept, Zenon DEF IInv, OneWorker
  <2>20. \A t \in Story : IdleInv(t)'
    <3> SUFFICES ASSUME NEW t \in Story PROVE IdleInv(t)'
      BY Zenon
    <3>1. CASE t = s
      BY <2>9, <2>11, <3>1 DEF IdleInv
    <3>2. CASE t # s
      <4>1. IdleInv(t) /\ chan'[t] = chan[t] /\ worker'[t] = worker[t]
        BY <2>9, <2>11, <3>2, Zenon DEF IInv, OneWorker
      <4> QED
        BY <2>1, <2>10, <3>2, <4>1 DEF IdleInv, BarrierNow
    <3> QED
      BY <3>1, <3>2, Zenon
  <2>21. \A e \in Event : EventInv(e)'
    <3> SUFFICES ASSUME NEW e \in Event PROVE EventInv(e)'
      BY Zenon
    <3>1. EventInv(e) /\ applied' = applied
      BY <2>1, Zenon DEF IInv
    <3> QED
      BY <2>5, <2>7, <2>8, <3>1, Zenon DEF EventInv, CallAt
  <2>22. StageInv' /\ AnswerInv'
    <3>1. StageInv /\ AnswerInv /\ Submitted' = Submitted
      BY <2>8, Zenon DEF IInv, Submitted
    <3>2. StageInv'
      BY <2>1, <2>4, <2>8, <2>10, <3>1, Zenon DEF StageInv, BarrierNow, BarrierAt
    <3>3. AnswerInv'
      BY <2>1, <2>4, <2>10, <3>1 DEF AnswerInv, BarrierNow, BarrierAt
    <3> QED
      BY <3>2, <3>3, Zenon
  <2>23. RejectInv'
    <3>1. barrier.pc # "drain" /\ barrier'.pc # "done"
      BY <2>4, <2>10 DEF BarrierNow
    <3> QED
      BY <2>1, <3>1, <1>NoMarker, Zenon
  <2> QED
    BY <2>13, <2>16, <2>17, <2>18, <2>19, <2>20, <2>21, <2>22, <2>23, Zenon DEF IInv

(* The steps of flush and shutdown between two answers.                     *)

\* Between two answers no task of the barrier is on its way.
<1>NoSignal.
  ASSUME IInv, barrier.pc # "sent"
  PROVE  \A t \in Story : ~Signal(t)
  BY <1>NoSignal, Zenon DEF IInv, SignalInv, BarrierAt

\* The barrier moves on while the channels, the workers and the callers stand still.
<1>BarrierStep.
  ASSUME IInv, TypeOK', barrier.pc # "sent",
         UNCHANGED <<chan, worker, call, applied, failure>>,
         ~stopped' => ~stopped /\ queues' = queues,
         \A t \in Story, e \in Event : Held(t, e) =>
             /\ t \in queues'
             /\ Guarded(e)' => /\ barrier'.pc \in {"begin", "flush", "sent"}
                               /\ barrier'.pc # "begin" => t \in barrier'.left,
         \A t \in Story : IdleInv(t)',
         StageInv', AnswerInv', RejectInv'
  PROVE  IInv'
  <2> USE <1>BarrierStep
  <2>1. \A t \in Story :
            /\ Flushing(t)' <=> Flushing(t)
            /\ \A e \in Event : Held(t, e)' <=> Held(t, e)
            /\ \A c \in Story : Linking(t, c)' <=> Linking(t, c)
    BY Zenon DEF Held, Capturing, Flushing, Linking, At
  <2>2. \A t \in Story : ~Signal(t) /\ ~Signal(t)'
    BY <2>1, <1>NoSignal, Zenon DEF Signal
  <2>3. \A t \in Story : SignalInv(t)'
    <3> SUFFICES ASSUME NEW t \in Story PROVE SignalInv(t)'
      BY Zenon
    <3>1. SignalInv(t) /\ ~Signal(t)'
      BY <2>2, Zenon DEF IInv
    <3> QED
      BY <3>1, Zenon DEF SignalInv, Signal
  <2>4. \A t, c \in Story : RecordInv(t, c)'
    BY <2>1, Zenon DEF IInv, RecordInv, At
  <2>5. \A t \in Story, e \in Event : HeldInv(t, e)'
    <3> SUFFICES ASSUME NEW t \in Story, NEW e \in Event, Held(t, e)' PROVE HeldInv(t, e)'
      BY Zenon DEF HeldInv
    <3>1. Held(t, e) /\ HeldInv(t, e)
      BY <2>1, Zenon DEF IInv
    <3>2. ~Follows(chan[t], Task("flush", t), Task("capture", e)) /\ ~Flushing(t)'
      BY <2>1, <2>2, <1>FollowsHas, Zenon DEF Signal
    <3> QED
      BY <3>1, <3>2, Zenon DEF HeldInv
  <2>6. \A t \in Story : WorkerInv(t)'
    <3> SUFFICES ASSUME NEW t \in Story PROVE WorkerInv(t)'
      BY Zenon
    <3>1. WorkerInv(t)
      BY Zenon DEF IInv
    <3> QED
      BY <2>1, <3>1, Zenon DEF WorkerInv
  <2>7. \A e \in Event : EventInv(e)'
    BY <2>1, <1>EventKept, Zenon DEF IInv
  <2> QED
    BY <2>3, <2>4, <2>5, <2>6, <2>7, Zenon DEF IInv

\* A barrier that has not been sent anything yet changes nobody's idleness.
<1>IdleStill.
  ASSUME IInv, barrier.pc \notin {"stop", "sent"}, UNCHANGED <<chan, worker, queues>>
  PROVE  \A t \in Story : IdleInv(t)'
  BY <1>IdleStill, Zenon DEF IInv, IdleInv

\* Begin: the barrier waits for what was submitted before.
<1>BeginInv.
  ASSUME IInv, NEW kind \in {"flush", "shutdown"}, Begin(kind)
  PROVE  IInv'
  <2> USE <1>BeginInv
  <2>1. /\ TypeOK /\ StageInv /\ barrier.pc \in {"none", "done"}
        /\ barrier' = [NoBarrier EXCEPT !.pc = "begin", !.kind = kind, !.before = Submitted]
        /\ accepting' = (accepting /\ kind = "flush")
        /\ UNCHANGED <<stopped, failure, queues, chan, worker, call, rejected, lost, applied>>
    BY Zenon DEF IInv, Begin
  <2>2. /\ barrier' \in Barriers /\ barrier'.pc = "begin" /\ barrier'.kind = kind
        /\ barrier'.before = Submitted
    <3>1. Submitted \in SUBSET Event
      BY DEF Submitted
    <3> QED
      BY <2>1, <3>1, Zenon DEF NoBarrier, Barriers
  <2>3. TypeOK'
    <3>1. accepting' \in BOOLEAN
      BY <2>1, Zenon DEF TypeOK
    <3> QED
      BY <2>1, <2>2, <3>1, Zenon DEF TypeOK
  <2>4. Submitted' = Submitted
    BY <2>1, Zenon DEF Submitted
  <2>5. \A t \in Story : IdleInv(t)'
    <3>1. barrier.pc \notin {"stop", "sent"}
      BY <2>1
    <3> QED
      BY <2>1, <3>1, <1>IdleStill, Zenon
  <2>6. StageInv'
    <3>1. barrier'.kind = "shutdown" => ~accepting'
      BY <2>1, <2>2, Zenon
    <3>2. accepting' => accepting
      BY <2>1, Zenon
    <3> QED
      BY <2>1, <2>2, <3>1, <3>2 DEF StageInv, BarrierAt
  <2>7. AnswerInv'
    BY <2>2, <2>4 DEF AnswerInv, BarrierAt
  <2>8. barrier.pc # "drain" /\ barrier.pc # "sent" /\ barrier'.pc # "done"
    BY <2>1, <2>2
  <2>9. RejectInv'
    BY <2>1, <2>8, <1>NoMarker, Zenon
  <2>10. \A t \in Story, e \in Event : Held(t, e) => t \in queues'
    BY <2>1, Zenon DEF IInv, HeldInv
  <2> QED
    BY <2>1, <2>2, <2>3, <2>5, <2>6, <2>7, <2>8, <2>9, <2>10, <1>BarrierStep, Zenon

\* Snapshot: every queue that holds an event is asked.
<1>SnapshotInv.
  ASSUME IInv, Snapshot
  PROVE  IInv'
  <2> USE <1>SnapshotInv
  <2>1. /\ TypeOK /\ StageInv /\ AnswerInv /\ barrier.pc = "begin"
        /\ barrier' = [barrier EXCEPT !.pc = "flush", !.left = queues]
        /\ UNCHANGED <<accepting, stopped, failure, queues, chan, worker, call, rejected, lost,
                       applied>>
    BY Zenon DEF IInv, Snapshot, BarrierAt
  <2>2. BarrierNow("flush", queues, barrier.ok)
    <3>1. queues \in SUBSET Story /\ barrier.ok \in BOOLEAN /\ "flush" \in BarrierPcs
      BY <2>1 DEF TypeOK, Barriers, BarrierPcs
    <3> QED
      BY <2>1, <3>1, BarrierMoves, Zenon
  <2>3. TypeOK'
    BY <2>1, <2>2, Zenon DEF TypeOK, BarrierNow
  <2>4. barrier.pc \notin {"stop", "sent", "drain"} /\ barrier'.pc \notin {"done", "sent"}
    BY <2>1, <2>2 DEF BarrierNow
  <2>5. \A t \in Story : IdleInv(t)'
    BY <2>1, <2>4, <1>IdleStill, Zenon
  <2>6. StageInv'
    BY <2>1, <2>2 DEF StageInv, BarrierNow, BarrierAt
  <2>7. AnswerInv'
    <3>1. Submitted' = Submitted
      BY <2>1, Zenon DEF Submitted
    <3> QED
      BY <2>1, <2>2, <3>1 DEF AnswerInv, BarrierNow, BarrierAt
  <2>8. RejectInv'
    BY <2>1, <2>4, <1>NoMarker, Zenon
  <2>9. \A t \in Story, e \in Event : Held(t, e) =>
            t \in queues' /\ barrier'.pc \in {"begin", "flush", "sent"} /\ t \in barrier'.left
    BY <2>1, <2>2, Zenon DEF IInv, HeldInv, BarrierNow
  <2> QED
    BY <2>1, <2>3, <2>4, <2>5, <2>6, <2>7, <2>8, <2>9, <1>BarrierStep, Zenon

\* Flushed: every queue has answered, so what was submitted is applied or a failure
\* is on record.
<1>FlushedInv.
  ASSUME IInv, Flushed
  PROVE  IInv'
  <2> USE <1>FlushedInv
  <2> DEFINE pc == IF barrier.kind = "flush" THEN "done" ELSE "seal"
             ok == barrier.ok /\ ~failure
  <2>1. /\ TypeOK /\ StageInv /\ AnswerInv /\ barrier.pc = "flush" /\ barrier.left = {}
        /\ barrier' = [barrier EXCEPT !.ok = @ /\ ~failure, !.pc = pc]
        /\ UNCHANGED <<accepting, stopped, failure, queues, chan, worker, call, rejected, lost,
                       applied>>
    BY Zenon DEF IInv, Flushed, BarrierAt
  <2>2. BarrierNow(pc, {}, ok)
    <3>1. /\ {} \in SUBSET Story /\ pc \in BarrierPcs /\ ok \in BOOLEAN
      BY <2>1 DEF TypeOK, Barriers, BarrierPcs
    <3>2. barrier' = [barrier EXCEPT !.ok = ok, !.pc = pc]
      BY <2>1, Zenon
    <3> HIDE DEF pc, ok
    <3> QED
      BY <2>1, <3>1, <3>2, BarrierMoves, ZenonT(60)
  <2>3. TypeOK'
    BY <2>1, <2>2, Zenon DEF TypeOK, BarrierNow
  <2>4. barrier.pc \notin {"stop", "sent", "drain"}
    BY <2>1
  <2>5. \A t \in Story : IdleInv(t)'
    BY <2>1, <2>4, <1>IdleStill, Zenon
  <2>6. \A t \in Story, e \in Event : Held(t, e) => t \in queues /\ ~Guarded(e)
    BY <2>1 DEF IInv, HeldInv
  <2>7. ok => barrier.before \subseteq applied
    <3> SUFFICES ASSUME ok, NEW e \in barrier.before PROVE e \in applied
      BY Zenon
    <3>1. e \in Event /\ EventInv(e) /\ e \in Submitted
      BY <2>1, Zenon DEF IInv, AnswerInv, Submitted
    <3>2. \A t \in Story : ~Held(t, e)
      BY <2>6, <3>1, Zenon DEF Guarded
    <3>3. ~failure
      BY Zenon
    <3> QED
      BY <3>1, <3>2, <3>3 DEF EventInv, CallAt, Submitted
  <2>8. StageInv'
    <3>1. /\ barrier'.pc \in {"done", "seal"} /\ barrier'.kind = barrier.kind
          /\ barrier'.pc = "done" <=> barrier.kind = "flush"
          /\ barrier.kind \in {"flush", "shutdown"}
      BY <2>1, <2>2 DEF BarrierNow, TypeOK, Barriers
    <3> QED
      BY <2>1, <3>1 DEF StageInv, BarrierAt
  <2>9. AnswerInv'
    <3>1. Submitted' = Submitted
      BY <2>1, Zenon DEF Submitted
    <3> QED
      BY <2>1, <2>2, <2>7, <3>1, Zenon DEF AnswerInv, BarrierNow
  <2>10. RejectInv'
    <3>1. ~Has(rejected, Marker)
      BY <2>1 DEF IInv, RejectInv, BarrierAt
    <3>2. barrier'.pc = "done" => barrier'.kind # "shutdown"
      BY <2>2 DEF BarrierNow
    <3> QED
      BY <2>1, <3>1, <3>2, Zenon DEF RejectInv, BarrierAt
  <2>11. \A e \in Event : Guarded(e)' <=> Guarded(e)
    BY <2>2, Zenon DEF Guarded, BarrierNow
  <2> QED
    BY <2>1, <2>3, <2>4, <2>5, <2>6, <2>8, <2>9, <2>10, <2>11, <1>BarrierStep, Zenon

\* Seal: the queues are closed when they hold nothing.
<1>SealInv.
  ASSUME IInv, Seal
  PROVE  IInv'
  <2> USE <1>SealInv
  <2>1. /\ TypeOK /\ StageInv /\ AnswerInv /\ barrier.pc = "seal"
        /\ stopped' = TRUE /\ queues' = {}
        /\ barrier' = [barrier EXCEPT !.pc = "stop", !.left = queues]
        /\ UNCHANGED <<accepting, failure, chan, worker, call, rejected, lost, applied>>
    BY Zenon DEF IInv, Seal, BarrierAt
  <2>2. BarrierNow("stop", queues, barrier.ok)
    <3>1. queues \in SUBSET Story /\ barrier.ok \in BOOLEAN /\ "stop" \in BarrierPcs
      BY <2>1 DEF TypeOK, Barriers, BarrierPcs
    <3> QED
      BY <2>1, <3>1, BarrierMoves, Zenon
  <2>3. TypeOK'
    <3>1. stopped' \in BOOLEAN /\ queues' \in SUBSET Story
      BY <2>1
    <3> QED
      BY <2>1, <2>2, <3>1, Zenon DEF TypeOK, BarrierNow
  <2>4. barrier.kind = "shutdown" /\ ~accepting
    BY <2>1 DEF StageInv
  <2>5. \A t \in Story, e \in Event : ~Held(t, e)
    BY <2>1, <2>4 DEF IInv, HeldInv, Guarded
  <2>6. \A t \in Story : IdleInv(t)'
    <3> SUFFICES ASSUME NEW t \in Story PROVE IdleInv(t)'
      BY Zenon
    <3>1. IdleInv(t)
      BY Zenon DEF IInv
    <3> QED
      BY <2>1, <2>2, <3>1 DEF IdleInv, BarrierNow
  <2>7. StageInv'
    BY <2>1, <2>2, <2>4 DEF StageInv, BarrierNow, BarrierAt
  <2>8. AnswerInv'
    <3>1. Submitted' = Submitted
      BY <2>1, Zenon DEF Submitted
    <3> QED
      BY <2>1, <2>2, <3>1 DEF AnswerInv, BarrierNow, BarrierAt
  <2>9. barrier.pc \notin {"sent", "drain"} /\ barrier'.pc # "done"
    BY <2>1, <2>2 DEF BarrierNow
  <2>10. RejectInv'
    BY <2>1, <2>9, <1>NoMarker, Zenon
  <2> QED
    BY <2>1, <2>3, <2>5, <2>6, <2>7, <2>8, <2>9, <2>10, <1>BarrierStep, Zenon

\* Drain: the marker goes behind everything the writer has been given.
<1>DrainInv.
  ASSUME IInv, Drain
  PROVE  IInv'
  <2> USE <1>DrainInv
  <2>1. /\ TypeOK /\ StageInv /\ AnswerInv /\ RejectInv /\ barrier.pc = "stop" /\ barrier.left = {}
        /\ rejected' = Append(rejected, Marker)
        /\ barrier' = [barrier EXCEPT !.pc = "drain"]
        /\ UNCHANGED <<accepting, stopped, failure, queues, chan, worker, call, lost, applied>>
    BY Zenon DEF IInv, Drain, BarrierAt, Marker
  <2>2. BarrierNow("drain", {}, barrier.ok)
    <3>1. {} \in SUBSET Story /\ barrier.ok \in BOOLEAN /\ "drain" \in BarrierPcs
      BY <2>1 DEF TypeOK, Barriers, BarrierPcs
    <3> QED
      BY <2>1, <3>1, BarrierMoves, Zenon
  <2>3. rejected \in Seq(Rejects) /\ Marker \in Rejects /\ rejected' \in Seq(Rejects)
    <3>1. rejected \in Seq(Rejects) /\ Marker \in Rejects
      BY <2>1 DEF TypeOK, Rejects, Marker
    <3> QED
      BY <2>1, <3>1
  <2>4. TypeOK'
    BY <2>1, <2>2, <2>3, Zenon DEF TypeOK, BarrierNow
  <2>5. stopped /\ barrier.kind = "shutdown" /\ ~accepting
    BY <2>1 DEF StageInv
  <2>6. \A t \in Story, e \in Event : ~Held(t, e)
    BY <2>5, Drained, Zenon
  <2>7. \A t \in Story : IdleInv(t)'
    <3> SUFFICES ASSUME NEW t \in Story PROVE IdleInv(t)'
      BY Zenon
    <3>1. IdleInv(t)
      BY Zenon DEF IInv
    <3> QED
      BY <2>1, <3>1 DEF IdleInv
  <2>8. StageInv'
    BY <2>1, <2>2, <2>5 DEF StageInv, BarrierNow, BarrierAt
  <2>9. AnswerInv'
    <3>1. Submitted' = Submitted
      BY <2>1, Zenon DEF Submitted
    <3> QED
      BY <2>1, <2>2, <3>1 DEF AnswerInv, BarrierNow, BarrierAt
  <2>10. RejectInv'
    <3>1. ~Has(rejected, Marker)
      BY <2>1 DEF RejectInv, BarrierAt
    <3>2. \A u, v : Follows(rejected', u, v) <=> Follows(rejected, u, v) \/ (Has(rejected, u) /\ v = Marker)
      BY <2>1, <2>3, AppendTask
    <3>3. \A v : ~Follows(rejected', Marker, v)
      BY <3>1, <3>2, <1>FollowsHas, Zenon
    <3>4. BarrierAt("drain")' /\ ~BarrierAt("done")'
      BY <2>2 DEF BarrierAt, BarrierNow
    <3> QED
      BY <3>3, <3>4, Zenon DEF RejectInv
  <2>11. barrier.pc # "sent" /\ (~stopped' => ~stopped /\ queues' = queues)
    BY <2>1
  <2> QED
    BY <2>1, <2>4, <2>6, <2>7, <2>8, <2>9, <2>10, <2>11, <1>BarrierStep, Zenon

\* A Flush or Stop task goes behind everything in its queue.
<1>BarrierSendInv.
  ASSUME IInv, NEW s \in Story, BarrierSend(s)
  PROVE  IInv'
  <2> USE <1>BarrierSendInv
  <2> DEFINE k == barrier.pc
             new == Task(k, s)
  <2>1. /\ TypeOK /\ StageInv /\ AnswerInv /\ k \in {"flush", "stop"} /\ s \in barrier.left
        /\ chan' = [chan EXCEPT ![s] = Append(@, Task(k, s))]
        /\ barrier' = [barrier EXCEPT !.pc = "sent"]
        /\ UNCHANGED <<accepting, stopped, failure, queues, worker, call, rejected, lost, applied>>
    BY Zenon DEF IInv, BarrierSend
  <2>2. BarrierNow("sent", barrier.left, barrier.ok)
    <3>1. barrier.left \in SUBSET Story /\ barrier.ok \in BOOLEAN /\ "sent" \in BarrierPcs
      BY <2>1 DEF TypeOK, Barriers, BarrierPcs
    <3> QED
      BY <2>1, <3>1, BarrierMoves, Zenon
  <2>3. /\ k = "flush" => ~stopped /\ s \in queues
        /\ k = "stop" => stopped /\ barrier.kind = "shutdown"
    BY <2>1 DEF StageInv, BarrierAt
  <2>4. /\ new \in Tasks /\ \A u : new # Task("record", u) /\ new # Task("capture", u)
        /\ \A l, u : new = Task(l, u) <=> l = k /\ u = s
    BY <2>1, TaskParts
  <2>5. Arrives(s, new)
    <3> HIDE DEF k, new
    <3>1. chan' = [chan EXCEPT ![s] = Append(@, new)]
      BY <2>1 DEF new
    <3> QED
      BY <2>1, <2>4, <3>1, Sends, Zenon
  <2>6. k # "sent" /\ k # "drain" /\ k # "begin"
    BY <2>1
  <2>7. \A t \in Story : ~Signal(t)
    BY <2>6, <1>NoSignal, Zenon
  <2>8. \A t \in Story :
            /\ Flushing(t)' <=> Flushing(t)
            /\ \A e \in Event : Capturing(t, e)' <=> Capturing(t, e)
            /\ \A c \in Story : Linking(t, c)' <=> Linking(t, c)
            /\ At(t, "receipt")' <=> At(t, "receipt")
    BY <2>1, Zenon DEF Capturing, Flushing, Linking, At
  <2> HIDE DEF k, new
  <2>9. /\ chan' \in [Story -> Seq(Tasks)] /\ \A r \in Story \ {s} : chan'[r] = chan[r]
        /\ \A r \in Story : \A u : Has(chan'[r], u) <=> Has(chan[r], u) \/ (r = s /\ u = new)
        /\ \A r \in Story : \A u, v :
               Follows(chan'[r], u, v) <=>
                   Follows(chan[r], u, v) \/ (r = s /\ Has(chan[s], u) /\ v = new)
    BY <2>5, Zenon DEF Arrives
  <2>10. /\ \A t, c \in Story :
                /\ Has(chan'[t], Task("record", c)) <=> Has(chan[t], Task("record", c))
                /\ \A u : Follows(chan'[t], u, Task("record", c)) <=> Follows(chan[t], u, Task("record", c))
         /\ \A t \in Story, e \in Event :
                /\ Has(chan'[t], Task("capture", e)) <=> Has(chan[t], Task("capture", e))
                /\ \A u : Follows(chan'[t], u, Task("capture", e)) <=> Follows(chan[t], u, Task("capture", e))
    BY <2>4, <2>9, Zenon
  <2>11. TypeOK'
    BY <2>1, <2>2, <2>9, Zenon DEF TypeOK, BarrierNow
  <2>12. ASSUME NEW t \in Story PROVE SignalInv(t)'
    <3>1. SignalInv(t) /\ ~Flushing(t)' /\ \A r \in Story : Signal(r)' => r = s
      BY <2>4, <2>7, <2>8, <2>9, Zenon DEF IInv, Signal
    <3>2. ASSUME NEW l \in {"flush", "stop"}, NEW r \in Story, Has(chan'[t], Task(l, r)) PROVE r = t
      <4>1. Has(chan[t], Task(l, r)) \/ (t = s /\ Task(l, r) = new)
        BY <2>9, <3>2, Zenon
      <4>2. CASE Has(chan[t], Task(l, r))
        BY <3>1, <4>2, Zenon DEF SignalInv
      <4>3. CASE t = s /\ Task(l, r) = new
        BY <2>4, <4>3, Zenon
      <4> QED
        BY <4>1, <4>2, <4>3, Zenon
    <3>3. \A l \in {"flush", "stop"} :
              /\ ~Has(chan[t], Task(l, t)) /\ ~Follows(chan'[t], Task(l, t), Task(l, t))
              /\ Has(chan'[t], Task(l, t)) => l = k
      <4> SUFFICES ASSUME NEW l \in {"flush", "stop"}
                   PROVE  /\ ~Has(chan[t], Task(l, t)) /\ ~Follows(chan'[t], Task(l, t), Task(l, t))
                          /\ Has(chan'[t], Task(l, t)) => l = k
        BY Zenon
      <4>1. ~Has(chan[t], Task(l, t))
        BY <2>7 DEF Signal
      <4>2. ~Follows(chan'[t], Task(l, t), Task(l, t))
        BY <2>9, <4>1, <1>FollowsHas, Zenon
      <4>3. Has(chan'[t], Task(l, t)) => l = k
        BY <2>4, <2>9, <4>1, Zenon
      <4> QED
        BY <4>1, <4>2, <4>3, Zenon
    <3>4. /\ Has(chan'[t], Task("flush", t)) =>
                 ~stopped' /\ ~Follows(chan'[t], Task("flush", t), Task("flush", t))
          /\ Has(chan'[t], Task("stop", t)) =>
                 stopped' /\ ~Follows(chan'[t], Task("stop", t), Task("stop", t))
      <4>1. "flush" \in {"flush", "stop"} /\ "stop" \in {"flush", "stop"}
        OBVIOUS
      <4>2. Has(chan'[t], Task("flush", t)) =>
                 k = "flush" /\ ~Follows(chan'[t], Task("flush", t), Task("flush", t))
        BY <3>3, <4>1, Zenon
      <4>3. Has(chan'[t], Task("stop", t)) =>
                 k = "stop" /\ ~Follows(chan'[t], Task("stop", t), Task("stop", t))
        BY <3>3, <4>1, Zenon
      <4> QED
        BY <2>1, <2>3, <4>2, <4>3, Zenon
    <3>5. Signal(t)' => BarrierAt("sent")' /\ t \in barrier'.left /\ \A r \in Story : Signal(r)' => r = t
      BY <2>1, <2>2, <3>1, Zenon DEF BarrierAt, BarrierNow
    <3> QED
      BY <3>1, <3>2, <3>4, <3>5, Zenon DEF SignalInv
  <2>13. ASSUME NEW t \in Story, NEW c \in Story PROVE RecordInv(t, c)'
    <3>1. RecordInv(t, c)
      BY Zenon DEF IInv
    <3> QED
      BY <2>8, <2>10, <3>1, Zenon DEF RecordInv
  <2>14. ASSUME NEW t \in Story, NEW e \in Event PROVE HeldInv(t, e)'
    <3>1. /\ HeldInv(t, e) /\ (Held(t, e)' <=> Held(t, e)) /\ (Guarded(e)' <=> Guarded(e))
          /\ ~Flushing(t)' /\ ~Has(chan[t], Task("flush", t))
      BY <2>2, <2>7, <2>8, <2>10, Zenon DEF IInv, Held, Guarded, BarrierNow, Signal
    <3>2. barrier'.pc \in {"begin", "flush", "sent"} /\ barrier'.left = barrier.left
      BY <2>2 DEF BarrierNow
    <3>3. ~Follows(chan'[t], Task("flush", t), Task("capture", e))
      BY <2>10, <3>1, <1>FollowsHas, Zenon
    <3> QED
      BY <2>1, <2>6, <3>1, <3>2, <3>3, Zenon DEF HeldInv, k
  <2>15. ASSUME NEW t \in Story PROVE IdleInv(t)'
    <3>1. IdleInv(t) /\ (t # s => chan'[t] = chan[t]) /\ barrier'.pc \in {"stop", "sent"}
          /\ barrier'.left = barrier.left
      BY <2>2, <2>9, Zenon DEF IInv, BarrierNow
    <3>2. CASE t = s
      BY <2>1, <2>3, <3>1, <3>2 DEF IdleInv
    <3>3. CASE t # s
      BY <2>1, <3>1, <3>3, Zenon DEF IdleInv
    <3> QED
      BY <3>2, <3>3, Zenon
  <2>16. ASSUME NEW e \in Event PROVE EventInv(e)'
    <3>1. EventInv(e) /\ \A t \in Story : Held(t, e)' <=> Held(t, e)
      BY <2>8, <2>10, Zenon DEF IInv, Held
    <3> QED
      BY <2>1, <3>1, <1>EventKept, Zenon
  <2>17. ASSUME NEW t \in Story PROVE WorkerInv(t)'
    BY <2>1, <1>WorkerKept, Zenon DEF IInv
  <2>18. StageInv'
    <3>1. k = barrier.pc
      BY DEF k
    <3> QED
      BY <2>1, <2>2, <2>3, <3>1 DEF StageInv, BarrierNow, BarrierAt
  <2>19. AnswerInv'
    <3>1. Submitted' = Submitted /\ k = barrier.pc
      BY <2>1, Zenon DEF Submitted, k
    <3> QED
      BY <2>1, <2>2, <2>3, <3>1 DEF AnswerInv, BarrierNow, BarrierAt
  <2>20. RejectInv'
    <3>1. barrier.pc # "drain" /\ barrier'.pc # "done"
      BY <2>2, <2>6 DEF BarrierNow, k
    <3> QED
      BY <2>1, <3>1, <1>NoMarker, Zenon
  <2> QED
    BY <2>11, <2>12, <2>13, <2>14, <2>15, <2>16, <2>17, <2>18, <2>19, <2>20, Zenon DEF IInv

\* Write: the writer appends an event, or has reached the marker of a shutdown.
<1>WriteInv.
  ASSUME IInv, Write
  PROVE  IInv'
  <2> USE <1>WriteInv
  <2> DEFINE h == Head(rejected)
  <2>1. /\ TypeOK /\ StageInv /\ AnswerInv /\ RejectInv /\ rejected # <<>>
        /\ rejected' = Tail(rejected)
        /\ UNCHANGED <<accepting, stopped, failure, queues, chan, worker, call, applied>>
    BY Zenon DEF IInv, Write
  <2>2. /\ rejected \in Seq(Rejects) /\ h \in Rejects /\ rejected' \in Seq(Rejects)
        /\ Has(rejected, h)
        /\ \A u : Has(rejected', u) => Has(rejected, u) /\ Follows(rejected, h, u)
        /\ \A u, v : Follows(rejected', u, v) => Follows(rejected, u, v)
    <3>1. rejected \in Seq(Rejects)
      BY <2>1, Zenon DEF TypeOK
    <3> QED
      BY <2>1, <3>1, TakeTask
  <2>3. CASE h.kind = "event"
    <3>1. UNCHANGED barrier /\ lost' \in BOOLEAN
      <4>1. PICK ok \in BOOLEAN : lost' = (lost \/ ~ok) /\ UNCHANGED barrier
        BY <2>3, Zenon DEF Write
      <4> QED
        BY <4>1, Zenon
    <3>2. TypeOK'
      BY <2>1, <2>2, <3>1, Zenon DEF TypeOK
    <3>3. RejectInv'
      BY <2>1, <2>2, <3>1, Zenon DEF RejectInv, BarrierAt
    <3>4. Calm
      BY <2>1, <3>1, Zenon DEF Calm, StageInv
    <3>5. \A t \in Story : WorkerInv(t)'
      BY <2>1, <1>WorkerKept, Zenon DEF IInv
    <3> QED
      BY <2>1, <3>2, <3>3, <3>4, <3>5, <1>QuietStep, Zenon DEF Capturing
  <2>4. CASE h.kind # "event"
    <3>1. h = Marker
      BY <2>2, <2>4 DEF Rejects, Marker
    <3>2. /\ BarrierAt("drain") /\ ~Follows(rejected, Marker, Marker)
          /\ \A e \in barrier.before : ~Follows(rejected, Marker, Task("event", e))
      BY <2>1, <2>2, <3>1, Zenon DEF RejectInv
    <3> DEFINE ok == barrier.ok /\ ~lost
    <3>3. barrier' = [barrier EXCEPT !.pc = "done", !.ok = ok] /\ UNCHANGED lost
      BY <2>4, Zenon DEF Write
    <3>4. BarrierNow("done", barrier.left, ok)
      <4>1. barrier.left \in SUBSET Story /\ ok \in BOOLEAN /\ "done" \in BarrierPcs
        BY <2>1 DEF TypeOK, Barriers, BarrierPcs
      <4> HIDE DEF ok
      <4> QED
        BY <2>1, <3>3, <4>1, BarrierMoves, Zenon
    <3>5. TypeOK'
      BY <2>1, <2>2, <3>3, <3>4, Zenon DEF TypeOK, BarrierNow
    <3>6. /\ barrier.pc = "drain" /\ barrier.pc # "sent" /\ barrier.pc \notin {"stop", "sent"}
          /\ stopped /\ barrier.kind = "shutdown" /\ ~accepting
      BY <2>1, <3>2 DEF StageInv, BarrierAt
    <3>7. \A t \in Story : IdleInv(t)'
      BY <2>1, <3>6, <1>IdleStill, Zenon
    <3>8. \A t \in Story, e \in Event : ~Held(t, e)
      BY <3>6, Drained, Zenon
    <3>9. StageInv'
      BY <2>1, <3>4, <3>6 DEF StageInv, BarrierNow, BarrierAt
    <3>10. AnswerInv'
      <4>1. Submitted' = Submitted /\ (barrier.ok => barrier.before \subseteq applied)
        BY <2>1, <3>6 DEF AnswerInv, Submitted
      <4>2. barrier'.ok => barrier.ok
        BY <3>4, Zenon DEF BarrierNow
      <4> QED
        BY <2>1, <3>4, <4>1, <4>2, Zenon DEF AnswerInv, BarrierNow
    <3>11. RejectInv'
      <4>1. ~Has(rejected', Marker) /\ \A e \in barrier'.before : ~Has(rejected', Task("event", e))
        BY <2>2, <3>1, <3>2, <3>4, Zenon DEF BarrierNow
      <4> QED
        BY <4>1, Zenon DEF RejectInv
    <3> QED
      BY <2>1, <3>5, <3>6, <3>7, <3>8, <3>9, <3>10, <3>11, <1>BarrierStep, Zenon
  <2> QED
    BY <2>3, <2>4, Zenon

\* It speaks of the variables only.
<1>StutterInv.
  ASSUME IInv, UNCHANGED vars
  PROVE  IInv'
  <2> USE <1>StutterInv
  <2>1. UNCHANGED <<accepting, stopped, failure, queues, chan, worker, call, barrier, rejected, lost,
                    applied>>
    BY DEF vars
  <2>2. TypeOK' /\ \A t \in Story : WorkerInv(t)'
    BY <2>1, <1>WorkerKept, Zenon DEF IInv, TypeOK
  <2>3. Calm
    BY <2>1, Zenon DEF Calm, IInv, StageInv
  <2> QED
    BY <2>1, <2>2, <2>3, <1>RejectKept, <1>QuietStep, Zenon DEF Capturing

<1> SUFFICES ASSUME IInv, [Next]_vars PROVE IInv'
  OBVIOUS
<1>1. ASSUME NEW e \in Event, Produce(e) \/ Proceed(e) PROVE IInv'
  BY <1>1, <1>EnqueueInv, <1>ApplyInv, <1>AbandonInv, <1>RecordRejectedInv, <1>ReserveInv,
     <1>SendInv, Zenon
     DEF Produce, Proceed
<1>2. ASSUME NEW s \in Story, Work(s) PROVE IInv'
  BY <1>2, <1>ReceiveInv, <1>CommandInv, <1>ReleaseInv, <1>PrepareInv, <1>LinkInlineInv,
     <1>LinkMainInv,
     <1>LinkReserveInv, <1>LinkSendInv, <1>PersistInv, <1>StopWorkerInv, Zenon DEF Work
<1>3. ASSUME Drive PROVE IInv'
  BY <1>3, <1>SnapshotInv, <1>FlushedInv, <1>SealInv, <1>DrainInv, <1>BarrierSendInv,
     Zenon DEF Drive
<1>4. ASSUME Begin("flush") \/ Begin("shutdown") PROVE IInv'
  BY <1>4, <1>BeginInv, Zenon
<1> QED
  BY <1>1, <1>2, <1>3, <1>4, <1>WriteInv, <1>StutterInv, Zenon DEF Next

\* The inductive invariant of the scheduler: where every submitted event is, and what
\* stands ahead of a barrier's task in each queue (enqueue, apply, worker, flush,
\* shutdown).
THEOREM Invariant == Spec => []IInv
<1>1. Init => IInv
  BY InitInv, Zenon
<1>2. IInv /\ [Next]_vars => IInv'
  BY NextInv, Zenon
<1> QED
  BY <1>1, <1>2, PTL DEF Spec

\* A flush or shutdown that returns Ok has every event submitted before it persisted,
\* and a shutdown that returns has left none of them in a queue, in a worker or with the
\* dead-letter writer (flush, shutdown), for any number of stories and events and any
\* limits.
THEOREM BarriersReport == Spec => []BarrierReports
<1>1. IInv => BarrierReports
  <2> SUFFICES ASSUME IInv, BarrierAt("done")
               PROVE  /\ barrier.ok => barrier.before \subseteq applied
                      /\ barrier.kind = "shutdown" =>
                           /\ \A s \in Story : chan[s] = <<>> /\ worker[s].pc \in {"none", "exited"}
                           /\ \A e \in barrier.before : Task("event", e) \notin
                                  {rejected[i] : i \in DOMAIN rejected}
    BY Zenon DEF BarrierReports
  <2>1. TypeOK /\ StageInv /\ AnswerInv /\ RejectInv /\ barrier.pc = "done"
    BY Zenon DEF IInv, BarrierAt
  <2>2. barrier.ok => barrier.before \subseteq applied
    BY <2>1 DEF AnswerInv
  <2>3. ASSUME barrier.kind = "shutdown", NEW s \in Story
        PROVE  chan[s] = <<>> /\ worker[s].pc \in {"none", "exited"}
    <3>1. IdleInv(s) /\ queues = {}
      BY <2>1, <2>3, Zenon DEF IInv, StageInv, BarrierAt
    <3> QED
      BY <2>1, <3>1 DEF IdleInv
  <2>4. ASSUME barrier.kind = "shutdown", NEW e \in barrier.before
        PROVE  Task("event", e) \notin {rejected[i] : i \in DOMAIN rejected}
    <3>1. ~Has(rejected, Task("event", e))
      BY <2>1, <2>4, Zenon DEF RejectInv, BarrierAt
    <3>2. DOMAIN rejected = 1..Len(rejected)
      BY <2>1 DEF TypeOK
    <3> QED
      BY <3>1, <3>2, Zenon DEF Has
  <2> QED
    BY <2>2, <2>3, <2>4, Zenon
<1> QED
  BY <1>1, Invariant, PTL

-----------------------------------------------------------------------------
(* Nobody waits forever for somebody who waits.                             *)
(*                                                                          *)
(* A second inductive invariant says that every wait of the scheduler is    *)
(* owed an answer that is on its way: the reply a caller waits for, the     *)
(* receipt of a link record, the answer to a Flush or Stop task, the        *)
(* marker of a shutdown, a worker that empties each open queue.             *)

Running(s) == worker[s].pc \notin {"none", "exited"}

\* A queue that is open, or that the barrier has still to hear from, has a worker.
Served(s) == s \in queues \cup barrier.left => Running(s)

\* A worker that sends a link record has one left to send.
Counted(s) ==
    /\ worker[s].left \in Nat
    /\ worker[s].pc \in {"reserve", "reserved", "receipt"} => worker[s].left # 0

\* The capture whose caller waits is in its queue or with its worker.
ReplyOwed(e) == CallAt(e, "await") => Held(call[e].story, e)

\* The link record whose sender waits is with the main story.
RecordHeld(c) == Has(chan[Main], Task("record", c)) \/ Linking(Main, c)
ReceiptOwed(c) == At(c, "receipt") => RecordHeld(c)

\* The task, or the marker, that the barrier waits for is on its way.
SignalOwed == BarrierAt("sent") => \E s \in Story : Signal(s)
MarkerOwed == BarrierAt("drain") => Has(rejected, Marker)

OwedInv ==
    /\ limit \in Limits
    /\ \A s \in Story : Served(s) /\ Counted(s) /\ ReceiptOwed(s)
    /\ \A e \in Event : ReplyOwed(e)
    /\ SignalOwed /\ MarkerOwed

\* The guards of Proceed, Work, Drive and Write.
CanProceed(e) ==
    \/ call[e].pc \in {"refused", "reserved"}
    \/ CallAt(e, "reserve") /\ (Closed(call[e].story) \/ Room(call[e].story))
CanWork(s) ==
    \/ worker[s].pc \in {"command", "release", "prepare", "reserved"}
    \/ At(s, "recv") /\ chan[s] # <<>>
    \/ At(s, "link") /\ worker[s].left >= 0
    \/ At(s, "reserve") /\ (Closed(Main) \/ Room(Main))
CanDrive ==
    \/ barrier.pc \in {"begin", "seal"}
    \/ BarrierAt("flush") /\ barrier.left = {}
    \/ BarrierAt("stop") /\ barrier.left = {} /\ Len(rejected) < MaxRejected
    \/ barrier.pc \in {"flush", "stop"} /\ \E s \in barrier.left : Room(s)
CanWrite == rejected # <<>>

\* A flush or shutdown that has begun, a capture that is queued or applied, a caller
\* that has not been answered.
Busy ==
    \/ barrier.pc \notin {"none", "done"}
    \/ \E e \in Event : call[e].pc \in {"refused", "reserve", "reserved", "await"}
    \/ \E s \in Story : chan[s] # <<>> \/ worker[s].pc \notin {"none", "recv", "exited"}

Progress ==
    Busy => \/ \E e \in Event : CanProceed(e)
            \/ \E s \in Story : CanWork(s)
            \/ CanDrive \/ CanWrite

\* What a step must show: a worker that moves still runs, a caller or a worker that
\* comes to wait is owed its answer, and what is on its way stays so while someone waits.
LEMMA OwedStep ==
  ASSUME OwedInv, limit' = limit,
         \A s \in Story :
             \/ worker'[s] = worker[s]
             \/ Counted(s)' /\ (Running(s)' \/ s \notin queues' \cup barrier'.left),
         \A s \in queues' \cup barrier'.left : s \in queues \cup barrier.left \/ Running(s)',
         \A e \in Event : call'[e] = call[e] \/ ReplyOwed(e)',
         \A s \in Story, e \in Event : Held(s, e) => Held(s, e)' \/ call'[e].pc # "await",
         \A c \in Story : worker'[c].pc = worker[c].pc \/ ReceiptOwed(c)',
         \A c \in Story : RecordHeld(c) => RecordHeld(c)' \/ worker'[c].pc # "receipt",
         barrier'.pc = barrier.pc \/ (SignalOwed' /\ MarkerOwed'),
         \A s \in Story : Signal(s) => Signal(s)' \/ barrier'.pc # "sent",
         Has(rejected, Marker) => Has(rejected', Marker) \/ barrier'.pc # "drain",
         call \in [Event -> Calls]
  PROVE  OwedInv'
<1>1. ASSUME NEW s \in Story PROVE Served(s)' /\ Counted(s)'
  <2>1. Served(s) /\ Counted(s)
    BY Zenon DEF OwedInv
  <2>2. CASE worker'[s] = worker[s]
    BY <2>1, <2>2, Zenon DEF Served, Counted, Running
  <2>3. CASE Counted(s)' /\ (Running(s)' \/ s \notin queues' \cup barrier'.left)
    BY <2>3, Zenon DEF Served
  <2> QED
    BY <2>2, <2>3, Zenon
<1>2. ASSUME NEW c \in Story PROVE ReceiptOwed(c)'
  <2>1. ReceiptOwed(c)
    BY Zenon DEF OwedInv
  <2> QED
    BY <2>1, Zenon DEF ReceiptOwed, At
<1>3. ASSUME NEW e \in Event PROVE ReplyOwed(e)'
  <2>1. ReplyOwed(e)
    BY ZenonT(60) DEF OwedInv
  <2>2. call[e].story \in Story
    BY DEF Calls
  <2> QED
    BY <2>1, <2>2, Zenon DEF ReplyOwed, CallAt
<1>4. SignalOwed' /\ MarkerOwed'
  <2>1. SignalOwed /\ MarkerOwed
    BY Zenon DEF OwedInv
  <2> QED
    BY <2>1, Zenon DEF SignalOwed, MarkerOwed, BarrierAt
<1>5. limit' \in Limits
  BY Zenon DEF OwedInv
<1> QED
  BY <1>1, <1>2, <1>3, <1>4, <1>5, Zenon DEF OwedInv

\* A worker that moves without taking or giving an answer.
Steady(s) == Unseen(s) /\ Unseen(s)' /\ Counted(s)' /\ Running(s)'

\* A step that leaves the channels and the barrier alone.
LEMMA OwedQuiet ==
  ASSUME IInv, OwedInv, limit' = limit, UNCHANGED <<chan, barrier>>,
         Has(rejected, Marker) => Has(rejected', Marker),
         \A s \in Story : worker'[s] = worker[s] \/ Steady(s),
         \A s \in queues' : s \in queues \/ Running(s)',
         \A e \in Event : call'[e] = call[e] \/ call'[e].pc # "await",
         \A s \in Story, e \in Event :
             Capturing(s, e) => Capturing(s, e)' \/ call'[e].pc # "await"
  PROVE  OwedInv'
<1>1. \A s \in Story : /\ \A c \in Story : Linking(s, c)' <=> Linking(s, c)
                       /\ Flushing(s)' <=> Flushing(s)
                       /\ At(s, "receipt")' <=> At(s, "receipt")
  <2> SUFFICES ASSUME NEW s \in Story
               PROVE  /\ \A c \in Story : Linking(s, c)' <=> Linking(s, c)
                      /\ Flushing(s)' <=> Flushing(s)
                      /\ At(s, "receipt")' <=> At(s, "receipt")
    BY Zenon
  <2>1. CASE worker'[s] = worker[s]
    BY <2>1, Zenon DEF Linking, Flushing, At
  <2>2. CASE Steady(s)
    BY <2>2, Zenon DEF Steady, Unseen
  <2> QED
    BY <2>1, <2>2, Zenon
<1>2. \A c \in Story : RecordHeld(c)' <=> RecordHeld(c)
  BY <1>1, TaskParts, Zenon DEF RecordHeld
<1>3. \A s \in Story : Signal(s)' <=> Signal(s)
  BY <1>1, Zenon DEF Signal
<1>4. \A s \in Story, e \in Event : Held(s, e) => Held(s, e)' \/ call'[e].pc # "await"
  BY Zenon DEF Held
<1>5. \A c \in Story : worker'[c].pc = worker[c].pc \/ ReceiptOwed(c)'
  <2> SUFFICES ASSUME NEW c \in Story, Steady(c) PROVE ReceiptOwed(c)'
    BY Zenon
  <2> QED
    BY Zenon DEF Steady, Unseen, ReceiptOwed
<1>6. \A e \in Event : call'[e] = call[e] \/ ReplyOwed(e)'
  BY Zenon DEF ReplyOwed, CallAt
<1>7. \A s \in queues' \cup barrier'.left : s \in queues \cup barrier.left \/ Running(s)'
  BY Zenon
<1>8. \A s \in Story : \/ worker'[s] = worker[s]
                       \/ Counted(s)' /\ (Running(s)' \/ s \notin queues' \cup barrier'.left)
  BY Zenon DEF Steady
<1>9. call \in [Event -> Calls] /\ barrier'.pc = barrier.pc
  BY Zenon DEF IInv, TypeOK
<1> QED
  BY <1>2, <1>3, <1>4, <1>5, <1>6, <1>7, <1>8, <1>9, OwedStep, Zenon

\* A queue is opened with a worker.
LEMMA OwedSpawn ==
  ASSUME IInv, OwedInv, NEW s \in Story, ~stopped, Queued(s), worker' = Spawned(s)
  PROVE  /\ \A t \in Story : worker'[t] = worker[t] \/ Steady(t)
         /\ \A t \in queues' : t \in queues \/ Running(t)'
         /\ \A t \in Story, e \in Event : Capturing(t, e) => Capturing(t, e)'
<1>1. TypeOK /\ queues' = queues \cup {s}
  BY Zenon DEF IInv, Queued
<1>2. CASE s \in queues
  BY <1>1, <1>2 DEF Spawned, Capturing
<1>3. CASE s \notin queues
  <2>1. OneWorker(s) /\ worker'[s] = Waiting
    BY <1>1, <1>3, NewWorkers, WorkerSet, Zenon DEF Spawned
  <2>2. worker'[s].pc = "recv" /\ worker'[s].left = 0
    BY <2>1, NewWorkers DEF Waiting, NoWorker
  <2>3. Running(s)' /\ Counted(s)'
    BY <2>2 DEF Running, Counted
  <2>4. Unseen(s) /\ Unseen(s)' /\ \A e \in Event : ~Capturing(s, e)
    BY <1>3, <2>2, NoQueue, UnseenPcs, Zenon
  <2>5. \A t \in Story : t = s \/ worker'[t] = worker[t]
    BY <2>1, Zenon DEF OneWorker
  <2> QED
    BY <1>1, <2>3, <2>4, <2>5, Zenon DEF Steady, Capturing
<1> QED
  BY <1>2, <1>3, Zenon

\* The worker of s has sent its link record.
Sent(s) ==
    /\ worker[s].pc = "reserved" /\ worker'[s].pc = "receipt"
    /\ worker'[s].task = worker[s].task /\ Counted(s)'

\* A step that sends task t to the channel of s.
LEMMA OwedSend ==
  ASSUME IInv, OwedInv, limit' = limit, UNCHANGED rejected, NEW s \in Story, NEW t \in Tasks,
         chan' = [chan EXCEPT ![s] = Append(@, t)],
         \A r \in Story : \/ worker'[r] = worker[r] \/ Steady(r)
                          \/ Sent(r) /\ s = Main /\ t = Task("record", r),
         \A r \in queues' : r \in queues \/ Running(r)',
         \A e \in Event : \/ call'[e] = call[e] \/ call'[e].pc # "await"
                          \/ call'[e].story = s /\ t = Task("capture", e),
         \A r \in Story, e \in Event : Capturing(r, e) => Capturing(r, e)',
         barrier'.left = barrier.left,
         \/ barrier'.pc = barrier.pc
         \/ barrier'.pc = "sent" /\ t \in {Task("flush", s), Task("stop", s)}
  PROVE  OwedInv'
<1>1. TypeOK /\ call \in [Event -> Calls] /\ Arrives(s, t)
  BY Sends, Zenon DEF IInv, TypeOK
<1>2. \A r \in Story : \A u : Has(chan[r], u) => Has(chan'[r], u)
  BY <1>1, Zenon DEF Arrives
<1>3. Has(chan'[s], t)
  BY <1>1, Zenon DEF Arrives
<1>4. \A r \in Story : /\ \A c \in Story : Linking(r, c) => Linking(r, c)'
                       /\ Flushing(r) => Flushing(r)'
  <2> SUFFICES ASSUME NEW r \in Story
               PROVE  /\ \A c \in Story : Linking(r, c) => Linking(r, c)'
                      /\ Flushing(r) => Flushing(r)'
    BY Zenon
  <2>1. CASE worker'[r] = worker[r]
    BY <2>1, Zenon DEF Linking, Flushing, At
  <2>2. CASE Steady(r)
    BY <2>2, ZenonT(60) DEF Steady, Unseen
  <2>3. CASE Sent(r)
    BY <2>3 DEF Sent, Linking, Flushing, At
  <2> QED
    BY <2>1, <2>2, <2>3, Zenon
<1>5. /\ \A c \in Story : RecordHeld(c) => RecordHeld(c)'
      /\ \A r \in Story : Signal(r) => Signal(r)'
      /\ \A r \in Story, e \in Event : Held(r, e) => Held(r, e)'
  <2>1. \A c \in Story : RecordHeld(c) => RecordHeld(c)'
    BY <1>2, <1>4, TaskParts, Zenon DEF RecordHeld
  <2>2. \A r \in Story : Signal(r) => Signal(r)'
    BY <1>2, <1>4, Zenon DEF Signal
  <2>3. \A r \in Story, e \in Event : Held(r, e) => Held(r, e)'
    BY <1>2, Zenon DEF Held
  <2> QED
    BY <2>1, <2>2, <2>3, Zenon
<1>6. \A c \in Story : worker'[c].pc = worker[c].pc \/ ReceiptOwed(c)'
  <2> SUFFICES ASSUME NEW c \in Story PROVE worker'[c].pc = worker[c].pc \/ ReceiptOwed(c)'
    BY Zenon
  <2>1. CASE Steady(c)
    BY <2>1, Zenon DEF Steady, Unseen, ReceiptOwed
  <2>2. CASE s = Main /\ t = Task("record", c)
    BY <1>3, <2>2, Zenon DEF ReceiptOwed, RecordHeld
  <2> QED
    BY <2>1, <2>2, Zenon
<1>7. \A e \in Event : call'[e] = call[e] \/ ReplyOwed(e)'
  BY <1>3, ZenonT(60) DEF ReplyOwed, CallAt, Held
<1>8. \A r \in Story : \/ worker'[r] = worker[r]
                       \/ Counted(r)' /\ (Running(r)' \/ r \notin queues' \cup barrier'.left)
  <2> SUFFICES ASSUME NEW r \in Story, Sent(r) PROVE Counted(r)' /\ Running(r)'
    BY Zenon DEF Steady
  <2> QED
    BY DEF Sent, Running
<1>9. barrier'.pc = barrier.pc \/ (SignalOwed' /\ MarkerOwed')
  <2> SUFFICES ASSUME barrier'.pc = "sent", t \in {Task("flush", s), Task("stop", s)}
               PROVE  SignalOwed' /\ MarkerOwed'
    BY Zenon
  <2>1. MarkerOwed'
    BY DEF MarkerOwed, BarrierAt
  <2>2. Signal(s)'
    BY <1>3, Zenon DEF Signal
  <2> QED
    BY <2>1, <2>2, Zenon DEF SignalOwed
<1>10. \A r \in queues' \cup barrier'.left : r \in queues \cup barrier.left \/ Running(r)'
  BY Zenon
<1> QED
  BY <1>1, <1>5, <1>6, <1>7, <1>8, <1>9, <1>10, OwedStep, Zenon

\* enqueue and apply open a queue, and apply comes to wait for a slot.
LEMMA EnqueueOwed ==
  ASSUME IInv, OwedInv, NEW e \in Event, NEW s \in Story, Enqueue(e, s)
  PROVE  OwedInv'
<1>1. /\ TypeOK /\ UNCHANGED <<stopped, barrier, rejected>> /\ limit' = limit
      /\ Task("capture", e) \in Tasks
  BY TaskParts, Zenon DEF IInv, Enqueue, bound
<1>2. accepting => ~stopped
  BY Zenon DEF IInv, StageInv
<1>3. \A f \in Event : call'[f] = call[f] \/ call'[f].pc # "await"
  BY <1>1 DEF Enqueue, TypeOK
<1>4. \/ UNCHANGED <<worker, queues>>
      \/ ~stopped /\ Queued(s) /\ worker' = Spawned(s)
  BY <1>2, Zenon DEF Enqueue
<1>5. /\ \A t \in Story : worker'[t] = worker[t] \/ Steady(t)
      /\ \A t \in queues' : t \in queues \/ Running(t)'
      /\ \A t \in Story, f \in Event : Capturing(t, f) => Capturing(t, f)'
  <2>1. CASE UNCHANGED <<worker, queues>>
    BY <2>1, Zenon DEF Capturing
  <2>2. CASE ~stopped /\ Queued(s) /\ worker' = Spawned(s)
    BY <2>2, OwedSpawn, Zenon
  <2> QED
    BY <1>4, <2>1, <2>2, Zenon
<1>6. chan' = chan \/ chan' = [chan EXCEPT ![s] = Append(@, Task("capture", e))]
  BY Zenon DEF Enqueue
<1>7. CASE chan' = chan
  BY <1>1, <1>3, <1>5, <1>7, OwedQuiet, Zenon
<1>8. CASE chan' = [chan EXCEPT ![s] = Append(@, Task("capture", e))]
  BY <1>1, <1>3, <1>5, <1>8, OwedSend, Zenon
<1> QED
  BY <1>6, <1>7, <1>8, Zenon

\* A submission spawns the worker of its story if there is none.
LEMMA ApplyOwed ==
  ASSUME IInv, OwedInv, NEW e \in Event, NEW s \in Story, Apply(e, s)
  PROVE  OwedInv'
<1>1. /\ TypeOK /\ UNCHANGED <<stopped, chan, barrier, rejected>> /\ limit' = limit
  BY Zenon DEF IInv, Apply, bound
<1>2. accepting => ~stopped
  BY Zenon DEF IInv, StageInv
<1>3. \A f \in Event : call'[f] = call[f] \/ call'[f].pc # "await"
  BY <1>1 DEF Apply, TypeOK
<1>4. CASE UNCHANGED <<worker, queues>>
  BY <1>1, <1>3, <1>4, OwedQuiet, Zenon DEF Capturing
<1>5. CASE ~stopped /\ Queued(s) /\ worker' = Spawned(s)
  <2>1. /\ \A t \in Story : worker'[t] = worker[t] \/ Steady(t)
        /\ \A t \in queues' : t \in queues \/ Running(t)'
        /\ \A t \in Story, f \in Event : Capturing(t, f) => Capturing(t, f)'
    BY <1>5, OwedSpawn, Zenon
  <2> QED
    BY <1>1, <1>3, <2>1, OwedQuiet, Zenon
<1> QED
  BY <1>2, <1>4, <1>5, Zenon DEF Apply

\* A caller stops waiting, or waits for something else than the reply.
LEMMA OwedCall ==
  ASSUME IInv, OwedInv, NEW e \in Event, NEW pc \in {"returned", "reserved", "failed", "abandoned"},
         CallGoto(e, pc), UNCHANGED <<queues, chan, worker, barrier>>, limit' = limit,
         Has(rejected, Marker) => Has(rejected', Marker)
  PROVE  OwedInv'
<1>1. TypeOK
  BY Zenon DEF IInv
<1>2. /\ call'[e].pc = pc /\ \A f \in Event \ {e} : call'[f] = call[f]
  BY <1>1, CallMoves, Zenon
<1>3. \A f \in Event : call'[f] = call[f] \/ call'[f].pc # "await"
  BY <1>2
<1> QED
  BY <1>3, OwedQuiet, Zenon DEF Capturing

\* The steps of a caller.
LEMMA CallerOwed ==
  ASSUME IInv, OwedInv, NEW e \in Event, Abandon(e) \/ Proceed(e)
  PROVE  OwedInv'
<1>1. TypeOK
  BY Zenon DEF IInv
<1>2. CASE Abandon(e)
  BY <1>2, OwedCall, Zenon DEF Abandon, bound
<1>3. CASE RecordRejected(e)
  <2>1. /\ CallGoto(e, "returned") /\ UNCHANGED <<queues, chan, worker, barrier>> /\ limit' = limit
        /\ rejected' = rejected \/ rejected' = Append(rejected, Task("event", e))
    BY <1>3, Zenon DEF RecordRejected, bound
  <2>2. rejected \in Seq(Rejects) /\ Task("event", e) \in Rejects
    BY <1>1 DEF TypeOK, Rejects, Task
  <2>3. Has(rejected, Marker) => Has(rejected', Marker)
    <3> DEFINE new == Task("event", e)
    <3> HIDE DEF new
    <3>1. \A u : Has(Append(rejected, new), u) <=> Has(rejected, u) \/ u = new
      BY <2>2, AppendTask DEF new
    <3> QED
      BY <2>1, <3>1, Zenon DEF new
  <2> QED
    BY <2>1, <2>3, OwedCall, Zenon
<1>4. CASE Reserve(e)
  <2>1. /\ CallGoto(e, "failed") \/ CallGoto(e, "reserved")
        /\ UNCHANGED <<queues, chan, worker, barrier, rejected>> /\ limit' = limit
    BY <1>4, Zenon DEF Reserve, bound
  <2> QED
    BY <2>1, OwedCall, Zenon
<1>5. CASE Send(e) /\ ~accepting
  BY <1>5, OwedCall, Zenon DEF Send, bound
<1>6. CASE Send(e) /\ accepting
  <2>1. /\ chan' = [chan EXCEPT ![call[e].story] = Append(@, Task("capture", e))]
        /\ CallGoto(e, "await") /\ UNCHANGED <<queues, worker, barrier, rejected>>
        /\ limit' = limit
    BY <1>6, Zenon DEF Send, bound
  <2>2. /\ call'[e].story = call[e].story /\ \A f \in Event \ {e} : call'[f] = call[f]
    BY <1>1, <2>1, CallMoves, Zenon
  <2>3. call[e].story \in Story /\ Task("capture", e) \in Tasks
    BY <1>1, TaskParts DEF TypeOK, Calls
  <2> QED
    BY <2>1, <2>2, <2>3, OwedSend, ZenonT(60) DEF Capturing
<1> QED
  BY <1>2, <1>3, <1>4, <1>5, <1>6, Zenon DEF Proceed

\* The link records left once one has been answered, and when nothing was sent.
LEMMA LinksLeft ==
  /\ \A w \in Workers : \A ok \in BOOLEAN :
         /\ Gap(w).left = w.left - 1 /\ Receipt(w, ok).left = w.left - 1
         /\ w.left \in Nat /\ w.left # 0 => w.left - 1 \in Nat
  /\ \A w \in Workers, pc \in WorkerPcs : [w EXCEPT !.pc = pc].left = w.left
<1>1. ASSUME NEW w \in Workers, NEW ok \in BOOLEAN
      PROVE  Gap(w).left = w.left - 1 /\ Receipt(w, ok).left = w.left - 1
  BY DEF Workers, Gap, Receipt
<1>2. ASSUME NEW w \in Workers, NEW pc \in WorkerPcs PROVE [w EXCEPT !.pc = pc].left = w.left
  BY DEF Workers
<1>3. \A w \in Workers : w.left \in Nat /\ w.left # 0 => w.left - 1 \in Nat
  OBVIOUS
<1> QED
  BY <1>1, <1>2, <1>3, Zenon

\* A worker that is not at a command goes on, and its capture stays with it as long as
\* the caller waits.
LEMMA OwedWorker ==
  ASSUME IInv, OwedInv, NEW s \in Story, OneWorker(s),
         worker[s].pc \in {"prepare", "link", "reserve", "reserved", "release"},
         worker'[s].pc \in {"link", "reserve", "reserved", "release", "recv"}, Counted(s)',
         UNCHANGED <<queues, chan, barrier, rejected>>, limit' = limit,
         \A e \in Event : call'[e] = call[e] \/ call'[e].pc # "await",
         \A e \in Event : Capturing(s, e) => Capturing(s, e)' \/ call'[e].pc # "await"
  PROVE  OwedInv'
<1>1. Steady(s)
  <2>1. Running(s)'
    BY Zenon DEF Running
  <2>2. Unseen(s) /\ Unseen(s)'
    BY UnseenPcs
  <2> QED
    BY <2>1, <2>2, Zenon DEF Steady
<1>2. \A t \in Story : t = s \/ worker'[t] = worker[t]
  BY Zenon DEF OneWorker
<1>3. \A t \in Story, e \in Event : Capturing(t, e) => Capturing(t, e)' \/ call'[e].pc # "await"
  BY <1>2, Zenon DEF Capturing
<1> QED
  BY <1>1, <1>2, <1>3, OwedQuiet, Zenon

\* A worker goes on with its link records.
LEMMA OwedLink ==
  ASSUME IInv, OwedInv, NEW s \in Story, worker[s].pc \in {"link", "reserve", "reserved"},
         worker[s].left # 0,
         \/ worker' = [worker EXCEPT ![s] = Gap(worker[s])]
         \/ \E ok \in BOOLEAN : worker' = [worker EXCEPT ![s] = Receipt(worker[s], ok)]
         \/ \E pc \in {"reserve", "reserved"} : worker' = [worker EXCEPT ![s].pc = pc],
         UNCHANGED <<queues, chan, barrier, rejected, call>>, limit' = limit
  PROVE  OwedInv'
<1>1. TypeOK /\ worker[s] \in Workers /\ worker \in [Story -> Workers]
  BY Zenon DEF IInv, TypeOK
<1>2. worker[s].left \in Nat
  BY Zenon DEF OwedInv, Counted
<1>3. /\ OneWorker(s) /\ worker'[s].task = worker[s].task /\ Counted(s)'
      /\ worker'[s].pc \in {"link", "reserve", "reserved"}
  <2>1. ASSUME NEW w \in Workers, worker' = [worker EXCEPT ![s] = w], w.pc = "link",
               w.task = worker[s].task, w.left = worker[s].left - 1
        PROVE  /\ OneWorker(s) /\ worker'[s].task = worker[s].task /\ Counted(s)'
               /\ worker'[s].pc = "link"
    <3>1. OneWorker(s) /\ worker'[s] = w
      BY <1>1, <2>1, WorkerSet, Zenon
    <3>2. w.left \in Nat
      BY <1>2, <2>1
    <3> QED
      BY <2>1, <3>1, <3>2 DEF Counted
  <2>2. CASE worker' = [worker EXCEPT ![s] = Gap(worker[s])]
    <3>1. /\ Gap(worker[s]) \in Workers /\ Gap(worker[s]).pc = "link"
          /\ Gap(worker[s]).task = worker[s].task /\ Gap(worker[s]).left = worker[s].left - 1
      BY <1>1, Answered, LinksLeft, Zenon
    <3> QED
      BY <2>1, <2>2, <3>1, Zenon
  <2>3. ASSUME NEW ok \in BOOLEAN, worker' = [worker EXCEPT ![s] = Receipt(worker[s], ok)]
        PROVE  /\ OneWorker(s) /\ worker'[s].task = worker[s].task /\ Counted(s)'
               /\ worker'[s].pc = "link"
    <3>1. /\ Receipt(worker[s], ok) \in Workers /\ Receipt(worker[s], ok).pc = "link"
          /\ Receipt(worker[s], ok).task = worker[s].task
          /\ Receipt(worker[s], ok).left = worker[s].left - 1
      BY <1>1, Answered, LinksLeft, Zenon
    <3> QED
      BY <2>1, <2>3, <3>1, Zenon
  <2>4. ASSUME NEW pc \in {"reserve", "reserved"}, worker' = [worker EXCEPT ![s].pc = pc]
        PROVE  /\ OneWorker(s) /\ worker'[s].task = worker[s].task /\ Counted(s)'
               /\ worker'[s].pc = pc
    <3>1. pc \in WorkerPcs
      BY DEF WorkerPcs, Active
    <3>2. OneWorker(s) /\ worker'[s].task = worker[s].task /\ worker'[s].pc = pc
      BY <1>1, <2>4, <3>1, WorkerMoves, Zenon
    <3>3. worker'[s] = [worker[s] EXCEPT !.pc = pc]
      BY <1>1, <2>4
    <3>4. worker'[s].left = worker[s].left
      BY <1>1, <3>1, <3>3, LinksLeft, ZenonT(60)
    <3> QED
      BY <1>2, <3>2, <3>4, Zenon DEF Counted
  <2> QED
    BY <2>2, <2>3, <2>4, Zenon
<1>4. \A e \in Event : Capturing(s, e) => Capturing(s, e)'
  BY <1>3 DEF Capturing, Active
<1> QED
  BY <1>3, <1>4, OwedWorker, Zenon

\* The steps of a worker between its capture and the main story.
LEMMA LinkInlineOwed ==
  ASSUME IInv, OwedInv, NEW s \in Story, LinkInline(s)
  PROVE  OwedInv'
<1>1. /\ worker[s].pc = "link" /\ UNCHANGED <<queues, chan, barrier, rejected, call>> /\ limit' = limit
      /\ \E ok \in BOOLEAN : worker' = [worker EXCEPT ![s] = Receipt(worker[s], ok)]
  BY Zenon DEF LinkInline, At, bound
<1>2. worker[s].left # 0
  BY DEF LinkInline
<1> QED
  BY <1>1, <1>2, OwedLink, Zenon

\* The sender of a link record gets its place in the main queue, or finds it closed.
LEMMA LinkReserveOwed ==
  ASSUME IInv, OwedInv, NEW s \in Story, LinkReserve(s)
  PROVE  OwedInv'
<1>1. /\ worker[s].pc = "reserve" /\ UNCHANGED <<queues, chan, barrier, rejected, call>>
      /\ limit' = limit /\ Counted(s)
  BY Zenon DEF LinkReserve, At, bound, OwedInv
<1>2. worker[s].left # 0
  BY <1>1 DEF Counted
<1>3. CASE Closed(Main)
  <2>1. worker' = [worker EXCEPT ![s] = Gap(worker[s])]
    BY <1>3 DEF LinkReserve
  <2> QED
    BY <1>1, <1>2, <2>1, OwedLink, Zenon
<1>4. CASE ~Closed(Main)
  <2>1. worker' = [worker EXCEPT ![s].pc = "reserved"]
    BY <1>4 DEF LinkReserve
  <2> QED
    BY <1>1, <1>2, <2>1, OwedLink, Zenon
<1> QED
  BY <1>3, <1>4, Zenon

\* A link record needs the main story, whose worker is spawned if there is none.
LEMMA LinkMainOwed ==
  ASSUME IInv, OwedInv, NEW s \in Story, LinkMain(s)
  PROVE  OwedInv'
<1>1. /\ TypeOK /\ worker[s].pc = "link" /\ s # Main /\ Main \in Story
      /\ worker \in [Story -> Workers] /\ worker[s] \in Workers /\ Counted(s)
      /\ UNCHANGED <<chan, call, barrier, rejected>> /\ limit' = limit
  BY TaskParts, Zenon DEF IInv, TypeOK, LinkMain, At, bound, OwedInv
<1>2. worker[s].left # 0 /\ worker[s].left \in Nat
  BY <1>1 DEF LinkMain, Counted
<1>3. CASE ~(Internal < limit.internal /\ ~stopped /\ MayQueue(Main))
  <2>1. worker' = [worker EXCEPT ![s] = Gap(worker[s])] /\ queues' = queues
    BY <1>1, <1>3 DEF LinkMain
  <2> QED
    BY <1>1, <1>2, <2>1, OwedLink, Zenon
<1>4. CASE Internal < limit.internal /\ ~stopped /\ MayQueue(Main)
  <2>1. /\ queues' = queues \cup {Main}
        /\ worker' = [Spawned(Main) EXCEPT ![s].pc = "reserve"] /\ ~stopped
    BY <1>4, Zenon DEF LinkMain, Queued
  <2>2. "reserve" \in WorkerPcs
    BY DEF WorkerPcs, Active
  <2>3. CASE Main \in queues
    <3>1. worker' = [worker EXCEPT ![s].pc = "reserve"] /\ queues' = queues
      BY <2>1, <2>3 DEF Spawned
    <3> QED
      BY <1>1, <1>2, <3>1, OwedLink, Zenon
  <2>4. CASE Main \notin queues
    <3>1. worker' = [[worker EXCEPT ![Main] = Waiting] EXCEPT ![s].pc = "reserve"]
      BY <2>1, <2>4, Zenon DEF Spawned
    <3>2. Waiting \in Workers /\ Waiting.pc = "recv" /\ Waiting.left = 0
      BY NewWorkers DEF Waiting, NoWorker
    <3>3. /\ worker'[Main] = Waiting /\ worker'[s] = [worker[s] EXCEPT !.pc = "reserve"]
          /\ \A t \in Story \ {s, Main} : worker'[t] = worker[t]
      BY <1>1, <3>1, <3>2
    <3>4. /\ worker'[s].pc = "reserve" /\ worker'[s].task = worker[s].task
          /\ worker'[s].left = worker[s].left
      BY <1>1, <3>3 DEF Workers
    <3>5. Steady(Main) /\ \A e \in Event : ~Capturing(Main, e)
      <4>1. Unseen(Main) /\ \A e \in Event : ~Capturing(Main, e)
        BY <1>1, <2>1, <2>4, NoQueue, Zenon
      <4>2. Running(Main)' /\ Counted(Main)' /\ Unseen(Main)'
        BY <1>1, <3>2, <3>3, UnseenPcs DEF Running, Counted
      <4> QED
        BY <4>1, <4>2, Zenon DEF Steady
    <3>6. Steady(s) /\ \A e \in Event : Capturing(s, e) => Capturing(s, e)'
      <4>1. Unseen(s) /\ Unseen(s)'
        BY <1>1, <3>4, UnseenPcs
      <4>2. Running(s)' /\ Counted(s)'
        BY <1>2, <3>4 DEF Running, Counted
      <4> QED
        BY <3>4, <4>1, <4>2, Zenon DEF Steady, Capturing, Active
    <3>7. /\ \A t \in Story : worker'[t] = worker[t] \/ Steady(t)
          /\ \A t \in Story, e \in Event : Capturing(t, e) => Capturing(t, e)'
      BY <3>3, <3>5, <3>6, Zenon DEF Capturing
    <3>8. \A t \in queues' : t \in queues \/ Running(t)'
      BY <2>1, <3>5, Zenon DEF Steady
    <3> QED
      BY <1>1, <3>7, <3>8, OwedQuiet, Zenon
  <2> QED
    BY <2>3, <2>4, Zenon
<1> QED
  BY <1>3, <1>4, Zenon

\* A link record that was sent is in the main queue, and its sender waits for it.
LEMMA LinkSendOwed ==
  ASSUME IInv, OwedInv, NEW s \in Story, LinkSend(s)
  PROVE  OwedInv'
<1>1. /\ TypeOK /\ worker[s].pc = "reserved" /\ Main \in Story /\ Counted(s)
      /\ worker \in [Story -> Workers] /\ worker[s] \in Workers /\ Task("record", s) \in Tasks
      /\ UNCHANGED <<queues, call, barrier, rejected>> /\ limit' = limit
  BY TaskParts, Zenon DEF IInv, TypeOK, LinkSend, At, bound, OwedInv
<1>2. worker[s].left # 0 /\ worker[s].left \in Nat
  BY <1>1 DEF Counted
<1>3. CASE stopped
  <2>1. worker' = [worker EXCEPT ![s] = Gap(worker[s])] /\ chan' = chan
    BY <1>3 DEF LinkSend
  <2> QED
    BY <1>1, <1>2, <2>1, OwedLink, Zenon
<1>4. CASE ~stopped
  <2>1. /\ worker' = [worker EXCEPT ![s].pc = "receipt"]
        /\ chan' = [chan EXCEPT ![Main] = Append(@, Task("record", s))]
    BY <1>4, Zenon DEF LinkSend
  <2>2. "receipt" \in WorkerPcs
    BY DEF WorkerPcs, Active
  <2>3. OneWorker(s) /\ worker'[s].pc = "receipt" /\ worker'[s].task = worker[s].task
    BY <1>1, <2>1, <2>2, WorkerMoves, Zenon
  <2>4. worker'[s].left = worker[s].left
    <3>1. worker'[s] = [worker[s] EXCEPT !.pc = "receipt"]
      BY <1>1, <2>1
    <3> QED
      BY <1>1, <2>2, <3>1, LinksLeft, ZenonT(60)
  <2>5. Sent(s)
    BY <1>1, <1>2, <2>3, <2>4, Zenon DEF Sent, Counted
  <2>6. \A t \in Story : t = s \/ worker'[t] = worker[t]
    BY <2>3, Zenon DEF OneWorker
  <2>7. \A t \in Story, e \in Event : Capturing(t, e) => Capturing(t, e)'
    <3>1. \A e \in Event : Capturing(s, e) => Capturing(s, e)'
      BY <2>3 DEF Capturing, Active
    <3> QED
      BY <2>6, <3>1, Zenon DEF Capturing
  <2> QED
    BY <1>1, <2>1, <2>5, <2>6, <2>7, OwedSend, Zenon
<1> QED
  BY <1>3, <1>4, Zenon

\* The result of apply_to_story answers the caller.
LEMMA FinishOwed ==
  ASSUME IInv, OwedInv, NEW s \in Story, NEW ok \in BOOLEAN, Finish(s, ok),
         worker[s].pc \in {"prepare", "link"}, UNCHANGED <<queues, chan, barrier, rejected>>,
         limit' = limit
  PROVE  OwedInv'
<1> DEFINE e == worker[s].task.of
<1>1. /\ TypeOK /\ worker[s].pc \in Active /\ worker \in [Story -> Workers] /\ worker[s] \in Workers
      /\ worker[s].left \in Nat
  BY Zenon DEF IInv, TypeOK, Active, OwedInv, Counted
<1>2. e \in Event /\ worker[s].task = Task("capture", e)
  BY <1>1, CaptureOf, Zenon
<1>3. /\ worker' = [worker EXCEPT ![s].pc = "release"]
      /\ IF call[e].pc = "await" THEN CallGoto(e, IF ok THEN "acked" ELSE "failed") ELSE call' = call
  BY Zenon DEF Finish, CallAt
<1>4. "release" \in WorkerPcs
  BY DEF WorkerPcs
<1>5. OneWorker(s) /\ worker'[s].pc = "release"
  BY <1>1, <1>3, <1>4, WorkerMoves, Zenon
<1>6. Counted(s)'
  <2>1. worker'[s] = [worker[s] EXCEPT !.pc = "release"]
    BY <1>1, <1>3
  <2>2. worker'[s].left = worker[s].left
    BY <1>1, <1>4, <2>1, LinksLeft, ZenonT(60)
  <2> QED
    BY <1>1, <1>5, <2>2 DEF Counted
<1>7. call'[e].pc # "await" /\ \A f \in Event \ {e} : call'[f] = call[f]
  <2>1. CASE call[e].pc # "await"
    BY <1>3, <2>1, Zenon
  <2>2. CASE call[e].pc = "await"
    <3>1. CallGoto(e, "acked") \/ CallGoto(e, "failed")
      BY <1>3, <2>2, Zenon
    <3>2. /\ call'[e].pc \in {"acked", "failed"} /\ \A f \in Event \ {e} : call'[f] = call[f]
      BY <1>1, <1>2, <3>1, CallMoves, Zenon
    <3> QED
      BY <3>2
  <2> QED
    BY <2>1, <2>2, Zenon
<1> HIDE DEF e
<1>8. \A f \in Event : call'[f] = call[f] \/ call'[f].pc # "await"
  BY <1>7, Zenon
<1>9. \A f \in Event : Capturing(s, f) => Capturing(s, f)' \/ call'[f].pc # "await"
  <2> SUFFICES ASSUME NEW f \in Event, Capturing(s, f) PROVE call'[f].pc # "await"
    BY Zenon
  <2>1. f = e
    BY <1>2, TaskParts DEF Capturing
  <2> QED
    BY <1>7, <2>1, Zenon
<1> QED
  BY <1>5, <1>6, <1>8, <1>9, OwedWorker, Zenon

\* The preparation of a capture finds its link records, or fails and answers.
LEMMA PrepareOwed ==
  ASSUME IInv, OwedInv, NEW s \in Story, Prepare(s)
  PROVE  OwedInv'
<1>1. /\ TypeOK /\ worker[s].pc = "prepare" /\ worker \in [Story -> Workers] /\ worker[s] \in Workers
      /\ UNCHANGED <<queues, chan, barrier, rejected>> /\ limit' = limit
  BY Zenon DEF IInv, TypeOK, Prepare, At, bound
<1>2. CASE Finish(s, FALSE)
  BY <1>1, <1>2, FinishOwed, Zenon
<1>3. ASSUME NEW n \in 0..1, worker' = [worker EXCEPT ![s].pc = "link", ![s].left = n], call' = call
      PROVE  OwedInv'
  <2>1. n \in Nat /\ n \in Int /\ "link" \in WorkerPcs
    BY DEF WorkerPcs, Active
  <2> DEFINE w == [worker[s] EXCEPT !.pc = "link", !.left = n]
  <2>2. w \in Workers /\ w.pc = "link" /\ w.task = worker[s].task /\ w.left = n
    BY <1>1, <2>1, Zenon DEF Workers, WorkerPcs
  <2>3. worker' = [worker EXCEPT ![s] = w]
    BY <1>3, Zenon
  <2> HIDE DEF w
  <2>4. OneWorker(s) /\ worker'[s] = w
    BY <1>1, <2>2, <2>3, WorkerSet, Zenon
  <2>5. Counted(s)' /\ \A e \in Event : Capturing(s, e) => Capturing(s, e)'
    BY <2>1, <2>2, <2>4 DEF Counted, Capturing, Active
  <2> QED
    BY <1>1, <1>3, <2>2, <2>4, <2>5, OwedWorker, Zenon
<1> QED
  BY <1>2, <1>3, Zenon DEF Prepare

\* The persisted record, or its failure, answers the caller.
LEMMA PersistOwed ==
  ASSUME IInv, OwedInv, NEW s \in Story, Persist(s)
  PROVE  OwedInv'
<1>1. PICK ok \in BOOLEAN : Finish(s, ok /\ ~worker[s].gap)
  BY Zenon DEF Persist
<1>2. (ok /\ ~worker[s].gap) \in BOOLEAN
  OBVIOUS
<1>3. worker[s].pc = "link" /\ UNCHANGED <<queues, chan, barrier, rejected>> /\ limit' = limit
  BY Zenon DEF Persist, At, bound
<1> QED
  BY <1>1, <1>2, <1>3, FinishOwed, Zenon

\* A worker whose iteration ends has answered for its task.
LEMMA ReleaseOwed ==
  ASSUME IInv, OwedInv, NEW s \in Story, Release(s)
  PROVE  OwedInv'
<1>1. /\ TypeOK /\ worker[s].pc = "release" /\ worker' = [worker EXCEPT ![s] = Waiting]
      /\ UNCHANGED <<queues, chan, call, barrier, rejected>> /\ limit' = limit
  BY Zenon DEF IInv, Release, At, bound
<1>2. OneWorker(s) /\ worker'[s] = Waiting /\ Waiting.pc = "recv"
  BY <1>1, NewWorkers, WorkerSet, Zenon
<1>3. Counted(s)' /\ \A e \in Event : ~Capturing(s, e)
  BY <1>1, <1>2 DEF Counted, Waiting, NoWorker, Capturing, Active
<1> QED
  BY <1>1, <1>2, <1>3, OwedWorker, Zenon

\* A task that is received is with the worker.
LEMMA ReceiveOwed ==
  ASSUME IInv, OwedInv, NEW s \in Story, Receive(s)
  PROVE  OwedInv'
<1> DEFINE h == Head(chan[s])
           p == IF h.kind = "capture" THEN "prepare" ELSE "command"
           w == [pc |-> p, task |-> h, left |-> 0, gap |-> FALSE]
<1>1. /\ TypeOK /\ worker[s].pc = "recv" /\ chan[s] # <<>> /\ h.kind # "stop"
      /\ chan' = [chan EXCEPT ![s] = Tail(@)] /\ worker' = [worker EXCEPT ![s] = w]
      /\ UNCHANGED <<queues, call, barrier, rejected>> /\ limit' = limit
      /\ call \in [Event -> Calls]
  BY Zenon DEF IInv, TypeOK, Receive, At, bound
<1>2. /\ \A r \in Story \ {s} : chan'[r] = chan[r]
      /\ \A u : Has(chan[s], u) => Has(chan'[s], u) \/ u = h
  BY <1>1, Receives, Zenon
<1>3. h \in Tasks
  BY <1>1, Receives, Zenon
<1> HIDE DEF h
<1>4. w \in Workers /\ w.task = h /\ w.pc = p /\ w.left = 0
  <2>1. p \in WorkerPcs /\ 0 \in Int /\ h \in Tasks \cup {NoTask} /\ FALSE \in BOOLEAN
    BY <1>3 DEF WorkerPcs, Active
  <2> HIDE DEF p
  <2> QED
    BY <2>1, Zenon DEF Workers, WorkerPcs
<1>5. /\ p \in {"prepare", "command"} /\ (p = "prepare" <=> h.kind = "capture")
  OBVIOUS
<1> HIDE DEF w
<1>6. OneWorker(s) /\ worker'[s] = w
  BY <1>1, <1>4, WorkerSet, Zenon
<1> HIDE DEF p
<1>7. \A t \in Story : t = s \/ (worker'[t] = worker[t] /\ chan'[t] = chan[t])
  BY <1>2, <1>6, Zenon DEF OneWorker
<1>8. /\ \A k, a : h = Task(k, a) => h.kind = k
      /\ h.kind = "capture" => h.of \in Event
  BY <1>3, TaskParts
<1>9. Counted(s)' /\ Running(s)' /\ ~At(s, "receipt")'
  BY <1>4, <1>5, <1>6 DEF Counted, Running, At
<1>10. /\ \A e \in Event : ~Capturing(s, e) /\ (h = Task("capture", e) => Capturing(s, e)')
       /\ ~Flushing(s) /\ (h = Task("flush", s) => Flushing(s)')
       /\ \A c \in Story : ~Linking(s, c) /\ (h = Task("record", c) => Linking(s, c)')
  <2>1. h = worker'[s].task /\ worker'[s].pc = p
    BY <1>4, <1>6, Zenon
  <2>2. \A e \in Event : h = Task("capture", e) => p = "prepare"
    BY <1>5, <1>8, Zenon
  <2>3. \A c : h = Task("flush", c) \/ h = Task("record", c) => p = "command"
    BY <1>5, <1>8
  <2>4. "prepare" \in Active /\ worker[s].pc \notin Active /\ worker[s].pc # "command"
    BY <1>1 DEF Active
  <2> QED
    BY <2>1, <2>2, <2>3, <2>4, Zenon DEF Capturing, Flushing, Linking, At
<1>11. \A t \in Story, e \in Event : Held(t, e) => Held(t, e)'
  BY <1>2, <1>7, <1>10, Zenon DEF Held, Capturing
<1>12. \A c \in Story : RecordHeld(c) => RecordHeld(c)'
  <2>1. Main \in Story
    BY TaskParts, Zenon
  <2> QED
    BY <1>2, <1>7, <1>10, <2>1, Zenon DEF RecordHeld, Linking, At
<1>13. \A t \in Story : Signal(t) => Signal(t)'
  <2>1. h # Task("stop", s)
    BY <1>1, <1>8, Zenon
  <2> QED
    BY <1>2, <1>7, <1>10, <2>1, Zenon DEF Signal, Flushing, At
<1>14. \A c \in Story : worker'[c].pc = worker[c].pc \/ ReceiptOwed(c)'
  BY <1>7, <1>9, Zenon DEF ReceiptOwed
<1> QED
  BY <1>1, <1>7, <1>9, <1>11, <1>12, <1>13, <1>14, OwedStep, Zenon

\* The main story handles a link record, and its sender has its receipt.
LEMMA ReceiptSent ==
  ASSUME IInv, OwedInv, NEW s \in Story, NEW c \in Story, Linking(s, c), NEW ok \in BOOLEAN,
         worker' = [worker EXCEPT ![s].pc = "release", ![c] = Receipt(@, ok)],
         UNCHANGED <<queues, chan, call, barrier, rejected>>, limit' = limit
  PROVE  OwedInv'
<1>1. /\ TypeOK /\ RecordInv(s, c) /\ WorkerInv(c) /\ call \in [Event -> Calls]
      /\ worker \in [Story -> Workers] /\ worker[s] \in Workers /\ worker[c] \in Workers
      /\ Counted(s) /\ Counted(c)
  BY Zenon DEF IInv, TypeOK, OwedInv
<1>2. s = Main /\ worker[c].pc = "receipt" /\ c # s /\ worker[s].pc = "command"
  BY <1>1, Zenon DEF RecordInv, WorkerInv, Linking, At
<1>3. worker[s].left \in Nat /\ worker[c].left \in Nat /\ worker[c].left # 0
  BY <1>1, <1>2 DEF Counted
<1> DEFINE v == [worker[s] EXCEPT !.pc = "release"]
           w == Receipt(worker[c], ok)
<1>4. /\ v.pc = "release" /\ v.left = worker[s].left
      /\ w.pc = "link" /\ w.task = worker[c].task /\ w.left = worker[c].left - 1
  <2>1. v.pc = "release" /\ v.left = worker[s].left
    BY <1>1 DEF Workers
  <2> QED
    BY <1>1, <2>1, Answered, LinksLeft, Zenon
<1>5. /\ worker'[s] = v /\ worker'[c] = w /\ \A t \in Story \ {s, c} : worker'[t] = worker[t]
  BY <1>1, <1>2
<1> HIDE DEF v, w
<1>6. Counted(s)' /\ Running(s)' /\ Counted(c)' /\ Running(c)' /\ ~At(s, "receipt")' /\ ~At(c, "receipt")'
  BY <1>3, <1>4, <1>5 DEF Counted, Running, At
<1>7. \A t \in Story : t = s \/ t = c \/ worker'[t] = worker[t]
  BY <1>5, Zenon
<1>8. \A t \in Story, e \in Event : Capturing(t, e) => Capturing(t, e)'
  <2>1. \A e \in Event : ~Capturing(s, e) /\ (Capturing(c, e) => Capturing(c, e)')
    BY <1>2, <1>4, <1>5 DEF Capturing, Active
  <2> QED
    BY <1>7, <2>1, Zenon DEF Capturing
<1>9. \A t \in Story, e \in Event : Held(t, e) => Held(t, e)'
  BY <1>8, Zenon DEF Held
<1>10. \A d \in Story : RecordHeld(d) => RecordHeld(d)' \/ worker'[d].pc # "receipt"
  <2> SUFFICES ASSUME NEW d \in Story, Linking(Main, d) PROVE worker'[d].pc # "receipt"
    BY Zenon DEF RecordHeld
  <2>1. d = c
    BY <1>2, TaskParts DEF Linking
  <2> QED
    BY <1>6, <2>1, Zenon DEF At
<1>11. \A t \in Story : Signal(t) => Signal(t)'
  <2>1. ~Flushing(s)
    <3>1. Task("record", c) # Task("flush", s)
      BY TaskParts
    <3> QED
      BY <3>1, Zenon DEF Flushing, Linking
  <2>2. ~Flushing(c)
    BY <1>2 DEF Flushing, At
  <2> QED
    BY <1>7, <2>1, <2>2, Zenon DEF Signal, Flushing, At
<1>12. \A d \in Story : worker'[d].pc = worker[d].pc \/ ReceiptOwed(d)'
  BY <1>6, <1>7, Zenon DEF ReceiptOwed
<1> QED
  BY <1>1, <1>6, <1>7, <1>9, <1>10, <1>11, <1>12, OwedStep, Zenon

\* A queue answers the barrier.
LEMMA FlushAnswered ==
  ASSUME IInv, OwedInv, NEW s \in Story, Flushing(s), NEW ok \in BOOLEAN,
         worker' = [worker EXCEPT ![s].pc = "release"],
         barrier' = [barrier EXCEPT !.pc = "flush", !.left = @ \ {s}, !.ok = @ /\ ok],
         UNCHANGED <<queues, chan, call, rejected>>, limit' = limit
  PROVE  OwedInv'
<1>1. /\ TypeOK /\ call \in [Event -> Calls] /\ worker \in [Story -> Workers]
      /\ worker[s] \in Workers /\ Counted(s) /\ worker[s].pc = "command" /\ "release" \in WorkerPcs
  BY Zenon DEF IInv, TypeOK, OwedInv, Flushing, At, WorkerPcs
<1>2. OneWorker(s) /\ worker'[s].pc = "release" /\ worker'[s].left = worker[s].left
  <2>1. worker'[s] = [worker[s] EXCEPT !.pc = "release"]
    BY <1>1
  <2> QED
    BY <1>1, <2>1, WorkerMoves, LinksLeft, Zenon
<1>3. Counted(s)' /\ Running(s)' /\ ~At(s, "receipt")'
  BY <1>1, <1>2 DEF Counted, Running, At
<1>4. \A t \in Story : t = s \/ worker'[t] = worker[t]
  BY <1>2, Zenon DEF OneWorker
<1>5. barrier'.pc = "flush" /\ barrier'.left = barrier.left \ {s}
  BY <1>1 DEF TypeOK, Barriers
<1>6. \A t \in Story, e \in Event : Held(t, e) => Held(t, e)'
  <2>1. \A e \in Event : ~Capturing(s, e)
    BY <1>1 DEF Capturing, Active
  <2> QED
    BY <1>4, <2>1, Zenon DEF Held, Capturing
<1>7. \A c \in Story : RecordHeld(c) => RecordHeld(c)'
  <2>1. \A c \in Story : ~Linking(s, c)
    BY TaskParts DEF Flushing, Linking
  <2>2. Main \in Story
    BY TaskParts, Zenon
  <2> QED
    BY <1>4, <2>1, <2>2, Zenon DEF RecordHeld, Linking, At
<1>8. SignalOwed' /\ MarkerOwed' /\ barrier'.pc # "sent"
  BY <1>5 DEF SignalOwed, MarkerOwed, BarrierAt
<1>9. \A t \in queues' \cup barrier'.left : t \in queues \cup barrier.left
  BY <1>5
<1>10. \A c \in Story : worker'[c].pc = worker[c].pc \/ ReceiptOwed(c)'
  BY <1>3, <1>4, Zenon DEF ReceiptOwed
<1> QED
  BY <1>1, <1>3, <1>4, <1>6, <1>7, <1>8, <1>9, <1>10, OwedStep, Zenon

\* A command is answered to the worker or the barrier that sent it.
LEMMA CommandOwed ==
  ASSUME IInv, OwedInv, NEW s \in Story, Command(s)
  PROVE  OwedInv'
<1> DEFINE t == worker[s].task
<1>1. /\ worker[s].pc = "command" /\ WorkerInv(s)
      /\ UNCHANGED <<queues, chan, call, rejected>> /\ limit' = limit
  BY Zenon DEF IInv, Command, At, bound
<1>2. PICK ok \in BOOLEAN :
          IF t.kind = "record"
          THEN /\ worker' = [worker EXCEPT ![s].pc = "release", ![t.of] = Receipt(@, ok)]
               /\ UNCHANGED barrier
          ELSE /\ worker' = [worker EXCEPT ![s].pc = "release"]
               /\ barrier' = [barrier EXCEPT !.pc = "flush", !.left = @ \ {s}, !.ok = @ /\ ok]
  BY Zenon DEF Command
<1>3. CASE Flushing(s)
  <2>1. t.kind # "record"
    <3>1. t = Task("flush", s)
      BY <1>3 DEF Flushing
    <3> QED
      BY <3>1, TaskParts
  <2> QED
    BY <1>1, <1>2, <1>3, <2>1, FlushAnswered, Zenon
<1>4. ASSUME NEW c \in Story, Linking(s, c) PROVE OwedInv'
  <2>1. t.kind = "record" /\ t.of = c
    <3>1. t = Task("record", c)
      BY <1>4 DEF Linking
    <3> QED
      BY <3>1, TaskParts
  <2> QED
    BY <1>1, <1>2, <1>4, <2>1, ReceiptSent, Zenon
<1> QED
  BY <1>1, <1>3, <1>4, Zenon DEF WorkerInv

\* A worker ends, and the barrier goes on to the next one.
LEMMA StopWorkerOwed ==
  ASSUME IInv, OwedInv, NEW s \in Story, StopWorker(s)
  PROVE  OwedInv'
<1>1. /\ stopped /\ call' = call /\ UNCHANGED <<queues, rejected>>
      /\ OneWorker(s) /\ worker'[s] = [Waiting EXCEPT !.pc = "exited"]
      /\ BarrierNow("stop", barrier.left \ {s}, barrier.ok)
  BY StopWorkerStep, Zenon
<1>2. limit' = limit /\ call \in [Event -> Calls] /\ StageInv /\ Main \in Story
  BY TaskParts, Zenon DEF StopWorker, bound, IInv, TypeOK
<1>3. queues = {} /\ barrier'.pc = "stop" /\ barrier'.left = barrier.left \ {s}
  BY <1>1, <1>2, Zenon DEF StageInv, BarrierNow
<1>4. Counted(s)' /\ worker'[s].pc = "exited"
  <2>1. worker'[s].pc = "exited" /\ worker'[s].left = 0
    BY <1>1 DEF Waiting, NoWorker
  <2> QED
    BY <2>1 DEF Counted
<1>5. \A t \in Story : t = s \/ worker'[t] = worker[t]
  BY <1>1, Zenon DEF OneWorker
<1>6. /\ \A t \in Story, e \in Event : ~Held(t, e)
      /\ \A c \in Story : ~RecordHeld(c)
  BY <1>1, <1>2, Drained, Zenon DEF RecordHeld
<1>7. /\ s \notin queues' \cup barrier'.left
      /\ \A t \in queues' \cup barrier'.left : t \in queues \cup barrier.left
  BY <1>1, <1>3
<1>8. SignalOwed' /\ MarkerOwed' /\ barrier'.pc # "sent"
  BY <1>3, Zenon DEF SignalOwed, MarkerOwed, BarrierAt
<1>9. \A c \in Story : worker'[c].pc = worker[c].pc \/ ReceiptOwed(c)'
  BY <1>4, <1>5 DEF ReceiptOwed, At
<1> QED
  BY <1>1, <1>2, <1>4, <1>5, <1>6, <1>7, <1>8, <1>9, OwedStep, Zenon

\* The barrier moves on between two answers.
LEMMA OwedBarrier ==
  ASSUME IInv, OwedInv, UNCHANGED <<chan, worker, call>>, limit' = limit,
         queues' \cup barrier'.left \subseteq queues \cup barrier.left,
         barrier'.pc # "sent", barrier'.pc # "drain" \/ Has(rejected', Marker)
  PROVE  OwedInv'
<1>1. /\ \A t \in Story, e \in Event : Held(t, e) => Held(t, e)'
      /\ \A c \in Story : RecordHeld(c) => RecordHeld(c)'
  BY TaskParts, Zenon DEF Held, Capturing, RecordHeld, Linking, At
<1>2. SignalOwed' /\ MarkerOwed' /\ call \in [Event -> Calls]
  BY Zenon DEF SignalOwed, MarkerOwed, BarrierAt, IInv, TypeOK
<1>3. \A t \in queues' \cup barrier'.left : t \in queues \cup barrier.left
  OBVIOUS
<1> QED
  BY <1>1, <1>2, <1>3, OwedStep, Zenon

\* The steps of flush and shutdown, and the dead-letter writer.
LEMMA DriveOwed ==
  ASSUME IInv, OwedInv, Drive \/ \E kind \in {"flush", "shutdown"} : Begin(kind)
  PROVE  OwedInv'
<1>1. TypeOK /\ barrier \in Barriers
  BY Zenon DEF IInv, TypeOK
<1>2. ASSUME NEW kind \in {"flush", "shutdown"}, Begin(kind) PROVE OwedInv'
  <2>1. UNCHANGED <<chan, worker, call, queues>> /\ limit' = limit
    BY <1>2, Zenon DEF Begin
  <2>2. barrier'.pc = "begin" /\ barrier'.left = {}
    BY <1>2 DEF Begin, NoBarrier
  <2>3. queues' \cup barrier'.left \subseteq queues \cup barrier.left /\ barrier'.pc \notin {"sent", "drain"}
    BY <2>1, <2>2
  <2> QED
    BY <2>1, <2>3, OwedBarrier
<1>3. CASE Snapshot
  <2>1. UNCHANGED <<chan, worker, call, queues>> /\ limit' = limit
    BY <1>3, Zenon DEF Snapshot, bound
  <2>2. barrier'.pc = "flush" /\ barrier'.left = queues
    BY <1>1, <1>3 DEF Snapshot, Barriers
  <2>3. queues' \cup barrier'.left \subseteq queues \cup barrier.left /\ barrier'.pc \notin {"sent", "drain"}
    BY <2>1, <2>2
  <2> QED
    BY <2>1, <2>3, OwedBarrier
<1>4. CASE Flushed
  <2>1. UNCHANGED <<chan, worker, call, queues>> /\ limit' = limit
    BY <1>4, Zenon DEF Flushed, bound
  <2>2. barrier'.pc \in {"done", "seal"} /\ barrier'.left = barrier.left
    BY <1>1, <1>4, Zenon DEF Flushed, Barriers
  <2>3. queues' \cup barrier'.left \subseteq queues \cup barrier.left /\ barrier'.pc \notin {"sent", "drain"}
    BY <2>1, <2>2
  <2> QED
    BY <2>1, <2>3, OwedBarrier
<1>5. CASE Seal
  <2>1. UNCHANGED <<chan, worker, call>> /\ limit' = limit /\ queues' = {}
    BY <1>5, Zenon DEF Seal, bound
  <2>2. barrier'.pc = "stop" /\ barrier'.left = queues
    BY <1>1, <1>5 DEF Seal, Barriers
  <2>3. queues' \cup barrier'.left \subseteq queues \cup barrier.left /\ barrier'.pc \notin {"sent", "drain"}
    BY <2>1, <2>2
  <2> QED
    BY <2>1, <2>3, OwedBarrier
<1>6. CASE Drain
  <2>1. UNCHANGED <<chan, worker, call, queues>> /\ limit' = limit /\ rejected' = Append(rejected, Marker)
    BY <1>6, Zenon DEF Drain, bound, Marker
  <2>2. barrier'.pc = "drain" /\ barrier'.left = barrier.left
    BY <1>1, <1>6 DEF Drain, Barriers
  <2>3. queues' \cup barrier'.left \subseteq queues \cup barrier.left /\ barrier'.pc # "sent"
    BY <2>1, <2>2
  <2>4. rejected \in Seq(Rejects) /\ Marker \in Rejects
    BY <1>1 DEF TypeOK, Rejects, Marker
  <2>5. Has(rejected', Marker)
    BY <2>1, <2>4, AppendTask
  <2> QED
    BY <2>1, <2>3, <2>5, OwedBarrier, Zenon
<1>7. ASSUME NEW s \in Story, BarrierSend(s) PROVE OwedInv'
  <2> DEFINE t == Task(barrier.pc, s)
  <2>1. /\ chan' = [chan EXCEPT ![s] = Append(@, t)] /\ UNCHANGED <<queues, worker, call, rejected>>
        /\ limit' = limit /\ barrier.pc \in {"flush", "stop"}
    BY <1>7, Zenon DEF BarrierSend, bound
  <2>2. t \in Tasks /\ t \in {Task("flush", s), Task("stop", s)}
    BY <2>1, TaskParts
  <2>3. barrier'.pc = "sent" /\ barrier'.left = barrier.left
    BY <1>1, <1>7 DEF BarrierSend, Barriers
  <2> HIDE DEF t
  <2> QED
    BY <2>1, <2>2, <2>3, OwedSend, Zenon DEF Capturing
<1> QED
  BY <1>2, <1>3, <1>4, <1>5, <1>6, <1>7, Zenon DEF Drive

\* The writer of rejected events answers a marker.
LEMMA WriteOwed ==
  ASSUME IInv, OwedInv, Write
  PROVE  OwedInv'
<1>1. /\ rejected \in Seq(Rejects) /\ rejected # <<>> /\ rejected' = Tail(rejected)
      /\ UNCHANGED <<queues, chan, worker, call>> /\ limit' = limit /\ barrier \in Barriers
  BY Zenon DEF IInv, TypeOK, Write, bound
<1>2. \A u : Has(rejected, u) <=> Has(rejected', u) \/ u = Head(rejected)
  BY <1>1, TakeTask
<1>3. CASE Head(rejected).kind = "event"
  <2>1. barrier' = barrier
    BY <1>3, Zenon DEF Write
  <2>2. Head(rejected) # Marker
    BY <1>3 DEF Marker, Task
  <2>3. Has(rejected, Marker) => Has(rejected', Marker)
    BY <1>2, <2>2, Zenon
  <2> QED
    BY <1>1, <2>1, <2>3, OwedQuiet, Zenon DEF Capturing
<1>4. CASE Head(rejected).kind # "event"
  <2>1. barrier' = [barrier EXCEPT !.pc = "done", !.ok = @ /\ ~lost]
    BY <1>4, Zenon DEF Write
  <2>2. barrier'.pc = "done" /\ barrier'.left = barrier.left
    BY <1>1, <2>1 DEF Barriers
  <2>3. queues' \cup barrier'.left \subseteq queues \cup barrier.left /\ barrier'.pc \notin {"sent", "drain"}
    BY <1>1, <2>2
  <2> QED
    BY <1>1, <2>3, OwedBarrier
<1> QED
  BY <1>3, <1>4, Zenon

\* Every step keeps what is owed on its way.
LEMMA NextOwed ==
  ASSUME IInv, OwedInv, [Next]_vars
  PROVE  OwedInv'
<1>1. ASSUME NEW e \in Event, Produce(e) \/ Proceed(e) PROVE OwedInv'
  BY <1>1, EnqueueOwed, ApplyOwed, CallerOwed, Zenon DEF Produce
<1>2. ASSUME NEW s \in Story, Work(s) PROVE OwedInv'
  BY <1>2, ReceiveOwed, CommandOwed, ReleaseOwed, PrepareOwed, LinkInlineOwed, LinkMainOwed,
     LinkReserveOwed, LinkSendOwed, PersistOwed, StopWorkerOwed, Zenon DEF Work
<1>3. CASE UNCHANGED vars
  <2>1. UNCHANGED <<queues, chan, worker, call, barrier, rejected, limit>>
    BY <1>3 DEF vars
  <2> QED
    BY <2>1, OwedQuiet, Zenon DEF Capturing
<1> QED
  BY <1>1, <1>2, <1>3, DriveOwed, WriteOwed, Zenon DEF Next

\* Nothing is owed at the start.
LEMMA InitOwed ==
  ASSUME Init
  PROVE  OwedInv
<1>1. /\ limit \in Limits /\ queues = {} /\ worker = [s \in Story |-> NoWorker]
      /\ call = [e \in Event |-> [pc |-> "new", story |-> Main]] /\ barrier = NoBarrier
  BY Zenon DEF Init
<1>2. /\ barrier.pc = "none" /\ barrier.left = {}
      /\ \A s \in Story : worker[s].pc = "none" /\ worker[s].left = 0
      /\ \A e \in Event : call[e].pc = "new"
  BY <1>1, Zenon DEF NoBarrier, NoWorker
<1>3. \A s \in Story : Served(s) /\ Counted(s) /\ ReceiptOwed(s)
  BY <1>1, <1>2 DEF Served, Counted, ReceiptOwed, At
<1>4. (\A e \in Event : ReplyOwed(e)) /\ SignalOwed /\ MarkerOwed
  BY <1>2 DEF ReplyOwed, CallAt, SignalOwed, MarkerOwed, BarrierAt
<1> QED
  BY <1>1, <1>3, <1>4, Zenon DEF OwedInv

\* The empty set has no elements, from the definition of Cardinality.
LEMMA NoneCounted == Cardinality({}) = 0
<1> DEFINE Counts(f) == [T \in SUBSET {} |->
                            IF T = {} THEN 0 ELSE 1 + f[T \ {CHOOSE x : x \in T}]]
           CS == CHOOSE f : f = Counts(f)
<1>1. Cardinality({}) = CS[{}]
  BY DEF Cardinality
<1>2. \E f : f = Counts(f)
  <2> DEFINE g == [T \in SUBSET {} |-> 0]
  <2>1. g = Counts(g)
    OBVIOUS
  <2> QED
    BY <2>1
<1>3. CS = Counts(CS)
  BY <1>2
<1> HIDE DEF CS
<1> QED
  BY <1>1, <1>3

\* A queue without tasks and reservations has a slot.
LEMMA RoomToSend ==
  ASSUME limit \in Limits, NEW s \in Story, chan[s] = <<>>,
         \A e \in Event : ~CallAt(e, "reserved"), \A c \in Story : ~At(c, "reserved")
  PROVE  Room(s)
<1>1. Len(chan[s]) = 0 /\ limit.queue \in Nat /\ limit.queue # 0
  BY LimitsAssumption
<1>2. /\ {e \in Event : CallAt(e, "reserved") /\ call[e].story = s} = {}
      /\ {c \in Story : At(c, "reserved")} = {}
  BY Zenon
<1>3. Cardinality({}) = 0
  BY NoneCounted, Zenon
<1>4. Slots(s) = 0
  <2>1. Slots(s) = 0 + 0 + (IF s = Main THEN 0 ELSE 0)
    BY <1>1, <1>2, <1>3, Zenon DEF Slots
  <2> QED
    BY <2>1
<1> QED
  BY <1>1, <1>4 DEF Room

\* The argument of Progress: when nobody has a step, no worker waits for the main story,
\* since its own worker waits for nobody; then every channel is empty, and nothing is
\* owed to a caller or to the barrier.
LEMMA SomeoneMoves ==
  ASSUME IInv, OwedInv, \A e \in Event : ~CanProceed(e), \A s \in Story : ~CanWork(s),
         ~CanDrive, ~CanWrite
  PROVE  ~Busy
<1>1. /\ TypeOK /\ Main \in Story /\ limit \in Limits /\ rejected = <<>>
      /\ worker \in [Story -> Workers] /\ barrier \in Barriers
  BY TaskParts, Zenon DEF IInv, OwedInv, TypeOK, CanWrite
<1>2. /\ \A e \in Event : ~CallAt(e, "reserved") /\ ~CallAt(e, "refused")
      /\ \A s \in Story : worker[s].pc \notin {"command", "release", "prepare", "reserved"}
  BY DEF CanProceed, CanWork, CallAt
<1>3. \A s \in Story : ~At(s, "link")
  <2> SUFFICES ASSUME NEW s \in Story, At(s, "link") PROVE FALSE
    BY Zenon
  <2>1. worker[s].left \in Nat
    BY Zenon DEF OwedInv, Counted
  <2>2. CanWork(s)
    BY <2>1 DEF CanWork
  <2> QED
    BY <2>2, Zenon
<1>4. \A s \in Story : worker[s].pc \in {"none", "recv", "exited", "reserve", "receipt"}
  <2> SUFFICES ASSUME NEW s \in Story
               PROVE  worker[s].pc \in {"none", "recv", "exited", "reserve", "receipt"}
    BY Zenon
  <2>1. worker[s] \in Workers
    BY <1>1, Zenon
  <2>2. worker[s].pc \in WorkerPcs
    BY <2>1, Zenon DEF Workers, WorkerPcs
  <2> QED
    BY <1>2, <1>3, <2>2 DEF WorkerPcs, Active, At
<1>5. ASSUME NEW s \in Story, worker[s].pc \in {"none", "recv", "exited"} PROVE chan[s] = <<>>
  <2>1. IdleInv(s) /\ Served(s)
    BY Zenon DEF IInv, OwedInv
  <2>2. CASE worker[s].pc = "recv"
    BY <2>2, Zenon DEF CanWork, At
  <2>3. CASE worker[s].pc \in {"none", "exited"}
    BY <2>1, <2>3, Zenon DEF IdleInv, Served, Running
  <2> QED
    BY <1>5, <2>2, <2>3, Zenon
<1>6. chan[Main] = <<>> /\ \A c \in Story : ~RecordHeld(c)
  <2>1. worker[Main].pc \notin {"reserve", "receipt"}
    BY <1>1, Zenon DEF IInv, WorkerInv
  <2>2. worker[Main].pc \in {"none", "recv", "exited"}
    BY <1>1, <1>4, <2>1
  <2>3. chan[Main] = <<>>
    BY <1>1, <1>5, <2>2, Zenon
  <2>4. \A c \in Story : ~Linking(Main, c)
    BY <2>2 DEF Linking, At
  <2> QED
    BY <2>3, <2>4, EmptyQueue, Zenon DEF RecordHeld
<1>7. \A s \in Story : ~At(s, "reserve") /\ ~At(s, "receipt")
  <2>1. Room(Main)
    BY <1>1, <1>2, <1>6, RoomToSend DEF At
  <2>2. \A s \in Story : ~At(s, "reserve")
    BY <2>1, Zenon DEF CanWork
  <2>3. \A s \in Story : ~At(s, "receipt")
    BY <1>6, Zenon DEF OwedInv, ReceiptOwed
  <2> QED
    BY <2>2, <2>3, Zenon
<1>8. \A s \in Story : worker[s].pc \in {"none", "recv", "exited"} /\ chan[s] = <<>>
  BY <1>4, <1>5, <1>7, Zenon DEF At
<1>9. \A s \in Story : Room(s)
  BY <1>1, <1>2, <1>8, RoomToSend DEF At
<1>10. /\ \A s \in Story : ~Signal(s) /\ \A e \in Event : ~Held(s, e)
  <2> SUFFICES ASSUME NEW s \in Story PROVE ~Signal(s) /\ \A e \in Event : ~Held(s, e)
    BY Zenon
  <2>1. worker[s].pc \notin Active /\ worker[s].pc # "command" /\ chan[s] = <<>>
    BY <1>8 DEF Active
  <2> QED
    BY <2>1, EmptyQueue, Zenon DEF Signal, Held, Flushing, Capturing, At
<1>11. \A e \in Event : call[e].pc \notin {"refused", "reserve", "reserved", "await"}
  <2> SUFFICES ASSUME NEW e \in Event PROVE call[e].pc \notin {"refused", "reserve", "reserved",
  "await"}
    BY Zenon
  <2>1. call[e].story \in Story
    BY <1>1 DEF TypeOK, Calls
  <2>2. ~CallAt(e, "reserve")
    BY <1>9, <2>1, Zenon DEF CanProceed
  <2>3. ~CallAt(e, "await")
    BY <1>10, <2>1, Zenon DEF OwedInv, ReplyOwed
  <2> QED
    BY <1>2, <2>2, <2>3, Zenon DEF CallAt
<1>12. barrier.pc \in {"none", "done"}
  <2>1. barrier.pc \in BarrierPcs /\ barrier.left \in SUBSET Story
    BY <1>1, Zenon DEF Barriers, BarrierPcs
  <2>2. barrier.pc \notin {"begin", "seal"}
    BY Zenon DEF CanDrive
  <2>3. barrier.pc # "sent"
    BY <1>10, Zenon DEF OwedInv, SignalOwed, BarrierAt
  <2>4. barrier.pc # "drain"
    BY <1>1, EmptyQueue, Zenon DEF OwedInv, MarkerOwed, BarrierAt
  <2>5. barrier.pc \notin {"flush", "stop"}
    <3> SUFFICES ASSUME barrier.pc \in {"flush", "stop"} PROVE FALSE
      BY Zenon
    <3>1. barrier.left = {}
      BY <1>9, <2>1 DEF CanDrive
    <3>2. Len(rejected) < MaxRejected
      BY <1>1, RejectedAssumption
    <3> QED
      BY <3>1, <3>2, Zenon DEF CanDrive, BarrierAt
  <2> QED
    BY <2>1, <2>2, <2>3, <2>4, <2>5 DEF BarrierPcs
<1> QED
  BY <1>8, <1>11, <1>12, Zenon DEF Busy

\* The waits of the scheduler: a caller of apply whose capture was sent, a worker whose
\* link record was sent, a barrier whose task or marker was sent, each has its answer on
\* its way, and every open queue has a worker (reserve_owned, command_internal,
\* apply_to_story, flush, shutdown).
THEOREM AnswersOwed == Spec => []OwedInv
<1>1. Init => OwedInv
  BY InitOwed, Zenon
<1>2. IInv /\ OwedInv /\ [Next]_vars => OwedInv'
  BY NextOwed, Zenon
<1> QED
  BY <1>1, <1>2, Invariant, PTL DEF Spec

\* The scheduler is never stuck: while a flush or shutdown is under way, a capture is
\* queued or applied, or a caller has not been answered, a caller, a worker, the barrier
\* or the dead-letter writer has a step to take.  Bounded queues, of whatever capacity,
\* and the link records between workers make no circle of waits, for any number of
\* stories and events.
THEOREM NeverStuck == Spec => []Progress
<1>1. IInv /\ OwedInv => Progress
  BY SomeoneMoves, Zenon DEF Progress
<1> QED
  BY <1>1, Invariant, AnswersOwed, PTL
=============================================================================
