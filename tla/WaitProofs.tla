------------------------------ MODULE WaitProofs ------------------------------
(***************************************************************************)
(* Proofs about the wait coordinator, for every set of calls and every     *)
(* policy: the slot is kept, no pause is orphaned, nothing is delivered to *)
(* a VM that automation paused, every barrier finds the cleanup complete,  *)
(* a snapshot sees the VM running, a human's pause stands, no automatic    *)
(* pause begins too late, no wake is lost, and nobody in a barrier waits   *)
(* for a wait that is stuck.                                               *)
(***************************************************************************)
EXTENDS WaitCoordinator, TLAPS

-----------------------------------------------------------------------------
(* Types.                                                                  *)

Inside == {"pausing", "offloading", "rearming", "resuming"}
Over == {"completed", "cleared"}
TaskPcs == {"none", "reserved", "grace", "permit", "granted", "paused", "parked", "revoking",
            "settled", "releasing", "failing", "reporting", "resting"} \cup Inside \cup Over

Queueing == {"passive", "pwaiting"}
Counted == Queueing \cup {"pchecking", "pblocked", "pdelivering"}
Batch == {"bchecking", "bblocked", "delivering"}
Last == {"dchecking", "dblocked", "delivered"}
CallPcs == {"new", "reserved", "upstream", "holding", "finishing", "dropped"}
           \cup Batch \cup Last \cup Counted

Tokens == [entered : BOOLEAN, wake : BOOLEAN, retired : BOOLEAN, epoch : Nat, cur : Nat,
           woken : SUBSET Nat, held : BOOLEAN, completed : Nat, failed : BOOLEAN]
WaitTasks == [pc : TaskPcs, gen : Nat, permit : BOOLEAN, prepared : BOOLEAN,
              err : {"none", "known", "unknown"}]
Callers == [pc : CallPcs, gen : Nat, seen : Nat, ref : SUBSET Call]

\* Every variable keeps its type.
TypeOK ==
    /\ policy \in Policies
    /\ st \in {"starting", "running", "suspended", "ended"} /\ cancelled \in BOOLEAN
    /\ own \in [manual : BOOLEAN, automatic : SUBSET Call]
    /\ man \in Manual \cup {"none"}
    /\ epoch \in Nat /\ changes \in Nat
    /\ active \in SUBSET Call /\ disabled \in BOOLEAN
    /\ tok \in [Call -> Tokens] /\ task \in [Call -> WaitTasks] /\ call \in [Call -> Callers]

-----------------------------------------------------------------------------
(* The inductive invariant.                                                *)

\* One wait: k are its tokens, t its task and w its caller.  The round that a batch
\* holds back is over once the batch may go out, because the hold keeps the next round
\* from starting; a task is cleared only for a caller that is gone; and an error is
\* carried only to the end of its round.
Sound(k, t, w, gone) ==
    /\ w.pc \in Counted \cup {"new"} => t.pc = "none"
    /\ t.pc = "none" => t.gen = 1 /\ w.pc \in Counted \cup {"new", "dropped"}
    /\ k.retired => w.pc \in {"delivered", "dropped"}
    /\ t.pc = "cleared" => gone \/ w.pc \in {"delivered", "dropped"}
    /\ w.pc \in Last => t.pc \in Over
    /\ w.pc \in Batch \cup {"holding"} => k.held
    /\ w.pc = "holding" => w.gen = k.cur
    /\ w.pc \in Batch => t.pc \in Over \cup {"resting"}
    /\ t.pc # "cleared" =>
         /\ k.cur >= t.gen /\ k.completed <= t.gen
         /\ t.pc = "rearming" => k.cur = t.gen + 1
         /\ t.pc \notin {"resting", "completed"} => k.completed < t.gen
    /\ t.pc \notin {"revoking", "failing", "reporting", "completed"} => t.err = "none"

WaitSound == \A c \in Call : Sound(tok[c], task[c], call[c], cancelled)

\* The lock: one exchange at a time, a human's claim is made before the exchange, and
\* automation goes on only while no human claims the VM.
LockInv ==
    /\ \A c \in Call : task[c].pc \in Inside =>
         /\ man = "none" /\ ~own.manual
         /\ task[c].pc # "pausing" => own.automatic = {c}
         /\ \A d \in Call : task[d].pc \in Inside => d = c
    /\ man \in Pauses => own.manual
    /\ SnapshotRunning

\* The slot is kept while the wait task lives, and a wait that was overlapped is woken.
SlotInv ==
    ~cancelled =>
        /\ \A c \in Call : (task[c].pc \notin {"none", "cleared"} /\ call[c].pc # "delivered")
              => active = {c}
        /\ disabled => \A c \in active : tok[c].wake

\* A wait that claims the VM is going to release it: the VM is paused, or its resume
\* was not recorded and the Execution is about to hear of it.
Releases(c) ==
    /\ WillRelease(c)
    /\ task[c].err = "known" => st = "ended"
    /\ st \in {"suspended", "ended"} \/ task[c].pc \in {"failing", "reporting"}

\* Claims and the published state.
ClaimInv ==
    ~cancelled =>
        /\ \A c \in own.automatic :
              own.automatic = {c} /\ (own.manual \/ Releases(c))
        /\ st = "suspended" => own.manual \/ own.automatic # {}

\* A counted caller past its wait: the wait it found in the slot is over, and no other
\* one can take the slot.
PassiveInv ==
    \A c \in Call :
        /\ call[c].pc \in Counted => disabled
        /\ call[c].pc = "pwaiting" => active \subseteq call[c].ref
        /\ call[c].pc \in Counted \ Queueing => \A d \in active : task[d].pc \in Over

IInv == TypeOK /\ WaitSound /\ LockInv /\ SlotInv /\ ClaimInv /\ PassiveInv

-----------------------------------------------------------------------------
(* What the invariant says of a wait and of the claim.                     *)

\* What the invariant says of one wait.
LEMMA OneWait ==
  ASSUME IInv, NEW c \in Call
  PROVE  /\ tok[c] \in Tokens /\ task[c] \in WaitTasks /\ call[c] \in Callers
         /\ Sound(tok[c], task[c], call[c], cancelled)
BY DEF IInv, TypeOK, WaitSound

Ending == {"failing", "reporting"}
Releasing == {"paused", "offloading", "parked", "revoking", "settled", "rearming",
              "releasing", "resuming"} \cup Ending

\* The facts about the present claim that a step within a round needs.
LEMMA Claims ==
  ASSUME IInv, NEW c \in Call, c \in own.automatic, ~cancelled, ~own.manual
  PROVE  own.automatic = {c} /\ Releases(c) /\ task[c].pc \in Releasing
BY DEF IInv, ClaimInv, Releases, WillRelease, Releasing, Ending

-----------------------------------------------------------------------------
(* The invariant, and what follows from it.                                *)

\* The invariant holds at the start.
LEMMA InitInv ==
  ASSUME Init
  PROVE  IInv
<1>1. \A c \in Call : /\ tok[c] = NewTokens /\ task[c] = NoTask /\ call[c] = NewCall
  BY DEF Init
<1>2. TypeOK
  <2>1. NewTokens \in Tokens /\ NoTask \in WaitTasks /\ NewCall \in Callers
    BY DEF Init, NewTokens, NoTask, NewCall, Tokens, WaitTasks, Callers, TaskPcs, CallPcs
  <2> QED
    BY <2>1, ZenonT(60) DEF Init, TypeOK
<1>3. WaitSound
  <2>1. Sound(NewTokens, NoTask, NewCall, cancelled)
    BY DEF Sound, NewTokens, NoTask, NewCall, Counted, Queueing, Batch, Last, Over
  <2> QED
    BY <1>1, <2>1, SMTT(30) DEF WaitSound
<1>4. LockInv
  BY <1>1, Zenon DEF Init, LockInv, SnapshotRunning, NoTask, Inside, Pauses, Snapshots
<1>5. SlotInv /\ ClaimInv
  BY <1>1, SMTT(30) DEF Init, SlotInv, ClaimInv, NoTask
<1>6. PassiveInv
  BY <1>1, SMTT(30) DEF PassiveInv, NewCall, Counted, Queueing
<1> QED
  BY <1>2, <1>3, <1>4, <1>5, <1>6 DEF IInv

\* Every step keeps the invariant.
LEMMA NextInv ==
  IInv /\ [Next]_<<policy, vars>> => IInv'

(* What a step of one actor has to respect.                                *)

\* The waits that a step does not touch stay sound.
<1>OthersSound.
  ASSUME TypeOK, WaitSound, NEW c \in Call, NEW k, NEW t, NEW w, cancelled => cancelled',
         tok' = [tok EXCEPT ![c] = k], task' = [task EXCEPT ![c] = t],
         call' = [call EXCEPT ![c] = w], Sound(k, t, w, cancelled')
  PROVE  WaitSound'
  <2> USE <1>OthersSound
  <2> SUFFICES ASSUME NEW d \in Call PROVE Sound(tok'[d], task'[d], call'[d], cancelled')
    BY DEF WaitSound
  <2>1. CASE d = c
    BY <2>1, Zenon DEF TypeOK
  <2>2. CASE d # c
    <3>1. tok'[d] = tok[d] /\ task'[d] = task[d] /\ call'[d] = call[d]
      BY <2>2 DEF TypeOK
    <3>2. Sound(tok[d], task[d], call[d], cancelled)
      BY DEF WaitSound
    <3> QED
      BY <3>1, <3>2 DEF Sound
  <2> QED
    BY <2>1, <2>2

\* A step of a caller outside the lock: only its tokens and its own state change, and
\* it never takes a wake back.
<1>CallerStep.
  ASSUME IInv, NEW c \in Call, NEW k \in Tokens, NEW w \in Callers,
         UNCHANGED <<policy, execution, own, man, epoch, changes, active, disabled, task>>,
         tok' = [tok EXCEPT ![c] = k], call' = [call EXCEPT ![c] = w],
         tok[c].wake => k.wake, call[c].pc = "delivered" => w.pc = "delivered",
         Sound(k, task[c], w, cancelled),
         w.pc \in Counted => disabled,
         w.pc = "pwaiting" => active \subseteq w.ref,
         w.pc \in Counted \ Queueing => \A d \in active : task[d].pc \in Over
  PROVE  IInv'
  <2> USE <1>CallerStep
  <2> USE DEF execution
  <2>1. TypeOK'
    BY DEF IInv, TypeOK
  <2>2. WaitSound'
    <3>1. task' = [task EXCEPT ![c] = task[c]]
      BY DEF IInv, TypeOK
    <3> QED
      BY <3>1, <1>OthersSound, Zenon DEF IInv
  <2>3. LockInv'
    BY DEF IInv, LockInv, SnapshotRunning
  <2>4. SlotInv'
    <3>1. \A d \in Call : call'[d].pc = "delivered" \/ call[d].pc # "delivered"
      BY DEF IInv, TypeOK
    <3>2. \A d \in Call : tok[d].wake => tok'[d].wake
      BY DEF IInv, TypeOK
    <3>3. active \subseteq Call
      BY DEF IInv, TypeOK
    <3> QED
      BY <3>1, <3>2, <3>3 DEF IInv, SlotInv
  <2>5. ClaimInv'
    BY DEF IInv, ClaimInv, Releases, WillRelease
  <2>6. PassiveInv'
    <3>1. \A d \in Call : call'[d] = IF d = c THEN w ELSE call[d]
      BY DEF IInv, TypeOK
    <3> QED
      BY <3>1 DEF IInv, PassiveInv
  <2> QED
    BY <2>1, <2>2, <2>3, <2>4, <2>5, <2>6 DEF IInv

\* A step of a wait task outside an exchange: it may enter one, and it keeps what it
\* owes to a VM that it claims.
<1>TaskStep.
  ASSUME IInv, NEW c \in Call, NEW k \in Tokens, NEW t \in WaitTasks,
         UNCHANGED <<policy, st, own, man, epoch, changes, active, disabled, call>>,
         cancelled' \in BOOLEAN, cancelled => cancelled',
         tok' = [tok EXCEPT ![c] = k], task' = [task EXCEPT ![c] = t],
         tok[c].wake => k.wake, task[c].pc \notin {"none", "cleared"},
         task[c].pc \in Over => t.pc \in Over,
         Sound(k, t, call[c], cancelled'),
         t.pc \in Inside => /\ ~Locked /\ ~own.manual
                            /\ t.pc # "pausing" => own.automatic = {c},
         (c \in own.automatic /\ ~cancelled' /\ ~own.manual) => Releases(c)'
  PROVE  IInv'
  <2> USE <1>TaskStep
  <2>0. \A d \in Call : /\ task'[d] = IF d = c THEN t ELSE task[d]
                        /\ tok'[d] = IF d = c THEN k ELSE tok[d]
    BY DEF IInv, TypeOK
  <2>1. TypeOK'
    BY DEF IInv, TypeOK
  <2>2. WaitSound'
    <3>1. call' = [call EXCEPT ![c] = call[c]]
      BY DEF IInv, TypeOK
    <3> QED
      BY <3>1, <1>OthersSound, Zenon DEF IInv
  <2>3. LockInv'
    <3>1. CASE t.pc \in Inside
      BY <2>0, <3>1 DEF IInv, LockInv, SnapshotRunning, Locked, Inside
    <3>2. CASE t.pc \notin Inside
      BY <2>0, <3>2 DEF IInv, LockInv, SnapshotRunning
    <3> QED
      BY <3>1, <3>2
  <2>4. SlotInv'
    <3>1. active \subseteq Call
      BY DEF IInv, TypeOK
    <3> QED
      BY <2>0, <3>1 DEF IInv, SlotInv
  <2>5. ClaimInv'
    <3> SUFFICES ASSUME ~cancelled'
                 PROVE  /\ \A d \in own.automatic :
                              own.automatic = {d} /\ (own.manual \/ Releases(d)')
                        /\ st = "suspended" => own.manual \/ own.automatic # {}
      BY DEF ClaimInv
    <3>1. own.automatic \subseteq Call
      BY Zenon DEF IInv, TypeOK
    <3>2. ASSUME NEW d \in own.automatic, d # c
          PROVE  own.automatic = {d} /\ (own.manual \/ Releases(d)')
      BY <2>0, <3>1, <3>2 DEF IInv, ClaimInv, Releases, WillRelease
    <3>3. ASSUME c \in own.automatic
          PROVE  own.automatic = {c} /\ (own.manual \/ Releases(c)')
      BY <3>3 DEF IInv, ClaimInv
    <3> QED
      BY <3>2, <3>3 DEF IInv, ClaimInv
  <2>6. PassiveInv'
    <3>1. active \subseteq Call
      BY DEF IInv, TypeOK
    <3> QED
      BY <2>0, <3>1 DEF IInv, PassiveInv
  <2> QED
    BY <2>1, <2>2, <2>3, <2>4, <2>5, <2>6 DEF IInv

(* Callers.                                                                *)

\* A caller fails or is dropped.
<1>DropsInv.
  ASSUME IInv, NEW c \in Call, Drops(c), call[c].pc \notin {"new", "delivered"},
         UNCHANGED <<policy, execution, own, man, epoch, changes, active, disabled, task>>
  PROVE  IInv'
  <2> USE <1>DropsInv
  <2> DEFINE k == [tok[c] EXCEPT !.wake = TRUE, !.retired = TRUE]
             w == [NewCall EXCEPT !.pc = "dropped"]
  <2>0. tok[c] \in Tokens /\ call[c] \in Callers /\ task[c] \in WaitTasks
    BY OneWait
  <2>1. k \in Tokens /\ w \in Callers
    <3>1. k \in Tokens
      BY <2>0, Zenon DEF Tokens
    <3>2. w \in Callers
      BY <2>0 DEF Tokens, Callers, CallPcs, NewCall
    <3> QED
      BY <3>1, <3>2
  <2>2. tok' = [tok EXCEPT ![c] = k] /\ call' = [call EXCEPT ![c] = w]
    BY Zenon DEF Drops, IInv, TypeOK
  <2>3. Sound(k, task[c], w, cancelled)
    BY OneWait DEF Sound, Tokens, WaitTasks, Callers, NewCall, Counted, Queueing, Batch, Last, Over
  <2>4. w.pc = "dropped" /\ k.wake
    BY OneWait DEF Tokens, NewCall
  <2> HIDE DEF k, w
  <2> QED
    BY <2>1, <2>2, <2>3, <2>4, <1>CallerStep, Zenon DEF Counted, Queueing

\* A step that changes only the caller's own state.
<1>CallOnly.
  ASSUME IInv, NEW c \in Call, NEW w \in Callers, call' = [call EXCEPT ![c] = w],
         UNCHANGED <<policy, execution, own, man, epoch, changes, active, disabled, tok, task>>,
         call[c].pc # "delivered", Sound(tok[c], task[c], w, cancelled),
         w.pc \in Counted => disabled,
         w.pc = "pwaiting" => active \subseteq w.ref,
         w.pc \in Counted \ Queueing => \A d \in active : task[d].pc \in Over
  PROVE  IInv'
  <2> USE <1>CallOnly
  <2>1. tok' = [tok EXCEPT ![c] = tok[c]]
    BY DEF IInv, TypeOK
  <2> QED
    BY <2>1, OneWait, <1>CallerStep, Zenon

\* The caller enters the wait.
<1>EnterInv.
  ASSUME IInv, NEW c \in Call, UNCHANGED policy, Enter(c)
  PROVE  IInv'
  <2> USE <1>EnterInv
  <2> DEFINE k == [tok[c] EXCEPT !.entered = TRUE]
             w == [call[c] EXCEPT !.pc = "upstream"]
  <2>0. tok[c] \in Tokens /\ call[c] \in Callers /\ task[c] \in WaitTasks
    BY OneWait
  <2>1. k \in Tokens /\ w \in Callers
    <3>1. k \in Tokens
      BY <2>0, Zenon DEF Tokens
    <3>2. w \in Callers
      BY <2>0 DEF Tokens, Callers, CallPcs
    <3> QED
      BY <3>1, <3>2
  <2>2. tok' = [tok EXCEPT ![c] = k] /\ call' = [call EXCEPT ![c] = w]
    BY DEF Enter, CallGoto, IInv, TypeOK
  <2>3. Sound(k, task[c], w, cancelled)
    BY OneWait DEF Enter, CallAt, Sound, Tokens, WaitTasks, Callers, Counted, Queueing, Batch, Last
  <2>4. w.pc = "upstream" /\ k.wake = tok[c].wake
    BY OneWait DEF Tokens, Callers
  <2> HIDE DEF k, w
  <2> QED
    BY <2>1, <2>2, <2>3, <2>4, <1>CallerStep, Zenon DEF Enter, CallAt, Counted, Queueing

\* The caller holds a batch back.
<1>BeforeBatchInv.
  ASSUME IInv, NEW c \in Call, UNCHANGED policy, BeforeBatch(c)
  PROVE  IInv'
  <2> USE <1>BeforeBatchInv
  <2> DEFINE k == [tok[c] EXCEPT !.held = TRUE, !.woken = @ \cup {tok[c].cur}]
             w == [call[c] EXCEPT !.pc = "holding", !.gen = tok[c].cur]
  <2>0. tok[c] \in Tokens /\ call[c] \in Callers /\ task[c] \in WaitTasks
    BY OneWait
  <2>1. k \in Tokens /\ w \in Callers
    <3>1. k \in Tokens
      BY <2>0, Zenon DEF Tokens
    <3>2. w \in Callers
      BY <2>0, Zenon DEF Tokens, Callers, CallPcs
    <3> QED
      BY <3>1, <3>2
  <2>2. tok' = [tok EXCEPT ![c] = k] /\ call' = [call EXCEPT ![c] = w]
    BY Zenon DEF BeforeBatch, IInv, TypeOK
  <2>3. Sound(k, task[c], w, cancelled)
    BY OneWait DEF BeforeBatch, CallAt, Sound, Tokens, WaitTasks, Callers, Counted, Queueing,
       Batch, Last
  <2>4. w.pc = "holding" /\ k.wake = tok[c].wake
    BY OneWait DEF Tokens, Callers
  <2>5. /\ UNCHANGED <<policy, execution, own, man, epoch, changes, active, disabled, task>>
        /\ call[c].pc = "upstream"
    BY Zenon DEF BeforeBatch, CallAt
  <2> HIDE DEF k, w
  <2> QED
    BY <2>1, <2>2, <2>3, <2>4, <2>5, <1>CallerStep, Zenon DEF Counted, Queueing

\* The caller ends the wait for a delivery.
<1>BeforeDeliveryInv.
  ASSUME IInv, NEW c \in Call, UNCHANGED policy, BeforeDelivery(c)
  PROVE  IInv'
  <2> USE <1>BeforeDeliveryInv
  <2> DEFINE k == [tok[c] EXCEPT !.wake = TRUE]
             w == [call[c] EXCEPT !.pc = "finishing"]
  <2>0. tok[c] \in Tokens /\ call[c] \in Callers /\ task[c] \in WaitTasks
    BY OneWait
  <2>1. k \in Tokens /\ w \in Callers
    <3>1. k \in Tokens
      BY <2>0, Zenon DEF Tokens
    <3>2. w \in Callers
      BY <2>0 DEF Tokens, Callers, CallPcs
    <3> QED
      BY <3>1, <3>2
  <2>2. tok' = [tok EXCEPT ![c] = k] /\ call' = [call EXCEPT ![c] = w]
    BY DEF BeforeDelivery, Wakes, CallGoto, IInv, TypeOK
  <2>3. Sound(k, task[c], w, cancelled)
    BY OneWait DEF BeforeDelivery, Sound, Tokens, WaitTasks, Callers, Counted, Queueing, Batch,
       Last
  <2>4. w.pc = "finishing" /\ k.wake
    BY OneWait DEF Tokens, Callers
  <2> HIDE DEF k, w
  <2> QED
    BY <2>1, <2>2, <2>3, <2>4, <1>CallerStep, Zenon DEF BeforeDelivery, Counted, Queueing

\* The caller delivers a batch.
<1>AfterBatchInv.
  ASSUME IInv, NEW c \in Call, UNCHANGED policy, AfterBatch(c)
  PROVE  IInv'
  <2> USE <1>AfterBatchInv
  <2> DEFINE k == [tok[c] EXCEPT !.held = FALSE]
             w == [call[c] EXCEPT !.pc = "upstream"]
  <2>0. tok[c] \in Tokens /\ call[c] \in Callers /\ task[c] \in WaitTasks
    BY OneWait
  <2>1. k \in Tokens /\ w \in Callers
    <3>1. k \in Tokens
      BY <2>0, Zenon DEF Tokens
    <3>2. w \in Callers
      BY <2>0 DEF Tokens, Callers, CallPcs
    <3> QED
      BY <3>1, <3>2
  <2>2. tok' = [tok EXCEPT ![c] = k] /\ call' = [call EXCEPT ![c] = w]
    BY DEF AfterBatch, CallGoto, IInv, TypeOK
  <2>3. Sound(k, task[c], w, cancelled)
    BY OneWait DEF AfterBatch, CallAt, Sound, Tokens, WaitTasks, Callers, Counted, Queueing,
       Batch, Last
  <2>4. w.pc = "upstream" /\ k.wake = tok[c].wake
    BY OneWait DEF Tokens, Callers
  <2> HIDE DEF k, w
  <2> QED
    BY <2>1, <2>2, <2>3, <2>4, <1>CallerStep, Zenon DEF AfterBatch, CallAt, Counted, Queueing

\* The caller gives up.
<1>GiveUpInv.
  ASSUME IInv, NEW c \in Call, UNCHANGED policy, GiveUp(c)
  PROVE  IInv'
  BY <1>GiveUpInv, <1>DropsInv DEF GiveUp

\* The round that a batch waited for is over: the hold keeps the task from the next.
<1>CleanedInv.
  ASSUME IInv, NEW c \in Call, UNCHANGED policy, Cleaned(c)
  PROVE  IInv'
  <2> USE <1>CleanedInv
  <2>1. CASE Drops(c)
    BY <2>1, <1>DropsInv DEF Cleaned, CallAt
  <2>2. CASE ~Drops(c)
    <3> DEFINE w == [call[c] EXCEPT !.pc = IF @ = "holding" THEN "bchecking" ELSE "dchecking",
                                    !.seen = changes]
    <3>1. /\ call' = [call EXCEPT ![c] = w] /\ UNCHANGED tok
          /\ call[c].pc \in {"holding", "finishing"}
      BY <2>2, OneWait, Zenon DEF Cleaned, CallAt, IInv, TypeOK
    <3>2. w \in Callers
      <4>1. call[c] \in Callers /\ changes \in Nat
        BY OneWait DEF IInv, TypeOK
      <4> QED
        BY <4>1, Zenon DEF Callers, CallPcs, Batch, Last
    <3>3. CASE call[c].pc = "holding"
      <4>1. RoundDone(c)
        BY <2>2, <3>3, Zenon DEF Cleaned, CallAt, RoundFailed
      <4>2. task[c].pc \in Over \cup {"resting"}
        BY <3>3, <4>1, OneWait DEF RoundDone, Sound, Tokens, WaitTasks, Callers, Over,
           Counted, Queueing
      <4>3. Sound(tok[c], task[c], w, cancelled)
        BY <3>3, <4>2, OneWait DEF Sound, Tokens, WaitTasks, Callers, Counted, Queueing, Batch,
           Last, Over
      <4>4. w.pc = "bchecking" /\ call[c].pc # "delivered"
        BY <3>3, OneWait DEF Callers
      <4> HIDE DEF w
      <4> QED
        BY <3>1, <3>2, <4>3, <4>4, <1>CallOnly, Zenon DEF Counted, Queueing, Cleaned
    <3>4. CASE call[c].pc = "finishing"
      <4>1. task[c].pc \in Over
        BY <3>4 DEF Cleaned, CallAt, Over
      <4>2. Sound(tok[c], task[c], w, cancelled)
        BY <3>4, <4>1, OneWait DEF Sound, Tokens, WaitTasks, Callers, Counted, Queueing, Batch,
           Last, Over
      <4>3. w.pc = "dchecking" /\ call[c].pc # "delivered"
        BY <3>4, OneWait DEF Callers
      <4> HIDE DEF w
      <4> QED
        BY <3>1, <3>2, <4>2, <4>3, <1>CallOnly, Zenon DEF Counted, Queueing, Cleaned
    <3> QED
      BY <3>1, <3>3, <3>4
  <2> QED
    BY <2>1, <2>2

\* A counted caller delivers.
<1>PassiveDeliveryInv.
  ASSUME IInv, NEW c \in Call, UNCHANGED policy, PassiveDelivery(c)
  PROVE  IInv'
  <2> USE <1>PassiveDeliveryInv
  <2> DEFINE w == [call[c] EXCEPT !.pc = "pwaiting", !.ref = active]
  <2>0. call[c] \in Callers /\ active \subseteq Call
    BY OneWait DEF IInv, TypeOK
  <2>1. w \in Callers /\ w.pc = "pwaiting" /\ w.ref = active
    BY <2>0, Zenon DEF Callers, CallPcs, Counted, Queueing
  <2>2. call' = [call EXCEPT ![c] = w]
    BY Zenon DEF PassiveDelivery, IInv, TypeOK
  <2>3. Sound(tok[c], task[c], w, cancelled)
    BY OneWait DEF PassiveDelivery, Sound, Tokens, WaitTasks, Callers, Counted, Queueing,
       Batch, Last
  <2>4. disabled /\ call[c].pc # "delivered"
    BY DEF PassiveDelivery, IInv, PassiveInv, Counted, Queueing
  <2> HIDE DEF w
  <2> QED
    BY <2>1, <2>2, <2>3, <2>4, <1>CallOnly, Zenon DEF PassiveDelivery, Queueing

\* The wait that a counted caller found in the slot is over.
<1>PassiveCleanedInv.
  ASSUME IInv, NEW c \in Call, UNCHANGED policy, PassiveCleaned(c)
  PROVE  IInv'
  <2> USE <1>PassiveCleanedInv
  <2>1. CASE Drops(c)
    BY <2>1, <1>DropsInv DEF PassiveCleaned, CallAt
  <2>2. CASE ~Drops(c)
    <3> DEFINE w == [call[c] EXCEPT !.pc = "pchecking", !.seen = changes, !.ref = {}]
    <3>0. call[c] \in Callers /\ changes \in Nat /\ call[c].pc = "pwaiting"
      BY OneWait DEF IInv, TypeOK, PassiveCleaned, CallAt
    <3>1. w \in Callers /\ w.pc = "pchecking"
      BY <3>0, Zenon DEF Callers, CallPcs, Counted, Queueing
    <3>2. call' = [call EXCEPT ![c] = w] /\ UNCHANGED tok
      BY <2>2, Zenon DEF PassiveCleaned, IInv, TypeOK
    <3>3. Sound(tok[c], task[c], w, cancelled)
      BY <3>0, OneWait DEF Sound, Tokens, WaitTasks, Callers, Counted, Queueing, Batch, Last
    <3>4. disabled /\ \A d \in active : task[d].pc \in Over
      BY <3>0 DEF PassiveCleaned, IInv, PassiveInv, Counted, Queueing, Over
    <3> HIDE DEF w
    <3> QED
      BY <3>0, <3>1, <3>2, <3>3, <3>4, <1>CallOnly, Zenon DEF PassiveCleaned, Queueing
  <2> QED
    BY <2>1, <2>2

\* A pause that blocked a caller is over.
<1>UnblockInv.
  ASSUME IInv, NEW c \in Call, UNCHANGED policy, Unblock(c)
  PROVE  IInv'
  <2> USE <1>UnblockInv
  <2>1. PICK pc \in Barriers :
          /\ call[c].pc = BlockedAt(pc)
          /\ IF cancelled THEN Drops(c)
             ELSE call' = [call EXCEPT ![c].pc = pc, ![c].seen = changes] /\ UNCHANGED tok
    BY Zenon DEF Unblock, CallAt
  <2>2. \/ pc = "bchecking" /\ call[c].pc = "bblocked"
        \/ pc = "dchecking" /\ call[c].pc = "dblocked"
        \/ pc = "pchecking" /\ call[c].pc = "pblocked"
    BY <2>1 DEF Barriers, BlockedAt
  <2>3. CASE cancelled
    BY <2>1, <2>2, <2>3, <1>DropsInv DEF Unblock
  <2>4. CASE ~cancelled
    <3> DEFINE w == [call[c] EXCEPT !.pc = pc, !.seen = changes]
    <3>0. call[c] \in Callers /\ changes \in Nat
      BY OneWait DEF IInv, TypeOK
    <3>1. w \in Callers /\ w.pc = pc
      BY <2>2, <3>0, Zenon DEF Callers, CallPcs, Counted, Queueing, Batch, Last
    <3>2. call' = [call EXCEPT ![c] = w] /\ UNCHANGED tok
      BY <2>1, <2>4, Zenon DEF IInv, TypeOK
    <3>3. Sound(tok[c], task[c], w, cancelled)
      BY <2>2, OneWait DEF Sound, Tokens, WaitTasks, Callers, Counted, Queueing, Batch, Last
    <3>4. pc = "pchecking" => disabled /\ \A d \in active : task[d].pc \in Over
      BY <2>2 DEF IInv, PassiveInv, Counted, Queueing
    <3>5. call[c].pc # "delivered" /\ pc # "pwaiting" /\ (pc \in Counted => pc = "pchecking")
      BY <2>2 DEF Counted, Queueing
    <3> HIDE DEF w
    <3> QED
      BY <3>1, <3>2, <3>3, <3>4, <3>5, <1>CallOnly, Zenon DEF Unblock
  <2> QED
    BY <2>3, <2>4

\* The barrier under the lock; the last delivery frees the slot.
<1>BarrierInv.
  ASSUME IInv, NEW c \in Call, UNCHANGED policy, Barrier(c)
  PROVE  IInv'
  <2> USE <1>BarrierInv
  <2>0. /\ call[c] \in Callers /\ tok[c] \in Tokens
        /\ UNCHANGED <<policy, execution, own, man, epoch, changes, disabled, task>>
        /\ call[c].pc \in {"bchecking", "dchecking", "pchecking"}
    BY OneWait DEF Barrier, Barriers
  <2>p. call[c].pc = "pchecking" => disabled /\ \A d \in active : task[d].pc \in Over
    BY DEF IInv, PassiveInv, Counted, Queueing
  <2>1. CASE Drops(c) /\ UNCHANGED active
    BY <2>0, <2>1, <1>DropsInv
  <2>2. CASE CallGoto(c, BlockedAt(call[c].pc)) /\ UNCHANGED <<tok, active>>
    <3> DEFINE w == [call[c] EXCEPT !.pc = BlockedAt(call[c].pc)]
    <3>1. \/ w.pc = "bblocked" /\ call[c].pc = "bchecking"
          \/ w.pc = "dblocked" /\ call[c].pc = "dchecking"
          \/ w.pc = "pblocked" /\ call[c].pc = "pchecking"
      BY <2>0 DEF BlockedAt, Callers
    <3>2. w \in Callers
      BY <2>0, <3>1 DEF Callers, CallPcs, Counted, Queueing, Batch, Last
    <3>3. call' = [call EXCEPT ![c] = w]
      BY <2>2, Zenon DEF CallGoto, IInv, TypeOK
    <3>4. Sound(tok[c], task[c], w, cancelled)
      BY <3>1, OneWait DEF Sound, Tokens, WaitTasks, Callers, Counted, Queueing, Batch, Last
    <3>5. w.pc # "pwaiting" /\ (w.pc \in Counted => call[c].pc = "pchecking")
      BY <3>1 DEF Counted, Queueing
    <3> HIDE DEF w
    <3> QED
      BY <2>0, <2>p, <2>2, <3>2, <3>3, <3>4, <3>5, <1>CallOnly, Zenon
  <2>3. CASE Passes(c) /\ call[c].pc # "dchecking"
    <3> DEFINE w == [NewCall EXCEPT !.pc = PassedAt(call[c].pc)]
    <3>1. \/ w.pc = "delivering" /\ call[c].pc = "bchecking"
          \/ w.pc = "pdelivering" /\ call[c].pc = "pchecking"
      BY <2>0, <2>3 DEF PassedAt, NewCall
    <3>2. w \in Callers
      BY <3>1 DEF Callers, CallPcs, Counted, Queueing, Batch, Last, NewCall
    <3>3. call' = [call EXCEPT ![c] = w] /\ UNCHANGED <<tok, active>>
      BY <2>3, Zenon DEF Passes, CallAt
    <3>4. Sound(tok[c], task[c], w, cancelled)
      BY <3>1, OneWait DEF Sound, Tokens, WaitTasks, Callers, Counted, Queueing, Batch, Last
    <3>5. w.pc # "pwaiting" /\ (w.pc \in Counted => call[c].pc = "pchecking")
      BY <3>1 DEF Counted, Queueing
    <3> HIDE DEF w
    <3> QED
      BY <2>0, <2>p, <3>2, <3>3, <3>4, <3>5, <1>CallOnly, Zenon
  <2>4. CASE Passes(c) /\ call[c].pc = "dchecking"
    <3> DEFINE k == [tok[c] EXCEPT !.retired = TRUE]
               w == [NewCall EXCEPT !.pc = "delivered"]
    <3>1. k \in Tokens /\ k.wake = tok[c].wake
      BY <2>0, Zenon DEF Tokens
    <3>2. w \in Callers /\ w.pc = "delivered"
      BY DEF Callers, CallPcs, Last, NewCall
    <3>3. /\ call' = [call EXCEPT ![c] = w] /\ tok' = [tok EXCEPT ![c] = k]
          /\ active' = active \ {c}
      BY <2>4, Zenon DEF Passes, CallAt, PassedAt, IInv, TypeOK
    <3>4. Sound(k, task[c], w, cancelled)
      BY <2>4, OneWait DEF Sound, Tokens, WaitTasks, Callers, Counted, Queueing, Batch, Last,
         NewCall
    <3> HIDE DEF k, w
    <3>5. \A d \in Call : /\ call'[d] = IF d = c THEN w ELSE call[d]
                          /\ tok'[d] = IF d = c THEN k ELSE tok[d]
      BY <3>3 DEF IInv, TypeOK
    <3>6. TypeOK'
      BY <2>0, <3>1, <3>2, <3>3 DEF IInv, TypeOK, execution
    <3>7. WaitSound'
      <4>1. task' = [task EXCEPT ![c] = task[c]] /\ cancelled' = cancelled
        BY <2>0, Zenon DEF IInv, TypeOK, execution
      <4> QED
        BY <3>3, <3>4, <4>1, <1>OthersSound, Zenon DEF IInv
    <3>8. LockInv'
      BY <2>0 DEF IInv, LockInv, SnapshotRunning, execution
    <3>9. SlotInv'
      BY <2>0, <3>1, <3>2, <3>3, <3>5, Zenon DEF IInv, SlotInv, TypeOK, execution
    <3>10. ClaimInv'
      BY <2>0, Zenon DEF IInv, ClaimInv, Releases, WillRelease, execution
    <3>11. PassiveInv'
      BY <2>0, <3>2, <3>3, <3>5 DEF IInv, PassiveInv, Counted, Queueing
    <3> QED
      BY <3>6, <3>7, <3>8, <3>9, <3>10, <3>11 DEF IInv
  <2> QED
    BY <2>1, <2>2, <2>3, <2>4, Zenon DEF Barrier

\* A wait takes the free slot.
<1>ReserveInv.
  ASSUME IInv, NEW c \in Call, UNCHANGED policy, Reserve(c)
  PROVE  IInv'
  <2> USE <1>ReserveInv
  <2> DEFINE k == NewTokens
             t == [task[c] EXCEPT !.pc = "reserved"]
             w == [call[c] EXCEPT !.pc = "reserved"]
  <2>0. /\ call[c] \in Callers /\ task[c] \in WaitTasks /\ epoch \in Nat
        /\ UNCHANGED <<policy, execution, own, man, epoch, changes, disabled>>
        /\ call[c].pc = "new" /\ task[c].pc = "none" /\ active = {} /\ active' = {c}
        /\ ~cancelled /\ ~disabled
    BY OneWait, Zenon DEF Reserve, CallAt, Sound, IInv, TypeOK, Counted
  <2>1. k \in Tokens
    BY <2>0 DEF Tokens, NewTokens
  <2>2. t \in WaitTasks /\ t.pc = "reserved" /\ w \in Callers /\ w.pc = "reserved"
    BY <2>0, Zenon DEF WaitTasks, TaskPcs, Callers, CallPcs
  <2>3. /\ call' = [call EXCEPT ![c] = w] /\ tok' = [tok EXCEPT ![c] = k]
        /\ task' = [task EXCEPT ![c] = t]
    BY Zenon DEF Reserve, CallGoto, IInv, TypeOK
  <2>4. Sound(k, t, w, cancelled)
    <3>1. task[c].gen = 1 /\ task[c].err = "none"
      BY <2>0, OneWait DEF Sound
    <3> QED
      BY <2>0, <3>1 DEF Sound, NewTokens, WaitTasks, Callers, Counted, Queueing, Batch, Last, Over
  <2> HIDE DEF k, t, w
  <2>5. \A d \in Call : /\ call'[d] = IF d = c THEN w ELSE call[d]
                        /\ tok'[d] = IF d = c THEN k ELSE tok[d]
                        /\ task'[d] = IF d = c THEN t ELSE task[d]
    BY <2>3, Zenon DEF IInv, TypeOK
  <2>6. TypeOK'
    BY <2>0, <2>1, <2>2, <2>3 DEF IInv, TypeOK, execution
  <2>7. WaitSound'
    BY <2>0, <2>3, <2>4, <1>OthersSound, Zenon DEF IInv, execution
  <2>8. LockInv'
    BY <2>0, <2>2, <2>5 DEF IInv, LockInv, SnapshotRunning, execution, Inside
  <2>9. SlotInv'
    BY <2>0, <2>5, Zenon DEF IInv, SlotInv, execution
  <2>10. ClaimInv'
    <3>1. c \notin own.automatic \/ own.manual
      BY <2>0 DEF IInv, ClaimInv, Releases, WillRelease
    <3> QED
      BY <2>0, <2>5, <3>1 DEF IInv, ClaimInv, Releases, WillRelease, execution, TypeOK
  <2>11. PassiveInv'
    BY <2>0, <2>2, <2>5 DEF IInv, PassiveInv, Counted, Queueing
  <2> QED
    BY <2>6, <2>7, <2>8, <2>9, <2>10, <2>11 DEF IInv

\* Waking the wait in the slot keeps every wait sound.
<1>WakesAll.
  ASSUME IInv,
         tok' = [d \in Call |-> IF d \in active THEN [tok[d] EXCEPT !.wake = TRUE] ELSE tok[d]]
  PROVE  /\ tok' \in [Call -> Tokens]
         /\ \A d \in Call : tok[d].wake \/ d \in active => tok'[d].wake
         /\ \A d \in Call : /\ tok'[d].retired = tok[d].retired /\ tok'[d].held = tok[d].held
                            /\ tok'[d].cur = tok[d].cur /\ tok'[d].completed = tok[d].completed
  <2> USE <1>WakesAll
  <2>1. \A d \in Call : /\ [tok[d] EXCEPT !.wake = TRUE] \in Tokens
                        /\ [tok[d] EXCEPT !.wake = TRUE].wake
                        /\ [tok[d] EXCEPT !.wake = TRUE].retired = tok[d].retired
                        /\ [tok[d] EXCEPT !.wake = TRUE].held = tok[d].held
                        /\ [tok[d] EXCEPT !.wake = TRUE].cur = tok[d].cur
                        /\ [tok[d] EXCEPT !.wake = TRUE].completed = tok[d].completed
    <3> SUFFICES ASSUME NEW d \in Call
                 PROVE  /\ [tok[d] EXCEPT !.wake = TRUE] \in Tokens
                        /\ [tok[d] EXCEPT !.wake = TRUE].wake
                        /\ [tok[d] EXCEPT !.wake = TRUE].retired = tok[d].retired
                        /\ [tok[d] EXCEPT !.wake = TRUE].held = tok[d].held
                        /\ [tok[d] EXCEPT !.wake = TRUE].cur = tok[d].cur
                        /\ [tok[d] EXCEPT !.wake = TRUE].completed = tok[d].completed
      OBVIOUS
    <3>1. tok[d] \in Tokens
      BY OneWait
    <3> QED
      BY <3>1, Zenon DEF Tokens
  <2>2. \A d \in Call : tok[d] \in Tokens
    BY OneWait
  <2>3. tok' \in [Call -> Tokens]
    BY <2>1, <2>2
  <2>4. \A d \in Call : tok'[d] = IF d \in active THEN [tok[d] EXCEPT !.wake = TRUE] ELSE tok[d]
    OBVIOUS
  <2> QED
    BY <2>1, <2>3, <2>4, Zenon

\* The tokens that say whether a wait is sound.
<1>SoundTokens.
  ASSUME NEW k, NEW j, NEW t, NEW w, NEW gone, NEW late, Sound(k, t, w, gone), gone => late,
         j.retired = k.retired, j.held = k.held, j.cur = k.cur, j.completed = k.completed
  PROVE  Sound(j, t, w, late)
  BY <1>SoundTokens, Zenon DEF Sound

\* An overlap: automation ends for good and the wait in the slot is woken.
<1>OverlapInv.
  ASSUME IInv, NEW c \in Call, UNCHANGED policy, Overlap(c)
  PROVE  IInv'
  <2> USE <1>OverlapInv
  <2> DEFINE w == [call[c] EXCEPT !.pc = "passive"]
  <2>0. /\ call[c] \in Callers /\ call[c].pc = "new" /\ disabled'
        /\ UNCHANGED <<policy, execution, own, man, epoch, changes, active, task>>
    BY OneWait DEF Overlap, CallAt
  <2>1. w \in Callers /\ w.pc = "passive"
    BY <2>0, Zenon DEF Callers, CallPcs, Counted, Queueing
  <2>2. call' = [call EXCEPT ![c] = w]
    BY Zenon DEF Overlap, CallGoto, IInv, TypeOK
  <2>3. Sound(tok[c], task[c], w, cancelled)
    BY <2>0, OneWait DEF Sound, Tokens, WaitTasks, Callers, Counted, Queueing, Batch, Last
  <2> HIDE DEF w
  <2>4. \A d \in Call : call'[d] = IF d = c THEN w ELSE call[d]
    BY <2>2 DEF IInv, TypeOK
  <2>5. /\ tok' \in [Call -> Tokens]
        /\ \A d \in Call : tok[d].wake \/ d \in active => tok'[d].wake
        /\ \A d \in Call : /\ tok'[d].retired = tok[d].retired /\ tok'[d].held = tok[d].held
                           /\ tok'[d].cur = tok[d].cur /\ tok'[d].completed = tok[d].completed
    BY <1>WakesAll, Zenon DEF Overlap
  <2>6. TypeOK'
    <3>1. call' \in [Call -> Callers] /\ disabled' = TRUE
      BY <2>1, <2>2, Zenon DEF IInv, TypeOK, Overlap
    <3> QED
      BY <2>0, <2>5, <3>1 DEF IInv, TypeOK, execution
  <2>7. WaitSound'
    <3> SUFFICES ASSUME NEW d \in Call PROVE Sound(tok'[d], task'[d], call'[d], cancelled')
      BY DEF WaitSound
    <3>1. Sound(tok[d], task[d], call'[d], cancelled)
      BY <2>3, <2>4, OneWait, Zenon
    <3> QED
      BY <2>0, <2>5, <3>1, <1>SoundTokens DEF execution
  <2>8. LockInv'
    BY <2>0, Zenon DEF IInv, LockInv, SnapshotRunning, execution
  <2>9. SlotInv'
    BY <2>0, <2>4, <2>5 DEF IInv, SlotInv, TypeOK, execution
  <2>10. ClaimInv'
    BY <2>0, Zenon DEF IInv, ClaimInv, Releases, WillRelease, execution
  <2>11. PassiveInv'
    BY <2>0, <2>1, <2>4 DEF IInv, PassiveInv, Counted, Queueing
  <2> QED
    BY <2>6, <2>7, <2>8, <2>9, <2>10, <2>11 DEF IInv

\* Every step of a caller.
<1>CallerInv.
  ASSUME IInv, NEW c \in Call, UNCHANGED policy, Request(c) \/ Deliver(c)
  PROVE  IInv'
  BY <1>CallerInv, <1>ReserveInv, <1>OverlapInv, <1>EnterInv, <1>BeforeBatchInv,
     <1>BeforeDeliveryInv, <1>PassiveDeliveryInv,
  <1>AfterBatchInv, <1>GiveUpInv, <1>CleanedInv, <1>PassiveCleanedInv, <1>BarrierInv, <1>UnblockInv, Zenon
  DEF Request, Deliver

(* Wait tasks outside an exchange.                                         *)

\* A step within a round keeps the wait sound.
<1>RoundSound.
  ASSUME NEW k \in Tokens, NEW t \in WaitTasks, NEW w \in Callers, NEW gone, NEW late,
         NEW j \in Tokens, NEW u \in WaitTasks, Sound(k, t, w, gone),
         t.pc \notin Over \cup {"resting", "none"},
         u.pc \notin {"none", "cleared", "rearming"}, u.gen = t.gen,
         u.err = "none" \/ u.pc \in Ending \cup {"revoking", "completed"},
         j.retired = k.retired, j.held = k.held, j.cur = k.cur, j.completed = k.completed
  PROVE  Sound(j, u, w, late)
  BY <1>RoundSound DEF Sound, Tokens, WaitTasks, Callers, Counted, Queueing, Batch, Last, Over,
     Ending

\* A step within a round.  A task that claims the VM stays on its way to the release.
<1>Goes.
  ASSUME IInv, NEW c \in Call, NEW k \in Tokens, NEW t \in WaitTasks,
         UNCHANGED <<policy, st, own, man, epoch, changes, active, disabled, call>>,
         cancelled' \in BOOLEAN, cancelled => cancelled',
         tok' = [tok EXCEPT ![c] = k], task' = [task EXCEPT ![c] = t],
         task[c].pc \notin Over \cup {"resting", "none"},
         t.pc \notin {"none", "cleared", "rearming"}, t.gen = task[c].gen,
         t.err = "none" \/ t.pc \in Ending \cup {"revoking", "completed"},
         k.wake = tok[c].wake, k.retired = tok[c].retired, k.held = tok[c].held,
         k.cur = tok[c].cur, k.completed = tok[c].completed,
         t.pc \in Inside => /\ ~Locked /\ ~own.manual
                            /\ t.pc # "pausing" => own.automatic = {c},
         (c \in own.automatic /\ ~cancelled' /\ ~own.manual) =>
            /\ t.pc \in Releasing /\ (t.err = "known" => task[c].err = "known")
            /\ task[c].pc \in Ending => t.pc \in Ending
  PROVE  IInv'
  <2> USE <1>Goes
  <2>1. Sound(k, t, call[c], cancelled')
    BY OneWait, <1>RoundSound
  <2>2. (c \in own.automatic /\ ~cancelled' /\ ~own.manual) => Releases(c)'
    <3>1. task'[c] = t /\ st' = st
      BY Zenon DEF IInv, TypeOK
    <3>2. (c \in own.automatic /\ ~cancelled' /\ ~own.manual) => Releases(c)
      BY DEF IInv, ClaimInv
    <3> QED
      BY <3>1, <3>2, Zenon DEF Releases, WillRelease, Releasing, Ending
  <2>3. task[c].pc \notin {"none", "cleared"} /\ task[c].pc \notin Over
    BY DEF Over
  <2> QED
    BY <2>1, <2>2, <2>3, <1>TaskStep, Zenon

\* A step that only moves the task on.
<1>GoesTo.
  ASSUME IInv, NEW c \in Call, NEW pc \in TaskPcs, TaskGoto(c, pc),
         UNCHANGED <<policy, execution, own, man, epoch, changes, active, disabled, tok, call>>,
         task[c].pc \notin Over \cup {"resting", "none"} \cup Ending,
         pc \notin {"none", "cleared", "rearming"},
         task[c].err = "none" \/ pc \in Ending \cup {"revoking", "completed"},
         pc \in Inside => /\ ~Locked /\ ~own.manual
                          /\ pc # "pausing" => own.automatic = {c},
         (c \in own.automatic /\ ~cancelled /\ ~own.manual) => pc \in Releasing
  PROVE  IInv'
  <2> USE <1>GoesTo
  <2> DEFINE k == tok[c]
             t == [task[c] EXCEPT !.pc = pc]
  <2>0. tok[c] \in Tokens /\ task[c] \in WaitTasks
    BY OneWait
  <2>1. t \in WaitTasks /\ t.pc = pc /\ t.gen = task[c].gen /\ t.err = task[c].err
    BY <2>0, Zenon DEF WaitTasks
  <2>2. tok' = [tok EXCEPT ![c] = k] /\ task' = [task EXCEPT ![c] = t]
    BY Zenon DEF TaskGoto, IInv, TypeOK
  <2>3. UNCHANGED <<st, cancelled>> /\ cancelled \in BOOLEAN
    BY DEF execution, IInv, TypeOK
  <2> HIDE DEF t
  <2> QED
    BY <2>0, <2>1, <2>2, <2>3, <1>Goes, Zenon

\* Steps of the task within a round.
<1>MovesInv.
  ASSUME IInv, NEW c \in Call, UNCHANGED policy, Started(c) \/ Permit(c)
  PROVE  IInv'
  <2> USE <1>MovesInv
  <2>0. Sound(tok[c], task[c], call[c], cancelled)
    BY OneWait
  <2>1. CASE Started(c)
    <3>1. task[c].pc = "reserved" /\ task[c].err = "none" /\ TaskGoto(c, "grace")
      BY <2>0, <2>1, Zenon DEF Started, TaskAt, Sound
    <3>2. (c \in own.automatic /\ ~cancelled) => own.manual
      BY <3>1, Zenon DEF IInv, ClaimInv, Releases, WillRelease
    <3> QED
      BY <2>1, <3>1, <3>2, <1>GoesTo, ZenonT(60) DEF Started, TaskPcs, Over, Ending, Inside
  <2>2. CASE Permit(c)
    <3>1. task[c].pc = "permit" /\ task[c].err = "none" /\ TaskGoto(c, "granted")
      BY <2>0, <2>2, Zenon DEF Permit, TaskAt, Sound
    <3>2. (c \in own.automatic /\ ~cancelled) => own.manual
      BY <3>1 DEF IInv, ClaimInv, Releases, WillRelease
    <3> QED
      BY <2>2, <3>1, <3>2, <1>GoesTo, Zenon DEF Permit, TaskPcs, Over, Ending, Inside
  <2> QED
    BY <2>1, <2>2, Zenon

\* The grace period of a round ends.
<1>GraceInv.
  ASSUME IInv, NEW c \in Call, UNCHANGED policy, Grace(c)
  PROVE  IInv'
  <2> USE <1>GraceInv
  <2> DEFINE k == tok[c]
             t == [task[c] EXCEPT !.pc = "permit", !.prepared = FALSE]
  <2>0. /\ tok[c] \in Tokens /\ task[c] \in WaitTasks
        /\ task[c].pc = "grace" /\ task[c].err = "none"
    BY OneWait DEF Grace, TaskAt, Sound
  <2>1. t \in WaitTasks /\ t.pc = "permit" /\ t.gen = task[c].gen /\ t.err = task[c].err
    BY <2>0, Zenon DEF WaitTasks, TaskPcs
  <2>2. tok' = [tok EXCEPT ![c] = k] /\ task' = [task EXCEPT ![c] = t]
    BY Zenon DEF Grace, IInv, TypeOK
  <2>3. UNCHANGED <<st, cancelled>> /\ cancelled \in BOOLEAN
    BY DEF Grace, execution, IInv, TypeOK
  <2>4. (c \in own.automatic /\ ~cancelled) => own.manual
    BY <2>0 DEF IInv, ClaimInv, Releases, WillRelease
  <2> HIDE DEF t
  <2>5. UNCHANGED <<policy, st, own, man, epoch, changes, active, disabled, call>>
    BY DEF Grace, execution
  <2>6. /\ task[c].pc \notin Over \cup {"resting", "none"} /\ t.pc \notin Inside
        /\ t.pc \notin {"none", "cleared", "rearming"}
    BY <2>0, <2>1, Zenon DEF Over, Inside
  <2> QED
    BY <2>0, <2>1, <2>2, <2>3, <2>4, <2>5, <2>6, <1>Goes, Zenon

\* A round ends: it was woken, or there is nothing left to do.
<1>RoundEndsInv.
  ASSUME IInv, NEW c \in Call, UNCHANGED policy, RoundEnds(c)
  PROVE  IInv'
  <2> USE <1>RoundEndsInv
  <2>1. task[c].pc \in {"grace", "permit", "paused", "parked"} /\ TaskGoto(c, "revoking")
    BY Zenon DEF RoundEnds
  <2> QED
    BY <2>1, <1>GoesTo DEF RoundEnds, TaskPcs, Over, Ending, Inside, Releasing

\* The pause is begun only when no human claims the VM.
<1>PauseInv.
  ASSUME IInv, NEW c \in Call, UNCHANGED policy, Pause(c)
  PROVE  IInv'
  <2> USE <1>PauseInv
  <2>1. task[c].pc = "granted" /\ task[c].err = "none" /\ ~Locked
    BY OneWait, Zenon DEF Pause, TaskAt, Sound
  <2>2. (c \in own.automatic /\ ~cancelled) => own.manual
    BY <2>1, Zenon DEF IInv, ClaimInv, Releases, WillRelease
  <2>3. CASE MayPause(c)
    BY <2>1, <2>2, <2>3, <1>GoesTo DEF Pause, MayPause, TaskPcs, Over, Ending, Inside
  <2>4. CASE ~MayPause(c)
    BY <2>1, <2>2, <2>4, <1>GoesTo, Zenon DEF Pause, TaskPcs, Over, Ending, Inside
  <2> QED
    BY <2>3, <2>4

\* A paused round becomes due for offload.
<1>OffloadDueInv.
  ASSUME IInv, NEW c \in Call, UNCHANGED policy, OffloadDue(c)
  PROVE  IInv'
  <2> USE <1>OffloadDueInv
  <2>1. task[c].pc = "paused" /\ task[c].err = "none" /\ ~Locked
    BY OneWait, Zenon DEF OffloadDue, TaskAt, Sound
  <2>2. CASE TaskGoto(c, "offloading") /\ MayPause(c) /\ own.automatic = {c}
    BY <2>1, <2>2, <1>GoesTo, Zenon DEF OffloadDue, MayPause, TaskPcs, Over, Ending, Inside, Releasing
  <2>3. CASE TaskGoto(c, "parked")
    BY <2>1, <2>3, <1>GoesTo DEF OffloadDue, TaskPcs, Over, Ending, Inside, Releasing
  <2> QED
    BY <2>2, <2>3, Zenon DEF OffloadDue

\* The idle client revokes the permit: only the round's token changes.
<1>RevokedInv.
  ASSUME IInv, NEW c \in Call, UNCHANGED policy, Revoked(c)
  PROVE  IInv'
  <2> USE <1>RevokedInv
  <2> DEFINE k == [tok[c] EXCEPT !.woken = @ \cup {task[c].gen}]
  <2>0. tok[c] \in Tokens /\ task[c] \in WaitTasks /\ call[c] \in Callers
    BY OneWait
  <2>1. k \in Tokens
    <3>1. task[c].gen \in Nat
      BY <2>0 DEF WaitTasks
    <3> QED
      BY <2>0, <3>1 DEF Tokens
  <2>2. /\ k.wake = tok[c].wake /\ k.retired = tok[c].retired /\ k.held = tok[c].held
        /\ k.cur = tok[c].cur /\ k.completed = tok[c].completed
    BY <2>0, Zenon DEF Tokens
  <2>3. tok' = [tok EXCEPT ![c] = k] /\ call' = [call EXCEPT ![c] = call[c]]
    BY Zenon DEF Revoked, IInv, TypeOK
  <2> HIDE DEF k
  <2>4. Sound(k, task[c], call[c], cancelled)
    BY <2>2, OneWait, <1>SoundTokens
  <2>5. /\ call[c].pc \in Counted => disabled
        /\ call[c].pc = "pwaiting" => active \subseteq call[c].ref
        /\ call[c].pc \in Counted \ Queueing => \A d \in active : task[d].pc \in Over
    BY Zenon DEF IInv, PassiveInv
  <2>6. UNCHANGED <<policy, execution, own, man, epoch, changes, active, disabled, task>>
    BY Zenon DEF Revoked
  <2> QED
    BY <2>0, <2>1, <2>2, <2>3, <2>4, <2>5, <2>6, <1>CallerStep, Zenon

\* The idle client settles; its error replaces the one of the round.
<1>SettleInv.
  ASSUME IInv, NEW c \in Call, UNCHANGED policy, Settle(c)
  PROVE  IInv'
  <2> USE <1>SettleInv
  <2>1. PICK err \in {task[c].err, "unknown"} :
          task' = [task EXCEPT ![c].pc = IF err = "none" THEN "settled" ELSE "failing",
                               ![c].err = err]
    BY Zenon DEF Settle
  <2> DEFINE k == [tok[c] EXCEPT !.woken = @ \cup {task[c].gen}]
             t == [task[c] EXCEPT !.pc = IF err = "none" THEN "settled" ELSE "failing",
                                  !.err = err]
  <2>0. tok[c] \in Tokens /\ task[c] \in WaitTasks /\ task[c].pc = "revoking"
    BY OneWait DEF Settle, TaskAt
  <2>2. k \in Tokens
    <3>1. task[c].gen \in Nat
      BY <2>0 DEF WaitTasks
    <3> QED
      BY <2>0, <3>1, Zenon DEF Tokens
  <2>3. /\ k.wake = tok[c].wake /\ k.retired = tok[c].retired /\ k.held = tok[c].held
        /\ k.cur = tok[c].cur /\ k.completed = tok[c].completed
    BY <2>0, Zenon DEF Tokens
  <2>4. /\ t \in WaitTasks /\ t.gen = task[c].gen /\ t.err = err
        /\ t.pc = IF err = "none" THEN "settled" ELSE "failing"
    <3>1. err \in {"none", "known", "unknown"}
      BY <2>0, <2>1 DEF WaitTasks
    <3>2. t.gen = task[c].gen /\ t.err = err
          /\ t.pc = IF err = "none" THEN "settled" ELSE "failing"
      BY <2>0 DEF WaitTasks
    <3>3. t \in WaitTasks
      BY <2>0, <3>1, Zenon DEF WaitTasks, TaskPcs
    <3> QED
      BY <3>2, <3>3
  <2>5. tok' = [tok EXCEPT ![c] = k] /\ task' = [task EXCEPT ![c] = t]
    <3>1. tok' = [tok EXCEPT ![c] = k]
      BY Zenon DEF Settle, IInv, TypeOK
    <3>2. task' = [task EXCEPT ![c] = t]
      BY <2>1, Zenon DEF IInv, TypeOK
    <3> QED
      BY <3>1, <3>2
  <2> HIDE DEF k, t
  <2>6. /\ UNCHANGED <<policy, st, own, man, epoch, changes, active, disabled, call>>
        /\ cancelled' \in BOOLEAN /\ cancelled' = cancelled
    BY DEF Settle, execution, IInv, TypeOK
  <2>7. /\ task[c].pc \notin Over \cup {"resting", "none"} /\ t.pc \notin Inside
        /\ t.pc \notin {"none", "cleared", "rearming"} /\ t.pc \in Releasing
        /\ t.err = "none" \/ t.pc \in Ending \cup {"revoking", "completed"}
        /\ t.err = "known" => task[c].err = "known"
        /\ task[c].pc \notin Ending
    BY <2>0, <2>1, <2>4 DEF Over, Inside, Ending, Releasing
  <2> QED
    BY <2>2, <2>3, <2>4, <2>5, <2>6, <2>7, <1>Goes, Zenon

\* A failed round is published to its waiters.
<1>RoundFailsInv.
  ASSUME IInv, NEW c \in Call, UNCHANGED policy, RoundFails(c)
  PROVE  IInv'
  <2> USE <1>RoundFailsInv
  <2> DEFINE k == [tok[c] EXCEPT !.failed = TRUE]
             t == [task[c] EXCEPT !.pc = "reporting"]
  <2>0. tok[c] \in Tokens /\ task[c] \in WaitTasks /\ task[c].pc = "failing"
    BY OneWait DEF RoundFails, TaskAt
  <2>1. /\ k \in Tokens /\ k.wake = tok[c].wake /\ k.retired = tok[c].retired
        /\ k.held = tok[c].held /\ k.cur = tok[c].cur /\ k.completed = tok[c].completed
    BY <2>0, Zenon DEF Tokens
  <2>2. t \in WaitTasks /\ t.gen = task[c].gen /\ t.err = task[c].err /\ t.pc = "reporting"
    BY <2>0, Zenon DEF WaitTasks, TaskPcs
  <2>3. tok' = [tok EXCEPT ![c] = k] /\ task' = [task EXCEPT ![c] = t]
    BY Zenon DEF RoundFails, TaskGoto, IInv, TypeOK
  <2> HIDE DEF k, t
  <2>4. /\ UNCHANGED <<policy, st, own, man, epoch, changes, active, disabled, call>>
        /\ cancelled' \in BOOLEAN /\ cancelled' = cancelled
    BY DEF RoundFails, execution, IInv, TypeOK
  <2>5. /\ task[c].pc \notin Over \cup {"resting", "none"} /\ t.pc \notin Inside
        /\ t.pc \notin {"none", "cleared", "rearming"} /\ t.pc \in Releasing /\ t.pc \in Ending
    BY <2>0, <2>2 DEF Over, Inside, Ending, Releasing
  <2> QED
    BY <2>1, <2>2, <2>3, <2>4, <2>5, <1>Goes, Zenon

\* The Execution hears of the failure: a wait that still claims the VM cancels it.
<1>WaitFailedInv.
  ASSUME IInv, NEW c \in Call, UNCHANGED policy, WaitFailed(c)
  PROVE  IInv'
  <2> USE <1>WaitFailedInv
  <2> DEFINE k == tok[c]
             t == [task[c] EXCEPT !.pc = "completed"]
  <2>0. tok[c] \in Tokens /\ task[c] \in WaitTasks /\ task[c].pc = "reporting"
    BY OneWait DEF WaitFailed, TaskAt
  <2>1. t \in WaitTasks /\ t.gen = task[c].gen /\ t.err = task[c].err /\ t.pc = "completed"
    BY <2>0, Zenon DEF WaitTasks, TaskPcs, Over
  <2>2. tok' = [tok EXCEPT ![c] = k] /\ task' = [task EXCEPT ![c] = t]
    BY Zenon DEF WaitFailed, TaskGoto, IInv, TypeOK
  <2> HIDE DEF t
  <2>3. /\ UNCHANGED <<policy, st, own, man, epoch, changes, active, disabled, call>>
        /\ cancelled' \in BOOLEAN /\ (cancelled => cancelled')
    BY DEF WaitFailed, IInv, TypeOK
  <2>4. /\ task[c].pc \notin Over \cup {"resting", "none"} /\ t.pc \notin Inside
        /\ t.pc \notin {"none", "cleared", "rearming"}
    BY <2>0, <2>1 DEF Over, Inside
  <2>5. (c \in own.automatic /\ ~own.manual) => cancelled'
    <3> SUFFICES ASSUME c \in own.automatic, ~own.manual, ~cancelled PROVE cancelled'
      BY <2>3
    <3>1. task[c].err = "known" => st = "ended"
      BY Claims DEF Releases
    <3> QED
      BY <3>1, Zenon DEF WaitFailed
  <2> QED
    BY <2>0, <2>1, <2>2, <2>3, <2>4, <2>5, <1>Goes, Zenon

\* The end of a round without error keeps the wait sound.
<1>RoundOverFacts.
  ASSUME IInv, NEW c \in Call, RoundOver(c), task[c].pc \in {"releasing", "resuming"}
  PROVE  \E k \in Tokens, t \in WaitTasks :
           /\ tok' = [tok EXCEPT ![c] = k] /\ task' = [task EXCEPT ![c] = t]
           /\ k.wake = tok[c].wake /\ t.pc \in {"resting", "completed"}
           /\ \A late : Sound(k, t, call[c], late)
  <2> USE <1>RoundOverFacts
  <2> DEFINE k == [tok[c] EXCEPT !.completed = task[c].gen]
             t == [task[c] EXCEPT !.pc = IF Rounds THEN "resting" ELSE "completed"]
  <2>0. /\ tok[c] \in Tokens /\ task[c] \in WaitTasks /\ call[c] \in Callers
        /\ Sound(tok[c], task[c], call[c], cancelled)
    BY OneWait
  <2>1. task[c].gen \in Nat
    BY <2>0 DEF WaitTasks
  <2>2. /\ k \in Tokens /\ k.wake = tok[c].wake /\ k.retired = tok[c].retired
        /\ k.held = tok[c].held /\ k.cur = tok[c].cur /\ k.completed = task[c].gen
    BY <2>0, <2>1, Zenon DEF Tokens
  <2>3. /\ t \in WaitTasks /\ t.pc \in {"resting", "completed"}
        /\ t.gen = task[c].gen /\ t.err = task[c].err
    BY <2>0 DEF WaitTasks, TaskPcs, Over
  <2>4. tok' = [tok EXCEPT ![c] = k] /\ task' = [task EXCEPT ![c] = t]
    BY Zenon DEF RoundOver, TaskGoto, IInv, TypeOK
  <2> HIDE DEF k, t
  <2>5. ASSUME NEW late PROVE Sound(k, t, call[c], late)
    <3>1. /\ call[c].pc \notin Counted \cup {"new"} /\ call[c].pc \notin Last
          /\ call[c].pc \notin Batch
          /\ tok[c].retired => call[c].pc \in {"delivered", "dropped"}
          /\ call[c].pc = "holding" => tok[c].held /\ call[c].gen = tok[c].cur
          /\ tok[c].cur >= task[c].gen /\ task[c].err = "none"
      BY <2>0, Zenon DEF Sound, Over
    <3>2. k.cur >= t.gen /\ k.completed <= t.gen
      BY <2>1, <2>2, <2>3, <3>1
    <3>3. t.pc \notin {"none", "cleared", "rearming"} /\ t.err = "none"
      BY <2>3, <3>1, Zenon
    <3> QED
      BY <2>2, <2>3, <3>1, <3>2, <3>3, Zenon DEF Sound
  <2> QED
    BY <2>2, <2>3, <2>4, <2>5, Zenon

\* An error ends a round.
<1>RoundErrsFacts.
  ASSUME IInv, NEW c \in Call, NEW err \in {"known", "unknown"}, RoundErrs(c, err)
  PROVE  \E t \in WaitTasks :
           /\ task' = [task EXCEPT ![c] = t] /\ tok' = [tok EXCEPT ![c] = tok[c]]
           /\ t.pc = "failing" /\ t.err = err /\ t.gen = task[c].gen
  <2> USE <1>RoundErrsFacts
  <2> DEFINE t == [task[c] EXCEPT !.pc = "failing", !.err = err]
  <2>0. task[c] \in WaitTasks
    BY OneWait
  <2>1. t \in WaitTasks /\ t.pc = "failing" /\ t.err = err /\ t.gen = task[c].gen
    BY <2>0, Zenon DEF WaitTasks, TaskPcs
  <2>2. task' = [task EXCEPT ![c] = t] /\ tok' = [tok EXCEPT ![c] = tok[c]]
    BY Zenon DEF RoundErrs, IInv, TypeOK
  <2> QED
    BY <2>1, <2>2, Zenon

\* The task releases its claim.
<1>ReleaseInv.
  ASSUME IInv, NEW c \in Call, UNCHANGED policy, Release(c)
  PROVE  IInv'
  <2> USE <1>ReleaseInv
  <2>0. /\ tok[c] \in Tokens /\ task[c].pc = "releasing" /\ task[c].err = "none" /\ ~Locked
        /\ UNCHANGED <<policy, st, own, man, epoch, changes, active, disabled, call>>
        /\ cancelled' \in BOOLEAN /\ cancelled' = cancelled
    BY OneWait DEF Release, TaskAt, Sound, execution, IInv, TypeOK
  <2>1. CASE RoundErrs(c, "unknown")
    <3>1. PICK t \in WaitTasks :
            /\ task' = [task EXCEPT ![c] = t] /\ tok' = [tok EXCEPT ![c] = tok[c]]
            /\ t.pc = "failing" /\ t.err = "unknown" /\ t.gen = task[c].gen
      BY <2>1, <1>RoundErrsFacts
    <3>2. /\ task[c].pc \notin Over \cup {"resting", "none"} /\ t.pc \notin Inside
          /\ t.pc \notin {"none", "cleared", "rearming"} /\ t.pc \in Releasing /\ t.pc \in Ending
      BY <2>0, <3>1 DEF Over, Inside, Ending, Releasing
    <3>3. t.err # "known"
      BY <3>1
    <3> QED
      BY <2>0, <3>1, <3>2, <3>3, <1>Goes, Zenon
  <2>2. CASE RoundOver(c) /\ ((c \in own.automatic /\ ~cancelled) => own.manual)
    <3>1. PICK k \in Tokens, t \in WaitTasks :
            /\ tok' = [tok EXCEPT ![c] = k] /\ task' = [task EXCEPT ![c] = t]
            /\ k.wake = tok[c].wake /\ t.pc \in {"resting", "completed"}
            /\ \A late : Sound(k, t, call[c], late)
      BY <2>0, <2>2, <1>RoundOverFacts, Zenon
    <3>2. t.pc \notin Inside /\ task[c].pc \notin {"none", "cleared"} /\ task[c].pc \notin Over
      BY <2>0, <3>1 DEF Inside, Over
    <3>3. Sound(k, t, call[c], cancelled')
      BY <3>1, Zenon
    <3> QED
      BY <2>0, <2>2, <3>1, <3>2, <3>3, <1>TaskStep, Zenon
  <2>3. CASE ~own.manual /\ own.automatic = {c} /\ TaskGoto(c, "resuming") /\ UNCHANGED tok
    BY <2>0, <2>3, <1>GoesTo DEF Release, TaskPcs, Over, Ending, Inside, Releasing
  <2>4. (c \in own.automatic /\ ~cancelled /\ ~own.manual) => own.automatic = {c}
    BY Claims
  <2> QED
    BY <2>1, <2>2, <2>3, <2>4, Zenon DEF Release

\* The next round is published, and armed with the resume, when no delivery holds it.
<1>ResumeNextInv.
  ASSUME IInv, NEW c \in Call, UNCHANGED policy, ResumeNext(c)
  PROVE  IInv'
  <2> USE <1>ResumeNextInv
  <2>0. /\ tok[c] \in Tokens /\ task[c] \in WaitTasks /\ call[c] \in Callers
        /\ Sound(tok[c], task[c], call[c], cancelled)
        /\ task[c].pc = "settled" /\ task[c].err = "none" /\ ~Locked
        /\ UNCHANGED <<policy, st, own, man, epoch, changes, active, disabled, call>>
        /\ cancelled' \in BOOLEAN /\ cancelled' = cancelled
    BY OneWait, Zenon DEF ResumeNext, TaskAt, Sound, execution, IInv, TypeOK
  <2>1. CASE TaskGoto(c, "releasing") /\ UNCHANGED tok
    BY <2>0, <2>1, <1>GoesTo DEF ResumeNext, TaskPcs, Over, Ending, Inside, Releasing
  <2>2. CASE /\ own.automatic = {c} /\ ~own.manual /\ ~tok[c].held
             /\ tok' = [tok EXCEPT ![c].cur = task[c].gen + 1] /\ TaskGoto(c, "rearming")
    <3> DEFINE k == [tok[c] EXCEPT !.cur = task[c].gen + 1]
               t == [task[c] EXCEPT !.pc = "rearming"]
    <3>0. task[c].gen \in Nat /\ tok[c].cur \in Nat /\ tok[c].completed \in Nat
      BY <2>0, Zenon DEF WaitTasks, Tokens
    <3>1. task[c].gen \in Nat /\ task[c].gen + 1 \in Nat
      BY <3>0
    <3>2. /\ k \in Tokens /\ k.wake = tok[c].wake /\ k.retired = tok[c].retired
          /\ k.held = tok[c].held /\ k.cur = task[c].gen + 1 /\ k.completed = tok[c].completed
      BY <2>0, <3>1, Zenon DEF Tokens
    <3>3. t \in WaitTasks /\ t.pc = "rearming" /\ t.gen = task[c].gen /\ t.err = task[c].err
      BY <2>0, Zenon DEF WaitTasks, TaskPcs, Inside
    <3>4. tok' = [tok EXCEPT ![c] = k] /\ task' = [task EXCEPT ![c] = t]
      BY <2>2, Zenon DEF TaskGoto, IInv, TypeOK
    <3> HIDE DEF k, t
    <3>5. Sound(k, t, call[c], cancelled')
      BY <2>0, <2>2, <3>1, <3>2, <3>3 DEF Sound, Tokens, WaitTasks, Callers, Counted, Queueing,
         Batch, Last, Over
    <3>6. task[c].pc \notin {"none", "cleared"} /\ task[c].pc \notin Over
      BY <2>0 DEF Over
    <3>7. ~cancelled' => Releases(c)'
      <4>1. task'[c] = t /\ st' = st
        BY <2>0, <3>4 DEF IInv, TypeOK
      <4> QED
        BY <2>0, <2>2, <3>3, <4>1, Claims DEF Releases, WillRelease
    <3> QED
      BY <2>0, <2>2, <3>2, <3>3, <3>4, <3>5, <3>6, <3>7, <1>TaskStep, Zenon
  <2> QED
    BY <2>1, <2>2, Zenon DEF ResumeNext

\* The task rests between two rounds.
<1>RestInv.
  ASSUME IInv, NEW c \in Call, UNCHANGED policy, Rest(c)
  PROVE  IInv'
  <2> USE <1>RestInv
  <2>0. /\ tok[c] \in Tokens /\ task[c] \in WaitTasks /\ call[c] \in Callers
        /\ Sound(tok[c], task[c], call[c], cancelled)
        /\ task[c].pc = "resting" /\ task[c].err = "none"
        /\ UNCHANGED <<policy, st, own, man, epoch, changes, active, disabled, call>>
        /\ cancelled' \in BOOLEAN /\ cancelled' = cancelled
    BY OneWait, Zenon DEF Rest, TaskAt, Sound, execution, IInv, TypeOK
  <2>1. (c \in own.automatic /\ ~cancelled) => own.manual
    BY <2>0, Zenon DEF IInv, ClaimInv, Releases, WillRelease
  <2>2. task[c].pc \notin {"none", "cleared"} /\ task[c].pc \notin Over
    BY <2>0 DEF Over
  <2>3. CASE TaskGoto(c, "completed") /\ UNCHANGED tok
    <3> DEFINE t == [task[c] EXCEPT !.pc = "completed"]
    <3>1. t \in WaitTasks /\ t.pc = "completed" /\ t.gen = task[c].gen /\ t.err = task[c].err
      BY <2>0, Zenon DEF WaitTasks, TaskPcs, Over
    <3>2. tok' = [tok EXCEPT ![c] = tok[c]] /\ task' = [task EXCEPT ![c] = t]
      BY <2>3, ZenonT(60) DEF TaskGoto, IInv, TypeOK
    <3> HIDE DEF t
    <3>3. Sound(tok[c], t, call[c], cancelled')
      BY <2>0, <3>1, Zenon DEF Sound, Tokens, WaitTasks, Callers, Counted, Queueing, Batch, Last, Over
    <3>4. t.pc \notin Inside
      BY <3>1 DEF Inside
    <3> QED
      BY <2>0, <2>1, <2>2, <3>1, <3>2, <3>3, <3>4, <1>TaskStep, Zenon
  <2>4. CASE /\ ~tok[c].held /\ tok' = [tok EXCEPT ![c].cur = task[c].gen + 1]
             /\ NextRound(c, task[c].gen + 1, FALSE)
    <3> DEFINE k == [tok[c] EXCEPT !.cur = task[c].gen + 1]
               t == [pc |-> "grace", gen |-> task[c].gen + 1, permit |-> FALSE,
                     prepared |-> FALSE, err |-> "none"]
    <3>0. task[c].gen \in Nat /\ tok[c].cur \in Nat /\ tok[c].completed \in Nat
      BY <2>0, Zenon DEF WaitTasks, Tokens
    <3>1. task[c].gen \in Nat /\ task[c].gen + 1 \in Nat
      BY <3>0
    <3>2. /\ k \in Tokens /\ k.wake = tok[c].wake /\ k.retired = tok[c].retired
          /\ k.held = tok[c].held /\ k.cur = task[c].gen + 1 /\ k.completed = tok[c].completed
      BY <2>0, <3>1, Zenon DEF Tokens
    <3>3. /\ t \in WaitTasks /\ t.pc = "grace" /\ t.gen = task[c].gen + 1 /\ t.err = "none"
      BY <3>1 DEF WaitTasks, TaskPcs
    <3>4. tok' = [tok EXCEPT ![c] = k] /\ task' = [task EXCEPT ![c] = t]
      BY <2>4, Zenon DEF NextRound, IInv, TypeOK
    <3> HIDE DEF k, t
    <3>5. Sound(k, t, call[c], cancelled')
      BY <2>0, <2>4, <3>1, <3>2, <3>3 DEF Sound, Tokens, WaitTasks, Callers, Counted, Queueing,
         Batch, Last, Over
    <3>6. t.pc \notin Inside
      BY <3>3 DEF Inside
    <3> QED
      BY <2>0, <2>1, <2>2, <3>2, <3>3, <3>4, <3>5, <3>6, <1>TaskStep, Zenon
  <2> QED
    BY <2>3, <2>4, Zenon DEF Rest

\* The slot is given back by a task whose caller is gone.
<1>ClearInv.
  ASSUME IInv, NEW c \in Call, UNCHANGED policy, Clear(c)
  PROVE  IInv'
  <2> USE <1>ClearInv
  <2> DEFINE t == [NoTask EXCEPT !.pc = "cleared"]
  <2>0. /\ tok[c] \in Tokens /\ call[c] \in Callers
        /\ Sound(tok[c], task[c], call[c], cancelled)
        /\ task[c].pc = "completed" /\ (tok[c].retired \/ cancelled)
        /\ UNCHANGED <<policy, st, cancelled, own, man, epoch, changes, disabled, tok, call>>
        /\ active' = active \ {c}
    BY OneWait DEF Clear, TaskAt, execution
  <2>1. t \in WaitTasks /\ t.pc = "cleared" /\ t.err = "none"
    BY Zenon DEF NoTask, WaitTasks, TaskPcs, Over
  <2>2. task' = [task EXCEPT ![c] = t]
    BY Zenon DEF Clear
  <2> HIDE DEF t
  <2>3. \A d \in Call : task'[d] = IF d = c THEN t ELSE task[d]
    BY <2>2, Zenon DEF IInv, TypeOK
  <2>4. TypeOK'
    BY <2>0, <2>1, <2>2 DEF IInv, TypeOK
  <2>5. WaitSound'
    <3>1. Sound(tok[c], t, call[c], cancelled)
      BY <2>0, <2>1, Zenon DEF Sound, Callers, Counted, Queueing, Batch, Last, Over
    <3>2. tok' = [tok EXCEPT ![c] = tok[c]] /\ call' = [call EXCEPT ![c] = call[c]]
      BY <2>0, Zenon DEF IInv, TypeOK
    <3> QED
      BY <2>0, <2>2, <3>1, <3>2, <1>OthersSound, ZenonT(60) DEF IInv
  <2>6. LockInv'
    BY <2>0, <2>1, <2>3, Zenon DEF IInv, LockInv, SnapshotRunning, Inside
  <2>7. SlotInv'
    BY <2>0, <2>1, <2>3, Zenon DEF IInv, SlotInv, TypeOK
  <2>8. ClaimInv'
    <3>1. (c \in own.automatic /\ ~cancelled) => own.manual
      BY <2>0 DEF IInv, ClaimInv, Releases, WillRelease
    <3>2. own.automatic \subseteq Call
      BY Zenon DEF IInv, TypeOK
    <3> QED
      BY <2>0, <2>3, <3>1, <3>2, Zenon, Z3T(30) DEF IInv, ClaimInv, Releases, WillRelease
  <2>9. PassiveInv'
    BY <2>0, <2>1, <2>3, Zenon DEF IInv, PassiveInv, TypeOK, Over
  <2> QED
    BY <2>4, <2>5, <2>6, <2>7, <2>8, <2>9 DEF IInv

(* Exchanges.                                                              *)

\* What an exchange does to the published state and the cancellation.
<1>ExchangeFacts.
  ASSUME TypeOK, NEW op \in Manual, NEW res \in Results, NEW automatic \in BOOLEAN,
         NEW conditional \in BOOLEAN,
         Possible(op, res, conditional), Exchange(op, res, automatic)
  PROVE  /\ st' \in {"starting", "running", "suspended", "ended"} /\ cancelled' \in BOOLEAN
         /\ cancelled => cancelled'
         /\ st = "starting" => st' = "starting" /\ ~Succeeds(res)
         /\ st = "ended" => st' = "ended"
         /\ Took(res) /\ LiveState /\ op \in Pauses => st' = "suspended"
         /\ Took(res) /\ LiveState /\ op = "resume" => st' = "running"
         /\ Took(res) /\ LiveState /\ op = "suspend" => st' = "ended"
         /\ op = "checkpoint" => st' = st
         /\ op = "checkpoint" /\ st = "suspended" => ~Succeeds(res)
         /\ ~Took(res) => st' = st
         /\ res = "denied" => conditional
         /\ automatic /\ ~Succeeds(res) /\ res # "refused" /\ st' = "suspended" => cancelled'
  <2> USE <1>ExchangeFacts
  <2>1. /\ st' = Then(op, res) /\ cancelled' \in BOOLEAN /\ (cancelled => cancelled')
        /\ automatic /\ ~Succeeds(res) /\ res # "refused" /\ st' = "suspended" => cancelled'
    BY DEF Exchange, TypeOK
  <2>2. res = "denied" => conditional
    BY DEF Possible
  <2>3. st = "starting" => ~Took(res) /\ ~Succeeds(res)
    BY DEF Possible, Took, Succeeds
  <2>4. op = "checkpoint" /\ st = "suspended" => ~Succeeds(res)
    BY Zenon DEF Possible
  <2>5. CASE ~Took(res) \/ ~LiveState
    <3>1. st' = st
      BY <2>1, <2>5, Zenon DEF Then
    <3> QED
      BY <2>1, <2>2, <2>3, <2>4, <2>5, <3>1 DEF TypeOK
  <2>6. CASE Took(res) /\ LiveState
    <3>1. /\ op \in Pauses => st' = "suspended"
          /\ op = "resume" => st' = "running"
          /\ op = "suspend" => st' = "ended"
          /\ op = "checkpoint" => st' = st
      BY <2>1, <2>6 DEF Then, Pauses
    <3>2. op \in Pauses \cup {"resume", "suspend", "checkpoint"}
      BY DEF Manual, Snapshots
    <3>3. st # "starting" /\ st # "ended"
      BY <2>6, Zenon DEF LiveState
    <3> QED
      BY <2>1, <2>2, <2>3, <2>4, <2>6, <3>1, <3>2, <3>3 DEF TypeOK
  <2> QED
    BY <2>5, <2>6

\* The end of an exchange of a wait task: what it has to respect.
<1>ExchangeStep.
  ASSUME IInv, NEW c \in Call, NEW k \in Tokens, NEW t \in WaitTasks,
         UNCHANGED <<policy, man, epoch, changes, active, disabled, call>>,
         st' \in {"starting", "running", "suspended", "ended"},
         cancelled' \in BOOLEAN, cancelled => cancelled',
         own' \in [manual : BOOLEAN, automatic : SUBSET Call],
         tok' = [tok EXCEPT ![c] = k], task' = [task EXCEPT ![c] = t],
         tok[c].wake => k.wake, task[c].pc \in Inside, t.pc \notin Inside,
         Sound(k, t, call[c], cancelled'),
         own'.manual = own.manual,
         own'.automatic \in {own.automatic, {c}, {}},
         (~cancelled' /\ c \in own'.automatic) => own'.automatic = {c} /\ Releases(c)',
         (~cancelled' /\ st' = "suspended") => own'.automatic # {}
  PROVE  IInv'
  <2> USE <1>ExchangeStep
  <2>0. /\ \A d \in Call : /\ task'[d] = IF d = c THEN t ELSE task[d]
                           /\ tok'[d] = IF d = c THEN k ELSE tok[d]
        /\ task[c].pc \notin {"none", "cleared"} /\ task[c].pc \notin Over
    BY Zenon DEF IInv, TypeOK, Inside, Over
  <2>1. TypeOK'
    BY DEF IInv, TypeOK
  <2>2. WaitSound'
    <3>1. call' = [call EXCEPT ![c] = call[c]]
      BY Zenon DEF IInv, TypeOK
    <3> QED
      BY <3>1, <1>OthersSound, Zenon DEF IInv
  <2>3. /\ man = "none" /\ ~own.manual
        /\ \A d \in Call : task[d].pc \in Inside => d = c
    BY SMTT(30) DEF IInv, LockInv
  <2>4. LockInv'
    <3>1. \A d \in Call : task'[d].pc \notin Inside
      BY <2>0, <2>3, Zenon
    <3>2. man' \notin Pauses /\ man' \notin Snapshots
      BY <2>3, Zenon DEF Pauses, Snapshots
    <3> QED
      BY <3>1, <3>2, Zenon DEF LockInv, SnapshotRunning
  <2>5. SlotInv'
    <3>1. active \subseteq Call
      BY Zenon DEF IInv, TypeOK
    <3> QED
      BY <2>0, <3>1 DEF IInv, SlotInv
  <2>6. ClaimInv'
    <3> SUFFICES ASSUME ~cancelled'
                 PROVE  \A d \in own'.automatic :
                           own'.automatic = {d} /\ (own'.manual \/ Releases(d)')
      BY Zenon DEF ClaimInv
    <3>1. ~cancelled
      BY Zenon
    <3>2. ASSUME NEW d \in own.automatic PROVE d = c
      <4>1. own.automatic \subseteq Call
        BY Zenon DEF IInv, TypeOK
      <4>2. task[d].pc \in Releasing
        BY <2>3, <3>1, <4>1, Claims, Zenon
      <4>3. active = {c} /\ active = {d}
        <5>1. call[c].pc # "delivered" /\ call[d].pc # "delivered"
          BY <2>0, <4>1, <4>2, OneWait, Zenon DEF Sound, Last, Over, Releasing, Ending
        <5>2. task[d].pc \notin {"none", "cleared"}
          BY <4>2, ZenonT(60) DEF Releasing, Ending
        <5> QED
          BY <2>0, <3>1, <4>1, <5>1, <5>2 DEF IInv, SlotInv
      <4> QED
        BY <4>3, Zenon
    <3> QED
      BY <3>2, Zenon
  <2>7. PassiveInv'
    <3>1. active \subseteq Call
      BY Zenon DEF IInv, TypeOK
    <3> QED
      BY <2>0, <3>1, Zenon DEF IInv, PassiveInv
  <2> QED
    BY <2>1, <2>2, <2>4, <2>5, <2>6, <2>7, Zenon DEF IInv

\* What the lock gives a task inside an exchange.
<1>Held.
  ASSUME IInv, NEW c \in Call, task[c].pc \in Inside
  PROVE  /\ ~own.manual /\ own \in [manual : BOOLEAN, automatic : SUBSET Call]
         /\ task[c].pc # "pausing" => own.automatic = {c}
         /\ task[c].err = "none" /\ task[c].pc \notin Over \cup {"resting", "none"}
         /\ (~cancelled /\ c \in own.automatic) => st \in {"suspended", "ended"}
         /\ (~cancelled /\ task[c].pc = "pausing") => own.automatic = {} /\ st # "suspended"
  <2> USE <1>Held
  <2>1. /\ ~own.manual /\ own \in [manual : BOOLEAN, automatic : SUBSET Call]
        /\ task[c].pc # "pausing" => own.automatic = {c}
    BY Zenon DEF IInv, LockInv, TypeOK
  <2>2. task[c].err = "none" /\ task[c].pc \notin Over \cup {"resting", "none"}
    BY OneWait, Zenon DEF Sound, Inside, Over
  <2>3. (~cancelled /\ c \in own.automatic) => st \in {"suspended", "ended"}
    BY <2>1, Claims, Zenon DEF Releases, Inside
  <2>4. ASSUME ~cancelled, task[c].pc = "pausing" PROVE own.automatic = {}
    <3> SUFFICES ASSUME NEW d \in own.automatic PROVE FALSE
      OBVIOUS
    <3>1. d \in Call
      BY Zenon DEF IInv, TypeOK
    <3>2. task[d].pc \in Releasing
      BY <2>1, <2>4, <3>1, Claims, Zenon
    <3>3. call[c].pc # "delivered" /\ call[d].pc # "delivered"
      BY <2>4, <3>1, <3>2, OneWait, Zenon DEF Sound, Last, Over, Releasing, Ending
    <3>4. active = {c} /\ active = {d}
      BY <2>4, <3>1, <3>2, <3>3, Zenon DEF IInv, SlotInv, Releasing, Ending
    <3>5. d = c
      BY <3>4, Zenon
    <3> QED
      BY <2>4, <3>2, <3>5 DEF Releasing, Ending
  <2>5. (~cancelled /\ task[c].pc = "pausing") => st # "suspended"
    BY <2>1, <2>4 DEF IInv, ClaimInv
  <2> QED
    BY <2>1, <2>2, <2>3, <2>4, <2>5, Zenon

\* idle_pause returns: the claim is recorded with the state it made, and a pause that
\* was not recorded cancels.
<1>PausedInv.
  ASSUME IInv, NEW c \in Call, NEW res \in Results, UNCHANGED policy, Paused(c, res)
  PROVE  IInv'
  <2> USE <1>PausedInv
  <2>0. /\ tok[c] \in Tokens /\ task[c] \in WaitTasks /\ call[c] \in Callers
        /\ Sound(tok[c], task[c], call[c], cancelled) /\ task[c].pc = "pausing"
        /\ task[c].pc \in Inside
        /\ UNCHANGED <<policy, man, epoch, changes, active, disabled, call>>
        /\ tok' = [tok EXCEPT ![c] = tok[c]]
    BY OneWait, Zenon DEF Paused, TaskAt, Inside, IInv, TypeOK
  <2>1. /\ ~own.manual /\ own \in [manual : BOOLEAN, automatic : SUBSET Call]
        /\ task[c].err = "none" /\ task[c].pc \notin Over \cup {"resting", "none"}
        /\ ~cancelled => own.automatic = {} /\ st # "suspended"
    BY <2>0, <1>Held
  <2>2. /\ st' \in {"starting", "running", "suspended", "ended"} /\ cancelled' \in BOOLEAN
        /\ cancelled => cancelled'
        /\ ~Took(res) => st' = st
        /\ ~Succeeds(res) /\ res # "refused" /\ st' = "suspended" => cancelled'
    <3>1. TypeOK /\ Possible("pause", res, TRUE) /\ Exchange("pause", res, TRUE) /\ "pause" \in Manual
      BY Zenon DEF Paused, IInv, Manual, Pauses
    <3> QED
      BY <3>1, <1>ExchangeFacts, Zenon
  <2>3. CASE res = "ok" /\ st' = "suspended"
    <3> DEFINE t == [task[c] EXCEPT !.pc = "paused", !.permit = TRUE]
    <3>1. t \in WaitTasks /\ t.pc = "paused" /\ t.gen = task[c].gen /\ t.err = "none"
      BY <2>0, <2>1, Zenon DEF WaitTasks, TaskPcs
    <3>2. task' = [task EXCEPT ![c] = t] /\ own' = [own EXCEPT !.automatic = {c}]
      BY <2>3, Zenon DEF Paused, IInv, TypeOK
    <3> HIDE DEF t
    <3>3. /\ own' \in [manual : BOOLEAN, automatic : SUBSET Call]
          /\ own'.manual = own.manual /\ own'.automatic = {c}
      BY <2>1, <3>2, Zenon
    <3>4. Sound(tok[c], t, call[c], cancelled')
      <4>1. t.pc \notin {"none", "cleared", "rearming"}
        BY <3>1, Zenon
      <4> QED
        BY <2>0, <2>1, <3>1, <4>1, <1>RoundSound
    <3>5. Releases(c)' /\ t.pc \notin Inside
      <4>1. task'[c] = t
        BY <3>2 DEF IInv, TypeOK
      <4> QED
        BY <2>3, <3>1, <4>1 DEF Releases, WillRelease, Inside
    <3> QED
      BY <2>0, <2>2, <3>1, <3>2, <3>3, <3>4, <3>5, <1>ExchangeStep, Zenon
  <2>4. CASE ~(res = "ok" /\ st' = "suspended")
    <3> DEFINE t == [task[c] EXCEPT !.pc = "revoking",
                                    !.err = IF Succeeds(res) THEN "none" ELSE Error(res)]
    <3>1. t \in WaitTasks /\ t.pc = "revoking" /\ t.gen = task[c].gen
      <4>1. (IF Succeeds(res) THEN "none" ELSE Error(res)) \in {"none", "known", "unknown"}
        BY DEF Error
      <4> QED
        BY <2>0, <4>1, Zenon DEF WaitTasks, TaskPcs
    <3>2. task' = [task EXCEPT ![c] = t] /\ own' = own
      BY <2>4, Zenon DEF Paused, IInv, TypeOK
    <3> HIDE DEF t
    <3>3. /\ own' \in [manual : BOOLEAN, automatic : SUBSET Call]
          /\ own'.manual = own.manual /\ own'.automatic = own.automatic
      BY <2>1, <3>2, Zenon
    <3>4. Sound(tok[c], t, call[c], cancelled') /\ t.pc \notin Inside
      <4>1. t.pc \notin {"none", "cleared", "rearming"} /\ t.pc \notin Inside
        BY <3>1, Zenon DEF Inside
      <4> QED
        BY <2>0, <2>1, <3>1, <4>1, <1>RoundSound
    <3>5. ~cancelled' => c \notin own'.automatic /\ st' # "suspended"
      <4> SUFFICES ASSUME ~cancelled' PROVE c \notin own'.automatic /\ st' # "suspended"
        BY Zenon
      <4>1. own.automatic = {} /\ st # "suspended"
        BY <2>1, <2>2
      <4>2. st' # "suspended"
        BY <2>2, <2>4, <4>1 DEF Took, Succeeds
      <4> QED
        BY <3>3, <4>1, <4>2, Zenon
    <3> QED
      BY <2>0, <2>2, <3>1, <3>2, <3>3, <3>4, <3>5, <1>ExchangeStep, Zenon
  <2> QED
    BY <2>3, <2>4

\* idle_offload returns: the pause stays claimed, or the Execution is cancelled.
<1>OffloadedInv.
  ASSUME IInv, NEW c \in Call, NEW res \in Results, UNCHANGED policy, Offloaded(c, res)
  PROVE  IInv'
  <2> USE <1>OffloadedInv
  <2>0. /\ tok[c] \in Tokens /\ task[c] \in WaitTasks /\ call[c] \in Callers
        /\ Sound(tok[c], task[c], call[c], cancelled) /\ task[c].pc = "offloading"
        /\ task[c].pc \in Inside
        /\ UNCHANGED <<policy, own, man, epoch, changes, active, disabled, call>>
        /\ tok' = [tok EXCEPT ![c] = tok[c]]
    BY OneWait, Zenon DEF Offloaded, TaskAt, Inside, IInv, TypeOK
  <2>1. /\ own \in [manual : BOOLEAN, automatic : SUBSET Call] /\ own.automatic = {c}
        /\ task[c].err = "none" /\ task[c].pc \notin Over \cup {"resting", "none"}
        /\ ~cancelled => st \in {"suspended", "ended"}
    BY <2>0, <1>Held
  <2>2. /\ st' \in {"starting", "running", "suspended", "ended"} /\ cancelled' \in BOOLEAN
        /\ cancelled => cancelled'
        /\ ~Took(res) => st' = st
        /\ st = "ended" => st' = "ended"
        /\ Took(res) /\ LiveState => st' = "suspended"
        /\ ~Succeeds(res) /\ res # "refused" /\ st' = "suspended" => cancelled'
    <3>1. /\ TypeOK /\ Possible("offload", res, TRUE) /\ Exchange("offload", res, TRUE)
          /\ "offload" \in Manual /\ "offload" \in Pauses
      BY Zenon DEF Offloaded, IInv, Manual, Pauses
    <3> QED
      BY <3>1, <1>ExchangeFacts, Zenon
  <2> DEFINE e == IF Succeeds(res) THEN "none" ELSE Error(res)
             t == [task[c] EXCEPT !.pc = IF Succeeds(res) THEN "parked" ELSE "revoking",
                                  !.err = e]
  <2>3. /\ t \in WaitTasks /\ t.gen = task[c].gen /\ t.err = e
        /\ t.pc = IF Succeeds(res) THEN "parked" ELSE "revoking"
    <3>1. e \in {"none", "known", "unknown"}
      BY DEF Error
    <3>2. (IF Succeeds(res) THEN "parked" ELSE "revoking") \in TaskPcs
      BY DEF TaskPcs
    <3> HIDE DEF e
    <3> QED
      BY <2>0, <3>1, <3>2, Zenon DEF WaitTasks
  <2>4. task' = [task EXCEPT ![c] = t]
    BY Zenon DEF Offloaded, IInv, TypeOK
  <2> HIDE DEF t
  <2>5. /\ t.pc \notin {"none", "cleared", "rearming"} /\ t.pc \notin Inside
        /\ t.err = "none" \/ t.pc \in Ending \cup {"revoking", "completed"}
    BY <2>3, Zenon DEF Inside
  <2>6. Sound(tok[c], t, call[c], cancelled')
    BY <2>0, <2>1, <2>3, <2>5, <1>RoundSound, Zenon
  <2>7. ~cancelled' => Releases(c)'
    <3> SUFFICES ASSUME ~cancelled' PROVE Releases(c)'
      OBVIOUS
    <3>1. task'[c] = t
      BY <2>4, Zenon DEF IInv, TypeOK
    <3>2. st' \in {"suspended", "ended"}
      BY <2>1, <2>2, Zenon DEF LiveState
    <3>3. t.err = "known" => st' = "ended"
      BY <2>2, <2>3, <3>2, Zenon DEF Error
    <3>4. t.pc \in {"parked", "revoking"}
      BY <2>3
    <3> QED
      BY <3>1, <3>2, <3>3, <3>4 DEF Releases, WillRelease
  <2>8. /\ own' \in [manual : BOOLEAN, automatic : SUBSET Call]
        /\ own'.manual = own.manual /\ own'.automatic = own.automatic /\ own'.automatic # {}
    BY <2>0, <2>1, Zenon
  <2> QED
    BY <2>0, <2>1, <2>2, <2>3, <2>4, <2>5, <2>6, <2>7, <2>8, <1>ExchangeStep, Zenon

\* What a resume of a wait task does.
<1>ResumeFacts.
  ASSUME IInv, NEW c \in Call, NEW res \in Results, task[c].pc \in {"rearming", "resuming"},
         Possible("resume", res, FALSE), Exchange("resume", res, TRUE)
  PROVE  /\ task[c].pc \in Inside
         /\ own \in [manual : BOOLEAN, automatic : SUBSET Call] /\ own.automatic = {c}
         /\ task[c].err = "none" /\ task[c].pc \notin Over \cup {"resting", "none"}
         /\ st' \in {"starting", "running", "suspended", "ended"} /\ cancelled' \in BOOLEAN
         /\ cancelled => cancelled'
         /\ ~cancelled' /\ Succeeds(res) => st' # "suspended"
         /\ ~cancelled' /\ ~Succeeds(res) =>
               (Error(res) = "known" => st' = "ended")
  <2> USE <1>ResumeFacts
  <2>0. task[c].pc \in Inside /\ task[c].pc # "pausing"
    BY Zenon DEF Inside
  <2>1. /\ own \in [manual : BOOLEAN, automatic : SUBSET Call] /\ own.automatic = {c}
        /\ task[c].err = "none" /\ task[c].pc \notin Over \cup {"resting", "none"}
        /\ ~cancelled => st \in {"suspended", "ended"}
    BY <2>0, <1>Held
  <2>2. /\ st' \in {"starting", "running", "suspended", "ended"} /\ cancelled' \in BOOLEAN
        /\ cancelled => cancelled'
        /\ ~Took(res) => st' = st
        /\ st = "ended" => st' = "ended"
        /\ Took(res) /\ LiveState => st' = "running"
        /\ res # "denied"
        /\ ~Succeeds(res) /\ res # "refused" /\ st' = "suspended" => cancelled'
    <3>1. TypeOK /\ "resume" \in Manual
      BY Zenon DEF IInv, Manual
    <3> QED
      BY <3>1, <1>ExchangeFacts, Zenon
  <2>3. ~cancelled' /\ Succeeds(res) => st' # "suspended"
    BY <2>1, <2>2, Zenon DEF Succeeds, Took, LiveState
  <2>4. ~cancelled' /\ ~Succeeds(res) => (Error(res) = "known" => st' = "ended")
    BY <2>1, <2>2 DEF Error, Took, Succeeds
  <2> QED
    BY <2>0, <2>1, <2>2, <2>3, <2>4

\* A resume that fails: the claim stays, and the Execution is about to hear of it.
<1>ResumeFails.
  ASSUME IInv, NEW c \in Call, NEW res \in Results, NEW err \in {"known", "unknown"},
         task[c].pc \in {"rearming", "resuming"},
         Possible("resume", res, FALSE), Exchange("resume", res, TRUE),
         ~Succeeds(res), err = Error(res), RoundErrs(c, err),
         UNCHANGED <<policy, own, man, epoch, changes, active, disabled, call>>
  PROVE  IInv'
  <2> USE <1>ResumeFails
  <2>0. /\ tok[c] \in Tokens /\ task[c] \in WaitTasks /\ call[c] \in Callers
        /\ Sound(tok[c], task[c], call[c], cancelled)
    BY OneWait, Zenon
  <2>1. /\ task[c].pc \in Inside
        /\ own \in [manual : BOOLEAN, automatic : SUBSET Call] /\ own.automatic = {c}
        /\ task[c].pc \notin Over \cup {"resting", "none"}
        /\ st' \in {"starting", "running", "suspended", "ended"} /\ cancelled' \in BOOLEAN
        /\ cancelled => cancelled'
        /\ ~cancelled' => (err = "known" => st' = "ended")
    BY <1>ResumeFacts, Zenon
  <2>2. PICK t \in WaitTasks :
          /\ task' = [task EXCEPT ![c] = t] /\ tok' = [tok EXCEPT ![c] = tok[c]]
          /\ t.pc = "failing" /\ t.err = err /\ t.gen = task[c].gen
    BY <1>RoundErrsFacts
  <2>3. t.pc \notin {"none", "cleared", "rearming"} /\ t.pc \notin Inside /\ t.pc \in Ending
    BY <2>2, Zenon DEF Inside, Ending
  <2>4. Sound(tok[c], t, call[c], cancelled')
    BY <2>0, <2>1, <2>2, <2>3, <1>RoundSound
  <2>5. ~cancelled' => Releases(c)'
    <3>1. task'[c] = t
      BY <2>2, Zenon DEF IInv, TypeOK
    <3> QED
      BY <2>1, <2>2, <3>1, Zenon DEF Releases, WillRelease
  <2>6. /\ own' \in [manual : BOOLEAN, automatic : SUBSET Call]
        /\ own'.manual = own.manual /\ own'.automatic = own.automatic /\ own'.automatic # {}
    BY <2>1
  <2> QED
    BY <2>0, <2>1, <2>2, <2>3, <2>4, <2>5, <2>6, <1>ExchangeStep, Zenon

\* idle_resume_rearm returns.
<1>RearmedInv.
  ASSUME IInv, NEW c \in Call, NEW res \in Results, UNCHANGED policy, Rearmed(c, res)
  PROVE  IInv'
  <2> USE <1>RearmedInv
  <2>0. /\ tok[c] \in Tokens /\ task[c] \in WaitTasks /\ call[c] \in Callers
        /\ Sound(tok[c], task[c], call[c], cancelled) /\ task[c].pc = "rearming"
        /\ UNCHANGED <<policy, man, epoch, changes, active, disabled, call>>
        /\ Possible("resume", res, FALSE) /\ Exchange("resume", res, TRUE)
    BY OneWait, Zenon DEF Rearmed, TaskAt
  <2>1. CASE ~Succeeds(res)
    <3>1. Error(res) \in {"known", "unknown"}
      BY DEF Error
    <3>2. RoundErrs(c, Error(res)) /\ UNCHANGED own
      BY <2>1, Zenon DEF Rearmed, RoundErrs
    <3> QED
      BY <2>0, <2>1, <3>1, <3>2, <1>ResumeFails, Zenon
  <2>2. CASE Succeeds(res)
    <3> DEFINE k == [tok[c] EXCEPT !.completed = task[c].gen]
               t == [pc |-> "grace", gen |-> task[c].gen + 1, permit |-> FALSE,
                     prepared |-> TRUE, err |-> "none"]
    <3>0. task[c].gen \in Nat /\ tok[c].cur \in Nat /\ tok[c].completed \in Nat
      BY <2>0, Zenon DEF WaitTasks, Tokens
    <3>1. task[c].gen \in Nat /\ task[c].gen + 1 \in Nat
      BY <3>0
    <3>2. /\ k \in Tokens /\ k.wake = tok[c].wake /\ k.retired = tok[c].retired
          /\ k.held = tok[c].held /\ k.cur = tok[c].cur /\ k.completed = task[c].gen
      BY <2>0, <3>1, Zenon DEF Tokens
    <3>3. /\ t \in WaitTasks /\ t.pc = "grace" /\ t.gen = task[c].gen + 1 /\ t.err = "none"
      BY <3>1, Zenon DEF WaitTasks, TaskPcs
    <3>4. /\ tok' = [tok EXCEPT ![c] = k] /\ task' = [task EXCEPT ![c] = t]
          /\ own' = [own EXCEPT !.automatic = {}]
      BY <2>2, Zenon DEF Rearmed, NextRound, IInv, TypeOK
    <3> HIDE DEF k, t
    <3>5. Sound(k, t, call[c], cancelled')
      <4>1. /\ call[c].pc \notin Counted \cup {"new"} /\ call[c].pc \notin Last
            /\ call[c].pc \notin Batch
            /\ tok[c].retired => call[c].pc \in {"delivered", "dropped"}
            /\ call[c].pc = "holding" => tok[c].held /\ call[c].gen = tok[c].cur
            /\ tok[c].cur = task[c].gen + 1
        BY <2>0, Zenon DEF Sound, Over
      <4>2. task[c].gen < task[c].gen + 1
        BY <3>0
      <4>3. k.cur >= t.gen /\ k.completed <= t.gen /\ k.completed < t.gen
        <5>1. /\ k.cur = task[c].gen + 1 /\ k.completed = task[c].gen
              /\ t.gen = task[c].gen + 1
          BY <3>2, <3>3, <4>1, Zenon
        <5> QED
          BY <3>0, <5>1
      <4> QED
        BY <3>2, <3>3, <4>1, <4>3, Zenon DEF Sound
    <3>6. t.pc \notin Inside
      BY <3>3 DEF Inside
    <3>7. /\ task[c].pc \in Inside /\ own \in [manual : BOOLEAN, automatic : SUBSET Call]
          /\ st' \in {"starting", "running", "suspended", "ended"} /\ cancelled' \in BOOLEAN
          /\ cancelled => cancelled'
          /\ ~cancelled' => st' # "suspended"
      BY <2>0, <2>2, <1>ResumeFacts, Zenon
    <3>8. /\ own' \in [manual : BOOLEAN, automatic : SUBSET Call]
          /\ own'.manual = own.manual /\ own'.automatic = {} /\ c \notin own'.automatic
      BY <3>4, <3>7
    <3> QED
      BY <2>0, <3>2, <3>3, <3>4, <3>5, <3>6, <3>7, <3>8, <1>ExchangeStep, Zenon
  <2> QED
    BY <2>1, <2>2

\* The automatic resume of a release returns.
<1>ResumedInv.
  ASSUME IInv, NEW c \in Call, NEW res \in Results, UNCHANGED policy, Resumed(c, res)
  PROVE  IInv'
  <2> USE <1>ResumedInv
  <2>0. /\ tok[c] \in Tokens /\ task[c] \in WaitTasks /\ call[c] \in Callers
        /\ Sound(tok[c], task[c], call[c], cancelled) /\ task[c].pc = "resuming"
        /\ UNCHANGED <<policy, man, epoch, changes, active, disabled, call>>
        /\ Possible("resume", res, FALSE) /\ Exchange("resume", res, TRUE)
    BY OneWait, Zenon DEF Resumed, TaskAt
  <2>1. CASE ~Succeeds(res)
    <3>1. Error(res) \in {"known", "unknown"}
      BY DEF Error
    <3>2. RoundErrs(c, Error(res)) /\ UNCHANGED own
      BY <2>1, Zenon DEF Resumed
    <3> QED
      BY <2>0, <2>1, <3>1, <3>2, <1>ResumeFails, Zenon
  <2>2. CASE Succeeds(res)
    <3>1. /\ task[c].pc \in Inside /\ own \in [manual : BOOLEAN, automatic : SUBSET Call]
          /\ task[c].pc \notin Over \cup {"resting", "none"}
          /\ st' \in {"starting", "running", "suspended", "ended"} /\ cancelled' \in BOOLEAN
          /\ cancelled => cancelled'
          /\ ~cancelled' => st' # "suspended"
      BY <2>0, <2>2, <1>ResumeFacts, Zenon
    <3>2. own' = [own EXCEPT !.automatic = {}]
      BY <2>2, Zenon DEF Resumed
    <3>3. /\ own' \in [manual : BOOLEAN, automatic : SUBSET Call]
          /\ own'.manual = own.manual /\ own'.automatic = {} /\ c \notin own'.automatic
      BY <3>1, <3>2
    <3>4. \E k \in Tokens, t \in WaitTasks :
            /\ tok' = [tok EXCEPT ![c] = k] /\ task' = [task EXCEPT ![c] = t]
            /\ k.wake = tok[c].wake /\ t.pc \in {"resting", "completed", "failing"}
            /\ Sound(k, t, call[c], cancelled')
      <4>1. CASE RoundOver(c)
        <5>1. PICK k \in Tokens, t \in WaitTasks :
                /\ tok' = [tok EXCEPT ![c] = k] /\ task' = [task EXCEPT ![c] = t]
                /\ k.wake = tok[c].wake /\ t.pc \in {"resting", "completed"}
                /\ \A late : Sound(k, t, call[c], late)
          BY <2>0, <4>1, <1>RoundOverFacts, Zenon
        <5>2. Sound(k, t, call[c], cancelled')
          BY <5>1
        <5> QED
          BY <5>1, <5>2, Zenon
      <4>2. CASE RoundErrs(c, "unknown")
        <5>1. PICK t \in WaitTasks :
                /\ task' = [task EXCEPT ![c] = t] /\ tok' = [tok EXCEPT ![c] = tok[c]]
                /\ t.pc = "failing" /\ t.err = "unknown" /\ t.gen = task[c].gen
          BY <4>2, <1>RoundErrsFacts
        <5>2. t.pc \notin {"none", "cleared", "rearming"} /\ t.pc \in Ending
          BY <5>1, Zenon DEF Ending
        <5>3. Sound(tok[c], t, call[c], cancelled')
          BY <2>0, <3>1, <5>1, <5>2, <1>RoundSound
        <5> QED
          BY <2>0, <5>1, <5>3, Zenon
      <4> QED
        BY <2>2, <4>1, <4>2, Zenon DEF Resumed
    <3>5. PICK k \in Tokens, t \in WaitTasks :
            /\ tok' = [tok EXCEPT ![c] = k] /\ task' = [task EXCEPT ![c] = t]
            /\ k.wake = tok[c].wake /\ t.pc \in {"resting", "completed", "failing"}
            /\ Sound(k, t, call[c], cancelled')
      BY <3>4, Zenon
    <3>6. t.pc \notin Inside
      BY <3>5 DEF Inside
    <3> QED
      BY <2>0, <3>1, <3>3, <3>5, <3>6, <1>ExchangeStep, Zenon
  <2> QED
    BY <2>1, <2>2

(* Manual controls and the Execution.                                      *)

\* Without a lock holder and a human's claim, an empty slot means an unclaimed VM.
<1>SlotEmpty.
  ASSUME IInv, ~cancelled, ~own.manual, active = {}
  PROVE  own = [manual |-> FALSE, automatic |-> {}] /\ st # "suspended"
  <2> USE <1>SlotEmpty
  <2>1. own.automatic = {}
    <3> SUFFICES ASSUME NEW c \in own.automatic PROVE FALSE
      OBVIOUS
    <3>1. c \in Call
      BY Zenon DEF IInv, TypeOK
    <3>2. task[c].pc \in Releasing
      BY <3>1, Claims, Zenon
    <3>3. call[c].pc # "delivered"
      BY <3>1, <3>2, OneWait, Zenon DEF Sound, Last, Over, Releasing, Ending
    <3>4. active = {c}
      BY <3>1, <3>2, <3>3 DEF IInv, SlotInv, Releasing, Ending
    <3> QED
      BY <3>4
  <2>2. own \in [manual : BOOLEAN, automatic : SUBSET Call]
    BY DEF IInv, TypeOK
  <2>3. own = [manual |-> FALSE, automatic |-> {}]
    BY <2>1, <2>2, Zenon
  <2>4. st # "suspended"
    BY <2>1 DEF IInv, ClaimInv
  <2> QED
    BY <2>3, <2>4, Zenon

\* A human's command takes the lock.
<1>ManualBeginsInv.
  ASSUME IInv, NEW k \in Manual, UNCHANGED policy, ManualBegins(k)
  PROVE  IInv'
  <2> USE <1>ManualBeginsInv
  <2>0. /\ UNCHANGED <<policy, st, cancelled, changes, active, disabled, task, call>>
        /\ man' = k /\ epoch' = epoch + 1 /\ own' = [own EXCEPT !.manual = @ \/ k \in Pauses]
        /\ ~Locked /\ (k \in Snapshots => active = {} /\ ~own.manual)
    BY Zenon DEF ManualBegins, execution
  <2>1. /\ own' \in [manual : BOOLEAN, automatic : SUBSET Call]
        /\ own'.automatic = own.automatic /\ (own.manual => own'.manual)
        /\ k \in Pauses => own'.manual
        /\ k \notin Pauses => own' = own
    <3>1. own \in [manual : BOOLEAN, automatic : SUBSET Call]
      BY DEF IInv, TypeOK
    <3>2. (own.manual \/ k \in Pauses) \in BOOLEAN
      BY <3>1, Zenon
    <3>3. own' \in [manual : BOOLEAN, automatic : SUBSET Call] /\ own'.automatic = own.automatic
          /\ own'.manual = (own.manual \/ k \in Pauses)
      BY <2>0, <3>1, <3>2, Zenon
    <3>4. ASSUME k \notin Pauses PROVE own' = own
      BY <2>0, <3>1, <3>4
    <3> QED
      BY <3>3, <3>4, Zenon
  <2>2. /\ tok' \in [Call -> Tokens]
        /\ \A d \in Call : tok[d].wake \/ d \in active => tok'[d].wake
        /\ \A d \in Call : /\ tok'[d].retired = tok[d].retired /\ tok'[d].held = tok[d].held
                           /\ tok'[d].cur = tok[d].cur /\ tok'[d].completed = tok[d].completed
    BY <1>WakesAll, Zenon DEF ManualBegins
  <2>3. TypeOK'
    <3>1. epoch' \in Nat /\ man' \in Manual
      BY <2>0 DEF IInv, TypeOK
    <3> QED
      BY <2>0, <2>1, <2>2, <3>1 DEF IInv, TypeOK
  <2>4. WaitSound'
    BY <2>0, <2>2, OneWait, <1>SoundTokens DEF WaitSound
  <2>5. \A c \in Call : task[c].pc \notin Inside
    BY <2>0 DEF Locked, Inside
  <2>6. LockInv'
    <3>1. SnapshotRunning'
      <4> SUFFICES ASSUME k \in Snapshots, ~cancelled
                   PROVE  own' = [manual |-> FALSE, automatic |-> {}] /\ st # "suspended"
        BY <2>0 DEF SnapshotRunning
      <4>1. k \notin Pauses
        BY DEF Snapshots, Pauses
      <4> QED
        BY <2>0, <2>1, <4>1, <1>SlotEmpty, Zenon
    <3> QED
      BY <2>0, <2>1, <2>5, <3>1 DEF LockInv
  <2>7. SlotInv'
    BY <2>0, <2>2 DEF IInv, SlotInv, TypeOK
  <2>8. ClaimInv'
    BY <2>0, <2>1 DEF IInv, ClaimInv, Releases, WillRelease
  <2>9. PassiveInv'
    BY <2>0 DEF IInv, PassiveInv
  <2> QED
    BY <2>3, <2>4, <2>6, <2>7, <2>8, <2>9 DEF IInv

\* The claim is settled by the result and the published state.
<1>ManualEndsInv.
  ASSUME IInv, NEW res \in Results, UNCHANGED policy, ManualEnds(res)
  PROVE  IInv'
  <2> USE <1>ManualEndsInv
  <2>0. /\ UNCHANGED <<policy, epoch, active, disabled, tok, task, call>>
        /\ man # "none" /\ man \in Manual /\ man' = "none" /\ changes' = changes + 1
        /\ Possible(man, res, FALSE) /\ Exchange(man, res, FALSE)
        /\ TypeOK
    BY Zenon DEF ManualEnds, IInv, TypeOK
  <2>1. /\ st' \in {"starting", "running", "suspended", "ended"} /\ cancelled' \in BOOLEAN
        /\ cancelled => cancelled'
        /\ st = "starting" => st' = "starting" /\ ~Succeeds(res)
        /\ st = "ended" => st' = "ended"
        /\ Took(res) /\ LiveState /\ man = "resume" => st' = "running"
        /\ Took(res) /\ LiveState /\ man = "suspend" => st' = "ended"
        /\ man = "checkpoint" => st' = st
        /\ man = "checkpoint" /\ st = "suspended" => ~Succeeds(res)
        /\ ~Took(res) => st' = st
        /\ res # "denied"
    BY <2>0, <1>ExchangeFacts, Zenon
  <2>2. own \in [manual : BOOLEAN, automatic : SUBSET Call] /\ own.manual \in BOOLEAN
    BY Zenon DEF IInv, TypeOK
  <2>3. \/ own' = own /\ ~Succeeds(res) /\ st' # "running"
        \/ /\ own' = [manual |-> own.manual /\ ~(st' = "running") /\ man # "resume",
                      automatic |-> {}]
           /\ Succeeds(res) \/ st' = "running"
    BY DEF ManualEnds
  <2>4. own' \in [manual : BOOLEAN, automatic : SUBSET Call]
    <3>1. (own.manual /\ ~(st' = "running") /\ man # "resume") \in BOOLEAN
      BY <2>2, Zenon
    <3>2. [manual |-> own.manual /\ ~(st' = "running") /\ man # "resume", automatic |-> {}]
             \in [manual : BOOLEAN, automatic : SUBSET Call]
      BY <3>1
    <3> QED
      BY <2>2, <2>3, <3>2, Zenon
  <2>5. man \in Pauses \cup {"resume", "suspend", "checkpoint"}
    BY <2>0, Zenon DEF Manual, Snapshots
  <2>6. TypeOK'
    <3>1. changes \in Nat
      BY <2>0, Zenon DEF TypeOK
    <3>2. changes' \in Nat
      BY <2>0, <3>1
    <3> QED
      BY <2>0, <2>1, <2>4, <3>2, Zenon DEF TypeOK
  <2>7. WaitSound'
    <3> SUFFICES ASSUME NEW c \in Call PROVE Sound(tok[c], task[c], call[c], cancelled')
      BY <2>0, Zenon DEF WaitSound
    <3> QED
      BY <2>1, OneWait, <1>SoundTokens
  <2>8. LockInv'
    <3>1. \A c \in Call : task[c].pc \notin Inside
      BY <2>0, Zenon DEF IInv, LockInv
    <3> QED
      BY <2>0, <3>1, Zenon DEF LockInv, SnapshotRunning, Pauses, Snapshots
  <2>9. SlotInv'
    BY <2>0, <2>1, Zenon DEF IInv, SlotInv
  <2>10. man \in Pauses => own.manual
    BY Zenon DEF IInv, LockInv
  <2>11. (man \in {"suspend", "checkpoint"} /\ ~cancelled) =>
             own = [manual |-> FALSE, automatic |-> {}] /\ st # "suspended"
    BY DEF IInv, LockInv, SnapshotRunning, Snapshots
  <2>12. ClaimInv'
    <3> SUFFICES ASSUME ~cancelled'
                 PROVE  /\ \A c \in own'.automatic :
                              own'.automatic = {c} /\ (own'.manual \/ Releases(c)')
                        /\ st' = "suspended" => own'.manual \/ own'.automatic # {}
      BY Zenon DEF ClaimInv
    <3>0. ~cancelled
      BY <2>1, Zenon
    <3>1. CASE own' = own /\ ~Succeeds(res) /\ st' # "running"
      <4>1. own.manual \/ st' = st \/ st' = "ended"
        BY <2>0, <2>1, <2>5, <2>10, <3>1, Zenon DEF LiveState, TypeOK
      <4>2. \A c \in own.automatic : own.automatic = {c} /\ (own.manual \/ Releases(c))
        BY <3>0, Zenon DEF IInv, ClaimInv
      <4>3. ASSUME NEW c \in own.automatic, Releases(c), ~own.manual PROVE Releases(c)'
        BY <2>0, <4>1, <4>3, Zenon DEF Releases, WillRelease
      <4>4. st' = "suspended" => own.manual \/ own.automatic # {}
        BY <3>0, <4>1 DEF IInv, ClaimInv
      <4> QED
        BY <3>1, <4>2, <4>3, <4>4, Zenon
    <3>2. CASE /\ own' = [manual |-> own.manual /\ ~(st' = "running") /\ man # "resume",
                          automatic |-> {}]
               /\ Succeeds(res) \/ st' = "running"
      <4>1. own'.automatic = {} /\ own'.manual = (own.manual /\ ~(st' = "running") /\ man # "resume")
        BY <3>2, Zenon
      <4>2. st' = "suspended" => man \in Pauses
        <5> SUFFICES ASSUME st' = "suspended", man \notin Pauses PROVE FALSE
          BY Zenon
        <5>1. Succeeds(res) /\ Took(res)
          BY <2>1, <3>2 DEF Succeeds, Took
        <5>2. st \notin {"starting", "ended"}
          BY <2>1, Zenon
        <5>3. LiveState
          BY <5>2 DEF LiveState, IInv, TypeOK
        <5> QED
          BY <2>1, <2>5, <2>11, <3>0, <5>1, <5>3
      <4>3. "resume" \notin Pauses
        BY Zenon DEF Pauses
      <4> QED
        BY <2>10, <4>1, <4>2, <4>3, Zenon
    <3> QED
      BY <2>3, <3>1, <3>2, Zenon
  <2>13. PassiveInv'
    BY <2>0 DEF IInv, PassiveInv
  <2> QED
    BY <2>6, <2>7, <2>8, <2>9, <2>12, <2>13 DEF IInv

\* The Execution becomes ready, ends or is cancelled.
<1>ExecutionInv.
  ASSUME IInv, UNCHANGED policy, Ready \/ ExecutionEnds \/ Cancel \/ MonitorTermination
  PROVE  IInv'
  <2> USE <1>ExecutionInv
  <2>0. /\ UNCHANGED <<policy, own, man, epoch, changes, active, disabled, tok, task, call>>
        /\ cancelled' \in BOOLEAN /\ (cancelled => cancelled')
        /\ \/ st' = st
           \/ st = "starting" /\ st' = "running"
           \/ st' = "ended"
    BY Zenon DEF Ready, ExecutionEnds, Cancel, MonitorTermination, IInv, TypeOK
  <2>1. TypeOK'
    BY <2>0, Zenon DEF IInv, TypeOK
  <2>2. WaitSound'
    <3> SUFFICES ASSUME NEW c \in Call PROVE Sound(tok[c], task[c], call[c], cancelled')
      BY <2>0, Zenon DEF WaitSound
    <3> QED
      BY <2>0, OneWait, <1>SoundTokens, SMTT(30), Z3T(30)
  <2>3. LockInv'
    BY <2>0, Zenon DEF IInv, LockInv, SnapshotRunning
  <2>4. SlotInv'
    BY <2>0, Zenon DEF IInv, SlotInv
  <2>5. ClaimInv'
    BY <2>0, Zenon DEF IInv, ClaimInv, Releases, WillRelease
  <2>6. PassiveInv'
    BY <2>0, Zenon DEF IInv, PassiveInv
  <2> QED
    BY <2>1, <2>2, <2>3, <2>4, <2>5, <2>6 DEF IInv

\* Every step of a wait task.
<1>WaitTaskInv.
  ASSUME IInv, NEW c \in Call, UNCHANGED policy, Wait(c) \/ Revoked(c)
  PROVE  IInv'
  BY <1>WaitTaskInv, <1>MovesInv, <1>GraceInv, <1>RoundEndsInv, <1>PauseInv, <1>OffloadDueInv,
     <1>RevokedInv, <1>SettleInv,
  <1>RoundFailsInv, <1>WaitFailedInv, <1>ReleaseInv, <1>ResumeNextInv, <1>RestInv, <1>ClearInv,
  <1>PausedInv,
  <1>OffloadedInv, <1>RearmedInv, <1>ResumedInv DEF Wait

<1> SUFFICES ASSUME IInv, [Next]_<<policy, vars>> PROVE IInv'
  OBVIOUS
<1>1. CASE UNCHANGED <<policy, vars>>
  <2>1. UNCHANGED <<policy, st, cancelled, own, man, epoch, changes, active, disabled, tok,
                    task, call>>
    BY <1>1, Zenon DEF vars, execution
  <2>2. TypeOK' /\ WaitSound'
    BY <2>1, Zenon DEF IInv, TypeOK, WaitSound
  <2>3. LockInv' /\ SlotInv'
    BY <2>1, Zenon DEF IInv, LockInv, SnapshotRunning, SlotInv
  <2>4. ClaimInv' /\ PassiveInv'
    BY <2>1 DEF IInv, ClaimInv, Releases, WillRelease, PassiveInv
  <2> QED
    BY <2>2, <2>3, <2>4 DEF IInv
<1>2. CASE Next
  <2>0. UNCHANGED policy /\ policy.calls \subseteq Call
    BY <1>2, PoliciesAssumption, Zenon DEF Next, IInv, TypeOK
  <2>1. ASSUME NEW c \in policy.calls, Request(c) \/ Deliver(c) PROVE IInv'
    BY <2>0, <2>1, <1>CallerInv, Zenon
  <2>2. ASSUME NEW c \in policy.calls, Wait(c) \/ Revoked(c) PROVE IInv'
    BY <2>0, <2>2, <1>WaitTaskInv
  <2>3. ASSUME NEW k \in Manual, ManualBegins(k) PROVE IInv'
    BY <2>0, <2>3, <1>ManualBeginsInv, Zenon
  <2>4. ASSUME NEW res \in Results, ManualEnds(res) PROVE IInv'
    BY <2>0, <2>4, <1>ManualEndsInv, Zenon
  <2>5. CASE Ready \/ ExecutionEnds \/ Cancel \/ MonitorTermination
    BY <2>0, <2>5, <1>ExecutionInv
  <2> QED
    BY <1>2, <2>1, <2>2, <2>3, <2>4, <2>5, Zenon DEF Next
<1> QED
  BY <1>1, <1>2

\* The inductive invariant holds for every set of calls and every policy.
THEOREM Invariant == Spec => []IInv
<1>1. Init => IInv
  BY InitInv
<1>2. IInv /\ [Next]_<<policy, vars>> => IInv'
  BY NextInv, Zenon
<1> QED
  BY <1>1, <1>2, PTL DEF Spec

\* While nobody cancels, a suspended VM that no human claims is claimed by the wait in
\* the slot, whose task has its release ahead of it.
LEMMA SuspendedBy ==
  ASSUME IInv, ~cancelled, ~own.manual, st = "suspended" \/ own.automatic # {}
  PROVE  \E c \in Call : /\ c \in own.automatic /\ WillRelease(c) /\ active = {c}
                         /\ task[c].pc \notin Over \cup {"resting"}
<1>1. PICK c \in own.automatic : TRUE
  BY DEF IInv, ClaimInv
<1>2. c \in Call
  BY <1>1 DEF IInv, TypeOK
<1>3. Releases(c) /\ task[c].pc \in Releasing
  BY <1>2, Claims, Zenon
<1>4. call[c].pc # "delivered"
  BY <1>2, <1>3, OneWait, Zenon DEF Sound, Last, Over, Releasing, Ending
<1>5. active = {c}
  BY <1>2, <1>3, <1>4 DEF IInv, SlotInv, Releasing, Ending
<1> QED
  BY <1>2, <1>3, <1>5 DEF Releases, Releasing, Ending, Over

\* A call between reservation and delivery or drop keeps the slot, cleanup or not, so
\* that a second call is always seen as an overlap (reserve_inner, run_wait).
THEOREM SlotIsKept == Spec => []SlotKept
<1>1. IInv => SlotKept
  <2> SUFFICES ASSUME IInv, NEW c \in Call, ~cancelled, task[c].pc # "none",
                      call[c].pc \notin {"delivered", "dropped"}
               PROVE  active = {c}
    BY Zenon DEF SlotKept
  <2>1. task[c].pc # "cleared"
    BY OneWait, Zenon DEF Sound
  <2> QED
    BY <2>1, Zenon DEF IInv, SlotInv
<1> QED
  BY <1>1, Invariant, PTL

\* No pause is orphaned: outside the exchanges a suspended VM is claimed by a human or
\* by a wait that still releases it or cancels (automatic, release, wait_failed).
THEOREM PausesOwned == Spec => []PauseHasOwner
<1>1. IInv => PauseHasOwner
  BY SuspendedBy, Zenon DEF PauseHasOwner
<1> QED
  BY <1>1, Invariant, PTL

\* A caller past its cleanup meets no automatic pause.
LEMMA Cleanup ==
  ASSUME IInv, ~cancelled, ~own.manual, NEW c \in Call,
         call[c].pc \in Barriers \/ Delivering(c)
  PROVE  st # "suspended" /\ own.automatic = {}
<1> SUFFICES ASSUME st = "suspended" \/ own.automatic # {} PROVE FALSE
  OBVIOUS
<1>1. PICK d \in Call : active = {d} /\ task[d].pc \notin Over \cup {"resting"}
  BY SuspendedBy, Zenon
<1>2. CASE call[c].pc \in {"pchecking", "pdelivering"}
  BY <1>1, <1>2, Zenon DEF IInv, PassiveInv, Counted, Queueing
<1>3. CASE call[c].pc \in {"bchecking", "delivering", "dchecking"}
  <2>1. task[c].pc \in Over \cup {"resting"} /\ task[c].pc # "none" /\ task[c].pc # "cleared"
    BY <1>3, OneWait DEF Sound, Batch, Last, Over, Counted, Queueing
  <2>2. active = {c}
    BY <1>3, <2>1, ZenonT(60) DEF IInv, SlotInv
  <2> QED
    BY <1>1, <2>1, <2>2, Zenon
<1> QED
  BY <1>2, <1>3, Zenon DEF Barriers, Delivering

\* While a batch is held for delivery, only a human's command can have stopped the VM:
\* the hold keeps the next round away (before_batch, resume_next, passive_delivery).
THEOREM DeliveriesRun == Spec => []DeliveredRunning
<1>1. IInv => DeliveredRunning
  BY Cleanup, Zenon DEF DeliveredRunning
<1> QED
  BY <1>1, Invariant, PTL

\* A barrier that gets the lock finds the cleanup complete, so that release(delivery) has
\* no pause of its own to undo and reports no stopped VM.
THEOREM BarriersClear == Spec => []BarrierClear
<1>1. IInv => BarrierClear
  BY Cleanup DEF BarrierClear
<1> QED
  BY <1>1, Invariant, PTL

\* A checkpoint or suspend inside its exchange sees a VM that nobody has paused (manual
\* refuses it while a wait is in the slot or a human's pause stands).
THEOREM SnapshotsRun == Spec => []SnapshotRunning
<1>1. IInv => SnapshotRunning
  BY DEF IInv, LockInv
<1> QED
  BY <1>1, Invariant, PTL

\* Once a human's pause took effect, only a manual resume makes the VM run again: the
\* automatic resumes never begin, nor end, under a human's claim (release, resume_next).
THEOREM HumanPausesStand == Spec => HumanPauseStands
<1> DEFINE Stands == (own.manual /\ st = "suspended" /\ st' = "running") => man = "resume"
<1>1. IInv /\ [Next]_<<policy, vars>> => [Stands]_vars
  <2> SUFFICES ASSUME IInv, Next, own.manual, st = "suspended", st' = "running"
               PROVE  man = "resume"
    BY Zenon DEF vars
  <2>1. \A c \in Call : task[c].pc \notin Inside
    BY Zenon DEF IInv, LockInv
  <2>2. policy.calls \subseteq Call
    BY PoliciesAssumption, Zenon DEF IInv, TypeOK
  <2>3. ASSUME NEW c \in policy.calls, Request(c) \/ Deliver(c) \/ Revoked(c) PROVE st' = st
    BY <2>3, Zenon DEF Request, Deliver, Revoked, Reserve, Overlap, Enter, BeforeBatch,
       BeforeDelivery, PassiveDelivery, AfterBatch, GiveUp, Cleaned, PassiveCleaned, Barrier,
       Unblock, execution
  <2>4. ASSUME NEW c \in policy.calls, Wait(c) PROVE st' = st
    <3>1. ASSUME NEW res \in Results PROVE ~(Paused(c, res) \/ Offloaded(c, res)
                                             \/ Rearmed(c, res) \/ Resumed(c, res))
      BY <2>1, <2>2, Zenon DEF Paused, Offloaded, Rearmed, Resumed, TaskAt, Inside
    <3> QED
      BY <2>4, <3>1 DEF Wait, Started, Grace, Permit, RoundEnds, Pause, OffloadDue, Settle,
         ResumeNext, Release, RoundFails, WaitFailed, Rest, Clear, execution
  <2>5. ASSUME NEW k \in Manual, ManualBegins(k) PROVE st' = st
    BY <2>5 DEF ManualBegins, execution
  <2>6. ASSUME NEW res \in Results, ManualEnds(res) PROVE man = "resume"
    <3>1. st' = Then(man, res)
      BY <2>6, Zenon DEF ManualEnds, Exchange
    <3> QED
      BY <3>1, Zenon DEF Then
  <2>7. CASE Ready \/ ExecutionEnds \/ Cancel \/ MonitorTermination
    BY <2>7 DEF Ready, ExecutionEnds, Cancel, MonitorTermination
  <2> QED
    BY <2>3, <2>4, <2>5, <2>6, <2>7 DEF Next
<1> QED
  BY <1>1, Invariant, PTL DEF Spec, HumanPauseStands

\* A step of a wait task leaves the other tasks alone.
LEMMA TaskMoves ==
  ASSUME NEW c \in Call, task \in [Call -> WaitTasks], Wait(c)
  PROVE  \E t : task' = [task EXCEPT ![c] = t]
<1>1. ASSUME NEW pc, TaskGoto(c, pc) PROVE \E t : task' = [task EXCEPT ![c] = t]
  <2>1. task' = [task EXCEPT ![c] = [task[c] EXCEPT !.pc = pc]]
    BY <1>1, Zenon DEF TaskGoto
  <2> QED
    BY <2>1, Zenon
<1>2. ASSUME NEW pc, NEW err, task' = [task EXCEPT ![c].pc = pc, ![c].err = err]
      PROVE \E t : task' = [task EXCEPT ![c] = t]
  <2>1. task' = [task EXCEPT ![c] = [task[c] EXCEPT !.pc = pc, !.err = err]]
    BY <1>2, Zenon
  <2> QED
    BY <2>1, Zenon
<1>3. ASSUME NEW err, RoundErrs(c, err) PROVE \E t : task' = [task EXCEPT ![c] = t]
  BY <1>2, <1>3, Zenon DEF RoundErrs
<1>4. ASSUME NEW g, NEW prepared, NextRound(c, g, prepared)
      PROVE  \E t : task' = [task EXCEPT ![c] = t]
  BY <1>4, Zenon DEF NextRound
<1>5. ASSUME RoundOver(c) PROVE \E t : task' = [task EXCEPT ![c] = t]
  BY <1>1, <1>5, Zenon DEF RoundOver
<1>6. CASE Started(c) \/ Permit(c) \/ RoundEnds(c) \/ Pause(c) \/ OffloadDue(c) \/ RoundFails(c)
           \/ WaitFailed(c) \/ ResumeNext(c)
  BY <1>1, <1>6, Zenon DEF Started, Permit, RoundEnds, Pause, OffloadDue, RoundFails, WaitFailed,
     ResumeNext
<1>7. CASE Settle(c) \/ Clear(c)
  BY <1>2, <1>7, Zenon DEF Settle, Clear
<1>8. CASE Release(c) \/ Rest(c)
  BY <1>1, <1>3, <1>4, <1>5, <1>8, Zenon DEF Release, Rest
<1>9. CASE Grace(c)
  <2>1. task' = [task EXCEPT ![c] = [task[c] EXCEPT !.pc = "permit", !.prepared = FALSE]]
    BY <1>9, Zenon DEF Grace
  <2> QED
    BY <2>1, Zenon
<1>10. ASSUME NEW res \in Results, Paused(c, res)
       PROVE  \E t : task' = [task EXCEPT ![c] = t]
  <2>1. ASSUME task' = [task EXCEPT ![c].pc = "paused", ![c].permit = TRUE]
        PROVE  \E t : task' = [task EXCEPT ![c] = t]
    <3>1. task' = [task EXCEPT ![c] = [task[c] EXCEPT !.pc = "paused", !.permit = TRUE]]
      BY <2>1, Zenon
    <3> QED
      BY <3>1, Zenon
  <2> QED
    BY <1>2, <1>10, <2>1, Zenon DEF Paused
<1>11. ASSUME NEW res \in Results, Offloaded(c, res) \/ Rearmed(c, res) \/ Resumed(c, res)
       PROVE  \E t : task' = [task EXCEPT ![c] = t]
  BY <1>2, <1>3, <1>4, <1>5, <1>11, Zenon DEF Offloaded, Rearmed, Resumed
<1> QED
  BY <1>6, <1>7, <1>8, <1>9, <1>10, <1>11, Zenon DEF Wait

\* After the first overlap or a manual control no automatic pause begins for the wait it
\* concerns: the tokens are looked at again under the lock (automatic, reserve_inner).
THEOREM PausesNotLate == Spec => NoLatePause
<1> DEFINE Late == \A c \in Call : (TaskAt(c, "granted") /\ task'[c].pc = "pausing") =>
                      ~disabled /\ tok[c].epoch = epoch /\ ~tok[c].wake
<1>1. IInv /\ [Next]_<<policy, vars>> => [Late]_vars
  <2> SUFFICES ASSUME IInv, Next, NEW c \in Call, task[c].pc = "granted",
                      task'[c].pc = "pausing"
               PROVE  ~disabled /\ tok[c].epoch = epoch /\ ~tok[c].wake
    BY Zenon DEF vars, TaskAt
  <2>0. task \in [Call -> WaitTasks] /\ policy.calls \subseteq Call
    BY PoliciesAssumption DEF IInv, TypeOK
  <2>1. Pause(c)
    <3>1. ASSUME NEW d \in policy.calls, Request(d) \/ Deliver(d) \/ Revoked(d)
          PROVE  task'[c].pc # "pausing"
      <4>1. CASE Reserve(d)
        BY <2>0, <4>1 DEF Reserve
      <4>2. CASE ~Reserve(d)
        <5>1. task' = task
          BY <3>1, <4>2, Zenon DEF Request, Deliver, Revoked, Overlap, Enter, BeforeBatch,
             BeforeDelivery, PassiveDelivery, AfterBatch, GiveUp, Cleaned, PassiveCleaned,
             Barrier, Unblock
        <5> QED
          BY <5>1
      <4> QED
        BY <4>1, <4>2
    <3>2. ASSUME NEW d \in policy.calls, Wait(d), ~Pause(d) PROVE task'[c].pc # "pausing"
      <4>1. d # c
        <5>1. ASSUME NEW res \in Results
              PROVE  ~(Paused(c, res) \/ Offloaded(c, res) \/ Rearmed(c, res) \/ Resumed(c, res))
          BY DEF Paused, Offloaded, Rearmed, Resumed, TaskAt
        <5>2. ~(Started(c) \/ Grace(c) \/ Permit(c) \/ RoundEnds(c) \/ OffloadDue(c))
          BY DEF Started, Grace, Permit, RoundEnds, OffloadDue, TaskAt
        <5>3. ~(Settle(c) \/ ResumeNext(c) \/ Release(c) \/ RoundFails(c) \/ WaitFailed(c)
                \/ Rest(c) \/ Clear(c))
          BY Zenon DEF Settle, ResumeNext, Release, RoundFails, WaitFailed, Rest, Clear, TaskAt
        <5> QED
          BY <3>2, <5>1, <5>2, <5>3, Zenon DEF Wait
      <4>2. \E t : task' = [task EXCEPT ![d] = t]
        BY <2>0, <3>2, TaskMoves
      <4> QED
        BY <2>0, <4>1, <4>2
    <3>3. ASSUME NEW d \in policy.calls, Pause(d), d # c PROVE task'[c] = task[c]
      BY <2>0, <3>3 DEF Pause, TaskGoto
    <3>4. ASSUME ~ \E d \in policy.calls : Request(d) \/ Deliver(d) \/ Wait(d) \/ Revoked(d)
          PROVE  task' = task
      BY <3>4, Zenon DEF Next, ManualBegins, ManualEnds, Ready, ExecutionEnds, Cancel,
         MonitorTermination
    <3> QED
      BY <3>1, <3>2, <3>3, <3>4, Zenon
  <2>2. MayPause(c)
    BY <2>0, <2>1 DEF Pause, TaskGoto
  <2>3. ~cancelled /\ ~tok[c].wake /\ tok[c].epoch = epoch
    BY <2>2, Zenon DEF MayPause, Awake
  <2>4. active = {c}
    <3>1. call[c].pc # "delivered"
      BY OneWait DEF Sound, Last, Over
    <3> QED
      BY <2>3, <3>1, Zenon DEF IInv, SlotInv
  <2> QED
    BY <2>3, <2>4 DEF IInv, SlotInv
<1> QED
  BY <1>1, Invariant, PTL DEF Spec, NoLatePause

-----------------------------------------------------------------------------
(* No wake is lost.                                                         *)
(*                                                                          *)
(* A second inductive invariant says that whoever waits in a barrier has    *)
(* told the wait it waits for, that a wait which was told can go on, and    *)
(* that every step it takes brings it closer to its end.                    *)

\* One wait again: the round that callers select is the one the task runs, unless the
\* task is between two rounds or past its last; a task that is over has completed the
\* selected round or has failed; and a caller that waits has told the task.
Heard(k, t, w) ==
    /\ t.pc \notin {"rearming", "failing", "reporting"} \cup Over => k.cur = t.gen
    /\ t.pc = "resting" => k.completed = t.gen
    /\ t.pc = "reporting" => k.failed
    /\ t.pc \in Over => k.failed \/ k.completed >= k.cur
    /\ w.pc = "holding" => k.cur \in k.woken
    /\ w.pc \in Batch \cup {"upstream", "holding"} => k.entered
    /\ w.pc = "finishing" => k.wake

\* The caller that a human's pause blocks has not missed the end of that pause.
Blocked == {"bblocked", "dblocked", "pblocked"}
Informed(w) == w.seen <= changes /\ (w.pc \in Blocked => changes > w.seen \/ own.manual)

\* A wait that a counted caller waits for has a task, and was woken by the overlap.
Woken(d) == d \in Call /\ task[d].pc # "none" /\ (tok[d].wake \/ cancelled)

HeardInv ==
    /\ \A c \in Call : /\ Heard(tok[c], task[c], call[c]) /\ Informed(call[c])
                       /\ \A d \in call[c].ref : Woken(d)
                       /\ c \notin policy.calls => call[c].pc = "new" /\ task[c].pc = "none"
    /\ \A d \in active : task[d].pc # "none"

\* The guards of Deliver and Wait.
CanDeliver(c) ==
    /\ c \in policy.calls
    /\ \/ CallAt(c, "holding") /\ (RoundDone(c) \/ RoundFailed(c))
       \/ CallAt(c, "finishing") /\ task[c].pc \in Over
       \/ CallAt(c, "pwaiting") /\ \A d \in call[c].ref : task[d].pc \in Over
       \/ call[c].pc \in Barriers /\ ~Locked
       \/ call[c].pc \in Blocked /\ (cancelled \/ changes > call[c].seen)
CanWait(c) ==
    /\ c \in policy.calls
    /\ \/ task[c].pc \in {"grace", "permit", "revoking", "failing", "reporting"} \cup Inside
       \/ TaskAt(c, "reserved") /\ (cancelled \/ tok[c].wake \/ tok[c].entered)
       \/ task[c].pc \in {"paused", "parked"} /\ Awake(c)
       \/ TaskAt(c, "paused") /\ Offload /\ ~Locked
       \/ task[c].pc \in {"granted", "settled", "releasing"} /\ ~Locked
       \/ TaskAt(c, "resting") /\ (cancelled \/ tok[c].wake)
       \/ TaskAt(c, "resting") /\ ~tok[c].held /\ task[c].gen < MaxRounds
       \/ TaskAt(c, "completed") /\ (tok[c].retired \/ cancelled)

\* Somebody is inside an exchange, which returns with one of its results.
Exchanging == man # "none" \/ \E c \in policy.calls : task[c].pc \in Inside

\* The wait was told to end, or to end the selected round, which a hold makes its last
\* for the time being.
Told(c) == cancelled \/ tok[c].wake \/ (tok[c].held /\ tok[c].cur \in tok[c].woken)

\* The waits whose cleanup a caller awaits.
Awaited(c) ==
    CASE call[c].pc \in {"holding", "finishing"} -> {c}
      [] CallAt(c, "pwaiting") -> call[c].ref
      [] OTHER -> {}

\* A caller in a barrier goes on, or is blocked by a human's pause that is in force, or
\* an exchange holds the lock, or a wait whose cleanup it awaits was told and goes on.
Served(c) ==
    InBarrier(c) => \/ CanDeliver(c)
                    \/ call[c].pc \in Blocked /\ own.manual
                    \/ Exchanging
                    \/ \E d \in Awaited(c) : Told(d) /\ CanWait(d)
BarriersServed == \A c \in Call : Served(c)

\* How far a wait that was told is from its end.
Rank(pc) ==
    CASE pc = "reserved" -> 16 [] pc = "rearming" -> 15 [] pc = "grace" -> 14
      [] pc = "permit" -> 13 [] pc = "granted" -> 12 [] pc = "pausing" -> 11
      [] pc = "paused" -> 10 [] pc = "offloading" -> 9 [] pc = "parked" -> 8
      [] pc = "revoking" -> 7 [] pc = "settled" -> 6 [] pc = "releasing" -> 5
      [] pc = "resuming" -> 4 [] pc = "failing" -> 3 [] pc \in {"reporting", "resting"} -> 2
      [] pc = "completed" -> 1 [] OTHER -> 0

\* A wait that was told moves only towards its end, and only its caller's last word
\* (it delivers the batch and releases the hold) takes back that it was told.
WindsDown ==
    \A c \in Call : (task[c].pc # "none" /\ Told(c)) =>
        /\ task'[c] # task[c] => Rank(task'[c].pc) < Rank(task[c].pc)
        /\ Told(c)' \/ call[c].pc = "delivering"

\* What the invariant says of one wait.
LEMMA OneHeard ==
  ASSUME HeardInv, NEW c \in Call
  PROVE  /\ Heard(tok[c], task[c], call[c]) /\ Informed(call[c])
         /\ \A d \in call[c].ref : Woken(d)
BY Zenon DEF HeardInv

\* A step of a caller: it keeps what the wait was told, except that the delivery of a
\* batch releases the hold, and it comes to wait only for a wait that was told.
Speaks(c) ==
    \E k, w :
        /\ tok' = [tok EXCEPT ![c] = k] /\ call' = [call EXCEPT ![c] = w]
        /\ Heard(k, task[c], w) /\ Informed(w) /\ \A d \in w.ref : Woken(d)
        /\ tok[c].wake => k.wake
        /\ tok[c].held => k.held \/ call[c].pc = "delivering"
        /\ k.cur = tok[c].cur /\ tok[c].woken \subseteq k.woken

\* A caller that is told nothing new keeps what it knew.
LEMMA KnowsStill ==
  ASSUME IInv, HeardInv, NEW c \in Call, NEW w,
         w.seen \in {call[c].seen, changes, 0}, w.pc \notin Blocked, w.ref \subseteq call[c].ref
  PROVE  Informed(w) /\ \A d \in w.ref : Woken(d)
<1>1. changes \in Nat /\ Informed(call[c]) /\ \A d \in call[c].ref : Woken(d)
  BY OneHeard, ZenonT(60) DEF IInv, TypeOK
<1>2. w.seen <= changes
  BY <1>1 DEF Informed
<1> QED
  BY <1>1, <1>2, Zenon DEF Informed

\* A caller that drops its wait wakes it.
LEMMA DropsSpeaks ==
  ASSUME IInv, HeardInv, NEW c \in Call, Drops(c)
  PROVE  Speaks(c)
<1> DEFINE k == [tok[c] EXCEPT !.wake = TRUE, !.retired = TRUE]
           w == [NewCall EXCEPT !.pc = "dropped"]
<1>0. tok[c] \in Tokens
  BY OneWait
<1>1. /\ k.entered = tok[c].entered /\ k.wake /\ k.held = tok[c].held /\ k.cur = tok[c].cur
      /\ k.woken = tok[c].woken /\ k.completed = tok[c].completed /\ k.failed = tok[c].failed
  BY <1>0, Zenon DEF Tokens
<1>2. w.pc = "dropped" /\ w.seen = 0 /\ w.ref = {}
  BY Zenon DEF NewCall
<1>3. tok' = [tok EXCEPT ![c] = k] /\ call' = [call EXCEPT ![c] = w]
  BY Zenon DEF Drops
<1> HIDE DEF k, w
<1>4. Heard(k, task[c], w)
  BY <1>1, <1>2, OneHeard, ZenonT(60) DEF Heard, Batch
<1>5. Informed(w) /\ \A d \in w.ref : Woken(d)
  <2>1. w.pc \notin Blocked
    BY <1>2 DEF Blocked
  <2>2. w.seen \in {call[c].seen, changes, 0} /\ w.ref \subseteq call[c].ref
    BY <1>2, Zenon
  <2> QED
    BY <2>1, <2>2, KnowsStill, Zenon, Z3T(30)
<1> QED
  BY <1>1, <1>3, <1>4, <1>5, ZenonT(60) DEF Speaks

\* A step that changes only the caller's own state.
LEMMA SpeaksAlone ==
  ASSUME IInv, HeardInv, NEW c \in Call, NEW w, call' = [call EXCEPT ![c] = w], UNCHANGED tok,
         Heard(tok[c], task[c], w), Informed(w), \A d \in w.ref : Woken(d)
  PROVE  Speaks(c)
<1>1. tok' = [tok EXCEPT ![c] = tok[c]]
  BY Zenon DEF IInv, TypeOK
<1> QED
  BY <1>1, Zenon DEF Speaks

\* enter keeps what the wait was told.
LEMMA EnterSpeaks ==
  ASSUME IInv, HeardInv, NEW c \in Call, Enter(c)
  PROVE  Speaks(c)
<1> DEFINE k == [tok[c] EXCEPT !.entered = TRUE]
           w == [call[c] EXCEPT !.pc = "upstream"]
<1>0. tok[c] \in Tokens /\ call[c] \in Callers
  BY OneWait
<1>1. /\ k.entered /\ k.wake = tok[c].wake /\ k.held = tok[c].held /\ k.cur = tok[c].cur
      /\ k.woken = tok[c].woken /\ k.completed = tok[c].completed /\ k.failed = tok[c].failed
  BY <1>0, Zenon DEF Tokens
<1>2. w.pc = "upstream" /\ w.seen = call[c].seen /\ w.ref = call[c].ref
  BY <1>0, Zenon DEF Callers
<1>3. tok' = [tok EXCEPT ![c] = k] /\ call' = [call EXCEPT ![c] = w]
  BY ZenonT(60) DEF Enter, CallGoto
<1> HIDE DEF k, w
<1>4. Heard(k, task[c], w)
  <2>1. Heard(tok[c], task[c], call[c])
    BY OneHeard, Zenon
  <2> QED
    BY <1>1, <1>2, <2>1, SMTT(30) DEF Heard
<1>5. Informed(w) /\ \A d \in w.ref : Woken(d)
  <2>1. w.pc \notin Blocked
    BY <1>2 DEF Blocked
  <2>2. w.seen \in {call[c].seen, changes, 0} /\ w.ref \subseteq call[c].ref
    BY <1>2, Zenon
  <2> QED
    BY <2>1, <2>2, KnowsStill, SMTT(30)
<1> QED
  BY <1>1, <1>3, <1>4, <1>5, ZenonT(60) DEF Speaks

\* before_batch wakes the round that it selects.
LEMMA BeforeBatchSpeaks ==
  ASSUME IInv, HeardInv, NEW c \in Call, BeforeBatch(c)
  PROVE  Speaks(c)
<1> DEFINE k == [tok[c] EXCEPT !.held = TRUE, !.woken = @ \cup {tok[c].cur}]
           w == [call[c] EXCEPT !.pc = "holding", !.gen = tok[c].cur]
<1>0. tok[c] \in Tokens /\ call[c] \in Callers /\ call[c].pc = "upstream"
  BY OneWait DEF BeforeBatch, CallAt
<1>1. /\ k.entered = tok[c].entered /\ k.wake = tok[c].wake /\ k.held /\ k.cur = tok[c].cur
      /\ k.woken = tok[c].woken \cup {tok[c].cur} /\ k.completed = tok[c].completed
      /\ k.failed = tok[c].failed
  BY <1>0, Zenon DEF Tokens
<1>2. w.pc = "holding" /\ w.seen = call[c].seen /\ w.ref = call[c].ref
  BY <1>0, Zenon DEF Callers
<1>3. tok' = [tok EXCEPT ![c] = k] /\ call' = [call EXCEPT ![c] = w]
  BY Zenon DEF BeforeBatch
<1> HIDE DEF k, w
<1>4. Heard(k, task[c], w)
  BY <1>0, <1>1, <1>2, OneHeard, ZenonT(60) DEF Heard
<1>5. Informed(w) /\ \A d \in w.ref : Woken(d)
  <2>1. w.pc \notin Blocked
    BY <1>2, Zenon DEF Blocked
  <2>2. w.seen \in {call[c].seen, changes, 0} /\ w.ref \subseteq call[c].ref
    BY <1>2, Zenon
  <2> QED
    BY <2>1, <2>2, KnowsStill, SMTT(30)
<1>6. tok[c].woken \subseteq k.woken
  BY <1>1, Zenon
<1> QED
  BY <1>1, <1>3, <1>4, <1>5, <1>6, Zenon DEF Speaks

\* before_delivery wakes the whole wait.
LEMMA BeforeDeliverySpeaks ==
  ASSUME IInv, HeardInv, NEW c \in Call, BeforeDelivery(c)
  PROVE  Speaks(c)
<1> DEFINE k == [tok[c] EXCEPT !.wake = TRUE]
           w == [call[c] EXCEPT !.pc = "finishing"]
<1>0. tok[c] \in Tokens /\ call[c] \in Callers
  BY OneWait
<1>1. /\ k.entered = tok[c].entered /\ k.wake /\ k.held = tok[c].held /\ k.cur = tok[c].cur
      /\ k.woken = tok[c].woken /\ k.completed = tok[c].completed /\ k.failed = tok[c].failed
  BY <1>0, Zenon DEF Tokens
<1>2. w.pc = "finishing" /\ w.seen = call[c].seen /\ w.ref = call[c].ref
  BY <1>0, Zenon DEF Callers
<1>3. tok' = [tok EXCEPT ![c] = k] /\ call' = [call EXCEPT ![c] = w]
  BY Zenon DEF BeforeDelivery, Wakes, CallGoto
<1> HIDE DEF k, w
<1>4. Heard(k, task[c], w)
  BY <1>1, <1>2, OneHeard, Zenon DEF Heard, Batch
<1>5. Informed(w) /\ \A d \in w.ref : Woken(d)
  <2>1. w.pc \notin Blocked
    BY <1>2 DEF Blocked
  <2>2. w.seen \in {call[c].seen, changes, 0} /\ w.ref \subseteq call[c].ref
    BY <1>2, Zenon
  <2> QED
    BY <2>1, <2>2, KnowsStill, SMTT(30)
<1> QED
  BY <1>1, <1>3, <1>4, <1>5, Zenon DEF Speaks

\* after_batch releases the hold, for the delivery of the batch.
LEMMA AfterBatchSpeaks ==
  ASSUME IInv, HeardInv, NEW c \in Call, AfterBatch(c)
  PROVE  Speaks(c)
<1> DEFINE k == [tok[c] EXCEPT !.held = FALSE]
           w == [call[c] EXCEPT !.pc = "upstream"]
<1>0. tok[c] \in Tokens /\ call[c] \in Callers /\ call[c].pc = "delivering"
  BY OneWait DEF AfterBatch, CallAt
<1>1. /\ k.entered = tok[c].entered /\ k.wake = tok[c].wake /\ k.cur = tok[c].cur
      /\ k.woken = tok[c].woken /\ k.completed = tok[c].completed /\ k.failed = tok[c].failed
  BY <1>0, Zenon DEF Tokens
<1>2. w.pc = "upstream" /\ w.seen = call[c].seen /\ w.ref = call[c].ref
  BY <1>0, Zenon DEF Callers
<1>3. tok' = [tok EXCEPT ![c] = k] /\ call' = [call EXCEPT ![c] = w]
  BY Zenon DEF AfterBatch, CallGoto
<1> HIDE DEF k, w
<1>4. Heard(k, task[c], w)
  BY <1>0, <1>1, <1>2, OneHeard, Zenon DEF Heard, Batch
<1>5. Informed(w) /\ \A d \in w.ref : Woken(d)
  <2>1. w.pc \notin Blocked
    BY <1>2 DEF Blocked
  <2>2. w.seen \in {call[c].seen, changes, 0} /\ w.ref \subseteq call[c].ref
    BY <1>2, Zenon
  <2> QED
    BY <2>1, <2>2, KnowsStill, SMTT(30)
<1> QED
  BY <1>0, <1>1, <1>3, <1>4, <1>5, Zenon DEF Speaks

\* The end of the cleanup; the caller subscribes to the changes from here on.
LEMMA CleanedSpeaks ==
  ASSUME IInv, HeardInv, NEW c \in Call, Cleaned(c)
  PROVE  Speaks(c)
<1>1. CASE Drops(c)
  BY <1>1, DropsSpeaks
<1>2. CASE ~Drops(c)
  <2> DEFINE w == [call[c] EXCEPT !.pc = IF @ = "holding" THEN "bchecking" ELSE "dchecking",
                                  !.seen = changes]
  <2>0. call[c] \in Callers /\ call[c].pc \in {"holding", "finishing"}
    BY OneWait DEF Cleaned, CallAt
  <2>1. /\ w.pc = IF call[c].pc = "holding" THEN "bchecking" ELSE "dchecking"
        /\ w.seen = changes /\ w.ref = call[c].ref
    BY <2>0, Zenon DEF Callers
  <2>2. call' = [call EXCEPT ![c] = w] /\ UNCHANGED tok
    BY <1>2, Zenon DEF Cleaned
  <2> HIDE DEF w
  <2>3. w.pc \notin Blocked \cup {"holding", "finishing"}
    BY <2>1 DEF Blocked
  <2>4. Heard(tok[c], task[c], w)
    BY <2>0, <2>1, OneHeard, Zenon DEF Heard, Batch
  <2>5. Informed(w) /\ \A d \in w.ref : Woken(d)
    <3>1. w.seen \in {call[c].seen, changes, 0} /\ w.ref \subseteq call[c].ref
      BY <2>1, Zenon
    <3> QED
      BY <2>3, <3>1, KnowsStill, SMTT(30)
  <2> QED
    BY <2>2, <2>4, <2>5, SpeaksAlone, Zenon
<1> QED
  BY <1>1, <1>2

\* The wait in the slot was woken when the caller was counted.
LEMMA PassiveDeliverySpeaks ==
  ASSUME IInv, HeardInv, NEW c \in Call, PassiveDelivery(c)
  PROVE  Speaks(c)
<1> DEFINE w == [call[c] EXCEPT !.pc = "pwaiting", !.ref = active]
<1>0. call[c] \in Callers /\ call[c].pc \in Counted /\ active \subseteq Call
  BY OneWait DEF PassiveDelivery, Counted, Queueing, IInv, TypeOK
<1>1. w.pc = "pwaiting" /\ w.seen = call[c].seen /\ w.ref = active
  BY <1>0, Zenon DEF Callers
<1>2. call' = [call EXCEPT ![c] = w] /\ UNCHANGED tok
  BY ZenonT(60) DEF PassiveDelivery
<1> HIDE DEF w
<1>3. Heard(tok[c], task[c], w)
  <2>1. Heard(tok[c], task[c], call[c])
    BY OneHeard, Zenon
  <2> QED
    BY <1>1, <2>1, SMTT(30) DEF Heard, Batch
<1>4. \A d \in w.ref : Woken(d)
  <2> SUFFICES ASSUME NEW d \in active PROVE Woken(d)
    BY <1>1, Zenon
  <2>1. task[d].pc # "none"
    BY Zenon DEF HeardInv
  <2>2. ~cancelled => tok[d].wake
    BY <1>0, Zenon DEF IInv, PassiveInv, SlotInv
  <2> QED
    BY <1>0, <2>1, <2>2, Zenon DEF Woken
<1>5. Informed(w)
  <2>1. w.pc \notin Blocked
    BY <1>1, Zenon DEF Blocked
  <2> QED
    BY <1>1, <2>1, OneHeard, Zenon DEF Informed
<1> QED
  BY <1>2, <1>3, <1>4, <1>5, SpeaksAlone, Zenon

\* A counted caller goes on once the waits it awaited are over.
LEMMA PassiveCleanedSpeaks ==
  ASSUME IInv, HeardInv, NEW c \in Call, PassiveCleaned(c)
  PROVE  Speaks(c)
<1>1. CASE Drops(c)
  BY <1>1, DropsSpeaks
<1>2. CASE ~Drops(c)
  <2> DEFINE w == [call[c] EXCEPT !.pc = "pchecking", !.seen = changes, !.ref = {}]
  <2>0. call[c] \in Callers
    BY OneWait
  <2>1. w.pc = "pchecking" /\ w.seen = changes /\ w.ref = {}
    BY <2>0, Zenon DEF Callers
  <2>2. call' = [call EXCEPT ![c] = w] /\ UNCHANGED tok
    BY <1>2, Zenon DEF PassiveCleaned
  <2> HIDE DEF w
  <2>3. w.pc \notin Blocked
    BY <2>1, Zenon DEF Blocked
  <2>4. Heard(tok[c], task[c], w)
    <3>1. Heard(tok[c], task[c], call[c])
      BY OneHeard, Zenon
    <3> QED
      BY <2>1, <3>1, SMTT(30) DEF Heard, Batch
  <2>5. Informed(w) /\ \A d \in w.ref : Woken(d)
    <3>1. w.seen \in {call[c].seen, changes, 0} /\ w.ref \subseteq call[c].ref
      BY <2>1, Zenon
    <3> QED
      BY <2>3, <3>1, KnowsStill, SMTT(30)
  <2> QED
    BY <2>2, <2>4, <2>5, SpeaksAlone, Zenon
<1> QED
  BY <1>1, <1>2

\* A blocked caller hears of a change and looks again.
LEMMA UnblockSpeaks ==
  ASSUME IInv, HeardInv, NEW c \in Call, Unblock(c)
  PROVE  Speaks(c)
<1>1. PICK pc \in Barriers :
        /\ call[c].pc = BlockedAt(pc)
        /\ IF cancelled THEN Drops(c)
           ELSE call' = [call EXCEPT ![c].pc = pc, ![c].seen = changes] /\ UNCHANGED tok
  BY Zenon DEF Unblock, CallAt
<1>2. \/ pc = "bchecking" /\ call[c].pc = "bblocked"
      \/ pc = "dchecking" /\ call[c].pc = "dblocked"
      \/ pc = "pchecking" /\ call[c].pc = "pblocked"
  BY <1>1 DEF Barriers, BlockedAt
<1>3. CASE cancelled
  BY <1>1, <1>3, DropsSpeaks
<1>4. CASE ~cancelled
  <2> DEFINE w == [call[c] EXCEPT !.pc = pc, !.seen = changes]
  <2>0. call[c] \in Callers
    BY OneWait
  <2>1. w.pc = pc /\ w.seen = changes /\ w.ref = call[c].ref
    BY <2>0, Zenon DEF Callers
  <2>2. call' = [call EXCEPT ![c] = w] /\ UNCHANGED tok
    BY <1>1, <1>4, Zenon
  <2> HIDE DEF w
  <2>3. w.pc \notin Blocked
    BY <1>2, <2>1, Zenon DEF Blocked
  <2>4. Heard(tok[c], task[c], w)
    <3>1. Heard(tok[c], task[c], call[c])
      BY OneHeard, Zenon
    <3> QED
      BY <1>2, <2>1, <3>1, SMTT(30) DEF Heard, Batch
  <2>5. Informed(w) /\ \A d \in w.ref : Woken(d)
    <3>1. w.seen \in {call[c].seen, changes, 0} /\ w.ref \subseteq call[c].ref
      BY <2>1, Zenon
    <3> QED
      BY <2>3, <3>1, KnowsStill, SMTT(30)
  <2> QED
    BY <2>2, <2>4, <2>5, SpeaksAlone, Zenon
<1> QED
  BY <1>3, <1>4

\* A caller is blocked only while a human claims the VM.
LEMMA BarrierSpeaks ==
  ASSUME IInv, HeardInv, NEW c \in Call, Barrier(c)
  PROVE  Speaks(c)
<1>0. /\ call[c] \in Callers /\ tok[c] \in Tokens
      /\ call[c].pc \in {"bchecking", "dchecking", "pchecking"}
  BY OneWait DEF Barrier, Barriers
<1>1. CASE Drops(c)
  BY <1>1, DropsSpeaks
<1>2. CASE own.manual /\ CallGoto(c, BlockedAt(call[c].pc)) /\ UNCHANGED tok
  <2> DEFINE w == [call[c] EXCEPT !.pc = BlockedAt(call[c].pc)]
  <2>1. w.pc = BlockedAt(call[c].pc) /\ w.seen = call[c].seen /\ w.ref = call[c].ref
    BY <1>0, Zenon DEF Callers
  <2>2. call' = [call EXCEPT ![c] = w]
    BY <1>2, Zenon DEF CallGoto
  <2> HIDE DEF w
  <2>3. \/ w.pc = "bblocked" /\ call[c].pc = "bchecking"
        \/ w.pc = "dblocked" /\ call[c].pc = "dchecking"
        \/ w.pc = "pblocked" /\ call[c].pc = "pchecking"
    BY <1>0, <2>1, Zenon DEF BlockedAt
  <2>4. Heard(tok[c], task[c], w)
    <3>1. Heard(tok[c], task[c], call[c])
      BY OneHeard, Zenon
    <3> QED
      BY <2>3, <3>1, SMTT(30) DEF Heard, Batch
  <2>5. Informed(w) /\ \A d \in w.ref : Woken(d)
    BY <1>2, <2>1, OneHeard, Zenon DEF Informed
  <2> QED
    BY <1>2, <2>2, <2>4, <2>5, SpeaksAlone, Zenon
<1>3. CASE Passes(c)
  <2> DEFINE w == [NewCall EXCEPT !.pc = PassedAt(call[c].pc)]
             k == IF CallAt(c, "dchecking") THEN [tok[c] EXCEPT !.retired = TRUE] ELSE tok[c]
  <2>1. w.pc = PassedAt(call[c].pc) /\ w.seen = 0 /\ w.ref = {}
    BY Zenon DEF NewCall
  <2>2. call' = [call EXCEPT ![c] = w] /\ tok' = [tok EXCEPT ![c] = k]
    BY <1>3, Zenon DEF Passes, IInv, TypeOK
  <2>3. /\ k.entered = tok[c].entered /\ k.wake = tok[c].wake /\ k.held = tok[c].held
        /\ k.cur = tok[c].cur /\ k.woken = tok[c].woken /\ k.completed = tok[c].completed
        /\ k.failed = tok[c].failed
    BY <1>0, Zenon DEF Tokens
  <2> HIDE DEF w, k
  <2>4. \/ w.pc = "delivering" /\ call[c].pc = "bchecking"
        \/ w.pc = "delivered" /\ call[c].pc = "dchecking"
        \/ w.pc = "pdelivering" /\ call[c].pc = "pchecking"
    BY <1>0, <2>1 DEF PassedAt
  <2>5. Heard(k, task[c], w)
    BY <2>3, <2>4, OneHeard, ZenonT(60) DEF Heard, Batch
  <2>6. Informed(w) /\ \A d \in w.ref : Woken(d)
    <3>1. w.pc \notin Blocked
      BY <2>4 DEF Blocked
    <3>2. w.seen \in {call[c].seen, changes, 0} /\ w.ref \subseteq call[c].ref
      BY <2>1, Zenon
    <3> QED
      BY <3>1, <3>2, KnowsStill, SMTT(30)
  <2> QED
    BY <2>2, <2>3, <2>5, <2>6, Zenon DEF Speaks
<1> QED
  BY <1>1, <1>2, <1>3, Zenon DEF Barrier

\* The idle client wakes the round of the permit that it revokes.
LEMMA RevokedSpeaks ==
  ASSUME IInv, HeardInv, NEW c \in Call, Revoked(c)
  PROVE  Speaks(c)
<1> DEFINE k == [tok[c] EXCEPT !.woken = @ \cup {task[c].gen}]
<1>0. tok[c] \in Tokens
  BY OneWait
<1>1. /\ k.entered = tok[c].entered /\ k.wake = tok[c].wake /\ k.held = tok[c].held
      /\ k.cur = tok[c].cur /\ k.woken = tok[c].woken \cup {task[c].gen}
      /\ k.completed = tok[c].completed /\ k.failed = tok[c].failed
  BY <1>0, Zenon DEF Tokens
<1>2. tok' = [tok EXCEPT ![c] = k] /\ call' = [call EXCEPT ![c] = call[c]]
  BY Zenon DEF Revoked, IInv, TypeOK
<1> HIDE DEF k
<1>3. Heard(k, task[c], call[c])
  <2>1. Heard(tok[c], task[c], call[c])
    BY OneHeard, Zenon
  <2> QED
    BY <1>1, <2>1, Zenon DEF Heard
<1>4. tok[c].woken \subseteq k.woken
  BY <1>1, Zenon
<1> QED
  BY <1>1, <1>2, <1>3, <1>4, OneHeard, Zenon DEF Speaks

\* Every step of a caller but its reservation.
LEMMA CallerSpeaks ==
  ASSUME IInv, HeardInv, NEW c \in Call, Request(c) \/ Deliver(c) \/ Revoked(c)
  PROVE  \/ Reserve(c) \/ Overlap(c)
         \/ Speaks(c) /\ UNCHANGED <<execution, own, changes, task>> /\ active' \subseteq active
<1>1. CASE Enter(c) \/ BeforeBatch(c) \/ BeforeDelivery(c) \/ AfterBatch(c) \/ PassiveDelivery(c)
  BY <1>1, EnterSpeaks, BeforeBatchSpeaks, BeforeDeliverySpeaks, AfterBatchSpeaks,
     PassiveDeliverySpeaks, Zenon
     DEF Enter, BeforeBatch, BeforeDelivery, AfterBatch, PassiveDelivery
<1>2. CASE GiveUp(c) \/ Cleaned(c) \/ PassiveCleaned(c) \/ Unblock(c) \/ Revoked(c)
  BY <1>2, DropsSpeaks, CleanedSpeaks, PassiveCleanedSpeaks, UnblockSpeaks, RevokedSpeaks, Zenon
     DEF GiveUp, Cleaned, PassiveCleaned, Unblock, Revoked
<1>3. CASE Barrier(c)
  <2>1. active' = active \/ active' = active \ {c}
    BY <1>3, Zenon DEF Barrier, Passes
  <2>2. active' \subseteq active
    BY <2>1, Zenon
  <2> QED
    BY <1>3, <2>2, BarrierSpeaks, Zenon DEF Barrier
<1> QED
  BY <1>1, <1>2, <1>3, Zenon DEF Request, Deliver

\* A caller's step keeps every wait heard.
LEMMA SpeaksHeard ==
  ASSUME IInv, HeardInv, NEW c \in Call, c \in policy.calls, Speaks(c),
         UNCHANGED <<policy, execution, own, changes, task>>, active' \subseteq active
  PROVE  HeardInv'
<1>1. PICK k, w : /\ tok' = [tok EXCEPT ![c] = k] /\ call' = [call EXCEPT ![c] = w]
                  /\ Heard(k, task[c], w) /\ Informed(w) /\ \A d \in w.ref : Woken(d)
                  /\ tok[c].wake => k.wake
  BY Zenon DEF Speaks
<1>2. \A d \in Call : /\ tok'[d] = IF d = c THEN k ELSE tok[d]
                      /\ call'[d] = IF d = c THEN w ELSE call[d]
  BY <1>1, Zenon DEF IInv, TypeOK
<1>3. /\ policy' = policy /\ changes' = changes /\ own' = own /\ task' = task
      /\ cancelled' = cancelled
  BY DEF execution
<1>4. ASSUME NEW d, Woken(d) PROVE Woken(d)'
  BY <1>1, <1>2, <1>3, <1>4, Zenon DEF Woken
<1>5. ASSUME NEW d \in Call
      PROVE  /\ Heard(tok'[d], task'[d], call'[d]) /\ Informed(call[d])'
             /\ \A e \in call'[d].ref : Woken(e)
  <2>1. CASE d = c
    BY <1>1, <1>2, <1>3, <2>1, Zenon DEF Informed
  <2>2. CASE d # c
    <3>1. tok'[d] = tok[d] /\ call'[d] = call[d] /\ task'[d] = task[d]
      BY <1>2, <1>3, <2>2, Zenon
    <3> QED
      BY <1>3, <3>1, OneHeard, Zenon DEF Informed
  <2> QED
    BY <2>1, <2>2, Zenon
<1>6. ASSUME NEW d \in Call, d \notin policy'.calls
      PROVE  call'[d].pc = "new" /\ task'[d].pc = "none"
  BY <1>2, <1>3, <1>6, Zenon DEF HeardInv
<1>7. \A d \in active' : task'[d].pc # "none"
  BY <1>3, Zenon DEF HeardInv
<1> QED
  BY <1>4, <1>5, <1>6, <1>7, Zenon DEF HeardInv

\* A wait that takes the slot has not been told anything, and nobody waits for it.
LEMMA ReserveHeard ==
  ASSUME IInv, HeardInv, NEW c \in Call, c \in policy.calls, UNCHANGED policy, Reserve(c)
  PROVE  HeardInv'
<1> DEFINE k == NewTokens
           t == [task[c] EXCEPT !.pc = "reserved"]
           w == [call[c] EXCEPT !.pc = "reserved"]
<1>0. /\ call[c] \in Callers /\ task[c] \in WaitTasks /\ task[c].pc = "none"
      /\ task[c].gen = 1 /\ active' = {c}
      /\ policy' = policy /\ changes' = changes /\ own' = own /\ cancelled' = cancelled
  BY OneWait DEF Reserve, CallAt, Sound, Counted, execution
<1>1. k.cur = 1
  BY Zenon DEF NewTokens
<1>2. /\ t.pc = "reserved" /\ t.gen = 1
      /\ w.pc = "reserved" /\ w.seen = call[c].seen /\ w.ref = call[c].ref
  BY <1>0, Zenon DEF WaitTasks, Callers
<1>3. /\ call' = [call EXCEPT ![c] = w] /\ tok' = [tok EXCEPT ![c] = k]
      /\ task' = [task EXCEPT ![c] = t]
  BY ZenonT(60) DEF Reserve, CallGoto
<1> HIDE DEF k, t, w
<1>4. \A d \in Call : /\ call'[d] = IF d = c THEN w ELSE call[d]
                      /\ tok'[d] = IF d = c THEN k ELSE tok[d]
                      /\ task'[d] = IF d = c THEN t ELSE task[d]
  BY <1>3 DEF IInv, TypeOK
<1>5. Heard(k, t, w)
  BY <1>1, <1>2, ZenonT(60) DEF Heard, Batch, Over
<1>6. Informed(w) /\ \A d \in w.ref : Woken(d)
  <2>1. w.pc \notin Blocked
    BY <1>2, ZenonT(60) DEF Blocked
  <2>2. w.seen \in {call[c].seen, changes, 0} /\ w.ref \subseteq call[c].ref
    BY <1>2, Zenon
  <2> QED
    BY <2>1, <2>2, KnowsStill, SMTT(30)
<1>7. ASSUME NEW d, Woken(d) PROVE Woken(d)'
  BY <1>0, <1>4, <1>7, ZenonT(60) DEF Woken
<1>8. ASSUME NEW d \in Call
      PROVE  /\ Heard(tok'[d], task'[d], call'[d]) /\ Informed(call[d])'
             /\ \A e \in call'[d].ref : Woken(e)
  <2>1. CASE d = c
    BY <1>0, <1>4, <1>5, <1>6, <2>1, Zenon DEF Informed
  <2>2. CASE d # c
    <3>1. tok'[d] = tok[d] /\ call'[d] = call[d] /\ task'[d] = task[d]
      BY <1>4, <2>2, Zenon
    <3> QED
      BY <1>0, <3>1, OneHeard, Zenon DEF Informed
  <2> QED
    BY <2>1, <2>2
<1>9. ASSUME NEW d \in Call, d \notin policy'.calls
      PROVE  call'[d].pc = "new" /\ task'[d].pc = "none"
  BY <1>0, <1>4, <1>9, ZenonT(60) DEF HeardInv
<1>10. \A d \in active' : task'[d].pc # "none"
  BY <1>0, <1>2, <1>4
<1> QED
  BY <1>7, <1>8, <1>9, <1>10, Zenon DEF HeardInv

\* Waking the wait in the slot takes nothing back that a wait was told.
LEMMA WakesHeard ==
  ASSUME IInv, NEW d \in Call,
         tok' = [e \in Call |-> IF e \in active THEN [tok[e] EXCEPT !.wake = TRUE] ELSE tok[e]]
  PROVE  /\ tok[d].wake => tok'[d].wake
         /\ tok'[d].entered = tok[d].entered /\ tok'[d].held = tok[d].held
         /\ tok'[d].cur = tok[d].cur /\ tok'[d].woken = tok[d].woken
         /\ tok'[d].completed = tok[d].completed /\ tok'[d].failed = tok[d].failed
<1>1. tok[d] \in Tokens
  BY OneWait
<1>2. tok'[d] = IF d \in active THEN [tok[d] EXCEPT !.wake = TRUE] ELSE tok[d]
  BY Zenon
<1>3. /\ [tok[d] EXCEPT !.wake = TRUE].wake
      /\ [tok[d] EXCEPT !.wake = TRUE].entered = tok[d].entered
      /\ [tok[d] EXCEPT !.wake = TRUE].held = tok[d].held
      /\ [tok[d] EXCEPT !.wake = TRUE].cur = tok[d].cur
      /\ [tok[d] EXCEPT !.wake = TRUE].woken = tok[d].woken
      /\ [tok[d] EXCEPT !.wake = TRUE].completed = tok[d].completed
      /\ [tok[d] EXCEPT !.wake = TRUE].failed = tok[d].failed
  BY <1>1, Zenon DEF Tokens
<1> QED
  BY <1>2, <1>3, Zenon

\* A step that leaves the tasks and the slot alone, and may wake waits.
LEMMA WokenHeard ==
  ASSUME IInv, HeardInv, UNCHANGED <<policy, active, task>>, cancelled => cancelled',
         \A d \in Call : /\ tok[d].wake => tok'[d].wake
                         /\ tok'[d].entered = tok[d].entered /\ tok'[d].held = tok[d].held
                         /\ tok'[d].cur = tok[d].cur /\ tok'[d].woken = tok[d].woken
                         /\ tok'[d].completed = tok[d].completed
                         /\ tok'[d].failed = tok[d].failed,
         \A d \in Call : Informed(call[d])' /\ call'[d].ref = call[d].ref,
         \A d \in Call : \/ call'[d].pc = call[d].pc
                         \/ d \in policy.calls /\ call'[d].pc = "passive"
  PROVE  HeardInv'
<1>1. ASSUME NEW d \in Call PROVE Heard(tok'[d], task'[d], call'[d])
  <2>1. Heard(tok[d], task[d], call[d])
    BY OneHeard, Zenon
  <2>2. Heard(tok'[d], task[d], call[d])
    BY <2>1, Zenon DEF Heard
  <2>3. CASE call'[d].pc = call[d].pc
    BY <2>2, <2>3, Zenon DEF Heard
  <2>4. CASE call'[d].pc = "passive"
    BY <2>2, <2>4, Zenon DEF Heard, Batch
  <2> QED
    BY <2>3, <2>4, Zenon
<1>2. ASSUME NEW d, Woken(d) PROVE Woken(d)'
  BY <1>2, Zenon DEF Woken
<1>3. ASSUME NEW d \in Call PROVE \A e \in call'[d].ref : Woken(e)'
  BY <1>2, OneHeard, Zenon
<1>4. ASSUME NEW d \in Call, d \notin policy'.calls
      PROVE  call'[d].pc = "new" /\ task'[d].pc = "none"
  BY <1>4, Zenon DEF HeardInv
<1>5. \A d \in active' : task'[d].pc # "none"
  BY Zenon DEF HeardInv
<1> QED
  BY <1>1, <1>3, <1>4, <1>5, Zenon DEF HeardInv

\* An overlap wakes the wait it finds before anybody awaits it.
LEMMA OverlapHeard ==
  ASSUME IInv, HeardInv, NEW c \in Call, c \in policy.calls, UNCHANGED policy, Overlap(c)
  PROVE  HeardInv'
<1> DEFINE w == [call[c] EXCEPT !.pc = "passive"]
<1>0. /\ call[c] \in Callers /\ changes' = changes /\ own' = own /\ cancelled' = cancelled
      /\ UNCHANGED <<policy, active, task>>
  BY OneWait DEF Overlap, execution
<1>1. w.pc = "passive" /\ w.seen = call[c].seen /\ w.ref = call[c].ref
  BY <1>0, Zenon DEF Callers
<1>2. call' = [call EXCEPT ![c] = w]
  BY Zenon DEF Overlap, CallGoto
<1> HIDE DEF w
<1>3. \A d \in Call : call'[d] = IF d = c THEN w ELSE call[d]
  BY <1>2, Zenon DEF IInv, TypeOK
<1>4. Informed(w)
  <2>1. w.pc \notin Blocked
    BY <1>1 DEF Blocked
  <2>2. w.seen \in {call[c].seen, changes, 0} /\ w.ref \subseteq call[c].ref
    BY <1>1, Zenon
  <2> QED
    BY <2>1, <2>2, KnowsStill, Zenon, Z3T(30)
<1>5. \A d \in Call : Informed(call[d])' /\ call'[d].ref = call[d].ref
  BY <1>0, <1>1, <1>3, <1>4, OneHeard, Zenon DEF Informed
<1>6. \A d \in Call : \/ call'[d].pc = call[d].pc
                      \/ d \in policy.calls /\ call'[d].pc = "passive"
  BY <1>1, <1>3, Zenon
<1>7. tok' = [e \in Call |-> IF e \in active THEN [tok[e] EXCEPT !.wake = TRUE] ELSE tok[e]]
  BY Zenon DEF Overlap
<1> QED
  BY <1>0, <1>5, <1>6, <1>7, WakesHeard, WokenHeard, Zenon

\* The claim of a human blocks callers that have seen the last change.
LEMMA ManualBeginsHeard ==
  ASSUME IInv, HeardInv, NEW k \in Manual, UNCHANGED policy, ManualBegins(k)
  PROVE  HeardInv'
<1>1. /\ UNCHANGED <<policy, active, task, call>> /\ cancelled' = cancelled
      /\ changes' = changes
  BY DEF ManualBegins, execution
<1>2. tok' = [e \in Call |-> IF e \in active THEN [tok[e] EXCEPT !.wake = TRUE] ELSE tok[e]]
  BY Zenon DEF ManualBegins
<1>3. own.manual => own'.manual
  BY DEF ManualBegins, IInv, TypeOK
<1>4. \A d \in Call : Informed(call[d])' /\ call'[d].ref = call[d].ref
  BY <1>1, <1>3, OneHeard, Zenon DEF Informed
<1>5. \A d \in Call : call'[d].pc = call[d].pc
  BY <1>1, Zenon
<1> QED
  BY <1>1, <1>2, <1>4, <1>5, WakesHeard, WokenHeard, Zenon

\* Whoever a pause has blocked hears of the end of every manual control.
LEMMA ManualEndsHeard ==
  ASSUME IInv, HeardInv, NEW res \in Results, UNCHANGED policy, ManualEnds(res)
  PROVE  HeardInv'
<1>1. UNCHANGED <<policy, active, task, call, tok>> /\ changes' = changes + 1
  BY Zenon DEF ManualEnds
<1>2. cancelled => cancelled'
  BY DEF ManualEnds, Exchange
<1>3. ASSUME NEW d \in Call PROVE Informed(call[d])' /\ call'[d].ref = call[d].ref
  <2>1. call[d].seen \in Nat /\ changes \in Nat /\ call[d].seen <= changes
    <3>1. call[d] \in Callers /\ changes \in Nat
      BY OneWait DEF IInv, TypeOK
    <3>2. call[d].seen \in Nat
      BY <3>1, Zenon DEF Callers
    <3> QED
      BY <3>1, <3>2, OneHeard, Zenon DEF Informed
  <2>2. call[d].seen <= changes + 1 /\ changes + 1 > call[d].seen
    BY <2>1
  <2> QED
    BY <1>1, <2>2, Zenon DEF Informed
<1>4. \A d \in Call : call'[d].pc = call[d].pc
  BY <1>1, Zenon
<1> QED
  BY <1>1, <1>2, <1>3, <1>4, WokenHeard, Zenon

\* Steps of the Execution tell no wait less than before.
LEMMA ExecutionHeard ==
  ASSUME IInv, HeardInv, UNCHANGED policy,
         Ready \/ ExecutionEnds \/ Cancel \/ MonitorTermination
  PROVE  HeardInv'
<1>1. UNCHANGED <<policy, active, task, call, tok, changes, own>> /\ (cancelled => cancelled')
  BY DEF Ready, ExecutionEnds, Cancel, MonitorTermination
<1>2. \A d \in Call : Informed(call[d])' /\ call'[d].ref = call[d].ref
  BY <1>1, OneHeard, Zenon DEF Informed
<1>3. \A d \in Call : call'[d].pc = call[d].pc
  BY <1>1, Zenon
<1> QED
  BY <1>1, <1>2, <1>3, WokenHeard, Zenon

\* A step of a wait task: it takes nothing back that it was told, and after it was told
\* it starts no other round and moves towards its end.
Turns(c) ==
    \E k, t :
        /\ tok' = [tok EXCEPT ![c] = k] /\ task' = [task EXCEPT ![c] = t]
        /\ Heard(k, t, call[c]) /\ t.pc # "none"
        /\ k.wake = tok[c].wake /\ k.held = tok[c].held /\ tok[c].woken \subseteq k.woken
        /\ Told(c) => k.cur = tok[c].cur /\ Rank(t.pc) < Rank(task[c].pc)

\* The steps of a round go down.
LEMMA Ranks ==
  /\ Rank("reserved") = 16 /\ Rank("rearming") = 15 /\ Rank("grace") = 14
  /\ Rank("permit") = 13 /\ Rank("granted") = 12 /\ Rank("pausing") = 11
  /\ Rank("paused") = 10 /\ Rank("offloading") = 9 /\ Rank("parked") = 8
  /\ Rank("revoking") = 7 /\ Rank("settled") = 6 /\ Rank("releasing") = 5
  /\ Rank("resuming") = 4 /\ Rank("failing") = 3 /\ Rank("reporting") = 2
  /\ Rank("resting") = 2 /\ Rank("completed") = 1 /\ Rank("cleared") = 0
BY DEF Rank

\* A step within a round, or into its failure.
LEMMA RoundTurns ==
  ASSUME IInv, HeardInv, NEW c \in Call, NEW k, NEW t,
         tok' = [tok EXCEPT ![c] = k], task' = [task EXCEPT ![c] = t],
         k.wake = tok[c].wake, k.held = tok[c].held, k.entered = tok[c].entered,
         k.cur = tok[c].cur, k.completed = tok[c].completed, k.failed = tok[c].failed,
         tok[c].woken \subseteq k.woken, t.gen = task[c].gen,
         t.pc \notin {"none", "resting", "reporting", "rearming"} \cup Over,
         \/ t.pc = "failing"
         \/ task[c].pc \notin {"rearming", "failing", "reporting"} \cup Over,
         Rank(t.pc) < Rank(task[c].pc)
  PROVE  Turns(c)
<1>1. Heard(tok[c], task[c], call[c])
  BY OneHeard
<1>2. Heard(k, t, call[c])
  BY <1>1, Zenon DEF Heard
<1> QED
  BY <1>2, ZenonT(60) DEF Turns

\* A step within a round that only moves the task on.
LEMMA GotoTurns ==
  ASSUME IInv, HeardInv, NEW c \in Call, NEW pc, TaskGoto(c, pc), UNCHANGED tok,
         pc \notin {"none", "resting", "reporting", "rearming"} \cup Over,
         task[c].pc \notin {"rearming", "failing", "reporting"} \cup Over,
         Rank(pc) < Rank(task[c].pc)
  PROVE  Turns(c)
<1> DEFINE t == [task[c] EXCEPT !.pc = pc]
<1>1. t.pc = pc /\ t.gen = task[c].gen
  BY OneWait, Zenon DEF WaitTasks
<1>2. tok' = [tok EXCEPT ![c] = tok[c]] /\ task' = [task EXCEPT ![c] = t]
  BY Zenon DEF TaskGoto, IInv, TypeOK
<1> HIDE DEF t
<1> QED
  BY <1>1, <1>2, RoundTurns, Zenon

\* The same with a result of the round.
LEMMA ResultTurns ==
  ASSUME IInv, HeardInv, NEW c \in Call, NEW pc, NEW err, UNCHANGED tok,
         task' = [task EXCEPT ![c].pc = pc, ![c].err = err],
         pc \notin {"none", "resting", "reporting", "rearming"} \cup Over,
         \/ pc = "failing"
         \/ task[c].pc \notin {"rearming", "failing", "reporting"} \cup Over,
         Rank(pc) < Rank(task[c].pc)
  PROVE  Turns(c)
<1> DEFINE t == [task[c] EXCEPT !.pc = pc, !.err = err]
<1>1. t.pc = pc /\ t.gen = task[c].gen
  BY OneWait, Zenon DEF WaitTasks
<1>2. tok' = [tok EXCEPT ![c] = tok[c]] /\ task' = [task EXCEPT ![c] = t]
  BY Zenon DEF IInv, TypeOK
<1> HIDE DEF t
<1> QED
  BY <1>1, <1>2, RoundTurns, Zenon

\* Steps of the task within a round.
LEMMA MovesTurns ==
  ASSUME IInv, HeardInv, NEW c \in Call,
         Started(c) \/ Permit(c) \/ RoundEnds(c) \/ Pause(c) \/ OffloadDue(c)
  PROVE  Turns(c)
<1>1. PICK pc : /\ TaskGoto(c, pc) /\ UNCHANGED tok
                /\ \/ task[c].pc = "reserved" /\ pc = "grace"
                   \/ task[c].pc = "permit" /\ pc = "granted"
                   \/ task[c].pc \in {"grace", "permit", "paused", "parked"} /\ pc = "revoking"
                   \/ task[c].pc = "granted" /\ pc \in {"pausing", "revoking"}
                   \/ task[c].pc = "paused" /\ pc \in {"offloading", "parked"}
  BY Zenon DEF Started, Permit, RoundEnds, Pause, OffloadDue, TaskAt
<1>2. Rank(pc) < Rank(task[c].pc)
  BY <1>1, Ranks, SMTT(30)
<1>3. /\ pc \notin {"none", "resting", "reporting", "rearming"} \cup Over
      /\ task[c].pc \notin {"rearming", "failing", "reporting"} \cup Over
  BY <1>1 DEF Over
<1> QED
  BY <1>1, <1>2, <1>3, GotoTurns, ZenonT(60)

\* The end of the grace period.
LEMMA GraceTurns ==
  ASSUME IInv, HeardInv, NEW c \in Call, Grace(c)
  PROVE  Turns(c)
<1> DEFINE t == [task[c] EXCEPT !.pc = "permit", !.prepared = FALSE]
<1>0. task[c] \in WaitTasks /\ task[c].pc = "grace"
  BY OneWait DEF Grace, TaskAt
<1>1. t.pc = "permit" /\ t.gen = task[c].gen
  BY <1>0, Zenon DEF WaitTasks
<1>2. tok' = [tok EXCEPT ![c] = tok[c]] /\ task' = [task EXCEPT ![c] = t]
  BY Zenon DEF Grace, IInv, TypeOK
<1> HIDE DEF t
<1>3. Rank(t.pc) < Rank(task[c].pc)
  BY <1>0, <1>1, Ranks
<1>4. /\ t.pc \notin {"none", "resting", "reporting", "rearming"} \cup Over
      /\ task[c].pc \notin {"rearming", "failing", "reporting"} \cup Over
  BY <1>0, <1>1 DEF Over
<1> QED
  BY <1>1, <1>2, <1>3, <1>4, RoundTurns, Zenon

\* The round is revoked.
LEMMA SettleTurns ==
  ASSUME IInv, HeardInv, NEW c \in Call, Settle(c)
  PROVE  Turns(c)
<1>1. PICK err \in {task[c].err, "unknown"} :
        task' = [task EXCEPT ![c].pc = IF err = "none" THEN "settled" ELSE "failing",
                             ![c].err = err]
  BY Zenon DEF Settle
<1> DEFINE k == [tok[c] EXCEPT !.woken = @ \cup {task[c].gen}]
           t == [task[c] EXCEPT !.pc = IF err = "none" THEN "settled" ELSE "failing",
                                !.err = err]
<1>0. tok[c] \in Tokens /\ task[c] \in WaitTasks /\ task[c].pc = "revoking"
  BY OneWait DEF Settle, TaskAt
<1>2. /\ k.entered = tok[c].entered /\ k.wake = tok[c].wake /\ k.held = tok[c].held
      /\ k.cur = tok[c].cur /\ k.woken = tok[c].woken \cup {task[c].gen}
      /\ k.completed = tok[c].completed /\ k.failed = tok[c].failed
  BY <1>0, Zenon DEF Tokens
<1>3. t.gen = task[c].gen /\ t.pc = IF err = "none" THEN "settled" ELSE "failing"
  BY <1>0, Zenon DEF WaitTasks
<1>4. tok' = [tok EXCEPT ![c] = k]
  BY Zenon DEF Settle
<1>5. task' = [task EXCEPT ![c] = t]
  BY <1>1, Zenon
<1> HIDE DEF k, t
<1>6. t.pc \in {"settled", "failing"}
  BY <1>3, Zenon
<1>7. Rank(t.pc) < Rank(task[c].pc)
  BY <1>0, <1>6, Ranks
<1>8. /\ t.pc \notin {"none", "resting", "reporting", "rearming"} \cup Over
      /\ task[c].pc \notin {"rearming", "failing", "reporting"} \cup Over
  BY <1>0, <1>6 DEF Over
<1>9. tok[c].woken \subseteq k.woken
  BY <1>2, Zenon
<1> QED
  BY <1>2, <1>3, <1>4, <1>5, <1>7, <1>8, <1>9, RoundTurns, Zenon

\* The selected round is the one that is over.
LEMMA RoundOverTurns ==
  ASSUME IInv, HeardInv, NEW c \in Call, RoundOver(c), task[c].pc \in {"releasing", "resuming"}
  PROVE  Turns(c)
<1> DEFINE k == [tok[c] EXCEPT !.completed = task[c].gen]
           t == [task[c] EXCEPT !.pc = IF Rounds THEN "resting" ELSE "completed"]
<1>0. tok[c] \in Tokens /\ task[c] \in WaitTasks /\ task[c].gen \in Nat
  BY OneWait DEF WaitTasks
<1>1. /\ k.entered = tok[c].entered /\ k.wake = tok[c].wake /\ k.held = tok[c].held
      /\ k.cur = tok[c].cur /\ k.woken = tok[c].woken /\ k.completed = task[c].gen
      /\ k.failed = tok[c].failed
  BY <1>0, Zenon DEF Tokens
<1>2. t.pc = (IF Rounds THEN "resting" ELSE "completed") /\ t.gen = task[c].gen
  BY <1>0, Zenon DEF WaitTasks
<1>3. tok' = [tok EXCEPT ![c] = k] /\ task' = [task EXCEPT ![c] = t]
  BY Zenon DEF RoundOver, TaskGoto
<1> HIDE DEF k, t
<1>4. t.pc \in {"resting", "completed"}
  BY <1>2, Zenon
<1>5. tok[c].cur = task[c].gen
  <2>1. Heard(tok[c], task[c], call[c])
    BY OneHeard, ZenonT(60)
  <2> QED
    BY <2>1, SMTT(30) DEF Heard, Over
<1>6. Heard(k, t, call[c])
  <2>1. Heard(tok[c], task[c], call[c])
    BY OneHeard, Zenon
  <2> QED
    <3>1. task[c].gen >= task[c].gen
      BY <1>0
    <3>2. k.cur = t.gen /\ k.completed = t.gen /\ k.completed >= k.cur
      BY <1>1, <1>2, <1>5, <3>1, Zenon
    <3> QED
      BY <1>1, <1>4, <2>1, <3>2, Zenon DEF Heard
<1>7. Rank(t.pc) < Rank(task[c].pc)
  BY <1>4, Ranks
<1>8. t.pc # "none"
  BY <1>4, Zenon
<1> QED
  BY <1>1, <1>3, <1>6, <1>7, <1>8, Zenon DEF Turns

\* A round that failed.
LEMMA RoundErrsTurns ==
  ASSUME IInv, HeardInv, NEW c \in Call, NEW err, RoundErrs(c, err),
         task[c].pc \in {"releasing", "resuming", "rearming"}
  PROVE  Turns(c)
<1>1. Rank("failing") < Rank(task[c].pc)
  BY Ranks
<1>2. "failing" \notin {"none", "resting", "reporting", "rearming"} \cup Over
  BY DEF Over
<1> QED
  BY <1>1, <1>2, ResultTurns, Zenon DEF RoundErrs

\* The claim is released.
LEMMA ReleaseTurns ==
  ASSUME IInv, HeardInv, NEW c \in Call, Release(c)
  PROVE  Turns(c)
<1>1. task[c].pc = "releasing"
  BY Zenon DEF Release, TaskAt
<1>2. CASE RoundOver(c)
  BY <1>1, <1>2, RoundOverTurns, Zenon
<1>3. CASE RoundErrs(c, "unknown")
  BY <1>1, <1>3, RoundErrsTurns
<1>4. CASE TaskGoto(c, "resuming") /\ UNCHANGED tok
  <2>1. Rank("resuming") < Rank(task[c].pc)
    BY <1>1, Ranks
  <2>2. /\ "resuming" \notin {"none", "resting", "reporting", "rearming"} \cup Over
        /\ task[c].pc \notin {"rearming", "failing", "reporting"} \cup Over
    BY <1>1 DEF Over
  <2> QED
    BY <1>4, <2>1, <2>2, GotoTurns, Zenon
<1> QED
  BY <1>2, <1>3, <1>4, Zenon DEF Release

\* The next round begins only for a wait that was not told, and that no batch holds.
LEMMA ResumeNextTurns ==
  ASSUME IInv, HeardInv, NEW c \in Call, ResumeNext(c)
  PROVE  Turns(c)
<1>0. tok[c] \in Tokens /\ task[c] \in WaitTasks /\ task[c].pc = "settled"
  BY OneWait DEF ResumeNext, TaskAt
<1>1. CASE TaskGoto(c, "releasing") /\ UNCHANGED tok
  <2>1. Rank("releasing") < Rank(task[c].pc)
    BY <1>0, Ranks
  <2>2. /\ "releasing" \notin {"none", "resting", "reporting", "rearming"} \cup Over
        /\ task[c].pc \notin {"rearming", "failing", "reporting"} \cup Over
    BY <1>0 DEF Over
  <2> QED
    BY <1>1, <2>1, <2>2, GotoTurns, Zenon
<1>2. CASE /\ ~tok[c].wake /\ ~cancelled /\ ~tok[c].held
           /\ tok' = [tok EXCEPT ![c].cur = task[c].gen + 1] /\ TaskGoto(c, "rearming")
  <2> DEFINE k == [tok[c] EXCEPT !.cur = task[c].gen + 1]
             t == [task[c] EXCEPT !.pc = "rearming"]
  <2>1. /\ k.entered = tok[c].entered /\ k.wake = tok[c].wake /\ k.held = tok[c].held
        /\ k.woken = tok[c].woken /\ k.completed = tok[c].completed /\ k.failed = tok[c].failed
    BY <1>0, Zenon DEF Tokens
  <2>2. t.pc = "rearming" /\ t.gen = task[c].gen
    BY <1>0, Zenon DEF WaitTasks
  <2>3. tok' = [tok EXCEPT ![c] = k] /\ task' = [task EXCEPT ![c] = t]
    BY <1>2, Zenon DEF TaskGoto
  <2> HIDE DEF k, t
  <2>4. call[c].pc # "holding" /\ ~Told(c)
    BY <1>2, OneWait DEF Sound, Told
  <2>5. Heard(k, t, call[c])
    BY <2>1, <2>2, <2>4, OneHeard, Zenon DEF Heard, Over
  <2>6. t.pc # "none"
    BY <2>2
  <2> QED
    BY <2>1, <2>3, <2>4, <2>5, <2>6, Zenon DEF Turns
<1> QED
  BY <1>1, <1>2, Zenon DEF ResumeNext

\* The rest between two rounds ends with the wait or with the next round.
LEMMA RestTurns ==
  ASSUME IInv, HeardInv, NEW c \in Call, Rest(c)
  PROVE  Turns(c)
<1>0. /\ tok[c] \in Tokens /\ task[c] \in WaitTasks /\ task[c].pc = "resting"
      /\ task[c].gen \in Nat
  BY OneWait DEF Rest, TaskAt, WaitTasks
<1>1. CASE TaskGoto(c, "completed") /\ UNCHANGED tok
  <2> DEFINE t == [task[c] EXCEPT !.pc = "completed"]
  <2>1. t.pc = "completed" /\ t.gen = task[c].gen
    BY <1>0, Zenon DEF WaitTasks
  <2>2. tok' = [tok EXCEPT ![c] = tok[c]] /\ task' = [task EXCEPT ![c] = t]
    BY <1>1, Zenon DEF TaskGoto, IInv, TypeOK
  <2> HIDE DEF t
  <2>3. tok[c].completed = task[c].gen /\ tok[c].cur = task[c].gen
    BY <1>0, OneHeard, ZenonT(60) DEF Heard, Over
  <2>4. Heard(tok[c], t, call[c])
    <3>1. Heard(tok[c], task[c], call[c])
      BY OneHeard, Zenon
    <3> QED
      BY <1>0, <2>1, <2>3, <3>1, SMTT(30) DEF Heard, Over
  <2>5. Rank(t.pc) < Rank(task[c].pc) /\ t.pc # "none"
    BY <1>0, <2>1, Ranks
  <2> QED
    BY <2>2, <2>4, <2>5, Zenon DEF Turns
<1>2. CASE /\ ~tok[c].wake /\ ~cancelled /\ ~tok[c].held
           /\ tok' = [tok EXCEPT ![c].cur = task[c].gen + 1]
           /\ NextRound(c, task[c].gen + 1, FALSE)
  <2> DEFINE k == [tok[c] EXCEPT !.cur = task[c].gen + 1]
             t == [pc |-> "grace", gen |-> task[c].gen + 1, permit |-> FALSE,
                   prepared |-> FALSE, err |-> "none"]
  <2>1. /\ k.entered = tok[c].entered /\ k.wake = tok[c].wake /\ k.held = tok[c].held
        /\ k.woken = tok[c].woken /\ k.completed = tok[c].completed /\ k.failed = tok[c].failed
        /\ k.cur = task[c].gen + 1
    BY <1>0, Zenon DEF Tokens
  <2>2. t.pc = "grace" /\ t.gen = task[c].gen + 1
    BY Zenon
  <2>3. tok' = [tok EXCEPT ![c] = k] /\ task' = [task EXCEPT ![c] = t]
    BY <1>2, Zenon DEF NextRound
  <2> HIDE DEF k, t
  <2>4. call[c].pc # "holding" /\ ~Told(c)
    BY <1>2, OneWait DEF Sound, Told
  <2>5. Heard(k, t, call[c])
    BY <2>1, <2>2, <2>4, OneHeard, Zenon DEF Heard, Over
  <2>6. t.pc # "none"
    BY <2>2, Zenon
  <2> QED
    BY <2>1, <2>3, <2>4, <2>5, <2>6, Zenon DEF Turns
<1> QED
  BY <1>1, <1>2, Zenon DEF Rest

\* A failure is published before the task is over.
LEMMA FailureTurns ==
  ASSUME IInv, HeardInv, NEW c \in Call, RoundFails(c) \/ WaitFailed(c)
  PROVE  Turns(c)
<1>0. tok[c] \in Tokens /\ task[c] \in WaitTasks
  BY OneWait
<1>1. CASE RoundFails(c)
  <2> DEFINE k == [tok[c] EXCEPT !.failed = TRUE]
             t == [task[c] EXCEPT !.pc = "reporting"]
  <2>1. /\ k.entered = tok[c].entered /\ k.wake = tok[c].wake /\ k.held = tok[c].held
        /\ k.cur = tok[c].cur /\ k.woken = tok[c].woken /\ k.completed = tok[c].completed
        /\ k.failed
    BY <1>0, Zenon DEF Tokens
  <2>2. t.pc = "reporting" /\ t.gen = task[c].gen
    BY <1>0, Zenon DEF WaitTasks
  <2>3. tok' = [tok EXCEPT ![c] = k] /\ task' = [task EXCEPT ![c] = t]
    BY <1>1, Zenon DEF RoundFails, TaskGoto
  <2> HIDE DEF k, t
  <2>4. Heard(k, t, call[c])
    <3>1. Heard(tok[c], task[c], call[c])
      BY OneHeard, Zenon
    <3> QED
      BY <2>1, <2>2, <3>1, Zenon DEF Heard, Over
  <2>5. Rank(t.pc) < Rank(task[c].pc) /\ t.pc # "none"
    BY <1>1, <2>2, Ranks DEF RoundFails, TaskAt
  <2> QED
    BY <2>1, <2>3, <2>4, <2>5, Zenon DEF Turns
<1>2. CASE WaitFailed(c)
  <2> DEFINE t == [task[c] EXCEPT !.pc = "completed"]
  <2>1. t.pc = "completed" /\ t.gen = task[c].gen
    BY <1>0, Zenon DEF WaitTasks
  <2>2. tok' = [tok EXCEPT ![c] = tok[c]] /\ task' = [task EXCEPT ![c] = t]
    BY <1>2, Zenon DEF WaitFailed, TaskGoto, IInv, TypeOK
  <2> HIDE DEF t
  <2>3. task[c].pc = "reporting"
    BY <1>2, Zenon DEF WaitFailed, TaskAt
  <2>4. Heard(tok[c], t, call[c])
    <3>1. Heard(tok[c], task[c], call[c])
      BY OneHeard, Zenon
    <3> QED
      BY <2>1, <2>3, <3>1, Zenon DEF Heard, Over
  <2>5. Rank(t.pc) < Rank(task[c].pc) /\ t.pc # "none"
    BY <2>1, <2>3, Ranks
  <2> QED
    BY <2>2, <2>4, <2>5, Zenon DEF Turns
<1> QED
  BY <1>1, <1>2, Zenon

\* The slot is cleared.
LEMMA ClearTurns ==
  ASSUME IInv, HeardInv, NEW c \in Call, Clear(c)
  PROVE  Turns(c)
<1> DEFINE t == [NoTask EXCEPT !.pc = "cleared"]
<1>1. t.pc = "cleared"
  BY Zenon DEF NoTask
<1>2. tok' = [tok EXCEPT ![c] = tok[c]] /\ task' = [task EXCEPT ![c] = t]
  BY Zenon DEF Clear, IInv, TypeOK
<1> HIDE DEF t
<1>3. task[c].pc = "completed"
  BY DEF Clear, TaskAt
<1>4. Heard(tok[c], t, call[c])
  <2>1. Heard(tok[c], task[c], call[c])
    BY OneHeard, Zenon
  <2> QED
    BY <1>1, <1>3, <2>1, Zenon DEF Heard, Over
<1>5. Rank(t.pc) < Rank(task[c].pc) /\ t.pc # "none"
  BY <1>1, <1>3, Ranks
<1> QED
  BY <1>2, <1>4, <1>5, Zenon DEF Turns

\* The exchanges of a wait task.
LEMMA ExchangeTurns ==
  ASSUME IInv, HeardInv, NEW c \in Call, NEW res \in Results,
         Paused(c, res) \/ Offloaded(c, res) \/ Rearmed(c, res) \/ Resumed(c, res)
  PROVE  Turns(c)
<1>0. tok[c] \in Tokens /\ task[c] \in WaitTasks
  BY OneWait
<1>1. CASE Paused(c, res)
  <2>0. task[c].pc = "pausing"
    BY <1>1 DEF Paused, TaskAt
  <2>1. CASE task' = [task EXCEPT ![c].pc = "paused", ![c].permit = TRUE]
    <3> DEFINE t == [task[c] EXCEPT !.pc = "paused", !.permit = TRUE]
    <3>1. t.pc = "paused" /\ t.gen = task[c].gen
      BY <1>0, Zenon DEF WaitTasks
    <3>2. tok' = [tok EXCEPT ![c] = tok[c]] /\ task' = [task EXCEPT ![c] = t]
      BY <1>1, <2>1, Zenon DEF Paused, IInv, TypeOK
    <3> HIDE DEF t
    <3>3. Rank(t.pc) < Rank(task[c].pc)
      BY <2>0, <3>1, Ranks, Zenon, Z3T(30)
    <3>4. /\ t.pc \notin {"none", "resting", "reporting", "rearming"} \cup Over
          /\ task[c].pc \notin {"rearming", "failing", "reporting"} \cup Over
      BY <2>0, <3>1 DEF Over
    <3> QED
      BY <3>1, <3>2, <3>3, <3>4, RoundTurns, Zenon
  <2>2. CASE \E err : task' = [task EXCEPT ![c].pc = "revoking", ![c].err = err]
    <3>1. Rank("revoking") < Rank(task[c].pc)
      BY <2>0, Ranks
    <3>2. /\ "revoking" \notin {"none", "resting", "reporting", "rearming"} \cup Over
          /\ task[c].pc \notin {"rearming", "failing", "reporting"} \cup Over
      BY <2>0 DEF Over
    <3>3. UNCHANGED tok
      BY <1>1, Zenon DEF Paused
    <3> QED
      BY <2>2, <3>1, <3>2, <3>3, ResultTurns, Zenon
  <2> QED
    BY <1>1, <2>1, <2>2, Zenon DEF Paused
<1>2. CASE Offloaded(c, res)
  <2>0. task[c].pc = "offloading" /\ UNCHANGED tok
    BY <1>2 DEF Offloaded, TaskAt
  <2> DEFINE pc == IF Succeeds(res) THEN "parked" ELSE "revoking"
             err == IF Succeeds(res) THEN "none" ELSE Error(res)
  <2>1. pc \in {"parked", "revoking"} /\ task' = [task EXCEPT ![c].pc = pc, ![c].err = err]
    BY <1>2, Zenon DEF Offloaded
  <2> HIDE DEF pc, err
  <2>2. Rank(pc) < Rank(task[c].pc)
    BY <2>0, <2>1, Ranks
  <2>3. /\ pc \notin {"none", "resting", "reporting", "rearming"} \cup Over
        /\ task[c].pc \notin {"rearming", "failing", "reporting"} \cup Over
    BY <2>0, <2>1 DEF Over
  <2> QED
    BY <2>0, <2>1, <2>2, <2>3, ResultTurns, Zenon
<1>3. CASE Rearmed(c, res)
  <2>0. task[c].pc = "rearming"
    BY <1>3 DEF Rearmed, TaskAt
  <2>1. CASE /\ tok' = [tok EXCEPT ![c].completed = task[c].gen]
             /\ NextRound(c, task[c].gen + 1, TRUE)
    <3> DEFINE k == [tok[c] EXCEPT !.completed = task[c].gen]
               t == [pc |-> "grace", gen |-> task[c].gen + 1, permit |-> FALSE,
                     prepared |-> TRUE, err |-> "none"]
    <3>1. /\ k.entered = tok[c].entered /\ k.wake = tok[c].wake /\ k.held = tok[c].held
          /\ k.cur = tok[c].cur /\ k.woken = tok[c].woken /\ k.failed = tok[c].failed
      BY <1>0, Zenon DEF Tokens
    <3>2. t.pc = "grace" /\ t.gen = task[c].gen + 1
      BY Zenon
    <3>3. tok' = [tok EXCEPT ![c] = k] /\ task' = [task EXCEPT ![c] = t]
      BY <2>1, Zenon DEF NextRound
    <3> HIDE DEF k, t
    <3>4. tok[c].cur = task[c].gen + 1
      BY <2>0, OneWait, Zenon DEF Sound
    <3>5. Heard(k, t, call[c])
      BY <3>1, <3>2, <3>4, OneHeard, ZenonT(60) DEF Heard, Over
    <3>6. Rank(t.pc) < Rank(task[c].pc) /\ t.pc # "none"
      BY <2>0, <3>2, Ranks, Zenon, Z3T(30)
    <3> QED
      BY <3>1, <3>3, <3>5, <3>6, Zenon DEF Turns
  <2>2. CASE RoundErrs(c, Error(res))
    BY <2>0, <2>2, RoundErrsTurns
  <2> QED
    BY <1>3, <2>1, <2>2, Zenon DEF Rearmed, RoundErrs
<1>4. CASE Resumed(c, res)
  <2>0. task[c].pc = "resuming"
    BY <1>4, Zenon DEF Resumed, TaskAt
  <2>1. CASE RoundOver(c)
    BY <2>0, <2>1, RoundOverTurns
  <2>2. CASE \E err : RoundErrs(c, err)
    BY <2>0, <2>2, RoundErrsTurns, Zenon
  <2> QED
    BY <1>4, <2>1, <2>2, Zenon DEF Resumed
<1> QED
  BY <1>1, <1>2, <1>3, <1>4, Zenon

\* Every step of a wait task.
LEMMA WaitTurns ==
  ASSUME IInv, HeardInv, NEW c \in Call, Wait(c)
  PROVE  /\ Turns(c) /\ changes' = changes /\ call' = call /\ own'.manual = own.manual
         /\ cancelled => cancelled'
         /\ active' \subseteq active
<1>0. own \in [manual : BOOLEAN, automatic : SUBSET Call]
  BY Zenon DEF IInv, TypeOK
<1>1. CASE Started(c) \/ Permit(c) \/ RoundEnds(c) \/ Pause(c) \/ OffloadDue(c) \/ Grace(c)
  <2>1. UNCHANGED <<cancelled, own, changes, active, call>>
    BY <1>1, Zenon DEF Started, Permit, RoundEnds, Pause, OffloadDue, Grace, execution
  <2> QED
    BY <1>1, <2>1, MovesTurns, GraceTurns
<1>2. CASE Settle(c) \/ ResumeNext(c) \/ Release(c) \/ RoundFails(c) \/ Rest(c)
  <2>1. UNCHANGED <<cancelled, own, changes, active, call>>
    BY <1>2, Zenon DEF Settle, ResumeNext, Release, RoundFails, Rest, execution
  <2> QED
    BY <1>2, <2>1, SettleTurns, ResumeNextTurns, ReleaseTurns, FailureTurns, RestTurns
<1>3. CASE WaitFailed(c)
  <2>1. UNCHANGED <<own, changes, active, call>> /\ (cancelled => cancelled')
    BY <1>3, Zenon DEF WaitFailed
  <2> QED
    BY <1>3, <2>1, FailureTurns
<1>4. CASE Clear(c)
  <2>1. UNCHANGED <<cancelled, own, changes, call>> /\ active' \subseteq active
    BY <1>4, Zenon DEF Clear, execution
  <2> QED
    BY <1>4, <2>1, ClearTurns
<1>5. ASSUME NEW res \in Results,
             Paused(c, res) \/ Offloaded(c, res) \/ Rearmed(c, res) \/ Resumed(c, res)
      PROVE  /\ Turns(c) /\ changes' = changes /\ call' = call /\ own'.manual = own.manual
             /\ cancelled => cancelled'
             /\ active' \subseteq active
  <2>1. UNCHANGED <<changes, active, call>>
    BY <1>5, Zenon DEF Paused, Offloaded, Rearmed, Resumed
  <2>2. cancelled => cancelled'
    BY <1>5, Zenon DEF Paused, Offloaded, Rearmed, Resumed, Exchange
  <2>3. \/ own' = own \/ own' = [own EXCEPT !.automatic = {c}]
        \/ own' = [own EXCEPT !.automatic = {}]
    BY <1>5, Zenon DEF Paused, Offloaded, Rearmed, Resumed
  <2>4. own'.manual = own.manual
    BY <1>0, <2>3
  <2> QED
    BY <1>5, <2>1, <2>2, <2>4, ExchangeTurns
<1> QED
  BY <1>1, <1>2, <1>3, <1>4, <1>5, Zenon DEF Wait

\* A task's step keeps every wait heard.
LEMMA TurnsHeard ==
  ASSUME IInv, HeardInv, NEW c \in Call, c \in policy.calls, Turns(c), UNCHANGED policy,
         changes' = changes, call' = call, own'.manual = own.manual, cancelled => cancelled',
         active' \subseteq active
  PROVE  HeardInv'
<1>1. PICK k, t : /\ tok' = [tok EXCEPT ![c] = k] /\ task' = [task EXCEPT ![c] = t]
                  /\ Heard(k, t, call[c]) /\ t.pc # "none" /\ k.wake = tok[c].wake
  BY Zenon DEF Turns
<1>2. \A d \in Call : /\ tok'[d] = IF d = c THEN k ELSE tok[d]
                      /\ task'[d] = IF d = c THEN t ELSE task[d]
  BY <1>1, ZenonT(60) DEF IInv, TypeOK
<1>3. ASSUME NEW d, Woken(d) PROVE Woken(d)'
  BY <1>1, <1>2, <1>3, Zenon DEF Woken
<1>4. ASSUME NEW d \in Call
      PROVE  /\ Heard(tok'[d], task'[d], call'[d]) /\ Informed(call[d])'
             /\ \A e \in call'[d].ref : Woken(e)'
  <2>1. Heard(tok'[d], task'[d], call'[d])
    <3>1. CASE d = c
      BY <1>1, <1>2, <3>1, Zenon
    <3>2. CASE d # c
      <4>1. tok'[d] = tok[d] /\ task'[d] = task[d]
        BY <1>2, <3>2, Zenon
      <4> QED
        BY <4>1, OneHeard, Zenon
    <3> QED
      BY <3>1, <3>2, ZenonT(60)
  <2>2. Informed(call[d])'
    BY OneHeard, Zenon DEF Informed
  <2>3. \A e \in call'[d].ref : Woken(e)'
    BY <1>3, OneHeard, Zenon
  <2> QED
    BY <2>1, <2>2, <2>3, Zenon
<1>5. ASSUME NEW d \in Call, d \notin policy'.calls
      PROVE  call'[d].pc = "new" /\ task'[d].pc = "none"
  BY <1>2, <1>5, ZenonT(60) DEF HeardInv
<1>6. ASSUME NEW d \in active' PROVE task'[d].pc # "none"
  <2>1. d \in active /\ d \in Call
    BY <1>6, Zenon DEF IInv, TypeOK
  <2>2. task[d].pc # "none"
    BY <2>1, Zenon DEF HeardInv
  <2>3. task'[d] = t \/ task'[d] = task[d]
    BY <1>2, <2>1, Zenon
  <2> QED
    BY <1>1, <2>2, <2>3
<1> QED
  BY <1>4, <1>5, <1>6, Zenon DEF HeardInv

\* Nobody waits at the start.
LEMMA InitHeard == Init => HeardInv
<1> SUFFICES ASSUME Init PROVE HeardInv
  OBVIOUS
<1>1. ASSUME NEW c \in Call
      PROVE  /\ Heard(tok[c], task[c], call[c]) /\ Informed(call[c])
             /\ \A d \in call[c].ref : Woken(d)
             /\ call[c].pc = "new" /\ task[c].pc = "none"
  <2>1. /\ tok[c].cur = 1 /\ task[c].gen = 1 /\ task[c].pc = "none" /\ call[c].pc = "new"
        /\ call[c].seen = 0 /\ call[c].ref = {} /\ changes = 0
    BY Zenon DEF Init, NewTokens, NoTask, NewCall
  <2>2. Heard(tok[c], task[c], call[c])
    BY <2>1, Zenon DEF Heard, Over, Batch
  <2>3. Informed(call[c])
    BY <2>1 DEF Informed, Blocked
  <2> QED
    BY <2>1, <2>2, <2>3, Zenon
<1>2. active = {}
  BY DEF Init
<1> QED
  BY <1>1, <1>2, ZenonT(60) DEF HeardInv

\* Every step keeps the wakes.
LEMMA NextHeard ==
  ASSUME IInv, HeardInv, [Next]_<<policy, vars>>
  PROVE  HeardInv'
<1>1. CASE UNCHANGED <<policy, vars>>
  BY <1>1, ZenonT(60) DEF vars, execution, HeardInv, Heard, Informed, Woken
<1>2. CASE Next
  <2>0. policy' = policy /\ policy.calls \subseteq Call
    BY <1>2, PoliciesAssumption DEF Next, IInv, TypeOK
  <2>1. ASSUME NEW c \in policy.calls, Request(c) \/ Deliver(c) \/ Revoked(c)
        PROVE  HeardInv'
    <3>0. c \in Call
      BY <2>0, Zenon
    <3> QED
      BY <2>0, <2>1, <3>0, CallerSpeaks, SpeaksHeard, ReserveHeard, OverlapHeard, Zenon
  <2>2. ASSUME NEW c \in policy.calls, Wait(c) PROVE HeardInv'
    <3>0. c \in Call
      BY <2>0, Zenon
    <3> QED
      BY <2>0, <2>2, <3>0, WaitTurns, TurnsHeard, Zenon
  <2>3. ASSUME NEW k \in Manual, ManualBegins(k) PROVE HeardInv'
    BY <2>0, <2>3, ManualBeginsHeard
  <2>4. ASSUME NEW res \in Results, ManualEnds(res) PROVE HeardInv'
    BY <2>0, <2>4, ManualEndsHeard
  <2> QED
    BY <1>2, <2>0, <2>1, <2>2, <2>3, <2>4, ExecutionHeard, Zenon DEF Next
<1> QED
  BY <1>1, <1>2

\* Every wait of the coordinator was told to whom it waits for: a caller that holds a
\* batch has woken the round the task is in, one that delivers has woken the wait, the
\* wait that a counted caller awaits was woken by the overlap, and a caller that a pause
\* blocks has not missed its end.
THEOREM WakesAreHeard == Spec => []HeardInv
<1>1. IInv /\ HeardInv /\ [Next]_<<policy, vars>> => HeardInv'
  BY NextHeard, Zenon
<1> QED
  BY <1>1, InitHeard, Invariant, PTL DEF Spec

\* Whoever holds the lock is inside an exchange.
LEMMA LockedExchanging ==
  ASSUME IInv, HeardInv, Locked
  PROVE  Exchanging
<1>1. ASSUME NEW c \in Call, task[c].pc \in Inside PROVE c \in policy.calls
  BY <1>1 DEF HeardInv, Inside
<1> QED
  BY <1>1, Zenon DEF Locked, Exchanging, Inside

\* A wait that was told goes on, unless an exchange holds the lock.
LEMMA ToldGoesOn ==
  ASSUME IInv, HeardInv, NEW c \in Call, Told(c), task[c].pc \notin Over \cup {"none"},
         task[c].pc = "resting" => tok[c].wake \/ cancelled,
         task[c].pc = "reserved" => tok[c].wake \/ cancelled \/ tok[c].entered
  PROVE  CanWait(c) \/ Exchanging
<1>0. c \in policy.calls /\ task[c].pc \in TaskPcs
  BY OneWait, Zenon DEF HeardInv, WaitTasks
<1>1. task[c].pc \in {"paused", "parked"} => Awake(c)
  <2>1. task[c].pc \in {"paused", "parked"} => tok[c].cur = task[c].gen
    BY OneHeard, Zenon DEF Heard, Over
  <2> QED
    BY <2>1, Zenon DEF Told, Awake
<1>2. Locked => Exchanging
  BY LockedExchanging
<1>3. CASE task[c].pc \in {"grace", "permit", "revoking", "failing", "reporting"} \cup Inside
  BY <1>0, <1>3, Zenon DEF CanWait
<1>4. CASE task[c].pc \in {"reserved", "resting"}
  BY <1>0, <1>4, Zenon DEF CanWait, TaskAt
<1>5. CASE task[c].pc \in {"paused", "parked"}
  BY <1>0, <1>1, <1>5, Zenon DEF CanWait
<1>6. CASE task[c].pc \in {"granted", "settled", "releasing"}
  BY <1>0, <1>2, <1>6, Zenon DEF CanWait
<1>7. \/ task[c].pc \in {"grace", "permit", "revoking", "failing", "reporting"} \cup Inside
      \/ task[c].pc \in {"reserved", "resting"} \/ task[c].pc \in {"paused", "parked"}
      \/ task[c].pc \in {"granted", "settled", "releasing"}
  BY <1>0 DEF TaskPcs
<1> QED
  BY <1>3, <1>4, <1>5, <1>6, <1>7, Zenon

\* Who has told the wait that they await is served.
LEMMA ServedNow ==
  ASSUME IInv, HeardInv, NEW c \in Call, InBarrier(c)
  PROVE  \/ CanDeliver(c)
         \/ call[c].pc \in Blocked /\ own.manual
         \/ Exchanging
         \/ \E d \in Awaited(c) : Told(d) /\ CanWait(d)
<1>0. \/ call[c].pc \in {"holding", "finishing", "pwaiting"}
      \/ call[c].pc \in Barriers \/ call[c].pc \in Blocked
  BY DEF InBarrier, CallAt, Barriers, BlockedAt, Blocked
<1>1. c \in policy.calls
  <2>1. call[c].pc # "new"
    BY <1>0 DEF Barriers, Blocked
  <2> QED
    BY <2>1, Zenon DEF HeardInv
<1>2. CASE call[c].pc \in Barriers
  BY <1>1, <1>2, LockedExchanging, Zenon DEF CanDeliver
<1>3. CASE call[c].pc \in Blocked
  BY <1>1, <1>3, OneHeard, Zenon DEF CanDeliver, Informed
<1>4. CASE call[c].pc = "holding"
  <2>0. /\ tok[c].held /\ call[c].gen = tok[c].cur /\ task[c].pc # "none"
        /\ tok[c].cur \in tok[c].woken /\ tok[c].entered
    <3>1. Sound(tok[c], task[c], call[c], cancelled) /\ Heard(tok[c], task[c], call[c])
      BY OneWait, OneHeard, Zenon
    <3> QED
      BY <1>4, <3>1, Zenon DEF Sound, Heard, Counted, Queueing
  <2>1. Told(c) /\ c \in Awaited(c)
    <3>1. Told(c)
      BY <2>0, Zenon DEF Told
    <3>2. Awaited(c) = {c}
      BY <1>4 DEF Awaited, CallAt
    <3> QED
      BY <3>1, <3>2
  <2>2. CASE task[c].pc \in Over
    <3>1. tok[c].failed \/ tok[c].completed >= tok[c].cur
      BY <2>2, OneHeard, Zenon DEF Heard
    <3>2. RoundDone(c) \/ RoundFailed(c)
      BY <2>0, <2>2, <3>1, Zenon DEF RoundDone, RoundFailed, Over
    <3> QED
      BY <1>1, <1>4, <3>2, Zenon DEF CanDeliver, CallAt
  <2>3. CASE task[c].pc = "resting"
    <3>1. tok[c].completed = task[c].gen /\ tok[c].cur = task[c].gen /\ task[c].gen \in Nat
      BY <2>3, OneHeard, OneWait, Zenon DEF Heard, Over, WaitTasks
    <3>2. RoundDone(c)
      BY <2>0, <3>1 DEF RoundDone
    <3> QED
      BY <1>1, <1>4, <3>2, Zenon DEF CanDeliver, CallAt
  <2>4. CASE task[c].pc \notin Over \cup {"none", "resting"}
    BY <2>0, <2>1, <2>4, ToldGoesOn, ZenonT(60)
  <2> QED
    BY <2>0, <2>2, <2>3, <2>4, Zenon
<1>5. CASE call[c].pc = "finishing"
  <2>0. task[c].pc # "none" /\ tok[c].wake
    <3>1. Sound(tok[c], task[c], call[c], cancelled) /\ Heard(tok[c], task[c], call[c])
      BY OneWait, OneHeard, Zenon
    <3> QED
      BY <1>5, <3>1, Zenon DEF Sound, Heard, Counted, Queueing
  <2>1. Told(c) /\ c \in Awaited(c)
    <3>1. Told(c)
      BY <2>0, Zenon DEF Told
    <3>2. Awaited(c) = {c}
      BY <1>5 DEF Awaited, CallAt
    <3> QED
      BY <3>1, <3>2
  <2>2. CASE task[c].pc \in Over
    BY <1>1, <1>5, <2>2, Zenon DEF CanDeliver, CallAt
  <2>3. CASE task[c].pc \notin Over
    BY <2>0, <2>1, <2>3, ToldGoesOn, Zenon
  <2> QED
    BY <2>2, <2>3
<1>6. CASE call[c].pc = "pwaiting"
  <2>1. Awaited(c) = call[c].ref
    BY <1>6 DEF Awaited, CallAt
  <2>2. CASE \A d \in call[c].ref : task[d].pc \in Over
    BY <1>1, <1>6, <2>2, Zenon DEF CanDeliver, CallAt
  <2>3. ASSUME NEW d \in call[c].ref, task[d].pc \notin Over
        PROVE  Told(d) /\ (CanWait(d) \/ Exchanging)
    <3>1. d \in Call /\ task[d].pc # "none" /\ (tok[d].wake \/ cancelled)
      BY OneHeard, Zenon DEF Woken
    <3>2. Told(d)
      BY <3>1, Zenon DEF Told
    <3> QED
      BY <2>3, <3>1, <3>2, ToldGoesOn, Zenon
  <2> QED
    BY <2>1, <2>2, <2>3, Zenon
<1> QED
  BY <1>0, <1>2, <1>3, <1>4, <1>5, <1>6, Zenon

\* No wake is lost and nobody waits for somebody who is stuck: a caller in a barrier
\* (before_batch, before_delivery, passive_delivery, release) can go on, or a human's
\* pause that is still in force blocks it, or an exchange holds the lock and will return,
\* or a wait whose cleanup it awaits was told and its task can go on; for any number of
\* calls, rounds and manual controls, and whatever order they come in.
THEOREM BarriersAreServed == Spec => []BarriersServed
<1>1. IInv /\ HeardInv => BarriersServed
  BY ServedNow, Zenon DEF BarriersServed, Served
<1> QED
  BY <1>1, Invariant, WakesAreHeard, PTL

\* What a step leaves of what a wait was told.
Remembers(c) ==
    /\ cancelled => cancelled'
    /\ tok[c].wake => tok'[c].wake
    /\ tok[c].held => tok'[c].held \/ call[c].pc = "delivering"
    /\ Told(c) => tok'[c].cur = tok[c].cur
    /\ tok[c].woken \subseteq tok'[c].woken

\* A step of its caller takes back what a wait was told only in a delivery.
LEMMA SpeaksRemembers ==
  ASSUME IInv, NEW c \in Call, NEW d \in Call, Speaks(c), UNCHANGED <<execution, task>>
  PROVE  Remembers(d) /\ task'[d] = task[d]
<1>1. PICK k : /\ tok' = [tok EXCEPT ![c] = k] /\ (tok[c].wake => k.wake)
               /\ tok[c].held => k.held \/ call[c].pc = "delivering"
               /\ k.cur = tok[c].cur /\ tok[c].woken \subseteq k.woken
  BY ZenonT(60) DEF Speaks
<1>2. tok'[d] = IF d = c THEN k ELSE tok[d]
  BY <1>1 DEF IInv, TypeOK
<1>3. cancelled' = cancelled /\ task' = task
  BY DEF execution
<1> QED
  BY <1>1, <1>2, <1>3, Zenon DEF Remembers

\* A step of its task never does.
LEMMA TurnsRemembers ==
  ASSUME IInv, NEW c \in Call, NEW d \in Call, Turns(c), cancelled => cancelled'
  PROVE  /\ Remembers(d)
         /\ Told(d) => task'[d] = task[d] \/ Rank(task'[d].pc) < Rank(task[d].pc)
<1>1. PICK k, t : /\ tok' = [tok EXCEPT ![c] = k] /\ task' = [task EXCEPT ![c] = t]
                  /\ k.wake = tok[c].wake /\ k.held = tok[c].held
                  /\ tok[c].woken \subseteq k.woken
                  /\ Told(c) => k.cur = tok[c].cur /\ Rank(t.pc) < Rank(task[c].pc)
  BY ZenonT(60) DEF Turns
<1>2. tok'[d] = (IF d = c THEN k ELSE tok[d]) /\ task'[d] = IF d = c THEN t ELSE task[d]
  BY <1>1 DEF IInv, TypeOK
<1> QED
  BY <1>1, <1>2, Zenon DEF Remembers

\* Nor does a step that wakes waits.
LEMMA WakesRemember ==
  ASSUME IInv, NEW d \in Call, cancelled => cancelled', task' = task,
         \/ tok' = tok
         \/ tok' = [e \in Call |-> IF e \in active THEN [tok[e] EXCEPT !.wake = TRUE]
                                   ELSE tok[e]]
  PROVE  Remembers(d) /\ task'[d] = task[d]
<1>1. /\ tok[d].wake => tok'[d].wake
      /\ tok'[d].held = tok[d].held /\ tok'[d].cur = tok[d].cur
      /\ tok'[d].woken = tok[d].woken
  BY WakesHeard, Zenon
<1> QED
  BY <1>1, Zenon DEF Remembers

\* Every step lets a wait that was told move towards its end only.
LEMMA StepWinds ==
  ASSUME IInv, HeardInv, Next, NEW c \in Call, task[c].pc # "none", Told(c)
  PROVE  /\ Remembers(c)
         /\ task'[c] = task[c] \/ Rank(task'[c].pc) < Rank(task[c].pc)
<1>0. policy.calls \subseteq Call
  BY PoliciesAssumption DEF IInv, TypeOK
<1>1. ASSUME NEW d \in policy.calls, Request(d) \/ Deliver(d) \/ Revoked(d)
      PROVE  Remembers(c) /\ task'[c] = task[c]
  <2>0. d \in Call
    BY <1>0, Zenon
  <2>1. CASE Reserve(d)
    <3>1. d # c
      BY <2>0, <2>1, OneWait DEF Reserve, CallAt, Sound
    <3>2. tok'[c] = tok[c] /\ task'[c] = task[c] /\ cancelled' = cancelled
      BY <2>0, <2>1, <3>1 DEF Reserve, IInv, TypeOK, execution
    <3> QED
      BY <3>2, Zenon DEF Remembers
  <2>2. CASE Overlap(d)
    <3>1. /\ cancelled' = cancelled /\ task' = task
          /\ tok' = [e \in Call |-> IF e \in active THEN [tok[e] EXCEPT !.wake = TRUE]
                                    ELSE tok[e]]
      BY <2>2, Zenon DEF Overlap, execution
    <3> QED
      BY <3>1, WakesRemember, Zenon
  <2>3. CASE Speaks(d) /\ UNCHANGED <<execution, task>>
    BY <2>0, <2>3, SpeaksRemembers
  <2> QED
    BY <1>1, <2>0, <2>1, <2>2, <2>3, CallerSpeaks, Zenon
<1>2. ASSUME NEW d \in policy.calls, Wait(d)
      PROVE  /\ Remembers(c)
             /\ task'[c] = task[c] \/ Rank(task'[c].pc) < Rank(task[c].pc)
  <2>0. d \in Call
    BY <1>0, Zenon
  <2>1. Turns(d) /\ (cancelled => cancelled')
    BY <1>2, <2>0, WaitTurns, Zenon
  <2> QED
    BY <2>0, <2>1, TurnsRemembers, Zenon
<1>3. ASSUME NEW k \in Manual, ManualBegins(k) PROVE Remembers(c) /\ task'[c] = task[c]
  <2>1. /\ cancelled' = cancelled /\ task' = task
        /\ tok' = [e \in Call |-> IF e \in active THEN [tok[e] EXCEPT !.wake = TRUE]
                                  ELSE tok[e]]
    BY <1>3, Zenon DEF ManualBegins, execution
  <2> QED
    BY <2>1, WakesRemember, Zenon
<1>4. ASSUME NEW res \in Results, ManualEnds(res) PROVE Remembers(c) /\ task'[c] = task[c]
  <2>1. (cancelled => cancelled') /\ task' = task /\ tok' = tok
    BY <1>4, Zenon DEF ManualEnds, Exchange
  <2> QED
    BY <2>1, WakesRemember, Zenon
<1>5. ASSUME Ready \/ ExecutionEnds \/ Cancel \/ MonitorTermination
      PROVE  Remembers(c) /\ task'[c] = task[c]
  <2>1. (cancelled => cancelled') /\ task' = task /\ tok' = tok
    BY <1>5 DEF Ready, ExecutionEnds, Cancel, MonitorTermination
  <2> QED
    BY <2>1, WakesRemember, Zenon
<1> QED
  BY <1>1, <1>2, <1>3, <1>4, <1>5, Zenon DEF Next

\* A wait that was told to end takes at most sixteen more steps: each one brings its task
\* down in Rank, no round is begun after the wake (resume_next and run_wait look at the
\* tokens and the hold), and only the delivery of the held batch takes back what the wait
\* was told, after which the next batch or delivery tells it again.
THEOREM ToldWaitsWindDown == Spec => [][WindsDown]_vars
<1>1. IInv /\ HeardInv /\ [Next]_<<policy, vars>> => [WindsDown]_vars
  <2> SUFFICES ASSUME IInv, HeardInv, Next, NEW c \in Call, task[c].pc # "none", Told(c)
               PROVE  /\ task'[c] # task[c] => Rank(task'[c].pc) < Rank(task[c].pc)
                      /\ Told(c)' \/ call[c].pc = "delivering"
    BY Zenon DEF vars, WindsDown
  <2>1. /\ Remembers(c)
        /\ task'[c] = task[c] \/ Rank(task'[c].pc) < Rank(task[c].pc)
    BY StepWinds, Zenon
  <2>2. Told(c)' \/ call[c].pc = "delivering"
    BY <2>1 DEF Remembers, Told
  <2> QED
    BY <2>1, <2>2, Zenon
<1> QED
  BY <1>1, Invariant, WakesAreHeard, PTL DEF Spec

=============================================================================
