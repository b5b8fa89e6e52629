--------------------------- MODULE WaitCoordinator ---------------------------
(***************************************************************************)
(* The wait coordinator of one VM Execution (runtime/wait_coordinator.rs   *)
(* with its adapter runtime/model_wait.rs): it pauses the VM while a model *)
(* call, download or host read is outstanding and the guest is idle,       *)
(* resumes it before anything is delivered, and arbitrates that with the   *)
(* pause, resume, offload, checkpoint and suspend commands of a human.     *)
(*                                                                         *)
(* Every reservation has two actors: the caller (the Gateway handler or    *)
(* the host-read observer), which delivers or gives up, and the wait task, *)
(* which runs idle rounds.  Both, and manual controls, change ownership    *)
(* only under the `state' lock, and hold it across the whole exchange with *)
(* the runner; wake, hold and overlap signals do not wait for the lock.    *)
(* The Execution is seen through WaitControl: the published state, the     *)
(* cancellation token, and one exchange at a time with the outcomes that   *)
(* module Execution gives it.                                              *)
(***************************************************************************)
EXTENDS Naturals, FiniteSets

CONSTANTS
    Call,       \* the outstanding requests; each one is used once, like a wait id
    Read,       \* those that host-read polling makes: they skip on overlap
    Policies    \* the wait policies, each with the bounds of its instance

ASSUME CallAssumption == Read \subseteq Call
ASSUME PoliciesAssumption ==
    Policies \subseteq [calls : SUBSET Call, rounds : BOOLEAN, offload : BOOLEAN,
                        maxRounds : Nat \ {0}, maxManual : Nat]

Snapshots == {"checkpoint", "suspend"}
Pauses == {"pause", "offload"}
Manual == {"resume"} \cup Pauses \cup Snapshots

VARIABLES
    policy,    \* the policy of this Execution, it never changes
    st,        \* WaitControl::state; "ended" is every state that takes no control
    cancelled, \* the Execution's latched cancellation token
    own,       \* Ownership: manual_pause and automatic (a set of at most one wait)
    man,       \* the manual control that holds the lock, or "none"
    epoch,     \* manual_epoch
    changes,   \* the version of the `changed' watch
    active,    \* the single-call slot, a set of at most one wait
    disabled,  \* automatic_disabled
    tok,       \* the tokens and shared round state of each wait
    task,      \* the wait task of each wait
    call       \* the caller of each wait

execution == <<st, cancelled>>
vars == <<execution, own, man, epoch, changes, active, disabled, tok, task, call>>

Rounds == policy.rounds        \* policy.rounds is set: idle rounds and stream batches
Offload == policy.offload      \* policy.offload_after is set
MaxRounds == policy.maxRounds  \* bound on the idle rounds of one wait
MaxManual == policy.maxManual  \* bound on the manual controls

Available == st \in {"starting", "running", "suspended"}
LiveState == st \in {"running", "suspended"}

\* The passive callers counted in passive_waits.
Passive == {c \in Call : call[c].pc \in {"passive", "pwaiting", "pchecking", "pblocked",
                                         "pdelivering"}}

\* Who is inside an exchange, and therefore holds the `state' lock.
Locked ==
    \/ man # "none"
    \/ \E c \in Call : task[c].pc \in {"pausing", "offloading", "rearming", "resuming"}

-----------------------------------------------------------------------------
(* One exchange with the runner as Execution::exchange reports it:         *)
(* "ok" and "denied" (the idle evidence was gone, nothing changed) are Ok; *)
(* "known" is a ControlFailure, "refused" an admission that failed,        *)
(* "unrecorded" an effect whose record failed, "unknown" a lost outcome.   *)

Results == {"ok", "denied", "known", "refused", "unknown", "unrecorded"}

Took(res) == res \in {"ok", "unrecorded"}
Succeeds(res) == res \in {"ok", "denied"}

\* The published state after the exchange: only a live state follows the VM.
Then(op, res) ==
    IF ~Took(res) \/ ~LiveState THEN st
    ELSE CASE op \in Pauses -> "suspended"
           [] op = "resume" -> "running"
           [] op = "suspend" -> "ended"
           [] OTHER -> st

\* ensure_live refuses an exchange before the VM is ready (one that began before the
\* Execution ended may still succeed); a paused VM has no checkpoint; only a
\* conditional control can be denied.
Possible(op, res, conditional) ==
    /\ st = "starting" => res \in {"refused", "unknown"}
    /\ (op = "checkpoint" /\ st = "suspended") => ~Succeeds(res)
    /\ res = "denied" => conditional

\* control_error: an unknown outcome cancels the Execution, and so does an automatic
\* control that fails with the VM left paused (not when it was refused at admission).
Exchange(op, res, automatic) ==
    /\ st' = Then(op, res)
    /\ \E c \in BOOLEAN :
         /\ c => (res = "refused" /\ automatic /\ st = "suspended")
         /\ cancelled' = \/ cancelled \/ res = "unknown" \/ c
                         \/ automatic /\ ~Succeeds(res) /\ res # "refused"
                            /\ Then(op, res) = "suspended"

-----------------------------------------------------------------------------
(* Reservation, reserve_inner and the Gateway handler.                     *)

\* The entry that observe allocates and the wait task it spawns.
NewTokens == [entered |-> FALSE, wake |-> FALSE, retired |-> FALSE, epoch |-> epoch,
              cur |-> 1, woken |-> {}, held |-> FALSE, completed |-> 0, failed |-> FALSE]
NoTask == [pc |-> "none", gen |-> 1, permit |-> FALSE, prepared |-> FALSE, err |-> "none"]
NewCall == [pc |-> "new", gen |-> 0, seen |-> 0, ref |-> {}]

Wakes(c) == tok' = [tok EXCEPT ![c].wake = TRUE]
CallAt(c, pc) == call[c].pc = pc
CallGoto(c, pc) == call' = [call EXCEPT ![c].pc = pc]
TaskAt(c, pc) == task[c].pc = pc
TaskGoto(c, pc) == task' = [task EXCEPT ![c].pc = pc]

\* The slot is free and no overlap was seen: a native wait.
Reserve(c) ==
    /\ CallAt(c, "new") /\ ~cancelled /\ Available
    /\ ~disabled /\ active = {}
    /\ active' = {c}
    /\ tok' = [tok EXCEPT ![c] = NewTokens]
    /\ task' = [task EXCEPT ![c].pc = "reserved"]
    /\ CallGoto(c, "reserved")
    /\ UNCHANGED <<execution, own, man, epoch, changes, disabled>>

\* Overlap: automatic pausing ends for good, the present wait is woken, and this call
\* is only counted.  Host-read polling skips instead.
Overlap(c) ==
    /\ CallAt(c, "new") /\ c \notin Read /\ ~cancelled /\ Available
    /\ disabled \/ active # {}
    /\ disabled' = TRUE
    /\ tok' = [d \in Call |-> IF d \in active THEN [tok[d] EXCEPT !.wake = TRUE] ELSE tok[d]]
    /\ CallGoto(c, "passive")
    /\ UNCHANGED <<execution, own, man, epoch, changes, active, task>>

\* WaitEntry::enter
Enter(c) ==
    /\ CallAt(c, "reserved")
    /\ tok' = [tok EXCEPT ![c].entered = TRUE]
    /\ CallGoto(c, "upstream")
    /\ UNCHANGED <<execution, own, man, epoch, changes, active, disabled, task>>

\* before_batch takes the hold and selects the round in one step, and wakes it.
BeforeBatch(c) ==
    /\ CallAt(c, "upstream") /\ Rounds /\ c \notin Read
    /\ tok' = [tok EXCEPT ![c].held = TRUE, ![c].woken = @ \cup {tok[c].cur}]
    /\ call' = [call EXCEPT ![c].pc = "holding", ![c].gen = tok[c].cur]
    /\ UNCHANGED <<execution, own, man, epoch, changes, active, disabled, task>>

\* before_delivery wakes the whole wait.
BeforeDelivery(c) ==
    /\ call[c].pc \in {"upstream", "delivering"}
    /\ Wakes(c)
    /\ CallGoto(c, "finishing")
    /\ UNCHANGED <<execution, own, man, epoch, changes, active, disabled, task>>

\* The caller fails or is dropped: WaitEntry::cancel for a native wait, and
\* finish_passive (it leaves Passive) for a counted one, whose tokens nobody reads.
Drops(c) ==
    /\ tok' = [tok EXCEPT ![c].wake = TRUE, ![c].retired = TRUE]
    /\ call' = [call EXCEPT ![c] = [NewCall EXCEPT !.pc = "dropped"]]

\* The Gateway drops a handler at any time; the host-read observer stops only with
\* the Execution.
GiveUp(c) ==
    /\ call[c].pc \notin {"new", "delivered", "dropped"}
    /\ c \in Read => cancelled
    /\ Drops(c)
    /\ UNCHANGED <<execution, own, man, epoch, changes, active, disabled, task>>

\* The round whose completion before_batch awaits has ended without error.
RoundDone(c) == tok[c].completed >= call[c].gen
RoundFailed(c) ==
    tok[c].failed /\ (call[c].gen = task[c].gen \/ task[c].pc \in {"completed", "cleared"})

\* IdleRound::completed or cleanup_completed returns; release subscribes to `changed'.
Cleaned(c) ==
    /\ \/ CallAt(c, "holding") /\ (RoundDone(c) \/ RoundFailed(c))
       \/ CallAt(c, "finishing") /\ task[c].pc \in {"completed", "cleared"}
    /\ IF tok[c].failed /\ ~(CallAt(c, "holding") /\ RoundDone(c))
       THEN Drops(c)
       ELSE /\ call' = [call EXCEPT ![c].pc = IF @ = "holding" THEN "bchecking" ELSE "dchecking",
                                    ![c].seen = changes]
            /\ UNCHANGED tok
    /\ UNCHANGED <<execution, own, man, epoch, changes, active, disabled, task>>

\* passive_delivery looks at the slot, and waits for the cleanup of the wait in it.
PassiveDelivery(c) ==
    /\ call[c].pc \in {"passive", "pdelivering"}
    /\ call' = [call EXCEPT ![c].pc = "pwaiting", ![c].ref = active]
    /\ UNCHANGED <<execution, own, man, epoch, changes, active, disabled, tok, task>>

PassiveCleaned(c) ==
    /\ CallAt(c, "pwaiting")
    /\ \A d \in call[c].ref : task[d].pc \in {"completed", "cleared"}
    /\ IF \E d \in call[c].ref : tok[d].failed
       THEN Drops(c)
       ELSE /\ call' = [call EXCEPT ![c].pc = "pchecking", ![c].seen = changes, ![c].ref = {}]
            /\ UNCHANGED tok
    /\ UNCHANGED <<execution, own, man, epoch, changes, active, disabled, task>>

\* The three delivery barriers and where each goes from the lock.
Barriers == {"bchecking", "dchecking", "pchecking"}
BlockedAt(pc) == CASE pc = "bchecking" -> "bblocked"
                   [] pc = "dchecking" -> "dblocked"
                   [] pc = "pchecking" -> "pblocked"
PassedAt(pc) == CASE pc = "bchecking" -> "delivering"
                  [] pc = "dchecking" -> "delivered"
                  [] pc = "pchecking" -> "pdelivering"

\* The barrier lets the caller deliver; the last delivery retires the wait and frees
\* the slot.
Passes(c) ==
    /\ call' = [call EXCEPT ![c] = [NewCall EXCEPT !.pc = PassedAt(call[c].pc)]]
    /\ IF CallAt(c, "dchecking")
       THEN tok' = [tok EXCEPT ![c].retired = TRUE] /\ active' = active \ {c}
       ELSE UNCHANGED <<tok, active>>

\* release(delivery) and passive_delivery under the lock.  A human's pause blocks the
\* caller; otherwise it delivers, or fails because the VM does not run.  That release
\* would first undo a pause of its own wait is left out: BarrierClear shows that none
\* is left at this point.
Barrier(c) ==
    /\ call[c].pc \in Barriers /\ ~Locked
    /\ CASE cancelled \/ ~Available -> Drops(c) /\ UNCHANGED active
         [] ~cancelled /\ Available /\ own.manual ->
              CallGoto(c, BlockedAt(call[c].pc)) /\ UNCHANGED <<tok, active>>
         [] ~cancelled /\ Available /\ ~own.manual ->
              IF st = "suspended" THEN Drops(c) /\ UNCHANGED active ELSE Passes(c)
    /\ UNCHANGED <<execution, own, man, epoch, changes, disabled, task>>

\* A blocked caller hears of the end of a manual control, or fails on cancellation.
Unblock(c) ==
    /\ \E pc \in Barriers :
         /\ CallAt(c, BlockedAt(pc))
         /\ cancelled \/ changes > call[c].seen
         /\ IF cancelled THEN Drops(c)
            ELSE /\ call' = [call EXCEPT ![c].pc = pc, ![c].seen = changes]
                 /\ UNCHANGED tok
    /\ UNCHANGED <<execution, own, man, epoch, changes, active, disabled, task>>

\* The batch passed the body queue: after_batch releases the hold.
AfterBatch(c) ==
    /\ CallAt(c, "delivering")
    /\ tok' = [tok EXCEPT ![c].held = FALSE]
    /\ CallGoto(c, "upstream")
    /\ UNCHANGED <<execution, own, man, epoch, changes, active, disabled, task>>

-----------------------------------------------------------------------------
(* The wait task, run_wait.                                                *)

\* Mutant: the token of the whole wait is not looked at.
AwakeRoundOnly(c) == cancelled \/ task[c].gen \in tok[c].woken

\* The token of the round the task runs, or of the whole wait, or of the Execution.
Awake(c) == cancelled \/ tok[c].wake \/ task[c].gen \in tok[c].woken

\* What every automatic transition rechecks once it has the lock.
MayPause(c) == ~Awake(c) /\ LiveState /\ ~own.manual /\ tok[c].epoch = epoch

\* run_wait starts its first round when the call is entered, or ends early.
Started(c) ==
    /\ TaskAt(c, "reserved")
    /\ cancelled \/ tok[c].wake \/ tok[c].entered
    /\ TaskGoto(c, "grace")
    /\ UNCHANGED <<execution, own, man, epoch, changes, active, disabled, tok, call>>

\* The grace period passes; a round prepared by the previous resume skips it.  The
\* idle client then grants a permit or not.
Grace(c) ==
    /\ TaskAt(c, "grace") /\ (~Awake(c) \/ task[c].prepared)
    /\ task' = [task EXCEPT ![c].pc = "permit", ![c].prepared = FALSE]
    /\ UNCHANGED <<execution, own, man, epoch, changes, active, disabled, tok, call>>

Permit(c) ==
    /\ TaskAt(c, "permit") /\ ~Awake(c)
    /\ TaskGoto(c, "granted")
    /\ UNCHANGED <<execution, own, man, epoch, changes, active, disabled, tok, call>>

\* The round ends: woken while it waits, or no permit, or nothing left to do.
RoundEnds(c) ==
    /\ task[c].pc \in {"grace", "permit", "paused", "parked"}
    /\ TaskAt(c, "permit") \/ Awake(c)
    /\ TaskGoto(c, "revoking")
    /\ UNCHANGED <<execution, own, man, epoch, changes, active, disabled, tok, call>>

\* The idle client revokes a permit: the guest woke up or its lease ran out.
Revoked(c) ==
    /\ task[c].pc \in {"granted", "pausing", "paused", "offloading", "parked"}
    /\ tok' = [tok EXCEPT ![c].woken = @ \cup {task[c].gen}]
    /\ UNCHANGED <<execution, own, man, epoch, changes, active, disabled, task, call>>

\* Mutant: the tokens are not looked at again after waiting for the lock.
PauseUnchecked(c) ==
    /\ TaskAt(c, "granted") /\ ~Locked
    /\ TaskGoto(c, IF LiveState /\ ~own.manual THEN "pausing" ELSE "revoking")
    /\ UNCHANGED <<execution, own, man, epoch, changes, active, disabled, tok, call>>

\* The permit is used under the lock, if nothing has changed since it was granted.
Pause(c) ==
    /\ TaskAt(c, "granted") /\ ~Locked
    /\ TaskGoto(c, IF MayPause(c) THEN "pausing" ELSE "revoking")
    /\ UNCHANGED <<execution, own, man, epoch, changes, active, disabled, tok, call>>

\* An error of the round; it is reported after the idle client has settled.
Error(res) == IF res = "known" THEN "known" ELSE "unknown"

\* idle_pause returns.  The claim is recorded before the lock is released.
Paused(c, res) ==
    /\ TaskAt(c, "pausing") /\ Possible("pause", res, TRUE)
    /\ Exchange("pause", res, TRUE)
    /\ IF res = "ok" /\ st' = "suspended"
       THEN /\ own' = [own EXCEPT !.automatic = {c}]
            /\ task' = [task EXCEPT ![c].pc = "paused", ![c].permit = TRUE]
       ELSE /\ task' = [task EXCEPT ![c].pc = "revoking",
                                    ![c].err = IF Succeeds(res) THEN "none" ELSE Error(res)]
            /\ UNCHANGED own
    /\ UNCHANGED <<man, epoch, changes, active, disabled, tok, call>>

\* The offload deadline: automatic(offload) under the lock.  An unsupported RAM
\* configuration or the cooldown skips it.
OffloadDue(c) ==
    /\ TaskAt(c, "paused") /\ Offload /\ ~Awake(c) /\ ~Locked
    /\ \E skip \in BOOLEAN :
         TaskGoto(c, IF MayPause(c) /\ own.automatic = {c} /\ ~skip THEN "offloading"
                     ELSE "parked")
    /\ UNCHANGED <<execution, own, man, epoch, changes, active, disabled, tok, call>>

\* idle_offload returns; a denied reclaim leaves the pause as it is.
Offloaded(c, res) ==
    /\ TaskAt(c, "offloading") /\ Possible("offload", res, TRUE)
    /\ Exchange("offload", res, TRUE)
    /\ task' = [task EXCEPT ![c].pc = IF Succeeds(res) THEN "parked" ELSE "revoking",
                            ![c].err = IF Succeeds(res) THEN "none" ELSE Error(res)]
    /\ UNCHANGED <<own, man, epoch, changes, active, disabled, tok, call>>

\* The round is revoked and the idle client settles; a lease that cannot be retired
\* overrides the result of the round.
Settle(c) ==
    /\ TaskAt(c, "revoking")
    /\ tok' = [tok EXCEPT ![c].woken = @ \cup {task[c].gen}]
    /\ \E err \in {task[c].err, "unknown"} :
         task' = [task EXCEPT ![c].pc = IF err = "none" THEN "settled" ELSE "failing",
                              ![c].err = err]
    /\ UNCHANGED <<execution, own, man, epoch, changes, active, disabled, call>>

\* Mutant: the delivery hold is not looked at.
ResumeNextUnheld(c) ==
    /\ TaskAt(c, "settled") /\ ~Locked
    /\ \/ /\ Rounds /\ task[c].permit /\ task[c].gen < MaxRounds
          /\ own.automatic = {c} /\ ~own.manual /\ ~tok[c].wake /\ ~cancelled
          /\ ~disabled /\ tok[c].epoch = epoch
          /\ tok' = [tok EXCEPT ![c].cur = task[c].gen + 1]
          /\ TaskGoto(c, "rearming")
       \/ TaskGoto(c, "releasing") /\ UNCHANGED tok
    /\ UNCHANGED <<execution, own, man, epoch, changes, active, disabled, call>>

\* resume_next: with no delivery held, publish the next round and then resume the VM
\* and arm it in one exchange; else (or before rearm_at) fall through to release.
ResumeNext(c) ==
    /\ TaskAt(c, "settled") /\ ~Locked
    /\ \/ /\ Rounds /\ task[c].permit /\ task[c].gen < MaxRounds
          /\ own.automatic = {c} /\ ~own.manual /\ ~tok[c].wake /\ ~cancelled
          /\ ~disabled /\ tok[c].epoch = epoch /\ ~tok[c].held
          /\ tok' = [tok EXCEPT ![c].cur = task[c].gen + 1]
          /\ TaskGoto(c, "rearming")
       \/ TaskGoto(c, "releasing") /\ UNCHANGED tok
    /\ UNCHANGED <<execution, own, man, epoch, changes, active, disabled, call>>

\* The task goes on with round g.
NextRound(c, g, prepared) ==
    task' = [task EXCEPT ![c] = [pc |-> "grace", gen |-> g, permit |-> FALSE,
                                 prepared |-> prepared, err |-> "none"]]

\* idle_resume_rearm returns.
Rearmed(c, res) ==
    /\ TaskAt(c, "rearming") /\ Possible("resume", res, FALSE)
    /\ Exchange("resume", res, TRUE)
    /\ IF Succeeds(res)
       THEN /\ own' = [own EXCEPT !.automatic = {}]
            /\ tok' = [tok EXCEPT ![c].completed = task[c].gen]
            /\ NextRound(c, task[c].gen + 1, TRUE)
       ELSE /\ task' = [task EXCEPT ![c].pc = "failing", ![c].err = Error(res)]
            /\ UNCHANGED <<own, tok>>
    /\ UNCHANGED <<man, epoch, changes, active, disabled, call>>

\* The round is over without error: its completion is published.
RoundOver(c) ==
    /\ tok' = [tok EXCEPT ![c].completed = task[c].gen]
    /\ TaskGoto(c, IF Rounds THEN "resting" ELSE "completed")

RoundErrs(c, err) ==
    /\ task' = [task EXCEPT ![c].pc = "failing", ![c].err = err]
    /\ UNCHANGED tok

\* Mutant: the automatic resume does not respect a human's pause.
ReleaseOverrides(c) ==
    /\ TaskAt(c, "releasing") /\ ~Locked
    /\ IF cancelled \/ ~Available THEN RoundErrs(c, "unknown")
       ELSE IF own.automatic = {c} \/ own.manual THEN TaskGoto(c, "resuming") /\ UNCHANGED tok
       ELSE IF st = "suspended" THEN RoundErrs(c, "unknown")
       ELSE RoundOver(c)
    /\ UNCHANGED <<execution, own, man, epoch, changes, active, disabled, call>>

\* release(entry, false): a human's pause needs no automatic resume.
Release(c) ==
    /\ TaskAt(c, "releasing") /\ ~Locked
    /\ IF cancelled \/ ~Available THEN RoundErrs(c, "unknown")
       ELSE IF own.manual THEN RoundOver(c)
       ELSE IF own.automatic = {c} THEN TaskGoto(c, "resuming") /\ UNCHANGED tok
       ELSE IF st = "suspended" THEN RoundErrs(c, "unknown")
       ELSE RoundOver(c)
    /\ UNCHANGED <<execution, own, man, epoch, changes, active, disabled, call>>

Resumed(c, res) ==
    /\ TaskAt(c, "resuming") /\ Possible("resume", res, FALSE)
    /\ Exchange("resume", res, TRUE)
    /\ own' = IF Succeeds(res) THEN [own EXCEPT !.automatic = {}] ELSE own
    /\ IF Succeeds(res) /\ st' # "ended" THEN RoundOver(c)
       ELSE RoundErrs(c, IF Succeeds(res) THEN "unknown" ELSE Error(res))
    /\ UNCHANGED <<man, epoch, changes, active, disabled, call>>

\* The failed round is published to its waiters before the Execution hears of it.
RoundFails(c) ==
    /\ TaskAt(c, "failing")
    /\ tok' = [tok EXCEPT ![c].failed = TRUE]
    /\ TaskGoto(c, "reporting")
    /\ UNCHANGED <<execution, own, man, epoch, changes, active, disabled, call>>

\* Execution::wait_failed, then the completion of the wait.  Only a known failure of a
\* running Execution without history gap or unknown outcome is tolerated.
WaitFailed(c) ==
    /\ TaskAt(c, "reporting")
    /\ \E doubt \in BOOLEAN :
         cancelled' = (cancelled \/ task[c].err # "known" \/ st # "running" \/ doubt)
    /\ TaskGoto(c, "completed")
    /\ UNCHANGED <<st, own, man, epoch, changes, active, disabled, tok, call>>

\* Mutants: the delivery hold is not looked at; the wake is not looked at.
RestUnheld(c) ==
    /\ TaskAt(c, "resting")
    /\ \/ /\ tok[c].wake \/ cancelled
          /\ TaskGoto(c, "completed") /\ UNCHANGED tok
       \/ /\ ~tok[c].wake /\ ~cancelled /\ task[c].gen < MaxRounds
          /\ tok' = [tok EXCEPT ![c].cur = task[c].gen + 1]
          /\ NextRound(c, task[c].gen + 1, FALSE)
    /\ UNCHANGED <<execution, own, man, epoch, changes, active, disabled, call>>
RestIgnoresWake(c) ==
    /\ TaskAt(c, "resting")
    /\ \/ cancelled /\ TaskGoto(c, "completed") /\ UNCHANGED tok
       \/ /\ ~cancelled /\ ~tok[c].held /\ task[c].gen < MaxRounds
          /\ tok' = [tok EXCEPT ![c].cur = task[c].gen + 1]
          /\ NextRound(c, task[c].gen + 1, FALSE)
    /\ UNCHANGED <<execution, own, man, epoch, changes, active, disabled, call>>

\* Between rounds: end when the wait was woken, or start the next round when no
\* delivery holds it back.
Rest(c) ==
    /\ TaskAt(c, "resting")
    /\ \/ /\ tok[c].wake \/ cancelled
          /\ TaskGoto(c, "completed") /\ UNCHANGED tok
       \/ /\ ~tok[c].wake /\ ~cancelled /\ ~tok[c].held /\ task[c].gen < MaxRounds
          /\ tok' = [tok EXCEPT ![c].cur = task[c].gen + 1]
          /\ NextRound(c, task[c].gen + 1, FALSE)
    /\ UNCHANGED <<execution, own, man, epoch, changes, active, disabled, call>>

\* Mutant: the slot is freed with the native cleanup.
ClearEarly(c) ==
    /\ TaskAt(c, "completed")
    /\ active' = active \ {c}
    /\ task' = [task EXCEPT ![c] = [NoTask EXCEPT !.pc = "cleared"]]
    /\ UNCHANGED <<execution, own, man, epoch, changes, disabled, tok, call>>

\* The slot is kept until delivery, handler drop or cancellation.
Clear(c) ==
    /\ TaskAt(c, "completed") /\ (tok[c].retired \/ cancelled)
    /\ active' = active \ {c}
    /\ task' = [task EXCEPT ![c] = [NoTask EXCEPT !.pc = "cleared"]]
    /\ UNCHANGED <<execution, own, man, epoch, changes, disabled, tok, call>>

-----------------------------------------------------------------------------
(* Manual controls, WaitCoordinator::manual, and the Execution itself.     *)

\* Mutant: a snapshot does not look for waits.
ManualBeginsAnyway(k) ==
    /\ ~Locked /\ epoch < MaxManual
    /\ epoch' = epoch + 1
    /\ tok' = [d \in Call |-> IF d \in active THEN [tok[d] EXCEPT !.wake = TRUE] ELSE tok[d]]
    /\ own' = [own EXCEPT !.manual = @ \/ k \in Pauses]
    /\ man' = k
    /\ UNCHANGED <<execution, changes, active, disabled, task, call>>

\* A human's command takes the lock, ends the automation of the present wait and
\* claims a pause before the exchange.  A snapshot conflicts with waits and pauses.
ManualBegins(k) ==
    /\ ~Locked /\ epoch < MaxManual
    /\ k \in Snapshots => active = {} /\ Passive = {} /\ ~own.manual
    /\ epoch' = epoch + 1
    /\ tok' = [d \in Call |-> IF d \in active THEN [tok[d] EXCEPT !.wake = TRUE] ELSE tok[d]]
    /\ own' = [own EXCEPT !.manual = @ \/ k \in Pauses]
    /\ man' = k
    /\ UNCHANGED <<execution, changes, active, disabled, task, call>>

\* Mutant: every failed command gives all claims up.
ManualEndsForgets(res) ==
    /\ man # "none" /\ Possible(man, res, FALSE)
    /\ Exchange(man, res, FALSE)
    /\ own' = [manual |-> Succeeds(res) /\ own.manual /\ man # "resume", automatic |-> {}]
    /\ changes' = changes + 1
    /\ man' = "none"
    /\ UNCHANGED <<epoch, active, disabled, tok, task, call>>

\* Mutant: blocked callers are not told.
ManualEndsSilently(res) ==
    /\ man # "none" /\ Possible(man, res, FALSE)
    /\ Exchange(man, res, FALSE)
    /\ LET running == st' = "running" IN
       own' = IF Succeeds(res) \/ running
              THEN [manual |-> own.manual /\ ~running /\ man # "resume", automatic |-> {}]
              ELSE own
    /\ changes' = changes
    /\ man' = "none"
    /\ UNCHANGED <<epoch, active, disabled, tok, task, call>>

\* The claim is settled by the result and the published state, and every blocked
\* caller is told.
ManualEnds(res) ==
    /\ man # "none" /\ Possible(man, res, FALSE)
    /\ Exchange(man, res, FALSE)
    /\ LET running == st' = "running" IN
       own' = IF Succeeds(res) \/ running
              THEN [manual |-> own.manual /\ ~running /\ man # "resume", automatic |-> {}]
              ELSE own
    /\ changes' = changes + 1
    /\ man' = "none"
    /\ UNCHANGED <<epoch, active, disabled, tok, task, call>>

\* Execution::ready, the end of the Execution, its cancellation by anyone, and
\* monitor_wait_termination.
Ready ==
    /\ st = "starting" /\ st' = "running"
    /\ UNCHANGED <<cancelled, own, man, epoch, changes, active, disabled, tok, task, call>>
ExecutionEnds ==
    /\ Available /\ st' = "ended"
    /\ UNCHANGED <<cancelled, own, man, epoch, changes, active, disabled, tok, task, call>>
Cancel ==
    /\ ~cancelled /\ cancelled' = TRUE
    /\ UNCHANGED <<st, own, man, epoch, changes, active, disabled, tok, task, call>>
MonitorTermination ==
    /\ st = "ended" /\ ~cancelled /\ cancelled' = TRUE
    /\ UNCHANGED <<st, own, man, epoch, changes, active, disabled, tok, task, call>>

-----------------------------------------------------------------------------
Init ==
    /\ policy \in Policies
    /\ st = "starting" /\ cancelled = FALSE
    /\ own = [manual |-> FALSE, automatic |-> {}] /\ man = "none"
    /\ epoch = 0 /\ changes = 0 /\ active = {} /\ disabled = FALSE
    /\ tok = [c \in Call |-> NewTokens] /\ task = [c \in Call |-> NoTask]
    /\ call = [c \in Call |-> NewCall]

\* The steps of a wait task.
Wait(c) ==
    \/ Started(c) \/ Grace(c) \/ Permit(c) \/ RoundEnds(c) \/ Pause(c) \/ OffloadDue(c)
    \/ \E res \in Results : Paused(c, res) \/ Offloaded(c, res) \/ Rearmed(c, res)
                            \/ Resumed(c, res)
    \/ Settle(c) \/ ResumeNext(c) \/ Release(c) \/ RoundFails(c) \/ WaitFailed(c)
    \/ Rest(c) \/ Clear(c)

\* The steps of a caller inside a barrier.
Deliver(c) == Cleaned(c) \/ PassiveCleaned(c) \/ Barrier(c) \/ Unblock(c)

\* The decisions of a caller.
Request(c) ==
    \/ Reserve(c) \/ Overlap(c) \/ Enter(c) \/ BeforeBatch(c) \/ BeforeDelivery(c)
    \/ PassiveDelivery(c) \/ AfterBatch(c) \/ GiveUp(c)

Next ==
    /\ UNCHANGED policy
    /\ \/ \E c \in policy.calls : Request(c) \/ Deliver(c) \/ Wait(c) \/ Revoked(c)
       \/ \E k \in Manual : ManualBegins(k)
       \/ \E res \in Results : ManualEnds(res)
       \/ Ready \/ ExecutionEnds \/ Cancel \/ MonitorTermination

\* Spawned tasks run on: wait tasks, callers inside a barrier, the manual control that
\* holds the lock (its exchange has a timeout) and the termination monitor.
Fairness ==
    /\ \A c \in Call : WF_vars(Wait(c)) /\ WF_vars(Deliver(c))
    /\ WF_vars(\E res \in Results : ManualEnds(res))
    /\ WF_vars(MonitorTermination)

Spec == Init /\ [][Next]_<<policy, vars>>
FairSpec == Spec /\ Fairness

-----------------------------------------------------------------------------
(* Properties.                                                             *)

Delivering(c) == call[c].pc \in {"delivering", "pdelivering"}

\* The phases in which a wait task still has its release ahead of it.
WillRelease(c) ==
    task[c].pc \in {"paused", "offloading", "parked", "revoking", "settled", "rearming",
                    "releasing", "resuming", "failing", "reporting"}

\* No pause is orphaned: while nobody is inside an exchange, a suspended VM is claimed
\* by a human, or by a wait whose task is still going to release it or to cancel.
PauseHasOwner ==
    (st = "suspended" /\ ~Locked /\ ~cancelled) =>
        \/ own.manual
        \/ \E c \in own.automatic : WillRelease(c)

\* Nothing is delivered to a VM that automation has paused: while a batch is held for
\* delivery, only a human's command can have stopped the VM (before_batch: "Hold the
\* VM running until the outgoing batch passes the Gateway body queue").
DeliveredRunning ==
    \A c \in Call : (Delivering(c) /\ st = "suspended" /\ ~cancelled) =>
        own.manual \/ man \in Manual

\* The cleanup that every barrier awaits is complete: a caller that gets the lock with
\* no human's pause in force meets no automatic pause, neither its own to undo nor the
\* one that release and passive_delivery report as "VM is not running for model delivery".
BarrierClear ==
    \A c \in Call :
        (call[c].pc \in Barriers /\ ~Locked /\ ~cancelled /\ Available /\ ~own.manual) =>
            st # "suspended" /\ c \notin own.automatic

\* A snapshot sees the VM as it runs: no automatic or manual pause is in force while a
\* checkpoint or suspend is inside its exchange, although calls may be reserved then.
SnapshotRunning ==
    (man \in Snapshots /\ ~cancelled) =>
        own = [manual |-> FALSE, automatic |-> {}] /\ st # "suspended"

\* The slot outlives the cleanup: from reservation to delivery or drop the call keeps
\* it, so that a second call is always recognised as an overlap.
SlotKept ==
    \A c \in Call :
        (~cancelled /\ task[c].pc # "none"
           /\ call[c].pc \notin {"delivered", "dropped"}) => active = {c}

\* A human's pause is authoritative: once a manual pause or offload took effect, only a
\* manual resume makes the VM run again.
HumanPauseStands ==
    [][(own.manual /\ st = "suspended" /\ st' = "running") => man = "resume"]_vars

\* After the first overlap, or a manual control, no automatic pause begins for the wait
\* it concerns, not even for one whose permit was granted before.
NoLatePause ==
    [][\A c \in Call : (TaskAt(c, "granted") /\ task'[c].pc = "pausing") =>
          ~disabled /\ tok[c].epoch = epoch /\ ~tok[c].wake]_vars

\* The claim of a failed manual pause does not stay on a VM that runs (manual: "Confirmed
\* running state cannot retain a failed manual-pause claim").
RunningUnclaimed ==
    (st = "running" /\ ~Locked /\ ~cancelled) => ~own.manual

InBarrier(c) ==
    \/ call[c].pc \in {"holding", "finishing", "pwaiting"} \cup Barriers
    \/ \E pc \in Barriers : CallAt(c, BlockedAt(pc))

\* No barrier is closed for good: a caller leaves it (it delivers or fails) unless a
\* human's pause keeps coming back, and it hears of the end of that pause.  A call goes
\* through finitely many barriers, so none stays in one.
BarrierEnds == []<>(own.manual \/ \A c \in Call : ~InBarrier(c))

\* An automatic pause does not outlive the call it was made for: once the call is woken,
\* the claim is released, taken over by a human, or the Execution is cancelled.  A call
\* stays woken, so no claim of a woken call lasts.
PauseReleased ==
    []<>(own.manual \/ cancelled \/ \A c \in own.automatic : ~tok[c].wake)

\* Every wait task ends once its caller is gone, and gives the slot back: no retired
\* call keeps it.
WaitEnds == []<>(\A c \in active : ~tok[c].retired)

=============================================================================
