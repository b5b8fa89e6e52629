---------------------------- MODULE OverlayApply ----------------------------
(***************************************************************************)
(* Applying, recovering and dropping staged changes, as in                 *)
(* pvisor-overlay-core/src/apply.rs and its callers in the runtime.        *)
(*                                                                         *)
(* Several stages (overlays) hold staged changes to one target directory.  *)
(* An operation on a stage holds that stage's Run lease, so a stage has at *)
(* most one operation at a time; operations of different stages exclude    *)
(* each other only by the target lock.  Editors take neither lock.         *)
(*                                                                         *)
(* A path stands for a top-level entry of the target with everything below *)
(* it, and contents are compared as fingerprints are: two contents are     *)
(* equal or different.  Every stage is a complete-v1 stage: each change it *)
(* carries has a recorded preimage.  The check of a path and the rename    *)
(* right after it are one step: the code asks for editors to be stopped    *)
(* during apply because it cannot close that window.                       *)
(***************************************************************************)
EXTENDS Naturals

CONSTANTS Stages,      \* the overlays sharing the target
          Paths,       \* the entries of the target
          Change,      \* what each stage does to each path
          None,        \* no value
          Absent,      \* fingerprint of a path that does not exist
          Old,         \* content of a path when the stages were made
          Foreign,     \* content written by an editor
          Torn,        \* Torn[s]: content of an opaque upper tree of s that has
                       \* lost entries
          MaxTroubles  \* bound on the edits made by others, the failed
                       \* operations and the power losses taken together

ChangeKinds == {"none", "write", "delete", "opaque", "rmdir", "retype"}

\* A stage's own name stands for the content it stages; different stages stage
\* different contents.
Contents == Stages \cup {Absent, Old, Foreign} \cup {Torn[s] : s \in Stages}

ASSUME ChangeAssumption == Change \in [Stages -> [Paths -> ChangeKinds]]
ASSUME ContentsAssumption ==
    /\ None # Absent /\ Old \notin {None, Absent} /\ Foreign \notin {None, Absent, Old}
    /\ \A s \in Stages : {s, Torn[s]} \cap {None, Absent, Old, Foreign} = {}
    /\ \A s, t \in Stages : Torn[s] # t /\ (Torn[s] = Torn[t] => s = t)
ASSUME MaxTroublesAssumption == MaxTroubles \in Nat

VARIABLES
    target,     \* target[p]: the content of p in the target directory
    upper,      \* upper[s][p]: the staged entry, whole, partly removed or gone
    unsynced,   \* unsynced[s]: entries removed since the stage was last synced
    preimages,  \* preimages[s][p]: the stage's record of p at its first touch
    ledger,     \* ledger[s]: the latest apply record of the stage: none, Prepared,
                \* TargetApplied or Committed, with its paths and preimages
    slot,       \* slot[s][p]: the original directory moved to the backup
    backup,     \* backup[s]: the backup directory of the latest apply
    meta,       \* meta[s]: the overlay record the core publishes
    run,        \* run[s]: the copy of that record in the Run record
    lock,       \* the stage whose operation holds the target lock
    pc, op,     \* the operation in progress on each stage and its next step
    sel, todo,  \* its selected paths, and those left for the current step
    mem,        \* its overlay record in memory
    edits, faults

disk == <<target, upper, unsynced, preimages, ledger, slot, backup, meta, run>>
vars == <<disk, lock, pc, op, sel, todo, mem, edits, faults>>

Terminal == {"Applied", "Discarded"}
\* OverlayRecord: the state (Staged or terminal) and the generation.
NoRecord == [state |-> "Staged", gen |-> 0]

-----------------------------------------------------------------------------
(* What a change does.                                                      *)

replaces_directory(s, p) == Change[s][p] \in {"opaque", "rmdir", "retype"}
whiteout(s, p) == Change[s][p] \in {"delete", "rmdir"}
Opaque(s, p) == Change[s][p] = "opaque"
Replaced(s, paths) == {p \in paths : replaces_directory(s, p)}

Staged(s) == {p \in Paths : upper[s][p] # "gone"}

\* fingerprint_at the upper entry.
UpperContent(s, p) ==
    CASE upper[s][p] = "full" -> s
      [] upper[s][p] = "torn" -> Torn[s]
      [] OTHER -> Absent

desired_fingerprint(s, p) ==
    IF whiteout(s, p) THEN Absent ELSE UpperContent(s, p)

has_pending_applies(s) == ledger[s].state \in {"Prepared", "TargetApplied"}

\* The target still has the content the apply record was made for, or, when
\* recovering, already has the content it publishes.
validate_target_path(s, p) ==
    \/ target[p] = ledger[s].preimages[p]
    \/ op[s] = "recover" /\ target[p] = desired_fingerprint(s, p)

\* The published record replaces an older copy of the same generation when it
\* is terminal.
Reconciles(s, r) ==
    r.state \notin Terminal /\ meta[s].state \in Terminal /\ meta[s].gen = r.gen

reconcile_terminal_overlay(s, r) == IF Reconciles(s, r) THEN meta[s] ELSE r

\* Mutant: the generation moves on although an apply is pending.
ReadRunAhead(s) ==
    IF Reconciles(s, run[s]) THEN [meta[s] EXCEPT !.gen = @ + 1] ELSE run[s]

\* RunRecord::read: a reconciled record without a pending apply is one
\* generation on.
ReadRun(s) ==
    IF Reconciles(s, run[s]) /\ ~has_pending_applies(s)
    THEN [meta[s] EXCEPT !.gen = @ + 1]
    ELSE reconcile_terminal_overlay(s, run[s])

-----------------------------------------------------------------------------
Init ==
    /\ target = [p \in Paths |-> Old]
    /\ upper = [s \in Stages |->
                   [p \in Paths |-> IF Change[s][p] = "none" THEN "gone" ELSE "full"]]
    /\ preimages = [s \in Stages |->
                       [p \in Paths |-> IF Change[s][p] = "none" THEN None ELSE Old]]
    /\ ledger = [s \in Stages |-> [state |-> "none", gen |-> 0, paths |-> {},
                                   preimages |-> [p \in Paths |-> None]]]
    /\ unsynced = [s \in Stages |-> {}]
    /\ slot = [s \in Stages |-> [p \in Paths |-> None]]
    /\ backup = [s \in Stages |-> "none"]
    /\ meta = [s \in Stages |-> [state |-> "Staged", gen |-> 0]]
    /\ run = meta
    /\ lock = None
    /\ pc = [s \in Stages |-> "idle"]
    /\ op = [s \in Stages |-> "none"]
    /\ sel = [s \in Stages |-> {}]
    /\ todo = sel
    /\ mem = [s \in Stages |-> NoRecord]
    /\ edits = 0
    /\ faults = 0

\* The next step of the operation on s, and the paths it has to go through.
Goto(s, step, paths) ==
    /\ pc' = [pc EXCEPT ![s] = step]
    /\ todo' = [todo EXCEPT ![s] = paths]

\* Where the operation on s goes after the loop at `step`; empty loops are
\* passed over.
Onward(s, step) ==
    LET opaque == {p \in sel[s] : Opaque(s, p)}
        others == sel[s] \ opaque
    IN  CASE step = "restore" -> Goto(s, "check", {})
          [] step = "backup"  -> IF opaque # {} THEN Goto(s, "install", opaque)
                                 ELSE Goto(s, "publish", others)
          [] step = "install" -> IF others # {} THEN Goto(s, "publish", others)
                                 ELSE Goto(s, "rebase", opaque)
          [] step = "publish" -> IF opaque # {} THEN Goto(s, "rebase", opaque)
                                 ELSE Goto(s, "mark", {})
          [] step = "rebase"  -> Goto(s, "mark", {})
          [] step = "prune"   -> Goto(s, "settle", {})
          [] step = "clear"   -> Goto(s, "discard", {})

\* Path p of the current loop is done.
Done(s, p) ==
    IF todo[s] = {p} THEN Onward(s, pc[s]) ELSE Goto(s, pc[s], todo[s] \ {p})

\* A record of the stage is written and synced, and with it, in a file system
\* that orders its metadata, what was removed before.
Sync(s) == unsynced' = [unsynced EXCEPT ![s] = {}]

Release(s) == lock' = IF lock = s THEN None ELSE lock

\* The operation ends: its memory and its locks go with it.
Return(s) ==
    /\ Goto(s, "idle", {})
    /\ Release(s)
    /\ op' = [op EXCEPT ![s] = "none"]
    /\ sel' = [sel EXCEPT ![s] = {}]
    /\ mem' = [mem EXCEPT ![s] = NoRecord]

\* It ends with an error: nothing on disk is undone.
Refuse(s) == Return(s) /\ UNCHANGED <<disk, edits, faults>>

\* SessionService::apply_command, SessionService::drop and an explicit
\* recover_pending_applies, up to the target lock.
Begin(s, o, paths) ==
    /\ pc[s] = "idle"
    /\ CASE o = "apply"   -> /\ ~has_pending_applies(s)
                             /\ ReadRun(s).state = "Staged"
                             /\ paths # {} /\ paths \subseteq Staged(s)
         [] o = "drop"    -> /\ ~has_pending_applies(s)
                             /\ ReadRun(s).state = "Staged"
                             /\ paths = {}
         [] o = "recover" -> ledger[s].state # "none" /\ paths = {}
    /\ Goto(s, "lock", {})
    /\ op' = [op EXCEPT ![s] = o]
    /\ sel' = [sel EXCEPT ![s] = paths]
    /\ mem' = [mem EXCEPT ![s] = ReadRun(s)]
    /\ UNCHANGED <<disk, lock, edits, faults>>

\* TargetApplyLock::acquire; drop and recovery reconcile again under the lock.
Lock(s) ==
    /\ pc[s] = "lock"
    /\ lock = None
    /\ lock' = s
    /\ mem' = IF op[s] = "apply" THEN mem
              ELSE [mem EXCEPT ![s] = reconcile_terminal_overlay(s, @)]
    /\ Goto(s, "enter", {})
    /\ UNCHANGED <<disk, op, sel, edits, faults>>

-----------------------------------------------------------------------------
(* recover_pending_applies_for_target: leftover backups of a committed      *)
(* apply first, then the pending apply.                                     *)

LeftoverBackup(s) ==
    /\ ledger[s].state = "Committed"
    /\ ledger[s].gen = mem[s].gen
    /\ backup[s] # "none"

Sweep(s) ==
    /\ pc[s] = "enter" /\ op[s] # "drop"
    /\ LeftoverBackup(s)
    /\ Goto(s, "sweep", {})
    /\ UNCHANGED <<disk, lock, op, sel, mem, edits, faults>>

\* Mutant: a prepared apply is taken for one whose target is done.
ResumeDone(s) ==
    /\ pc[s] = "enter" /\ op[s] = "recover"
    /\ has_pending_applies(s)
    /\ IF ledger[s].gen # mem[s].gen
       THEN Refuse(s)
       ELSE /\ sel' = [sel EXCEPT ![s] = ledger[s].paths]
            /\ Goto(s, "prune", ledger[s].paths)
            /\ UNCHANGED <<disk, lock, op, mem, edits, faults>>

\* Mutant: the originals moved aside are not put back before the check.
ResumeUnrestored(s) ==
    /\ pc[s] = "enter" /\ op[s] = "recover"
    /\ has_pending_applies(s)
    /\ IF ledger[s].gen # mem[s].gen
       THEN Refuse(s)
       ELSE /\ sel' = [sel EXCEPT ![s] = ledger[s].paths]
            /\ IF ledger[s].state = "TargetApplied" THEN Goto(s, "prune", ledger[s].paths)
               ELSE Goto(s, "check", {})
            /\ UNCHANGED <<disk, lock, op, mem, edits, faults>>

Resume(s) ==
    /\ pc[s] = "enter" /\ op[s] = "recover"
    /\ has_pending_applies(s)
    /\ IF ledger[s].gen # mem[s].gen
       THEN Refuse(s)
       ELSE /\ sel' = [sel EXCEPT ![s] = ledger[s].paths]
            /\ IF ledger[s].state = "TargetApplied" THEN Goto(s, "prune", ledger[s].paths)
               ELSE IF Replaced(s, ledger[s].paths) # {}
               THEN Goto(s, "restore", Replaced(s, ledger[s].paths))
               ELSE Goto(s, "check", {})
            /\ UNCHANGED <<disk, lock, op, mem, edits, faults>>

\* Nothing was pending: recovery is over.
Recovered(s) ==
    /\ pc[s] = "enter" /\ op[s] = "recover"
    /\ ~has_pending_applies(s) /\ ~LeftoverBackup(s)
    /\ Refuse(s)

\* prepare_overlay_apply and append_apply_record.
Prepare(s) ==
    /\ pc[s] = "enter" /\ op[s] = "apply"
    /\ ~LeftoverBackup(s)
    /\ IF \E p \in sel[s] : preimages[s][p] = None \/ target[p] # preimages[s][p]
       THEN Refuse(s)
       ELSE /\ ledger' = [ledger EXCEPT ![s] =
                  [state |-> "Prepared", gen |-> mem[s].gen, paths |-> sel[s],
                   preimages |-> [p \in Paths |->
                       IF p \in sel[s] THEN preimages[s][p] ELSE None]]]
            /\ Sync(s)
            /\ Goto(s, "check", {})
            /\ UNCHANGED <<target, upper, preimages, slot, backup, meta, run,
                           lock, op, sel, mem, edits, faults>>

-----------------------------------------------------------------------------
(* apply_prepared_target.                                                   *)

\* restore_interrupted_replacements, for one path.
Restore(s, p) ==
    /\ pc[s] = "restore" /\ p \in todo[s]
    /\ IF \/ backup[s] = "unowned"
          \/ slot[s][p] # None /\ slot[s][p] # ledger[s].preimages[p]
       THEN Refuse(s)
       ELSE /\ IF slot[s][p] # None /\ target[p] = Absent
               THEN /\ target' = [target EXCEPT ![p] = slot[s][p]]
                    /\ slot' = [slot EXCEPT ![s][p] = None]
               ELSE UNCHANGED <<target, slot>>
            /\ Done(s, p)
            /\ UNCHANGED <<upper, unsynced, preimages, ledger, backup, meta, run, lock, op,
                           sel, mem, edits, faults>>

\* validate_target_preimages.
Check(s) ==
    /\ pc[s] = "check"
    /\ IF \E p \in sel[s] : ~validate_target_path(s, p)
       THEN Refuse(s)
       ELSE /\ IF Replaced(s, sel[s]) # {} THEN Goto(s, "backup", Replaced(s, sel[s]))
               ELSE Onward(s, "backup")
            /\ UNCHANGED <<disk, lock, op, sel, mem, edits, faults>>

\* back_up_replacements, for one path.
BackUp(s, p) ==
    /\ pc[s] = "backup" /\ p \in todo[s]
    /\ IF \/ backup[s] = "unowned"
          \/ slot[s][p] = None /\ target[p] # Absent /\ ~validate_target_path(s, p)
       THEN Refuse(s)
       ELSE /\ backup' = [backup EXCEPT ![s] = "owned"]
            /\ IF slot[s][p] = None /\ target[p] # Absent
               THEN /\ slot' = [slot EXCEPT ![s][p] = target[p]]
                    /\ target' = [target EXCEPT ![p] = Absent]
               ELSE UNCHANGED <<slot, target>>
            /\ Done(s, p)
            /\ UNCHANGED <<upper, unsynced, preimages, ledger, meta, run, lock, op, sel, mem,
                           edits, faults>>

\* install_replacement_directories, for one path.
Install(s, p) ==
    /\ pc[s] = "install" /\ p \in todo[s]
    /\ IF \/ backup[s] = "unowned"
          \/ target[p] # Absent /\ target[p] # UpperContent(s, p)
       THEN Refuse(s)
       ELSE /\ target' = [target EXCEPT ![p] = UpperContent(s, p)]
            /\ Done(s, p)
            /\ UNCHANGED <<upper, unsynced, preimages, ledger, slot, backup, meta, run, lock,
                           op, sel, mem, edits, faults>>

\* Mutant: the path is not checked again before it is written.
PublishUnchecked(s, p) ==
    /\ pc[s] = "publish" /\ p \in todo[s]
    /\ whiteout(s, p) \/ \A q \in todo[s] : ~whiteout(s, q)
    /\ target' = [target EXCEPT ![p] = desired_fingerprint(s, p)]
    /\ Done(s, p)
    /\ UNCHANGED <<upper, unsynced, preimages, ledger, slot, backup, meta, run, lock,
                   op, sel, mem, edits, faults>>

\* apply_selected_directory_checked, for one path: whiteouts come first.
Publish(s, p) ==
    /\ pc[s] = "publish" /\ p \in todo[s]
    /\ whiteout(s, p) \/ \A q \in todo[s] : ~whiteout(s, q)
    /\ IF ~(slot[s][p] # None /\ target[p] = Absent) /\ ~validate_target_path(s, p)
       THEN Refuse(s)
       ELSE /\ target' = [target EXCEPT ![p] = desired_fingerprint(s, p)]
            /\ Done(s, p)
            /\ UNCHANGED <<upper, unsynced, preimages, ledger, slot, backup, meta, run, lock,
                           op, sel, mem, edits, faults>>

\* persist_directory_preimage: a replaced directory is the new baseline.
Rebase(s, p) ==
    /\ pc[s] = "rebase" /\ p \in todo[s]
    /\ preimages' = [preimages EXCEPT ![s][p] = UpperContent(s, p)]
    /\ Sync(s)
    /\ Done(s, p)
    /\ UNCHANGED <<target, upper, ledger, slot, backup, meta, run, lock, op, sel,
                   mem, edits, faults>>

-----------------------------------------------------------------------------
(* Completing an apply.                                                     *)

\* mark_apply_target_applied.
Mark(s) ==
    /\ pc[s] = "mark"
    /\ ledger' = [ledger EXCEPT ![s].state = "TargetApplied"]
    /\ Sync(s)
    /\ Goto(s, "prune", sel[s])
    /\ UNCHANGED <<target, upper, preimages, slot, backup, meta, run, lock, op,
                   sel, mem, edits, faults>>

\* Removing an upper entry: a tree loses its entries one by one.
RemoveUpper(s, p) ==
    LET partly == Opaque(s, p) /\ upper[s][p] = "full"
    IN  /\ upper' = [upper EXCEPT ![s][p] = IF partly THEN "torn" ELSE "gone"]
        /\ unsynced' = [unsynced EXCEPT ![s] = @ \cup ({p} \cap Staged(s))]
        /\ IF partly THEN UNCHANGED <<pc, todo>> ELSE Done(s, p)
        /\ UNCHANGED <<target, preimages, ledger, slot, backup, meta, run, lock, op,
                       sel, mem, edits, faults>>

\* prune_selected_upper, for one entry.
Prune(s, p) ==
    /\ pc[s] = "prune" /\ p \in todo[s]
    /\ RemoveUpper(s, p)

\* The rest of complete_target_applied.
Settle(s) ==
    /\ pc[s] = "settle"
    /\ LET state == IF Staged(s) = {} THEN "Applied" ELSE "Staged"
       IN  /\ mem' = [mem EXCEPT ![s].state = state]
           /\ meta' = [meta EXCEPT ![s] = [mem[s] EXCEPT !.state = state]]
    /\ Sync(s)
    /\ Goto(s, "consume", {})
    /\ UNCHANGED <<target, upper, preimages, ledger, slot, backup, run, lock, op,
                   sel, edits, faults>>

\* consume_applied_preimages.
Consume(s) ==
    /\ pc[s] = "consume"
    /\ preimages' = [preimages EXCEPT ![s] =
           [p \in Paths |->
               IF p \in sel[s] /\ ~(Opaque(s, p) /\ upper[s][p] # "gone")
               THEN None ELSE @[p]]]
    /\ Sync(s)
    /\ Goto(s, "commit", {})
    /\ UNCHANGED <<target, upper, ledger, slot, backup, meta, run, lock, op, sel,
                   mem, edits, faults>>

\* mark_apply_committed.
Commit(s) ==
    /\ pc[s] = "commit"
    /\ ledger' = [ledger EXCEPT ![s].state = "Committed"]
    /\ Sync(s)
    /\ Goto(s, "clean", {})
    /\ UNCHANGED <<target, upper, preimages, slot, backup, meta, run, lock, op,
                   sel, mem, edits, faults>>

\* What follows a removed backup: the sweep goes on with the operation, the
\* end of an apply goes back to the caller, which publishes the Run record.
AfterCleanup(s) ==
    CASE pc[s] \in {"sweep", "sweeping"} ->
             Goto(s, "enter", {}) /\ UNCHANGED <<lock, op, sel, mem>>
      [] pc[s] \in {"clean", "cleaning"} /\ op[s] = "apply" ->
             Goto(s, "save", {}) /\ Release(s) /\ UNCHANGED <<op, sel, mem>>
      [] OTHER -> Return(s)

\* cleanup_apply_backups: open_backup_dir wants the ownership receipt.
OpenBackup(s) ==
    /\ pc[s] \in {"sweep", "clean"}
    /\ CASE backup[s] = "none"    -> AfterCleanup(s)
         [] backup[s] = "owned"   -> /\ Goto(s, IF pc[s] = "sweep" THEN "sweeping"
                                                ELSE "cleaning", {})
                                     /\ UNCHANGED <<lock, op, sel, mem>>
         [] backup[s] = "unowned" -> Return(s)
    /\ UNCHANGED <<disk, edits, faults>>

\* remove_dir_all of the backup directory: the receipt and the originals go in
\* the order of the directory, then the directory itself.
RemoveReceipt(s) ==
    /\ pc[s] \in {"sweeping", "cleaning"}
    /\ backup[s] = "owned"
    /\ backup' = [backup EXCEPT ![s] = "unowned"]
    /\ UNCHANGED <<target, upper, unsynced, preimages, ledger, slot, meta, run, lock, pc, op,
                   sel, todo, mem, edits, faults>>

RemoveOriginal(s, p) ==
    /\ pc[s] \in {"sweeping", "cleaning"}
    /\ slot[s][p] # None
    /\ slot' = [slot EXCEPT ![s][p] = None]
    /\ UNCHANGED <<target, upper, unsynced, preimages, ledger, backup, meta, run, lock, pc, op,
                   sel, todo, mem, edits, faults>>

RemoveBackup(s) ==
    /\ pc[s] \in {"sweeping", "cleaning"}
    /\ backup[s] = "unowned" /\ \A p \in Paths : slot[s][p] = None
    /\ backup' = [backup EXCEPT ![s] = "none"]
    /\ AfterCleanup(s)
    /\ UNCHANGED <<target, upper, unsynced, preimages, ledger, slot, meta, run, edits, faults>>

\* Mutant: the caller moves the generation of its own copy on.
SaveStale(s) ==
    /\ pc[s] = "save"
    /\ run' = [run EXCEPT ![s].gen = @ + 1]
    /\ Sync(s)
    /\ Return(s)
    /\ UNCHANGED <<target, upper, preimages, ledger, slot, backup, meta, edits, faults>>

\* The caller publishes the new generation in the Run record.
Save(s) ==
    /\ pc[s] = "save"
    /\ run' = [run EXCEPT ![s] = [mem[s] EXCEPT !.gen = @ + 1]]
    /\ Sync(s)
    /\ Return(s)
    /\ UNCHANGED <<target, upper, preimages, ledger, slot, backup, meta, edits, faults>>

-----------------------------------------------------------------------------
(* discard_overlay.                                                         *)

Discard(s) ==
    /\ pc[s] = "enter" /\ op[s] = "drop"
    /\ IF has_pending_applies(s) \/ mem[s].state # "Staged"
       THEN Refuse(s)
       ELSE /\ IF Staged(s) # {} THEN Goto(s, "clear", Staged(s)) ELSE Goto(s, "discard", {})
            /\ UNCHANGED <<disk, lock, op, sel, mem, edits, faults>>

\* cleanup_terminal_overlay_data, for one entry.
Clear(s, p) ==
    /\ pc[s] = "clear" /\ p \in todo[s]
    /\ RemoveUpper(s, p)

Discarded(s) ==
    /\ pc[s] = "discard"
    /\ mem' = [mem EXCEPT ![s].state = "Discarded"]
    /\ meta' = [meta EXCEPT ![s] = mem'[s]]
    /\ Sync(s)
    /\ Goto(s, "save", {})
    /\ Release(s)
    /\ UNCHANGED <<target, upper, preimages, ledger, slot, backup, run, op, sel,
                   edits, faults>>

-----------------------------------------------------------------------------
(* The environment.                                                         *)

\* Another program changes the target; it does not know of the locks.
Edit(p, c) ==
    /\ edits + faults < MaxTroubles
    /\ target[p] # c
    /\ target' = [target EXCEPT ![p] = c]
    /\ edits' = edits + 1
    /\ UNCHANGED <<upper, unsynced, preimages, ledger, slot, backup, meta, run, lock, pc, op,
                   sel, todo, mem, faults>>

\* The process dies, or a call fails and its error is returned.
Abort(s) ==
    /\ pc[s] # "idle"
    /\ edits + faults < MaxTroubles
    /\ faults' = faults + 1
    /\ Return(s)
    /\ UNCHANGED <<disk, edits>>

\* Power is lost.  Renames in the target and records are synced where they are
\* made; entries just removed from the upper are not and can be there again.
PowerLoss(back) ==
    /\ edits + faults < MaxTroubles
    /\ faults' = faults + 1
    /\ upper' = [s \in Stages |-> [p \in Paths |->
                    IF <<s, p>> \in back THEN "full" ELSE upper[s][p]]]
    /\ unsynced' = [s \in Stages |-> {}]
    /\ pc' = [s \in Stages |-> "idle"]
    /\ op' = [s \in Stages |-> "none"]
    /\ sel' = [s \in Stages |-> {}]
    /\ todo' = sel'
    /\ mem' = [s \in Stages |-> NoRecord]
    /\ lock' = None
    /\ UNCHANGED <<target, preimages, ledger, slot, backup, meta, run, edits>>

Removed == {r \in Stages \X Paths : r[2] \in unsynced[r[1]]}

\* A step of the operation in progress on s.
Step(s) ==
    \/ Lock(s) \/ Sweep(s) \/ Resume(s) \/ Recovered(s) \/ Prepare(s)
    \/ Check(s) \/ Mark(s) \/ Settle(s) \/ Consume(s) \/ Commit(s)
    \/ OpenBackup(s) \/ RemoveReceipt(s) \/ RemoveBackup(s) \/ Save(s)
    \/ Discard(s) \/ Discarded(s)
    \/ \E p \in Paths : \/ Restore(s, p) \/ BackUp(s, p) \/ Install(s, p)
                        \/ Publish(s, p) \/ Rebase(s, p) \/ Prune(s, p)
                        \/ RemoveOriginal(s, p) \/ Clear(s, p)

Next ==
    \/ \E s \in Stages : Step(s) \/ Abort(s)
    \/ \E s \in Stages, o \in {"apply", "recover", "drop"}, paths \in SUBSET Paths :
           Begin(s, o, paths)
    \/ \E p \in Paths, c \in {Foreign, Absent} : Edit(p, c)
    \/ \E back \in SUBSET Removed : PowerLoss(back)

Spec == Init /\ [][Next]_vars

-----------------------------------------------------------------------------
(* The contract.                                                            *)

Prepared(s) == IF ledger[s].state = "Prepared" THEN ledger[s].paths ELSE {}

\* The paths the stage may not publish again.
Closed(s) ==
    IF meta[s].state \in Terminal THEN Paths
    ELSE {p \in Paths : \/ preimages[s][p] = None
                        \/ ledger[s].state = "TargetApplied" /\ p \in ledger[s].paths}

Offer(s, p) ==
    IF p \in Closed(s) \/ upper[s][p] = "gone" THEN None ELSE desired_fingerprint(s, p)

\* The stages with an unfinished apply that have moved the original of p aside.
MovedAside(p) == {s \in Stages : p \in Prepared(s) /\ slot[s][p] # None}

\* The target with the originals of unfinished applies back in place.
Content(p) ==
    IF target[p] = Absent /\ MovedAside(p) # {}
    THEN slot[CHOOSE s \in MovedAside(p) : TRUE][p]
    ELSE target[p]

Contract == INSTANCE StageContract WITH
    content <- [p \in Paths |-> Content(p)],
    offer <- [s \in Stages |-> [p \in Paths |-> Offer(s, p)]],
    open <- [s \in Stages |-> Prepared(s)],
    closed <- [s \in Stages |-> Closed(s)]

\* The ledger, the backups and the target lock implement the contract of
\* StageContract: a batch of selected changes opens only over the contents the
\* stage was made from, its steps write over nothing but those contents and
\* what it wrote itself, the originals moved aside count as still in place
\* until the batch is marked TargetApplied, and a change that was applied or
\* dropped is never written again, whatever crashes, recoveries, power losses
\* and edits come in between.
ImplementsContract == Contract!Spec

\* The content a finished apply left at p, if nobody has edited the target.
LandedAt(s, p) ==
    target[p] = Torn[s] \/ target[p] = IF whiteout(s, p) THEN Absent ELSE s

\* Another stage has prepared an apply over the same path, or finished one.
Crossed(s, p) ==
    \E t \in Stages \ {s} : \/ p \in ledger[t].paths
                            \/ Change[t][p] # "none" /\ preimages[t][p] = None

LandedUnless(s, excused(_, _)) ==
    ledger[s].state \in {"TargetApplied", "Committed"} =>
        \A p \in ledger[s].paths : excused(s, p) \/ LandedAt(s, p)

\* Once its batch is marked TargetApplied every selected change is in the
\* target and stays there: no recovery, of this stage or of one that touches
\* other paths, brings an original back over it, and no selected change is
\* skipped because it looked done (apply_prepared_target and
\* restore_interrupted_replacements under interrupted recoveries).
AppliesLand == edits = 0 => \A s \in Stages : LandedUnless(s, Crossed)

\* The same for every path, as `apply` is documented: a target path that
\* changed after staging is a conflict, so a stage never undoes what another
\* stage's finished apply left.
AppliesStand ==
    edits = 0 => \A s \in Stages : LandedUnless(s, LAMBDA t, p : FALSE)

\* A pending apply keeps the generation under which its overlay is read back
\* from the Run record, even when the crash came after the terminal record was
\* published: recover_pending_applies is never refused by its own fence.
PendingMatches ==
    \A s \in Stages : has_pending_applies(s) =>
        ledger[s].gen = reconcile_terminal_overlay(s, ReadRun(s)).gen

\* A Run whose changes were all applied or dropped stays so: no read, apply,
\* recovery or drop brings its overlay back to Staged, and no later generation
\* turns Applied into Discarded or back (reconcile_terminal_overlay against the
\* stale copy in the Run record).
TerminalStands ==
    [][\A s \in Stages : ReadRun(s).state \in Terminal =>
           ReadRun(s)'.state = ReadRun(s).state]_vars

-----------------------------------------------------------------------------
\* The process runs on, the lock is a queue in the kernel, and the reconciliation
\* that apply and drop ask for is called as long as an apply is pending.
Fairness ==
    \A s \in Stages : /\ WF_vars(Step(s))
                      /\ SF_vars(Lock(s))
                      /\ WF_vars(has_pending_applies(s) /\ Begin(s, "recover", {}))

FairSpec == Spec /\ Fairness

\* An interrupted apply recovers forward: as long as nobody edits the target
\* and no other stage has prepared an apply over the same paths, repeated
\* recovery ends with the batch committed, from whatever step it was
\* interrupted in, the recovery's own steps included.  A stage has finitely
\* many changes to apply, so no batch stays pending.
RecoversForward ==
    []<>(\A s \in Stages : \/ ~has_pending_applies(s)
                           \/ edits > 0
                           \/ \E p \in ledger[s].paths : Crossed(s, p))
=============================================================================
