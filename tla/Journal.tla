------------------------------ MODULE Journal ------------------------------
(***************************************************************************)
(* The durable trace journal of pvisor-journal: one JSONL file with a      *)
(* header line and one line per event, written by the holder of an         *)
(* exclusive lock.                                                         *)
(*                                                                         *)
(* `file' is what the kernel shows to readers, `disk' what a power loss is *)
(* certain to leave, `linked' whether the file's directory entry is        *)
(* durable.  `phase' is where the lock holder is in open or append; the    *)
(* journal mutex and the file lock make it the only one, and an open that  *)
(* finds the lock taken changes nothing.  A client may submit any event at *)
(* any time and retry it as often as it likes, with or without having seen *)
(* an earlier outcome: cancelling the waiter of append_async leaves the    *)
(* accepted append running.                                                *)
(*                                                                         *)
(* An unsynced write survives a power loss whole, in part, or not at all;  *)
(* a successful fsync makes every byte of the file durable.  FsyncLinks    *)
(* says whether it makes a new file's directory entry durable as well,     *)
(* which the file systems in common use do and POSIX does not promise.     *)
(***************************************************************************)
EXTENDS Causality, Naturals, Sequences

CONSTANTS
  Data,        \* everything of an event but its identity and causes
  Unreadable,  \* payloads nested deeper than the reader's JSON limit
  Event,       \* the events clients submit
  MaxCauses,   \* the bound on causal references (64 in the code)
  FsyncLinks   \* whether fsync of a file makes its directory entry durable

ASSUME EventAssumption ==
  /\ Event \subseteq [id : Id, caused_by : SUBSET Id, data : Data]
  /\ Unreadable \subseteq Data
  /\ MaxCauses \in Nat

ASSUME FsyncLinksAssumption == FsyncLinks \in BOOLEAN

VARIABLES
  file,        \* the file as the page cache has it
  disk,        \* the file as it is after a power loss
  linked,      \* the directory entry is durable
  phase,       \* step of the lock holder
  cur,         \* the event of the append in progress, as a set
  seen,        \* State::seen, identity |-> line of its record
  causes,      \* State::causes
  unresolved,  \* State::unresolved
  poisoned,    \* State::poisoned
  receipts,    \* history: lines for which a LocalSync receipt was returned
  rejected,    \* history: events for which Rejected was returned
  notified,    \* history: events sent to live subscribers, in order
  exported     \* history: the bytes of the last snapshot

handle == <<seen, causes, unresolved, poisoned>>
history == <<receipts, rejected, notified, exported>>
vars == <<file, disk, linked, phase, cur, handle, history>>

Line == [ok : BOOLEAN, offset : Nat, event : Event]
Contents == [header : {"none", "torn", "whole"}, lines : Seq(Line),
             torn : BOOLEAN]
NoFile == [header |-> "none", lines |-> <<>>, torn |-> FALSE]
EmptyIndex == [x \in {} |-> {}]

Record(e, offset) == [ok |-> TRUE, offset |-> offset, event |-> e]

Ids(lines) == {lines[i].event.id : i \in DOMAIN lines}

(* The log s is the beginning of the log t.                                *)
PrefixLog(s, t) == Len(s) <= Len(t) /\ \A i \in DOMAIN s : s[i] = t[i]

(* The line of the (only) record with identity x.                          *)
LineOf(lines, x) == lines[CHOOSE i \in DOMAIN lines : lines[i].event.id = x]

SeenOf(lines) == [x \in Ids(lines) |-> LineOf(lines, x)]
CausesOf(lines) == [x \in Ids(lines) |-> LineOf(lines, x).event.caused_by]

-----------------------------------------------------------------------------
(* Event::validate: an event never names itself and names few causes.      *)
Valid(e) ==
  /\ e.id \notin e.caused_by
  /\ Cardinality(e.caused_by) <= MaxCauses

(* The identity is taken by an event with another digest.                  *)
Conflicts(e) == e.id \in DOMAIN seen /\ seen[e.id].event # e

(* Only an identity that is already referred to can close a cycle.         *)
ClosesCycle(e) ==
  /\ e.id \in unresolved
  /\ e.id \in Reached(e.caused_by, causes)

(* The reasons for which append rejects a request, in source order.  The   *)
(* first does not look at the handle; a poisoned handle answers Unknown    *)
(* before the others are reached.                                          *)
Rejects(e) ==
  \/ ~Valid(e)
  \/ /\ ~poisoned
     /\ \/ Conflicts(e)
        \/ /\ e.id \notin DOMAIN seen
           /\ ClosesCycle(e) \/ e.data \in Unreadable

(* append writes the record at the end of the file.  After a torn tail the *)
(* new bytes complete a line that holds neither record.                    *)
Written(f, e, offset) ==
  [f EXCEPT !.lines = Append(@, [ok |-> ~f.torn, offset |-> offset,
                                 event |-> e]),
            !.torn = FALSE]

(* scan accepts a file.                                                    *)
Scans(f) ==
  /\ f.header = "whole"
  /\ \A i \in DOMAIN f.lines :
        /\ f.lines[i].ok
        /\ f.lines[i].offset = i - 1
        /\ Valid(f.lines[i].event)
  /\ \A i, j \in DOMAIN f.lines :
        f.lines[i].event.id = f.lines[j].event.id => i = j
  /\ Acyclic(CausesOf(f.lines))

(* Mutant: the truncation also takes the last complete line.               *)
RepairedTooShort(f) ==
  [f EXCEPT !.lines = SubSeq(@, 1, Len(@) - 1), !.torn = FALSE]

(* scan with repair_tail truncates an unfinished last line.                *)
Repaired(f) == [f EXCEPT !.torn = FALSE]

(* Mutants: a resolved reference is not removed; a new one not inserted.   *)
UnresolvedKeepsResolved(e) ==
  unresolved \cup (e.caused_by \ (DOMAIN seen \cup {e.id}))
UnresolvedForgets(e) == unresolved \ {e.id}

(* The unresolved references after the record of e is committed.           *)
UnresolvedAfter(e) ==
  (unresolved \ {e.id}) \cup (e.caused_by \ (DOMAIN seen \cup {e.id}))

-----------------------------------------------------------------------------
Init ==
  /\ file = NoFile /\ disk = NoFile /\ linked = FALSE
  /\ phase = "closed" /\ cur = {}
  /\ seen = EmptyIndex /\ causes = EmptyIndex
  /\ unresolved = {} /\ poisoned = FALSE
  /\ receipts = {} /\ rejected = {} /\ notified = <<>>
  /\ exported = NoFile

(* The handle open returns: the index of the file it scanned.              *)
Adopt ==
  /\ phase' = "open"
  /\ seen' = SeenOf(file.lines)
  /\ causes' = CausesOf(file.lines)
  /\ unresolved' = Dangling(CausesOf(file.lines))
  /\ poisoned' = FALSE

(* open of an empty file writes the header; an error may leave part of it. *)
OpenNew ==
  /\ phase = "closed" /\ file.header = "none"
  /\ \E h \in {"none", "torn", "whole"} :
        /\ file' = [file EXCEPT !.header = h]
        /\ phase' = IF h = "whole" THEN "header" ELSE "closed"
  /\ UNCHANGED <<disk, linked, cur, handle, history>>

(* file.sync_all after the header.                                         *)
SyncHeader ==
  /\ phase = "header"
  /\ disk' = file
  /\ linked' = (linked \/ FsyncLinks)
  /\ phase' = "directory"
  /\ UNCHANGED <<file, cur, handle, history>>

(* Persistence::sync_directory, then the sync_all every open ends with,    *)
(* which finds nothing to write.                                           *)
SyncDirectory ==
  /\ phase = "directory"
  /\ linked' = TRUE
  /\ Adopt
  /\ UNCHANGED <<file, disk, cur, history>>

(* open of a file that is not empty: scan, truncating an unfinished tail.  *)
OpenExisting ==
  /\ phase = "closed" /\ Scans(file)
  /\ file' = Repaired(file)
  /\ phase' = "recovered"
  /\ UNCHANGED <<disk, linked, cur, handle, history>>

(* Mutant: open trusts the scanned bytes without syncing them.             *)
RecoveredUnsynced ==
  /\ phase = "recovered"
  /\ Adopt
  /\ UNCHANGED <<file, disk, linked, cur, history>>

(* The sync_all that makes a record left by a lost acknowledgement durable *)
(* before a retry can get a receipt for it.                                *)
SyncRecovered ==
  /\ phase = "recovered"
  /\ disk' = file
  /\ linked' = (linked \/ FsyncLinks)
  /\ Adopt
  /\ UNCHANGED <<file, cur, history>>

(* A sync that fails during open: the error drops the file and its lock.   *)
OpenFails ==
  /\ phase \in {"header", "directory", "recovered"}
  /\ phase' = "closed"
  /\ UNCHANGED <<file, disk, linked, cur, handle, history>>

-----------------------------------------------------------------------------
AppendRejected(e) ==
  /\ phase = "open" /\ Rejects(e)
  /\ rejected' = rejected \cup {e}
  /\ UNCHANGED <<file, disk, linked, phase, cur, handle, receipts, notified,
                 exported>>

(* Mutant: a retry is announced to subscribers again.                      *)
RetriedNotifies(e) ==
  /\ phase = "open" /\ ~poisoned /\ Valid(e)
  /\ e.id \in DOMAIN seen /\ seen[e.id].event = e
  /\ receipts' = receipts \cup {Record(e, seen[e.id].offset)}
  /\ notified' = Append(notified, e)
  /\ UNCHANGED <<file, disk, linked, phase, cur, handle, rejected, exported>>

(* The identical event again: its original receipt, and no notification.   *)
AppendRetried(e) ==
  /\ phase = "open" /\ ~poisoned /\ Valid(e)
  /\ e.id \in DOMAIN seen /\ seen[e.id].event = e
  /\ receipts' = receipts \cup {Record(e, seen[e.id].offset)}
  /\ UNCHANGED <<file, disk, linked, phase, cur, handle, rejected, notified,
                 exported>>

Accepts(e) ==
  phase = "open" /\ ~poisoned /\ ~Rejects(e) /\ e.id \notin DOMAIN seen

(* write_all of the record.                                                *)
AppendWrite(e) ==
  /\ Accepts(e)
  /\ file' = Written(file, e, Cardinality(DOMAIN seen))
  /\ cur' = {e}
  /\ phase' = "written"
  /\ UNCHANGED <<disk, linked, handle, history>>

(* A seek or write error leaves nothing or part of the record, and poisons *)
(* every clone of the handle.                                              *)
AppendWriteFails(e) ==
  /\ Accepts(e)
  /\ \E t \in {file.torn, TRUE} : file' = [file EXCEPT !.torn = t]
  /\ poisoned' = TRUE
  /\ UNCHANGED <<disk, linked, phase, cur, seen, causes, unresolved, history>>

AppendSync ==
  /\ phase = "written"
  /\ disk' = file
  /\ linked' = (linked \/ FsyncLinks)
  /\ phase' = "synced"
  /\ UNCHANGED <<file, cur, handle, history>>

(* Mutants: a failed sync is reported as a rejection; it does not poison.  *)
SyncFailsRejected ==
  /\ phase = "written"
  /\ poisoned' = TRUE /\ rejected' = rejected \cup cur
  /\ cur' = {}
  /\ phase' = "open"
  /\ UNCHANGED <<file, disk, linked, seen, causes, unresolved, receipts,
                 notified, exported>>
SyncFailsUnpoisoned ==
  /\ phase = "written"
  /\ cur' = {}
  /\ phase' = "open"
  /\ UNCHANGED <<file, disk, linked, handle, history>>

(* The record is complete in the file and its durability is unknown.       *)
AppendSyncFails ==
  /\ phase = "written"
  /\ poisoned' = TRUE
  /\ cur' = {}
  /\ phase' = "open"
  /\ UNCHANGED <<file, disk, linked, seen, causes, unresolved, history>>

(* The rest of append, still under the mutex: index, notify, acknowledge.  *)
AppendCommit ==
  /\ phase = "synced"
  /\ \E e \in cur :
       LET record == Record(e, Cardinality(DOMAIN seen))
       IN  /\ seen' = [x \in DOMAIN seen \cup {e.id} |->
                         IF x = e.id THEN record ELSE seen[x]]
           /\ unresolved' = UnresolvedAfter(e)
           /\ causes' = Extended(causes, e.id, e.caused_by)
           /\ notified' = Append(notified, e)
           /\ receipts' = receipts \cup {record}
  /\ cur' = {}
  /\ phase' = "open"
  /\ UNCHANGED <<file, disk, linked, poisoned, rejected, exported>>

(* Mutant: a poisoned handle may be exported.                              *)
SnapshotPoisoned ==
  /\ phase = "open"
  /\ disk' = file
  /\ linked' = (linked \/ FsyncLinks)
  /\ exported' = file
  /\ UNCHANGED <<file, phase, cur, handle, receipts, rejected, notified>>

(* snapshot_to: sync the source and copy its bytes, under the mutex.       *)
SnapshotTo ==
  /\ phase = "open" /\ ~poisoned
  /\ disk' = file
  /\ linked' = (linked \/ FsyncLinks)
  /\ exported' = file
  /\ UNCHANGED <<file, phase, cur, handle, receipts, rejected, notified>>

-----------------------------------------------------------------------------
Forgotten ==
  /\ phase' = "closed" /\ cur' = {}
  /\ seen' = EmptyIndex /\ causes' = EmptyIndex
  /\ unresolved' = {} /\ poisoned' = FALSE

(* The last owner drops the handle, or the process dies at any point: the  *)
(* kernel keeps the bytes written so far and releases the lock.            *)
Stop ==
  /\ phase # "closed"
  /\ Forgotten
  /\ UNCHANGED <<file, disk, linked, history>>

(* What a power loss may leave of an unsynced file.                        *)
Survivors ==
  {disk, file}
    \cup (IF Len(file.lines) > Len(disk.lines)
          THEN {[disk EXCEPT !.torn = TRUE]} ELSE {})
    \cup (IF disk.header = "none" /\ file.header # "none"
          THEN {[disk EXCEPT !.header = "torn"]} ELSE {})
    \cup (IF linked THEN {} ELSE {NoFile})

PowerLoss ==
  /\ \E s \in Survivors : file' = s /\ disk' = s /\ linked' = (s # NoFile)
  /\ Forgotten
  /\ UNCHANGED history

Submit(e) ==
  \/ AppendRejected(e) \/ AppendRetried(e)
  \/ AppendWrite(e) \/ AppendWriteFails(e)

Next ==
  \/ OpenNew \/ SyncHeader \/ SyncDirectory
  \/ OpenExisting \/ SyncRecovered \/ OpenFails
  \/ \E e \in Event : Submit(e)
  \/ AppendSync \/ AppendSyncFails \/ AppendCommit
  \/ SnapshotTo \/ Stop \/ PowerLoss

Spec == Init /\ [][Next]_vars

-----------------------------------------------------------------------------
TypeOK ==
  /\ file \in Contents /\ disk \in Contents /\ linked \in BOOLEAN
  /\ phase \in {"closed", "header", "directory", "recovered", "open",
                "written", "synced"}
  /\ cur \subseteq Event
  /\ DOMAIN seen \subseteq Id /\ \A x \in DOMAIN seen : seen[x] \in Line
  /\ DOMAIN causes \subseteq Id
  /\ \A x \in DOMAIN causes : causes[x] \subseteq Id
  /\ unresolved \subseteq Id /\ poisoned \in BOOLEAN
  /\ receipts \subseteq Line /\ rejected \subseteq Event
  /\ notified \in Seq(Event) /\ exported \in Contents

(* A LocalSync receipt survives everything: at every later moment, power   *)
(* losses included, the durable file holds that record at that offset and  *)
(* a directory entry leads to it.                                          *)
ReceiptDurable ==
  \A r \in receipts :
     /\ linked
     /\ r.offset + 1 \in DOMAIN disk.lines
     /\ disk.lines[r.offset + 1] = r

(* Rejected means not committed, for good: no later crash, recovery or     *)
(* retry brings a rejected event into the journal.                         *)
RejectedNeverStored ==
  \A f \in {file, disk} : \A i \in DOMAIN f.lines :
     f.lines[i].event \notin rejected

(* Whatever step a crash interrupts, open never meets a complete line that *)
(* it cannot accept: no corrupt record, position gap, repeated identity or *)
(* causal cycle.                                                           *)
Recoverable ==
  \A f \in {file, disk} : f.header = "whole" => Scans(f)

(* The index that append maintains incrementally is the one a reopen would *)
(* compute from the file.                                                  *)
IndexExact ==
  phase = "open" /\ ~poisoned =>
     /\ seen = SeenOf(file.lines)
     /\ causes = CausesOf(file.lines)
     /\ unresolved = Dangling(causes)

(* Subscribers hear of an event at most once over the life of the file,    *)
(* and only after its record is durable.                                   *)
NotifiedOnce ==
  /\ \A i, j \in DOMAIN notified : notified[i].id = notified[j].id => i = j
  /\ \A i \in DOMAIN notified :
       \E k \in DOMAIN disk.lines : disk.lines[k].event = notified[i]

(* An exported snapshot is a journal that read accepts, without torn tail, *)
(* and stays a prefix of the durable one.                                  *)
SnapshotIsPrefix ==
  exported # NoFile =>
     /\ Scans(exported) /\ ~exported.torn
     /\ PrefixLog(exported.lines, disk.lines)

(* What is durable is never overwritten, reordered or truncated.           *)
DurableGrows == [][linked => PrefixLog(disk.lines, disk.lines')]_vars

-----------------------------------------------------------------------------
(* The inductive invariant behind the theorems of JournalProofs.  A log is *)
(* sound when scan accepts its lines; the durable log is a prefix of the   *)
(* visible one; a usable handle indexes exactly the visible log, without   *)
(* the record of the append in progress; and a record that may still be    *)
(* lost carries no receipt, rejection, notification or export.             *)
SoundLog(lines) ==
  /\ \A i \in DOMAIN lines :
        /\ lines[i].ok /\ lines[i].offset = i - 1 /\ Valid(lines[i].event)
        /\ lines[i].event.data \notin Unreadable
  /\ \A i, j \in DOMAIN lines : lines[i].event.id = lines[j].event.id => i = j
  /\ IsFiniteSet(Ids(lines)) /\ Cardinality(Ids(lines)) = Len(lines)
  /\ Acyclic(CausesOf(lines))

IndexedBut(lines, ids) ==
  /\ seen = [x \in Ids(lines) \ ids |-> LineOf(lines, x)]
  /\ causes = [x \in Ids(lines) \ ids |-> LineOf(lines, x).event.caused_by]
  /\ unresolved = Dangling(causes)

FileInv ==
  /\ SoundLog(file.lines) /\ SoundLog(disk.lines)
  /\ PrefixLog(disk.lines, file.lines)
  /\ \A f \in {file, disk} : f.header # "whole" => f.lines = <<>> /\ ~f.torn
  /\ phase # "closed" => file.header = "whole"
  /\ phase \in {"open", "written"} \/ file.lines # <<>> =>
        disk.header = "whole"
  /\ phase \in {"header", "directory"} => file.lines = <<>>
  /\ phase \in {"header", "directory", "recovered"} => ~file.torn
  /\ phase \in {"directory", "synced"} => disk = file

HandleInv ==
  /\ phase \notin {"written", "synced"} => cur = {}
  /\ phase = "open" /\ ~poisoned =>
        /\ disk = file /\ ~file.torn
        /\ IndexedBut(file.lines, {})
  /\ phase \in {"written", "synced"} =>
        /\ ~poisoned /\ ~file.torn
        /\ \E e \in Event :
             /\ cur = {e} /\ e.id \notin DOMAIN seen
             /\ IndexedBut(file.lines, {e.id})
             /\ Cardinality(DOMAIN seen) + 1 = Len(file.lines)
             /\ file.lines[Len(file.lines)] =
                   Record(e, Cardinality(DOMAIN seen))

ReceiptInv ==
  FsyncLinks =>
    /\ \A r \in receipts : /\ r.offset + 1 \in DOMAIN disk.lines
                           /\ disk.lines[r.offset + 1] = r
    /\ ~linked => /\ file.lines = <<>>
                  /\ phase \in {"closed", "header", "recovered"}

IInv == TypeOK /\ FileInv /\ HandleInv /\ ReceiptInv

=============================================================================
