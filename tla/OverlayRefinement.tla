-------------------------- MODULE OverlayRefinement --------------------------
(***************************************************************************)
(* OverlayApply implements StageContract: the initial states map to        *)
(* initial states, and every step maps to a step of the contract or to a   *)
(* stutter, given the inductive invariant of OverlayProofs.                *)
(*                                                                         *)
(* Most steps stutter.  Prepare opens a batch, Install and Publish write   *)
(* one path of it, and Mark finishes it: there the originals still aside   *)
(* stop counting as the content of the target.  Settle and Discarded       *)
(* retire a stage; removing staged entries and a power loss that brings    *)
(* some back only spoil what a stage offers.                               *)
(*                                                                         *)
(* The last part is about the end of an operation: it is never stuck, and  *)
(* each of its steps is one less to take.                                  *)
(***************************************************************************)
EXTENDS OverlayProofs

\* The contract's variables.
content == [p \in Paths |-> Content(p)]
offer == [s \in Stages |-> [p \in Paths |-> Offer(s, p)]]
open == [s \in Stages |-> Prepared(s)]
closed == [s \in Stages |-> Closed(s)]
cvars == <<content, offer, open, closed, edits>>

-----------------------------------------------------------------------------
(* What the contract sees.                                                  *)

\* A path whose original is aside has that original as its content until
\* something is written in its place; every other path has what the target has.
ContentIs ==
    \A p \in Paths :
        /\ Content(p) \in Contents
        /\ target[p] # Absent => Content(p) = target[p]
        /\ (\A s \in Stages : ~Aside(s, p)) => Content(p) = target[p]
        /\ \A s \in Stages : Aside(s, p) /\ target[p] = Absent =>
               /\ Content(p) = slot[s][p]
               /\ Content(p) \in {Old, desired_fingerprint(s, p)}

\* What the invariant says of the contents of the target.
LEMMA Contained == IInv => ContentIs
<1> SUFFICES ASSUME IInv, NEW p \in Paths
             PROVE  /\ Content(p) \in Contents
                    /\ target[p] # Absent => Content(p) = target[p]
                    /\ (\A s \in Stages : ~Aside(s, p)) => Content(p) = target[p]
                    /\ \A s \in Stages : Aside(s, p) /\ target[p] = Absent =>
                           /\ Content(p) = slot[s][p]
                           /\ Content(p) \in {Old, desired_fingerprint(s, p)}
  BY DEF ContentIs
<1>1. \A s \in Stages : s \in MovedAside(p) <=> Aside(s, p)
  BY DEF MovedAside, Aside
<1>2. target[p] \in Contents
  BY DEF IInv, TypeOK
<1>3. target[p] # Absent => Content(p) = target[p]
  BY DEF Content
<1>4. (\A s \in Stages : ~Aside(s, p)) => Content(p) = target[p]
  <2>1. MovedAside(p) \subseteq Stages
    BY DEF MovedAside
  <2> QED
    BY <1>1, <2>1 DEF Content
<1>5. ASSUME NEW s \in Stages, Aside(s, p), target[p] = Absent
      PROVE  /\ Content(p) = slot[s][p] /\ Content(p) \in Contents
             /\ Content(p) \in {Old, desired_fingerprint(s, p)}
  <2>1. MovedAside(p) = {s}
    <3>1. \A t \in Stages : Aside(t, p) => t = s
      BY <1>5 DEF IInv, TargetInv
    <3> QED
      BY <1>5, <3>1 DEF MovedAside, Aside
  <2>2. Content(p) = slot[s][p]
    <3>1. (CHOOSE t \in MovedAside(p) : TRUE) = s
      BY <2>1
    <3> QED
      BY <1>5, <2>1, <3>1 DEF Content
  <2>3. slot[s][p] \in {Old, desired_fingerprint(s, p)}
    BY <1>5 DEF Aside, Prepared, IInv, DiskInv, BatchInv
  <2> QED
    BY <2>2, <2>3, OwnContents, Desired DEF IInv
<1>6. Content(p) \in Contents
  BY <1>2, <1>3, <1>4, <1>5
<1> QED
  BY <1>3, <1>4, <1>5, <1>6

\* The same in the next state.
LEMMA ContainedNext == IInv' => ContentIs'
  BY Contained, PTL

\* What is aside and what the target has decide the content.
LEMMA ContentKept ==
  ASSUME IInv, IInv', NEW p \in Paths, target'[p] = target[p],
         \A t \in Stages : /\ Aside(t, p)' = Aside(t, p)
                           /\ Aside(t, p) => slot'[t][p] = slot[t][p]
  PROVE  Content(p)' = Content(p)
<1>1. CASE target[p] # Absent
  BY <1>1, Contained, ContainedNext DEF ContentIs
<1>2. CASE \A t \in Stages : ~Aside(t, p)
  <2>1. Content(p) = target[p]
    BY <1>2, Contained DEF ContentIs
  <2>2. Content(p)' = target'[p]
    BY <1>2, ContainedNext DEF ContentIs
  <2> QED
    BY <2>1, <2>2
<1>3. ASSUME target[p] = Absent, NEW t \in Stages, Aside(t, p)
      PROVE  Content(p)' = Content(p)
  <2>1. Content(p) = slot[t][p]
    BY <1>3, Contained DEF ContentIs
  <2>2. Content(p)' = slot'[t][p]
    BY <1>3, ContainedNext DEF ContentIs
  <2> QED
    BY <1>3, <2>1, <2>2
<1> QED
  BY <1>1, <1>2, <1>3

\* The contract sees of a stage what is in its files.
SameFiles(t) ==
    /\ upper'[t] = upper[t] /\ preimages'[t] = preimages[t] /\ ledger'[t] = ledger[t]
    /\ slot'[t] = slot[t] /\ meta'[t] = meta[t]

\* A stage whose files are the same prepares, offers and closes the same.
LEMMA StageKept ==
  ASSUME NEW t \in Stages, SameFiles(t)
  PROVE  /\ Prepared(t)' = Prepared(t) /\ Closed(t)' = Closed(t)
         /\ \A p \in Paths : Offer(t, p)' = Offer(t, p) /\ Aside(t, p)' = Aside(t, p)
                             /\ slot'[t][p] = slot[t][p]
<1>1. Prepared(t)' = Prepared(t)
  BY DEF SameFiles, Prepared
<1>2. Closed(t)' = Closed(t)
  BY DEF SameFiles, Closed
<1>3. \A p \in Paths : desired_fingerprint(t, p)' = desired_fingerprint(t, p)
  BY DEF SameFiles, desired_fingerprint, UpperContent, whiteout
<1> QED
  BY <1>1, <1>2, <1>3 DEF SameFiles, Offer, Aside

\* Nothing the contract sees has changed.
LEMMA Stutters ==
  ASSUME \A p \in Paths : Content(p)' = Content(p),
         \A t \in Stages : /\ Prepared(t)' = Prepared(t) /\ Closed(t)' = Closed(t)
                           /\ \A p \in Paths : Offer(t, p)' = Offer(t, p),
         edits' = edits
  PROVE  UNCHANGED cvars
<1>1. content' = content
  BY DEF content
<1>2. offer' = offer
  BY DEF offer
<1>3. open' = open /\ closed' = closed
  BY DEF open, closed
<1> QED
  BY <1>1, <1>2, <1>3 DEF cvars

\* Steps that change no target, record or staged file.
LEMMA FilesKept ==
  ASSUME IInv, IInv', UNCHANGED <<target, upper, preimages, ledger, slot, meta, edits>>
  PROVE  UNCHANGED cvars
<1>1. \A t \in Stages : SameFiles(t)
  BY DEF SameFiles
<1>2. \A p \in Paths : Content(p)' = Content(p)
  BY <1>1, StageKept, ContentKept
<1> QED
  BY <1>1, <1>2, StageKept, Stutters

-----------------------------------------------------------------------------
(* The steps of the contract, in the terms of OverlayApply.                 *)

\* A batch opens.
LEMMA Opens ==
  ASSUME NEW s \in Stages, NEW P \in SUBSET Paths,
         Prepared(s) = {}, P \cap Closed(s) = {},
         \A p \in P : Offer(s, p) # None /\ Content(p) = Old,
         Prepared(s)' = P,
         \A t \in Stages \ {s} : Prepared(t)' = Prepared(t),
         \A p \in Paths : Content(p)' = Content(p),
         \A t \in Stages : /\ Closed(t)' = Closed(t)
                           /\ \A p \in Paths : Offer(t, p)' = Offer(t, p),
         edits' = edits
  PROVE  Contract!Next
<1>1. content' = content /\ offer' = offer /\ closed' = closed
  BY DEF content, offer, closed
<1>2. open' = [open EXCEPT ![s] = P]
  BY Zenon DEF open
<1>3. Contract!Open(s, P)
  BY <1>1, <1>2 DEF Contract!Open, content, offer, open, closed
<1> QED
  BY <1>3 DEF Contract!Next

\* A path of a batch is written.
LEMMA Writes ==
  ASSUME NEW s \in Stages, NEW q \in Prepared(s), q \in Paths,
         Content(q) \in {Old, Absent, Offer(s, q)}, Content(q)' = Offer(s, q),
         \A p \in Paths \ {q} : Content(p)' = Content(p),
         \A t \in Stages : /\ Prepared(t)' = Prepared(t) /\ Closed(t)' = Closed(t)
                           /\ \A p \in Paths : Offer(t, p)' = Offer(t, p),
         edits' = edits
  PROVE  Contract!Next
<1>1. offer' = offer /\ closed' = closed /\ open' = open
  BY DEF offer, closed, open
<1>2. content' = [p \in Paths |-> IF p \in {q} THEN offer[s][p] ELSE content[p]]
  BY DEF content, offer
<1>3. Contract!Writable(s, {q})
  BY DEF Contract!Writable, content, offer, open
<1>4. Contract!Write(s, {q})
  BY <1>1, <1>2, <1>3 DEF Contract!Write, content, offer, open, closed
<1>5. {q} \in SUBSET Paths
  OBVIOUS
<1> QED
  BY <1>4, <1>5 DEF Contract!Next

\* A stage retires.
LEMMA Retires ==
  ASSUME NEW s \in Stages, Prepared(s) = {}, Closed(s)' = Paths,
         \A p \in Paths : Offer(s, p)' = None,
         \A t \in Stages \ {s} : /\ Closed(t)' = Closed(t)
                                 /\ \A p \in Paths : Offer(t, p)' = Offer(t, p),
         \A p \in Paths : Content(p)' = Content(p),
         \A t \in Stages : Prepared(t)' = Prepared(t), edits' = edits
  PROVE  Contract!Next
<1>1. content' = content /\ open' = open
  BY DEF content, open
<1>2. closed' = [closed EXCEPT ![s] = Paths]
  BY Zenon DEF closed
<1>3. offer' = [offer EXCEPT ![s] = [p \in Paths |-> None]]
  BY Zenon DEF offer
<1>4. Contract!Retire(s)
  BY <1>1, <1>2, <1>3 DEF Contract!Retire, content, offer, open, closed
<1> QED
  BY <1>4 DEF Contract!Next

\* What the stages offer changes, but for what is closed.
LEMMA Spoils ==
  ASSUME \A t \in Stages : /\ Prepared(t)' = Prepared(t) /\ Closed(t)' = Closed(t)
                           /\ \A p \in Paths : Offer(t, p)' \in Contents \cup {None},
         \A p \in Paths : Content(p)' = Content(p), edits' = edits
  PROVE  Contract!Next
<1>1. content' = content /\ open' = open /\ closed' = closed
  BY DEF content, open, closed
<1>2. offer' \in [Stages -> [Paths -> Contents \cup {None}]]
  BY DEF offer
<1>3. \A t \in Stages : \A p \in closed[t] : offer'[t][p] = offer[t][p]
  BY Zenon DEF closed, offer, Offer, Closed
<1>4. Contract!Spoil
  BY <1>1, <1>2, <1>3 DEF Contract!Spoil, content, offer, open, closed
<1> QED
  BY <1>4 DEF Contract!Next

\* Someone edits the target.
LEMMA Edits ==
  ASSUME NEW q \in Paths, Content(q)' \in Contents,
         \A p \in Paths \ {q} : Content(p)' = Content(p),
         \A t \in Stages : /\ Prepared(t)' = Prepared(t) /\ Closed(t)' = Closed(t)
                           /\ \A p \in Paths : Offer(t, p)' = Offer(t, p),
         edits' = edits + 1
  PROVE  Contract!Next
<1>1. offer' = offer /\ closed' = closed /\ open' = open
  BY DEF offer, closed, open
<1>2. content' = [content EXCEPT ![q] = Content(q)']
  BY Zenon DEF content
<1>3. PICK c \in Contents : c = Content(q)'
  OBVIOUS
<1>4. Contract!Edit(q, c)
  BY <1>1, <1>2, <1>3 DEF Contract!Edit, content, offer, open, closed
<1> QED
  BY <1>4 DEF Contract!Next

\* A batch is finished.
LEMMA Finishes ==
  ASSUME NEW s \in Stages, NEW W \in SUBSET Paths, W \subseteq Prepared(s),
         \A p \in W : Content(p) \in {Old, Absent, Offer(s, p)},
         \A p \in Paths : Content(p)' \in Contents,
         \A p \in Paths \ W : Content(p)' = Content(p),
         \A p \in W : Content(p)' = Offer(s, p) \/ (edits > 0 /\ Content(p)' = Absent),
         Prepared(s)' = {}, Closed(s)' = Closed(s) \cup Prepared(s),
         \A p \in Paths : Offer(s, p)' = IF p \in Prepared(s) THEN None ELSE Offer(s, p),
         \A t \in Stages \ {s} : /\ Prepared(t)' = Prepared(t) /\ Closed(t)' = Closed(t)
                                 /\ \A p \in Paths : Offer(t, p)' = Offer(t, p),
         edits' = edits
  PROVE  Contract!Next
<1>1. content' \in [Paths -> Contents]
  BY DEF content
<1>2. \A p \in Paths :
          \/ p \notin W /\ content'[p] = content[p]
          \/ p \in W /\ content'[p] = offer[s][p]
          \/ p \in W /\ edits > 0 /\ content'[p] = Absent
  BY DEF content, offer
<1>3. open' = [open EXCEPT ![s] = {}]
  BY Zenon DEF open
<1>4. closed' = [closed EXCEPT ![s] = @ \cup open[s]]
  BY Zenon DEF closed, open
<1>5. offer' = [offer EXCEPT ![s] = [p \in Paths |-> IF p \in open[s] THEN None ELSE @[p]]]
  BY Zenon DEF offer, open
<1>6. Contract!Writable(s, W)
  BY Zenon DEF Contract!Writable, content, offer, open
<1>7. Contract!Finish(s, W)
  BY <1>1, <1>2, <1>3, <1>4, <1>5, <1>6, Zenon DEF Contract!Finish, content, offer, open, closed
<1> QED
  BY <1>7 DEF Contract!Next

-----------------------------------------------------------------------------
(* The steps of OverlayApply.                                               *)

\* Every step of stage s leaves the files of the others alone.
Others(s) == \A t \in Stages \ {s} : SameFiles(t)

\* The paths of a prepared batch are offered.
LEMMA Offered ==
  ASSUME IInv, NEW s \in Stages, ledger[s].state = "Prepared"
  PROVE  /\ Prepared(s) = ledger[s].paths /\ Prepared(s) \subseteq Paths
         /\ meta[s].state \notin Terminal
         /\ \A p \in Prepared(s) : /\ p \notin Closed(s)
                                   /\ Offer(s, p) = desired_fingerprint(s, p)
                                   /\ preimages[s][p] # None
<1>1. Prepared(s) = ledger[s].paths /\ ledger[s].paths \subseteq Paths
  BY Zenon DEF Prepared, IInv, TypeOK, Ledgers
<1>2. /\ meta[s].state \notin Terminal
      /\ \A p \in ledger[s].paths : upper[s][p] # "gone" /\ preimages[s][p] # None
  BY Zenon DEF IInv, DiskInv, BatchInv
<1>3. \A p \in ledger[s].paths : p \notin Closed(s)
  BY <1>2, Zenon DEF Closed
<1> QED
  BY <1>1, <1>2, <1>3 DEF Offer

\* Removing an original from the backup of a committed batch.
LEMMA RemoveOriginalMaps ==
  ASSUME IInv, IInv', NEW s \in Stages, NEW q \in Paths, RemoveOriginal(s, q)
  PROVE  UNCHANGED cvars
<1>1. /\ slot' = [slot EXCEPT ![s][q] = None]
      /\ UNCHANGED <<target, upper, preimages, ledger, meta, edits>>
  BY Zenon DEF RemoveOriginal
<1>2. ledger[s].state = "Committed"
  BY Zenon DEF RemoveOriginal, IInv, OpInv
<1>3. slot \in [Stages -> [Paths -> Contents \cup {None}]]
  BY Zenon DEF IInv, TypeOK
<1>4. Others(s)
  BY <1>1, <1>3 DEF Others, SameFiles
<1>5. \A p \in Paths : ~Aside(s, p) /\ ~Aside(s, p)'
  BY <1>1, <1>2, Zenon DEF Aside, Prepared
<1>6. \A p \in Paths : Content(p)' = Content(p)
  <2>1. \A p \in Paths : Aside(s, p)' = Aside(s, p)
    BY <1>5, Zenon DEF Aside
  <2>2. \A t \in Stages \ {s}, p \in Paths :
            Aside(t, p)' = Aside(t, p) /\ slot'[t][p] = slot[t][p]
    BY <1>4, StageKept DEF Others
  <2> QED
    BY <1>1, <1>5, <2>1, <2>2, ContentKept
<1>7. \A p \in Paths : desired_fingerprint(s, p)' = desired_fingerprint(s, p)
  BY <1>1 DEF desired_fingerprint, UpperContent, whiteout
<1>8. Prepared(s)' = Prepared(s) /\ Closed(s)' = Closed(s)
  BY <1>1, Zenon DEF Prepared, Closed
<1>9. \A p \in Paths : Offer(s, p)' = Offer(s, p)
  BY <1>1, <1>7, <1>8, Zenon DEF Offer
<1> QED
  BY <1>1, <1>4, <1>6, <1>8, <1>9, StageKept, Stutters DEF Others

\* Steps that move an original or write an entry: of the files the contract
\* sees, the target and the slots change.
LEMMA MovesKeep ==
  ASSUME UNCHANGED <<upper, preimages, ledger, meta>>
  PROVE  \A t \in Stages : /\ Prepared(t)' = Prepared(t) /\ Closed(t)' = Closed(t)
                           /\ \A p \in Paths : Offer(t, p)' = Offer(t, p)
<1>1. \A t \in Stages, p \in Paths : desired_fingerprint(t, p)' = desired_fingerprint(t, p)
  BY Zenon DEF desired_fingerprint, UpperContent, whiteout
<1>2. \A t \in Stages : Prepared(t)' = Prepared(t) /\ Closed(t)' = Closed(t)
  BY DEF Prepared, Closed
<1> QED
  BY <1>1, <1>2 DEF Offer

\* An original is put back.
LEMMA RestoreMaps ==
  ASSUME IInv, IInv', NEW s \in Stages, NEW q \in Paths, Restore(s, q)
  PROVE  UNCHANGED cvars
<1>1. CASE UNCHANGED <<target, slot>>
  <2>1. UNCHANGED <<target, upper, preimages, ledger, slot, meta, edits>>
    BY <1>1, Zenon DEF Restore, Refuse, disk
  <2> QED
    BY <2>1, FilesKept
<1>2. CASE ~UNCHANGED <<target, slot>>
  <2>1. /\ target' = [target EXCEPT ![q] = slot[s][q]]
        /\ slot' = [slot EXCEPT ![s][q] = None]
        /\ UNCHANGED <<upper, preimages, ledger, meta, edits>>
        /\ slot[s][q] # None /\ target[q] = Absent /\ slot[s][q] = ledger[s].preimages[q]
        /\ pc[s] = "restore" /\ q \in todo[s]
    BY <1>2, Zenon DEF Restore, Refuse, disk
  <2>2. ledger[s].state = "Prepared" /\ q \in ledger[s].paths /\ slot[s][q] = Old
    <3>1. pc[s] \in Writing
      BY <2>1 DEF Writing
    <3> QED
      BY <2>1, <3>1, WritingFacts, Zenon
  <2>3. Aside(s, q)
    BY <2>1, <2>2 DEF Aside, Prepared
  <2>4. Content(q) = Old
    BY <2>1, <2>2, <2>3, Contained, Zenon DEF ContentIs
  <2>5. /\ target \in [Paths -> Contents] /\ slot \in [Stages -> [Paths -> Contents \cup {None}]]
    BY Zenon DEF IInv, TypeOK
  <2>6. target'[q] = Old /\ \A p \in Paths \ {q} : target'[p] = target[p]
    BY <2>1, <2>2, <2>5, Zenon
  <2>7. \A t \in Stages, p \in Paths \ {q} : slot'[t][p] = slot[t][p]
    BY <2>1, <2>5, Zenon
  <2>8. Content(q)' = Old
    BY <2>6, ContainedNext, OwnContents, Zenon DEF ContentIs
  <2>9. \A t \in Stages, p \in Paths \ {q} : Aside(t, p)' = Aside(t, p)
    BY <2>1, <2>7, Zenon DEF Aside, Prepared
  <2>10. \A p \in Paths : Content(p)' = Content(p)
    BY <2>4, <2>6, <2>7, <2>8, <2>9, ContentKept
  <2> QED
    BY <2>1, <2>10, MovesKeep, Stutters
<1> QED
  BY <1>1, <1>2

\* An original is moved aside.
LEMMA BackUpMaps ==
  ASSUME IInv, IInv', NEW s \in Stages, NEW q \in Paths, BackUp(s, q)
  PROVE  UNCHANGED cvars
<1>1. CASE UNCHANGED <<target, slot>>
  <2>1. UNCHANGED <<target, upper, preimages, ledger, slot, meta, edits>>
    BY <1>1, Zenon DEF BackUp, Refuse, disk
  <2> QED
    BY <2>1, FilesKept
<1>2. CASE ~UNCHANGED <<target, slot>>
  <2>1. /\ slot' = [slot EXCEPT ![s][q] = target[q]]
        /\ target' = [target EXCEPT ![q] = Absent]
        /\ UNCHANGED <<upper, preimages, ledger, meta, edits>>
        /\ slot[s][q] = None /\ target[q] # Absent
        /\ pc[s] = "backup" /\ q \in todo[s]
    BY <1>2, ZenonT(60) DEF BackUp, Refuse, disk
  <2>2. ledger[s].state = "Prepared" /\ q \in ledger[s].paths
    BY <2>1 DEF IInv, OpInv, Writing
  <2>3. Content(q) = target[q]
    BY <2>1, Contained, Zenon DEF ContentIs
  <2>4. /\ target \in [Paths -> Contents] /\ slot \in [Stages -> [Paths -> Contents \cup {None}]]
    BY Zenon DEF IInv, TypeOK
  <2>5. target'[q] = Absent /\ \A p \in Paths \ {q} : target'[p] = target[p]
    BY <2>1, <2>4, Zenon
  <2>6. slot'[s][q] = target[q] /\ \A t \in Stages, p \in Paths \ {q} : slot'[t][p] = slot[t][p]
    BY <2>1, <2>4
  <2>7. Aside(s, q)'
    <3>1. target[q] # None
      BY <2>4, OwnContents
    <3> QED
      BY <2>1, <2>2, <2>6, <3>1, Zenon DEF Aside, Prepared
  <2>8. Content(q)' = target[q]
    BY <2>5, <2>6, <2>7, ContainedNext DEF ContentIs
  <2>9. \A t \in Stages, p \in Paths \ {q} : Aside(t, p)' = Aside(t, p)
    BY <2>1, <2>6, Zenon DEF Aside, Prepared
  <2>10. \A p \in Paths : Content(p)' = Content(p)
    BY <2>3, <2>5, <2>6, <2>8, <2>9, ContentKept, Zenon
  <2> QED
    BY <2>1, <2>10, MovesKeep, Stutters
<1> QED
  BY <1>1, <1>2

\* A path of the batch is written, in Install and in Publish: over nothing, over
\* the content the stage was made from, or over what it wrote itself.
LEMMA WriteMaps ==
  ASSUME IInv, IInv', NEW s \in Stages, NEW q \in todo[s],
         pc[s] \in {"install", "publish"},
         target' = [target EXCEPT ![q] = desired_fingerprint(s, q)],
         UNCHANGED <<upper, preimages, ledger, slot, meta, edits>>,
         \/ target[q] = desired_fingerprint(s, q)
         \/ target[q] = Old
         \/ target[q] = Absent /\ (~whiteout(s, q) \/ slot[s][q] # None)
  PROVE  Contract!Next \/ UNCHANGED cvars
<1> DEFINE new == desired_fingerprint(s, q)
<1>1. /\ ledger[s].state = "Prepared" /\ sel[s] = ledger[s].paths /\ q \in ledger[s].paths
      /\ upper[s][q] # "gone"
  <2>1. OpInv(s) /\ DiskInv(s)
    BY DEF IInv
  <2>2. ledger[s].state = "Prepared" /\ sel[s] = ledger[s].paths /\ q \in ledger[s].paths
    BY <2>1, Zenon DEF OpInv, Writing
  <2> QED
    BY <2>1, <2>2, Zenon DEF DiskInv, BatchInv
<1>2. /\ q \in Prepared(s) /\ q \in Paths /\ Offer(s, q) = new
  BY <1>1, Offered, ZenonT(60)
<1>3. target'[q] = new /\ \A p \in Paths \ {q} : target'[p] = target[p]
  BY <1>2 DEF IInv, TypeOK
<1>4. \A t \in Stages, p \in Paths : Aside(t, p)' = Aside(t, p) /\ slot'[t][p] = slot[t][p]
  BY ZenonT(60) DEF Aside, Prepared
<1>5. \A p \in Paths \ {q} : Content(p)' = Content(p)
  BY <1>3, <1>4, ContentKept, Zenon
<1>6. CASE target[q] = new
  <2>1. Content(q)' = Content(q)
    BY <1>2, <1>3, <1>4, <1>6, ContentKept, Zenon
  <2> QED
    BY <1>5, <2>1, MovesKeep, Stutters, Zenon
<1>7. ASSUME Content(q) \in {Old, Absent, new}, Content(q)' = new
      PROVE  Contract!Next
  <2>1. \A t \in Stages : /\ Prepared(t)' = Prepared(t) /\ Closed(t)' = Closed(t)
                           /\ \A p \in Paths : Offer(t, p)' = Offer(t, p)
    BY MovesKeep, Zenon
  <2> HIDE DEF new
  <2> QED
    BY <1>2, <1>5, <1>7, <2>1, Writes, Zenon
<1>8. new # Absent => Content(q)' = new
  BY <1>2, <1>3, ContainedNext, Zenon DEF ContentIs
<1>9. CASE target[q] = Old
  <2>1. Content(q) = Old /\ \A t \in Stages : ~Aside(t, q)
    <3>1. \A t \in Stages : Aside(t, q) => Old \in {Absent, Foreign, t, Torn[t]}
      BY <1>2, <1>9, Zenon DEF IInv, TargetInv
    <3>2. \A t \in Stages : ~Aside(t, q)
      BY <3>1, OwnContents, Zenon
    <3> QED
      BY <1>2, <1>9, <3>2, Contained DEF ContentIs
  <2>2. \A t \in Stages : ~Aside(t, q)'
    BY <1>2, <1>4, <2>1, Zenon
  <2>3. Content(q)' = new
    BY <1>2, <1>3, <2>2, ContainedNext, Zenon DEF ContentIs
  <2> QED
    BY <1>7, <2>1, <2>3, Zenon
<1>10. CASE target[q] = Absent /\ target[q] # new
  <2>1. ~whiteout(s, q)
    BY <1>10, Zenon DEF desired_fingerprint
  <2>2. \A t \in Stages : Aside(t, q) => t = s
    BY <1>1, <1>2, <2>1, Zenon DEF IInv, TargetInv
  <2>3. Content(q) \in {Old, Absent, new}
    BY <1>2, <1>10, <2>2, Contained DEF ContentIs
  <2> QED
    BY <1>7, <1>8, <1>10, <2>3, Zenon
<1> QED
  BY <1>6, <1>9, <1>10, Zenon

\* Install writes one path of the batch.
LEMMA InstallMaps ==
  ASSUME IInv, IInv', NEW s \in Stages, NEW q \in Paths, Install(s, q)
  PROVE  Contract!Next \/ UNCHANGED cvars
<1>1. CASE Refuse(s)
  BY <1>1, FilesKept DEF Refuse, disk
<1>2. CASE ~Refuse(s)
  <2>1. /\ pc[s] = "install" /\ q \in todo[s]
        /\ target[q] = Absent \/ target[q] = UpperContent(s, q)
        /\ target' = [target EXCEPT ![q] = UpperContent(s, q)]
        /\ UNCHANGED <<upper, preimages, ledger, slot, meta, edits>>
    BY <1>2, Zenon DEF Install
  <2>2. Opaque(s, q)
    BY <2>1, Zenon DEF IInv, OpInv, Writing
  <2>3. UpperContent(s, q) = desired_fingerprint(s, q) /\ ~whiteout(s, q)
    BY <2>2 DEF desired_fingerprint, whiteout, Opaque
  <2> QED
    BY <2>1, <2>3, WriteMaps, Zenon
<1> QED
  BY <1>1, <1>2

\* Publish writes one path of the batch.
LEMMA PublishMaps ==
  ASSUME IInv, IInv', NEW s \in Stages, NEW q \in Paths, Publish(s, q)
  PROVE  Contract!Next \/ UNCHANGED cvars
<1>1. CASE Refuse(s)
  BY <1>1, FilesKept DEF Refuse, disk
<1>2. CASE ~Refuse(s)
  <2>1. /\ pc[s] = "publish" /\ q \in todo[s]
        /\ (slot[s][q] # None /\ target[q] = Absent) \/ validate_target_path(s, q)
        /\ target' = [target EXCEPT ![q] = desired_fingerprint(s, q)]
        /\ UNCHANGED <<upper, preimages, ledger, slot, meta, edits>>
    BY <1>2, Zenon DEF Publish
  <2>2. ledger[s].preimages[q] = Old
    <3>1. ledger[s].state = "Prepared" /\ q \in ledger[s].paths
      BY <2>1, Zenon DEF IInv, OpInv, Writing
    <3> QED
      BY <3>1, Zenon DEF IInv, DiskInv, BatchInv
  <2> QED
    BY <2>1, <2>2, WriteMaps, Zenon DEF validate_target_path
<1> QED
  BY <1>1, <1>2

\* A batch is recorded as Prepared.
LEMMA PrepareMaps ==
  ASSUME IInv, IInv', NEW s \in Stages, Prepare(s)
  PROVE  Contract!Next \/ UNCHANGED cvars
<1>1. CASE Refuse(s)
  BY <1>1, FilesKept, Zenon DEF Refuse, disk
<1>2. CASE ~Refuse(s)
  <2> DEFINE rec == [state |-> "Prepared", gen |-> mem[s].gen, paths |-> sel[s],
                     preimages |-> [p \in Paths |->
                         IF p \in sel[s] THEN preimages[s][p] ELSE None]]
  <2>1. /\ pc[s] = "enter" /\ op[s] = "apply"
        /\ \A p \in sel[s] : preimages[s][p] # None /\ target[p] = preimages[s][p]
        /\ ledger' = [ledger EXCEPT ![s] = rec]
        /\ UNCHANGED <<target, upper, preimages, slot, meta, edits>>
    BY <1>2, Zenon DEF Prepare
  <2>2. /\ ~has_pending_applies(s) /\ meta[s].state \notin Terminal
        /\ \A p \in sel[s] : upper[s][p] # "gone"
    BY <2>1, Zenon DEF IInv, OpInv
  <2>3. /\ ledger \in [Stages -> Ledgers] /\ target \in [Paths -> Contents] /\ sel[s] \subseteq Paths
    BY DEF IInv, TypeOK
  <2>4. /\ ledger'[s].state = "Prepared" /\ ledger'[s].paths = sel[s]
        /\ \A t \in Stages \ {s} : ledger'[t] = ledger[t]
    BY <2>1, <2>3, Zenon
  <2>5. \A p \in sel[s] : target[p] = Old
    <3>1. \A p \in Paths : preimages[s][p] \in {None, Old}
      BY <2>2, Zenon DEF IInv, DiskInv, BatchInv
    <3> QED
      BY <2>1, <2>3, <3>1, Zenon
  <2>6. Prepared(s) = {} /\ Prepared(s)' = sel[s]
    BY <2>2, <2>4, Zenon DEF Prepared, has_pending_applies
  <2>7. Others(s)
    BY <2>1, <2>4, Zenon DEF Others, SameFiles
  <2>8. Closed(s)' = Closed(s)
    BY <2>1, <2>2, <2>4, Zenon DEF Closed, has_pending_applies
  <2>9. \A p \in Paths : Offer(s, p)' = Offer(s, p)
    <3>1. \A p \in Paths : desired_fingerprint(s, p)' = desired_fingerprint(s, p)
      BY <2>1, Zenon DEF desired_fingerprint, UpperContent, whiteout
    <3> QED
      BY <2>1, <2>8, <3>1 DEF Offer
  <2>10. \A p \in sel[s] : p \notin Closed(s) /\ Offer(s, p) # None
    <3>1. \A p \in sel[s] : p \notin Closed(s)
      BY <2>1, <2>2, Zenon DEF Closed, has_pending_applies
    <3>2. \A p \in sel[s] : desired_fingerprint(s, p) # None
      BY <2>3, Desired DEF IInv
    <3> QED
      BY <2>2, <3>1, <3>2, Zenon DEF Offer
  <2>11. \A p \in Paths : Content(p)' = Content(p) /\ (p \in sel[s] => Content(p) = Old)
    <3>1. ASSUME NEW p \in sel[s] PROVE Content(p) = Old /\ Content(p)' = Old
      <4>1. p \in Paths /\ target[p] = Old /\ target'[p] = Old /\ Old # Absent
        BY <2>1, <2>3, <2>5, OwnContents, Zenon
      <4> QED
        BY <4>1, Contained, ContainedNext, Zenon DEF ContentIs
    <3>2. ASSUME NEW p \in Paths, p \notin sel[s] PROVE Content(p)' = Content(p)
      <4>1. \A t \in Stages : Aside(t, p)' = Aside(t, p)
        <5>1. Aside(s, p)' = Aside(s, p)
          BY <2>6, <3>2, Zenon DEF Aside
        <5> QED
          BY <2>7, <5>1, StageKept, Zenon DEF Others
      <4> QED
        BY <2>1, <4>1, ContentKept, Zenon
    <3> QED
      BY <3>1, <3>2, Zenon
  <2> HIDE DEF rec
  <2>12. \A t \in Stages \ {s} :
           /\ Prepared(t)' = Prepared(t) /\ Closed(t)' = Closed(t)
           /\ \A p \in Paths : Offer(t, p)' = Offer(t, p)
    BY <2>7, StageKept, Zenon DEF Others
  <2> QED
    BY <2>1, <2>3, <2>6, <2>8, <2>9, <2>10, <2>11, <2>12, Opens
<1> QED
  BY <1>1, <1>2

\* Steps of stage s that leave the target and the originals alone keep the
\* contents, unless they finish a batch.
LEMMA SlotsKept ==
  ASSUME IInv, IInv', NEW s \in Stages, Others(s), UNCHANGED <<target, slot>>,
         Prepared(s)' = Prepared(s)
  PROVE  /\ \A p \in Paths : Content(p)' = Content(p)
         /\ \A t \in Stages : Prepared(t)' = Prepared(t)
<1>1. \A t \in Stages : Prepared(t)' = Prepared(t)
  BY StageKept DEF Others
<1>2. \A t \in Stages, p \in Paths : Aside(t, p)' = Aside(t, p)
  BY <1>1, Zenon DEF Aside
<1> QED
  BY <1>1, <1>2, ContentKept

\* What a stage offers is a content or nothing.
Offers == \A t \in Stages, p \in Paths : Offer(t, p) \in Contents \cup {None}

\* The invariant has it: the desired contents are contents.
LEMMA OffersContents == IInv => Offers
  BY Desired, Zenon DEF IInv, Offers, Offer

\* The same in the next state.
LEMMA OffersNext == IInv' => Offers'
  BY OffersContents, PTL

\* A replaced directory becomes the new baseline.
LEMMA RebaseMaps ==
  ASSUME IInv, IInv', NEW s \in Stages, NEW q \in Paths, Rebase(s, q)
  PROVE  UNCHANGED cvars
<1>1. /\ pc[s] = "rebase" /\ q \in todo[s]
      /\ preimages' = [preimages EXCEPT ![s][q] = UpperContent(s, q)]
      /\ UNCHANGED <<target, upper, ledger, slot, meta, edits>>
  BY DEF Rebase
<1>2. ledger[s].state = "Prepared" /\ q \in ledger[s].paths
  BY <1>1, ZenonT(60) DEF IInv, OpInv, Writing
<1>3. preimages \in [Stages -> [Paths -> Contents \cup {None}]]
  BY DEF IInv, TypeOK
<1>4. preimages[s][q] # None /\ UpperContent(s, q) # None
  <2>1. DiskInv(s)
    BY DEF IInv
  <2>2. preimages[s][q] # None
    BY <1>2, <2>1, Zenon DEF DiskInv, BatchInv
  <2>3. UpperContent(s, q) # None
    BY Desired, Zenon DEF IInv
  <2> QED
    BY <2>2, <2>3
<1>5. /\ \A t \in Stages \ {s} : preimages'[t] = preimages[t]
      /\ \A p \in Paths : preimages'[s][p] = None <=> preimages[s][p] = None
  BY <1>1, <1>3, <1>4, Zenon
<1>6. Others(s)
  BY <1>1, <1>5, Zenon DEF Others, SameFiles
<1>7. Prepared(s)' = Prepared(s) /\ Closed(s)' = Closed(s)
  BY <1>1, <1>5, Zenon DEF Prepared, Closed
<1>8. \A p \in Paths : Offer(s, p)' = Offer(s, p)
  <2>1. \A p \in Paths : desired_fingerprint(s, p)' = desired_fingerprint(s, p)
    BY <1>1 DEF desired_fingerprint, UpperContent, whiteout
  <2> QED
    BY <1>1, <1>7, <2>1, Zenon DEF Offer
<1> QED
  BY <1>1, <1>6, <1>7, <1>8, SlotsKept, StageKept, Stutters DEF Others

\* A staged entry is removed: of a batch in the target nothing was offered any
\* more; of a dropped stage, the offer is withdrawn.
LEMMA RemoveUpperMaps ==
  ASSUME IInv, IInv', NEW s \in Stages, NEW q \in todo[s], RemoveUpper(s, q),
         pc[s] \in {"prune", "clear"}
  PROVE  Contract!Next
<1>1. /\ UNCHANGED <<target, preimages, ledger, slot, meta, edits>>
      /\ \A t \in Stages \ {s} : upper'[t] = upper[t]
  BY Zenon DEF RemoveUpper, IInv, TypeOK
<1>2. Others(s)
  BY <1>1, Zenon DEF Others, SameFiles
<1>3. \A t \in Stages : Prepared(t)' = Prepared(t) /\ Closed(t)' = Closed(t)
  BY <1>1, Zenon DEF Prepared, Closed
<1>4. \A p \in Paths : Content(p)' = Content(p)
  BY <1>1, <1>2, <1>3, SlotsKept, Zenon
<1>5. \A t \in Stages, p \in Paths : Offer(t, p)' \in Contents \cup {None}
  BY OffersNext DEF Offers
<1> QED
  BY <1>1, <1>3, <1>4, <1>5, Spoils, Zenon

\* The preimages of the applied paths are consumed.
LEMMA ConsumeMaps ==
  ASSUME IInv, IInv', NEW s \in Stages, Consume(s)
  PROVE  UNCHANGED cvars
<1>1. /\ pc[s] = "consume"
      /\ preimages' = [preimages EXCEPT ![s] =
           [p \in Paths |->
               IF p \in sel[s] /\ ~(Opaque(s, p) /\ upper[s][p] # "gone")
               THEN None ELSE @[p]]]
      /\ UNCHANGED <<target, upper, ledger, slot, meta, edits>>
  BY Zenon DEF Consume
<1>2. ledger[s].state = "TargetApplied" /\ sel[s] = ledger[s].paths
  BY <1>1, ZenonT(60) DEF IInv, OpInv, Completing
<1>3. preimages \in [Stages -> [Paths -> Contents \cup {None}]]
  BY Zenon DEF IInv, TypeOK
<1>4. /\ \A t \in Stages \ {s} : preimages'[t] = preimages[t]
      /\ \A p \in Paths : preimages'[s][p] = None <=>
             preimages[s][p] = None \/ (p \in sel[s] /\ ~(Opaque(s, p) /\ upper[s][p] # "gone"))
  BY <1>1, <1>3, Zenon
<1>5. Others(s)
  BY <1>1, <1>4 DEF Others, SameFiles
<1>6. Prepared(s)' = Prepared(s) /\ Closed(s)' = Closed(s)
  BY <1>1, <1>2, <1>4, ZenonT(60) DEF Prepared, Closed
<1>7. \A p \in Paths : Offer(s, p)' = Offer(s, p)
  <2>1. \A p \in Paths : desired_fingerprint(s, p)' = desired_fingerprint(s, p)
    BY <1>1 DEF desired_fingerprint, UpperContent, whiteout
  <2> QED
    BY <1>1, <1>6, <2>1 DEF Offer
<1> QED
  BY <1>1, <1>5, <1>6, <1>7, SlotsKept, StageKept, Stutters, Zenon DEF Others

\* The batch is committed.
LEMMA CommitMaps ==
  ASSUME IInv, IInv', NEW s \in Stages, Commit(s)
  PROVE  UNCHANGED cvars
<1>1. /\ pc[s] = "commit" /\ ledger' = [ledger EXCEPT ![s].state = "Committed"]
      /\ UNCHANGED <<target, upper, preimages, slot, meta, edits>>
  BY Zenon DEF Commit
<1>2. /\ ledger[s].state = "TargetApplied"
      /\ \A p \in ledger[s].paths : preimages[s][p] = None
  BY <1>1 DEF IInv, OpInv, Completing
<1>3. /\ ledger'[s].state = "Committed"
      /\ \A t \in Stages \ {s} : ledger'[t] = ledger[t]
  BY <1>1 DEF IInv, TypeOK, Ledgers
<1>4. Others(s)
  BY <1>1, <1>3 DEF Others, SameFiles
<1>5. Prepared(s)' = Prepared(s) /\ Closed(s)' = Closed(s)
  BY <1>1, <1>2, <1>3 DEF Prepared, Closed
<1>6. \A p \in Paths : Offer(s, p)' = Offer(s, p)
  <2>1. \A p \in Paths : desired_fingerprint(s, p)' = desired_fingerprint(s, p)
    BY <1>1 DEF desired_fingerprint, UpperContent, whiteout
  <2> QED
    BY <1>1, <1>5, <2>1 DEF Offer
<1> QED
  BY <1>1, <1>4, <1>5, <1>6, SlotsKept, StageKept, Stutters DEF Others

\* The batch is marked TargetApplied: originals still aside no longer count.
LEMMA MarkMaps ==
  ASSUME IInv, IInv', NEW s \in Stages, Mark(s)
  PROVE  Contract!Next
<1>1. /\ pc[s] = "mark" /\ ledger' = [ledger EXCEPT ![s].state = "TargetApplied"]
      /\ UNCHANGED <<target, upper, preimages, slot, meta, edits>>
  BY Zenon DEF Mark
<1>2. ledger[s].state = "Prepared"
  BY <1>1 DEF IInv, OpInv, Writing
<1>3. /\ ledger'[s].state = "TargetApplied" /\ ledger'[s].paths = ledger[s].paths
      /\ \A t \in Stages \ {s} : ledger'[t] = ledger[t]
  BY <1>1 DEF IInv, TypeOK, Ledgers
<1>4. /\ Prepared(s) = ledger[s].paths /\ Prepared(s) \subseteq Paths
      /\ meta[s].state \notin Terminal
      /\ \A p \in Prepared(s) : Offer(s, p) = desired_fingerprint(s, p)
  BY <1>2, Offered
<1>5. Others(s)
  BY <1>1, <1>3 DEF Others, SameFiles
<1>6. Prepared(s)' = {} /\ Closed(s)' = Closed(s) \cup Prepared(s)
  BY <1>1, <1>2, <1>3, <1>4 DEF Prepared, Closed
<1>7. \A p \in Paths : Offer(s, p)' = IF p \in Prepared(s) THEN None ELSE Offer(s, p)
  <2>1. \A p \in Paths : desired_fingerprint(s, p)' = desired_fingerprint(s, p)
    BY <1>1, Zenon DEF desired_fingerprint, UpperContent, whiteout
  <2> QED
    BY <1>1, <1>6, <2>1 DEF Offer
<1>8. \A t \in Stages \ {s}, p \in Paths : Aside(t, p)' = Aside(t, p) /\ slot'[t][p] = slot[t][p]
  BY <1>5, StageKept DEF Others
<1>9. ASSUME NEW p \in Paths, ~(Aside(s, p) /\ target[p] = Absent)
      PROVE  Content(p)' = Content(p)
  <2>1. CASE target[p] # Absent
    BY <1>1, <2>1, Contained, ContainedNext DEF ContentIs
  <2>2. CASE ~Aside(s, p)
    <3>1. Aside(s, p)' = Aside(s, p)
      BY <1>6, <2>2 DEF Aside
    <3> QED
      BY <1>1, <1>8, <3>1, ContentKept, Zenon
  <2> QED
    BY <1>9, <2>1, <2>2
<1>10. ASSUME NEW p \in Paths, Aside(s, p), target[p] = Absent
       PROVE  /\ p \in Prepared(s) /\ Content(p) \in {Old, Offer(s, p)}
              /\ Content(p)' = Absent /\ (edits = 0 => Offer(s, p) = Absent)
  <2>1. p \in Prepared(s)
    BY <1>10, Zenon DEF Aside
  <2>2. Content(p) \in {Old, Offer(s, p)}
    BY <1>4, <1>10, <2>1, Contained, Zenon DEF ContentIs
  <2>3. \A t \in Stages : ~Aside(t, p)'
    <3>1. \A t \in Stages : Aside(t, p) => t = s
      BY <1>10, Zenon DEF IInv, TargetInv
    <3>2. ~Aside(s, p)'
      BY <1>6 DEF Aside
    <3> QED
      BY <1>8, <3>1, <3>2
  <2>4. Content(p)' = Absent
    BY <1>1, <1>10, <2>3, ContainedNext DEF ContentIs
  <2>5. edits = 0 => Offer(s, p) = Absent
    BY <1>1, <1>4, <1>10, <2>1, Zenon DEF IInv, LandInv, Written
  <2> QED
    BY <2>1, <2>2, <2>4, <2>5
<1> DEFINE W == {p \in Paths : Aside(s, p) /\ target[p] = Absent}
<1>11. /\ W \in SUBSET Paths /\ W \subseteq Prepared(s)
       /\ \A p \in W : Content(p) \in {Old, Absent, Offer(s, p)}
       /\ \A p \in Paths \ W : Content(p)' = Content(p)
  BY <1>9, <1>10, Zenon
<1>12. \A p \in W : Content(p)' = Offer(s, p) \/ (edits > 0 /\ Content(p)' = Absent)
  <2>1. edits \in Nat
    BY Zenon DEF IInv, TypeOK
  <2> QED
    BY <1>10, <2>1, SMTT(30)
<1>13. \A p \in Paths : Content(p)' \in Contents
  BY ContainedNext, Zenon DEF ContentIs
<1>14. \A t \in Stages \ {s} : /\ Prepared(t)' = Prepared(t) /\ Closed(t)' = Closed(t)
                               /\ \A p \in Paths : Offer(t, p)' = Offer(t, p)
  BY <1>5, StageKept DEF Others
<1> HIDE DEF W
<1> QED
  BY <1>1, <1>6, <1>7, <1>11, <1>12, <1>13, <1>14, Finishes

\* A stage whose record becomes terminal, with no batch open, retires.
LEMMA TerminalRetires ==
  ASSUME IInv, IInv', NEW s \in Stages, Others(s), ledger[s].state # "Prepared",
         UNCHANGED <<target, upper, preimages, ledger, slot, edits>>,
         meta'[s].state \in Terminal
  PROVE  Contract!Next
<1>1. Prepared(s) = {} /\ Prepared(s)' = Prepared(s)
  BY Zenon DEF Prepared
<1>2. Closed(s)' = Paths
  BY Zenon DEF Closed
<1>3. \A p \in Paths : Offer(s, p)' = None
  BY <1>2 DEF Offer
<1> QED
  BY <1>1, <1>2, <1>3, SlotsKept, StageKept, Retires, Zenon DEF Others

\* The overlay record of an applied batch is published.
LEMMA SettleMaps ==
  ASSUME IInv, IInv', NEW s \in Stages, Settle(s)
  PROVE  Contract!Next \/ UNCHANGED cvars
<1>1. /\ pc[s] = "settle"
      /\ meta' = [meta EXCEPT ![s] = [mem[s] EXCEPT
                     !.state = IF Staged(s) = {} THEN "Applied" ELSE "Staged"]]
      /\ UNCHANGED <<target, upper, preimages, ledger, slot, edits>>
  BY Zenon DEF Settle
<1>2. mem[s] \in Records /\ meta \in [Stages -> Records]
  BY DEF IInv, TypeOK
<1>3. /\ meta'[s].state = IF Staged(s) = {} THEN "Applied" ELSE "Staged"
      /\ \A t \in Stages \ {s} : meta'[t] = meta[t]
  BY <1>1, <1>2 DEF Records
<1>4. Others(s)
  BY <1>1, <1>3, Zenon DEF Others, SameFiles
<1>5. ledger[s].state = "TargetApplied"
  BY <1>1 DEF IInv, OpInv, Completing
<1>6. CASE Staged(s) = {}
  BY <1>1, <1>3, <1>4, <1>5, <1>6, TerminalRetires DEF Terminal
<1>7. CASE Staged(s) # {}
  <2>1. meta[s].state \notin Terminal
    <3>1. meta[s].state # "Applied"
      BY <1>7, Zenon DEF IInv, DiskInv, RecordInv, Staged
    <3>2. meta[s].state # "Discarded"
      BY <1>5, Zenon DEF IInv, DiskInv, RecordInv, has_pending_applies
    <3> QED
      BY <3>1, <3>2 DEF Terminal
  <2>2. meta'[s].state \notin Terminal
    BY <1>3, <1>7 DEF Terminal
  <2>3. Prepared(s)' = Prepared(s) /\ Closed(s)' = Closed(s)
    BY <1>1, <2>1, <2>2 DEF Prepared, Closed
  <2>4. \A p \in Paths : Offer(s, p)' = Offer(s, p)
    <3>1. \A p \in Paths : desired_fingerprint(s, p)' = desired_fingerprint(s, p)
      BY <1>1 DEF desired_fingerprint, UpperContent, whiteout
    <3> QED
      BY <1>1, <2>3, <3>1 DEF Offer
  <2>5. UNCHANGED cvars
    BY <1>1, <1>4, <2>3, <2>4, SlotsKept, StageKept, Stutters DEF Others
  <2> QED
    BY <2>5
<1> QED
  BY <1>6, <1>7

\* The overlay record of a dropped stage is published.
LEMMA DiscardedMaps ==
  ASSUME IInv, IInv', NEW s \in Stages, Discarded(s)
  PROVE  Contract!Next
<1>1. /\ pc[s] = "discard"
      /\ mem' = [mem EXCEPT ![s].state = "Discarded"] /\ meta' = [meta EXCEPT ![s] = mem'[s]]
      /\ UNCHANGED <<target, upper, preimages, ledger, slot, edits>>
  BY Zenon DEF Discarded
<1>2. mem[s] \in Records /\ mem \in [Stages -> Records] /\ meta \in [Stages -> Records]
  BY DEF IInv, TypeOK
<1>3. /\ meta'[s].state = "Discarded"
      /\ \A t \in Stages \ {s} : meta'[t] = meta[t]
  BY <1>1, <1>2 DEF Records
<1>4. Others(s)
  BY <1>1, <1>3, Zenon DEF Others, SameFiles
<1>5. ledger[s].state # "Prepared"
  BY <1>1, Zenon DEF IInv, OpInv, has_pending_applies
<1> QED
  BY <1>1, <1>3, <1>4, <1>5, TerminalRetires DEF Terminal

\* Power is lost: entries just removed from the uppers can be back.
LEMMA PowerLossMaps ==
  ASSUME IInv, IInv', NEW back \in SUBSET Removed, PowerLoss(back)
  PROVE  Contract!Next
<1>1. UNCHANGED <<target, preimages, ledger, slot, meta, edits>>
  BY Zenon DEF PowerLoss
<1>2. \A t \in Stages : Prepared(t)' = Prepared(t) /\ Closed(t)' = Closed(t)
  BY <1>1 DEF Prepared, Closed
<1>3. \A t \in Stages, p \in Paths : Aside(t, p)' = Aside(t, p)
  BY <1>1, <1>2, Zenon DEF Aside
<1>4. \A p \in Paths : Content(p)' = Content(p)
  BY <1>1, <1>3, ContentKept
<1>5. \A t \in Stages, p \in Paths : Offer(t, p)' \in Contents \cup {None}
  BY OffersNext, Zenon DEF Offers
<1> QED
  BY <1>1, <1>2, <1>4, <1>5, Spoils, Zenon

\* An editor writes: where an original is aside it can only remove what the
\* stage has put in its place.
LEMMA EditMaps ==
  ASSUME IInv, IInv', NEW q \in Paths, NEW c \in {Foreign, Absent}, Edit(q, c)
  PROVE  Contract!Next
<1>1. /\ target' = [target EXCEPT ![q] = c] /\ edits' = edits + 1
      /\ UNCHANGED <<upper, preimages, ledger, slot, meta>>
  BY Zenon DEF Edit
<1>2. \A p \in Paths \ {q} : target'[p] = target[p]
  BY <1>1 DEF IInv, TypeOK
<1>3. \A t \in Stages, p \in Paths : Aside(t, p)' = Aside(t, p) /\ slot'[t][p] = slot[t][p]
  BY <1>1, Zenon DEF Aside, Prepared
<1>4. \A p \in Paths \ {q} : Content(p)' = Content(p)
  BY <1>2, <1>3, ContentKept, ZenonT(60)
<1>5. Content(q)' \in Contents
  BY ContainedNext, Zenon DEF ContentIs
<1> QED
  BY <1>1, <1>4, <1>5, MovesKeep, Edits

\* A step of an operation.
LEMMA StepMaps ==
  ASSUME IInv, IInv', NEW s \in Stages, Step(s)
  PROVE  Contract!Next \/ UNCHANGED cvars
<1>1. ASSUME NEW p \in Paths, Restore(s, p) \/ BackUp(s, p) \/ Install(s, p)
             \/ Publish(s, p) \/ Rebase(s, p) \/ Prune(s, p)
             \/ RemoveOriginal(s, p) \/ Clear(s, p)
      PROVE  Contract!Next \/ UNCHANGED cvars
  <2>1. CASE Prune(s, p) \/ Clear(s, p)
    BY <2>1, RemoveUpperMaps, Zenon DEF Prune, Clear
  <2>2. CASE Restore(s, p) \/ BackUp(s, p) \/ Rebase(s, p) \/ RemoveOriginal(s, p)
    BY <2>2, RestoreMaps, BackUpMaps, RebaseMaps, RemoveOriginalMaps
  <2>3. CASE Install(s, p) \/ Publish(s, p)
    BY <2>3, InstallMaps, PublishMaps
  <2> QED
    BY <1>1, <2>1, <2>2, <2>3
<1>2. CASE \/ Lock(s) \/ Sweep(s) \/ Resume(s) \/ Recovered(s) \/ Check(s) \/ OpenBackup(s)
           \/ RemoveReceipt(s) \/ RemoveBackup(s) \/ Save(s) \/ Discard(s)
  <2>1. UNCHANGED <<target, upper, preimages, ledger, slot, meta, edits>>
    BY <1>2, Zenon DEF Lock, Sweep, Resume, Recovered, Check, OpenBackup, RemoveReceipt,
       RemoveBackup, Save, Discard, Refuse, disk
  <2> QED
    BY <2>1, FilesKept
<1>3. CASE Prepare(s) \/ Mark(s) \/ Settle(s) \/ Discarded(s)
  BY <1>3, PrepareMaps, MarkMaps, SettleMaps, DiscardedMaps
<1>4. CASE Consume(s) \/ Commit(s)
  BY <1>4, ConsumeMaps, CommitMaps, Zenon
<1> QED
  BY <1>1, <1>2, <1>3, <1>4, Zenon DEF Step

\* Every step is a step of the contract or a stutter.
LEMMA NextMaps ==
  ASSUME IInv, IInv', [Next]_vars
  PROVE  Contract!Next \/ UNCHANGED cvars
<1>1. CASE UNCHANGED vars
  BY <1>1, FilesKept DEF vars, disk
<1>2. ASSUME NEW s \in Stages, Step(s) \/ Abort(s) PROVE Contract!Next \/ UNCHANGED cvars
  <2>1. CASE Abort(s)
    BY <2>1, FilesKept DEF Abort, disk
  <2> QED
    BY <1>2, <2>1, StepMaps, Zenon
<1>3. ASSUME NEW s \in Stages, NEW o \in {"apply", "recover", "drop"},
             NEW paths \in SUBSET Paths, Begin(s, o, paths)
      PROVE  UNCHANGED cvars
  BY <1>3, FilesKept DEF Begin, disk
<1>4. ASSUME NEW p \in Paths, NEW c \in {Foreign, Absent}, Edit(p, c) PROVE Contract!Next
  BY <1>4, EditMaps
<1>5. ASSUME NEW back \in SUBSET Removed, PowerLoss(back) PROVE Contract!Next
  BY <1>5, PowerLossMaps, Zenon
<1> QED
  BY <1>1, <1>2, <1>3, <1>4, <1>5, Zenon DEF Next

\* The initial states are initial states of the contract.
LEMMA InitMaps ==
  ASSUME Init
  PROVE  Contract!Init
<1>1. \A s \in Stages : Prepared(s) = {}
  BY Zenon DEF Init, Prepared
<1>2. IInv
  BY InitInv
<1>3. content = [p \in Paths |-> Old]
  <2>1. \A p \in Paths : Content(p) = Old
    BY <1>1, <1>2, Contained, Zenon DEF ContentIs, Aside, Init
  <2> QED
    BY <2>1 DEF content
<1>4. offer \in [Stages -> [Paths -> Contents \cup {None}]]
  BY <1>2, OffersContents, Zenon DEF Offers, offer
<1>5. \A s \in Stages : Closed(s) = {p \in Paths : Offer(s, p) = None}
  <2> SUFFICES ASSUME NEW s \in Stages, NEW p \in Paths
               PROVE  p \in Closed(s) <=> Offer(s, p) = None
    BY Zenon DEF Closed
  <2>1. p \in Closed(s) <=> preimages[s][p] = None
    BY Zenon DEF Init, Closed, Terminal
  <2>2. preimages[s][p] = None <=> upper[s][p] = "gone"
    BY OwnContents, ZenonT(60) DEF Init
  <2>3. desired_fingerprint(s, p) # None
    BY <1>2, Desired DEF IInv
  <2> QED
    BY <2>1, <2>2, <2>3 DEF Offer
<1>6. closed = [s \in Stages |-> {p \in Paths : offer[s][p] = None}]
  BY <1>5 DEF closed, offer
<1>7. open = [s \in Stages |-> {}] /\ edits = 0
  BY <1>1, Zenon DEF open, Init
<1> QED
  BY <1>3, <1>4, <1>6, <1>7 DEF Contract!Init, content, offer, open, closed

\* The apply ledger, the backups and the target lock implement the contract, for
\* any number of stages and paths, whatever crashes, recoveries, power losses
\* and edits come in between (apply.rs).
THEOREM Refinement == Spec => ImplementsContract
<1>1. Init => Contract!Init
  BY InitMaps
<1>2. IInv /\ IInv' /\ [Next]_vars => [Contract!Next]_cvars
  BY NextMaps, Zenon
<1> QED
  BY <1>1, <1>2, Invariant, PTL DEF Spec, ImplementsContract, Contract!Spec, cvars, content,
     offer, open, closed

-----------------------------------------------------------------------------
(* An operation comes to its end.                                           *)

\* The steps that go through the paths left in todo.
Loops == {"restore", "backup", "install", "publish", "rebase", "prune", "clear"}

\* What the operation in progress on s can do next: the guards of its actions.
\* Lock waits for the target lock; recover_pending_applies_for_target and
\* discard_overlay cover every case at "enter"; a loop needs a path, and
\* apply_selected_directory_checked one that is its turn; remove_dir_all needs
\* a receipt, an original or the empty directory.
CanStep(s) ==
    \/ pc[s] = "lock" /\ lock = None
    \/ pc[s] = "enter" /\ op[s] # "drop" /\ LeftoverBackup(s)
    \/ pc[s] = "enter" /\ op[s] = "recover" /\ (has_pending_applies(s) \/ ~LeftoverBackup(s))
    \/ pc[s] = "enter" /\ op[s] = "apply" /\ ~LeftoverBackup(s)
    \/ pc[s] = "enter" /\ op[s] = "drop"
    \/ pc[s] \in {"check", "mark", "settle", "consume", "commit", "save", "discard"}
    \/ pc[s] \in Loops \ {"publish"} /\ \E p \in Paths : p \in todo[s]
    \/ /\ pc[s] = "publish"
       /\ \E p \in Paths : p \in todo[s] /\ (whiteout(s, p) \/ \A q \in todo[s] : ~whiteout(s, q))
    \/ pc[s] \in {"sweep", "clean"} /\ backup[s] \in {"none", "owned", "unowned"}
    \/ /\ pc[s] \in {"sweeping", "cleaning"}
       /\ \/ backup[s] = "owned"
          \/ \E p \in Paths : slot[s][p] # None
          \/ backup[s] = "unowned" /\ \A p \in Paths : slot[s][p] = None

\* An operation on a stage can take its next step, or waits for the target lock
\* that another operation holds, which can take its next step.
OperationsReady ==
    \A s \in Stages : pc[s] # "idle" =>
        \/ CanStep(s)
        \/ pc[s] = "lock" /\ lock \in Stages \ {s} /\ pc[lock] # "lock" /\ CanStep(lock)

\* What that rests on: the target lock is held by an operation that will give
\* it back, a batch has a path, a loop has a path left, and remove_dir_all has
\* something to remove.
ReadyInv(s) ==
    /\ ledger[s].state # "none" => ledger[s].paths # {}
    /\ op[s] = "apply" => sel[s] # {}
    /\ pc[s] \in Loops => todo[s] # {}
    /\ pc[s] \in {"sweeping", "cleaning"} => backup[s] # "none"
LockHeld == lock # None => pc[lock] \in Locked
Ready == LockHeld /\ \A s \in Stages : ReadyInv(s)

\* The place of a step on the way of an operation from the lock to its end, the
\* backup directory being b.  The sweep of a leftover backup goes back to
\* "enter" with no backup left.
Place(step, b) ==
    CASE step = "lock"     -> 22
      [] step = "enter"    -> IF b # "none" THEN 21 ELSE 17
      [] step = "sweep"    -> 20
      [] step = "sweeping" -> IF b = "owned" THEN 19 ELSE 18
      [] step = "restore"  -> 16
      [] step = "check"    -> 15
      [] step = "backup"   -> 14
      [] step = "install"  -> 13
      [] step = "publish"  -> 12
      [] step = "rebase"   -> 11
      [] step = "mark"     -> 10
      [] step = "prune"    -> 9
      [] step = "settle"   -> 8
      [] step = "consume"  -> 7
      [] step = "commit"   -> 6
      [] step = "clean"    -> 5
      [] step = "cleaning" -> IF b = "owned" THEN 4 ELSE 3
      [] step = "clear"    -> 3
      [] step = "discard"  -> 2
      [] step = "save"     -> 1
      [] step = "idle"     -> 0

Rank(s) == Place(pc[s], backup[s])

\* What the removals of the operation on s still find whole: entries of the
\* upper, and originals in the backup.
Whole(s) == {p \in Paths : upper[s][p] = "full"}
Originals(s) == {p \in Paths : slot[s][p] # None}

Within(a, b) == a \subseteq b /\ a # b

\* The operation on s comes nearer to its end: in its steps, in the paths left
\* for the current one, or in what a removal still has to remove.
Advances(s) ==
    \/ Rank(s)' < Rank(s)
    \/ /\ Rank(s)' = Rank(s)
       /\ \/ Within(todo'[s], todo[s])
          \/ todo'[s] = todo[s] /\ Within(Whole(s)', Whole(s))
          \/ /\ todo'[s] = todo[s] /\ Whole(s)' = Whole(s)
             /\ Within(Originals(s)', Originals(s))

\* Every step of an operation brings it nearer to its end, and no step of
\* another operation, of the environment or of a power loss takes it back.
StepsCount ==
    \A s \in Stages : /\ Step(s) => Advances(s)
                      /\ pc[s] # "idle" => SameStage(s) \/ Advances(s)

-----------------------------------------------------------------------------
(* What a step of the operation on s does to that operation and to others.  *)

\* What a step of the operation on s leaves of another stage on disk.
SameDisk(t) ==
    /\ upper'[t] = upper[t] /\ unsynced'[t] = unsynced[t] /\ preimages'[t] = preimages[t]
    /\ ledger'[t] = ledger[t] /\ slot'[t] = slot[t] /\ backup'[t] = backup[t]
    /\ meta'[t] = meta[t] /\ run'[t] = run[t]

Moves(s) ==
    /\ OnlyStage(s) /\ LockMove(s) /\ (lock' = s => pc'[s] \in Locked)
    /\ ReadyInv(s)' /\ Advances(s)

\* The places, one by one.
LEMMA Places ==
  ASSUME NEW b
  PROVE  /\ Place("lock", b) = 22 /\ Place("sweep", b) = 20 /\ Place("restore", b) = 16
         /\ Place("check", b) = 15 /\ Place("backup", b) = 14 /\ Place("install", b) = 13
         /\ Place("publish", b) = 12 /\ Place("rebase", b) = 11 /\ Place("mark", b) = 10
         /\ Place("prune", b) = 9 /\ Place("settle", b) = 8 /\ Place("consume", b) = 7
         /\ Place("commit", b) = 6 /\ Place("clean", b) = 5 /\ Place("clear", b) = 3
         /\ Place("discard", b) = 2 /\ Place("save", b) = 1 /\ Place("idle", b) = 0
         /\ Place("enter", b) = IF b # "none" THEN 21 ELSE 17
         /\ Place("sweeping", b) = IF b = "owned" THEN 19 ELSE 18
         /\ Place("cleaning", b) = IF b = "owned" THEN 4 ELSE 3
<1>1. /\ Place("lock", b) = 22 /\ Place("sweep", b) = 20 /\ Place("restore", b) = 16
      /\ Place("check", b) = 15 /\ Place("backup", b) = 14 /\ Place("install", b) = 13
  BY DEF Place
<1>2. /\ Place("publish", b) = 12 /\ Place("rebase", b) = 11 /\ Place("mark", b) = 10
      /\ Place("prune", b) = 9 /\ Place("settle", b) = 8 /\ Place("consume", b) = 7
  BY DEF Place
<1>3. /\ Place("commit", b) = 6 /\ Place("clean", b) = 5 /\ Place("clear", b) = 3
      /\ Place("discard", b) = 2 /\ Place("save", b) = 1 /\ Place("idle", b) = 0
  BY DEF Place
<1>4. /\ Place("enter", b) = IF b # "none" THEN 21 ELSE 17
      /\ Place("sweeping", b) = IF b = "owned" THEN 19 ELSE 18
      /\ Place("cleaning", b) = IF b = "owned" THEN 4 ELSE 3
  BY DEF Place
<1> QED
  BY <1>1, <1>2, <1>3, <1>4

\* The step an operation goes to has the lower place, whatever has become of the
\* backup in between.
LEMMA Descends ==
  ASSUME NEW b, NEW c
  PROVE  /\ Place("check", b) < Place("restore", c) /\ Place("install", b) < Place("backup", c)
         /\ Place("publish", b) < Place("backup", c) /\ Place("publish", b) < Place("install", c)
         /\ Place("rebase", b) < Place("install", c) /\ Place("rebase", b) < Place("publish", c)
         /\ Place("mark", b) < Place("publish", c) /\ Place("mark", b) < Place("rebase", c)
         /\ Place("backup", b) < Place("check", c)
         /\ Place("settle", b) < Place("prune", c) /\ Place("discard", b) < Place("clear", c)
         /\ Place("prune", b) < Place("mark", c) /\ Place("consume", b) < Place("settle", c)
         /\ Place("commit", b) < Place("consume", c) /\ Place("clean", b) < Place("commit", c)
         /\ Place("save", b) < Place("discard", c) /\ Place("save", b) < Place("clean", c)
         /\ Place("save", b) < Place("cleaning", c)
         /\ Place("enter", b) < Place("lock", c) /\ Place("prune", b) < Place("enter", c)
         /\ Place("restore", b) < Place("enter", c) /\ Place("check", b) < Place("enter", c)
         /\ Place("clear", b) < Place("enter", c) /\ Place("discard", b) < Place("enter", c)
         /\ c # "none" => Place("sweep", b) < Place("enter", c)
         /\ b = "none" => Place("enter", b) < Place("sweep", c) /\ Place("enter", b) < Place("sweeping", c)
         /\ Place("sweeping", b) < Place("sweep", c) /\ Place("cleaning", b) < Place("clean", c)
         /\ b # "owned" /\ c = "owned" => /\ Place("sweeping", b) < Place("sweeping", c)
                                          /\ Place("cleaning", b) < Place("cleaning", c)
<1>1. /\ Place("check", b) < Place("restore", c) /\ Place("install", b) < Place("backup", c)
      /\ Place("publish", b) < Place("backup", c) /\ Place("publish", b) < Place("install", c)
      /\ Place("rebase", b) < Place("install", c) /\ Place("rebase", b) < Place("publish", c)
      /\ Place("mark", b) < Place("publish", c) /\ Place("mark", b) < Place("rebase", c)
      /\ Place("backup", b) < Place("check", c)
  <2>1. /\ Place("check", b) = 15 /\ Place("install", b) = 13 /\ Place("publish", b) = 12
        /\ Place("rebase", b) = 11 /\ Place("mark", b) = 10 /\ Place("backup", b) = 14
    BY Places, Zenon
  <2>2. /\ Place("restore", c) = 16 /\ Place("backup", c) = 14 /\ Place("install", c) = 13
        /\ Place("publish", c) = 12 /\ Place("rebase", c) = 11 /\ Place("check", c) = 15
    BY Places, Zenon
  <2> QED
    BY <2>1, <2>2, SMTT(30)
<1>2. /\ Place("settle", b) < Place("prune", c) /\ Place("discard", b) < Place("clear", c)
      /\ Place("prune", b) < Place("mark", c) /\ Place("consume", b) < Place("settle", c)
      /\ Place("commit", b) < Place("consume", c) /\ Place("clean", b) < Place("commit", c)
      /\ Place("save", b) < Place("discard", c) /\ Place("save", b) < Place("clean", c)
      /\ Place("save", b) < Place("cleaning", c)
  <2>1. /\ Place("settle", b) = 8 /\ Place("discard", b) = 2 /\ Place("prune", b) = 9
        /\ Place("consume", b) = 7 /\ Place("commit", b) = 6 /\ Place("clean", b) = 5
        /\ Place("save", b) = 1
    BY Places, Zenon
  <2>2. /\ Place("prune", c) = 9 /\ Place("clear", c) = 3 /\ Place("mark", c) = 10
        /\ Place("settle", c) = 8 /\ Place("consume", c) = 7 /\ Place("commit", c) = 6
        /\ Place("discard", c) = 2 /\ Place("clean", c) = 5
        /\ Place("cleaning", c) = IF c = "owned" THEN 4 ELSE 3
    BY Places, Zenon
  <2> QED
    BY <2>1, <2>2, SMTT(30)
<1>3. /\ Place("enter", b) < Place("lock", c) /\ Place("prune", b) < Place("enter", c)
      /\ Place("restore", b) < Place("enter", c) /\ Place("check", b) < Place("enter", c)
      /\ Place("clear", b) < Place("enter", c) /\ Place("discard", b) < Place("enter", c)
  <2>1. /\ Place("prune", b) = 9 /\ Place("restore", b) = 16 /\ Place("check", b) = 15
        /\ Place("clear", b) = 3 /\ Place("discard", b) = 2
        /\ Place("enter", b) = IF b # "none" THEN 21 ELSE 17
    BY Places, Zenon
  <2>2. /\ Place("lock", c) = 22
        /\ Place("enter", c) = IF c # "none" THEN 21 ELSE 17
    BY Places, Zenon
  <2> QED
    BY <2>1, <2>2, SMTT(30)
<1>4. /\ c # "none" => Place("sweep", b) < Place("enter", c)
      /\ b = "none" => Place("enter", b) < Place("sweep", c) /\ Place("enter", b) < Place("sweeping", c)
      /\ Place("sweeping", b) < Place("sweep", c) /\ Place("cleaning", b) < Place("clean", c)
      /\ b # "owned" /\ c = "owned" => /\ Place("sweeping", b) < Place("sweeping", c)
                                       /\ Place("cleaning", b) < Place("cleaning", c)
  <2>1. /\ Place("sweep", b) = 20
        /\ Place("enter", b) = IF b # "none" THEN 21 ELSE 17
        /\ Place("sweeping", b) = IF b = "owned" THEN 19 ELSE 18
        /\ Place("cleaning", b) = IF b = "owned" THEN 4 ELSE 3
    BY Places, Zenon
  <2>2. /\ Place("sweep", c) = 20 /\ Place("clean", c) = 5
        /\ Place("enter", c) = IF c # "none" THEN 21 ELSE 17
        /\ Place("sweeping", c) = IF c = "owned" THEN 19 ELSE 18
        /\ Place("cleaning", c) = IF c = "owned" THEN 4 ELSE 3
    BY Places, Zenon
  <2> QED
    BY <2>1, <2>2, SMTT(30)
<1> QED
  BY <1>1, <1>2, <1>3, <1>4, Zenon

\* The places of the steps that go through the paths do not depend on the backup.
LEMMA SamePlace ==
  ASSUME NEW x \in Loops, NEW b, NEW c
  PROVE  Place(x, b) = Place(x, c)
<1>1. /\ Place("restore", b) = Place("restore", c) /\ Place("backup", b) = Place("backup", c)
      /\ Place("install", b) = Place("install", c) /\ Place("publish", b) = Place("publish", c)
      /\ Place("rebase", b) = Place("rebase", c) /\ Place("prune", b) = Place("prune", c)
      /\ Place("clear", b) = Place("clear", c)
  <2>1. /\ Place("restore", b) = 16 /\ Place("backup", b) = 14 /\ Place("install", b) = 13 /\ Place("publish", b) = 12
        /\ Place("rebase", b) = 11 /\ Place("prune", b) = 9 /\ Place("clear", b) = 3
    BY Places, Zenon
  <2>2. /\ Place("restore", c) = 16 /\ Place("backup", c) = 14 /\ Place("install", c) = 13 /\ Place("publish", c) = 12
        /\ Place("rebase", c) = 11 /\ Place("prune", c) = 9 /\ Place("clear", c) = 3
    BY Places, Zenon
  <2> QED
    BY <2>1, <2>2, Zenon
<1> QED
  BY <1>1, Zenon DEF Loops

\* The place of an operation in progress is one of the 22.
LEMMA PlaceCounts ==
  ASSUME NEW step \in AllSteps, step # "idle", NEW b
  PROVE  Place(step, b) \in 1..22
BY Places, SMTT(30) DEF AllSteps, Locked, Writing, Completing

\* Only an operation that is over is at place 0.
LEMMA OverAtZero ==
  ASSUME NEW step \in AllSteps, step # "idle", NEW b, NEW c
  PROVE  Place("idle", c) < Place(step, b)
<1>1. Place("idle", c) = 0
  BY Places, Zenon
<1>2. Place(step, b) \in 1..22
  BY PlaceCounts, Zenon
<1> QED
  BY <1>1, <1>2

\* The other operations and the lock are as ready as before.
LEMMA StaysReady ==
  ASSUME IInv, Ready, NEW s \in Stages, Moves(s)
  PROVE  Ready'
<1>1. ASSUME NEW t \in Stages PROVE ReadyInv(t)'
  <2>1. CASE t = s
    BY <2>1, Zenon DEF Moves
  <2>2. CASE t # s
    <3>1. SameStage(t) /\ ReadyInv(t)
      BY <2>2, Zenon DEF Moves, OnlyStage, Ready
    <3> QED
      BY <3>1, Zenon DEF SameStage, ReadyInv
  <2> QED
    BY <2>1, <2>2
<1>2. LockHeld'
  <2> SUFFICES ASSUME lock' # None PROVE pc'[lock'] \in Locked
    BY Zenon DEF LockHeld
  <2>1. CASE lock' = s
    BY <2>1, Zenon DEF Moves
  <2>2. CASE lock' # s
    <3>1. lock' = lock /\ lock \in Stages \ {s} /\ pc[lock] \in Locked
      BY <2>2 DEF Moves, LockMove, IInv, TypeOK, Ready, LockHeld
    <3>2. pc'[lock] = pc[lock]
      BY <3>1, Zenon DEF Moves, OnlyStage, SameStage
    <3> QED
      BY <3>1, <3>2, Zenon
  <2> QED
    BY <2>1, <2>2
<1> QED
  BY <1>1, <1>2 DEF Ready

\* An operation that ends.
LEMMA EndMoves ==
  ASSUME IInv, Ready, NEW s \in Stages, pc[s] # "idle", Return(s),
         \A t \in Stages \ {s} : SameDisk(t), ledger'[s] = ledger[s]
  PROVE  Moves(s)
<1>1. TypeOK /\ ReadyInv(s) /\ pc[s] \in AllSteps
  BY DEF IInv, TypeOK, Ready, AllSteps
<1>2. /\ LockMove(s) /\ pc'[s] = "idle" /\ op'[s] = "none"
      /\ \A t \in Stages \ {s} : /\ pc'[t] = pc[t] /\ todo'[t] = todo[t] /\ op'[t] = op[t]
                                 /\ sel'[t] = sel[t] /\ mem'[t] = mem[t]
  BY <1>1, Returns, Zenon
<1>3. OnlyStage(s)
  BY <1>2, Zenon DEF OnlyStage, SameStage, SameDisk
<1>4. lock' # s
  BY OwnContents, ZenonT(60) DEF Return, Release
<1>5. ReadyInv(s)'
  BY <1>1, <1>2, Zenon DEF ReadyInv, Loops
<1>6. Advances(s)
  BY <1>1, <1>2, OverAtZero, Zenon DEF Advances, Rank
<1> QED
  BY <1>2, <1>3, <1>4, <1>5, <1>6, ZenonT(60) DEF Moves

\* An operation that goes on to a later step.
LEMMA GoMoves ==
  ASSUME IInv, Ready, NEW s \in Stages, NEW step \in AllSteps, NEW paths \in SUBSET Paths,
         Goto(s, step, paths), LockMove(s), lock' = s => step \in Locked,
         \A t \in Stages \ {s} : SameDisk(t),
         \A t \in Stages \ {s} : op'[t] = op[t] /\ sel'[t] = sel[t] /\ mem'[t] = mem[t],
         ledger'[s].state # "none" => ledger'[s].paths # {},
         op'[s] = "apply" => sel'[s] # {}, step \in Loops => paths # {},
         step \in {"sweeping", "cleaning"} => backup'[s] # "none",
         Place(step, backup'[s]) < Place(pc[s], backup[s])
  PROVE  Moves(s)
<1>1. TypeOK
  BY Zenon DEF IInv
<1>2. /\ pc'[s] = step /\ todo'[s] = paths
      /\ \A t \in Stages \ {s} : pc'[t] = pc[t] /\ todo'[t] = todo[t]
  BY <1>1, Goes, ZenonT(60)
<1>3. OnlyStage(s)
  BY <1>2, ZenonT(60) DEF OnlyStage, SameStage, SameDisk
<1>4. ReadyInv(s)'
  BY <1>2, Zenon DEF ReadyInv
<1>5. Advances(s)
  BY <1>2, Zenon DEF Advances, Rank
<1> QED
  BY <1>2, <1>3, <1>4, <1>5, Zenon DEF Moves

\* Where a loop leads when its last path is done; a loop that follows has a path.
LEMMA OnwardMoves ==
  ASSUME TypeOK, NEW s \in Stages, NEW from \in Loops, Onward(s, from),
         from \in {"backup", "install"} => sel[s] # {}
  PROVE  \E step \in {"check", "install", "publish", "rebase", "mark", "settle", "discard"} :
         \E paths \in SUBSET Paths :
             /\ Goto(s, step, paths) /\ (step \in Loops => paths # {})
             /\ \A b, c : Place(step, b) < Place(from, c)
<1> DEFINE opaque == {p \in sel[s] : Opaque(s, p)}
           others == sel[s] \ opaque
           Leads(step, paths) == /\ Goto(s, step, paths) /\ (step \in Loops => paths # {})
                                 /\ \A b, c : Place(step, b) < Place(from, c)
<1>1. opaque \in SUBSET Paths /\ others \in SUBSET Paths /\ {} \in SUBSET Paths
  BY DEF TypeOK
<1>2. CASE from = "restore"
  <2>1. Goto(s, "check", {})
    BY <1>2, Zenon DEF Onward
  <2>2. Leads("check", {})
    BY <1>2, <2>1, Descends, Zenon DEF Loops
  <2> QED
    BY <1>1, <2>2, Zenon
<1>3. CASE from = "backup" /\ opaque # {}
  <2>1. Goto(s, "install", opaque)
    BY <1>3, ZenonT(60) DEF Onward
  <2>2. Leads("install", opaque)
    BY <1>3, <2>1, Descends, Zenon
  <2> QED
    BY <1>1, <2>2, Zenon
<1>4. CASE from = "backup" /\ opaque = {}
  <2>1. Goto(s, "publish", others) /\ others # {}
    BY <1>4, SMTT(30) DEF Onward
  <2>2. Leads("publish", others)
    BY <1>4, <2>1, Descends, Zenon
  <2> QED
    BY <1>1, <2>2, Zenon
<1>5. CASE from = "install" /\ others # {}
  <2>1. Goto(s, "publish", others)
    BY <1>5, ZenonT(60) DEF Onward
  <2>2. Leads("publish", others)
    BY <1>5, <2>1, Descends, Zenon
  <2> QED
    BY <1>1, <2>2, Zenon
<1>6. CASE from = "install" /\ others = {}
  <2>1. Goto(s, "rebase", opaque) /\ opaque # {}
    BY <1>6, SMTT(30) DEF Onward
  <2>2. Leads("rebase", opaque)
    BY <1>6, <2>1, Descends, Zenon
  <2> QED
    BY <1>1, <2>2, Zenon
<1>7. CASE from = "publish" /\ opaque # {}
  <2>1. Goto(s, "rebase", opaque)
    BY <1>7, ZenonT(60) DEF Onward
  <2>2. Leads("rebase", opaque)
    BY <1>7, <2>1, Descends, Zenon
  <2> QED
    BY <1>1, <2>2, Zenon
<1>8. CASE \/ from = "publish" /\ opaque = {}
           \/ from = "rebase"
  <2>1. Goto(s, "mark", {})
    BY <1>8, ZenonT(60) DEF Onward
  <2>2. Leads("mark", {})
    BY <1>8, <2>1, Descends, Zenon DEF Loops
  <2> QED
    BY <1>1, <2>2, Zenon
<1>9. CASE from = "prune"
  <2>1. Goto(s, "settle", {})
    BY <1>9, ZenonT(60) DEF Onward
  <2>2. Leads("settle", {})
    BY <1>9, <2>1, Descends, Zenon DEF Loops
  <2> QED
    BY <1>1, <2>2, Zenon
<1>10. CASE from = "clear"
  <2>1. Goto(s, "discard", {})
    BY <1>10, ZenonT(60) DEF Onward
  <2>2. Leads("discard", {})
    BY <1>10, <2>1, Descends, Zenon DEF Loops
  <2> QED
    BY <1>1, <2>2, Zenon
<1> HIDE DEF opaque, others, Leads
<1> QED
  BY <1>2, <1>3, <1>4, <1>5, <1>6, <1>7, <1>8, <1>9, <1>10, Zenon DEF Loops

\* One path of a loop is done.
LEMMA LoopMoves ==
  ASSUME IInv, Ready, NEW s \in Stages, pc[s] \in Loops, NEW q \in todo[s], Done(s, q),
         UNCHANGED <<ledger, lock, op, sel, mem>>,
         \A t \in Stages \ {s} : SameDisk(t)
  PROVE  Moves(s)
<1>1. /\ TypeOK /\ OpInv(s) /\ ReadyInv(s) /\ pc[s] \in AllSteps /\ todo[s] \in SUBSET Paths
      /\ lock' = lock /\ LockMove(s)
  BY DEF IInv, TypeOK, Ready, AllSteps, LockMove
<1>2. /\ \A t \in Stages \ {s} : op'[t] = op[t] /\ sel'[t] = sel[t] /\ mem'[t] = mem[t]
      /\ ledger'[s].state # "none" => ledger'[s].paths # {}
      /\ op'[s] = "apply" => sel'[s] # {}
  BY <1>1, Zenon DEF ReadyInv
<1>3. CASE todo[s] = {q}
  <2>1. pc[s] \in {"backup", "install"} => sel[s] # {}
    <3>1. pc[s] \in {"backup", "install"} =>
              ledger[s].state = "Prepared" /\ sel[s] = ledger[s].paths
      BY <1>1, Zenon DEF OpInv, Writing
    <3> QED
      BY <1>1, <3>1, Zenon DEF ReadyInv
  <2>2. Onward(s, pc[s])
    BY <1>3, Zenon DEF Done
  <2>3. PICK step \in {"check", "install", "publish", "rebase", "mark", "settle", "discard"},
             paths \in SUBSET Paths :
             /\ Goto(s, step, paths) /\ (step \in Loops => paths # {})
             /\ \A b, c : Place(step, b) < Place(pc[s], c)
    BY <1>1, <2>1, <2>2, OnwardMoves, ZenonT(60)
  <2>4. /\ step \in AllSteps /\ step \in Locked /\ step \notin {"sweeping", "cleaning"}
        /\ Place(step, backup'[s]) < Place(pc[s], backup[s])
    BY <2>3, Zenon DEF AllSteps, Locked, Writing, Completing
  <2> QED
    BY <1>1, <1>2, <2>3, <2>4, GoMoves, Zenon
<1>4. CASE todo[s] # {q}
  <2>1. Goto(s, pc[s], todo[s] \ {q}) /\ todo[s] \ {q} \in SUBSET Paths
    BY <1>1, <1>4, Zenon DEF Done
  <2>2. /\ pc'[s] = pc[s] /\ todo'[s] = todo[s] \ {q}
        /\ \A t \in Stages \ {s} : pc'[t] = pc[t] /\ todo'[t] = todo[t]
    BY <1>1, <2>1, Zenon DEF TypeOK, Goto
  <2>3. OnlyStage(s)
    BY <1>2, <2>2, Zenon DEF OnlyStage, SameStage, SameDisk
  <2>4. lock' = s => pc'[s] \in Locked
    BY <1>1, <2>2, Zenon DEF Loops, Locked, Writing, Completing
  <2>5. todo'[s] # {} /\ Within(todo'[s], todo[s])
    BY <1>4, <2>2, Zenon DEF Within
  <2>6. ReadyInv(s)'
    BY <1>2, <2>2, <2>5, Zenon DEF ReadyInv, Loops
  <2>7. Rank(s)' = Rank(s)
    <3>1. Place(pc[s], backup'[s]) = Place(pc[s], backup[s])
      BY SamePlace, Zenon
    <3> QED
      BY <2>2, <3>1, Zenon DEF Rank
  <2> QED
    BY <1>1, <2>3, <2>4, <2>5, <2>6, <2>7, Zenon DEF Moves, Advances
<1> QED
  BY <1>3, <1>4, ZenonT(60)

\* What an operation knows of its stage, its batch and its lock.
LEMMA StandFacts ==
  ASSUME IInv, Ready, NEW s \in Stages
  PROVE  /\ TypeOK /\ OpInv(s) /\ ReadyInv(s) /\ pc[s] \in AllSteps
         /\ sel[s] \in SUBSET Paths /\ ledger[s].paths \in SUBSET Paths
         /\ backup[s] \in {"none", "owned", "unowned"}
         /\ op[s] \in {"none", "apply", "recover", "drop"}
         /\ UNCHANGED lock => LockMove(s)
<1>1. TypeOK /\ OpInv(s) /\ ReadyInv(s) /\ ledger[s] \in Ledgers
  BY Zenon DEF IInv, TypeOK, Ready
<1> QED
  BY <1>1, Zenon DEF TypeOK, AllSteps, LockMove, Ledgers

\* What an error leaves.
LEMMA RefuseMoves ==
  ASSUME IInv, Ready, NEW s \in Stages, pc[s] # "idle", Refuse(s)
  PROVE  Moves(s)
<1>1. Return(s) /\ ledger'[s] = ledger[s] /\ \A t \in Stages \ {s} : SameDisk(t)
  BY Zenon DEF Refuse, disk, SameDisk
<1> QED
  BY <1>1, EndMoves, Zenon

\* A step of the operation that changes no record.
LEMMA QuietMoves ==
  ASSUME IInv, Ready, NEW s \in Stages, NEW step \in AllSteps, NEW paths \in SUBSET Paths,
         Goto(s, step, paths), UNCHANGED <<disk, lock, op, sel, mem>>,
         step \in Locked, step \in Loops => paths # {},
         step \in {"sweeping", "cleaning"} => backup[s] # "none",
         Place(step, backup[s]) < Place(pc[s], backup[s])
  PROVE  Moves(s)
<1>1. ReadyInv(s) /\ LockMove(s)
  BY StandFacts
<1>2. /\ \A t \in Stages \ {s} : SameDisk(t)
      /\ \A t \in Stages \ {s} : op'[t] = op[t] /\ sel'[t] = sel[t] /\ mem'[t] = mem[t]
      /\ ledger' = ledger /\ backup' = backup /\ op' = op /\ sel' = sel
  BY Zenon DEF disk, SameDisk
<1>3. /\ ledger'[s].state # "none" => ledger'[s].paths # {}
      /\ op'[s] = "apply" => sel'[s] # {}
      /\ step \in {"sweeping", "cleaning"} => backup'[s] # "none"
      /\ Place(step, backup'[s]) < Place(pc[s], backup[s])
  BY <1>1, <1>2, Zenon DEF ReadyInv
<1> QED
  BY <1>1, <1>2, <1>3, GoMoves, ZenonT(60)

\* The target lock is taken.
LEMMA LockMoves ==
  ASSUME IInv, Ready, NEW s \in Stages, Lock(s)
  PROVE  Moves(s)
<1>1. /\ ReadyInv(s) /\ TypeOK /\ pc[s] = "lock" /\ LockMove(s) /\ Goto(s, "enter", {})
      /\ UNCHANGED <<disk, op, sel>>
  BY StandFacts, Zenon DEF Lock, LockMove
<1>2. \A t \in Stages \ {s} : mem'[t] = mem[t]
  BY <1>1 DEF Lock, TypeOK
<1>3. "enter" \in AllSteps /\ "enter" \in Locked /\ "enter" \notin Loops /\ {} \in SUBSET Paths
  BY SMTT(30) DEF AllSteps, Locked, Loops
<1>4. Place("enter", backup'[s]) < Place(pc[s], backup[s])
  BY <1>1, Descends, Zenon
<1>5. /\ \A t \in Stages \ {s} : SameDisk(t) /\ op'[t] = op[t] /\ sel'[t] = sel[t]
      /\ ledger'[s].state # "none" => ledger'[s].paths # {}
      /\ op'[s] = "apply" => sel'[s] # {}
  BY <1>1, Zenon DEF disk, SameDisk, ReadyInv
<1> QED
  BY <1>1, <1>2, <1>3, <1>4, <1>5, GoMoves, Zenon

\* A leftover backup is found, or there is nothing to recover.
LEMMA SweepMoves ==
  ASSUME IInv, Ready, NEW s \in Stages, Sweep(s) \/ Recovered(s)
  PROVE  Moves(s)
<1>1. CASE Recovered(s)
  BY <1>1, RefuseMoves DEF Recovered
<1>2. CASE Sweep(s)
  <2>1. /\ pc[s] = "enter" /\ backup[s] # "none" /\ Goto(s, "sweep", {})
        /\ UNCHANGED <<disk, lock, op, sel, mem>>
    BY <1>2, Zenon DEF Sweep, LeftoverBackup
  <2>2. /\ "sweep" \in AllSteps /\ "sweep" \in Locked /\ "sweep" \notin Loops
        /\ {} \in SUBSET Paths
    BY DEF AllSteps, Locked, Loops
  <2>3. Place("sweep", backup[s]) < Place(pc[s], backup[s])
    BY <2>1, Descends, Zenon
  <2> QED
    BY <2>1, <2>2, <2>3, QuietMoves, ZenonT(60)
<1> QED
  BY <1>1, <1>2, Zenon

\* A pending apply is taken up again.
LEMMA ResumeMoves ==
  ASSUME IInv, Ready, NEW s \in Stages, Resume(s)
  PROVE  Moves(s)
<1>1. /\ ReadyInv(s) /\ TypeOK /\ pc[s] = "enter" /\ op[s] = "recover"
      /\ ledger[s].state \in {"Prepared", "TargetApplied"} /\ ledger[s].paths \in SUBSET Paths
  BY StandFacts, Zenon DEF Resume, has_pending_applies
<1>2. CASE ledger[s].gen # mem[s].gen
  BY <1>1, <1>2, RefuseMoves, Zenon DEF Resume
<1>3. CASE ledger[s].gen = mem[s].gen
  <2> DEFINE paths == ledger[s].paths
             step == IF ledger[s].state = "TargetApplied" THEN "prune"
                     ELSE IF Replaced(s, paths) # {} THEN "restore" ELSE "check"
             rest == IF ledger[s].state = "TargetApplied" THEN paths
                     ELSE IF Replaced(s, paths) # {} THEN Replaced(s, paths) ELSE {}
  <2>1. /\ Goto(s, step, rest) /\ sel' = [sel EXCEPT ![s] = paths]
        /\ UNCHANGED <<disk, lock, op, mem>>
    BY <1>3, Zenon DEF Resume
  <2>2. paths # {}
    BY <1>1 DEF ReadyInv
  <2>3. rest \in SUBSET Paths /\ (step \in Loops => rest # {})
    BY <1>1, <2>2, Zenon DEF Replaced, Loops
  <2>4. step \in {"prune", "restore", "check"}
    OBVIOUS
  <2>5. \A t \in Stages \ {s} : sel'[t] = sel[t]
    BY <1>1, <2>1, Zenon DEF TypeOK
  <2> HIDE DEF step, rest, paths
  <2>6. step \in AllSteps /\ step \in Locked /\ step \notin {"sweeping", "cleaning"}
    BY <2>4, SMTT(30) DEF AllSteps, Locked, Writing, Completing
  <2>7. Place(step, backup'[s]) < Place(pc[s], backup[s])
    BY <1>1, <2>4, Descends, Zenon
  <2>8. /\ \A t \in Stages \ {s} : SameDisk(t) /\ op'[t] = op[t] /\ mem'[t] = mem[t]
        /\ ledger'[s].state # "none" => ledger'[s].paths # {}
        /\ op'[s] # "apply" /\ LockMove(s)
    <3>1. op[s] # "apply" /\ ReadyInv(s)
      BY <1>1, Zenon
    <3> QED
      BY <2>1, <3>1, Zenon DEF disk, SameDisk, ReadyInv, LockMove
  <2> QED
    BY <2>1, <2>3, <2>5, <2>6, <2>7, <2>8, GoMoves, Zenon
<1> QED
  BY <1>2, <1>3, Zenon

\* The batch is recorded.
LEMMA PrepareMoves ==
  ASSUME IInv, Ready, NEW s \in Stages, Prepare(s)
  PROVE  Moves(s)
<1>1. ReadyInv(s) /\ TypeOK /\ pc[s] = "enter" /\ op[s] = "apply"
  BY StandFacts, Zenon DEF Prepare
<1>2. CASE \E p \in sel[s] : preimages[s][p] = None \/ target[p] # preimages[s][p]
  BY <1>1, <1>2, RefuseMoves, Zenon DEF Prepare
<1>3. CASE ~\E p \in sel[s] : preimages[s][p] = None \/ target[p] # preimages[s][p]
  <2> DEFINE new == [state |-> "Prepared", gen |-> mem[s].gen, paths |-> sel[s],
                     preimages |-> [p \in Paths |->
                         IF p \in sel[s] THEN preimages[s][p] ELSE None]]
  <2>1. /\ ledger' = [ledger EXCEPT ![s] = new] /\ Sync(s) /\ Goto(s, "check", {})
        /\ UNCHANGED <<target, upper, preimages, slot, backup, meta, run, lock, op, sel, mem>>
    BY <1>3, Zenon DEF Prepare
  <2>2. new.paths = sel[s] /\ sel[s] # {}
    BY <1>1, Zenon DEF ReadyInv
  <2> HIDE DEF new
  <2>3. ledger'[s] = new /\ \A t \in Stages \ {s} : ledger'[t] = ledger[t]
    BY <1>1, <2>1 DEF TypeOK
  <2>4. \A t \in Stages \ {s} : SameDisk(t) /\ op'[t] = op[t] /\ sel'[t] = sel[t] /\ mem'[t] = mem[t]
    BY <1>1, <2>1, <2>3, Syncs, ZenonT(60) DEF SameDisk
  <2>5. /\ "check" \in AllSteps /\ "check" \in Locked /\ "check" \notin Loops
        /\ {} \in SUBSET Paths
    BY SMTT(30) DEF AllSteps, Locked, Writing, Loops
  <2>6. Place("check", backup'[s]) < Place(pc[s], backup[s])
    BY <1>1, Descends, Zenon
  <2>7. LockMove(s) /\ ledger'[s].paths # {} /\ (op'[s] = "apply" => sel'[s] # {})
    BY <1>1, <2>1, <2>2, <2>3, Zenon DEF LockMove
  <2> QED
    BY <2>1, <2>4, <2>5, <2>6, <2>7, GoMoves, Zenon
<1> QED
  BY <1>2, <1>3, Zenon

\* The paths of the batch are checked.
LEMMA CheckMoves ==
  ASSUME IInv, Ready, NEW s \in Stages, Check(s)
  PROVE  Moves(s)
<1>1. /\ ReadyInv(s) /\ TypeOK /\ pc[s] = "check" /\ sel[s] \in SUBSET Paths /\ sel[s] # {}
  <2>1. ReadyInv(s) /\ TypeOK /\ OpInv(s) /\ pc[s] = "check" /\ sel[s] \in SUBSET Paths
    BY StandFacts, Zenon DEF Check
  <2>2. ledger[s].state = "Prepared" /\ sel[s] = ledger[s].paths
    BY <2>1, Zenon DEF OpInv, Writing
  <2> QED
    BY <2>1, <2>2, Zenon DEF ReadyInv
<1>2. CASE \E p \in sel[s] : ~validate_target_path(s, p)
  BY <1>1, <1>2, RefuseMoves, Zenon DEF Check
<1>3. CASE ~\E p \in sel[s] : ~validate_target_path(s, p)
  <2>1. UNCHANGED <<disk, lock, op, sel, mem>>
    BY <1>3, Zenon DEF Check
  <2>2. CASE Replaced(s, sel[s]) # {}
    <3>1. Goto(s, "backup", Replaced(s, sel[s])) /\ Replaced(s, sel[s]) \in SUBSET Paths
      BY <1>1, <1>3, <2>2, Zenon DEF Check, Replaced
    <3>2. "backup" \in AllSteps /\ "backup" \in Locked
      BY DEF AllSteps, Locked, Writing
    <3>3. Place("backup", backup[s]) < Place(pc[s], backup[s])
      BY <1>1, Descends, Zenon
    <3> QED
      BY <2>1, <2>2, <3>1, <3>2, <3>3, QuietMoves, ZenonT(60)
  <2>3. CASE Replaced(s, sel[s]) = {}
    <3>1. Onward(s, "backup") /\ "backup" \in Loops
      BY <1>3, <2>3, Zenon DEF Check, Loops
    <3>2. PICK step \in {"check", "install", "publish", "rebase", "mark", "settle", "discard"},
               paths \in SUBSET Paths :
               /\ Goto(s, step, paths) /\ (step \in Loops => paths # {})
               /\ \A b, c : Place(step, b) < Place("backup", c)
      BY <1>1, <3>1, OnwardMoves, Zenon
    <3>3. /\ step \in AllSteps /\ step \in Locked /\ step \notin {"sweeping", "cleaning"}
      BY <3>2, Zenon DEF AllSteps, Locked, Writing, Completing
    <3>4. Place(step, backup[s]) < Place(pc[s], backup[s])
      <4>1. /\ "backup" \in AllSteps /\ pc[s] \in AllSteps /\ pc[s] # "idle" /\ step # "idle"
            /\ Place("backup", backup[s]) < Place(pc[s], backup[s])
        BY <1>1, <3>2, Descends, Zenon DEF AllSteps, Locked, Writing
      <4>2. /\ Place(step, backup[s]) \in 1..22 /\ Place("backup", backup[s]) \in 1..22
            /\ Place(pc[s], backup[s]) \in 1..22
        BY <3>3, <4>1, PlaceCounts, Zenon
      <4>3. Place(step, backup[s]) < Place("backup", backup[s])
        BY <3>2, Zenon
      <4> QED
        BY <4>1, <4>2, <4>3, SMTT(30)
    <3> QED
      BY <2>1, <3>2, <3>3, <3>4, QuietMoves, Zenon
  <2> QED
    BY <2>2, <2>3, Zenon
<1> QED
  BY <1>2, <1>3, Zenon

\* A path of the batch is put back, moved aside or written.
LEMMA WriteMoves ==
  ASSUME IInv, Ready, NEW s \in Stages, NEW q \in Paths,
         Restore(s, q) \/ BackUp(s, q) \/ Install(s, q) \/ Publish(s, q) \/ Rebase(s, q)
  PROVE  Moves(s)
<1>1. TypeOK /\ q \in todo[s] /\ pc[s] \in Loops /\ pc[s] # "idle"
  BY StandFacts, ZenonT(60) DEF Restore, BackUp, Install, Publish, Rebase, Loops
<1>2. CASE Refuse(s)
  BY <1>1, <1>2, RefuseMoves
<1>3. CASE ~Refuse(s)
  <2>1. Done(s, q) /\ UNCHANGED <<upper, ledger, meta, run, lock, op, sel, mem>>
    BY <1>3, Zenon DEF Restore, BackUp, Install, Publish, Rebase
  <2>2. \A t \in Stages \ {s} : slot'[t] = slot[t]
    BY <1>1, <1>3, Zenon DEF Restore, BackUp, Install, Publish, Rebase, TypeOK
  <2>3. \A t \in Stages \ {s} : backup'[t] = backup[t]
    BY <1>1, <1>3, Zenon DEF Restore, BackUp, Install, Publish, Rebase, TypeOK
  <2>4. \A t \in Stages \ {s} : preimages'[t] = preimages[t]
    BY <1>1, <1>3, Zenon DEF Restore, BackUp, Install, Publish, Rebase, TypeOK
  <2>5. \A t \in Stages \ {s} : unsynced'[t] = unsynced[t]
    BY <1>1, <1>3, Zenon DEF Restore, BackUp, Install, Publish, Rebase, Sync, TypeOK
  <2>6. \A t \in Stages \ {s} : SameDisk(t)
    BY <2>1, <2>2, <2>3, <2>4, <2>5, Zenon DEF SameDisk
  <2> QED
    BY <1>1, <2>1, <2>6, LoopMoves, Zenon
<1> QED
  BY <1>2, <1>3, Zenon

\* The steps that publish a record and go on to the next step.
LEMMA RecordMoves ==
  ASSUME IInv, Ready, NEW s \in Stages, Mark(s) \/ Settle(s) \/ Consume(s) \/ Commit(s)
  PROVE  Moves(s)
<1>1. ReadyInv(s) /\ TypeOK /\ OpInv(s) /\ sel[s] \in SUBSET Paths
  BY StandFacts, Zenon
<1>2. /\ Sync(s) /\ UNCHANGED <<target, upper, slot, backup, run, lock, op, sel>>
      /\ LockMove(s)
  BY Zenon DEF Mark, Settle, Consume, Commit, LockMove
<1>3. \A t \in Stages \ {s} : ledger'[t] = ledger[t]
  BY <1>1, Zenon DEF Mark, Settle, Consume, Commit, TypeOK
<1>4. \A t \in Stages \ {s} : preimages'[t] = preimages[t]
  BY <1>1, Zenon DEF Mark, Settle, Consume, Commit, TypeOK
<1>5. \A t \in Stages \ {s} : meta'[t] = meta[t] /\ mem'[t] = mem[t]
  BY <1>1 DEF Mark, Settle, Consume, Commit, TypeOK
<1>6. /\ \A t \in Stages \ {s} : SameDisk(t)
      /\ \A t \in Stages \ {s} : op'[t] = op[t] /\ sel'[t] = sel[t] /\ mem'[t] = mem[t]
  BY <1>1, <1>2, <1>3, <1>4, <1>5, Syncs, Zenon DEF SameDisk
<1>7. ledger[s].state # "none" => ledger'[s].paths # {}
  <2>1. CASE Mark(s) \/ Commit(s)
    <3>1. ledger'[s].paths = ledger[s].paths
      BY <1>1, <2>1, LedgerState, Zenon DEF Mark, Commit
    <3> QED
      BY <1>1, <3>1, Zenon DEF ReadyInv
  <2>2. CASE Settle(s) \/ Consume(s)
    <3>1. ledger' = ledger
      BY <2>2 DEF Settle, Consume
    <3> QED
      BY <1>1, <3>1, Zenon DEF ReadyInv
  <2> QED
    BY <2>1, <2>2, Zenon
<1>8. /\ ledger[s].state # "none" /\ (op'[s] = "apply" => sel'[s] # {})
      /\ Mark(s) => sel[s] # {}
  <2>1. /\ ledger[s].state \in {"Prepared", "TargetApplied"}
        /\ Mark(s) => sel[s] = ledger[s].paths
    BY <1>1, Zenon DEF OpInv, Mark, Settle, Consume, Commit, Writing, Completing
  <2> QED
    BY <1>1, <1>2, <2>1, Zenon DEF ReadyInv
<1>9. CASE Mark(s)
  <2>1. Goto(s, "prune", sel[s]) /\ pc[s] = "mark"
    BY <1>9, SMTT(30) DEF Mark
  <2>2. /\ "prune" \in AllSteps /\ "prune" \in Locked
        /\ Place("prune", backup'[s]) < Place(pc[s], backup[s])
    BY <2>1, Descends, Zenon DEF AllSteps, Locked, Completing
  <2> QED
    BY <1>1, <1>2, <1>6, <1>7, <1>8, <1>9, <2>1, <2>2, GoMoves, Zenon
<1>10. ASSUME NEW x \in {"settle", "consume", "commit"},
              NEW y \in {"consume", "commit", "clean"}, pc[s] = x, Goto(s, y, {}),
              Place(y, backup'[s]) < Place(x, backup[s])
       PROVE  Moves(s)
  <2>1. y \in AllSteps /\ y \in Locked /\ y \notin Loops /\ y \notin {"sweeping", "cleaning"}
        /\ {} \in SUBSET Paths
    BY DEF AllSteps, Locked, Completing, Loops
  <2> QED
    BY <1>2, <1>6, <1>7, <1>8, <1>10, <2>1, GoMoves, Zenon
<1>11. CASE Settle(s)
  <2>1. pc[s] = "settle" /\ Goto(s, "consume", {})
    BY <1>11, ZenonT(60) DEF Settle
  <2>2. Place("consume", backup'[s]) < Place("settle", backup[s])
    BY Descends, Zenon
  <2> QED
    BY <1>10, <2>1, <2>2, Zenon
<1>12. CASE Consume(s)
  <2>1. pc[s] = "consume" /\ Goto(s, "commit", {})
    BY <1>12, ZenonT(60) DEF Consume
  <2>2. Place("commit", backup'[s]) < Place("consume", backup[s])
    BY Descends, Zenon
  <2> QED
    BY <1>10, <2>1, <2>2, Zenon
<1>13. CASE Commit(s)
  <2>1. pc[s] = "commit" /\ Goto(s, "clean", {})
    BY <1>13, ZenonT(60) DEF Commit
  <2>2. Place("clean", backup'[s]) < Place("commit", backup[s])
    BY Descends, Zenon
  <2> QED
    BY <1>10, <2>1, <2>2, Zenon
<1> QED
  BY <1>9, <1>11, <1>12, <1>13

\* An entry of the upper is removed, wholly or in part.
LEMMA RemoveUpperMoves ==
  ASSUME IInv, Ready, NEW s \in Stages, NEW q \in Paths, Prune(s, q) \/ Clear(s, q)
  PROVE  Moves(s)
<1>1. /\ ReadyInv(s) /\ TypeOK /\ OpInv(s) /\ LockMove(s) /\ RemoveUpper(s, q) /\ q \in todo[s]
      /\ pc[s] \in {"prune", "clear"} /\ pc[s] \in Loops
      /\ UNCHANGED <<target, preimages, ledger, slot, backup, meta, run, lock, op, sel, mem>>
  BY StandFacts, Zenon DEF Prune, Clear, Loops, RemoveUpper
<1>2. /\ \A t \in Stages \ {s} : upper'[t] = upper[t]
      /\ \A t \in Stages \ {s} : unsynced'[t] = unsynced[t]
  BY <1>1, Zenon DEF RemoveUpper, TypeOK
<1>3. \A t \in Stages \ {s} : SameDisk(t)
  BY <1>1, <1>2, Zenon DEF SameDisk
<1>4. CASE ~(Opaque(s, q) /\ upper[s][q] = "full")
  <2>1. Done(s, q)
    BY <1>1, <1>4 DEF RemoveUpper
  <2> QED
    BY <1>1, <1>3, <2>1, LoopMoves, Zenon
<1>5. CASE Opaque(s, q) /\ upper[s][q] = "full"
  <2>1. pc' = pc /\ todo' = todo /\ upper' = [upper EXCEPT ![s][q] = "torn"]
    BY <1>1, <1>5 DEF RemoveUpper
  <2>2. OnlyStage(s)
    BY <1>1, <1>3, <2>1, Zenon DEF OnlyStage, SameStage, SameDisk
  <2>3. lock' = s => pc'[s] \in Locked
    BY <1>1, <2>1 DEF Locked, Completing
  <2>4. ReadyInv(s)'
    BY <1>1, <2>1, Zenon DEF ReadyInv
  <2>5. Within(Whole(s)', Whole(s))
    <3>1. \A p \in Paths : upper'[s][p] = IF p = q THEN "torn" ELSE upper[s][p]
      BY <1>1, <2>1 DEF TypeOK
    <3>2. Whole(s)' = Whole(s) \ {q} /\ q \in Whole(s)
      BY <1>5, <3>1, Zenon DEF Whole
    <3> QED
      BY <3>2, Zenon DEF Within
  <2>6. Advances(s)
    BY <1>1, <2>1, <2>5, ZenonT(60) DEF Advances, Rank
  <2> QED
    BY <1>1, <2>2, <2>3, <2>4, <2>6, ZenonT(60) DEF Moves
<1> QED
  BY <1>4, <1>5, Zenon

\* A drop begins to remove what is staged.
LEMMA DiscardMoves ==
  ASSUME IInv, Ready, NEW s \in Stages, Discard(s)
  PROVE  Moves(s)
<1>1. pc[s] = "enter" /\ pc[s] # "idle"
  BY ZenonT(60) DEF Discard
<1>2. CASE has_pending_applies(s) \/ mem[s].state # "Staged"
  BY <1>1, <1>2, RefuseMoves, Zenon DEF Discard
<1>3. CASE ~(has_pending_applies(s) \/ mem[s].state # "Staged")
  <2> DEFINE step == IF Staged(s) # {} THEN "clear" ELSE "discard"
             rest == IF Staged(s) # {} THEN Staged(s) ELSE {}
  <2>1. Goto(s, step, rest) /\ UNCHANGED <<disk, lock, op, sel, mem>>
    BY <1>3, ZenonT(60) DEF Discard
  <2>2. /\ step \in {"clear", "discard"} /\ rest \in SUBSET Paths
        /\ step \in Loops => rest # {}
    BY DEF Staged, Loops
  <2> HIDE DEF step, rest
  <2>3. step \in AllSteps /\ step \in Locked /\ step \notin {"sweeping", "cleaning"}
    BY <2>2, SMTT(30) DEF AllSteps, Locked
  <2>4. Place(step, backup[s]) < Place(pc[s], backup[s])
    BY <1>1, <2>2, Descends, Zenon
  <2> QED
    BY <2>1, <2>2, <2>3, <2>4, QuietMoves, Zenon
<1> QED
  BY <1>2, <1>3, Zenon

\* The lock is given back before the Run record is written.
LEMMA ReleaseMoves ==
  ASSUME IInv, Ready, NEW s \in Stages, Goto(s, "save", {}), Release(s),
         op' = op, sel' = sel, \A t \in Stages \ {s} : mem'[t] = mem[t],
         ledger'[s] = ledger[s], \A t \in Stages \ {s} : SameDisk(t),
         pc[s] \in {"discard", "clean", "cleaning"}
  PROVE  Moves(s)
<1>1. ReadyInv(s) /\ TypeOK
  BY StandFacts, Zenon
<1>2. LockMove(s) /\ lock' # s
  BY OwnContents, ZenonT(60) DEF Release, LockMove
<1>3. /\ "save" \in AllSteps /\ "save" \notin Loops /\ {} \in SUBSET Paths
      /\ "save" \notin {"sweeping", "cleaning"}
  BY DEF AllSteps, Loops
<1>4. Place("save", backup'[s]) < Place(pc[s], backup[s])
  BY Descends, Zenon
<1>5. /\ ledger'[s].state # "none" => ledger'[s].paths # {}
      /\ op'[s] = "apply" => sel'[s] # {}
      /\ \A t \in Stages \ {s} : op'[t] = op[t] /\ sel'[t] = sel[t] /\ mem'[t] = mem[t]
  BY <1>1, Zenon DEF ReadyInv
<1> QED
  BY <1>2, <1>3, <1>4, <1>5, GoMoves, Zenon

\* The overlay record of a dropped stage is published.
LEMMA DiscardedMoves ==
  ASSUME IInv, Ready, NEW s \in Stages, Discarded(s)
  PROVE  Moves(s)
<1>1. /\ TypeOK /\ pc[s] = "discard" /\ Goto(s, "save", {}) /\ Sync(s) /\ Release(s)
      /\ UNCHANGED <<target, upper, preimages, ledger, slot, backup, run, op, sel>>
  BY StandFacts, Zenon DEF Discarded
<1>2. \A t \in Stages \ {s} : mem'[t] = mem[t] /\ meta'[t] = meta[t]
  BY <1>1 DEF Discarded, TypeOK
<1>3. \A t \in Stages \ {s} : SameDisk(t)
  BY <1>1, <1>2, Syncs, ZenonT(60) DEF SameDisk
<1> QED
  BY <1>1, <1>2, <1>3, ReleaseMoves, Zenon

\* What follows a removed backup.
LEMMA AfterCleanupMoves ==
  ASSUME IInv, Ready, NEW s \in Stages, AfterCleanup(s),
         pc[s] \in {"sweep", "sweeping", "clean", "cleaning"},
         \A t \in Stages \ {s} : SameDisk(t), ledger'[s] = ledger[s], backup'[s] = "none"
  PROVE  Moves(s)
<1>1. ReadyInv(s) /\ TypeOK
  BY StandFacts, Zenon
<1>2. CASE pc[s] \in {"sweep", "sweeping"}
  <2>1. Goto(s, "enter", {}) /\ UNCHANGED <<lock, op, sel, mem>>
    BY <1>2, Zenon DEF AfterCleanup
  <2>2. "enter" \in AllSteps /\ "enter" \in Locked /\ "enter" \notin Loops /\ {} \in SUBSET Paths
    BY Zenon DEF AllSteps, Locked, Loops
  <2>3. Place("enter", backup'[s]) < Place(pc[s], backup[s])
    BY <1>2, Descends, Zenon
  <2>4. /\ ledger'[s].state # "none" => ledger'[s].paths # {}
        /\ op'[s] = "apply" => sel'[s] # {}
        /\ \A t \in Stages \ {s} : op'[t] = op[t] /\ sel'[t] = sel[t] /\ mem'[t] = mem[t]
    BY <1>1, <2>1, Zenon DEF ReadyInv
  <2>5. LockMove(s)
    BY <2>1, Zenon DEF LockMove
  <2> QED
    BY <2>1, <2>2, <2>3, <2>4, <2>5, GoMoves, Zenon
<1>3. CASE pc[s] \in {"clean", "cleaning"} /\ op[s] = "apply"
  <2>1. Goto(s, "save", {}) /\ Release(s) /\ UNCHANGED <<op, sel, mem>>
    BY <1>3, Zenon DEF AfterCleanup
  <2> QED
    BY <1>3, <2>1, ReleaseMoves, Zenon
<1>4. CASE pc[s] \notin {"sweep", "sweeping"} /\ ~(pc[s] \in {"clean", "cleaning"} /\ op[s] = "apply")
  <2>1. Return(s)
    BY <1>4, Zenon DEF AfterCleanup
  <2> QED
    BY <2>1, EndMoves
<1> QED
  BY <1>2, <1>3, <1>4, Zenon

\* The backup of a committed apply is opened and removed.
LEMMA CleanupMoves ==
  ASSUME IInv, Ready, NEW s \in Stages, OpenBackup(s) \/ RemoveBackup(s)
  PROVE  Moves(s)
<1>1. /\ TypeOK /\ ReadyInv(s) /\ backup[s] \in {"none", "owned", "unowned"}
      /\ pc[s] \in {"sweep", "sweeping", "clean", "cleaning"}
  BY StandFacts, ZenonT(60) DEF OpenBackup, RemoveBackup
<1>2. CASE RemoveBackup(s)
  <2>1. /\ UNCHANGED <<target, upper, unsynced, preimages, ledger, slot, meta, run>>
        /\ AfterCleanup(s) /\ backup' = [backup EXCEPT ![s] = "none"]
    BY <1>2, ZenonT(60) DEF RemoveBackup
  <2>2. backup'[s] = "none" /\ \A t \in Stages \ {s} : backup'[t] = backup[t]
    BY <1>1, <2>1 DEF TypeOK
  <2>3. \A t \in Stages \ {s} : SameDisk(t)
    BY <2>1, <2>2, Zenon DEF SameDisk
  <2> QED
    BY <1>1, <2>1, <2>2, <2>3, AfterCleanupMoves
<1>3. CASE OpenBackup(s)
  <2>1. /\ UNCHANGED disk /\ ledger' = ledger /\ backup' = backup
        /\ \A t \in Stages \ {s} : SameDisk(t)
    BY <1>3, ZenonT(60) DEF OpenBackup, disk, SameDisk
  <2>2. CASE backup[s] = "none"
    <3>1. AfterCleanup(s)
      BY <1>3, <2>2, Zenon DEF OpenBackup
    <3> QED
      BY <1>1, <2>1, <2>2, <3>1, AfterCleanupMoves
  <2>3. CASE backup[s] = "owned"
    <3> DEFINE step == IF pc[s] = "sweep" THEN "sweeping" ELSE "cleaning"
    <3>1. Goto(s, step, {}) /\ UNCHANGED <<lock, op, sel, mem>>
      BY <1>3, <2>3, Zenon DEF OpenBackup
    <3>2. Place(step, backup[s]) < Place(pc[s], backup[s])
      BY <1>3, <2>3, Descends, Zenon DEF OpenBackup
    <3>3. step \in AllSteps /\ step \in Locked /\ step \notin Loops /\ {} \in SUBSET Paths
      BY DEF AllSteps, Locked, Loops
    <3> HIDE DEF step
    <3> QED
      BY <2>1, <2>3, <3>1, <3>2, <3>3, QuietMoves, Zenon
  <2>4. CASE backup[s] = "unowned"
    <3>1. Return(s)
      BY <1>3, <2>4, Zenon DEF OpenBackup
    <3> QED
      BY <1>1, <2>1, <3>1, EndMoves, Zenon
  <2> QED
    BY <1>1, <2>2, <2>3, <2>4
<1> QED
  BY <1>2, <1>3, Zenon

\* The receipt or an original of the backup goes.
LEMMA RemovalMoves ==
  ASSUME IInv, Ready, NEW s \in Stages,
         RemoveReceipt(s) \/ \E p \in Paths : RemoveOriginal(s, p)
  PROVE  Moves(s)
<1>1. /\ TypeOK /\ ReadyInv(s) /\ pc[s] \in {"sweeping", "cleaning"} /\ LockMove(s)
      /\ UNCHANGED <<target, upper, unsynced, preimages, ledger, meta, run, lock, pc, op,
                     sel, todo, mem>>
  BY StandFacts DEF RemoveReceipt, RemoveOriginal
<1>2. CASE RemoveReceipt(s)
  <2>1. /\ slot' = slot /\ backup[s] = "owned" /\ backup'[s] = "unowned"
        /\ \A t \in Stages \ {s} : backup'[t] = backup[t]
    BY <1>1, <1>2 DEF RemoveReceipt, TypeOK
  <2>2. OnlyStage(s)
    BY <1>1, <2>1, ZenonT(60) DEF OnlyStage, SameStage
  <2>3. ReadyInv(s)'
    BY <1>1, <2>1, SMTT(30) DEF ReadyInv
  <2>4. Place(pc[s], "unowned") < Place(pc[s], "owned")
    BY <1>1, Descends, Zenon
  <2>5. Advances(s) /\ pc'[s] \in Locked
    BY <1>1, <2>1, <2>4, Zenon DEF Advances, Rank, Locked
  <2> QED
    BY <1>1, <2>2, <2>3, <2>5, ZenonT(60) DEF Moves
<1>3. ASSUME NEW q \in Paths, RemoveOriginal(s, q) PROVE Moves(s)
  <2>1. /\ backup' = backup /\ slot[s][q] # None
        /\ \A t \in Stages \ {s} : slot'[t] = slot[t]
        /\ \A p \in Paths : slot'[s][p] = IF p = q THEN None ELSE slot[s][p]
    BY <1>1, <1>3, Zenon DEF RemoveOriginal, TypeOK
  <2>2. OnlyStage(s)
    BY <1>1, <2>1, Zenon DEF OnlyStage, SameStage
  <2>3. ReadyInv(s)'
    BY <1>1, <2>1, Zenon DEF ReadyInv
  <2>4. Within(Originals(s)', Originals(s))
    <3>1. Originals(s)' = Originals(s) \ {q} /\ q \in Originals(s)
      BY <2>1, Zenon DEF Originals
    <3> QED
      BY <3>1 DEF Within
  <2>5. Whole(s)' = Whole(s) /\ Rank(s)' = Rank(s)
    BY <1>1, <2>1, Zenon DEF Whole, Rank
  <2>6. Advances(s)
    BY <1>1, <2>4, <2>5, Zenon DEF Advances
  <2>7. pc'[s] \in Locked
    BY <1>1 DEF Locked
  <2> QED
    BY <1>1, <2>2, <2>3, <2>6, <2>7, Zenon DEF Moves
<1> QED
  BY <1>2, <1>3, Zenon

\* The Run record is written, or the operation dies.
LEMMA LastMoves ==
  ASSUME IInv, Ready, NEW s \in Stages, Save(s) \/ Abort(s)
  PROVE  Moves(s)
<1>1. /\ TypeOK /\ pc[s] # "idle" /\ Return(s) /\ ledger' = ledger
  BY StandFacts DEF Save, Abort, disk
<1>2. \A t \in Stages \ {s} : SameDisk(t)
  <2>1. CASE Save(s)
    <3>1. Sync(s) /\ UNCHANGED <<upper, preimages, ledger, slot, backup, meta>>
      BY <2>1 DEF Save
    <3>2. \A t \in Stages \ {s} : run'[t] = run[t]
      BY <1>1, <2>1 DEF Save, TypeOK
    <3> QED
      BY <1>1, <3>1, <3>2, Syncs DEF SameDisk
  <2>2. CASE Abort(s)
    BY <2>2, Zenon DEF Abort, disk, SameDisk
  <2> QED
    BY <2>1, <2>2, ZenonT(60)
<1> QED
  BY <1>1, <1>2, EndMoves, Zenon

\* Every step of an operation.
LEMMA StepMoves ==
  ASSUME IInv, Ready, NEW s \in Stages, Step(s)
  PROVE  Moves(s)
<1>1. CASE \/ Lock(s) \/ Sweep(s) \/ Resume(s) \/ Recovered(s) \/ Prepare(s) \/ Check(s)
  BY <1>1, LockMoves, SweepMoves, ResumeMoves, PrepareMoves, CheckMoves, Zenon
<1>2. CASE Mark(s) \/ Settle(s) \/ Consume(s) \/ Commit(s) \/ Discard(s) \/ Discarded(s)
  BY <1>2, RecordMoves, DiscardMoves, DiscardedMoves, Zenon
<1>3. CASE OpenBackup(s) \/ RemoveReceipt(s) \/ RemoveBackup(s) \/ Save(s)
  BY <1>3, CleanupMoves, RemovalMoves, LastMoves, Zenon
<1>4. ASSUME NEW p \in Paths, \/ Restore(s, p) \/ BackUp(s, p) \/ Install(s, p)
                              \/ Publish(s, p) \/ Rebase(s, p) \/ Prune(s, p)
                              \/ RemoveOriginal(s, p) \/ Clear(s, p)
      PROVE  Moves(s)
  BY <1>4, WriteMoves, RemoveUpperMoves, RemovalMoves
<1> QED
  BY <1>1, <1>2, <1>3, <1>4, Zenon DEF Step

\* An operation starts: an apply has paths, a recovery and a drop need none.
LEMMA BeginReady ==
  ASSUME IInv, Ready, NEW s \in Stages, NEW o \in {"apply", "recover", "drop"},
         NEW paths \in SUBSET Paths, Begin(s, o, paths)
  PROVE  Ready' /\ \A t \in Stages : pc[t] # "idle" => SameStage(t)
<1>1. /\ TypeOK /\ ReadyInv(s) /\ pc[s] = "idle" /\ Goto(s, "lock", {})
      /\ UNCHANGED <<disk, lock>> /\ (o = "apply" => paths # {})
  BY StandFacts, Zenon DEF Begin
<1>2. /\ pc'[s] = "lock" /\ \A t \in Stages \ {s} : pc'[t] = pc[t] /\ todo'[t] = todo[t]
  <2>1. "lock" \in AllSteps /\ {} \in SUBSET Paths
    BY DEF AllSteps
  <2> QED
    BY <1>1, <2>1, Goes, Zenon
<1>3. /\ op'[s] = o /\ sel'[s] = paths
      /\ \A t \in Stages \ {s} : op'[t] = op[t] /\ sel'[t] = sel[t]
  BY <1>1 DEF Begin, TypeOK
<1>4. \A t \in Stages \ {s} : mem'[t] = mem[t]
  BY <1>1 DEF Begin, TypeOK
<1>5. \A t \in Stages \ {s} : SameStage(t)
  BY <1>1, <1>2, <1>3, <1>4, Zenon DEF disk, SameStage
<1>6. ReadyInv(s)'
  BY <1>1, <1>2, <1>3, Zenon DEF ReadyInv, Loops, disk
<1>7. ASSUME NEW t \in Stages, t # s PROVE ReadyInv(t)'
  <2>1. SameStage(t) /\ ReadyInv(t)
    BY <1>5, <1>7, Zenon DEF Ready
  <2> QED
    BY <2>1, Zenon DEF SameStage, ReadyInv
<1>8. LockHeld'
  <2>1. lock # None => lock \in Stages /\ pc[lock] \in Locked
    BY <1>1 DEF Ready, LockHeld, TypeOK
  <2>2. "idle" \notin Locked
    BY Zenon DEF Locked, Writing, Completing
  <2> QED
    BY <1>1, <1>2, <2>1, <2>2, ZenonT(60) DEF LockHeld
<1> QED
  BY <1>1, <1>5, <1>6, <1>7, <1>8, Zenon DEF Ready

\* An edit of the target, or nothing at all, leaves the operations alone.
LEMMA AwayReady ==
  ASSUME Ready, UNCHANGED <<upper, unsynced, preimages, ledger, slot, backup, meta, run, lock,
                            pc, op, sel, todo, mem>>
  PROVE  Ready' /\ \A t \in Stages : SameStage(t)
<1>1. \A t \in Stages : SameStage(t)
  BY Zenon DEF SameStage
<1>2. Ready'
  BY Zenon DEF Ready, ReadyInv, LockHeld
<1> QED
  BY <1>1, <1>2

\* A power loss ends every operation.
LEMMA PowerLossReady ==
  ASSUME IInv, Ready, NEW back, PowerLoss(back)
  PROVE  Ready' /\ \A t \in Stages : pc[t] # "idle" => Advances(t)
<1>1. /\ ledger' = ledger /\ lock' = None
      /\ \A t \in Stages : pc'[t] = "idle" /\ op'[t] = "none"
  BY Zenon DEF PowerLoss
<1>2. LockHeld'
  BY <1>1 DEF LockHeld
<1>3. ASSUME NEW t \in Stages PROVE ReadyInv(t)'
  <2>1. ReadyInv(t)
    BY Zenon DEF Ready
  <2> QED
    BY <1>1, <2>1, Zenon DEF ReadyInv, Loops
<1>4. ASSUME NEW t \in Stages, pc[t] # "idle" PROVE Advances(t)
  <2>1. pc[t] \in AllSteps
    BY StandFacts, Zenon
  <2>2. Place("idle", backup'[t]) < Place(pc[t], backup[t])
    BY <1>4, <2>1, OverAtZero
  <2> QED
    BY <1>1, <2>2, ZenonT(60) DEF Advances, Rank
<1> QED
  BY <1>2, <1>3, <1>4, Zenon DEF Ready

\* Every step keeps the operations ready and takes none of them back.
LEMMA NextReady ==
  ASSUME IInv, Ready, Next
  PROVE  Ready' /\ StepsCount
<1>1. ASSUME NEW s \in Stages, Step(s) \/ Abort(s)
      PROVE  Ready' /\ \A t \in Stages : pc[t] # "idle" => SameStage(t) \/ Advances(t)
  <2>1. Moves(s)
    BY <1>1, StepMoves, LastMoves
  <2>2. Ready'
    BY <2>1, StaysReady, Zenon
  <2> QED
    BY <2>1, <2>2, Zenon DEF Moves, OnlyStage
<1>2. ASSUME NEW s \in Stages, NEW o \in {"apply", "recover", "drop"},
             NEW paths \in SUBSET Paths, Begin(s, o, paths)
      PROVE  Ready' /\ \A t \in Stages : pc[t] # "idle" => SameStage(t) \/ Advances(t)
  BY <1>2, BeginReady, Zenon
<1>3. ASSUME NEW p \in Paths, NEW c \in {Foreign, Absent}, Edit(p, c)
      PROVE  Ready' /\ \A t \in Stages : pc[t] # "idle" => SameStage(t) \/ Advances(t)
  <2>1. UNCHANGED <<upper, unsynced, preimages, ledger, slot, backup, meta, run, lock,
                    pc, op, sel, todo, mem>>
    BY <1>3, Zenon DEF Edit
  <2> QED
    BY <2>1, AwayReady, Zenon
<1>4. ASSUME NEW back \in SUBSET Removed, PowerLoss(back)
      PROVE  Ready' /\ \A t \in Stages : pc[t] # "idle" => SameStage(t) \/ Advances(t)
  BY <1>4, PowerLossReady, Zenon
<1>5. Ready' /\ \A t \in Stages : pc[t] # "idle" => SameStage(t) \/ Advances(t)
  BY <1>1, <1>2, <1>3, <1>4 DEF Next
<1>6. \A t \in Stages : Step(t) => Advances(t)
  BY StepMoves, Zenon DEF Moves
<1> QED
  BY <1>5, <1>6, Zenon DEF StepsCount

\* An operation that is ready has a step: at "enter" each kind of operation has
\* its action whatever the apply record says.
LEMMA ReadySteps ==
  ASSUME IInv, Ready, NEW s \in Stages, pc[s] # "idle", pc[s] = "lock" => lock = None
  PROVE  CanStep(s)
<1>1. /\ TypeOK /\ OpInv(s) /\ ReadyInv(s) /\ pc[s] \in AllSteps
      /\ backup[s] \in {"none", "owned", "unowned"}
      /\ op[s] \in {"none", "apply", "recover", "drop"} /\ todo[s] \in SUBSET Paths
  BY StandFacts, Zenon DEF TypeOK
<1>2. CASE pc[s] = "enter"
  <2>1. op[s] # "none"
    BY <1>1, <1>2, Zenon DEF OpInv
  <2> QED
    BY <1>1, <1>2, <2>1, Zenon DEF CanStep
<1>3. CASE pc[s] \in Loops
  <2>1. PICK p \in Paths : p \in todo[s]
    BY <1>1, <1>3 DEF ReadyInv
  <2>2. CASE pc[s] # "publish"
    BY <1>3, <2>1, <2>2, Zenon DEF CanStep
  <2>3. CASE pc[s] = "publish"
    <3>1. \E q \in Paths :
              q \in todo[s] /\ (whiteout(s, q) \/ \A r \in todo[s] : ~whiteout(s, r))
      BY <1>1, <2>1, Zenon
    <3> QED
      BY <2>3, <3>1, Zenon DEF CanStep
  <2> QED
    BY <2>2, <2>3, Zenon
<1>4. CASE pc[s] \in {"sweeping", "cleaning"}
  <2>1. backup[s] \in {"owned", "unowned"}
    BY <1>1, <1>4 DEF ReadyInv
  <2> QED
    BY <1>4, <2>1, ZenonT(60) DEF CanStep
<1>5. CASE pc[s] = "lock" \/ pc[s] \in {"sweep", "clean", "check", "mark", "settle", "consume",
                                        "commit", "save", "discard"}
  BY <1>1, <1>5, Zenon DEF CanStep
<1>6. pc[s] \in {"idle", "lock", "enter", "sweeping", "cleaning", "sweep", "clean", "check",
                 "mark", "settle", "consume", "commit", "save", "discard"} \cup Loops
  BY <1>1 DEF AllSteps, Locked, Writing, Completing, Loops
<1> QED
  BY <1>2, <1>3, <1>4, <1>5, <1>6

\* Who waits for the target lock waits for an operation that is ready.
LEMMA ReadyToStep ==
  ASSUME IInv, Ready
  PROVE  OperationsReady
<1> SUFFICES ASSUME NEW s \in Stages, pc[s] # "idle", ~(pc[s] = "lock" => lock = None)
             PROVE  pc[s] = "lock" /\ lock \in Stages \ {s} /\ pc[lock] # "lock" /\ CanStep(lock)
  BY ReadySteps, ZenonT(60) DEF OperationsReady
<1>1. lock \in Stages /\ pc[lock] \in Locked
  BY Zenon DEF IInv, TypeOK, Ready, LockHeld
<1>2. "lock" \notin Locked /\ "idle" \notin Locked
  BY Zenon DEF Locked, Writing, Completing
<1>3. pc[lock] # "lock" /\ pc[lock] # "idle"
  BY <1>1, <1>2
<1> QED
  BY <1>1, <1>3, ReadySteps, Zenon

\* There is no operation and no batch at first.
LEMMA InitReady ==
  ASSUME Init
  PROVE  Ready
<1>1. LockHeld
  BY Zenon DEF Init, LockHeld
<1>2. ASSUME NEW s \in Stages PROVE ReadyInv(s)
  <2>1. ledger[s].state = "none" /\ op[s] = "none" /\ pc[s] = "idle"
    BY Zenon DEF Init
  <2> QED
    BY <2>1 DEF ReadyInv, Loops
<1> QED
  BY <1>1, <1>2 DEF Ready

\* What the two theorems below rest on always holds.
LEMMA AlwaysReady == Spec => [](IInv /\ Ready)
<1>1. Init => Ready
  BY InitReady
<1>2. IInv /\ Ready /\ [Next]_vars => Ready'
  <2>1. IInv /\ Ready /\ Next => Ready'
    BY NextReady, Zenon
  <2>2. Ready /\ UNCHANGED vars => Ready'
    BY AwayReady DEF vars, disk
  <2> QED
    BY <2>1, <2>2
<1> QED
  BY <1>1, <1>2, Invariant, PTL DEF Spec

\* No operation on a stage is ever stuck, for any number of stages, paths and
\* troubles: it can take its next step, or it waits for the target lock and the
\* operation that holds the lock can take its next step.  No crash, error or
\* power loss leaves the lock without an operation that gives it back, a loop
\* without a path or a cleanup without anything to remove (apply.rs).
THEOREM OperationsNeverStuck == Spec => []OperationsReady
<1>1. IInv /\ Ready => OperationsReady
  BY ReadyToStep
<1> QED
  BY <1>1, AlwaysReady, PTL

\* Every step of an operation takes it nearer to its end, and nothing takes it
\* back: with finitely many paths an apply, a recovery or a drop that keeps
\* taking steps is over after a bounded number of them (apply.rs).
THEOREM OperationsAdvance == Spec => [][StepsCount]_vars
<1>1. IInv /\ Ready /\ [Next]_vars => [StepsCount]_vars
  BY NextReady
<1> QED
  BY <1>1, AlwaysReady, PTL DEF Spec
=============================================================================
