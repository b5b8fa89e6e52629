--------------------------- MODULE StageContract ---------------------------
(***************************************************************************)
(* What applying and dropping staged changes promises, without ledgers,    *)
(* backups, locks or processes.                                            *)
(*                                                                         *)
(* A stage offers a content for each path it has changed.  It opens a      *)
(* batch over some of them while the target still has the contents the     *)
(* stage was made from, writes the batch in any number of steps, each one  *)
(* over such a content or over what it wrote itself, and finishes it.  A   *)
(* finished, dropped or fully applied change is closed: it is never        *)
(* written again.  Others edit the target at any time.                     *)
(***************************************************************************)
EXTENDS Naturals

CONSTANTS Stages, Paths, Contents, None, Old, Absent

VARIABLES content,  \* content[p]: what the target holds at p
          offer,    \* offer[s][p]: what stage s would write at p, or None
          open,     \* open[s]: the paths of the batch being applied
          closed,   \* closed[s]: the paths stage s may never write again
          edits     \* how often others have changed the target

Init ==
    /\ content = [p \in Paths |-> Old]
    /\ offer \in [Stages -> [Paths -> Contents \cup {None}]]
    /\ open = [s \in Stages |-> {}]
    /\ closed = [s \in Stages |-> {p \in Paths : offer[s][p] = None}]
    /\ edits = 0

\* The paths W of the batch are as stage s found them, as it wrote them, or
\* hold nothing of anyone's.
Writable(s, W) ==
    W \subseteq open[s] /\ \A p \in W : content[p] \in {Old, Absent, offer[s][p]}

Open(s, P) ==
    /\ open[s] = {} /\ P \cap closed[s] = {}
    /\ \A p \in P : offer[s][p] # None /\ content[p] = Old
    /\ open' = [open EXCEPT ![s] = P]
    /\ UNCHANGED <<content, offer, closed, edits>>

Write(s, W) ==
    /\ Writable(s, W)
    /\ content' = [p \in Paths |-> IF p \in W THEN offer[s][p] ELSE content[p]]
    /\ UNCHANGED <<offer, open, closed, edits>>

\* What others removed after it was written stays removed.
Finish(s, W) ==
    /\ Writable(s, W)
    /\ content' \in [Paths -> Contents]
    /\ \A p \in Paths :
           \/ p \notin W /\ content'[p] = content[p]
           \/ p \in W /\ content'[p] = offer[s][p]
           \/ p \in W /\ edits > 0 /\ content'[p] = Absent
    /\ open' = [open EXCEPT ![s] = {}]
    /\ closed' = [closed EXCEPT ![s] = @ \cup open[s]]
    /\ offer' = [offer EXCEPT ![s] =
                    [p \in Paths |-> IF p \in open[s] THEN None ELSE @[p]]]
    /\ UNCHANGED edits

\* Nothing of the stage is left to decide.
Retire(s) ==
    /\ open[s] = {}
    /\ closed' = [closed EXCEPT ![s] = Paths]
    /\ offer' = [offer EXCEPT ![s] = [p \in Paths |-> None]]
    /\ UNCHANGED <<content, open, edits>>

\* Staged data is damaged, withdrawn or back; a closed path stays closed.
Spoil ==
    /\ offer' \in [Stages -> [Paths -> Contents \cup {None}]]
    /\ \A s \in Stages : \A p \in closed[s] : offer'[s][p] = offer[s][p]
    /\ UNCHANGED <<content, open, closed, edits>>

Edit(p, c) ==
    /\ content' = [content EXCEPT ![p] = c]
    /\ edits' = edits + 1
    /\ UNCHANGED <<offer, open, closed>>

Next ==
    \/ \E s \in Stages, P \in SUBSET Paths :
           Open(s, P) \/ Write(s, P) \/ Finish(s, P)
    \/ \E s \in Stages : Retire(s)
    \/ Spoil
    \/ \E p \in Paths, c \in Contents : Edit(p, c)

Spec == Init /\ [][Next]_<<content, offer, open, closed, edits>>
=============================================================================
