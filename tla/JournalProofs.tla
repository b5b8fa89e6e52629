--------------------------- MODULE JournalProofs ---------------------------
(***************************************************************************)
(* Theorems about the trace journal for every set of identities, payloads  *)
(* and events.  The lemmas on Causality come first, then what appending a  *)
(* line does to a sound log, then the inductive invariant.                 *)
(***************************************************************************)
EXTENDS Journal, FiniteSetTheorems, TLAPS

(* The identities visited from a start set contain the start set and are   *)
(* closed under stored causes.                                             *)
LEMMA ReachedClosed ==
  ASSUME NEW g, NEW start, start \subseteq Id,
         \A x \in DOMAIN g : g[x] \subseteq Id
  PROVE  /\ start \subseteq Reached(start, g)
         /\ Closed(Reached(start, g), g)
<1>1. start \subseteq Reached(start, g)
  BY DEF Reached
<1>2. ASSUME NEW x \in Reached(start, g) \cap DOMAIN g, NEW y \in g[x]
      PROVE  y \in Reached(start, g)
  BY <1>2 DEF Reached, Closed
<1> QED
  BY <1>1, <1>2 DEF Closed

(* What it means that an identity is an unresolved reference.              *)
LEMMA DanglingIff ==
  ASSUME NEW g, NEW y
  PROVE  y \in Dangling(g) <=>
           y \notin DOMAIN g /\ \E x \in DOMAIN g : y \in g[x]
<1> DEFINE U == UNION {g[x] : x \in DOMAIN g}
<1>1. y \in U <=> \E x \in DOMAIN g : y \in g[x]
  OBVIOUS
<1>2. Dangling(g) = U \ DOMAIN g
  BY DEF Dangling
<1> HIDE DEF U
<1> QED
  BY <1>1, <1>2

(* Storing a fresh event keeps the causal graph acyclic when it does not   *)
(* name itself and either nothing refers to it or its causes do not lead   *)
(* back to it: the test append makes against an acyclic journal.           *)
LEMMA ExtendedAcyclic ==
  ASSUME NEW g, Acyclic(g),
         \A x \in DOMAIN g : g[x] \subseteq Id,
         NEW id \in Id, id \notin DOMAIN g,
         NEW edges, edges \subseteq Id, id \notin edges,
         id \notin Dangling(g) \/ id \notin Reached(edges, g)
  PROVE  Acyclic(Extended(g, id, edges))
<1> DEFINE h == Extended(g, id, edges)
<1>1. /\ DOMAIN h = DOMAIN g \cup {id}
      /\ h[id] = edges
      /\ \A x \in DOMAIN g : h[x] = g[x]
  BY DEF Extended
<1> HIDE DEF h
<1> SUFFICES ASSUME NEW S \in SUBSET DOMAIN h, S # {},
                    \A x \in S : h[x] \cap S # {}
             PROVE  FALSE
  BY DEF Acyclic, h
<1>2. CASE id \notin S
  BY <1>1, <1>2 DEF Acyclic
<1>3. CASE id \in S /\ id \notin Reached(edges, g)
  <2> DEFINE T == S \cap Reached(edges, g)
  <2>1. T # {} /\ T \subseteq DOMAIN g
    BY <1>1, <1>3, ReachedClosed
  <2>2. PICK x \in T : g[x] \cap T = {}
    BY <2>1, Zenon DEF Acyclic
  <2>3. PICK y \in S : y \in g[x]
    BY <2>1, <1>1
  <2>4. y \in Reached(edges, g)
    BY <2>1, <2>3, ReachedClosed DEF Closed
  <2> QED
    BY <2>2, <2>3, <2>4
<1>4. CASE id \in S /\ id \notin Dangling(g)
  <2> DEFINE T == S \ {id}
  <2>1. T # {} /\ T \subseteq DOMAIN g
    BY <1>1, <1>4
  <2>2. PICK x \in T : g[x] \cap T = {}
    BY <2>1, Zenon DEF Acyclic
  <2>3. id \notin g[x]
    BY <2>1, <1>4, DanglingIff
  <2> QED
    BY <1>1, <2>1, <2>2, <2>3
<1> QED
  BY <1>2, <1>3, <1>4

-----------------------------------------------------------------------------
(* In a log without repeated identities, the line found for an identity is *)
(* the one that has it.                                                    *)
LEMMA LineOfUnique ==
  ASSUME NEW lines, NEW i \in DOMAIN lines,
         \A k, j \in DOMAIN lines : lines[k].event.id = lines[j].event.id => k = j
  PROVE  LineOf(lines, lines[i].event.id) = lines[i]
BY DEF LineOf

(* Every identity of a log has a line.                                     *)
LEMMA LineOfExists ==
  ASSUME NEW lines, NEW x \in Ids(lines)
  PROVE  \E i \in DOMAIN lines : lines[i].event.id = x /\ LineOf(lines, x) = lines[i]
BY Zenon DEF Ids, LineOf

(* Appending a record adds its identity and leaves every other line where  *)
(* it was.                                                                 *)
LEMMA AppendLine ==
  ASSUME NEW lines \in Seq(Line), NEW r \in Line,
         \A k, j \in DOMAIN lines : lines[k].event.id = lines[j].event.id => k = j,
         r.event.id \notin Ids(lines)
  PROVE  LET new == Append(lines, r) IN
         /\ new \in Seq(Line)
         /\ Ids(new) = Ids(lines) \cup {r.event.id}
         /\ \A k, j \in DOMAIN new : new[k].event.id = new[j].event.id => k = j
         /\ LineOf(new, r.event.id) = r
         /\ \A x \in Ids(lines) : LineOf(new, x) = LineOf(lines, x)
<1> DEFINE new == Append(lines, r)
<1>1. /\ new \in Seq(Line)
      /\ DOMAIN lines = 1..Len(lines) /\ Len(lines) \in Nat
      /\ DOMAIN new = DOMAIN lines \cup {Len(lines) + 1}
      /\ \A i \in DOMAIN lines : new[i] = lines[i]
      /\ new[Len(lines) + 1] = r
  OBVIOUS
<1> HIDE DEF new
<1>2. Ids(new) = Ids(lines) \cup {r.event.id}
  BY <1>1 DEF Ids
<1>3. \A k, j \in DOMAIN new : new[k].event.id = new[j].event.id => k = j
  BY <1>1 DEF Ids
<1>4. LineOf(new, r.event.id) = r
  BY <1>1, <1>3, LineOfUnique
<1>5. ASSUME NEW x \in Ids(lines)
      PROVE  LineOf(new, x) = LineOf(lines, x)
  <2>1. PICK i \in DOMAIN lines : lines[i].event.id = x
    BY DEF Ids
  <2>2. LineOf(lines, x) = lines[i]
    BY <2>1, LineOfUnique
  <2>3. LineOf(new, x) = new[i]
    BY <1>1, <1>3, <2>1, LineOfUnique, SMTT(30)
  <2> QED
    BY <1>1, <2>2, <2>3
<1> QED
  BY <1>1, <1>2, <1>3, <1>4, <1>5 DEF new

(* A record is a line.                                                     *)
LEMMA RecordIsLine ==
  ASSUME NEW e \in Event, NEW n \in Nat
  PROVE  Record(e, n) \in Line /\ Record(e, n).event = e
BY DEF Record, Line

(* The identities and causes of an event.                                  *)
LEMMA EventTypes ==
  ASSUME NEW e \in Event
  PROVE  e.id \in Id /\ e.caused_by \subseteq Id
BY EventAssumption

(* The causal graph of a log.                                              *)
LEMMA CausesOfTypes ==
  ASSUME NEW lines \in Seq(Line)
  PROVE  /\ DOMAIN CausesOf(lines) = Ids(lines)
         /\ Ids(lines) \subseteq Id
         /\ \A x \in Ids(lines) : CausesOf(lines)[x] \subseteq Id
<1>1. \A i \in DOMAIN lines : lines[i] \in Line
  OBVIOUS
<1>2. \A x \in Ids(lines) : LineOf(lines, x) \in Line
  BY <1>1, LineOfExists
<1> QED
  BY <1>1, <1>2, EventTypes DEF CausesOf, Ids, Line

(* What append accepts leaves a log that scan accepts.                     *)
LEMMA SoundAppend ==
  ASSUME NEW lines \in Seq(Line), SoundLog(lines),
         NEW e \in Event, Valid(e), e.data \notin Unreadable,
         e.id \notin Ids(lines),
         \/ e.id \notin Dangling(CausesOf(lines))
         \/ e.id \notin Reached(e.caused_by, CausesOf(lines))
  PROVE  SoundLog(Append(lines, Record(e, Len(lines))))
<1> DEFINE r == Record(e, Len(lines))
           new == Append(lines, r)
<1>1. r \in Line /\ r.event = e /\ r.ok /\ r.offset = Len(lines)
  BY RecordIsLine DEF Record
<1>2. /\ new \in Seq(Line) /\ Len(new) = Len(lines) + 1
      /\ DOMAIN lines = 1..Len(lines) /\ Len(lines) \in Nat
      /\ DOMAIN new = DOMAIN lines \cup {Len(lines) + 1}
      /\ \A i \in DOMAIN lines : new[i] = lines[i]
      /\ new[Len(lines) + 1] = r
  BY <1>1
<1> HIDE DEF r
<1>3. /\ Ids(new) = Ids(lines) \cup {e.id}
      /\ \A k, j \in DOMAIN new : new[k].event.id = new[j].event.id => k = j
      /\ LineOf(new, e.id) = r
      /\ \A x \in Ids(lines) : LineOf(new, x) = LineOf(lines, x)
  BY <1>1, AppendLine, ZenonT(30) DEF SoundLog
<1> HIDE DEF new
<1>4. \A i \in DOMAIN new :
         /\ new[i].ok /\ new[i].offset = i - 1 /\ Valid(new[i].event)
         /\ new[i].event.data \notin Unreadable
  BY <1>1, <1>2 DEF SoundLog
<1>5. IsFiniteSet(Ids(new)) /\ Cardinality(Ids(new)) = Len(new)
  <2>1. IsFiniteSet(Ids(lines)) /\ Cardinality(Ids(lines)) = Len(lines)
    BY DEF SoundLog
  <2>2. /\ IsFiniteSet(Ids(lines) \cup {e.id})
        /\ Cardinality(Ids(lines) \cup {e.id}) = Cardinality(Ids(lines)) + 1
    BY <2>1, FS_AddElement, Zenon
  <2> QED
    BY <1>2, <1>3, <2>1, <2>2
<1>6. CausesOf(new) = Extended(CausesOf(lines), e.id, e.caused_by)
  BY <1>1, <1>3 DEF CausesOf, Extended
<1>7. Acyclic(CausesOf(new))
  BY <1>6, ExtendedAcyclic, EventTypes, CausesOfTypes DEF SoundLog, Valid
<1> QED
  BY <1>3, <1>4, <1>5, <1>7 DEF SoundLog, new, r

-----------------------------------------------------------------------------
(* The empty log is sound.                                                 *)
LEMMA SoundEmpty == SoundLog(<<>>) /\ Ids(<<>>) = {}
<1>1. Ids(<<>>) = {}
  BY DEF Ids
<1>2. IsFiniteSet({}) /\ Cardinality({}) = 0
  BY FS_EmptySet
<1>3. Acyclic(CausesOf(<<>>))
  BY <1>1 DEF Acyclic, CausesOf
<1>4. DOMAIN (<<>>) = {} /\ Len(<<>>) = 0
  OBVIOUS
<1> QED
  BY <1>1, <1>2, <1>3, <1>4, Zenon DEF SoundLog

(* A line of a prefix is a line of the whole.                              *)
LEMMA PrefixLine ==
  ASSUME NEW s \in Seq(Line), NEW t \in Seq(Line), PrefixLog(s, t),
         NEW i \in DOMAIN s
  PROVE  i \in DOMAIN t /\ t[i] = s[i]
BY DEF PrefixLog

(* A sync keeps what receipts promise.                                     *)
LEMMA SyncKeepsReceipts ==
  ASSUME TypeOK, FileInv, ReceiptInv, FsyncLinks, NEW r \in receipts
  PROVE  r.offset + 1 \in DOMAIN file.lines /\ file.lines[r.offset + 1] = r
<1>1. disk.lines \in Seq(Line) /\ file.lines \in Seq(Line)
  BY DEF TypeOK, Contents
<1> QED
  BY <1>1, PrefixLine DEF FileInv, ReceiptInv

(* The initial state satisfies the invariant.                              *)
LEMMA InitInv == Init => IInv
<1> SUFFICES ASSUME Init PROVE IInv
  OBVIOUS
<1>1. NoFile \in Contents /\ NoFile.lines = <<>> /\ ~NoFile.torn
      /\ NoFile.header = "none"
  BY DEF NoFile, Contents
<1>2. TypeOK
  <2>1. <<>> \in Seq(Event)
    OBVIOUS
  <2>2. DOMAIN EmptyIndex = {}
    BY DEF EmptyIndex
  <2> QED
    BY <1>1, <2>1, <2>2, Zenon DEF Init, TypeOK
<1>3. FileInv
  BY <1>1, SoundEmpty DEF Init, FileInv, PrefixLog
<1>4. HandleInv
  BY DEF Init, HandleInv
<1>5. ReceiptInv
  BY <1>1 DEF Init, ReceiptInv
<1> QED
  BY <1>2, <1>3, <1>4, <1>5 DEF IInv

(* The handle that open returns indexes the file it scanned.               *)
LEMMA AdoptInv ==
  ASSUME TypeOK, Adopt, UNCHANGED <<file, cur>>,
         disk' = file, ~file.torn, cur = {}
  PROVE  /\ HandleInv'
         /\ DOMAIN seen' \subseteq Id /\ \A x \in DOMAIN seen' : seen'[x] \in Line
         /\ DOMAIN causes' \subseteq Id
         /\ \A x \in DOMAIN causes' : causes'[x] \subseteq Id
         /\ unresolved' \subseteq Id /\ poisoned' \in BOOLEAN /\ phase' = "open"
<1>1. file.lines \in Seq(Line)
  BY DEF TypeOK, Contents
<1>2. \A i \in DOMAIN file.lines : file.lines[i] \in Line
  BY <1>1
<1>3. \A x \in Ids(file.lines) : LineOf(file.lines, x) \in Line
  BY <1>2, LineOfExists
<1>4. HandleInv'
  BY DEF Adopt, HandleInv, IndexedBut, SeenOf, CausesOf
<1>5. unresolved' \subseteq Id
  BY <1>1, CausesOfTypes, DanglingIff DEF Adopt
<1> QED
  BY <1>1, <1>3, <1>4, <1>5, CausesOfTypes, Zenon DEF Adopt, SeenOf

(* Opening a journal preserves the invariant.                              *)
LEMMA OpenInv ==
  ASSUME IInv,
         \/ OpenNew \/ SyncHeader \/ SyncDirectory
         \/ OpenExisting \/ SyncRecovered \/ OpenFails
  PROVE  IInv'
<1> USE DEF IInv
<1>1. CASE OpenNew
  <2>1. TypeOK'
    BY <1>1, ZenonT(60) DEF OpenNew, TypeOK, Contents, handle, history
  <2>2. FileInv'
    BY <1>1 DEF OpenNew, TypeOK, Contents, FileInv
  <2>3. HandleInv'
    BY <1>1 DEF OpenNew, HandleInv
  <2>4. ReceiptInv'
    BY <1>1 DEF OpenNew, TypeOK, Contents, FileInv, ReceiptInv, history
  <2> QED
    BY <2>1, <2>2, <2>3, <2>4
<1>2. CASE SyncHeader
  <2>1. TypeOK'
    BY <1>2, FsyncLinksAssumption DEF SyncHeader, TypeOK, handle, history
  <2>2. FileInv'
    BY <1>2 DEF SyncHeader, FileInv, PrefixLog
  <2>3. HandleInv'
    BY <1>2 DEF SyncHeader, HandleInv
  <2>4. ReceiptInv'
    BY <1>2, SyncKeepsReceipts, Zenon DEF SyncHeader, ReceiptInv, history
  <2> QED
    BY <2>1, <2>2, <2>3, <2>4
<1>3. CASE SyncDirectory
  <2>1. disk' = file /\ ~file.torn /\ cur = {} /\ Adopt
    BY <1>3 DEF SyncDirectory, FileInv, HandleInv
  <2>2. /\ HandleInv'
        /\ DOMAIN seen' \subseteq Id /\ \A x \in DOMAIN seen' : seen'[x] \in Line
        /\ DOMAIN causes' \subseteq Id
        /\ \A x \in DOMAIN causes' : causes'[x] \subseteq Id
        /\ unresolved' \subseteq Id /\ poisoned' \in BOOLEAN /\ phase' = "open"
    BY <1>3, <2>1, AdoptInv DEF SyncDirectory
  <2>3. TypeOK'
    BY <1>3, <2>2 DEF SyncDirectory, TypeOK, history
  <2>4. FileInv'
    BY <1>3, <2>2 DEF SyncDirectory, FileInv
  <2>5. ReceiptInv'
    BY <1>3, <2>2 DEF SyncDirectory, ReceiptInv, history
  <2> QED
    BY <2>2, <2>3, <2>4, <2>5
<1>4. CASE OpenExisting
  <2>1. /\ file' \in Contents /\ file'.lines = file.lines
        /\ file'.header = file.header /\ ~file'.torn
    BY <1>4, Zenon DEF OpenExisting, Repaired, TypeOK, Contents
  <2>2. TypeOK'
    BY <1>4, <2>1, Zenon DEF OpenExisting, TypeOK, handle, history
  <2>3. FileInv'
    BY <1>4, <2>1 DEF OpenExisting, FileInv, Scans
  <2>4. HandleInv'
    BY <1>4 DEF OpenExisting, HandleInv
  <2>5. ReceiptInv'
    BY <1>4, <2>1 DEF OpenExisting, ReceiptInv, history
  <2> QED
    BY <2>2, <2>3, <2>4, <2>5
<1>5. CASE SyncRecovered
  <2>1. disk' = file /\ ~file.torn /\ cur = {} /\ Adopt
    BY <1>5 DEF SyncRecovered, FileInv, HandleInv
  <2>2. /\ HandleInv'
        /\ DOMAIN seen' \subseteq Id /\ \A x \in DOMAIN seen' : seen'[x] \in Line
        /\ DOMAIN causes' \subseteq Id
        /\ \A x \in DOMAIN causes' : causes'[x] \subseteq Id
        /\ unresolved' \subseteq Id /\ poisoned' \in BOOLEAN /\ phase' = "open"
    BY <1>5, <2>1, AdoptInv DEF SyncRecovered
  <2>3. TypeOK'
    BY <1>5, <2>2, FsyncLinksAssumption DEF SyncRecovered, TypeOK, history
  <2>4. FileInv'
    BY <1>5, <2>2 DEF SyncRecovered, FileInv, PrefixLog
  <2>5. ReceiptInv'
    BY <1>5, <2>2, SyncKeepsReceipts, Zenon DEF SyncRecovered, ReceiptInv, history
  <2> QED
    BY <2>2, <2>3, <2>4, <2>5
<1>6. CASE OpenFails
  <2>1. TypeOK'
    BY <1>6 DEF OpenFails, TypeOK, handle, history
  <2>2. FileInv'
    BY <1>6 DEF OpenFails, FileInv
  <2>3. HandleInv'
    BY <1>6 DEF OpenFails, HandleInv
  <2>4. ReceiptInv'
    BY <1>6 DEF OpenFails, ReceiptInv, history
  <2> QED
    BY <2>1, <2>2, <2>3, <2>4
<1> QED
  BY <1>1, <1>2, <1>3, <1>4, <1>5, <1>6

(* What holds when append accepts an event: the handle is exact, the log   *)
(* durable, and the record it writes extends the log soundly.              *)
LEMMA AcceptFacts ==
  ASSUME IInv, NEW e \in Event, Accepts(e)
  PROVE  /\ file.lines \in Seq(Line) /\ disk = file /\ ~file.torn
         /\ seen = SeenOf(file.lines) /\ causes = CausesOf(file.lines)
         /\ e.id \notin Ids(file.lines)
         /\ Cardinality(DOMAIN seen) = Len(file.lines)
         /\ SoundLog(Append(file.lines, Record(e, Len(file.lines))))
<1>1. file.lines \in Seq(Line)
  BY DEF IInv, TypeOK, Contents
<1>2. /\ disk = file /\ ~file.torn
      /\ seen = SeenOf(file.lines) /\ causes = CausesOf(file.lines)
      /\ unresolved = Dangling(causes)
  BY DEF IInv, HandleInv, IndexedBut, Accepts, SeenOf, CausesOf
<1>3. DOMAIN seen = Ids(file.lines)
  BY <1>2, Zenon DEF SeenOf
<1>4. SoundLog(file.lines)
  BY Zenon DEF IInv, FileInv
<1>5. Cardinality(DOMAIN seen) = Len(file.lines)
  BY <1>3, <1>4 DEF SoundLog
<1>6. Valid(e) /\ e.data \notin Unreadable /\ e.id \notin Ids(file.lines)
  BY <1>3 DEF Accepts, Rejects
<1>7. \/ e.id \notin Dangling(CausesOf(file.lines))
      \/ e.id \notin Reached(e.caused_by, CausesOf(file.lines))
  BY <1>2 DEF Accepts, Rejects, ClosesCycle
<1> QED
  BY <1>1, <1>2, <1>4, <1>5, <1>6, <1>7, SoundAppend

(* Writing a record preserves the invariant.                               *)
LEMMA WriteInv ==
  ASSUME IInv, NEW e \in Event, AppendWrite(e)
  PROVE  IInv'
<1> DEFINE r == Record(e, Len(file.lines))
<1>1. /\ file.lines \in Seq(Line) /\ disk = file /\ ~file.torn
      /\ seen = SeenOf(file.lines) /\ causes = CausesOf(file.lines)
      /\ e.id \notin Ids(file.lines)
      /\ Cardinality(DOMAIN seen) = Len(file.lines)
      /\ SoundLog(Append(file.lines, r))
  BY AcceptFacts DEF AppendWrite
<1>2. /\ file' \in Contents /\ file'.header = file.header /\ ~file'.torn
      /\ file'.lines = Append(file.lines, r)
  <2>1. r \in Line
    BY <1>1, RecordIsLine
  <2>2. (~file.torn) = TRUE
    BY <1>1
  <2>3. [ok |-> ~file.torn, offset |-> Cardinality(DOMAIN seen), event |-> e] = r
    BY <1>1, <2>2, Zenon DEF Record
  <2>4. file' = [file EXCEPT !.lines = Append(@, r), !.torn = FALSE]
    BY <2>3, Zenon DEF AppendWrite, Written
  <2> HIDE DEF r
  <2>5. file \in Contents
    BY DEF IInv, TypeOK
  <2> DEFINE new == Append(file.lines, r)
  <2>6. file' = [header |-> file.header, lines |-> new, torn |-> FALSE]
    BY <2>4, <2>5, Zenon DEF Contents
  <2> HIDE DEF new
  <2>7. new \in Seq(Line)
    BY <1>1, <2>1 DEF new
  <2>8. /\ file' \in Contents /\ file'.header = file.header /\ ~file'.torn
        /\ file'.lines = new
    BY <2>5, <2>6, <2>7 DEF Contents
  <2> QED
    BY <2>8 DEF new
<1>3. /\ Ids(file'.lines) = Ids(file.lines) \cup {e.id}
      /\ \A x \in Ids(file.lines) : LineOf(file'.lines, x) = LineOf(file.lines, x)
      /\ Len(file'.lines) = Len(file.lines) + 1
      /\ file'.lines[Len(file'.lines)] = r
  <2>1. r \in Line /\ r.event = e
    BY <1>1, RecordIsLine
  <2>2. \A k, j \in DOMAIN file.lines :
           file.lines[k].event.id = file.lines[j].event.id => k = j
    BY Zenon DEF IInv, FileInv, SoundLog
  <2> HIDE DEF r
  <2>3. /\ Ids(Append(file.lines, r)) = Ids(file.lines) \cup {e.id}
        /\ \A x \in Ids(file.lines) :
              LineOf(Append(file.lines, r), x) = LineOf(file.lines, x)
    BY <1>1, <2>1, <2>2, AppendLine, Zenon
  <2> QED
    BY <1>1, <1>2, <2>1, <2>3
<1>4. TypeOK'
  BY <1>2 DEF AppendWrite, IInv, TypeOK, handle, history
<1>5. FileInv'
  <2>1. PrefixLog(disk.lines, file'.lines)
    BY <1>1, <1>2 DEF PrefixLog
  <2> QED
    BY <1>1, <1>2, <2>1, Zenon DEF AppendWrite, Accepts, IInv, FileInv
<1>6. HandleInv'
  <2>1. IndexedBut(file.lines, {})
    BY Zenon DEF AppendWrite, Accepts, IInv, HandleInv
  <2>2. Ids(file'.lines) \ {e.id} = Ids(file.lines)
    BY <1>1, <1>3, Zenon
  <2>3. IndexedBut(file.lines, {e.id})'
    BY <1>3, <2>1, <2>2 DEF IndexedBut, AppendWrite, handle
  <2>4. e.id \notin DOMAIN seen
    BY Zenon DEF AppendWrite, Accepts
  <2> QED
    BY <1>1, <1>2, <1>3, <2>3, <2>4, Zenon DEF AppendWrite, Accepts, HandleInv, handle
<1>7. ReceiptInv'
  BY DEF AppendWrite, Accepts, IInv, ReceiptInv, history
<1> QED
  BY <1>4, <1>5, <1>6, <1>7 DEF IInv

(* Rejecting, retrying and failing appends preserve the invariant.         *)
LEMMA SubmitInv ==
  ASSUME IInv, NEW e \in Event, Submit(e)
  PROVE  IInv'
<1> USE DEF IInv
<1>1. CASE AppendRejected(e)
  <2>1. TypeOK'
    BY <1>1, Zenon DEF AppendRejected, TypeOK, handle
  <2>2. FileInv' /\ HandleInv' /\ ReceiptInv'
    BY <1>1 DEF AppendRejected, FileInv, HandleInv, IndexedBut, ReceiptInv, handle
  <2> QED
    BY <2>1, <2>2
<1>2. CASE AppendRetried(e)
  <2>1. file.lines \in Seq(Line) /\ SoundLog(file.lines) /\ disk = file
    BY <1>2, Zenon DEF AppendRetried, TypeOK, Contents, FileInv, HandleInv
  <2>2. e.id \in Ids(file.lines) /\ seen[e.id] = LineOf(file.lines, e.id)
    BY <1>2, Zenon DEF AppendRetried, HandleInv, IndexedBut
  <2>3. PICK i \in DOMAIN file.lines : seen[e.id] = file.lines[i]
    BY <2>2, LineOfExists
  <2>4. file.lines[i] \in Line /\ i \in Nat
    BY <2>1
  <2>5. /\ file.lines[i].event = e /\ file.lines[i].ok
        /\ file.lines[i].offset = i - 1
    BY <1>2, <2>1, <2>3, Zenon DEF AppendRetried, SoundLog
  <2> DEFINE r == Record(e, seen[e.id].offset)
  <2>6. r = file.lines[i]
    <3>1. file.lines[i].ok = TRUE
      BY <2>4, <2>5 DEF Line
    <3>2. file.lines[i] = [ok |-> file.lines[i].ok,
                           offset |-> file.lines[i].offset,
                           event |-> file.lines[i].event]
      BY <2>4 DEF Line
    <3> QED
      BY <2>3, <2>5, <3>1, <3>2 DEF Record
  <2>7. receipts' = receipts \cup {file.lines[i]}
    BY <1>2, <2>6 DEF AppendRetried
  <2>8. TypeOK'
    BY <1>2, <2>4, <2>7, Zenon DEF AppendRetried, TypeOK, handle
  <2>9. FileInv' /\ HandleInv'
    BY <1>2 DEF AppendRetried, FileInv, HandleInv, IndexedBut, handle
  <2>10. ReceiptInv'
    <3>1. UNCHANGED <<file, disk, linked, phase>>
      BY <1>2, Zenon DEF AppendRetried
    <3>2. disk.lines[file.lines[i].offset + 1] = file.lines[i]
          /\ file.lines[i].offset + 1 \in DOMAIN disk.lines
      BY <2>1, <2>4, <2>5
    <3> QED
      BY <2>7, <3>1, <3>2, ZenonT(30) DEF ReceiptInv
  <2> QED
    BY <2>8, <2>9, <2>10
<1>3. CASE AppendWrite(e)
  BY <1>3, WriteInv
<1>4. CASE AppendWriteFails(e)
  <2>1. /\ file' \in Contents /\ file'.lines = file.lines
        /\ file'.header = file.header
    BY <1>4, Zenon DEF AppendWriteFails, TypeOK, Contents
  <2>2. TypeOK'
    BY <1>4, <2>1 DEF AppendWriteFails, TypeOK, history
  <2>3. FileInv'
    BY <1>4, <2>1 DEF AppendWriteFails, Accepts, FileInv
  <2>4. HandleInv'
    BY <1>4 DEF AppendWriteFails, Accepts, HandleInv
  <2>5. ReceiptInv'
    BY <1>4, <2>1 DEF AppendWriteFails, Accepts, ReceiptInv, history
  <2> QED
    BY <2>2, <2>3, <2>4, <2>5
<1> QED
  BY <1>1, <1>2, <1>3, <1>4 DEF Submit

(* Committing a synced record completes the index: the receipt names a     *)
(* line that is durable already.                                           *)
LEMMA CommitInv ==
  ASSUME IInv, AppendCommit
  PROVE  IInv'
<1>1. PICK e \in Event :
        /\ cur = {e} /\ e.id \notin DOMAIN seen
        /\ IndexedBut(file.lines, {e.id})
        /\ Cardinality(DOMAIN seen) + 1 = Len(file.lines)
        /\ file.lines[Len(file.lines)] = Record(e, Cardinality(DOMAIN seen))
  BY Zenon DEF IInv, HandleInv, AppendCommit
<1> DEFINE n == Len(file.lines)
           r == file.lines[n]
<1>2. file.lines \in Seq(Line) /\ n \in Nat /\ DOMAIN file.lines = 1..n
  BY DEF IInv, TypeOK, Contents
<1>3. disk = file /\ SoundLog(file.lines) /\ ~poisoned /\ ~file.torn
  BY DEF IInv, FileInv, HandleInv, AppendCommit
<1>4. n # 0
  <2>1. Len(file.lines) = Cardinality(Ids(file.lines))
    BY <1>3 DEF SoundLog
  <2>2. CASE n = 0
    <3>1. Ids(file.lines) = {}
      BY <1>2, <2>2 DEF Ids
    <3>2. DOMAIN seen = {}
      BY <1>1, <3>1 DEF IndexedBut
    <3> QED
      BY <1>1, <2>2, <3>2, FS_EmptySet
  <2> QED
    BY <2>2, Zenon
<1>5. n \in DOMAIN file.lines /\ r \in Line
  BY <1>2, <1>4
<1>6. r.event = e /\ r.offset = n - 1 /\ Record(e, Cardinality(DOMAIN seen)) = r
  BY <1>1, <1>3, <1>5 DEF SoundLog, Record
<1>7. e.id \in Ids(file.lines) /\ LineOf(file.lines, e.id) = r
  <2>1. LineOf(file.lines, file.lines[n].event.id) = file.lines[n]
    BY <1>3, <1>5, LineOfUnique, Zenon DEF SoundLog
  <2> QED
    BY <1>5, <1>6, <2>1, Zenon DEF Ids
<1>8. /\ seen' = [x \in DOMAIN seen \cup {e.id} |-> IF x = e.id THEN r ELSE seen[x]]
      /\ unresolved' = UnresolvedAfter(e)
      /\ causes' = Extended(causes, e.id, e.caused_by)
      /\ notified' = Append(notified, e)
      /\ receipts' = receipts \cup {r}
      /\ cur' = {} /\ phase' = "open"
      /\ UNCHANGED <<file, disk, linked, poisoned, rejected, exported>>
  BY <1>1, <1>6 DEF AppendCommit
<1> HIDE DEF r
<1>9. DOMAIN seen = DOMAIN causes
  BY <1>1, Zenon DEF IndexedBut
<1>10. seen' = [x \in Ids(file.lines) |-> LineOf(file.lines, x)]
  BY <1>1, <1>7, <1>8, Zenon DEF IndexedBut
<1>11. causes' = [x \in Ids(file.lines) |-> LineOf(file.lines, x).event.caused_by]
  BY <1>1, <1>6, <1>7, <1>8, Zenon DEF IndexedBut, Extended
<1>12. unresolved' = Dangling(causes')
  <2>1. e.id \notin e.caused_by
    BY <1>3, <1>5, <1>6, Zenon DEF SoundLog, Valid, r
  <2>2. /\ DOMAIN causes' = DOMAIN causes \cup {e.id}
        /\ causes'[e.id] = e.caused_by
        /\ \A x \in DOMAIN causes : causes'[x] = causes[x]
    BY <1>1, <1>8, <1>9 DEF Extended
  <2>3. unresolved = Dangling(causes)
    BY <1>1 DEF IndexedBut
  <2>4. ASSUME NEW y
        PROVE  y \in unresolved' <=> y \in Dangling(causes')
    <3>1. y \in unresolved' <=>
            \/ y \in Dangling(causes) /\ y # e.id
            \/ y \in e.caused_by /\ y \notin DOMAIN causes \cup {e.id}
      BY <1>8, <1>9, <2>3 DEF UnresolvedAfter
    <3>2. y \in Dangling(causes) <=>
            y \notin DOMAIN causes /\ \E x \in DOMAIN causes : y \in causes[x]
      BY DanglingIff
    <3>3. y \in Dangling(causes') <=>
            y \notin DOMAIN causes' /\ \E x \in DOMAIN causes' : y \in causes'[x]
      BY DanglingIff
    <3> QED
      BY <2>1, <2>2, <3>1, <3>2, <3>3
  <2>5. \A y : y \in unresolved' <=> y \in Dangling(causes')
    BY <2>4, Zenon
  <2> QED
    BY <2>5, <1>8, Zenon DEF Dangling, UnresolvedAfter
<1>13. TypeOK'
  <2>1. \A x \in Ids(file.lines) : LineOf(file.lines, x) \in Line
    BY <1>2, LineOfExists
  <2>2. DOMAIN seen' \subseteq Id /\ \A x \in DOMAIN seen' : seen'[x] \in Line
    BY <1>2, <1>10, <2>1, CausesOfTypes
  <2>3. causes' = CausesOf(file.lines)
    BY <1>11 DEF CausesOf
  <2>4. /\ DOMAIN causes' \subseteq Id
        /\ \A x \in DOMAIN causes' : causes'[x] \subseteq Id
    BY <1>2, <2>3, CausesOfTypes
  <2>5. unresolved' \subseteq Id
    BY <1>12, <2>4, DanglingIff, Zenon
  <2>6. notified' \in Seq(Event)
    BY <1>8 DEF IInv, TypeOK
  <2> QED
    BY <1>5, <1>8, <2>2, <2>4, <2>5, <2>6 DEF IInv, TypeOK, r
<1>14. FileInv'
  BY <1>8, Zenon DEF IInv, FileInv, AppendCommit
<1>15. HandleInv'
  BY <1>3, <1>8, <1>10, <1>11, <1>12, ZenonT(60) DEF HandleInv, IndexedBut
<1>16. ReceiptInv'
  BY <1>2, <1>3, <1>5, <1>6, <1>8 DEF IInv, ReceiptInv, AppendCommit, r
<1> QED
  BY <1>13, <1>14, <1>15, <1>16 DEF IInv

(* Syncing, exporting and stopping preserve the invariant.                 *)
LEMMA SyncInv ==
  ASSUME IInv, AppendSync \/ AppendSyncFails \/ SnapshotTo \/ Stop
  PROVE  IInv'
<1> USE DEF IInv
<1>1. CASE AppendSync
  <2>1. TypeOK'
    BY <1>1, FsyncLinksAssumption, Zenon DEF AppendSync, TypeOK, handle, history
  <2>2. FileInv'
    BY <1>1 DEF AppendSync, FileInv, PrefixLog
  <2>3. HandleInv'
    BY <1>1, Zenon DEF AppendSync, HandleInv, IndexedBut, handle
  <2>4. ReceiptInv'
    BY <1>1, SyncKeepsReceipts, Zenon DEF AppendSync, ReceiptInv, history
  <2> QED
    BY <2>1, <2>2, <2>3, <2>4, Zenon
<1>2. CASE AppendSyncFails
  <2>1. TypeOK'
    BY <1>2, Zenon DEF AppendSyncFails, TypeOK, history
  <2>2. FileInv' /\ HandleInv' /\ ReceiptInv'
    BY <1>2, Zenon DEF AppendSyncFails, FileInv, HandleInv, ReceiptInv, history
  <2> QED
    BY <2>1, <2>2
<1>3. CASE SnapshotTo
  <2>1. TypeOK'
    BY <1>3, FsyncLinksAssumption, Zenon DEF SnapshotTo, TypeOK, handle
  <2>2. FileInv'
    BY <1>3 DEF SnapshotTo, FileInv, PrefixLog
  <2>3. HandleInv'
    BY <1>3 DEF SnapshotTo, HandleInv, IndexedBut, handle
  <2>4. ReceiptInv'
    BY <1>3, SyncKeepsReceipts, Zenon DEF SnapshotTo, ReceiptInv
  <2> QED
    BY <2>1, <2>2, <2>3, <2>4, Zenon
<1>4. CASE Stop
  <2>1. DOMAIN EmptyIndex = {}
    BY DEF EmptyIndex
  <2>2. TypeOK'
    BY <1>4, <2>1, ZenonT(60) DEF Stop, Forgotten, TypeOK, history
  <2>3. FileInv' /\ HandleInv' /\ ReceiptInv'
    BY <1>4 DEF Stop, Forgotten, FileInv, HandleInv, ReceiptInv, history
  <2> QED
    BY <2>2, <2>3
<1> QED
  BY <1>1, <1>2, <1>3, <1>4

(* A power loss leaves a sound log, and with it every line that a receipt  *)
(* names.                                                                  *)
LEMMA PowerLossInv ==
  ASSUME IInv, PowerLoss
  PROVE  IInv'
<1> USE DEF IInv
<1>1. PICK s \in Survivors : file' = s /\ disk' = s /\ linked' = (s # NoFile)
  BY Zenon DEF PowerLoss
<1>2. NoFile \in Contents /\ NoFile.lines = <<>> /\ ~NoFile.torn
      /\ NoFile.header = "none"
  BY DEF NoFile, Contents
<1>3. \/ s = disk \/ s = file
      \/ s = [disk EXCEPT !.torn = TRUE] /\ Len(file.lines) > Len(disk.lines)
      \/ s = [disk EXCEPT !.header = "torn"] /\ disk.header = "none"
      \/ s = NoFile /\ ~linked
  BY DEF Survivors
<1>4. /\ s \in Contents
      /\ s.lines \in {disk.lines, file.lines} \/ (s = NoFile /\ ~linked)
      /\ s.header # "whole" => s.lines = <<>> /\ ~s.torn
  <2>1. file \in Contents /\ disk \in Contents
    BY Zenon DEF TypeOK
  <2> DEFINE Plain(f) == f.header # "whole" => f.lines = <<>> /\ ~f.torn
  <2>2. Plain(file) /\ Plain(disk) /\ (file.lines # <<>> => disk.header = "whole")
    BY DEF FileInv
  <2> HIDE DEF IInv
  <2>3. CASE s \in {disk, file}
    BY <2>1, <2>2, <2>3
  <2>4. CASE s = [disk EXCEPT !.torn = TRUE] /\ Len(file.lines) > Len(disk.lines)
    <3>1. /\ s \in Contents /\ s.lines = disk.lines /\ s.header = disk.header
      BY <2>1, <2>4, Zenon DEF Contents
    <3>2. file.lines # <<>>
      BY <2>1, <2>4 DEF Contents
    <3> QED
      BY <2>2, <3>1, <3>2
  <2>5. CASE s = [disk EXCEPT !.header = "torn"] /\ disk.header = "none"
    <3>1. s \in Contents /\ s.lines = disk.lines /\ s.torn = disk.torn
      BY <2>1, <2>5 DEF Contents
    <3> QED
      BY <2>2, <2>5, <3>1
  <2> QED
    BY <1>2, <1>3, <2>3, <2>4, <2>5
<1>5. SoundLog(s.lines)
  BY <1>2, <1>4, SoundEmpty, Zenon DEF FileInv
<1>7. TypeOK'
  <2>1. DOMAIN EmptyIndex = {}
    BY Zenon DEF EmptyIndex
  <2> QED
    BY <1>1, <1>4, <2>1, Zenon DEF PowerLoss, Forgotten, TypeOK, history
<1>8. FileInv'
  BY <1>1, <1>4, <1>5 DEF PowerLoss, Forgotten, FileInv, PrefixLog
<1>9. HandleInv'
  BY DEF PowerLoss, Forgotten, HandleInv
<1>10. ReceiptInv'
  <2> SUFFICES ASSUME FsyncLinks
               PROVE  /\ \A r \in receipts : /\ r.offset + 1 \in DOMAIN s.lines
                                             /\ s.lines[r.offset + 1] = r
                      /\ s = NoFile => s.lines = <<>>
    BY <1>1, Zenon DEF PowerLoss, Forgotten, ReceiptInv, history
  <2>1. ASSUME NEW r \in receipts
        PROVE  r.offset + 1 \in DOMAIN s.lines /\ s.lines[r.offset + 1] = r
    <3>1. r.offset + 1 \in DOMAIN file.lines /\ file.lines[r.offset + 1] = r
      BY SyncKeepsReceipts
    <3>2. r.offset + 1 \in DOMAIN disk.lines /\ disk.lines[r.offset + 1] = r
      BY DEF ReceiptInv
    <3>3. linked
      BY <3>1 DEF ReceiptInv
    <3> QED
      BY <1>4, <3>1, <3>2, <3>3
  <2> QED
    BY <1>2, <2>1
<1> QED
  BY <1>7, <1>8, <1>9, <1>10

(* Every step preserves the invariant.                                     *)
LEMMA NextInv == IInv /\ [Next]_vars => IInv'
<1> SUFFICES ASSUME IInv, [Next]_vars PROVE IInv'
  OBVIOUS
<1>1. CASE UNCHANGED vars
  <2>1. TypeOK' /\ ReceiptInv'
    BY <1>1, ZenonT(30) DEF vars, handle, history, IInv, TypeOK, ReceiptInv
  <2>2. FileInv'
    BY <1>1, ZenonT(30) DEF vars, IInv, FileInv
  <2>3. HandleInv'
    BY <1>1, ZenonT(30) DEF vars, handle, IInv, HandleInv, IndexedBut
  <2> QED
    BY <2>1, <2>2, <2>3 DEF IInv
<1>2. CASE \E e \in Event : Submit(e)
  BY <1>2, SubmitInv
<1> QED
  BY <1>1, <1>2, OpenInv, CommitInv, SyncInv, PowerLossInv DEF Next

(* The invariant holds in every reachable state of the journal.            *)
THEOREM Invariant == Spec => []IInv
BY InitInv, NextInv, PTL DEF Spec

(* The variables of the journal keep their types.                          *)
THEOREM TypeCorrect == Spec => []TypeOK
BY Invariant, PTL DEF IInv

(* When syncing a file also makes its directory entry durable, the record  *)
(* of every LocalSync receipt stays on disk at its offset for ever,        *)
(* whatever sequence of failed writes, failed syncs, kills, power losses   *)
(* and reopens follows.                                                    *)
THEOREM ReceiptsDurable == ASSUME FsyncLinks PROVE Spec => []ReceiptDurable
<1>1. IInv => ReceiptDurable
  <2> SUFFICES ASSUME IInv, NEW r \in receipts
               PROVE  /\ linked
                      /\ r.offset + 1 \in DOMAIN disk.lines
                      /\ disk.lines[r.offset + 1] = r
    BY DEF ReceiptDurable
  <2>1. r.offset + 1 \in DOMAIN disk.lines /\ disk.lines[r.offset + 1] = r
    BY DEF IInv, ReceiptInv
  <2>2. r.offset + 1 \in DOMAIN file.lines
    BY SyncKeepsReceipts DEF IInv
  <2> QED
    BY <2>1, <2>2 DEF IInv, ReceiptInv
<1> QED
  BY <1>1, Invariant, PTL

(* On any file system, no crash leaves a journal with a whole header that  *)
(* open refuses: positions stay contiguous, identities unique and the      *)
(* causal graph acyclic although append checks each event alone.           *)
THEOREM AlwaysRecoverable == Spec => []Recoverable
<1>1. IInv => Recoverable
  BY Zenon DEF IInv, FileInv, SoundLog, Recoverable, Scans
<1> QED
  BY <1>1, Invariant, PTL

(* The index that append maintains is the one a reopen would compute.      *)
THEOREM IndexAlwaysExact == Spec => []IndexExact
<1>1. IInv => IndexExact
  BY Zenon DEF IInv, HandleInv, IndexedBut, IndexExact, SeenOf, CausesOf
<1> QED
  BY <1>1, Invariant, PTL

-----------------------------------------------------------------------------
(* What the durable log keeps.                                             *)

(* The log s is the beginning of itself and of every extension of t.       *)
LEMMA PrefixOrder ==
  ASSUME NEW s \in Seq(Line), NEW t \in Seq(Line), NEW u \in Seq(Line)
  PROVE  /\ PrefixLog(s, s) /\ PrefixLog(<<>>, s)
         /\ PrefixLog(s, t) /\ PrefixLog(t, u) => PrefixLog(s, u)
<1>1. <<>> \in Seq(Line) /\ Len(<<>>) = 0 /\ DOMAIN (<<>>) = {}
  OBVIOUS
<1>2. Len(s) \in Nat /\ Len(t) \in Nat /\ Len(u) \in Nat
      /\ DOMAIN s = 1..Len(s) /\ DOMAIN t = 1..Len(t)
  OBVIOUS
<1> QED
  BY <1>1, <1>2 DEF PrefixLog

(* Both logs are sequences of lines before and after a step.               *)
LEMMA LogTypes ==
  ASSUME TypeOK
  PROVE  file.lines \in Seq(Line) /\ disk.lines \in Seq(Line)
BY DEF TypeOK, Contents

(* A power loss keeps the durable log, unless the directory entry was not  *)
(* durable yet.                                                            *)
LEMMA SurvivorsGrow ==
  ASSUME IInv, IInv', PowerLoss, linked \/ FsyncLinks
  PROVE  PrefixLog(disk.lines, disk'.lines)
<1>1. /\ file.lines \in Seq(Line) /\ disk.lines \in Seq(Line) /\ disk \in Contents
      /\ PrefixLog(disk.lines, file.lines)
  BY LogTypes DEF IInv, TypeOK, FileInv
<1>2. PICK s \in Survivors : disk' = s
  BY DEF PowerLoss
<1>3. CASE s = NoFile /\ ~linked
  <2>1. file.lines = <<>>
    BY <1>3 DEF IInv, ReceiptInv
  <2>2. disk.lines = <<>>
    BY <1>1, <2>1 DEF PrefixLog
  <2>3. disk'.lines = <<>>
    BY <1>2, <1>3 DEF NoFile
  <2> QED
    BY <1>1, <2>2, <2>3, PrefixOrder, Zenon
<1>4. CASE s = file
  BY <1>1, <1>2, <1>4
<1>5. CASE s \in {disk, [disk EXCEPT !.torn = TRUE], [disk EXCEPT !.header = "torn"]}
  <2>1. s.lines = disk.lines
    BY <1>1, <1>5 DEF Contents
  <2> QED
    BY <1>1, <1>2, <2>1, PrefixOrder
<1> QED
  BY <1>2, <1>3, <1>4, <1>5, Zenon DEF Survivors

(* Every step keeps the durable log as a prefix.                           *)
LEMMA DiskGrows ==
  ASSUME IInv, IInv', [Next]_vars, linked \/ FsyncLinks
  PROVE  PrefixLog(disk.lines, disk'.lines)
<1>1. /\ file.lines \in Seq(Line) /\ disk.lines \in Seq(Line)
      /\ PrefixLog(disk.lines, file.lines)
  BY LogTypes DEF IInv, FileInv
<1>2. CASE PowerLoss
  BY <1>2, SurvivorsGrow
<1>3. CASE disk' = disk
  BY <1>1, <1>3, PrefixOrder
<1>4. CASE disk' = file
  BY <1>1, <1>4
<1>5. disk' \in {disk, file} \/ PowerLoss
  <2>1. ASSUME NEW e \in Event, Submit(e) PROVE disk' = disk
    BY <2>1, Zenon DEF Submit, AppendRejected, AppendRetried, AppendWrite, AppendWriteFails
  <2>2. CASE \/ OpenNew \/ SyncDirectory \/ OpenExisting \/ OpenFails
             \/ AppendSyncFails \/ AppendCommit \/ Stop
    BY <2>2, Zenon DEF OpenNew, SyncDirectory, OpenExisting, OpenFails, AppendSyncFails,
       AppendCommit, Stop
  <2>3. CASE SyncHeader \/ SyncRecovered \/ AppendSync \/ SnapshotTo
    BY <2>3, Zenon DEF SyncHeader, SyncRecovered, AppendSync, SnapshotTo
  <2>4. CASE UNCHANGED vars
    BY <2>4 DEF vars
  <2> QED
    BY <2>1, <2>2, <2>3, <2>4 DEF Next
<1> QED
  BY <1>2, <1>3, <1>4, <1>5, Zenon

(* What is durable is never overwritten, reordered or truncated once the   *)
(* directory entry is durable: not by repair, retries, failed writes or a  *)
(* power loss (scan, append, open).                                        *)
THEOREM DurableNeverShrinks == Spec => DurableGrows
<1>1. IInv /\ IInv' /\ [Next]_vars => [linked => PrefixLog(disk.lines, disk.lines')]_vars
  BY DiskGrows
<1> QED
  BY <1>1, Invariant, PTL DEF Spec, DurableGrows

-----------------------------------------------------------------------------
(* Rejections, notifications and snapshots.                                *)

(* In a graph that grows, what was reached is reached.                     *)
LEMMA ReachedGrows ==
  ASSUME NEW g, NEW h, NEW start, DOMAIN g \subseteq DOMAIN h,
         \A x \in DOMAIN g : h[x] = g[x]
  PROVE  Reached(start, g) \subseteq Reached(start, h)
<1>1. ASSUME NEW S \in SUBSET Id, Closed(S, h) PROVE Closed(S, g)
  BY <1>1 DEF Closed
<1> QED
  BY <1>1 DEF Reached

(* Whoever reaches id, and is not id, is stored and has a cause that does. *)
LEMMA ReachesThrough ==
  ASSUME NEW g, \A x \in DOMAIN g : g[x] \subseteq Id, NEW id \in Id,
         NEW start, start \subseteq Id, id \in Reached(start, g)
  PROVE  \E y \in start : id \in Reached({y}, g)
<1> SUFFICES ASSUME \A y \in start : id \notin Reached({y}, g) PROVE FALSE
  OBVIOUS
<1> DEFINE T == {z \in Id : \E y \in start : z \in Reached({y}, g)}
<1>1. \A y \in start : {y} \subseteq Id
  OBVIOUS
<1>2. start \subseteq T
  BY <1>1, ReachedClosed, Zenon
<1>3. Closed(T, g)
  <2> SUFFICES ASSUME NEW x \in T \cap DOMAIN g, NEW z \in g[x] PROVE z \in T
    BY Zenon DEF Closed
  <2>1. PICK y \in start : x \in Reached({y}, g)
    BY Zenon
  <2>2. Closed(Reached({y}, g), g)
    BY <1>1, ReachedClosed, Zenon
  <2>3. z \in Reached({y}, g) /\ z \in Id
    BY <2>1, <2>2 DEF Closed
  <2> QED
    BY <2>3, Zenon
<1>4. T \in SUBSET Id /\ id \notin T
  BY Zenon
<1> HIDE DEF T
<1> QED
  BY <1>2, <1>3, <1>4 DEF Reached

(* An identity other than id that reaches it is stored.                    *)
LEMMA ReachesStored ==
  ASSUME NEW g, \A x \in DOMAIN g : g[x] \subseteq Id, NEW id \in Id, NEW x \in Id, x # id,
         id \in Reached({x}, g)
  PROVE  x \in DOMAIN g /\ id \in Reached(g[x], g)
<1>1. x \in DOMAIN g
  <2> SUFFICES ASSUME x \notin DOMAIN g PROVE FALSE
    OBVIOUS
  <2>1. Closed({x}, g) /\ {x} \in SUBSET Id
    BY DEF Closed
  <2>2. id \in {x}
    BY <2>1 DEF Reached
  <2> QED
    BY <2>2
<1>2. id \in Reached(g[x], g)
  <2> DEFINE T == {x} \cup Reached(g[x], g)
  <2>1. g[x] \subseteq Id
    BY <1>1, Zenon
  <2>2. g[x] \subseteq Reached(g[x], g) /\ Closed(Reached(g[x], g), g)
    BY <2>1, ReachedClosed, Zenon
  <2>3. Closed(T, g)
    BY <2>2, Zenon DEF Closed
  <2>4. T \in SUBSET Id /\ {x} \subseteq T
    BY Zenon DEF Reached
  <2> HIDE DEF T
  <2>5. id \in T
    BY <2>3, <2>4 DEF Reached
  <2> QED
    BY <2>5 DEF T
<1> QED
  BY <1>1, <1>2

(* An event whose causes lead back to it is in no acyclic graph that       *)
(* extends the one in which they did: the cycle check of append is final.  *)
LEMMA CycleForbids ==
  ASSUME NEW g, NEW h, \A x \in DOMAIN h : h[x] \subseteq Id,
         DOMAIN g \subseteq DOMAIN h, \A x \in DOMAIN g : h[x] = g[x],
         NEW id \in Id, NEW edges, edges \subseteq Id, id \in Reached(edges, g),
         id \in DOMAIN h, h[id] = edges
  PROVE  ~Acyclic(h)
<1> DEFINE S == {x \in DOMAIN h : x \in Id /\ id \in Reached({x}, h)}
<1>1. Reached(edges, g) \subseteq Reached(edges, h)
  BY ReachedGrows, Zenon
<1>2. id \in Reached({id}, h)
  BY ReachedClosed
<1>3. id \in S
  BY <1>2
<1>4. ASSUME NEW x \in S PROVE h[x] \cap S # {}
  <2>1. id \in Reached(h[x], h)
    <3>1. CASE x = id
      BY <1>1, <3>1, Zenon
    <3>2. CASE x # id
      BY <3>2, ReachesStored
    <3> QED
      BY <3>1, <3>2, Zenon
  <2>2. h[x] \subseteq Id
    BY Zenon
  <2>3. PICK y \in h[x] : id \in Reached({y}, h)
    BY <2>1, <2>2, ReachesThrough, Zenon
  <2>4. y \in DOMAIN h
    BY <2>2, <2>3, ReachesStored
  <2> QED
    BY <2>2, <2>3, <2>4
<1> HIDE DEF S
<1>5. S \in SUBSET DOMAIN h
  BY Zenon DEF S
<1> QED
  BY <1>3, <1>4, <1>5, Zenon DEF Acyclic

(* Why no sound log that extends this one holds the event: the answers     *)
(* for which append rejects, without the handle.                           *)
Refused(e, lines) ==
  \/ ~Valid(e) \/ e.data \in Unreadable
  \/ \E i \in DOMAIN lines : lines[i].event.id = e.id /\ lines[i].event # e
  \/ e.id \in Reached(e.caused_by, CausesOf(lines))

(* The causal graph of a prefix is part of the graph of the whole log.     *)
LEMMA PrefixGraph ==
  ASSUME NEW s \in Seq(Line), NEW t \in Seq(Line), PrefixLog(s, t),
         SoundLog(s), SoundLog(t)
  PROVE  /\ DOMAIN CausesOf(s) \subseteq DOMAIN CausesOf(t)
         /\ \A x \in DOMAIN CausesOf(s) : CausesOf(t)[x] = CausesOf(s)[x]
<1>1. DOMAIN CausesOf(s) = Ids(s) /\ DOMAIN CausesOf(t) = Ids(t)
  BY Zenon DEF CausesOf
<1>2. ASSUME NEW x \in Ids(s) PROVE x \in Ids(t) /\ LineOf(t, x) = LineOf(s, x)
  <2>1. PICK i \in DOMAIN s : s[i].event.id = x /\ LineOf(s, x) = s[i]
    BY LineOfExists
  <2>2. i \in DOMAIN t /\ t[i] = s[i]
    BY PrefixLine
  <2>3. LineOf(t, t[i].event.id) = t[i]
    BY <2>2, LineOfUnique, Zenon DEF SoundLog
  <2> QED
    BY <2>1, <2>2, <2>3 DEF Ids
<1> QED
  BY <1>1, <1>2 DEF CausesOf

(* A refusal is for good.                                                  *)
LEMMA RefusedGrows ==
  ASSUME NEW s \in Seq(Line), NEW t \in Seq(Line), PrefixLog(s, t),
         SoundLog(s), SoundLog(t), NEW e \in Event, Refused(e, s)
  PROVE  Refused(e, t)
<1>1. Reached(e.caused_by, CausesOf(s)) \subseteq Reached(e.caused_by, CausesOf(t))
  BY PrefixGraph, ReachedGrows, Zenon
<1>2. ASSUME NEW i \in DOMAIN s PROVE i \in DOMAIN t /\ t[i] = s[i]
  BY PrefixLine, Zenon
<1> QED
  BY <1>1, <1>2 DEF Refused

(* A sound log does not hold an event it refuses.                          *)
LEMMA RefusedAbsent ==
  ASSUME NEW lines \in Seq(Line), SoundLog(lines), NEW e \in Event, Refused(e, lines),
         NEW i \in DOMAIN lines, lines[i].event = e
  PROVE  FALSE
<1>1. Valid(e) /\ e.data \notin Unreadable
  BY Zenon DEF SoundLog
<1>2. \A k \in DOMAIN lines : lines[k].event.id = e.id => lines[k].event = e
  BY DEF SoundLog
<1>3. e.id \in Reached(e.caused_by, CausesOf(lines))
  BY <1>1, <1>2 DEF Refused
<1>4. e.id \in Ids(lines)
  BY DEF Ids
<1>5. LineOf(lines, e.id).event = e
  BY <1>2, <1>4, LineOfExists
<1>6. e.id \in DOMAIN CausesOf(lines) /\ CausesOf(lines)[e.id] = e.caused_by
  BY <1>4, <1>5, Zenon DEF CausesOf
<1>7. \A x \in DOMAIN CausesOf(lines) : CausesOf(lines)[x] \subseteq Id
  BY CausesOfTypes, Zenon
<1>8. ~Acyclic(CausesOf(lines))
  BY <1>3, <1>6, <1>7, EventTypes, CycleForbids
<1> QED
  BY <1>8, Zenon DEF SoundLog

(* What append rejects, the durable log refuses.                           *)
LEMMA RejectsRefused ==
  ASSUME IInv, NEW e \in Event, AppendRejected(e)
  PROVE  Refused(e, disk.lines)
<1>1. CASE ~Valid(e) \/ e.data \in Unreadable
  BY <1>1 DEF Refused
<1>2. CASE Valid(e) /\ e.data \notin Unreadable
  <2>1. ~poisoned /\ (Conflicts(e) \/ ClosesCycle(e)) /\ phase = "open"
    BY <1>2, Zenon DEF AppendRejected, Rejects
  <2>2. disk = file /\ seen = SeenOf(file.lines) /\ causes = CausesOf(file.lines)
    BY <2>1 DEF IInv, HandleInv, IndexedBut, SeenOf, CausesOf
  <2>3. CASE ClosesCycle(e)
    BY <2>2, <2>3, Zenon DEF ClosesCycle, Refused
  <2>4. CASE Conflicts(e)
    <3>1. e.id \in Ids(file.lines) /\ LineOf(file.lines, e.id).event # e
      BY <2>2, <2>4 DEF Conflicts, SeenOf
    <3>2. PICK i \in DOMAIN file.lines : /\ file.lines[i].event.id = e.id
                                         /\ LineOf(file.lines, e.id) = file.lines[i]
      BY <3>1, LineOfExists, Zenon
    <3> QED
      BY <2>2, <3>1, <3>2 DEF Refused
  <2> QED
    BY <2>1, <2>3, <2>4, Zenon
<1> QED
  BY <1>1, <1>2

(* The answers given so far and the durable log: what was rejected is      *)
(* refused for good, what was announced is stored and is not the event of  *)
(* the append in progress, and a snapshot is a prefix.                     *)
PastInv ==
  /\ \A e \in rejected : Refused(e, disk.lines)
  /\ \A i \in DOMAIN notified : notified[i].id \notin {e.id : e \in cur}
  /\ NotifiedOnce
  /\ SnapshotIsPrefix

(* A step that says nothing, and begins no append, keeps it.               *)
LEMMA QuietPast ==
  ASSUME IInv, IInv', PastInv, PrefixLog(disk.lines, disk'.lines),
         UNCHANGED <<rejected, notified, exported>>, cur' \subseteq cur
  PROVE  PastInv'
<1>1. /\ disk.lines \in Seq(Line) /\ disk'.lines \in Seq(Line)
      /\ SoundLog(disk.lines) /\ SoundLog(disk'.lines) /\ exported.lines \in Seq(Line)
  BY LogTypes, Zenon DEF IInv, FileInv, TypeOK, Contents
<1>2. \A e \in rejected' : Refused(e, disk'.lines)
  <2>1. rejected \subseteq Event
    BY Zenon DEF IInv, TypeOK
  <2> QED
    BY <1>1, <2>1, RefusedGrows, Zenon DEF PastInv
<1>3. NotifiedOnce'
  <2>1. \A k \in DOMAIN disk.lines : k \in DOMAIN disk'.lines /\ disk'.lines[k] = disk.lines[k]
    BY <1>1, PrefixLine, Zenon
  <2> QED
    BY <2>1 DEF PastInv, NotifiedOnce
<1>4. SnapshotIsPrefix'
  BY <1>1, PrefixOrder, Zenon DEF PastInv, SnapshotIsPrefix, Scans
<1> QED
  BY <1>2, <1>3, <1>4, Zenon DEF PastInv

(* A rejection is recorded.                                                *)
LEMMA RejectedPast ==
  ASSUME IInv, PastInv, NEW e \in Event, AppendRejected(e)
  PROVE  PastInv'
<1>1. rejected' = rejected \cup {e} /\ UNCHANGED <<disk, notified, exported, cur>>
  BY Zenon DEF AppendRejected
<1>2. \A f \in rejected' : Refused(f, disk'.lines)
  BY <1>1, RejectsRefused, Zenon DEF PastInv
<1> QED
  BY <1>1, <1>2 DEF PastInv, NotifiedOnce, SnapshotIsPrefix

(* The event of a new append was never announced.                          *)
LEMMA WritePast ==
  ASSUME IInv, PastInv, NEW e \in Event, AppendWrite(e)
  PROVE  PastInv'
<1>1. disk = file /\ e.id \notin Ids(file.lines)
  BY AcceptFacts DEF AppendWrite
<1>2. UNCHANGED <<disk, rejected, notified, exported>> /\ cur' = {e}
  BY Zenon DEF AppendWrite, history
<1>3. \A i \in DOMAIN notified : notified[i].id # e.id
  BY <1>1, Zenon, Z3T(30) DEF PastInv, NotifiedOnce, Ids
<1> QED
  BY <1>2, <1>3 DEF PastInv, NotifiedOnce, SnapshotIsPrefix

(* The event of a finished append is durable when it is announced.         *)
LEMMA CommitPast ==
  ASSUME IInv, PastInv, AppendCommit
  PROVE  PastInv'
<1>1. PICK e \in Event : /\ cur = {e}
                         /\ file.lines[Len(file.lines)] = Record(e, Cardinality(DOMAIN seen))
                         /\ Cardinality(DOMAIN seen) + 1 = Len(file.lines)
  BY ZenonT(60) DEF IInv, HandleInv, AppendCommit
<1>2. /\ disk = file /\ notified' = Append(notified, e) /\ cur' = {}
      /\ UNCHANGED <<disk, rejected, exported>>
  BY <1>1, Zenon DEF IInv, FileInv, AppendCommit
<1>3. file.lines \in Seq(Line) /\ notified \in Seq(Event)
  BY LogTypes DEF IInv, TypeOK
<1>4. Len(file.lines) # 0
  <2>1. DOMAIN seen = Ids(file.lines) \ {e.id}
    BY <1>1, Zenon DEF IInv, HandleInv, IndexedBut, AppendCommit
  <2>2. IsFiniteSet(DOMAIN seen)
    BY <2>1, FS_Subset, Zenon DEF IInv, FileInv, SoundLog
  <2>3. Cardinality(DOMAIN seen) \in Nat
    BY <2>2, FS_CardinalityType, Zenon
  <2> QED
    BY <1>1, <2>3
<1>5. \E k \in DOMAIN disk.lines : disk.lines[k].event = e
  <2>1. Len(file.lines) \in DOMAIN file.lines
    BY <1>3, <1>4
  <2> QED
    BY <1>1, <1>2, <2>1 DEF Record
<1>6. /\ DOMAIN notified' = DOMAIN notified \cup {Len(notified) + 1}
      /\ \A i \in DOMAIN notified : notified'[i] = notified[i]
      /\ notified'[Len(notified) + 1] = e /\ Len(notified) + 1 \notin DOMAIN notified
  BY <1>2, <1>3
<1>7. \A i \in DOMAIN notified : notified[i].id # e.id
  BY <1>1, Zenon DEF PastInv
<1>8. NotifiedOnce'
  <2>1. \A i, j \in DOMAIN notified' : notified'[i].id = notified'[j].id => i = j
    BY <1>6, <1>7, Zenon DEF PastInv, NotifiedOnce
  <2>2. \A i \in DOMAIN notified' :
           \E k \in DOMAIN disk'.lines : disk'.lines[k].event = notified'[i]
    BY <1>2, <1>5, <1>6 DEF PastInv, NotifiedOnce
  <2> QED
    BY <2>1, <2>2, Zenon DEF NotifiedOnce
<1> QED
  BY <1>2, <1>8 DEF PastInv, SnapshotIsPrefix

(* A snapshot is the durable journal.                                      *)
LEMMA SnapshotPast ==
  ASSUME IInv, IInv', PastInv, SnapshotTo
  PROVE  PastInv'
<1>1. disk = file /\ ~file.torn /\ file.header = "whole" /\ SoundLog(file.lines)
  BY Zenon DEF IInv, HandleInv, FileInv, SnapshotTo
<1>2. UNCHANGED <<disk, rejected, notified, cur>> /\ exported' = file
  BY <1>1 DEF SnapshotTo
<1>3. Scans(file)
  BY <1>1, Zenon DEF SoundLog, Scans
<1>4. SnapshotIsPrefix'
  <2>1. PrefixLog(file.lines, file.lines)
    BY LogTypes, PrefixOrder DEF IInv
  <2> QED
    BY <1>1, <1>2, <1>3, <2>1, Zenon DEF SnapshotIsPrefix, Scans, Valid
<1> QED
  BY <1>2, <1>4 DEF PastInv, NotifiedOnce

(* Every step keeps it where fsync persists the directory entry.           *)
LEMMA NextPast ==
  ASSUME FsyncLinks, IInv, IInv', PastInv, [Next]_vars
  PROVE  PastInv'
<1>1. PrefixLog(disk.lines, disk'.lines)
  BY DiskGrows
<1>2. CASE UNCHANGED <<rejected, notified, exported>> /\ cur' \subseteq cur
  BY <1>1, <1>2, QuietPast
<1>3. CASE \E e \in Event : AppendRejected(e) \/ AppendWrite(e)
  BY <1>3, RejectedPast, WritePast
<1>4. CASE AppendCommit \/ SnapshotTo
  BY <1>4, CommitPast, SnapshotPast, Zenon
<1>5. \/ UNCHANGED <<rejected, notified, exported>> /\ cur' \subseteq cur
      \/ \E e \in Event : AppendRejected(e) \/ AppendWrite(e)
      \/ AppendCommit \/ SnapshotTo
  <2>1. ASSUME NEW e \in Event, AppendRetried(e) \/ AppendWriteFails(e)
        PROVE  UNCHANGED <<rejected, notified, exported, cur>>
    BY <2>1, Zenon DEF AppendRetried, AppendWriteFails, history
  <2>2. CASE OpenNew \/ SyncHeader \/ SyncDirectory \/ OpenExisting \/ SyncRecovered
             \/ OpenFails \/ AppendSync
    BY <2>2, Zenon DEF OpenNew, SyncHeader, SyncDirectory, OpenExisting, SyncRecovered,
       OpenFails, AppendSync, history
  <2>3. CASE AppendSyncFails \/ Stop \/ PowerLoss
    BY <2>3, Zenon DEF AppendSyncFails, Stop, PowerLoss, Forgotten, history
  <2>4. CASE UNCHANGED vars
    BY <2>4 DEF vars, history
  <2> QED
    BY <2>1, <2>2, <2>3, <2>4 DEF Next, Submit
<1> QED
  BY <1>2, <1>3, <1>4, <1>5

(* Where fsync persists the directory entry, the past stays true.          *)
THEOREM PastStands == ASSUME FsyncLinks PROVE Spec => []PastInv
<1>1. Init => PastInv
  <2>1. DOMAIN (<<>>) = {}
    OBVIOUS
  <2> QED
    BY <2>1, Zenon DEF Init, PastInv, NotifiedOnce, SnapshotIsPrefix
<1>2. IInv /\ IInv' /\ PastInv /\ [Next]_vars => PastInv'
  BY NextPast
<1> QED
  BY <1>1, <1>2, Invariant, PTL DEF Spec

(* A rejected event never enters the journal, whatever is appended, lost   *)
(* or reopened later: a conflict stays a conflict because the record it    *)
(* lost to is durable, and a cycle stays a cycle as the graph grows        *)
(* (append answers Rejected for what is certainly not committed).          *)
THEOREM RejectionsFinal == ASSUME FsyncLinks PROVE Spec => []RejectedNeverStored
<1>1. IInv /\ PastInv => RejectedNeverStored
  <2> SUFFICES ASSUME IInv, PastInv, NEW e \in rejected, NEW i,
                      \/ i \in DOMAIN file.lines /\ file.lines[i].event = e
                      \/ i \in DOMAIN disk.lines /\ disk.lines[i].event = e
               PROVE  FALSE
    BY ZenonT(60) DEF RejectedNeverStored
  <2>1. /\ disk.lines \in Seq(Line) /\ file.lines \in Seq(Line) /\ e \in Event
        /\ SoundLog(disk.lines) /\ SoundLog(file.lines) /\ PrefixLog(disk.lines, file.lines)
    BY LogTypes, Zenon DEF IInv, FileInv, TypeOK
  <2>2. Refused(e, disk.lines) /\ Refused(e, file.lines)
    BY <2>1, RefusedGrows DEF PastInv
  <2> QED
    BY <2>1, <2>2, RefusedAbsent
<1> QED
  BY <1>1, Invariant, PastStands, PTL

(* Subscribers hear of an event once over the life of the file, and only   *)
(* when its record is durable (append notifies last, a retry does not).    *)
THEOREM NotificationsUnique == ASSUME FsyncLinks PROVE Spec => []NotifiedOnce
<1>1. PastInv => NotifiedOnce
  BY DEF PastInv
<1> QED
  BY <1>1, PastStands, PTL

(* A snapshot is a journal that open accepts and stays a prefix of the     *)
(* durable one (snapshot_to refuses a poisoned handle).                    *)
THEOREM SnapshotsStand == ASSUME FsyncLinks PROVE Spec => []SnapshotIsPrefix
<1>1. PastInv => SnapshotIsPrefix
  BY DEF PastInv
<1> QED
  BY <1>1, PastStands, PTL

=============================================================================
