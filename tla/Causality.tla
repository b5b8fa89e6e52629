----------------------------- MODULE Causality -----------------------------
(***************************************************************************)
(* The causal graph of trace events: a function from the identity of every *)
(* stored event to the identities it names in caused_by.  An identity that *)
(* is referenced and not stored is an unresolved forward reference.        *)
(***************************************************************************)
EXTENDS FiniteSets

CONSTANT Id     \* event identities

(* What following causes from the set S may never leave: S itself and      *)
(* everything a stored member points to.                                   *)
Closed(S, causes) ==
  \A x \in S \cap DOMAIN causes : causes[x] \subseteq S

(* The identities the append loop visits: it pops an identity, and extends *)
(* the pending list with its causes when it is stored.                     *)
Reached(start, causes) ==
  {y \in Id : \A S \in SUBSET Id :
                 (start \subseteq S /\ Closed(S, causes)) => y \in S}

(* A causal graph is acyclic when every non-empty set of its events holds  *)
(* one that points to no other member.  For a finite graph this is the     *)
(* absence of a cycle, which validate_causality looks for.                 *)
Acyclic(causes) ==
  \A S \in SUBSET DOMAIN causes :
     S # {} => \E x \in S : causes[x] \cap S = {}

(* Identities some stored event refers to and no stored event has.         *)
Dangling(causes) ==
  (UNION {causes[x] : x \in DOMAIN causes}) \ DOMAIN causes

Extended(causes, id, edges) ==
  [x \in DOMAIN causes \cup {id} |-> IF x = id THEN edges ELSE causes[x]]

=============================================================================
