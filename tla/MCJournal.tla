----------------------------- MODULE MCJournal -----------------------------
(* A small instance of Journal: three identities, among the events one     *)
(* pair with the same identity, one causal cycle through three events, an  *)
(* event that names itself and one the reader could not parse.             *)
EXTENDS Journal

CONSTANTS a, b, c, plain, other, deep

MCEvent ==
  { [id |-> a, caused_by |-> {b}, data |-> plain],
    [id |-> b, caused_by |-> {c}, data |-> plain],
    [id |-> c, caused_by |-> {a}, data |-> plain],
    [id |-> c, caused_by |-> {}, data |-> other],
    [id |-> b, caused_by |-> {b}, data |-> other],
    [id |-> a, caused_by |-> {}, data |-> deep],
    [id |-> b, caused_by |-> {a, c}, data |-> plain] }

=============================================================================
