----------------------------- MODULE MCExecution -----------------------------
(* Instances of Execution for TLC: two controls meet all append failures   *)
(* with a queue that holds both, with one that holds one, and under a      *)
(* coordinator.                                                            *)
EXTENDS Execution, TLC

CONSTANTS c1, c2

MCControl == {c1, c2}
MCSymmetry == Permutations(MCControl)
MCSetup(serialised, limit, faults) ==
    [serialised |-> serialised, limit |-> limit, faults |-> faults]
MCFaults == {"rejected", "lost", "kept"}
MCSetups == {MCSetup(FALSE, 2, MCFaults), MCSetup(FALSE, 1, MCFaults), MCSetup(TRUE, 2, MCFaults)}
MCFaultless == {MCSetup(FALSE, 2, {})}

=============================================================================
