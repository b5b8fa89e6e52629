------------------------- MODULE MCWaitCoordinator -------------------------
(* Small instances of WaitCoordinator.                                     *)
EXTENDS WaitCoordinator, TLC

CONSTANTS m1, m2, r1

MCPolicy(calls, rounds, offload, maxRounds, maxManual) ==
    [calls |-> calls, rounds |-> rounds, offload |-> offload,
     maxRounds |-> maxRounds, maxManual |-> maxManual]

\* Two model calls overlap over two rounds.
MCTwo == {m1, m2}
MCOverlap == {MCPolicy(MCTwo, TRUE, FALSE, 2, 1)}
MCSymmetry == Permutations(MCTwo)

\* One call meets three manual controls; a call and a host read under a one-shot policy.
MCMixed == {m1, r1}
MCRead == {r1}
MCControlled == {MCPolicy({m1}, TRUE, TRUE, 2, 3), MCPolicy(MCMixed, FALSE, TRUE, 1, 1)}

\* One call under a one-shot policy without offload.
MCOneShot == {MCPolicy({m1}, FALSE, FALSE, 1, 2)}

=============================================================================
