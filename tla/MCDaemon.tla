------------------------------- MODULE MCDaemon -------------------------------
EXTENDS Daemon

CONSTANTS s1, s2

\* One sandbox that is paused and resumed with several troubles, two that compete for
\* one place with fewer, and two side by side that have no deadline.
MCLoads ==
    {[places |-> 1, ids |-> {s1}, controls |-> {"pause", "resume"}, troubles |-> 2, end |-> 2],
     [places |-> 1, ids |-> {s1, s2}, controls |-> {}, troubles |-> 1, end |-> 2],
     [places |-> 2, ids |-> {s1, s2}, controls |-> {}, troubles |-> 1, end |-> 0]}
=============================================================================
