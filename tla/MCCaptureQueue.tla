---------------------------- MODULE MCCaptureQueue ----------------------------
EXTENDS CaptureQueue

\* Queues of one task with room for every story, and queues of two tasks with a
\* single story.
MCLimits == {[queue |-> 1, stories |-> 2, external |-> 2, internal |-> 1],
             [queue |-> 2, stories |-> 1, external |-> 2, internal |-> 1]}
=============================================================================
