--------------------------- MODULE MCDelayedQueue ---------------------------
(* Instances of DelayedQueue for TLC. *)
EXTENDS DelayedQueue

CONSTANTS c1, c2, c3, p1, p2

\* The build of the firmware with the event loop's task alone
Task == [atomic |-> FALSE, removals |-> TRUE, producers |-> {}]

\* A build with threads
Threaded == [atomic |-> TRUE, removals |-> FALSE, producers |-> {p1, p2}]

TwoBuilds == {Task, Threaded}

\* The build of the firmware with an interrupt that adds callbacks
IsrBuild == {[atomic |-> FALSE, removals |-> FALSE, producers |-> {p1}]}
=============================================================================
