---------------------------- MODULE MCEventLoop ----------------------------
(* Instances of EventLoop for TLC. *)
EXTENDS EventLoop, TLC

CONSTANTS f1, f2, f3, tcp, udp, d1

Symmetry == Permutations(Fds)
=============================================================================
