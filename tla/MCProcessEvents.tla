---------------------------- MODULE MCProcessEvents ----------------------------
(* Instances of ProcessEvents for TLC. *)
EXTENDS ProcessEvents, TLC

CONSTANTS p1, p2, p3, k1, k2

TwoProcesses == {p1, p2}
ThreeProcesses == {p1, p2, p3}

OnePid == {k1}
TwoPids == {k1, k2}

Symmetry == Permutations(Processes) \union Permutations(Pids)
=============================================================================
