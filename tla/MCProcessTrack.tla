---------------------------- MODULE MCProcessTrack ----------------------------
(* Instances of ProcessTrack for TLC. *)
EXTENDS ProcessTrack, TLC

CONSTANTS p1, p2, p3, k1, k2, k3

TwoProcesses == {p1, p2}
ThreeProcesses == {p1, p2, p3}

OnePid == {k1}
TwoPids == {k1, k2}
ThreePids == {k1, k2, k3}

Symmetry == Permutations(Processes) \union Permutations(Pids)
=============================================================================
