---------------------------- MODULE MCHandleCapture ----------------------------
(* Instances of HandleCapture for TLC. *)
EXTENDS HandleCapture, TLC

CONSTANTS h1, h2, o1, o2, n1, n2

OneHandle == {h1}
TwoHandles == {h1, h2}
OneOp == {o1}
TwoOps == {o1, o2}
TwoNames == {n1, n2}

KindsButResize == AllKinds \ {"resize"}
Deletions == {"write", "delete", "undelete"}

\* Everything happens to a first handle; once the other has been opened too, two
\* operations, one after the other, and no failure or teardown.
Scope ==
    (\A h \in Handles : handle[h].phase # "unopened") =>
        /\ issued <= 2
        /\ failures = 0
        /\ ~draining
        /\ \E o \in Ops : Idle(o)

Symmetry == Permutations(Handles) \union Permutations(Ops)
=============================================================================
