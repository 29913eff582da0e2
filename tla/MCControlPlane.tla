--------------------------- MODULE MCControlPlane ---------------------------
(* Instances of ControlPlane for TLC. *)
EXTENDS ControlPlane, TLC

CONSTANTS a1, a2

\* The newest definition of a2 is a breaking one.
LastOfA2 == {<<a2, MaxVersion>>}

NoneBreaking == {}

WebSymmetry == Permutations(JobIds) \cup Permutations(Requests)
=============================================================================
