----------------------------- MODULE MCPublish ------------------------------
(* Instances of Publish for TLC. *)
EXTENDS Publish, TLC

AppSymmetry == Permutations(Routable) \cup Permutations(Apps \ Routable)
=============================================================================
