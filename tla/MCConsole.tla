------------------------------- MODULE MCConsole -------------------------------
\* Instances of Console.
EXTENDS Console, TLC

Symmetry ==
  Permutations(Requests) \cup Permutations(Passwords)
    \cup Permutations(IPs \ V6) \cup Permutations(V6)
=============================================================================
