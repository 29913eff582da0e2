------------------------------ MODULE MCBackups ------------------------------
\* Instances of Backups.
EXTENDS Backups, TLC

Symmetry == Permutations(Vals) \cup Permutations(Uploads)
=============================================================================
