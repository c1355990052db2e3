------------------------------- MODULE MCLog --------------------------------
\* Instances of Log for TLC.
EXTENDS Log, TLC

Symmetry == Permutations(Procs) \cup Permutations(Blocks) \cup Permutations(Vals)
=============================================================================
