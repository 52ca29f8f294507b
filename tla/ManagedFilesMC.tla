---------------------------- MODULE ManagedFilesMC --------------------------
EXTENDS ManagedFiles, TLC

\* Two threads of perform are alike, and so are two places of Files.
Symmetry == Permutations(Callers) \cup Permutations(Files)
=============================================================================
