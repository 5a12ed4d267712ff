---------------------------- MODULE MC_IbcLedger ----------------------------
\* Symmetry for TLC: callers, namespaces and hypotheses are alike
EXTENDS IbcLedger, TLC

Symmetry == Permutations(Caller) \cup Permutations(Ns) \cup Permutations(Hyp)
=============================================================================
