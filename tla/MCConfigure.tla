---------------------------- MODULE MCConfigure ----------------------------
EXTENDS Configure, TLC

CONSTANTS n1, n2

\* Two settings below one root: one below its namesake, as "ip" is a name of
\* two levels in some trees, and one below another child.
TwoSettings == {<<n1, n1, n1>>, <<n1, n2, n1>>}

Symmetry == Permutations(Callers)
=============================================================================
