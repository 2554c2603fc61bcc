----------------------------- MODULE MCDovecot -----------------------------
EXTENDS DovecotServer, TLC

Symmetry == Permutations(Conns) \cup Permutations(Users)
=============================================================================
