--------------------------- MODULE MCFilterMetric ---------------------------
EXTENDS FilterMetric, TLC

\* Requests, names and columns are interchangeable.
Symmetry == Permutations(Admins) \cup Permutations(Names) \cup Permutations(Columns)
=============================================================================
