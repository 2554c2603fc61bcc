---------------------------- MODULE MCMailStore ----------------------------
EXTENDS MailStore, TLC

\* Deliveries, names and users are interchangeable.
Symmetry == Permutations(Deliveries) \cup Permutations(Names) \cup Permutations(Users)
=============================================================================
