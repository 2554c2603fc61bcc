------------------------------ MODULE MCLogin ------------------------------
EXTENDS Login, TLC

\* Requests, names, users and passwords are interchangeable.
Symmetry == Permutations(Admins) \cup Permutations(Names) \cup Permutations(Users) \cup Permutations(Passwords)
=============================================================================
