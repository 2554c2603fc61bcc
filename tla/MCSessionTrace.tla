--------------------------- MODULE MCSessionTrace ---------------------------
EXTENDS SessionTrace, TLC

CONSTANTS s1, s2, g1, g2

MCSessions == {s1, s2}
MCCallers  == {g1, g2}

\* s1 belongs to one handler; s2 is shared by two goroutines.
MCUsers == (s1 :> {g1}) @@ (s2 :> {g1, g2})
=============================================================================
