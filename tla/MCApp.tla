------------------------------- MODULE MCApp -------------------------------
EXTENDS App, TLC

CONSTANTS s1, g1, g2

MCSessions == {s1}
MCCallers  == {g1, g2}

\* Two goroutines share the session.
MCUsers == s1 :> {g1, g2}
=============================================================================
