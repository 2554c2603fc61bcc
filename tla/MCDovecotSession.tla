-------------------------- MODULE MCDovecotSession --------------------------
EXTENDS DovecotSession, TLC
=============================================================================
