-------------------------- MODULE MCMailDirectory --------------------------
EXTENDS MailDirectory, TLC
=============================================================================
