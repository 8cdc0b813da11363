-------------------------- MODULE MCEmailNotifier --------------------------
EXTENDS EmailNotifier, TLC
=============================================================================
