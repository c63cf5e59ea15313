---------------------------- MODULE MCClientSessions ---------------------------
EXTENDS ClientSessions, TLC

Symmetry == Permutations(Connections)
================================================================================
