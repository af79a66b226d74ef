----------------------------- MODULE MCSysCoord -----------------------------
EXTENDS SysCoord, TLC
Symm == Permutations(Clients)
=============================================================================
