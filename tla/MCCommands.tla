----------------------------- MODULE MCCommands -----------------------------
EXTENDS Commands, TLC
Symm == Permutations(Stacks) \cup Permutations(Fds)
=============================================================================
