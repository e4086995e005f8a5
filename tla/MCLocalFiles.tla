---------------------------- MODULE MCLocalFiles ----------------------------
EXTENDS LocalFiles, TLC

Perms == Permutations(Commands)
=============================================================================
