----------------------------- MODULE MCBootstrap -----------------------------
EXTENDS Bootstrap, TLC

RoutineSymmetry == Permutations(Routines)
=============================================================================
