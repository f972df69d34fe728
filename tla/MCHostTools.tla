---------------------------- MODULE MCHostTools ----------------------------
EXTENDS HostTools, TLC

CONSTANTS c1, c2

MCOneClient == {c1}
MCTwoClients == {c1, c2}

Symmetry == Permutations(MCTwoClients)
=============================================================================
