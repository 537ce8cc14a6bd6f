----------------------------- MODULE MCTalkback ------------------------------
EXTENDS Talkback, TLC

Symmetry == Permutations(Clients)
=============================================================================
