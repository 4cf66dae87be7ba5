---------------------------- MODULE MCStoreSync ----------------------------
EXTENDS StoreSync, TLC

Symmetry == Permutations(Slots)
=============================================================================
