---------------------------- MODULE MCUiWidgets ----------------------------
EXTENDS UiWidgets, TLC

Symmetry == Permutations(Ids) \cup Permutations(Polls)

=============================================================================
