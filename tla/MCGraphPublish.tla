--------------------------- MODULE MCGraphPublish ---------------------------
EXTENDS GraphPublish, TLC
Order == <<"silver", "gold">>
Symmetry == Permutations(Publishers)
=============================================================================
