--------------------------- MODULE MCWater13CardDb ---------------------------
EXTENDS Water13CardDb, TLC

ClientSymmetry == Permutations(Clients)

\* A negative number, none, the highest and one too high; the timeout fills in 1.
MCPoints == {-1, 0, BankerMultiple, BankerMultiple + 1}
=============================================================================
