----------------------------- MODULE MCGoldRooms -----------------------------
EXTENDS GoldRooms, TLC

ClientSymmetry == Permutations(Clients)
=============================================================================
