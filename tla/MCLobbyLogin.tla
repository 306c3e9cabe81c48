---------------------------- MODULE MCLobbyLogin ----------------------------
EXTENDS LobbyLogin, TLC

LoginSymmetry == Permutations(Accounts) \union Permutations(Conns)
=============================================================================
