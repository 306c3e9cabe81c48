--------------------------- MODULE MCGatewayConns ---------------------------
EXTENDS GatewayConns, TLC

ConnsSymmetry == Permutations(Conns) \union Permutations(Fds)
=============================================================================
