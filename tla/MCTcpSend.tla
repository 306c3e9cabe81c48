------------------------------ MODULE MCTcpSend ------------------------------
EXTENDS TcpSend

\* A packet that may be committed twice, one longer than the buffer, a short one.
MCLength == [p \in 1 .. MaxPackets |-> CASE p % 3 = 1 -> 2 [] p % 3 = 2 -> 5 [] OTHER -> 1]

=============================================================================
