------------------------------ MODULE MCTcpRecv ------------------------------
EXTENDS TcpRecv

CONSTANTS c1, c2

MCItems == Conns \X (1 .. MaxPackets)
\* The third packet's length makes its size wrap to 1, less than a head.
MCBody  == [i \in 1 .. MaxPackets |-> IF i = 3 THEN Wrap + 1 - HeadSize ELSE i - 1]
MCSends == [c \in Conns |-> IF c = c1 THEN 3 ELSE 1]

=============================================================================
