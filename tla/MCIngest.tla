------------------------------ MODULE MCIngest ------------------------------
EXTENDS Ingest, TLC

CONSTANT s1

\* All connections publish to one stream.
OneStream == [c \in Conn |-> s1]

Connections == Permutations(Conn)
=============================================================================
