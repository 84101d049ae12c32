----------------------------- MODULE MCTcpFlow ------------------------------
EXTENDS TcpFlow
MCISNs == [client |-> {0, SeqMod - 2}, server |-> {0, 3}]
\* the client's stream passes half of the sequence space and wraps it, the
\* server's passes half
MCStreamLen == [client |-> SeqMod, server |-> SeqMod \div 2]
=============================================================================
