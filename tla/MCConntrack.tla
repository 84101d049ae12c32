---------------------------- MODULE MCConntrack -----------------------------
EXTENDS Conntrack

CONSTANTS e1, e2

\* a TCP connection seen from both sides, and a UDP tuple that is its own swap
MCConns == {[src |-> e1, dst |-> e2, proto |-> "tcp"],
            [src |-> e2, dst |-> e1, proto |-> "tcp"],
            [src |-> e1, dst |-> e1, proto |-> "udp"]}

MCSegments ==
    {[proto |-> "tcp", flag |-> f, seq |-> 1, ack |-> a, len |-> l, win |-> 1,
      scale |-> NoScale] :
        <<f, a, l>> \in {<<"SYN", 0, 0>>, <<"SYNACK", 2, 0>>, <<"SYNACK", 3, 0>>,
                         <<"FIN", 2, 0>>, <<"ACK", 2, 1>>}}
    \cup {[proto |-> "udp", flag |-> "ACK", seq |-> 0, ack |-> 0, len |-> 1, win |-> 0,
           scale |-> NoScale]}
=============================================================================
