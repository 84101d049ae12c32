------------------------------ MODULE TcpFlow -------------------------------
(***************************************************************************)
(* One conntrack entry of nfq2 observing one TCP connection, and then the  *)
(* next one on the same tuple.  The two hosts are the environment: a       *)
(* client that retransmits its SYN until it has the SYN/ACK, a server that *)
(* repeats its SYN/ACK, data of both sides, new or retransmitted, with     *)
(* cumulative acknowledgements, FIN, and RST with or without an            *)
(* acknowledgement number.                                                 *)
(*                                                                         *)
(* A stream position is the distance to the sender's initial sequence      *)
(* number; the SYN is at position 0 and data starts at 1.  The sequence    *)
(* space is small enough for streams to wrap it.                           *)
(***************************************************************************)
EXTENDS ConntrackPos

CONSTANTS
    ISNs,           \* function: the initial sequence numbers a side may choose
    StreamLen,      \* function: last stream position of a side
    Lens,           \* payload lengths; 0 is a pure acknowledgement
    Window          \* how far back a retransmission may start

Sides == {"client", "server"}
Other(side) == IF side = "client" THEN "server" ELSE "client"

ASSUME TcpFlowAssumption ==
    /\ \A s \in Sides : ISNs[s] \subseteq Seqs /\ StreamLen[s] \in Nat
    /\ Lens \subseteq Nat /\ Window \in Nat \ {0}
    /\ \A l \in Lens : 2 * (Window + l) < SeqMod

VARIABLES
    ps,         \* the entry's t_ctrack_positions, packet counters left at 0
    phase,      \* environment: how far the connection has got
    isn,        \* environment: initial sequence number of each side
    nxt,        \* environment: next stream position of each side
    acked,      \* environment: what each side has acknowledged of the other
    high,       \* history: highest position seen as seq_last of each side
    end,        \* history: highest end of data seen of each side
    last        \* history: sender of the last packet if it carried data, and
                \* whether that was data seen before

vars == <<ps, phase, isn, nxt, acked, high, end, last>>

Zero == [s \in Sides |-> 0]
NoData == [side |-> "none", seen |-> FALSE]

SeqAt(side, p) == (isn[side] + p) % SeqMod

\* Counters and window do not matter here and would make the model infinite.
Segment(flag, seq, ack, len) ==
    [proto |-> "tcp", flag |-> flag, seq |-> seq, ack |-> ack, len |-> len,
     win |-> 0, scale |-> NoScale]

Uncounted(q) == [q EXCEPT !.pcounter = 0, !.pdcounter = 0, !.pbcounter = 0]

DropCounters(q) == [q EXCEPT !.client = Uncounted(@), !.server = Uncounted(@)]

Observe(side, pkt) == ps' = DropCounters(FeedPositions(ps, side = "server", pkt))

Larger(a, b) == IF a > b THEN a ELSE b

Init ==
    /\ ps = InitPositions
    /\ phase = "closed"
    /\ isn = Zero /\ nxt = Zero /\ acked = Zero /\ high = Zero /\ end = Zero
    /\ last = NoData

\* the first SYN of a connection, on a new entry or on the entry of a
\* connection that has ended
Connect ==
    /\ phase \in {"closed", "ended"}
    /\ \E c \in ISNs["client"], s \in ISNs["server"] :
         isn' = [client |-> c, server |-> s]
    /\ Observe("client", Segment("SYN", isn'["client"], 0, 0))
    /\ phase' = "synsent"
    /\ nxt' = [client |-> 1, server |-> 0]
    /\ acked' = Zero /\ high' = Zero /\ end' = Zero
    /\ last' = NoData

\* the client has not received a SYN/ACK; the entry may have seen one
RetransmitSyn ==
    /\ phase \in {"synsent", "synacked"}
    /\ Observe("client", Segment("SYN", isn["client"], 0, 0))
    /\ last' = NoData
    /\ UNCHANGED <<phase, isn, nxt, acked, high, end>>

\* first or repeated
SynAck ==
    /\ phase \in {"synsent", "synacked", "open"}
    /\ nxt["server"] <= 1
    /\ Observe("server", Segment("SYNACK", isn["server"], SeqAt("client", 1), 0))
    /\ phase' = IF phase = "open" THEN "open" ELSE "synacked"
    /\ nxt' = [nxt EXCEPT !["server"] = 1]
    /\ acked' = [acked EXCEPT !["server"] = Larger(@, 1)]
    /\ high' = [high EXCEPT !["client"] = Larger(@, 1)]
    /\ last' = NoData
    /\ UNCHANGED <<isn, end>>

\* data (or a pure acknowledgement) of a side, new or a retransmission; the
\* client's first one opens the connection
Data(side, p, len, a) ==
    /\ \/ phase = "open"
       \/ phase = "synacked" /\ side = "client" /\ len = 0
    /\ p <= nxt[side] /\ p >= 1 /\ p >= nxt[side] - Window
    /\ len = 0 => p = nxt[side]
    /\ p + len <= StreamLen[side] + 1
    /\ a >= acked[side] /\ a >= 1 /\ a <= nxt[Other(side)]
    /\ a <= acked[side] + Window + 1
    /\ Observe(side, Segment("ACK", SeqAt(side, p), SeqAt(Other(side), a), len))
    /\ phase' = "open"
    /\ nxt' = [nxt EXCEPT ![side] = Larger(@, p + len)]
    /\ acked' = [acked EXCEPT ![side] = a]
    /\ high' = [high EXCEPT ![side] = Larger(@, p), ![Other(side)] = Larger(@, a)]
    /\ end' = IF len = 0 THEN end ELSE [end EXCEPT ![side] = Larger(@, p + len)]
    /\ last' = IF len = 0 THEN NoData ELSE [side |-> side, seen |-> p + len <= end[side]]
    /\ UNCHANGED isn

\* FIN, or RST: the latter may come without an acknowledgement number
Finish(side, withAck) ==
    /\ phase \in {"synacked", "open"}
    /\ nxt[side] >= 1
    /\ Observe(side, Segment("FIN", SeqAt(side, nxt[side]),
                             IF withAck THEN SeqAt(Other(side), acked[side]) ELSE 0, 0))
    /\ phase' = "ended"
    /\ high' = [high EXCEPT ![side] = Larger(@, nxt[side])]
    /\ last' = NoData
    /\ UNCHANGED <<isn, nxt, acked, end>>

Next ==
    \/ Connect
    \/ RetransmitSyn
    \/ SynAck
    \/ \E side \in Sides :
         \/ \E p \in 1 .. StreamLen[side] + 1, a \in 1 .. StreamLen[Other(side)] + 1,
               len \in Lens : Data(side, p, len, a)
         \/ \E withAck \in BOOLEAN : Finish(side, withAck)

Spec == Init /\ [][Next]_vars

-----------------------------------------------------------------------------
\* is_retransmission, which counts request retransmissions for the auto
\* hostlist and keeps them out of reassembly, is exact across wraps: true for a
\* data packet that ends within what was seen, false for one that brings data.
RetransmissionIsExact ==
    last.side # "none" => (is_retransmission(ps[last.side]) <=> last.seen)

\* While the connection is open both seq0 are the sides' own initial sequence
\* numbers, whatever was repeated during the handshake and although 0 doubles
\* as "not known", so that relative positions are stream positions.
RelativeToIsn ==
    phase = "open" => \A s \in Sides : ps[s].seq0 = isn[s]

\* The manual's promise for the range counters 's' and 'p', "works within a
\* 2 GB range": below half of the sequence space the flag that switches them
\* off is not set.
WorksWithin2G ==
    phase = "open" =>
        \A s \in Sides : ps[s].rseq_over_2G => 2 * high[s] >= SeqMod
=============================================================================
