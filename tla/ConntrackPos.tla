---------------------------- MODULE ConntrackPos ----------------------------
(***************************************************************************)
(* What one packet does to the positions of a conntrack entry              *)
(* (t_ctrack_positions): ConntrackFeedPacket and ConntrackApplyPos of      *)
(* conntrack.c as operators.                                               *)
(*                                                                         *)
(* A packet is a record                                                    *)
(*   [proto, flag, seq, ack, len, win, scale]                              *)
(* flag is "SYN", "SYNACK", "FIN" (FIN or RST is set) or "ACK" (any other  *)
(* combination); scale is the window scale option, NoScale if absent.      *)
(* ip6flow and mss are left out: nothing modelled reads them.              *)
(***************************************************************************)
EXTENDS SeqArith

CONSTANT Scales     \* window scale factors a SYN may carry; 0 is "none seen"

ASSUME ScalesAssumption ==
    /\ Scales \subseteq Nat /\ 0 \in Scales
    /\ \A n \in Scales : 2^n \in Nat      \* a fact the provers do not have

Flags   == {"SYN", "SYNACK", "FIN", "ACK"}
States  == {"SYN", "ESTABLISHED", "FIN"}        \* t_connstate
NoScale == -1                                   \* SCALE_NONE

Position == [pcounter : Nat, pdcounter : Nat, pbcounter : Nat,
             seq0 : Seqs, seq_last : Seqs, pos : Seqs,
             uppos : Seqs, uppos_prev : Seqs,
             winsize_calc : Nat, scale : Scales, rseq_over_2G : BOOLEAN]

Positions2 == [state : States, client : Position, server : Position]

EmptyPosition == [pcounter |-> 0, pdcounter |-> 0, pbcounter |-> 0,
                  seq0 |-> 0, seq_last |-> 0, pos |-> 0,
                  uppos |-> 0, uppos_prev |-> 0,
                  winsize_calc |-> 0, scale |-> 0, rseq_over_2G |-> FALSE]

\* memset of ConntrackInitTrack: SYN is the zero of t_connstate
InitPositions == [state |-> "SYN", client |-> EmptyPosition, server |-> EmptyPosition]

\* tcp_syn_segment, tcp_synack_segment
IsSyn(pkt)    == pkt.proto = "tcp" /\ pkt.flag = "SYN"
IsSynAck(pkt) == pkt.proto = "tcp" /\ pkt.flag = "SYNACK"

\* the side a packet comes from, and the other one
Direct(rev)  == IF rev THEN "server" ELSE "client"
Reverse(rev) == IF rev THEN "client" ELSE "server"

\* the packet counters, which are incremented before anything else happens
CountSide(d, len) ==
    [d EXCEPT !.pcounter  = d.pcounter + 1,
              !.pdcounter = IF len > 0 THEN d.pdcounter + 1 ELSE d.pdcounter,
              !.pbcounter = d.pbcounter + len]

CountPacket(ps, rev, pkt) == [ps EXCEPT ![Direct(rev)] = CountSide(@, pkt.len)]

\* the entry is erased: ConntrackReInitTrack in a SYN, or in a SYN/ACK that
\* does not acknowledge the SYN of the entry
NeedsReInit(ps, pkt) ==
    /\ ps.state # "SYN"
    /\ \/ IsSyn(pkt)
       \/ IsSynAck(pkt) /\ ps.client.seq0 # SeqSub(pkt.ack, 1)

\* mutant: the SYN/ACK's acknowledgement is taken as the client's first number
TrackStateNoMinusOne(ps, rev, pkt) ==
    CASE pkt.flag = "SYN" ->
           [ps EXCEPT !.client.seq0 = pkt.seq]
      [] pkt.flag = "SYNACK" ->
           [ps EXCEPT !.client.seq0 = IF @ = 0 THEN pkt.ack ELSE @,
                      !.server.seq0 = pkt.seq]
      [] pkt.flag = "FIN" ->
           [ps EXCEPT !.state = "FIN"]
      [] pkt.flag = "ACK" ->
           [ps EXCEPT !.state = IF @ = "SYN" THEN "ESTABLISHED" ELSE @]

\* the flag cases of ConntrackFeedPacket
TrackState(ps, rev, pkt) ==
    CASE pkt.flag = "SYN" ->
           [ps EXCEPT !.client.seq0 = pkt.seq]
      [] pkt.flag = "SYNACK" ->
           [ps EXCEPT !.client.seq0 = IF @ = 0 THEN SeqSub(pkt.ack, 1) ELSE @,
                      !.server.seq0 = pkt.seq]
      [] pkt.flag = "FIN" ->
           [ps EXCEPT !.state = "FIN"]
      [] pkt.flag = "ACK" ->
           IF ps.state = "SYN"
           THEN [ps EXCEPT !.state = "ESTABLISHED",
                           !.server.seq0 = IF ~rev /\ @ = 0
                                           THEN SeqSub(pkt.ack, 1) ELSE @]
           ELSE ps

\* the highest position seen, which only data beyond it moves
UpposAfter(d, pos, len) ==
    IF len > 0 /\ ~HighBit(SeqSub(pos, d.uppos)) THEN pos ELSE d.uppos

\* rseq_over_2G is never reset
OverSticky(p, seq_last) == p.rseq_over_2G \/ HighBit(SeqSub(seq_last, p.seq0))

\* the sender's side in ConntrackApplyPos
ApplyDirect(d, syn, pkt) ==
    LET pos == SeqAdd(pkt.seq, pkt.len)
        sc  == IF syn /\ pkt.scale # NoScale THEN pkt.scale ELSE d.scale
    IN  [d EXCEPT !.winsize_calc = IF syn THEN pkt.win ELSE pkt.win * 2^d.scale,
                  !.scale        = sc,
                  !.seq_last     = pkt.seq,
                  !.pos          = pos,
                  !.uppos        = IF syn THEN pos ELSE UpposAfter(d, pos, pkt.len),
                  !.uppos_prev   = IF syn THEN pos
                                   ELSE IF pkt.len > 0 THEN d.uppos ELSE @,
                  !.rseq_over_2G = OverSticky(d, pkt.seq)]

\* the receiver's side, moved by the acknowledgement number
ApplyReverse(r, pkt) ==
    [r EXCEPT !.pos = pkt.ack, !.seq_last = pkt.ack,
              !.rseq_over_2G = OverSticky(r, pkt.ack)]

ApplyPos(ps, rev, pkt) ==
    [ps EXCEPT ![Direct(rev)]  = ApplyDirect(@, ps.state = "SYN", pkt),
               ![Reverse(rev)] = ApplyReverse(@, pkt)]

\* ConntrackFeedPacket: the positions after the packet.  A re-initialisation
\* also wipes the increments made for this very packet.
FeedPositions(ps, rev, pkt) ==
    IF pkt.proto = "tcp"
    THEN LET base == IF NeedsReInit(ps, pkt) THEN InitPositions
                     ELSE CountPacket(ps, rev, pkt)
         IN  ApplyPos(TrackState(base, rev, pkt), rev, pkt)
    ELSE CountPacket(ps, rev, pkt)

\* mutant: the sign test is lost, as if the difference were signed 64 bit
is_retransmission_unsigned(p) == p.pos <= p.uppos_prev

\* desync.c: the last data packet of a side brought nothing new
is_retransmission(p) == ~HighBit(SeqSub(p.uppos_prev, p.pos))
=============================================================================
