------------------------------ MODULE QuicPlay ------------------------------
(***************************************************************************)
(* The UDP packet handler of nfq2 (dpi_desync_udp_packet_play) on the same *)
(* conntrack entry as the TCP one: a QUIC ClientHello spread over several  *)
(* initial packets, as fragments of the CRYPTO stream in any order, is     *)
(* collected, its packets are held back, and they are replayed when all of *)
(* it is there.  Unlike in TCP every other packet of the flow, in either   *)
(* direction, ends the session: what was held is sent as it is.            *)
(*                                                                         *)
(* An initial carries one fragment [p, p + len) of the CRYPTO stream and   *)
(* is padded to InitialLen units.  The session keeps decrypted packets one *)
(* after another, so what it covers is the union of what is held.          *)
(*                                                                         *)
(* PlaySpec is a flow of either kind.                                      *)
(***************************************************************************)
EXTENDS PacketPlay

CONSTANT InitialLen         \* units of a decrypted initial packet

ASSUME InitialLenAssumption == InitialLen \in Nat \ {0} /\ SzMax # 0

\* the first packet of the flow will create the entry
UdpInit ==
    /\ l4 = "udp"
    /\ tracked = FALSE
    /\ incoming = TRUE
    /\ win = CHOOSE w \in Windows : TRUE
    /\ pos = InitPositions
    /\ l7proto = "unknown" /\ known = {} /\ dp = FALSE /\ check = "none"
    /\ reasm = NoReasm /\ delayed = <<>>
    /\ nxt = 0 /\ acked = 0 /\ first = 0
    /\ n = 0 /\ arrived = {} /\ wire = <<>> /\ taken = {} /\ lost = {}
    /\ oom = FALSE /\ early = FALSE

Datagram == [proto |-> "udp", flag |-> "", seq |-> 0, ack |-> 0, len |-> 1,
             win |-> 0, scale |-> NoScale]

\* QUICDefragCrypto: the units of the CRYPTO stream that the packets s bring
Covered(s) == UNION {k.p .. k.p + k.len - 1 : k \in Elems(s)}

\* bFull and bReqFull: one range from 0 on, and IsTLSHandshakeFull
HelloCovered(s) == 0 .. HelloLen - 1 \subseteq Covered(s)

\* ReasmHasSpace
HasSpace == reasm.present + InitialLen <= reasm.size

\* reasm_client_start with UDP_MAX_REASM, or reasm_client_feed: the first byte
\* expected is always the next one
QuicSession ==
    LET r == IF ReasmIsEmpty(reasm) THEN ReasmInit(SzMax, 0) ELSE reasm
    IN  ReasmFed(r, r.present, InitialLen)

-----------------------------------------------------------------------------
\* mutant: the packet is sent before the ones that are held
OvertakeHeld(k, d, haveHost) ==
    /\ dp_rediscovery_from(d, l7proto', haveHost)
    /\ reasm' = ReasmClear(reasm) /\ delayed' = <<>>
    /\ IF Applies
       THEN \/ wire' = send_delayed(Append(wire, k), delayed) /\ taken' = taken
            \/ wire' = send_delayed(wire, delayed) /\ taken' = taken \cup {k}
       ELSE wire' = send_delayed(Append(wire, k), delayed) /\ taken' = taken

\* rediscover_cancel: the session ends, what is held is sent, and only the
\* packet itself goes to Lua
CancelAndPlay(k, d, haveHost) ==
    /\ dp_rediscovery_from(d, l7proto', haveHost)
    /\ reasm' = ReasmClear(reasm) /\ delayed' = <<>>
    /\ IF Applies
       THEN Played(send_delayed(wire, delayed), k)
       ELSE wire' = Append(send_delayed(wire, delayed), k) /\ taken' = taken

\* the packet is queued: the ClientHello is not complete
QuicHold(k, d) ==
    /\ ~HelloCovered(Append(delayed, k))
    /\ reasm' = QuicSession
    /\ delayed' = Append(delayed, k)
    /\ dp' = d
    /\ UNCHANGED <<known, check, wire, taken>>

\* it is complete: replay_queue, then reasm_client_fin
QuicReplay(k, d) ==
    /\ ~ReasmIsEmpty(reasm) /\ HelloCovered(Append(delayed, k))
    /\ \E haveHost \in BOOLEAN : dp_rediscovery_from(d, l7proto', haveHost)
    /\ \E drop \in SUBSET (IF Applies THEN Elems(Append(delayed, k)) ELSE {}) :
         /\ taken' = taken \cup drop
         /\ wire' = wire \o Without(Append(delayed, k), drop)
    /\ reasm' = ReasmClear(reasm)
    /\ delayed' = <<>>

\* a QUIC initial that decrypts: the ways to rediscover_cancel are a session at
\* its limit, malloc and rawpacket_queue without memory, and a ClientHello that
\* is complete in one packet
QuicInitial(k, d) ==
    /\ k.p + k.len <= HelloLen
    /\ l7proto' = IF l7proto = "unknown" THEN "quic" ELSE l7proto
    /\ \/ (~ReasmIsEmpty(reasm) => HasSpace) /\ (QuicHold(k, d) \/ QuicReplay(k, d))
       \/ CancelAndPlay(k, d, FALSE)
       \/ /\ ReasmIsEmpty(reasm) /\ HelloCovered(<<k>>)
          /\ \E haveHost \in BOOLEAN : CancelAndPlay(k, d, haveHost)

\* an initial that does not decrypt or has other frames, or another protocol
OtherDatagram(k, d) ==
    /\ k.p = 0 /\ k.len = 1
    /\ \E l7 \in {"unknown", "quic"} :
         l7proto' = IF l7proto = "unknown" THEN l7 ELSE l7proto
    /\ CancelAndPlay(k, d, FALSE)

UdpSends(k) ==
    /\ n < MaxPackets /\ n' = n + 1 /\ k.id = n + 1
    /\ arrived' = arrived \cup {k}

\* dpi_desync_udp_packet_play for a packet of the client.  play_prolog creates
\* the entry and searches its profile once.
UdpClientPacket(k) ==
    /\ UdpSends(k)
    /\ tracked' = TRUE
    /\ pos' = FeedPositions(pos, FALSE, Datagram)
    /\ \E d \in IF tracked THEN {dp} ELSE BOOLEAN :
         \/ d /\ (QuicInitial(k, d) \/ OtherDatagram(k, d))
         \/ /\ ~d
            /\ dp' = d /\ wire' = Append(wire, k)
            /\ UNCHANGED <<l7proto, known, check, reasm, delayed, taken>>
    /\ UNCHANGED <<hosts, lost, oom, early>>

\* a packet of the server ends a session, too
UdpServerPacket ==
    /\ tracked /\ incoming /\ n < MaxPackets /\ n' = n + 1
    /\ pos' = FeedPositions(pos, TRUE, Datagram)
    /\ \E l7 \in {"unknown", "quic"} :
         l7proto' = IF dp /\ l7proto = "unknown" THEN l7 ELSE l7proto
    /\ IF dp
       THEN /\ dp_rediscovery(l7proto', FALSE)
            /\ reasm' = ReasmClear(reasm) /\ delayed' = <<>> /\ wire' = send_delayed(wire, delayed)
       ELSE UNCHANGED <<known, dp, check, reasm, delayed, wire>>
    /\ UNCHANGED <<tracked, hosts, arrived, taken, lost, oom, early>>

UdpNext ==
    \/ \E k \in Packet : UdpClientPacket(k)
    \/ UdpServerPacket
    \/ PurgeEntry

PlayInit == Init \/ UdpInit
PlayNext == (l4 = "tcp" /\ Next) \/ (l4 = "udp" /\ UdpNext)
PlaySpec == PlayInit /\ [][PlayNext]_vars

-----------------------------------------------------------------------------
\* Between two packets nothing that is held is complete, and a session holds
\* what it has assembled: the packet that completes the ClientHello, a TCP
\* segment or a QUIC initial, releases everything.
SessionIsWaiting ==
    /\ ~oom /\ l4 = "tcp" => ~ReasmIsFull(reasm)
    /\ l4 = "udp" => ~HelloCovered(delayed)
    /\ ~oom /\ ~ReasmIsEmpty(reasm) => delayed # <<>>

\* The handlers implement the line of DelayLine: packets wait, and are released
\* all together, in order and before anything newer.
Line == INSTANCE DelayLine WITH
    entered <- arrived, line <- delayed, out <- wire, consumed <- taken,
    destroyed <- lost, degraded <- oom

ImplementsDelayLine == Line!Spec
=============================================================================
