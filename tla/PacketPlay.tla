----------------------------- MODULE PacketPlay -----------------------------
(***************************************************************************)
(* The TCP packet handler of nfq2 (dpi_desync_tcp_packet_play) on one      *)
(* connection: a ClientHello that does not fit one segment is reassembled, *)
(* its packets are held back ("delayed"), and when it is complete they are *)
(* replayed one by one through Lua and sent.  Everything can interfere:    *)
(* retransmissions, lost segments, packets of the server, a small server   *)
(* window, FIN, a new SYN on the same tuple, the conntrack timeout, memory *)
(* that runs out.                                                          *)
(*                                                                         *)
(* The client's stream: HelloStart units of a plaintext protocol (XMPP     *)
(* with STARTTLS when HelloStart > 0), a TLS ClientHello of HelloLen       *)
(* units, then application data.  What a payload is detected as follows    *)
(* from where in the stream it starts.  Lua is external: it may pass,      *)
(* modify or drop every packet it is given.  Which profile the searches of *)
(* dp_find return, and what the hostlists say, is a free choice.           *)
(***************************************************************************)
EXTENDS ReasmOps, ConntrackPos, Queues

CONSTANTS
    HelloStart, HelloLen,   \* the ClientHello in the client's stream
    StreamLen,              \* units of the client's stream
    MaxLen,                 \* units of a segment
    SzMax,                  \* TCP_MAX_REASM
    Windows,                \* windows the server may announce
    ISN,                    \* sequence number of stream unit 0
    MaxPackets              \* bound on the packets sent

ASSUME PacketPlayAssumption ==
    /\ HelloStart \in Nat /\ HelloLen \in Nat \ {0} /\ SzMax \in Nat
    /\ StreamLen \in Nat /\ 2 * StreamLen <= SeqMod /\ HelloStart + HelloLen <= StreamLen
    /\ MaxLen \in Nat /\ MaxPackets \in Nat /\ Windows \subseteq Nat
    /\ ISN \in Seqs

VARIABLES
    \* t_ctrack
    tracked,    \* there is an entry for the connection
    pos,        \* pos
    l7proto,    \* l7proto
    known,      \* l7proto_discovered, hostname_discovered
    dp,         \* a profile was found: dp # NULL
    check,      \* bCheckDone, bCheckResult: the hostlist check of the hostname
    reasm,      \* reasm_client
    delayed,    \* delayed: sequence of packets
    \* the hosts
    l4,         \* "tcp" or "udp": which of the two handlers the flow goes to
    nxt,        \* next unit the client sends
    acked,      \* what the server has acknowledged
    win,        \* the window the server announced with it
    incoming,   \* packets of the server are redirected to the program
    first,      \* packets sent before this connection
    \* history
    n,          \* packets sent by the hosts
    arrived,    \* packets with data that arrived
    wire,       \* packets with data that left, in the order they left
    taken,      \* packets that Lua dropped, having sent what it wanted instead
    lost,       \* packets destroyed while they were held back
    oom,        \* rawpacket_queue has failed
    early       \* Lua was given a part of a ClientHello under assembly

ctrack  == <<tracked, pos, l7proto, known, dp, check, reasm, delayed>>
hosts   == <<l4, nxt, acked, win, incoming, first>>
history == <<n, arrived, wire, taken, lost, oom, early>>
vars    == <<ctrack, hosts, history>>

SeqOf(p) == SeqAdd(ISN, SeqAdd(1, p))

Packet == [id : 1 .. MaxPackets, p : 0 .. StreamLen - 1, len : 1 .. MaxLen]

Segment(flag, seq, ack, len, wnd) ==
    [proto |-> "tcp", flag |-> flag, seq |-> seq, ack |-> ack, len |-> len,
     win |-> wnd, scale |-> NoScale]

\* The positions after a handshake on an entry with positions ps: both packets,
\* or the client's only when incoming packets are not redirected.
Handshake(ps, wnd) ==
    LET syn == FeedPositions(ps, FALSE, Segment("SYN", ISN, 0, 0, 0))
    IN  IF incoming
        THEN FeedPositions(syn, TRUE, Segment("SYNACK", 0, SeqOf(0), 0, wnd))
        ELSE syn

\* an entry whose SYN has found a profile
Init ==
    /\ l4 = "tcp"
    /\ tracked = TRUE
    /\ incoming \in BOOLEAN
    /\ win \in Windows
    /\ pos = Handshake(InitPositions, win)
    /\ l7proto = "unknown" /\ known = {} /\ dp = TRUE /\ check = "none"
    /\ reasm = NoReasm /\ delayed = <<>>
    /\ nxt = 0 /\ acked = 0 /\ first = 0
    /\ n = 0 /\ arrived = {} /\ wire = <<>> /\ taken = {} /\ lost = {}
    /\ oom = FALSE /\ early = FALSE

-----------------------------------------------------------------------------
(* Detection and reassembly of one data packet k of the client.            *)

\* protocol_probe on a payload that starts at unit p
PayloadAt(p) == IF p = HelloStart THEN "tls_client_hello"
                ELSE IF p = 0 THEN "xmpp_stream" ELSE "unknown"

ProtoOf(payload) == CASE payload = "tls_client_hello" -> "tls"
                      [] payload = "xmpp_stream" -> "xmpp"
                      [] OTHER -> "unknown"

\* reasm_client_feed: the session after it, and whether it failed (then the
\* delayed packets have been sent)
FeedBreaks(k) == ~ReasmIsEmpty(reasm) /\ ~ReasmFeedOk(reasm, SeqOf(k.p), k.len)

Session(k) == IF ReasmIsEmpty(reasm) THEN reasm
              ELSE IF FeedBreaks(k) THEN ReasmClear(reasm)
              ELSE ReasmFed(reasm, SeqOf(k.p), k.len)

\* what is on the wire after the queue q was sent
send_delayed(w, q) == IF q = <<>> THEN w ELSE w \o q

\* mutant: a session that breaks forgets to send what was held
SentNothing(k) == wire

Held(k) == IF FeedBreaks(k) THEN <<>> ELSE delayed
Sent(k) == IF FeedBreaks(k) THEN send_delayed(wire, delayed) ELSE wire

\* the payload is not looked at while a session is open
Payload(k) == IF ReasmIsEmpty(Session(k)) THEN PayloadAt(k.p) ELSE "unknown"

\* the protocol of a flow is set once
Proto(k) == IF l7proto = "unknown" THEN ProtoOf(Payload(k)) ELSE l7proto

\* mutant: the parts after the first are not recognised as a ClientHello
IsFirstPart(k) == Payload(k) = "tls_client_hello"

IsHello(k) == \/ Payload(k) = "tls_client_hello"
              \/ Proto(k) = "tls" /\ ~ReasmIsEmpty(Session(k))

\* IsTLSRecordFull on the assembled data, or on the packet alone
HelloIsFull(k) == IF ReasmIsEmpty(Session(k)) THEN k.len >= HelloLen
                  ELSE Session(k).present >= HelloLen

\* mutant: the window is not looked at
WindowIgnored(ps) == TRUE

\* reasm_client_start is reached, and does not refuse: the server's window, if
\* known, lets the client send all of the message
WindowAllows(ps) == ps.server.pcounter = 0 \/ ps.server.winsize_calc >= HelloLen

StartReached(k, ps) ==
    /\ IsHello(k) /\ ReasmIsEmpty(Session(k))
    /\ ~HelloIsFull(k)
    /\ ~is_retransmission(ps.client)

StartAllowed(ps) == WindowAllows(ps) /\ HelloLen <= SzMax

\* the session the packet is queued for, if there is one
Started(k) == ReasmFed(ReasmInit(HelloLen, SeqOf(k.p)), SeqOf(k.p), k.len)

-----------------------------------------------------------------------------
(* What a packet does to the rest.                                         *)

\* the positions after the client's data packet k
DataPositions(k) == FeedPositions(pos, FALSE, Segment("ACK", SeqOf(k.p), 1, k.len, 0))

\* the verdict on a packet that Lua was given: it passes, or Lua takes it
Played(w, k) ==
    \/ wire' = Append(w, k) /\ taken' = taken
    \/ wire' = w /\ taken' = taken \cup {k}

Discovers(l7, haveHost) ==
    \/ l7 # "unknown" /\ "l7" \notin known
    \/ haveHost /\ "host" \notin known

\* dp_rediscovery of a packet that play_prolog has given the profile d: when the
\* protocol or the hostname has become known the profile is searched again; a
\* profile with hostlists then checks the hostname
dp_rediscovery_from(d, l7, haveHost) ==
    /\ known' = known \cup (IF l7 # "unknown" THEN {"l7"} ELSE {})
                    \cup (IF haveHost THEN {"host"} ELSE {})
    /\ \E f \in IF Discovers(l7, haveHost)
               THEN {<<FALSE, "none">>, <<TRUE, "none">>, <<TRUE, "accepted">>}
               ELSE {<<d, check>>} :
         /\ dp' = f[1]
         /\ check' \in IF f = <<TRUE, "none">> /\ haveHost
                      THEN {"none", "accepted", "rejected"} ELSE {f[2]}

dp_rediscovery(l7, haveHost) == dp_rediscovery_from(dp, l7, haveHost)

\* dp_rediscovery has returned true
Applies == dp' /\ check' # "rejected"

ClientSends(k) ==
    /\ n < MaxPackets
    /\ k.id = n + 1
    /\ n' = n + 1
    /\ k.p >= acked /\ k.p <= nxt
    /\ k.p + k.len <= StreamLen /\ k.p + k.len <= acked + win
    /\ arrived' = arrived \cup {k}
    /\ nxt' = IF k.p + k.len > nxt THEN k.p + k.len ELSE nxt
    /\ UNCHANGED <<l4, acked, win, incoming, first>>

\* mutant: the packet that completes the ClientHello is held like the others
HoldAlways(k, r) ==
    /\ reasm' = r
    /\ delayed' = Append(Held(k), k)
    /\ wire' = Sent(k)
    /\ UNCHANGED <<known, dp, check, taken, oom, early>>

\* the packet is queued and dropped: the ClientHello is not complete yet
Hold(k, r) ==
    /\ ~ReasmIsFull(r)
    /\ reasm' = r
    /\ delayed' = Append(Held(k), k)
    /\ wire' = Sent(k)
    /\ UNCHANGED <<known, dp, check, taken, oom, early>>

\* mutant: the packet that completes the ClientHello is played before the queue
ReplayNewestFirst(k, r) ==
    /\ ReasmIsFull(r)
    /\ \E haveHost \in BOOLEAN : dp_rediscovery(Proto(k), haveHost)
    /\ \E drop \in SUBSET (IF Applies THEN Elems(Append(Held(k), k)) ELSE {}) :
         /\ taken' = taken \cup drop
         /\ wire' = Sent(k) \o Without(<<k>> \o Held(k), drop)
    /\ reasm' = ReasmClear(r)
    /\ delayed' = <<>>
    /\ UNCHANGED <<oom, early>>

\* the packet is queued and completes the ClientHello: replay_queue plays every
\* packet again, past reassembly, to Lua; then reasm_client_fin
Replay(k, r) ==
    /\ ReasmIsFull(r)
    /\ \E haveHost \in BOOLEAN : dp_rediscovery(Proto(k), haveHost)
    /\ \E drop \in SUBSET (IF Applies THEN Elems(Append(Held(k), k)) ELSE {}) :
         /\ taken' = taken \cup drop
         /\ wire' = Sent(k) \o Without(Append(Held(k), k), drop)
    /\ reasm' = ReasmClear(r)
    /\ delayed' = <<>>
    /\ UNCHANGED <<oom, early>>

\* the packet goes on to dp_rediscovery, with the session r open or not, and
\* from there to Lua; or all that is held is sent (reasm_client_cancel), and
\* then the packet
Forward(k, r, haveHost) ==
    /\ dp_rediscovery(Proto(k), haveHost)
    /\ \/ /\ ~Applies
          /\ reasm' = ReasmClear(r) /\ delayed' = <<>>
          /\ wire' = Append(send_delayed(Sent(k), Held(k)), k)
          /\ UNCHANGED <<taken, early>>
       \/ /\ Applies
          /\ reasm' = r /\ delayed' = Held(k)
          /\ Played(Sent(k), k)
          /\ early' = (early \/ (~ReasmIsEmpty(r) /\ k.p >= HelloStart))

\* a part of a ClientHello that is not reassembled, or all of it
Unassembled(k) ==
    /\ IsHello(k) /\ ReasmIsEmpty(Session(k)) /\ ~StartReached(k, pos')
    /\ \E haveHost \in BOOLEAN : Forward(k, Session(k), haveHost)
    /\ UNCHANGED oom

\* reasm_client_start refuses or has no memory
StartRefused(k) ==
    /\ StartReached(k, pos')
    /\ Forward(k, Session(k), FALSE)
    /\ UNCHANGED oom

\* the packet belongs to a session r, an old one or one that it starts
Assembled(k, r) ==
    /\ IsHello(k) /\ ~ReasmIsEmpty(r)
    /\ \/ Hold(k, r)
       \/ Replay(k, r)
       \* rawpacket_queue has no memory
       \/ oom' = TRUE /\ Forward(k, r, FALSE)

\* dpi_desync_tcp_packet_play for a data packet of the client
ClientData(k) ==
    /\ tracked /\ dp
    /\ ClientSends(k)
    /\ pos' = DataPositions(k)
    /\ l7proto' = Proto(k)
    /\ UNCHANGED <<tracked, lost>>
    /\ \/ Assembled(k, IF StartReached(k, pos') /\ StartAllowed(pos')
                       THEN Started(k) ELSE Session(k))
       \/ StartRefused(k)
       \/ Unassembled(k)
       \/ ~IsHello(k) /\ Forward(k, Session(k), FALSE) /\ UNCHANGED oom

\* play_prolog finds no profile: the packet passes
ClientDataNoProfile(k) ==
    /\ tracked /\ ~dp
    /\ ClientSends(k)
    /\ pos' = DataPositions(k)
    /\ wire' = Append(wire, k)
    /\ UNCHANGED <<tracked, l7proto, known, dp, check, reasm, delayed, taken, lost, oom, early>>

\* there is no conntrack entry: nothing is held, nothing is learnt
ClientDataUntracked(k) ==
    /\ ~tracked
    /\ ClientSends(k)
    /\ Played(wire, k)
    /\ UNCHANGED <<ctrack, lost, oom, early>>

-----------------------------------------------------------------------------
(* Other packets of the connection, and the hosts.                         *)

\* mutant: the session is closed and the queue forgotten
PlayEmptyKeepsQueue ==
    IF dp
    THEN /\ dp_rediscovery(l7proto, FALSE)
         /\ IF Applies THEN UNCHANGED reasm ELSE reasm' = ReasmClear(reasm)
         /\ UNCHANGED <<delayed, wire>>
    ELSE UNCHANGED <<known, dp, check, reasm, delayed, wire>>

\* The handler on a packet without data.  It, too, searches the profile again
\* if the protocol was found by a packet that is still held back, and cancels
\* the session if the search fails or the hostname was rejected.
PlayEmpty ==
    IF dp
    THEN /\ dp_rediscovery(l7proto, FALSE)
         /\ IF Applies
            THEN UNCHANGED <<reasm, delayed, wire>>
            ELSE reasm' = ReasmClear(reasm) /\ delayed' = <<>> /\ wire' = send_delayed(wire, delayed)
    ELSE UNCHANGED <<known, dp, check, reasm, delayed, wire>>

\* a packet of the client without data: acknowledgement, FIN or RST
ClientControl(flag) ==
    /\ tracked /\ n < MaxPackets /\ n' = n + 1
    /\ pos' = FeedPositions(pos, FALSE, Segment(flag, SeqOf(nxt), 1, 0, 0))
    /\ PlayEmpty
    /\ UNCHANGED <<tracked, l7proto, hosts, arrived, taken, lost, oom, early>>

\* units of the stream that have left the program, by whatever way
Gone == UNION {k.p .. k.p + k.len - 1 :
                 k \in {k \in Elems(wire) \cup taken : k.id > first}}

\* an acknowledgement of the server: of what it can have received; it never
\* takes back window
ServerAcks(a, w) ==
    /\ n < MaxPackets /\ n' = n + 1
    /\ a >= acked /\ a <= nxt
    /\ acked .. a - 1 \subseteq Gone
    /\ a + w >= acked + win
    /\ acked' = a /\ win' = w
    /\ UNCHANGED <<l4, nxt, incoming, first>>

\* it passes the program
ServerPacket(a, w) ==
    /\ tracked /\ incoming
    /\ ServerAcks(a, w)
    /\ pos' = FeedPositions(pos, TRUE,
                 Segment(IF pos.state = "SYN" THEN "SYNACK" ELSE "ACK",
                         IF pos.state = "SYN" THEN 0 ELSE 1, SeqOf(a), 0, w))
    /\ PlayEmpty
    /\ UNCHANGED <<tracked, l7proto, arrived, taken, lost, oom, early>>

\* it does not, or there is nothing to change
ServerPacketUnseen(a, w) ==
    /\ ~(tracked /\ incoming)
    /\ ServerAcks(a, w)
    /\ UNCHANGED <<ctrack, arrived, wire, taken, lost, oom, early>>

\* a segment is lost before it reaches the program
LostUpstream(len) ==
    /\ n < MaxPackets /\ n' = n + 1
    /\ nxt + len <= StreamLen
    /\ nxt' = nxt + len
    /\ UNCHANGED <<ctrack, l4, acked, win, incoming, first, arrived, wire, taken, lost, oom, early>>

\* a new connection on the same tuple: a new entry, or ConntrackReInitTrack on
\* the SYN, which destroys the queue; the profile is searched again
NewConnection(w) ==
    /\ tracked => pos.state # "SYN"
    /\ n < MaxPackets /\ n' = n + 1
    /\ tracked' = TRUE
    /\ pos' = Handshake(IF tracked THEN pos ELSE InitPositions, w)
    /\ l7proto' = "unknown" /\ known' = {} /\ check' = "none"
    /\ dp' \in BOOLEAN
    /\ reasm' = ReasmClear(reasm) /\ delayed' = <<>>
    /\ lost' = lost \cup Elems(delayed)
    /\ nxt' = 0 /\ acked' = 0 /\ win' = w /\ first' = n'
    /\ UNCHANGED <<l4, incoming, arrived, wire, taken, oom, early>>

\* ConntrackPoolPurge removes the idle entry, and the queue with it
PurgeEntry ==
    /\ tracked
    /\ tracked' = FALSE
    /\ pos' = InitPositions /\ l7proto' = "unknown" /\ known' = {} /\ check' = "none"
    /\ dp' = FALSE
    /\ reasm' = NoReasm /\ delayed' = <<>>
    /\ lost' = lost \cup Elems(delayed)
    /\ UNCHANGED <<hosts, n, arrived, wire, taken, oom, early>>

Next ==
    \/ \E k \in Packet : ClientData(k) \/ ClientDataNoProfile(k) \/ ClientDataUntracked(k)
    \/ \E flag \in {"ACK", "FIN"} : ClientControl(flag)
    \/ \E a \in 0 .. StreamLen, w \in Windows : ServerPacket(a, w) \/ ServerPacketUnseen(a, w)
    \/ \E len \in 1 .. MaxLen : LostUpstream(len)
    \/ \E w \in Windows : NewConnection(w)
    \/ PurgeEntry

Spec == Init /\ [][Next]_vars

-----------------------------------------------------------------------------
\* No packet is held back without an open session that can release it: every
\* way a session ends (complete, broken, cancelled, erased) empties the queue.
HeldImpliesSession == delayed # <<>> => tracked /\ ~ReasmIsEmpty(reasm)

\* Holding back does not reorder the client's data: packets leave in the order
\* in which they came.
DataLeavesInOrder ==
    ~oom => \A i, j \in DOMAIN wire : i < j => wire[i].id < wire[j].id

\* Every data packet is accounted for exactly once: it left, is held, was taken
\* over by Lua, or was destroyed with its conntrack entry.
EveryPacketOnce ==
    /\ arrived = Elems(wire) \cup Elems(delayed) \cup taken \cup lost
    /\ Cardinality(arrived) = Len(wire) + Len(delayed) + Cardinality(taken) + Cardinality(lost)

\* The client can always finish what is being held back: the window of the
\* server, which acknowledges nothing that is held, covers the whole message.
ClientCanFinish ==
    l4 = "tcp" /\ delayed # <<>> /\ incoming => HelloStart + HelloLen <= acked + win

\* "Until assembly is finalized, packets are accumulated in the internal buffer
\* without calling Lua" (docs/manual.en.md, Handling multi-packet payloads).
NoLuaDuringAssembly == ~oom => ~early
=============================================================================
