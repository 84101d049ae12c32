-------------------------- MODULE PacketPlay_proof --------------------------
(***************************************************************************)
(* The TCP and the UDP handler on the packets of a flow, for every stream, *)
(* window, sequence space and number of packets:                           *)
(*  - packets are never held back without an open session (HeldInv);       *)
(*  - the handlers implement DelayLine (LineInv);                          *)
(*  - packets leave in order, each once (OrderInv);                        *)
(*  - what is held is incomplete, and Lua sees no part of it (WaitInv);    *)
(*  - the client can send the rest (WindowInv).                            *)
(* From the second on the client's stream starts with the ClientHello      *)
(* (HelloStart = 0); a stream that upgrades to TLS later does not have     *)
(* these properties (XMPP, see NoLuaDuringAssembly).                       *)
(***************************************************************************)
EXTENDS QuicPlay, FiniteSetTheorems, TLAPS

-----------------------------------------------------------------------------
(* A session is a record of three fields: that is what the operators on it *)
(* need to say what they do to its size.                                   *)

LEMMA SzMaxPositive == SzMax # 0
  BY InitialLenAssumption

IsHeader(r) == r = [field \in {"size", "present", "seq"} |-> r[field]]

HeldInv == IsHeader(reasm) /\ HeldImpliesSession

-----------------------------------------------------------------------------
\* Feeding a session does not close it, clearing it does.
LEMMA SessionOps ==
    ASSUME NEW r, IsHeader(r), NEW seq, NEW len
    PROVE  /\ IsHeader(ReasmFed(r, seq, len))
           /\ ReasmIsEmpty(ReasmFed(r, seq, len)) <=> ReasmIsEmpty(r)
           /\ IsHeader(ReasmClear(r)) /\ ReasmIsEmpty(ReasmClear(r))
  <1> DEFINE g == ReasmGrowth(r, seq, len)
             f == [r EXCEPT !.present = @ + g, !.seq = SeqAdd(@, g)]
  <1>1. ReasmFed(r, seq, len) = f
    BY DEF ReasmFed
  <1>2. IsHeader(f) /\ f.size = r.size
    <2> HIDE DEF g
    <2> QED BY DEF IsHeader
  <1>3. IsHeader(ReasmClear(r)) /\ ReasmIsEmpty(ReasmClear(r))
    BY DEF IsHeader, ReasmClear, ReasmIsEmpty
  <1> HIDE DEF f
  <1> QED BY <1>1, <1>2, <1>3 DEF ReasmIsEmpty

\* What reasm_client_feed leaves: if the session is closed nothing is held.
LEMMA AfterFeed ==
    ASSUME HeldInv, NEW k
    PROVE  /\ IsHeader(Session(k))
           /\ ReasmIsEmpty(Session(k)) => Held(k) = <<>>
  <1>1. CASE ReasmIsEmpty(reasm)
    BY <1>1 DEF HeldInv, HeldImpliesSession, Session, Held, FeedBreaks
  <1>2. CASE ~ReasmIsEmpty(reasm) /\ FeedBreaks(k)
    BY <1>2, SessionOps DEF HeldInv, Session, Held
  <1>3. CASE ~ReasmIsEmpty(reasm) /\ ~FeedBreaks(k)
    BY <1>3, SessionOps DEF HeldInv, Session, Held
  <1> QED BY <1>1, <1>2, <1>3

LEMMA StartedHeader == ASSUME NEW k PROVE IsHeader(Started(k))
  <1>1. IsHeader(ReasmInit(HelloLen, SeqOf(k.p)))
    BY DEF IsHeader, ReasmInit
  <1> QED BY <1>1, SessionOps DEF Started

-----------------------------------------------------------------------------
\* A packet that goes on to Lua leaves the session as it is, or ends it.
LEMMA ForwardHeld ==
    ASSUME NEW k, NEW r, NEW h, Forward(k, r, h), tracked', IsHeader(r),
           ReasmIsEmpty(r) => Held(k) = <<>>
    PROVE  HeldInv'
  <1>1. CASE ~Applies
    <2>1. reasm' = ReasmClear(r) /\ delayed' = <<>>
      BY <1>1 DEF Forward
    <2> QED BY <2>1, SessionOps DEF HeldInv, HeldImpliesSession, IsHeader
  <1>2. CASE Applies
    <2>1. reasm' = r /\ delayed' = Held(k)
      BY <1>2 DEF Forward
    <2> QED BY <2>1 DEF HeldInv, HeldImpliesSession, IsHeader
  <1> QED BY <1>1, <1>2

LEMMA AssembledHeld ==
    ASSUME NEW k, NEW r, Assembled(k, r), tracked', IsHeader(r)
    PROVE  HeldInv'
  <1>1. ~ReasmIsEmpty(r)
    BY DEF Assembled
  <1>2. CASE Hold(k, r)
    BY <1>1, <1>2 DEF Hold, HeldInv, HeldImpliesSession, IsHeader
  <1>3. CASE Replay(k, r)
    <2>1. reasm' = ReasmClear(r) /\ delayed' = <<>>
      BY <1>3 DEF Replay
    <2> QED BY <2>1, SessionOps DEF HeldInv, HeldImpliesSession, IsHeader
  <1>4. CASE Forward(k, r, FALSE)
    BY <1>1, <1>4, ForwardHeld
  <1> QED BY <1>2, <1>3, <1>4 DEF Assembled

LEMMA ClientDataHeld ==
    ASSUME HeldInv, NEW k, ClientData(k)
    PROVE  HeldInv'
  <1>1. tracked' /\ IsHeader(Session(k)) /\ IsHeader(Started(k))
    BY AfterFeed, StartedHeader DEF ClientData
  <1>2. ASSUME NEW h, Forward(k, Session(k), h) PROVE HeldInv'
    BY <1>1, <1>2, AfterFeed, ForwardHeld
  <1>3. CASE Assembled(k, IF StartReached(k, pos') /\ StartAllowed(pos')
                          THEN Started(k) ELSE Session(k))
    <2>1. CASE StartReached(k, pos') /\ StartAllowed(pos')
      <3>1. Assembled(k, Started(k))
        BY <1>3, <2>1
      <3> QED BY <1>1, <3>1, AssembledHeld
    <2>2. CASE ~(StartReached(k, pos') /\ StartAllowed(pos'))
      <3>1. Assembled(k, Session(k))
        BY <1>3, <2>2
      <3> QED BY <1>1, <3>1, AssembledHeld
    <2> QED BY <2>1, <2>2
  <1>4. CASE StartRefused(k)
    BY <1>2, <1>4 DEF StartRefused
  <1>5. CASE Unassembled(k)
    BY <1>2, <1>5 DEF Unassembled
  <1>6. CASE Forward(k, Session(k), FALSE)
    BY <1>2, <1>6
  <1> QED BY <1>3, <1>4, <1>5, <1>6 DEF ClientData

LEMMA PlayEmptyHeld ==
    ASSUME HeldInv, tracked' = tracked, PlayEmpty
    PROVE  HeldInv'
  <1>1. \/ reasm' = reasm /\ delayed' = delayed
        \/ reasm' = ReasmClear(reasm) /\ delayed' = <<>>
    BY DEF PlayEmpty
  <1> QED BY <1>1, SessionOps, ZenonT(30) DEF HeldInv, HeldImpliesSession, IsHeader

-----------------------------------------------------------------------------
\* What is left after a UDP packet that ends the session, or is held in one.
LEMMA ClearedHeld ==
    ASSUME IsHeader(reasm), reasm' = ReasmClear(reasm), delayed' = <<>>
    PROVE  HeldInv'
  BY SessionOps DEF HeldInv, HeldImpliesSession, IsHeader

LEMMA QuicSessionOpen ==
    ASSUME IsHeader(reasm)
    PROVE  IsHeader(QuicSession) /\ ~ReasmIsEmpty(QuicSession)
  <1> DEFINE r == IF ReasmIsEmpty(reasm) THEN ReasmInit(SzMax, 0) ELSE reasm
  <1>1. IsHeader(r) /\ ~ReasmIsEmpty(r)
    BY SzMaxPositive DEF IsHeader, ReasmInit, ReasmIsEmpty
  <1>2. QuicSession = ReasmFed(r, r.present, InitialLen)
    BY DEF QuicSession
  <1> HIDE DEF r
  <1> QED BY <1>1, <1>2, SessionOps

LEMMA UdpClientHeld ==
    ASSUME HeldInv, NEW k, UdpClientPacket(k)
    PROVE  HeldInv'
  <1>1. IsHeader(reasm) /\ tracked'
    BY DEF HeldInv, UdpClientPacket
  <1>2. PICK d : \/ QuicInitial(k, d) \/ OtherDatagram(k, d)
                 \/ UNCHANGED <<reasm, delayed>>
    BY DEF UdpClientPacket
  <1>3. ASSUME NEW h, CancelAndPlay(k, d, h) PROVE HeldInv'
    BY <1>1, <1>3, ClearedHeld DEF CancelAndPlay
  <1>4. CASE QuicHold(k, d)
    <2>1. reasm' = QuicSession
      BY <1>4 DEF QuicHold
    <2> QED BY <1>1, <2>1, QuicSessionOpen DEF HeldInv, HeldImpliesSession, IsHeader
  <1>5. CASE QuicReplay(k, d)
    BY <1>1, <1>5, ClearedHeld DEF QuicReplay
  <1>6. CASE UNCHANGED <<reasm, delayed>>
    BY <1>1, <1>6 DEF HeldInv, HeldImpliesSession, IsHeader
  <1> QED BY <1>2, <1>3, <1>4, <1>5, <1>6 DEF QuicInitial, OtherDatagram

LEMMA UdpServerHeld ==
    ASSUME HeldInv, UdpServerPacket
    PROVE  HeldInv'
  <1>1. \/ reasm' = ReasmClear(reasm) /\ delayed' = <<>>
        \/ UNCHANGED <<reasm, delayed>>
    BY DEF UdpServerPacket
  <1>2. tracked' = tracked
    BY DEF UdpServerPacket
  <1> QED BY <1>1, <1>2, ClearedHeld DEF HeldInv, HeldImpliesSession, IsHeader

-----------------------------------------------------------------------------
LEMMA HeldInit == PlayInit => HeldInv
  BY DEF PlayInit, Init, UdpInit, HeldInv, HeldImpliesSession, IsHeader, NoReasm

LEMMA HeldNext == HeldInv /\ [PlayNext]_vars => HeldInv'
  <1> SUFFICES ASSUME HeldInv, [PlayNext]_vars PROVE HeldInv'
    OBVIOUS
  <1> USE DEF HeldInv, HeldImpliesSession, IsHeader
  <1>1. ASSUME NEW k \in Packet, ClientData(k) PROVE HeldInv'
    BY <1>1, ClientDataHeld
  <1>2. ASSUME NEW k \in Packet, ClientDataNoProfile(k) PROVE HeldInv'
    BY <1>2 DEF ClientDataNoProfile
  <1>3. ASSUME NEW k \in Packet, ClientDataUntracked(k) PROVE HeldInv'
    BY <1>3 DEF ClientDataUntracked, ctrack
  <1>4. ASSUME NEW flag \in {"ACK", "FIN"}, ClientControl(flag) PROVE HeldInv'
    BY <1>4, PlayEmptyHeld DEF ClientControl
  <1>5. ASSUME NEW a, NEW w, ServerPacket(a, w) PROVE HeldInv'
    BY <1>5, PlayEmptyHeld DEF ServerPacket
  <1>6. ASSUME NEW a, NEW w, ServerPacketUnseen(a, w) PROVE HeldInv'
    BY <1>6 DEF ServerPacketUnseen, ctrack
  <1>7. ASSUME NEW len, LostUpstream(len) PROVE HeldInv'
    BY <1>7 DEF LostUpstream, ctrack
  <1>8. ASSUME NEW w, NewConnection(w) PROVE HeldInv'
    <2>1. reasm' = ReasmClear(reasm) /\ delayed' = <<>>
      BY <1>8 DEF NewConnection
    <2> QED BY <2>1, SessionOps
  <1>9. CASE PurgeEntry
    BY <1>9 DEF PurgeEntry, NoReasm
  <1>10. CASE UNCHANGED vars
    BY <1>10 DEF vars, ctrack
  <1>11. ASSUME NEW k \in Packet, UdpClientPacket(k) PROVE HeldInv'
    BY <1>11, UdpClientHeld
  <1>12. CASE UdpServerPacket
    BY <1>12, UdpServerHeld
  <1>13. CASE Next
    BY <1>1, <1>2, <1>3, <1>4, <1>5, <1>6, <1>7, <1>8, <1>9, <1>13 DEF Next
  <1>14. CASE UdpNext
    BY <1>9, <1>11, <1>12, <1>14 DEF UdpNext
  <1> QED
    BY <1>10, <1>13, <1>14 DEF PlayNext

\* No packet is held back without an open session that can release it, whatever
\* the handler does: reasm_feed, reasm_client_stop, ConntrackReInitTrack and
\* ConntrackPoolPurge all empty the queue with the session.
THEOREM NothingStuck == PlaySpec => []HeldImpliesSession
  <1>1. HeldInv => HeldImpliesSession
    BY DEF HeldInv
  <1> QED BY HeldInit, HeldNext, <1>1, PTL DEF PlaySpec

-----------------------------------------------------------------------------
(* The line.  The mapping needs three facts besides HeldInv: a packet is   *)
(* new when it enters, what is held has a profile (so that no packet       *)
(* passes it by way of "no profile"), and a TCP session belongs to a TLS   *)
(* flow (so that every further packet is a part of the ClientHello).       *)

PacketsAreNew == n \in Nat /\ arrived \subseteq Packet /\ \A k \in arrived : k.id <= n

HeldHasProfile == delayed # <<>> => dp

SessionIsTls ==
    /\ l4 = "tcp" => l7proto \in {"unknown", "tls"}
    /\ l4 = "tcp" /\ ~ReasmIsEmpty(reasm) => l7proto = "tls"

LineInv == HeldInv /\ PacketsAreNew /\ HeldHasProfile /\ SessionIsTls

-----------------------------------------------------------------------------
(* The operators of the line and of the handlers are the same.             *)

LEMMA SameElems == \A s : Elems(s) = Line!Elems(s)
  BY DEF Elems, Line!Elems

LEMMA SameWithout == \A s, drop : Without(s, drop) = Line!Without(s, drop)
  BY Zenon DEF Without, Kept, Rank, Cardinality, IsFiniteSet, Line!Without, Line!Kept, Line!Rank, Line!Cardinality, Line!IsFiniteSet

LEMMA SameSend == \A w, q : send_delayed(w, q) = Line!LetOut(w, q)
  BY DEF send_delayed, Line!LetOut

LEMMA SamePlay == ASSUME NEW w, NEW k, Played(w, k) PROVE Line!Play(w, k)
  BY DEF Played, Line!Play

-----------------------------------------------------------------------------
(* The invariant.                                                          *)

LEMMA NoXmpp ==
    ASSUME HelloStart = 0, LineInv, l4 = "tcp", NEW k
    PROVE  /\ Proto(k) \in {"unknown", "tls"}
           /\ Payload(k) = "tls_client_hello" => Proto(k) = "tls"
           /\ ~ReasmIsEmpty(Session(k)) => Proto(k) = "tls"
  <1>1. l7proto \in {"unknown", "tls"}
    BY DEF LineInv, SessionIsTls
  <1>2. PayloadAt(k.p) \in {"tls_client_hello", "unknown"}
    BY DEF PayloadAt
  <1>3. Payload(k) \in {"tls_client_hello", "unknown"}
    BY <1>2 DEF Payload
  <1>4. ProtoOf("tls_client_hello") = "tls" /\ ProtoOf("unknown") = "unknown"
    BY DEF ProtoOf
  <1>5. ~ReasmIsEmpty(Session(k)) => ~ReasmIsEmpty(reasm)
    BY DEF Session
  <1> QED BY <1>1, <1>3, <1>4, <1>5 DEF Proto, LineInv, SessionIsTls

\* A packet of the client that the TCP handler processes keeps the facts.
LEMMA ClientDataLine ==
    ASSUME HelloStart = 0, LineInv, l4 = "tcp", NEW k \in Packet, ClientData(k)
    PROVE  HeldHasProfile' /\ SessionIsTls'
  <1>1. l4' = "tcp" /\ l7proto' = Proto(k)
    BY DEF ClientData, ClientSends
  <1>2. ASSUME NEW r, NEW h, Forward(k, r, h), ~ReasmIsEmpty(r) => Proto(k) = "tls"
        PROVE  HeldHasProfile' /\ SessionIsTls'
    <2>1. CASE ~Applies
      <3>1. reasm' = ReasmClear(r) /\ delayed' = <<>>
        BY <1>2, <2>1 DEF Forward
      <3>2. ReasmIsEmpty(r) \/ Proto(k) = "tls"
        BY <1>2
      <3>3. ReasmIsEmpty(r) => ReasmIsEmpty(reasm')
        BY <3>1 DEF ReasmIsEmpty, ReasmClear
      <3> QED BY <1>1, <3>1, <3>2, <3>3, NoXmpp DEF HeldHasProfile, SessionIsTls, ReasmIsEmpty
    <2>2. CASE Applies
      <3>1. reasm' = r /\ dp'
        BY <1>2, <2>2 DEF Forward, Applies
      <3> QED BY <1>1, <1>2, <3>1, NoXmpp DEF HeldHasProfile, SessionIsTls, ReasmIsEmpty
    <2> QED BY <2>1, <2>2
  <1>3. ASSUME NEW r, Assembled(k, r) PROVE HeldHasProfile' /\ SessionIsTls'
    <2>1. Proto(k) = "tls"
      BY <1>3, NoXmpp DEF Assembled, IsHello
    <2>2. SessionIsTls'
      BY <1>1, <2>1 DEF SessionIsTls
    <2>3. CASE Hold(k, r)
      <3>1. dp /\ dp' = dp
        BY <2>3 DEF Hold, ClientData
      <3> QED BY <2>2, <3>1 DEF HeldHasProfile
    <2>4. CASE Replay(k, r)
      BY <2>2, <2>4 DEF Replay, HeldHasProfile
    <2>5. CASE Forward(k, r, FALSE)
      BY <1>2, <2>1, <2>5
    <2> QED BY <1>3, <2>3, <2>4, <2>5 DEF Assembled
  <1>4. ASSUME NEW h, Forward(k, Session(k), h) PROVE HeldHasProfile' /\ SessionIsTls'
    BY <1>2, <1>4, NoXmpp
  <1>5. CASE StartRefused(k)
    BY <1>4, <1>5 DEF StartRefused
  <1>6. CASE Unassembled(k)
    BY <1>4, <1>6 DEF Unassembled
  <1> QED BY <1>3, <1>4, <1>5, <1>6 DEF ClientData

LEMMA PlayEmptyLine ==
    ASSUME LineInv, PlayEmpty, l7proto' = l7proto, l4' = l4
    PROVE  HeldHasProfile' /\ SessionIsTls'
  <1>1. \/ reasm' = reasm /\ delayed' = delayed /\ (dp' \/ dp' = dp)
        \/ reasm' = ReasmClear(reasm) /\ delayed' = <<>>
    BY DEF PlayEmpty, Applies
  <1>2. ReasmIsEmpty(reasm) /\ reasm' = ReasmClear(reasm) => ReasmIsEmpty(reasm')
    BY DEF ReasmIsEmpty, ReasmClear
  <1> QED BY <1>1, <1>2 DEF LineInv, HeldHasProfile, SessionIsTls, ReasmIsEmpty

LEMMA UdpClientLine ==
    ASSUME LineInv, l4 = "udp", NEW k \in Packet, UdpClientPacket(k)
    PROVE  HeldHasProfile' /\ SessionIsTls'
  <1>1. l4' = "udp"
    BY DEF UdpClientPacket, hosts
  <1>2. delayed # <<>> => tracked
    BY DEF LineInv, HeldInv, HeldImpliesSession
  <1>3. PICK d \in (IF tracked THEN {dp} ELSE BOOLEAN) :
          \/ d /\ (QuicInitial(k, d) \/ OtherDatagram(k, d))
          \/ ~d /\ dp' = d /\ delayed' = delayed
    BY DEF UdpClientPacket
  <1>4. ASSUME NEW h, CancelAndPlay(k, d, h) PROVE HeldHasProfile'
    BY <1>4 DEF CancelAndPlay, HeldHasProfile
  <1>5. ASSUME d, QuicHold(k, d) PROVE HeldHasProfile'
    BY <1>5 DEF QuicHold, HeldHasProfile
  <1>6. ASSUME QuicReplay(k, d) PROVE HeldHasProfile'
    BY <1>6 DEF QuicReplay, HeldHasProfile
  <1>7. ASSUME ~d, dp' = d, delayed' = delayed PROVE HeldHasProfile'
    BY <1>2, <1>3, <1>7 DEF HeldHasProfile, LineInv
  <1>8. HeldHasProfile'
    BY <1>3, <1>4, <1>5, <1>6, <1>7 DEF QuicInitial, OtherDatagram
  <1> QED BY <1>1, <1>8 DEF SessionIsTls

LEMMA LineInit == PlayInit => LineInv
  BY HeldInit DEF LineInv, PlayInit, Init, UdpInit, PacketsAreNew, HeldHasProfile,
                  SessionIsTls, ReasmIsEmpty, NoReasm

LEMMA LineNext ==
    ASSUME HelloStart = 0, LineInv, [PlayNext]_vars
    PROVE  LineInv'
  <1>1. HeldInv'
    BY HeldNext DEF LineInv
  <1>2. PacketsAreNew'
    <2>1. ASSUME NEW k \in Packet, k.id = n + 1, n' = n + 1, arrived' = arrived \cup {k}
          PROVE  PacketsAreNew'
      BY <2>1 DEF LineInv, PacketsAreNew, Packet
    <2>2. ASSUME n' = n \/ n' = n + 1, arrived' = arrived
          PROVE  PacketsAreNew'
      BY <2>2 DEF LineInv, PacketsAreNew, Packet
    <2>3. ASSUME NEW k \in Packet,
                 ClientData(k) \/ ClientDataNoProfile(k) \/ ClientDataUntracked(k)
          PROVE  PacketsAreNew'
      BY <2>1, <2>3 DEF ClientData, ClientDataNoProfile, ClientDataUntracked, ClientSends
    <2>4. ASSUME NEW k \in Packet, UdpClientPacket(k) PROVE PacketsAreNew'
      BY <2>1, <2>4 DEF UdpClientPacket, UdpSends
    <2>5. CASE UNCHANGED vars
      BY <2>2, <2>5 DEF vars, history
    <2>6. CASE Next
      BY <2>2, <2>3, <2>6 DEF Next, ClientControl, ServerPacket, ServerPacketUnseen,
           ServerAcks, LostUpstream, NewConnection, PurgeEntry
    <2>7. CASE UdpNext
      BY <2>2, <2>4, <2>7 DEF UdpNext, UdpServerPacket, PurgeEntry
    <2> QED BY <2>5, <2>6, <2>7 DEF PlayNext
  <1>3. HeldHasProfile' /\ SessionIsTls'
    <2>1. ASSUME l4 = "tcp", NEW k \in Packet, ClientData(k) PROVE HeldHasProfile' /\ SessionIsTls'
      BY <2>1, ClientDataLine
    <2>2. ASSUME UNCHANGED <<dp, delayed, reasm, l7proto, l4>> PROVE HeldHasProfile' /\ SessionIsTls'
      BY <2>2 DEF LineInv, HeldHasProfile, SessionIsTls, ReasmIsEmpty
    <2>3. ASSUME NEW k \in Packet, ClientDataNoProfile(k) \/ ClientDataUntracked(k)
          PROVE  HeldHasProfile' /\ SessionIsTls'
      BY <2>2, <2>3 DEF ClientDataNoProfile, ClientDataUntracked, ClientSends, ctrack
    <2>4. ASSUME NEW flag, ClientControl(flag) PROVE HeldHasProfile' /\ SessionIsTls'
      BY <2>4, PlayEmptyLine DEF ClientControl, hosts
    <2>5. ASSUME NEW a, NEW w, ServerPacket(a, w) PROVE HeldHasProfile' /\ SessionIsTls'
      BY <2>5, PlayEmptyLine DEF ServerPacket, ServerAcks
    <2>6. ASSUME NEW a, NEW w, ServerPacketUnseen(a, w) PROVE HeldHasProfile' /\ SessionIsTls'
      BY <2>2, <2>6 DEF ServerPacketUnseen, ServerAcks, ctrack
    <2>7. ASSUME NEW len, LostUpstream(len) PROVE HeldHasProfile' /\ SessionIsTls'
      BY <2>2, <2>7 DEF LostUpstream, ctrack
    <2>8. ASSUME NEW w, NewConnection(w) PROVE HeldHasProfile' /\ SessionIsTls'
      BY <2>8 DEF NewConnection, HeldHasProfile, SessionIsTls, ReasmIsEmpty, ReasmClear,
                  LineInv, HeldInv, IsHeader
    <2>9. CASE PurgeEntry
      BY <2>9 DEF PurgeEntry, HeldHasProfile, SessionIsTls, ReasmIsEmpty, NoReasm, hosts
    <2>10. CASE UNCHANGED vars
      BY <2>2, <2>10 DEF vars, ctrack, hosts
    <2>11. ASSUME l4 = "udp", NEW k \in Packet, UdpClientPacket(k) PROVE HeldHasProfile' /\ SessionIsTls'
      BY <2>11, UdpClientLine
    <2>12. ASSUME l4 = "udp", UdpServerPacket PROVE HeldHasProfile' /\ SessionIsTls'
      BY <2>12 DEF UdpServerPacket, hosts, HeldHasProfile, SessionIsTls, LineInv
    <2>13. CASE l4 = "tcp" /\ Next
      BY <2>1, <2>3, <2>4, <2>5, <2>6, <2>7, <2>8, <2>9, <2>13 DEF Next
    <2>14. CASE l4 = "udp" /\ UdpNext
      BY <2>9, <2>11, <2>12, <2>14 DEF UdpNext
    <2> QED BY <2>10, <2>13, <2>14 DEF PlayNext
  <1> QED BY <1>1, <1>2, <1>3 DEF LineInv

-----------------------------------------------------------------------------
(* The steps.                                                              *)

LEMMA EntersLine ==
    ASSUME LineInv, NEW k \in Packet, k.id = n + 1, arrived' = arrived \cup {k}
    PROVE  Line!Enter(k)
  <1>1. k \notin arrived
    BY DEF LineInv, PacketsAreNew, Packet
  <1> QED BY <1>1 DEF Line!Enter

\* A packet goes on: all that was held has left before it, or memory ran out.
LEMMA ForwardStep ==
    ASSUME NEW k, NEW r, NEW h, Forward(k, r, h), lost' = lost,
           \/ oom' = TRUE
           \/ oom' = oom /\ Held(k) = <<>>
    PROVE  Line!PlayLast(k) \/ Line!Overtake(k)
  <1>1. send_delayed(Sent(k), Held(k)) = send_delayed(wire, delayed)
    BY DEF send_delayed, Sent, Held
  <1>2. CASE ~Applies
    <2>1. /\ delayed' = <<>> /\ taken' = taken
          /\ wire' = Append(send_delayed(wire, delayed), k)
      BY <1>1, <1>2 DEF Forward
    <2> QED BY <2>1, SameSend DEF Line!PlayLast, Line!Play
  <1>3. CASE Applies
    <2>1. delayed' = Held(k) /\ Played(Sent(k), k)
      BY <1>3 DEF Forward
    <2>2. Line!Play(Sent(k), k)
      BY <2>1, SamePlay
    <2>3. CASE Held(k) = <<>>
      <3>1. Sent(k) = Line!LetOut(wire, delayed)
        BY <1>1, <2>3, SameSend DEF send_delayed
      <3> QED BY <2>1, <2>2, <2>3, <3>1 DEF Line!PlayLast
    <2>4. CASE Held(k) # <<>>
      <3>1. Held(k) = delayed /\ Sent(k) = wire
        BY <2>4 DEF Held, Sent
      <3> QED BY <2>1, <2>2, <2>4, <3>1 DEF Line!Overtake
    <2> QED BY <2>3, <2>4
  <1> QED BY <1>2, <1>3

LEMMA AssembledStep ==
    ASSUME NEW k, NEW r, Assembled(k, r), lost' = lost
    PROVE  Line!Wait(k) \/ Line!PlayAll(k) \/ Line!PlayLast(k) \/ Line!Overtake(k)
  <1>1. CASE Hold(k, r)
    <2>1. delayed' = Append(Held(k), k) /\ wire' = Sent(k) /\ UNCHANGED <<taken, oom>>
      BY <1>1 DEF Hold
    <2>2. \/ Held(k) = delayed /\ Sent(k) = wire
          \/ Held(k) = <<>> /\ Sent(k) = Line!LetOut(wire, delayed)
      BY SameSend DEF Held, Sent
    <2> QED BY <2>1, <2>2 DEF Line!Wait
  <1>2. CASE Replay(k, r)
    <2>1. delayed' = <<>> /\ oom' = oom
      BY <1>2 DEF Replay
    <2>2. PICK drop \in SUBSET (IF Applies THEN Elems(Append(Held(k), k)) ELSE {}) :
            /\ taken' = taken \cup drop
            /\ wire' = Sent(k) \o Without(Append(Held(k), k), drop)
      BY <1>2 DEF Replay
    <2>3. Line!PlayQueue(Sent(k), Append(Held(k), k))
      <3>1. drop \in SUBSET Line!Elems(Append(Held(k), k))
        BY <2>2, SameElems
      <3> QED BY <2>2, <3>1, SameWithout DEF Line!PlayQueue
    <2>4. \/ Held(k) = delayed /\ Sent(k) = wire
          \/ Held(k) = <<>> /\ Sent(k) = Line!LetOut(wire, delayed)
      BY SameSend DEF Held, Sent
    <2> QED BY <2>1, <2>3, <2>4 DEF Line!PlayAll
  <1>3. CASE oom' = TRUE /\ Forward(k, r, FALSE)
    BY <1>3, ForwardStep
  <1> QED BY <1>1, <1>2, <1>3 DEF Assembled

LEMMA ClientDataStep ==
    ASSUME HelloStart = 0, LineInv, l4 = "tcp", NEW k \in Packet, ClientData(k)
    PROVE  Line!Next
  <1>1. Line!Enter(k)
    BY EntersLine DEF ClientData, ClientSends
  <1>2. lost' = lost
    BY DEF ClientData
  <1>3. ReasmIsEmpty(Session(k)) => Held(k) = <<>>
    BY AfterFeed DEF LineInv
  <1>4. ASSUME NEW h, Forward(k, Session(k), h), oom' = oom, ReasmIsEmpty(Session(k))
        PROVE  Line!PlayLast(k) \/ Line!Overtake(k)
    BY <1>2, <1>3, <1>4, ForwardStep
  <1>5. CASE StartRefused(k)
    BY <1>1, <1>4, <1>5 DEF StartRefused, StartReached, Line!Next
  <1>6. CASE Unassembled(k)
    BY <1>1, <1>4, <1>6 DEF Unassembled, Line!Next
  <1>7. CASE ~IsHello(k) /\ Forward(k, Session(k), FALSE) /\ UNCHANGED oom
    <2>1. ReasmIsEmpty(Session(k))
      BY <1>7, NoXmpp DEF IsHello
    <2> QED BY <1>1, <1>4, <1>7, <2>1 DEF Line!Next
  <1>8. ASSUME NEW r, Assembled(k, r) PROVE Line!Next
    BY <1>1, <1>2, <1>8, AssembledStep DEF Line!Next
  <1> QED BY <1>5, <1>6, <1>7, <1>8 DEF ClientData

LEMMA PlayEmptyStep ==
    ASSUME PlayEmpty, UNCHANGED <<arrived, taken, lost, oom>>
    PROVE  [Line!Next]_(Line!line_vars)
  <1>1. \/ UNCHANGED <<delayed, wire>>
        \/ delayed' = <<>> /\ wire' = send_delayed(wire, delayed)
    BY DEF PlayEmpty
  <1> QED BY <1>1, SameSend DEF Line!Next, Line!Release, Line!line_vars

LEMMA UdpClientStep ==
    ASSUME LineInv, NEW k \in Packet, UdpClientPacket(k)
    PROVE  Line!Next
  <1>1. Line!Enter(k)
    BY EntersLine DEF UdpClientPacket, UdpSends
  <1>2. UNCHANGED <<lost, oom>>
    BY DEF UdpClientPacket
  <1>3. PICK d \in (IF tracked THEN {dp} ELSE BOOLEAN) :
          \/ d /\ (QuicInitial(k, d) \/ OtherDatagram(k, d))
          \/ ~d /\ wire' = Append(wire, k) /\ UNCHANGED <<delayed, taken>>
    BY DEF UdpClientPacket
  <1>4. ASSUME NEW h, CancelAndPlay(k, d, h) PROVE Line!PlayLast(k)
    <2>1. \/ Played(send_delayed(wire, delayed), k)
          \/ wire' = Append(send_delayed(wire, delayed), k) /\ taken' = taken
      BY <1>4 DEF CancelAndPlay
    <2>2. Line!Play(Line!LetOut(wire, delayed), k)
      BY <2>1, SameSend DEF Played, Line!Play
    <2>3. delayed' = <<>>
      BY <1>4 DEF CancelAndPlay
    <2> QED BY <1>2, <2>2, <2>3 DEF Line!PlayLast
  <1>5. ASSUME QuicHold(k, d) PROVE Line!Wait(k)
    BY <1>2, <1>5 DEF QuicHold, Line!Wait
  <1>6. ASSUME QuicReplay(k, d) PROVE Line!PlayAll(k)
    <2>1. delayed' = <<>>
      BY <1>6 DEF QuicReplay
    <2>2. PICK drop \in SUBSET (IF Applies THEN Elems(Append(delayed, k)) ELSE {}) :
            taken' = taken \cup drop /\ wire' = wire \o Without(Append(delayed, k), drop)
      BY <1>6 DEF QuicReplay
    <2>3. drop \in SUBSET Line!Elems(Append(delayed, k))
      BY <2>2, SameElems
    <2>4. Line!PlayQueue(wire, Append(delayed, k))
      BY <2>2, <2>3, SameWithout DEF Line!PlayQueue
    <2> QED BY <1>2, <2>1, <2>4 DEF Line!PlayAll
  <1>7. ASSUME ~d, wire' = Append(wire, k), UNCHANGED <<delayed, taken>>
        PROVE  Line!PlayLast(k)
    <2>1. delayed = <<>>
      BY <1>3, <1>7 DEF LineInv, HeldHasProfile, HeldInv, HeldImpliesSession
    <2> QED BY <1>2, <1>7, <2>1 DEF Line!PlayLast, Line!Play, Line!LetOut
  <1>8. CASE d /\ QuicInitial(k, d)
    <2>1. \/ QuicHold(k, d) \/ QuicReplay(k, d) \/ CancelAndPlay(k, d, FALSE)
          \/ \E h \in BOOLEAN : CancelAndPlay(k, d, h)
      BY <1>8 DEF QuicInitial
    <2> QED BY <1>1, <1>4, <1>5, <1>6, <2>1 DEF Line!Next
  <1>9. CASE d /\ OtherDatagram(k, d)
    BY <1>1, <1>4, <1>9 DEF OtherDatagram, Line!Next
  <1> QED BY <1>1, <1>3, <1>7, <1>8, <1>9 DEF Line!Next

\* Every step of the handlers is a step of the line.
LEMMA StepIsLineStep ==
    ASSUME HelloStart = 0, LineInv, [PlayNext]_vars
    PROVE  [Line!Next]_(Line!line_vars)
  <1>1. ASSUME l4 = "tcp", NEW k \in Packet, ClientData(k) PROVE Line!Next
    BY <1>1, ClientDataStep
  <1>2. ASSUME NEW k \in Packet, ClientDataNoProfile(k) PROVE Line!Next
    <2>1. Line!Enter(k)
      BY <1>2, EntersLine DEF ClientDataNoProfile, ClientSends
    <2>2. delayed = <<>>
      BY <1>2 DEF LineInv, HeldHasProfile, ClientDataNoProfile
    <2>3. Line!PlayLast(k)
      BY <1>2, <2>2 DEF ClientDataNoProfile, Line!PlayLast, Line!Play, Line!LetOut
    <2> QED BY <2>1, <2>3 DEF Line!Next
  <1>3. ASSUME NEW k \in Packet, ClientDataUntracked(k) PROVE Line!Next
    <2>1. Line!Enter(k)
      BY <1>3, EntersLine DEF ClientDataUntracked, ClientSends
    <2>2. delayed = <<>>
      BY <1>3 DEF LineInv, HeldInv, HeldImpliesSession, ClientDataUntracked
    <2>3. Line!Play(wire, k)
      BY <1>3, SamePlay DEF ClientDataUntracked
    <2>4. Line!PlayLast(k)
      BY <1>3, <2>2, <2>3 DEF ClientDataUntracked, ctrack, Line!PlayLast, Line!LetOut
    <2> QED BY <2>1, <2>4 DEF Line!Next
  <1>4. ASSUME NEW flag, ClientControl(flag) PROVE [Line!Next]_(Line!line_vars)
    BY <1>4, PlayEmptyStep DEF ClientControl
  <1>5. ASSUME NEW a, NEW w, ServerPacket(a, w) PROVE [Line!Next]_(Line!line_vars)
    BY <1>5, PlayEmptyStep DEF ServerPacket
  <1>6. ASSUME NEW a, NEW w, ServerPacketUnseen(a, w) PROVE UNCHANGED Line!line_vars
    BY <1>6 DEF ServerPacketUnseen, ctrack, Line!line_vars
  <1>7. ASSUME NEW len, LostUpstream(len) PROVE UNCHANGED Line!line_vars
    BY <1>7 DEF LostUpstream, ctrack, Line!line_vars
  <1>8. ASSUME NEW w, NewConnection(w) PROVE Line!Next
    BY <1>8, SameElems DEF NewConnection, Line!Next, Line!Destroy
  <1>9. ASSUME PurgeEntry PROVE Line!Next
    BY <1>9, SameElems DEF PurgeEntry, Line!Next, Line!Destroy
  <1>10. ASSUME UNCHANGED vars PROVE UNCHANGED Line!line_vars
    BY <1>10 DEF vars, ctrack, history, Line!line_vars
  <1>11. ASSUME NEW k \in Packet, UdpClientPacket(k) PROVE Line!Next
    BY <1>11, UdpClientStep
  <1>12. ASSUME UdpServerPacket PROVE [Line!Next]_(Line!line_vars)
    <2>1. \/ UNCHANGED <<delayed, wire>>
          \/ delayed' = <<>> /\ wire' = send_delayed(wire, delayed)
      BY <1>12 DEF UdpServerPacket
    <2>2. UNCHANGED <<arrived, taken, lost, oom>>
      BY <1>12 DEF UdpServerPacket
    <2> QED BY <2>1, <2>2, SameSend DEF Line!Next, Line!Release, Line!line_vars
  <1>13. CASE l4 = "tcp" /\ Next
    BY <1>1, <1>2, <1>3, <1>4, <1>5, <1>6, <1>7, <1>8, <1>9, <1>13 DEF Next
  <1>14. CASE UdpNext
    BY <1>9, <1>11, <1>12, <1>14 DEF UdpNext
  <1> QED BY <1>10, <1>13, <1>14 DEF PlayNext

\* What dpi_desync_tcp_packet_play and dpi_desync_udp_packet_play do to the
\* packets of a flow is what DelayLine allows: they wait, and leave all
\* together, in order and before anything newer, for every stream, window,
\* fragmentation and number of packets.
THEOREM HandlersImplementLine ==
    ASSUME HelloStart = 0
    PROVE  PlaySpec => ImplementsDelayLine
  <1>1. PlayInit => Line!Init
    BY DEF PlayInit, Init, UdpInit, Line!Init
  <1>2. LineInv /\ [PlayNext]_vars => LineInv'
    BY LineNext
  <1>3. LineInv /\ [PlayNext]_vars => [Line!Next]_(Line!line_vars)
    BY StepIsLineStep
  <1> QED BY LineInit, <1>1, <1>2, <1>3, PTL DEF PlaySpec, ImplementsDelayLine, Line!Spec

-----------------------------------------------------------------------------
(* Queues.                                                                 *)

\* Everything that comes earlier in s stands in the relation R to what comes later.
Chain(s, R) == \A i, j \in DOMAIN s : i < j => <<s[i], s[j]>> \in R

\* Ranks count from 1 to the number of places, in the order of the places.
LEMMA RankIsOrder ==
    ASSUME NEW N \in Nat, NEW keep \in SUBSET (1 .. N)
    PROVE  /\ IsFiniteSet(keep) /\ Cardinality(keep) \in Nat
           /\ \A i \in keep : Rank(keep, i) \in 1 .. Cardinality(keep)
           /\ \A i, j \in keep : i < j => Rank(keep, i) < Rank(keep, j)
           /\ \A j \in 1 .. Cardinality(keep) : \E i \in keep : Rank(keep, i) = j
  <1>1. IsFiniteSet(keep) /\ Cardinality(keep) \in Nat
    <2>1. IsFiniteSet(1 .. N)
      BY FS_Interval
    <2>2. IsFiniteSet(keep)
      BY <2>1, FS_Subset
    <2> QED BY <2>2, FS_CardinalityType
  <1> DEFINE upto(i) == {m \in keep : m <= i}
  <1>2. \A i \in keep : IsFiniteSet(upto(i)) /\ Cardinality(upto(i)) \in Nat
    <2> TAKE i \in keep
    <2>1. upto(i) \in SUBSET keep
      OBVIOUS
    <2>2. IsFiniteSet(upto(i))
      BY <1>1, <2>1, FS_Subset
    <2> QED BY <2>2, FS_CardinalityType
  <1>3. \A i \in keep : Rank(keep, i) \in 1 .. Cardinality(keep)
    <2> TAKE i \in keep
    <2>1. upto(i) \in SUBSET keep /\ i \in upto(i)
      OBVIOUS
    <2>2. Cardinality(upto(i)) <= Cardinality(keep)
      BY <1>1, <2>1, FS_Subset
    <2>3. Cardinality(upto(i)) # 0
      BY <1>2, <2>1, FS_EmptySet
    <2> QED BY <1>1, <1>2, <2>2, <2>3 DEF Rank
  <1>4. \A i, j \in keep : i < j => Rank(keep, i) < Rank(keep, j)
    <2> SUFFICES ASSUME NEW i \in keep, NEW j \in keep, i < j
                 PROVE  Cardinality(upto(i)) < Cardinality(upto(j))
      BY DEF Rank
    <2>1. \A m \in keep : m \in Int
      OBVIOUS
    <2>2. \A m \in keep : m <= i => m <= j
      BY <2>1
    <2>3. upto(i) \in SUBSET upto(j) /\ j \in upto(j) /\ j \notin upto(i)
      <3>1. j <= j /\ ~(j <= i)
        BY <2>1
      <3> QED BY <2>2, <3>1, Zenon
    <2> HIDE DEF upto
    <2>4. Cardinality(upto(i)) <= Cardinality(upto(j)) /\ Cardinality(upto(j)) # Cardinality(upto(i))
      BY <1>2, <2>3, FS_Subset
    <2> QED BY <1>2, <2>4
  <1>5. \A j \in 1 .. Cardinality(keep) : \E i \in keep : Rank(keep, i) = j
    <2> DEFINE r == [i \in keep |-> Rank(keep, i)]
               T == 1 .. Cardinality(keep)
    <2>1. r \in [keep -> T]
      BY <1>3
    <2>2. \A i, j \in keep : r[i] = r[j] => i = j
      <3> SUFFICES ASSUME NEW i \in keep, NEW j \in keep, i # j PROVE r[i] # r[j]
        OBVIOUS
      <3>1. i < j \/ j < i
        OBVIOUS
      <3>2. Rank(keep, i) \in Nat /\ Rank(keep, j) \in Nat
        BY <1>1, <1>3
      <3> QED BY <1>4, <3>1, <3>2
    <2>3. r \in Injection(keep, T)
      BY <2>1, <2>2 DEF Injection, IsInjective
    <2>4. IsFiniteSet(T) /\ Cardinality(T) = Cardinality(keep)
      BY <1>1, FS_Interval
    <2>5. r \in Surjection(keep, T)
      BY <2>3, <2>4, FS_Injection
    <2> QED BY <2>5 DEF Surjection
  <1> QED BY <1>1, <1>3, <1>4, <1>5

\* What is left of a queue is a part of it, in its order.
LEMMA WithoutIsPart ==
    ASSUME NEW X, NEW s \in Seq(X), NEW drop
    PROVE  /\ Without(s, drop) \in Seq(X)
           /\ Elems(Without(s, drop)) = Elems(s) \ drop
           /\ \A R : Chain(s, R) => Chain(Without(s, drop), R)
  <1> DEFINE keep == Kept(s, drop)
             c == Cardinality(keep)
             nth(j) == CHOOSE i \in keep : Rank(keep, i) = j
             w == Without(s, drop)
  <1>1. keep \in SUBSET (1 .. Len(s)) /\ Len(s) \in Nat /\ DOMAIN s = 1 .. Len(s)
    BY DEF Kept
  <1>2. /\ c \in Nat
        /\ \A i \in keep : Rank(keep, i) \in 1 .. c
        /\ \A i, j \in keep : i < j => Rank(keep, i) < Rank(keep, j)
        /\ \A j \in 1 .. c : \E i \in keep : Rank(keep, i) = j
    BY <1>1, RankIsOrder
  <1>3. \A j \in 1 .. c : nth(j) \in keep /\ Rank(keep, nth(j)) = j
    BY <1>2
  <1>4. w = [j \in 1 .. c |-> s[nth(j)]]
    BY DEF Without
  <1>5. \A i \in keep : i \in DOMAIN s /\ i \in Nat /\ s[i] \in X /\ s[i] \notin drop
    BY <1>1 DEF Kept
  <1> HIDE DEF keep, c, nth, w
  <1>6. w \in Seq(X)
    BY <1>2, <1>3, <1>4, <1>5
  <1>7. DOMAIN w = 1 .. c
    BY <1>4
  <1>8. Elems(w) = Elems(s) \ drop
    <2>1. ASSUME NEW x \in Elems(w) PROVE x \in Elems(s) \ drop
      BY <1>3, <1>4, <1>5, <1>7 DEF Elems
    <2>2. ASSUME NEW x \in Elems(s) \ drop PROVE x \in Elems(w)
      <3>1. PICK i \in keep : x = s[i]
        BY DEF Elems, keep, Kept
      <3>2. Rank(keep, i) \in 1 .. c /\ nth(Rank(keep, i)) \in keep
            /\ Rank(keep, nth(Rank(keep, i))) = Rank(keep, i)
        BY <1>2, <1>3
      <3>3. nth(Rank(keep, i)) = i
        <4> DEFINE m == nth(Rank(keep, i))
        <4>1. m \in Nat /\ i \in Nat
          BY <1>5, <3>2
        <4>2. ~(m < i) /\ ~(i < m)
          BY <1>2, <3>2
        <4> QED BY <4>1, <4>2
      <3> QED BY <1>4, <1>7, <3>1, <3>2, <3>3 DEF Elems
    <2> QED BY <2>1, <2>2
  <1>9. ASSUME NEW R, Chain(s, R) PROVE Chain(w, R)
    <2> SUFFICES ASSUME NEW i \in 1 .. c, NEW j \in 1 .. c, i < j
                 PROVE  <<w[i], w[j]>> \in R
      BY <1>7 DEF Chain
    <2>1. nth(i) \in keep /\ nth(j) \in keep /\ Rank(keep, nth(i)) = i /\ Rank(keep, nth(j)) = j
      BY <1>3
    <2>2. nth(i) \in Nat /\ nth(j) \in Nat
      BY <1>5, <2>1
    <2>3. nth(i) # nth(j) /\ ~(nth(j) < nth(i))
      BY <1>2, <2>1
    <2>4. nth(i) < nth(j)
      BY <2>2, <2>3
    <2> QED BY <1>4, <1>5, <1>9, <2>1, <2>4 DEF Chain
  <1> QED BY <1>6, <1>8, <1>9 DEF w

LEMMA ElemsType == ASSUME NEW X, NEW s \in Seq(X) PROVE Elems(s) \subseteq X
  BY DEF Elems

LEMMA AppendIs ==
    ASSUME NEW X, NEW s \in Seq(X), NEW k \in X
    PROVE  /\ Append(s, k) \in Seq(X)
           /\ Elems(Append(s, k)) = Elems(s) \cup {k}
           /\ \A R : Chain(s, R) /\ (\A x \in Elems(s) : <<x, k>> \in R) => Chain(Append(s, k), R)
  <1>1. /\ Append(s, k) \in Seq(X) /\ DOMAIN Append(s, k) = 1 .. Len(s) + 1
        /\ Append(s, k)[Len(s) + 1] = k
        /\ \A i \in 1 .. Len(s) : Append(s, k)[i] = s[i]
    OBVIOUS
  <1>2. Len(s) \in Nat /\ DOMAIN s = 1 .. Len(s)
    OBVIOUS
  <1> DEFINE t == Append(s, k)
  <1> HIDE DEF t
  <1>3. Elems(t) = Elems(s) \cup {k}
    BY <1>1, <1>2 DEF Elems, t
  <1>4. ASSUME NEW R, Chain(s, R), \A x \in Elems(s) : <<x, k>> \in R
        PROVE  Chain(t, R)
    <2> SUFFICES ASSUME NEW i \in 1 .. Len(s) + 1, NEW j \in 1 .. Len(s) + 1, i < j
                 PROVE  <<t[i], t[j]>> \in R
      BY <1>1 DEF Chain, t
    <2>1. i \in 1 .. Len(s) /\ (j \in 1 .. Len(s) \/ j = Len(s) + 1)
      BY <1>2
    <2> QED BY <1>1, <1>2, <1>4, <2>1 DEF Chain, t, Elems
  <1> QED BY <1>1, <1>3, <1>4 DEF t

LEMMA ConcatIs ==
    ASSUME NEW X, NEW s \in Seq(X), NEW q \in Seq(X)
    PROVE  /\ s \o q \in Seq(X)
           /\ Elems(s \o q) = Elems(s) \cup Elems(q)
           /\ \A R : Chain(s, R) /\ Chain(q, R)
                     /\ (\A x \in Elems(s), y \in Elems(q) : <<x, y>> \in R) => Chain(s \o q, R)
  <1> DEFINE t == s \o q
  <1>1. /\ t \in Seq(X) /\ DOMAIN t = 1 .. Len(s) + Len(q)
        /\ \A i \in 1 .. Len(s) : t[i] = s[i]
        /\ \A i \in 1 .. Len(q) : t[Len(s) + i] = q[i]
    OBVIOUS
  <1>2. Len(s) \in Nat /\ DOMAIN s = 1 .. Len(s) /\ Len(q) \in Nat /\ DOMAIN q = 1 .. Len(q)
    OBVIOUS
  <1> HIDE DEF t
  <1>3. \A i \in DOMAIN t : \/ i \in 1 .. Len(s) /\ t[i] = s[i] /\ s[i] \in Elems(s)
                            \/ /\ i > Len(s) /\ i - Len(s) \in 1 .. Len(q)
                               /\ t[i] = q[i - Len(s)] /\ q[i - Len(s)] \in Elems(q)
    <2> TAKE i \in DOMAIN t
    <2>1. CASE i \in 1 .. Len(s)
      BY <1>1, <1>2, <2>1 DEF Elems
    <2>2. CASE i \notin 1 .. Len(s)
      <3>1. i > Len(s) /\ i - Len(s) \in 1 .. Len(q) /\ Len(s) + (i - Len(s)) = i
        BY <1>1, <1>2, <2>2
      <3> QED BY <1>1, <1>2, <3>1 DEF Elems
    <2> QED BY <2>1, <2>2
  <1>4. Elems(t) = Elems(s) \cup Elems(q)
    <2>1. ASSUME NEW x \in Elems(t) PROVE x \in Elems(s) \cup Elems(q)
      BY <1>3, <2>1 DEF Elems
    <2>2. ASSUME NEW x \in Elems(s) PROVE x \in Elems(t)
      BY <1>1, <1>2 DEF Elems
    <2>3. ASSUME NEW x \in Elems(q) PROVE x \in Elems(t)
      <3>1. PICK i \in 1 .. Len(q) : x = q[i]
        BY <1>2 DEF Elems
      <3>2. Len(s) + i \in DOMAIN t /\ t[Len(s) + i] = x
        BY <1>1, <1>2, <3>1
      <3> QED BY <3>2 DEF Elems
    <2> QED BY <2>1, <2>2, <2>3
  <1>5. ASSUME NEW R, Chain(s, R), Chain(q, R), \A x \in Elems(s), y \in Elems(q) : <<x, y>> \in R
        PROVE  Chain(t, R)
    <2> SUFFICES ASSUME NEW i \in DOMAIN t, NEW j \in DOMAIN t, i < j
                 PROVE  <<t[i], t[j]>> \in R
      BY DEF Chain
    <2>0. i \in Int /\ j \in Int
      BY <1>1
    <2>1. CASE j \in 1 .. Len(s)
      <3>1. i \in 1 .. Len(s) /\ t[i] = s[i] /\ t[j] = s[j]
        BY <1>1, <1>2, <2>0, <2>1
      <3> QED BY <1>2, <1>5, <2>1, <3>1 DEF Chain
    <2>2. CASE i \in 1 .. Len(s) /\ j \notin 1 .. Len(s)
      BY <1>2, <1>3, <1>5, <2>2
    <2>3. CASE i \notin 1 .. Len(s) /\ j \notin 1 .. Len(s)
      <3>1. /\ i - Len(s) \in DOMAIN q /\ t[i] = q[i - Len(s)]
            /\ j - Len(s) \in DOMAIN q /\ t[j] = q[j - Len(s)]
            /\ i - Len(s) < j - Len(s)
        BY <1>2, <1>3, <2>0, <2>3
      <3> QED BY <1>5, <3>1 DEF Chain
    <2> QED BY <2>1, <2>2, <2>3, <2>0, <1>2
  <1> QED BY <1>1, <1>4, <1>5 DEF t

\* A queue without repetitions holds as many packets as it is long.
LEMMA DistinctLength ==
    ASSUME NEW X, NEW s \in Seq(X), \A i, j \in DOMAIN s : i < j => s[i] # s[j]
    PROVE  IsFiniteSet(Elems(s)) /\ Cardinality(Elems(s)) = Len(s)
  <1> DEFINE D == 1 .. Len(s)
  <1>1. IsFiniteSet(D) /\ Cardinality(D) = Len(s) /\ D = DOMAIN s /\ Len(s) \in Nat
    <2>1. D = DOMAIN s /\ Len(s) \in Nat
      OBVIOUS
    <2>2. IsFiniteSet(D) /\ Cardinality(D) = IF 1 > Len(s) THEN 0 ELSE Len(s) - 1 + 1
      BY <2>1, FS_Interval, SMTT(30)
    <2> QED BY <2>1, <2>2
  <1>2. s \in Surjection(D, Elems(s))
    BY <1>1 DEF Surjection, Elems
  <1>3. s \in Injection(D, Elems(s))
    <2>1. \A i, j \in D : i < j \/ j < i \/ i = j
      BY <1>1
    <2>2. \A i, j \in D : s[i] = s[j] => i = j
      BY <1>1, <2>1
    <2> QED BY <1>2, <2>2 DEF Injection, IsInjective, Surjection
  <1> QED BY <1>1, <1>2, <1>3, FS_Surjection

-----------------------------------------------------------------------------
(* Order and accounting.                                                   *)

\* x differs from y, and x came before y
Differs == {p \in Packet \X Packet : p[1] # p[2]}
Older   == {p \in Packet \X Packet : p[1].id < p[2].id}

\* What has left and what waits behind it.
Queued(w, q, R) ==
    Chain(w, R) /\ Chain(q, R) /\ \A x \in Elems(w), y \in Elems(q) : <<x, y>> \in R

OrderInv ==
    /\ oom \in BOOLEAN
    /\ wire \in Seq(Packet) /\ delayed \in Seq(Packet) /\ IsFiniteSet(arrived)
    /\ arrived = Elems(wire) \cup Elems(delayed) \cup taken \cup lost
    /\ (Elems(wire) \cup Elems(delayed)) \cap (taken \cup lost) = {}
    /\ taken \cap lost = {}
    /\ Queued(wire, delayed, Differs)
    /\ ~oom => Queued(wire, delayed, Older)

LEMMA EmptyIs == Elems(<<>>) = {} /\ \A R : Chain(<<>>, R)
  BY DEF Elems, Chain

\* Letting out what waits keeps everything where it is.
LEMMA SendIs ==
    ASSUME NEW X, NEW w \in Seq(X), NEW q \in Seq(X)
    PROVE  /\ send_delayed(w, q) \in Seq(X)
           /\ Elems(send_delayed(w, q)) = Elems(w) \cup Elems(q)
           /\ \A R : Queued(w, q, R) => Chain(send_delayed(w, q), R)
  <1>1. CASE q = <<>>
    BY <1>1, EmptyIs DEF send_delayed, Queued
  <1>2. CASE q # <<>>
    BY <1>2, ConcatIs DEF send_delayed, Queued
  <1> QED BY <1>1, <1>2

\* A packet is played behind w: it follows it, or is consumed.
LEMMA PlayIs ==
    ASSUME NEW w \in Seq(Packet), NEW k \in Packet, k \notin Elems(w), Line!Play(w, k)
    PROVE  /\ wire' \in Seq(Packet)
           /\ \E drop \in SUBSET {k} :
                taken' = taken \cup drop /\ Elems(wire') = (Elems(w) \cup {k}) \ drop
           /\ \A R : Chain(w, R) /\ (\A x \in Elems(w) : <<x, k>> \in R) => Chain(wire', R)
  <1>1. CASE wire' = Append(w, k) /\ taken' = taken
    <2>1. {} \in SUBSET {k} /\ taken' = taken \cup {} /\ Elems(wire') = (Elems(w) \cup {k}) \ {}
      BY <1>1, AppendIs
    <2> QED BY <1>1, <2>1, AppendIs
  <1>2. CASE wire' = w /\ taken' = taken \cup {k}
    <2>1. {k} \in SUBSET {k} /\ taken' = taken \cup {k} /\ Elems(wire') = (Elems(w) \cup {k}) \ {k}
      BY <1>2
    <2> QED BY <1>2, <2>1
  <1> QED BY <1>1, <1>2 DEF Line!Play

\* A queue q is played behind w.
LEMMA PlayQueueIs ==
    ASSUME NEW w \in Seq(Packet), NEW q \in Seq(Packet), Elems(w) \cap Elems(q) = {},
           Line!PlayQueue(w, q)
    PROVE  /\ wire' \in Seq(Packet)
           /\ \E drop \in SUBSET Elems(q) :
                taken' = taken \cup drop /\ Elems(wire') = (Elems(w) \cup Elems(q)) \ drop
           /\ \A R : Queued(w, q, R) => Chain(wire', R)
  <1>1. PICK drop \in SUBSET Elems(q) :
          wire' = w \o Without(q, drop) /\ taken' = taken \cup drop
    BY SameElems, SameWithout DEF Line!PlayQueue
  <1> DEFINE t == Without(q, drop)
  <1>2. t \in Seq(Packet) /\ Elems(t) = Elems(q) \ drop /\ \A R : Chain(q, R) => Chain(t, R)
    BY WithoutIsPart
  <1>3. wire' = w \o t
    BY <1>1
  <1> HIDE DEF t
  <1>4. wire' \in Seq(Packet) /\ Elems(wire') = Elems(w) \cup Elems(t)
    BY <1>2, <1>3, ConcatIs
  <1>5. Elems(wire') = (Elems(w) \cup Elems(q)) \ drop
    BY <1>1, <1>2, <1>4
  <1>6. ASSUME NEW R, Queued(w, q, R) PROVE Chain(wire', R)
    <2>1. /\ Chain(w, R) /\ Chain(t, R)
          /\ \A x \in Elems(w), y \in Elems(t) : <<x, y>> \in R
      BY <1>2, <1>6 DEF Queued
    <2> QED BY <1>2, <1>3, <2>1, ConcatIs
  <1> QED BY <1>1, <1>4, <1>5, <1>6

\* What a step that lets a packet in does to the queues: every packet stays, or is
\* consumed, and all stay in order unless an allocation has failed.
LEMMA EnterIs ==
    ASSUME wire \in Seq(Packet), delayed \in Seq(Packet), NEW k \in Packet,
           Elems(wire) \cap Elems(delayed) = {}, k \notin Elems(wire) \cup Elems(delayed),
           Line!Wait(k) \/ Line!PlayAll(k) \/ Line!PlayLast(k) \/ Line!Overtake(k)
    PROVE  /\ wire' \in Seq(Packet) /\ delayed' \in Seq(Packet) /\ lost' = lost
           /\ \E drop \in SUBSET (Elems(delayed) \cup {k}) :
                /\ taken' = taken \cup drop
                /\ Elems(wire') \cup Elems(delayed')
                     = (Elems(wire) \cup Elems(delayed) \cup {k}) \ drop
           /\ oom' \in {oom, TRUE}
           /\ \A R : /\ Queued(wire, delayed, R)
                     /\ \A x \in Elems(wire) \cup Elems(delayed) :
                          <<x, k>> \in R /\ (oom' = TRUE => <<k, x>> \in R)
                     => Queued(wire', delayed', R)
  <1> DEFINE all == send_delayed(wire, delayed)
  <1>1. /\ all \in Seq(Packet) /\ Elems(all) = Elems(wire) \cup Elems(delayed)
        /\ \A R : Queued(wire, delayed, R) => Chain(all, R)
    BY SendIs
  <1>2. all = Line!LetOut(wire, delayed)
    BY SameSend
  <1> HIDE DEF all
  <1>3. /\ Append(<<>>, k) \in Seq(Packet) /\ Elems(Append(<<>>, k)) = {k}
        /\ \A R : Chain(Append(<<>>, k), R)
    <2>1. <<>> \in Seq(Packet)
      OBVIOUS
    <2>2. /\ Append(<<>>, k) \in Seq(Packet)
          /\ Elems(Append(<<>>, k)) = Elems(<<>>) \cup {k}
          /\ \A R : Chain(<<>>, R) /\ (\A x \in Elems(<<>>) : <<x, k>> \in R)
                    => Chain(Append(<<>>, k), R)
      BY <2>1, AppendIs
    <2>3. {} \cup {k} = {k}
      OBVIOUS
    <2> QED BY <2>2, <2>3, EmptyIs, Zenon
  <1>4. CASE Line!Wait(k)
    <2>1. lost' = lost /\ taken' = taken \cup {} /\ oom' = oom
      BY <1>4 DEF Line!Wait
    <2>2. CASE delayed' = Append(delayed, k) /\ wire' = wire
      <3>1. delayed' \in Seq(Packet) /\ Elems(delayed') = Elems(delayed) \cup {k}
        BY <2>2, AppendIs
      <3>2. ASSUME NEW R, Queued(wire, delayed, R),
                   \A x \in Elems(wire) \cup Elems(delayed) : <<x, k>> \in R
            PROVE  Queued(wire', delayed', R)
        <4>1. Chain(delayed', R)
          BY <2>2, <3>2, AppendIs DEF Queued
        <4> QED BY <2>2, <3>1, <3>2, <4>1 DEF Queued
      <3>3. Elems(wire') \cup Elems(delayed') = (Elems(wire) \cup Elems(delayed) \cup {k}) \ {}
        BY <2>2, <3>1
      <3> QED BY <2>1, <2>2, <3>1, <3>2, <3>3
    <2>3. CASE delayed' = Append(<<>>, k) /\ wire' = all
      <3>1. ASSUME NEW R, Queued(wire, delayed, R),
                   \A x \in Elems(wire) \cup Elems(delayed) : <<x, k>> \in R
            PROVE  Queued(wire', delayed', R)
        BY <1>1, <1>3, <2>3, <3>1 DEF Queued
      <3>2. Elems(wire') \cup Elems(delayed') = (Elems(wire) \cup Elems(delayed) \cup {k}) \ {}
        BY <1>1, <1>3, <2>3
      <3> QED BY <1>1, <1>3, <2>1, <2>3, <3>1, <3>2
    <2> QED BY <1>2, <1>4, <2>2, <2>3 DEF Line!Wait
  <1>5. ASSUME NEW w \in Seq(Packet), NEW q \in Seq(Packet), Elems(w) \cap Elems(q) = {},
               Elems(w) \cup Elems(q) = Elems(wire) \cup Elems(delayed) \cup {k},
               Elems(q) \subseteq Elems(delayed) \cup {k},
               \A R : /\ Queued(wire, delayed, R)
                      /\ \A x \in Elems(wire) \cup Elems(delayed) : <<x, k>> \in R
                      => Queued(w, q, R),
               Line!PlayQueue(w, q), delayed' = <<>>
        PROVE  /\ wire' \in Seq(Packet)
               /\ \E drop \in SUBSET (Elems(delayed) \cup {k}) :
                    /\ taken' = taken \cup drop
                    /\ Elems(wire') \cup Elems(delayed')
                         = (Elems(wire) \cup Elems(delayed) \cup {k}) \ drop
               /\ \A R : /\ Queued(wire, delayed, R)
                         /\ \A x \in Elems(wire) \cup Elems(delayed) : <<x, k>> \in R
                         => Queued(wire', delayed', R)
    <2>1. PICK drop \in SUBSET Elems(q) :
            taken' = taken \cup drop /\ Elems(wire') = (Elems(w) \cup Elems(q)) \ drop
      BY <1>5, PlayQueueIs
    <2>2. Elems(wire') \cup Elems(delayed') = (Elems(wire) \cup Elems(delayed) \cup {k}) \ drop
      BY <1>5, <2>1, EmptyIs
    <2>3. wire' \in Seq(Packet) /\ \A R : Queued(w, q, R) => Chain(wire', R)
      BY <1>5, PlayQueueIs
    <2>4. \A R : Chain(wire', R) => Queued(wire', delayed', R)
      BY <1>5, EmptyIs DEF Queued
    <2>5. drop \in SUBSET (Elems(delayed) \cup {k})
      BY <1>5, <2>1
    <2>6. \A R : /\ Queued(wire, delayed, R)
                 /\ \A x \in Elems(wire) \cup Elems(delayed) : <<x, k>> \in R
                 => Queued(wire', delayed', R)
      BY <1>5, <2>3, <2>4
    <2> QED BY <2>1, <2>2, <2>3, <2>5, <2>6
  <1>6. CASE Line!PlayAll(k)
    <2>1. delayed' = <<>> /\ delayed' \in Seq(Packet) /\ lost' = lost /\ oom' = oom
      BY <1>6 DEF Line!PlayAll
    <2>2. CASE Line!PlayQueue(wire, Append(delayed, k))
      <3> DEFINE q == Append(delayed, k)
      <3>1. q \in Seq(Packet) /\ Elems(q) = Elems(delayed) \cup {k}
        BY AppendIs
      <3>2. ASSUME NEW R, Queued(wire, delayed, R),
                   \A x \in Elems(wire) \cup Elems(delayed) : <<x, k>> \in R
            PROVE  Queued(wire, q, R)
        <4>1. Chain(q, R)
          BY <3>2, AppendIs DEF Queued
        <4> QED BY <3>1, <3>2, <4>1 DEF Queued
      <3>3. Line!PlayQueue(wire, q)
        BY <2>2
      <3> HIDE DEF q
      <3>4. /\ Elems(wire) \cap Elems(q) = {} /\ Elems(q) \subseteq Elems(delayed) \cup {k}
            /\ Elems(wire) \cup Elems(q) = Elems(wire) \cup Elems(delayed) \cup {k}
        BY <3>1
      <3> QED BY <1>5, <2>1, <3>1, <3>2, <3>3, <3>4
    <2>3. CASE Line!PlayQueue(all, Append(<<>>, k))
      <3> DEFINE q == Append(<<>>, k)
      <3>1. q \in Seq(Packet) /\ Elems(q) = {k} /\ \A R : Chain(q, R)
        BY <1>3
      <3>2. Line!PlayQueue(all, q)
        BY <2>3
      <3> HIDE DEF q
      <3>3. ASSUME NEW R, Queued(wire, delayed, R),
                   \A x \in Elems(wire) \cup Elems(delayed) : <<x, k>> \in R
            PROVE  Queued(all, q, R)
        BY <1>1, <3>1, <3>3 DEF Queued
      <3>4. /\ Elems(all) \cap Elems(q) = {} /\ Elems(q) \subseteq Elems(delayed) \cup {k}
            /\ Elems(all) \cup Elems(q) = Elems(wire) \cup Elems(delayed) \cup {k}
        BY <1>1, <3>1
      <3> QED BY <1>1, <1>5, <2>1, <3>1, <3>2, <3>3, <3>4
    <2> QED BY <1>2, <1>6, <2>2, <2>3 DEF Line!PlayAll
  <1>7. CASE Line!PlayLast(k)
    <2>1. /\ delayed' = <<>> /\ delayed' \in Seq(Packet) /\ lost' = lost
          /\ oom' \in {oom, TRUE} /\ Line!Play(all, k)
      <3>1. delayed' = <<>> /\ lost' = lost /\ oom' \in {oom, TRUE}
        BY <1>7 DEF Line!PlayLast
      <3>2. Line!Play(all, k)
        BY <1>2, <1>7 DEF Line!PlayLast
      <3>3. delayed' \in Seq(Packet)
        BY <3>1
      <3> QED BY <3>1, <3>2, <3>3, Zenon
    <2>2. PICK drop \in SUBSET {k} :
            taken' = taken \cup drop /\ Elems(wire') = (Elems(all) \cup {k}) \ drop
      BY <1>1, <2>1, PlayIs, ZenonT(30)
    <2>3. /\ wire' \in Seq(Packet)
          /\ \A R : Chain(all, R) /\ (\A x \in Elems(all) : <<x, k>> \in R) => Chain(wire', R)
      BY <1>1, <2>1, PlayIs
    <2>4. Elems(wire') \cup Elems(delayed') = (Elems(wire) \cup Elems(delayed) \cup {k}) \ drop
      BY <1>1, <2>1, <2>2, EmptyIs
    <2>5. ASSUME NEW R, Queued(wire, delayed, R),
                 \A x \in Elems(wire) \cup Elems(delayed) : <<x, k>> \in R
          PROVE  Queued(wire', delayed', R)
      <3>1. Chain(wire', R)
        BY <1>1, <2>3, <2>5
      <3> QED BY <2>1, <3>1, EmptyIs DEF Queued
    <2> QED BY <2>1, <2>2, <2>3, <2>4, <2>5
  <1>8. CASE Line!Overtake(k)
    <2>1. delayed' = delayed /\ lost' = lost /\ oom' = TRUE /\ Line!Play(wire, k)
      BY <1>8 DEF Line!Overtake
    <2>2. PICK drop \in SUBSET {k} :
            taken' = taken \cup drop /\ Elems(wire') = (Elems(wire) \cup {k}) \ drop
      BY <2>1, PlayIs
    <2>3. /\ wire' \in Seq(Packet)
          /\ \A R : Chain(wire, R) /\ (\A x \in Elems(wire) : <<x, k>> \in R) => Chain(wire', R)
      BY <2>1, PlayIs
    <2>4. Elems(wire') \cup Elems(delayed') = (Elems(wire) \cup Elems(delayed) \cup {k}) \ drop
      BY <2>1, <2>2
    <2>5. ASSUME NEW R, Queued(wire, delayed, R),
                 \A x \in Elems(wire) \cup Elems(delayed) : <<x, k>> \in R /\ <<k, x>> \in R
          PROVE  Queued(wire', delayed', R)
      BY <2>1, <2>2, <2>3, <2>5 DEF Queued
    <2> QED BY <2>1, <2>2, <2>3, <2>4, <2>5
  <1> QED BY <1>4, <1>6, <1>7, <1>8

LEMMA OrderInit == PlayInit => OrderInv
  <1> SUFFICES ASSUME PlayInit PROVE OrderInv
    OBVIOUS
  <1>1. /\ wire = <<>> /\ delayed = <<>> /\ arrived = {} /\ taken = {} /\ lost = {}
        /\ oom = FALSE
    BY DEF PlayInit, Init, UdpInit
  <1>2. Queued(wire, delayed, Differs) /\ Queued(wire, delayed, Older)
    BY <1>1, EmptyIs DEF Queued
  <1>3. IsFiniteSet(arrived)
    BY <1>1, FS_EmptySet
  <1>4. wire \in Seq(Packet) /\ delayed \in Seq(Packet)
    BY <1>1
  <1> QED BY <1>1, <1>2, <1>3, <1>4, EmptyIs DEF OrderInv

\* A packet that comes in is newer than all that came before.
LEMMA NewIsNewer ==
    ASSUME LineInv, [PlayNext]_vars, NEW k \in arrived' \ arrived, NEW x \in arrived
    PROVE  x.id < k.id
  <1>1. ASSUME NEW m \in Packet, m.id = n + 1, arrived' = arrived \cup {m}
        PROVE  x.id < k.id
    BY <1>1 DEF LineInv, PacketsAreNew, Packet
  <1>2. ASSUME NEW m \in Packet,
               ClientData(m) \/ ClientDataNoProfile(m) \/ ClientDataUntracked(m)
        PROVE  x.id < k.id
    BY <1>1, <1>2 DEF ClientData, ClientDataNoProfile, ClientDataUntracked, ClientSends
  <1>3. ASSUME NEW m \in Packet, UdpClientPacket(m) PROVE x.id < k.id
    BY <1>1, <1>3 DEF UdpClientPacket, UdpSends
  <1>4. CASE UNCHANGED vars
    BY <1>4 DEF vars, history
  <1>5. CASE Next
    BY <1>2, <1>5 DEF Next, ClientControl, ServerPacket, ServerPacketUnseen,
         ServerAcks, LostUpstream, NewConnection, PurgeEntry
  <1>6. CASE UdpNext
    BY <1>3, <1>6 DEF UdpNext, UdpServerPacket, PurgeEntry
  <1> QED BY <1>4, <1>5, <1>6 DEF PlayNext

LEMMA OrderNext ==
    ASSUME HelloStart = 0, LineInv, OrderInv, [PlayNext]_vars
    PROVE  OrderInv'
  <1> DEFINE in == Elems(wire) \cup Elems(delayed)
  <1>1. Elems(wire) \cap Elems(delayed) = {} /\ in \subseteq Packet
    BY ElemsType DEF OrderInv, Queued, Differs
  <1>2. ASSUME NEW k \in Packet, Line!Enter(k),
               Line!Wait(k) \/ Line!PlayAll(k) \/ Line!PlayLast(k) \/ Line!Overtake(k)
        PROVE  OrderInv'
    <2>1. k \notin arrived /\ arrived' = arrived \cup {k}
      BY <1>2 DEF Line!Enter
    <2>2. \A x \in in : x \in Packet /\ x # k /\ x.id < k.id
      BY <1>1, <2>1, NewIsNewer DEF OrderInv
    <2>3. k \notin in
      BY <2>2
    <2>4. /\ wire' \in Seq(Packet) /\ delayed' \in Seq(Packet) /\ lost' = lost
          /\ oom' \in {oom, TRUE}
      BY <1>1, <1>2, <2>3, EnterIs DEF OrderInv
    <2>5. PICK drop \in SUBSET (Elems(delayed) \cup {k}) :
            /\ taken' = taken \cup drop
            /\ Elems(wire') \cup Elems(delayed') = (in \cup {k}) \ drop
      BY <1>1, <1>2, <2>3, EnterIs DEF OrderInv
    <2>6. Queued(wire', delayed', Differs)
      <3>1. \A x \in in : <<x, k>> \in Differs /\ <<k, x>> \in Differs
        BY <2>2 DEF Differs
      <3> QED BY <1>1, <1>2, <2>3, <3>1, EnterIs DEF OrderInv
    <2>7. ASSUME ~oom' PROVE Queued(wire', delayed', Older)
      <3>1. \A x \in in : <<x, k>> \in Older
        BY <2>2 DEF Older
      <3>2. ~oom
        BY <2>4, <2>7 DEF OrderInv
      <3> QED BY <1>1, <1>2, <2>3, <2>7, <3>1, <3>2, EnterIs DEF OrderInv
    <2>8. IsFiniteSet(arrived')
      BY <2>1, FS_AddElement, ZenonT(30) DEF OrderInv
    <2>9. k \notin taken /\ k \notin lost /\ arrived = in \cup taken \cup lost
          /\ in \cap (taken \cup lost) = {} /\ taken \cap lost = {}
      BY <2>1 DEF OrderInv
    <2>10. arrived' = Elems(wire)' \cup Elems(delayed)' \cup taken' \cup lost'
      BY <2>1, <2>4, <2>5, <2>9
    <2>11. (Elems(wire)' \cup Elems(delayed)') \cap (taken' \cup lost') = {} /\ taken' \cap lost' = {}
      BY <2>3, <2>4, <2>5, <2>9
    <2>12. oom' \in BOOLEAN
      BY <2>4 DEF OrderInv
    <2> QED BY <2>4, <2>6, <2>7, <2>8, <2>10, <2>11, <2>12 DEF OrderInv, Queued, Chain, Elems
  <1>3. CASE Line!Release
    <2>1. /\ delayed' = <<>> /\ wire' = send_delayed(wire, delayed)
          /\ UNCHANGED <<arrived, taken, lost, oom>>
      BY <1>3, SameSend DEF Line!Release
    <2>2. /\ wire' \in Seq(Packet) /\ Elems(wire') = Elems(wire) \cup Elems(delayed)
          /\ \A R : Queued(wire, delayed, R) => Chain(wire', R)
      BY <2>1, SendIs DEF OrderInv
    <2>3. Elems(delayed') = {} /\ \A R : Chain(delayed', R)
      BY <2>1, EmptyIs
    <2>4. delayed' \in Seq(Packet)
      BY <2>1
    <2> QED BY <2>1, <2>2, <2>3, <2>4 DEF OrderInv, Queued
  <1>4. CASE Line!Destroy
    <2>1. /\ delayed' = <<>> /\ lost' = lost \cup Elems(delayed)
          /\ UNCHANGED <<arrived, wire, taken, oom>>
      BY <1>4, SameElems DEF Line!Destroy
    <2>2. Elems(delayed') = {} /\ \A R : Chain(delayed', R)
      BY <2>1, EmptyIs
    <2>3. delayed' \in Seq(Packet)
      BY <2>1
    <2> QED BY <1>1, <2>1, <2>2, <2>3 DEF OrderInv, Queued
  <1>5. CASE UNCHANGED Line!line_vars
    BY <1>5 DEF Line!line_vars, OrderInv
  <1>6. [Line!Next]_(Line!line_vars)
    BY StepIsLineStep
  <1> QED BY <1>2, <1>3, <1>4, <1>5, <1>6 DEF Line!Next

LEMMA DisjointUnion ==
    ASSUME NEW S, NEW T, IsFiniteSet(S), IsFiniteSet(T), S \cap T = {}
    PROVE  IsFiniteSet(S \cup T) /\ Cardinality(S \cup T) = Cardinality(S) + Cardinality(T)
  <1>1. Cardinality(S) \in Nat /\ Cardinality(T) \in Nat
    BY FS_CardinalityType
  <1>2. Cardinality(S \cap T) = 0
    BY FS_EmptySet
  <1>3. /\ IsFiniteSet(S \cup T)
        /\ Cardinality(S \cup T) = Cardinality(S) + Cardinality(T) - Cardinality(S \cap T)
    BY FS_Union
  <1> QED BY <1>1, <1>2, <1>3

\* Packets leave in the order in which they came, however many were held back
\* and whichever way they were released (replay_queue, reasm_client_cancel, a
\* session that breaks), as long as rawpacket_queue finds memory.
THEOREM OrderIsKept ==
    ASSUME HelloStart = 0
    PROVE  PlaySpec => []DataLeavesInOrder
  <1>1. OrderInv => DataLeavesInOrder
    BY DEF OrderInv, DataLeavesInOrder, Queued, Chain, Older
  <1>2. LineInv /\ OrderInv /\ [PlayNext]_vars => LineInv' /\ OrderInv'
    BY LineNext, OrderNext
  <1> QED BY LineInit, OrderInit, <1>1, <1>2, PTL DEF PlaySpec

\* Every data packet that reached the handlers is in exactly one place: sent,
\* held back, dropped by Lua, or destroyed with its conntrack entry; none is
\* duplicated by the replay.
THEOREM NothingLostOrDoubled ==
    ASSUME HelloStart = 0
    PROVE  PlaySpec => []EveryPacketOnce
  <1>1. OrderInv => EveryPacketOnce
    <2> SUFFICES ASSUME OrderInv PROVE EveryPacketOnce
      OBVIOUS
    <2> DEFINE W == Elems(wire)
               D == Elems(delayed)
    <2>1. /\ IsFiniteSet(W) /\ Cardinality(W) = Len(wire)
          /\ IsFiniteSet(D) /\ Cardinality(D) = Len(delayed)
      <3>1. /\ \A i, j \in DOMAIN wire : i < j => wire[i] # wire[j]
            /\ \A i, j \in DOMAIN delayed : i < j => delayed[i] # delayed[j]
        BY ZenonT(30) DEF OrderInv, Queued, Chain, Differs
      <3> QED BY <3>1, DistinctLength DEF OrderInv
    <2>2. /\ arrived = W \cup D \cup taken \cup lost
          /\ W \cap D = {} /\ (W \cup D) \cap taken = {} /\ (W \cup D \cup taken) \cap lost = {}
      BY DEF OrderInv, Queued, Differs
    <2>3. IsFiniteSet(taken) /\ IsFiniteSet(lost)
      BY <2>2, FS_Subset DEF OrderInv
    <2> HIDE DEF W, D
    <2>4. IsFiniteSet(W \cup D) /\ Cardinality(W \cup D) = Cardinality(W) + Cardinality(D)
      BY <2>1, <2>2, DisjointUnion
    <2>5. /\ IsFiniteSet(W \cup D \cup taken)
          /\ Cardinality(W \cup D \cup taken) = Cardinality(W \cup D) + Cardinality(taken)
      BY <2>2, <2>3, <2>4, DisjointUnion
    <2>6. Cardinality(arrived) = Cardinality(W \cup D \cup taken) + Cardinality(lost)
      BY <2>2, <2>3, <2>5, DisjointUnion
    <2>7. Cardinality(arrived) = Len(wire) + Len(delayed) + Cardinality(taken) + Cardinality(lost)
      BY <2>1, <2>4, <2>5, <2>6
    <2> QED BY <2>2, <2>7 DEF EveryPacketOnce, W, D
  <1>2. LineInv /\ OrderInv /\ [PlayNext]_vars => LineInv' /\ OrderInv'
    BY LineNext, OrderNext
  <1> QED BY LineInit, OrderInit, <1>1, <1>2, PTL DEF PlaySpec

-----------------------------------------------------------------------------
(* The session.                                                            *)

WaitInv == SessionIsWaiting /\ NoLuaDuringAssembly

\* The session is over, and Lua was not given a part of it.
Over == ReasmIsEmpty(reasm') /\ (~early => ~early')

\* The session waits for more: it is not full, and a packet waits with it.
Waits == ~ReasmIsFull(reasm') /\ delayed' # <<>> /\ (~early => ~early')

LEMMA AppendIsNotEmpty == ASSUME NEW X, NEW s \in Seq(X), NEW k \in X PROVE Append(s, k) # <<>>
  <1>1. Len(s) \in Nat /\ Len(Append(s, k)) = Len(s) + 1 /\ Len(<<>>) = 0
    OBVIOUS
  <1>2. Len(Append(s, k)) # Len(<<>>)
    BY <1>1
  <1> QED BY <1>2, Zenon

LEMMA NothingCovered == ~HelloCovered(<<>>)
  <1>1. Covered(<<>>) = {}
    BY EmptyIs DEF Covered
  <1>2. 0 \in 0 .. HelloLen - 1
    BY PacketPlayAssumption
  <1> QED BY <1>1, <1>2 DEF HelloCovered

\* A packet of the client, as long as there is memory, ends the session or waits.
LEMMA ClientDataWaits ==
    ASSUME HelloStart = 0, LineInv, OrderInv, l4 = "tcp", NEW k \in Packet, ClientData(k),
           oom' # TRUE
    PROVE  Over \/ Waits
  <1>1. IsHeader(Session(k)) /\ IsHeader(Started(k))
    BY AfterFeed, StartedHeader DEF LineInv
  <1>2. ASSUME NEW h, Forward(k, Session(k), h), ReasmIsEmpty(Session(k))
        PROVE  Over
    <2>1. CASE ~Applies
      <3>1. reasm' = ReasmClear(Session(k)) /\ early' = early
        BY <1>2, <2>1 DEF Forward
      <3> QED BY <1>1, <3>1, SessionOps DEF Over
    <2>2. CASE Applies
      <3>1. /\ reasm' = Session(k)
            /\ early' = (early \/ (~ReasmIsEmpty(Session(k)) /\ k.p >= HelloStart))
        BY <1>2, <2>2 DEF Forward
      <3> QED BY <1>2, <3>1 DEF Over
    <2> QED BY <2>1, <2>2
  <1>3. ASSUME NEW r, IsHeader(r), Assembled(k, r) PROVE Over \/ Waits
    <2>1. CASE Hold(k, r)
      <3>1. Held(k) \in Seq(Packet)
        BY DEF Held, OrderInv
      <3>2. reasm' = r /\ ~ReasmIsFull(r) /\ delayed' = Append(Held(k), k) /\ early' = early
        BY <2>1 DEF Hold
      <3> QED BY <3>1, <3>2, AppendIsNotEmpty DEF Waits
    <2>2. CASE Replay(k, r)
      <3>1. reasm' = ReasmClear(r) /\ early' = early
        BY <2>2 DEF Replay
      <3> QED BY <1>3, <3>1, SessionOps DEF Over
    <2> QED BY <1>3, <2>1, <2>2 DEF Assembled
  <1>4. CASE StartRefused(k)
    BY <1>2, <1>4 DEF StartRefused, StartReached
  <1>5. CASE Unassembled(k)
    BY <1>2, <1>5 DEF Unassembled
  <1>6. CASE ~IsHello(k) /\ Forward(k, Session(k), FALSE)
    <2>1. ReasmIsEmpty(Session(k))
      BY <1>6, NoXmpp DEF IsHello
    <2> QED BY <1>2, <1>6, <2>1
  <1>7. CASE Assembled(k, IF StartReached(k, pos') /\ StartAllowed(pos')
                          THEN Started(k) ELSE Session(k))
    BY <1>1, <1>3, <1>7
  <1> QED BY <1>4, <1>5, <1>6, <1>7 DEF ClientData

\* What ends a session, or leaves it alone, keeps the invariant.
LEMMA WaitKept ==
    ASSUME WaitInv, LineInv, OrderInv, oom' = oom, l4' = l4, early' = early,
           \/ reasm' = ReasmClear(reasm) /\ delayed' = <<>>
           \/ reasm' = NoReasm /\ delayed' = <<>>
           \/ UNCHANGED <<reasm, delayed>>
    PROVE  WaitInv'
  <1>1. CASE UNCHANGED <<reasm, delayed>>
    BY <1>1 DEF WaitInv, SessionIsWaiting, NoLuaDuringAssembly, ReasmIsEmpty, ReasmIsFull,
                HelloCovered, Covered, Elems
  <1>2. CASE ReasmIsEmpty(reasm') /\ delayed' = <<>>
    <2>1. ~HelloCovered(delayed')
      BY <1>2, NothingCovered
    <2> QED BY <1>2, <2>1 DEF WaitInv, SessionIsWaiting, NoLuaDuringAssembly, ReasmIsFull, ReasmIsEmpty,
            HelloCovered, Covered, Elems
  <1>3. IsHeader(reasm)
    BY DEF LineInv, HeldInv
  <1>4. ReasmIsEmpty(ReasmClear(reasm)) /\ ReasmIsEmpty(NoReasm)
    BY <1>3, SessionOps DEF ReasmIsEmpty, NoReasm
  <1> QED BY <1>1, <1>2, <1>4

LEMMA UdpClientWaits ==
    ASSUME WaitInv, LineInv, OrderInv, l4 = "udp", NEW k \in Packet, UdpClientPacket(k)
    PROVE  WaitInv'
  <1>1. UNCHANGED <<l4, oom, early>>
    BY DEF UdpClientPacket, hosts
  <1>2. PICK d : \/ QuicInitial(k, d) \/ OtherDatagram(k, d)
                 \/ UNCHANGED <<reasm, delayed>>
    BY DEF UdpClientPacket
  <1>3. ASSUME NEW h, CancelAndPlay(k, d, h) PROVE WaitInv'
    BY <1>1, <1>3, WaitKept DEF CancelAndPlay
  <1>4. CASE QuicHold(k, d)
    <2>1. ~HelloCovered(delayed') /\ delayed' = Append(delayed, k)
      BY <1>4 DEF QuicHold
    <2>2. delayed' # <<>>
      BY <2>1, AppendIsNotEmpty DEF OrderInv
    <2> QED BY <1>1, <2>1, <2>2 DEF WaitInv, SessionIsWaiting, NoLuaDuringAssembly, HelloCovered,
                                    Covered, Elems
  <1>5. CASE QuicReplay(k, d)
    BY <1>1, <1>5, WaitKept DEF QuicReplay
  <1>6. CASE UNCHANGED <<reasm, delayed>>
    BY <1>1, <1>6, WaitKept
  <1> QED BY <1>2, <1>3, <1>4, <1>5, <1>6 DEF QuicInitial, OtherDatagram

LEMMA WaitInit == PlayInit => WaitInv
  <1> SUFFICES ASSUME PlayInit PROVE WaitInv
    OBVIOUS
  <1>1. reasm = NoReasm /\ delayed = <<>> /\ early = FALSE
    BY DEF PlayInit, Init, UdpInit
  <1>2. ReasmIsEmpty(reasm)
    BY <1>1 DEF ReasmIsEmpty, NoReasm
  <1> QED BY <1>1, <1>2, NothingCovered DEF WaitInv, SessionIsWaiting, NoLuaDuringAssembly, ReasmIsFull

LEMMA WaitNext ==
    ASSUME HelloStart = 0, LineInv, OrderInv, OrderInv', WaitInv, [PlayNext]_vars
    PROVE  WaitInv'
  <1>1. ASSUME l4 = "tcp", NEW k \in Packet, ClientData(k) PROVE WaitInv'
    <2>1. l4' = "tcp"
      BY <1>1 DEF ClientData, ClientSends
    <2>2. CASE oom' = TRUE
      BY <2>1, <2>2 DEF WaitInv, SessionIsWaiting, NoLuaDuringAssembly
    <2>3. CASE oom' # TRUE
      <3>1. Over \/ Waits
        BY <1>1, <2>3, ClientDataWaits
      <3>2. ~oom'
        BY <2>3 DEF OrderInv
      <3>3. oom' = oom
        BY <1>1, <2>3 DEF ClientData, Assembled, StartRefused, Unassembled, Hold, Replay
      <3>4. ~early
        BY <3>2, <3>3 DEF WaitInv, NoLuaDuringAssembly
      <3> QED BY <2>1, <3>1, <3>4 DEF WaitInv, SessionIsWaiting, NoLuaDuringAssembly, Over, Waits,
                                      ReasmIsFull, ReasmIsEmpty
    <2> QED BY <2>2, <2>3
  <1>2. ASSUME NEW k \in Packet, ClientDataNoProfile(k) PROVE WaitInv'
    BY <1>2, WaitKept DEF ClientDataNoProfile, ClientSends
  <1>3. ASSUME NEW k \in Packet, ClientDataUntracked(k) PROVE WaitInv'
    BY <1>3, WaitKept DEF ClientDataUntracked, ClientSends, ctrack
  <1>4. ASSUME PlayEmpty PROVE \/ reasm' = ReasmClear(reasm) /\ delayed' = <<>>
                               \/ UNCHANGED <<reasm, delayed>>
    BY <1>4 DEF PlayEmpty
  <1>5. ASSUME NEW flag, ClientControl(flag) PROVE WaitInv'
    BY <1>4, <1>5, WaitKept DEF ClientControl, hosts
  <1>6. ASSUME NEW a, NEW w, ServerPacket(a, w) PROVE WaitInv'
    BY <1>4, <1>6, WaitKept DEF ServerPacket, ServerAcks
  <1>7. ASSUME NEW a, NEW w, ServerPacketUnseen(a, w) PROVE WaitInv'
    BY <1>7, WaitKept DEF ServerPacketUnseen, ServerAcks, ctrack
  <1>8. ASSUME NEW len, LostUpstream(len) PROVE WaitInv'
    BY <1>8, WaitKept DEF LostUpstream, ctrack
  <1>9. ASSUME NEW w, NewConnection(w) PROVE WaitInv'
    BY <1>9, WaitKept DEF NewConnection
  <1>10. CASE PurgeEntry
    BY <1>10, WaitKept DEF PurgeEntry, hosts
  <1>11. CASE UNCHANGED vars
    BY <1>11, WaitKept DEF vars, ctrack, hosts, history
  <1>12. ASSUME l4 = "udp", NEW k \in Packet, UdpClientPacket(k) PROVE WaitInv'
    BY <1>12, UdpClientWaits
  <1>13. CASE UdpServerPacket
    BY <1>13, WaitKept DEF UdpServerPacket, hosts
  <1>14. CASE l4 = "tcp" /\ Next
    BY <1>1, <1>2, <1>3, <1>5, <1>6, <1>7, <1>8, <1>9, <1>10, <1>14 DEF Next
  <1>15. CASE l4 = "udp" /\ UdpNext
    BY <1>10, <1>12, <1>13, <1>15 DEF UdpNext
  <1> QED BY <1>11, <1>14, <1>15 DEF PlayNext

\* Between two packets nothing that is held is complete, and an open session has
\* something to wait for: the packet that completes the ClientHello releases it,
\* however it was cut and whatever came between.
THEOREM CompleteIsReleased ==
    ASSUME HelloStart = 0
    PROVE  PlaySpec => []SessionIsWaiting
  <1>1. WaitInv => SessionIsWaiting
    BY DEF WaitInv
  <1>2. /\ LineInv /\ OrderInv /\ WaitInv /\ [PlayNext]_vars
        => LineInv' /\ OrderInv' /\ WaitInv'
    BY LineNext, OrderNext, WaitNext
  <1> QED BY LineInit, OrderInit, WaitInit, <1>1, <1>2, PTL DEF PlaySpec

\* Lua is not given a part of a ClientHello that is being assembled, unless
\* rawpacket_queue has failed.
THEOREM LuaWaitsForAssembly ==
    ASSUME HelloStart = 0
    PROVE  PlaySpec => []NoLuaDuringAssembly
  <1>1. WaitInv => NoLuaDuringAssembly
    BY DEF WaitInv
  <1>2. /\ LineInv /\ OrderInv /\ WaitInv /\ [PlayNext]_vars
        => LineInv' /\ OrderInv' /\ WaitInv'
    BY LineNext, OrderNext, WaitNext
  <1> QED BY LineInit, OrderInit, WaitInit, <1>1, <1>2, PTL DEF PlaySpec

-----------------------------------------------------------------------------
(* The server's window.                                                    *)

SideFields == {"pcounter", "pdcounter", "pbcounter", "seq0", "seq_last", "pos", "uppos",
               "uppos_prev", "winsize_calc", "scale", "rseq_over_2G"}

IsSide(d) == d = [f \in SideFields |-> d[f]]

IsPositions(ps) ==
    /\ ps = [f \in {"state", "client", "server"} |-> ps[f]]
    /\ IsSide(ps.client) /\ IsSide(ps.server)

\* What the flags and the other side's packets leave of the server's window.
SameServer(ps, qs) ==
    /\ IsPositions(qs)
    /\ qs.server.scale = ps.server.scale /\ qs.server.winsize_calc = ps.server.winsize_calc

\* No scale factor of the server is known; its window is known to be w.
Unscaled(ps) == IsPositions(ps) /\ ps.server.scale = 0 /\ ps.server.pcounter \in Nat

WindowKnown(ps, w) ==
    Unscaled(ps) /\ ps.server.pcounter # 0 /\ ps.server.winsize_calc = w

LEMMA CountKeepsWindow ==
    ASSUME NEW ps, IsPositions(ps), NEW rev, NEW pkt,
           NEW qs, qs = CountPacket(ps, rev, pkt)
    PROVE  /\ SameServer(ps, qs) /\ qs.state = ps.state
           /\ qs.server.pcounter = IF Direct(rev) = "server" THEN ps.server.pcounter + 1 ELSE ps.server.pcounter
  <1>1. ASSUME NEW d, IsSide(d)
        PROVE  /\ IsSide(CountSide(d, pkt.len))
               /\ CountSide(d, pkt.len).scale = d.scale
               /\ CountSide(d, pkt.len).winsize_calc = d.winsize_calc
               /\ CountSide(d, pkt.len).pcounter = d.pcounter + 1
    BY <1>1 DEF IsSide, SideFields, CountSide
  <1>2. qs = [ps EXCEPT ![Direct(rev)] = CountSide(ps[Direct(rev)], pkt.len)]
    BY DEF CountPacket
  <1>3. CASE Direct(rev) = "server"
    <2>2. /\ qs.client = ps.client /\ qs.server = CountSide(ps.server, pkt.len)
          /\ qs.state = ps.state /\ qs = [f \in {"state", "client", "server"} |-> qs[f]]
      BY <1>2, <1>3 DEF IsPositions
    <2> QED BY <1>1, <1>3, <2>2 DEF IsPositions, SameServer
  <1>4. CASE Direct(rev) = "client"
    <2>2. /\ qs.server = ps.server /\ qs.client = CountSide(ps.client, pkt.len)
          /\ qs.state = ps.state /\ qs = [f \in {"state", "client", "server"} |-> qs[f]]
      BY <1>2, <1>4 DEF IsPositions
    <2> QED BY <1>1, <1>4, <2>2 DEF IsPositions, SameServer
  <1> QED BY <1>3, <1>4 DEF Direct

LEMMA TrackKeepsWindow ==
    ASSUME NEW ps, IsPositions(ps), NEW rev, NEW pkt, pkt.flag \in Flags,
           NEW qs, qs = TrackState(ps, rev, pkt)
    PROVE  /\ SameServer(ps, qs) /\ qs.server.pcounter = ps.server.pcounter
           /\ pkt.flag \in {"SYN", "SYNACK"} => qs.state = ps.state
  <1> USE DEF IsPositions, SameServer, IsSide, SideFields
  <1>1. CASE pkt.flag = "SYN"
    <2>1. qs = [ps EXCEPT !.client.seq0 = pkt.seq]
      BY <1>1 DEF TrackState
    <2> QED BY <1>1, <2>1
  <1>2. CASE pkt.flag = "SYNACK"
    <2>1. qs = [ps EXCEPT !.client.seq0 = IF @ = 0 THEN SeqSub(pkt.ack, 1) ELSE @,
                          !.server.seq0 = pkt.seq]
      BY <1>2 DEF TrackState
    <2> DEFINE c0 == IF ps.client.seq0 = 0 THEN SeqSub(pkt.ack, 1) ELSE ps.client.seq0
    <2>2. qs = [ps EXCEPT !.client = [@ EXCEPT !.seq0 = c0], !.server = [@ EXCEPT !.seq0 = pkt.seq]]
      BY <2>1
    <2> HIDE DEF c0
    <2> QED BY <1>2, <2>2, ZenonT(30)
  <1>3. CASE pkt.flag = "FIN"
    <2>1. qs = [ps EXCEPT !.state = "FIN"]
      BY <1>3 DEF TrackState
    <2> QED BY <1>3, <2>1
  <1>4. CASE pkt.flag = "ACK"
    <2>1. \/ qs = ps
          \/ qs = [ps EXCEPT !.state = "ESTABLISHED",
                             !.server.seq0 = IF ~rev /\ @ = 0 THEN SeqSub(pkt.ack, 1) ELSE @]
      BY <1>4 DEF TrackState
    <2> DEFINE s0 == IF ~rev /\ ps.server.seq0 = 0 THEN SeqSub(pkt.ack, 1) ELSE ps.server.seq0
    <2>2. \/ qs = ps
          \/ qs = [ps EXCEPT !.state = "ESTABLISHED", !.server = [@ EXCEPT !.seq0 = s0]]
      BY <2>1
    <2> HIDE DEF s0
    <2>3. CASE qs = ps
      BY <1>4, <2>3
    <2>4. CASE qs = [ps EXCEPT !.state = "ESTABLISHED", !.server = [@ EXCEPT !.seq0 = s0]]
      BY <1>4, <2>4, ZenonT(30)
    <2> QED BY <2>2, <2>3, <2>4
  <1> QED BY <1>1, <1>2, <1>3, <1>4 DEF Flags

LEMMA ReverseKeepsWindow ==
    ASSUME NEW d, IsSide(d), NEW pkt, NEW r, r = ApplyReverse(d, pkt)
    PROVE  /\ IsSide(r) /\ r.scale = d.scale
           /\ r.winsize_calc = d.winsize_calc /\ r.pcounter = d.pcounter
  BY DEF IsSide, SideFields, ApplyReverse

LEMMA ApplyKeepsWindow ==
    ASSUME NEW ps, IsPositions(ps), NEW rev, NEW pkt, pkt.scale = NoScale,
           pkt.win \in Nat, NEW qs, qs = ApplyPos(ps, rev, pkt), ps.server.scale = 0
    PROVE  /\ IsPositions(qs) /\ qs.server.scale = 0 /\ qs.state = ps.state
           /\ qs.server.pcounter = ps.server.pcounter
           /\ Direct(rev) = "server" => qs.server.winsize_calc = pkt.win
           /\ Direct(rev) = "client" => qs.server.winsize_calc = ps.server.winsize_calc
  <1>1. IsSide(ps.server) /\ IsSide(ps.client)
    BY DEF IsPositions
  <1>4. Direct(rev) = "server" => Reverse(rev) = "client"
    BY DEF Direct, Reverse
  <1>5. Direct(rev) = "client" => Reverse(rev) = "server"
    BY DEF Direct, Reverse
  <1>2. CASE Direct(rev) = "server"
    <2>1. qs = [ps EXCEPT !.server = ApplyDirect(@, ps.state = "SYN", pkt),
                          !.client = ApplyReverse(@, pkt)]
      BY <1>2, <1>4 DEF ApplyPos
    <2>2. qs.state = ps.state /\ qs = [f \in {"state", "client", "server"} |-> qs[f]]
      BY <2>1 DEF IsPositions
    <2>3. qs.server = ApplyDirect(ps.server, ps.state = "SYN", pkt)
      BY <2>1 DEF IsPositions
    <2>4. qs.client = ApplyReverse(ps.client, pkt)
      BY <2>1 DEF IsPositions
    <2>5. IsSide(qs.client)
      BY <1>1, <2>4, ReverseKeepsWindow
    <2>6. /\ IsSide(qs.server) /\ qs.server.pcounter = ps.server.pcounter
          /\ qs.server.scale = 0 /\ qs.server.winsize_calc = pkt.win
      <3>1. /\ IsSide(qs.server) /\ qs.server.pcounter = ps.server.pcounter
            /\ qs.server.scale = IF ps.state = "SYN" /\ pkt.scale # NoScale
                                 THEN pkt.scale ELSE ps.server.scale
            /\ qs.server.winsize_calc = IF ps.state = "SYN" THEN pkt.win
                                        ELSE pkt.win * 2^ps.server.scale
        BY <1>1, <2>3 DEF IsSide, SideFields, ApplyDirect
      <3>2. ASSUME NEW x \in Nat PROVE x * 2^0 = x
        OBVIOUS
      <3> QED BY <3>1, <3>2
    <2> QED BY <1>2, <2>2, <2>5, <2>6 DEF IsPositions
  <1>3. CASE Direct(rev) = "client"
    <2>1. qs = [ps EXCEPT !.client = ApplyDirect(@, ps.state = "SYN", pkt),
                          !.server = ApplyReverse(@, pkt)]
      BY <1>3, <1>5 DEF ApplyPos
    <2>2. qs.state = ps.state /\ qs = [f \in {"state", "client", "server"} |-> qs[f]]
      BY <2>1 DEF IsPositions
    <2>3. qs.client = ApplyDirect(ps.client, ps.state = "SYN", pkt)
      BY <2>1 DEF IsPositions
    <2>4. qs.server = ApplyReverse(ps.server, pkt)
      BY <2>1 DEF IsPositions
    <2>5. IsSide(qs.client)
      BY <1>1, <2>3 DEF IsSide, SideFields, ApplyDirect
    <2>6. /\ IsSide(qs.server) /\ qs.server.pcounter = ps.server.pcounter
          /\ qs.server.scale = 0 /\ qs.server.winsize_calc = ps.server.winsize_calc
      BY <1>1, <2>4, ReverseKeepsWindow
    <2> QED BY <1>3, <2>2, <2>5, <2>6 DEF IsPositions
  <1> QED BY <1>2, <1>3 DEF Direct

\* A segment without a scale option that does not erase the entry: the window is
\* the one the server announced last.
LEMMA FeedKeepsWindow ==
    ASSUME NEW ps, Unscaled(ps),
           NEW rev, NEW flag \in Flags, NEW seq, NEW ack, NEW len, NEW w \in Nat,
           ps.state # "SYN" => flag \in {"ACK", "FIN"},
           NEW qs, qs = FeedPositions(ps, rev, Segment(flag, seq, ack, len, w))
    PROVE  /\ Unscaled(qs)
           /\ Direct(rev) = "server" => WindowKnown(qs, w)
           /\ Direct(rev) = "client" => \A x : WindowKnown(ps, x) => WindowKnown(qs, x)
           /\ flag \in {"SYN", "SYNACK"} => qs.state = ps.state
  <1>0. IsPositions(ps) /\ ps.server.scale = 0 /\ ps.server.pcounter \in Nat
    BY DEF Unscaled
  <1> DEFINE pkt == Segment(flag, seq, ack, len, w)
             cs == CountPacket(ps, rev, pkt)
             ts == TrackState(cs, rev, pkt)
  <1>1. pkt.proto = "tcp" /\ pkt.flag = flag /\ pkt.win = w /\ pkt.scale = NoScale
    BY DEF Segment
  <1> HIDE DEF pkt
  <1>2. ~NeedsReInit(ps, pkt)
    BY <1>1 DEF NeedsReInit, IsSyn, IsSynAck
  <1>3. qs = ApplyPos(ts, rev, pkt)
    BY <1>1, <1>2 DEF FeedPositions, pkt
  <1>4. /\ SameServer(ps, cs) /\ cs.state = ps.state
        /\ cs.server.pcounter = IF Direct(rev) = "server" THEN ps.server.pcounter + 1 ELSE ps.server.pcounter
    BY <1>0, CountKeepsWindow
  <1> HIDE DEF cs
  <1>5. /\ SameServer(cs, ts) /\ ts.server.pcounter = cs.server.pcounter
        /\ flag \in {"SYN", "SYNACK"} => ts.state = cs.state
    BY <1>1, <1>4, TrackKeepsWindow DEF SameServer
  <1> HIDE DEF ts
  <1>6. IsPositions(ts) /\ ts.server.scale = 0 /\ ts.server.winsize_calc = ps.server.winsize_calc
    BY <1>0, <1>4, <1>5 DEF SameServer
  <1>7. /\ IsPositions(qs) /\ qs.server.scale = 0 /\ qs.state = ts.state
        /\ qs.server.pcounter = ts.server.pcounter
        /\ Direct(rev) = "server" => qs.server.winsize_calc = pkt.win
        /\ Direct(rev) = "client" => qs.server.winsize_calc = ts.server.winsize_calc
    BY <1>1, <1>3, <1>6, ApplyKeepsWindow
  <1> QED BY <1>0, <1>1, <1>4, <1>5, <1>6, <1>7 DEF Unscaled, WindowKnown, Direct

LEMMA InitialWindow == Unscaled(InitPositions) /\ InitPositions.state = "SYN"
  BY DEF InitPositions, EmptyPosition, Unscaled, IsPositions, IsSide, SideFields

\* A handshake that passes the program in both directions, on a new entry or on
\* one that its SYN erases.
LEMMA HandshakeWindow ==
    ASSUME NEW ps, ps = InitPositions \/ ps.state # "SYN", NEW w \in Nat, incoming
    PROVE  WindowKnown(Handshake(ps, w), w)
  <1> DEFINE pkt == Segment("SYN", ISN, 0, 0, 0)
             out == FALSE
             back == TRUE
             syn == FeedPositions(ps, out, pkt)
             qs == FeedPositions(syn, back, Segment("SYNACK", 0, SeqOf(0), 0, w))
  <1>1. Handshake(ps, w) = qs
    BY DEF Handshake
  <1>2. pkt.proto = "tcp" /\ pkt.flag = "SYN" /\ pkt.win = 0 /\ pkt.scale = NoScale
    BY DEF Segment
  <1>3. syn = FeedPositions(ps, out, pkt)
    OBVIOUS
  <1> HIDE DEF syn, qs, back, out
  <1>6. Direct(back) = "server" /\ Direct(out) = "client"
    BY DEF Direct, back, out
  <1>4. Unscaled(syn) /\ syn.state = "SYN"
    <2>1. CASE ps = InitPositions
      BY <1>3, <2>1, InitialWindow, FeedKeepsWindow DEF Flags
    <2>2. CASE ps.state # "SYN"
      <3> HIDE DEF pkt
      <3> DEFINE ts == TrackState(InitPositions, out, pkt)
      <3>1. NeedsReInit(ps, pkt)
        BY <1>2, <2>2 DEF NeedsReInit, IsSyn
      <3>2. syn = ApplyPos(ts, out, pkt)
        BY <1>2, <1>3, <3>1 DEF FeedPositions
      <3>3. /\ SameServer(InitPositions, ts) /\ ts.state = "SYN"
            /\ ts.server.pcounter = InitPositions.server.pcounter
        BY <1>2, InitialWindow, TrackKeepsWindow DEF Flags, Unscaled
      <3> HIDE DEF ts
      <3>4. IsPositions(ts) /\ ts.server.scale = 0 /\ ts.server.pcounter \in Nat
        BY <3>3, InitialWindow DEF SameServer, Unscaled
      <3>5. /\ IsPositions(syn) /\ syn.server.scale = 0 /\ syn.state = ts.state
            /\ syn.server.pcounter = ts.server.pcounter
        BY <1>2, <3>2, <3>4, ApplyKeepsWindow
      <3> QED BY <3>3, <3>4, <3>5 DEF Unscaled
    <2> QED BY <2>1, <2>2
  <1>5. WindowKnown(qs, w)
    <2>1. qs = FeedPositions(syn, back, Segment("SYNACK", 0, SeqOf(0), 0, w)) /\ "SYNACK" \in Flags
      BY DEF qs, Flags
    <2>2. WindowKnown(qs, w)
      BY <1>4, <1>6, <2>1, FeedKeepsWindow
    <2> QED BY <1>3, <2>2
  <1> QED BY <1>1, <1>5

\* Packets of the client leave the server's window alone; packets of the server
\* set it.
LEMMA ClientFeedWindow ==
    ASSUME NEW ps, NEW w, WindowKnown(ps, w), NEW flag \in {"ACK", "FIN"}, NEW seq, NEW len,
           NEW qs, qs = FeedPositions(ps, FALSE, Segment(flag, seq, 1, len, 0))
    PROVE  WindowKnown(qs, w)
  <1> DEFINE out == FALSE
             one == 1
             zero == 0
  <1>1. /\ Direct(out) = "client" /\ zero \in Nat
        /\ qs = FeedPositions(ps, out, Segment(flag, seq, one, len, zero))
    BY DEF Direct
  <1> HIDE DEF out, one, zero
  <1>2. flag \in Flags /\ Unscaled(ps)
    BY DEF Flags, WindowKnown
  <1>3. Direct(out) = "client" => \A x : WindowKnown(ps, x) => WindowKnown(qs, x)
    BY <1>1, <1>2, FeedKeepsWindow, ZenonT(30)
  <1> QED BY <1>1, <1>3

LEMMA ReplyWindow ==
    ASSUME NEW ps, Unscaled(ps), NEW w \in Nat, NEW ack, NEW seq, NEW flag \in Flags,
           ps.state # "SYN" => flag \in {"ACK", "FIN"}, NEW rev, Direct(rev) = "server",
           NEW qs, qs = FeedPositions(ps, rev, Segment(flag, seq, ack, 0, w))
    PROVE  WindowKnown(qs, w)
  BY FeedKeepsWindow

LEMMA ServerFeedWindow ==
    ASSUME NEW ps, Unscaled(ps), NEW w \in Nat, NEW ack, NEW seq, NEW flag \in {"SYNACK", "ACK"},
           flag = "SYNACK" => ps.state = "SYN",
           NEW qs, qs = FeedPositions(ps, TRUE, Segment(flag, seq, ack, 0, w))
    PROVE  WindowKnown(qs, w)
  <1>1. flag \in Flags /\ (ps.state # "SYN" => flag \in {"ACK", "FIN"})
    BY DEF Flags
  <1> DEFINE back == TRUE
  <1>2. Direct(back) = "server" /\ qs = FeedPositions(ps, back, Segment(flag, seq, ack, 0, w))
    BY DEF Direct
  <1> HIDE DEF back
  <1> QED BY <1>1, <1>2, ReplyWindow

\* The window of a server whose packets pass the program is known, and while a
\* session is open it lets the client send all of the ClientHello.
WindowInv ==
    l4 = "tcp" =>
      /\ acked \in Nat /\ win \in Nat
      /\ incoming /\ tracked =>
           /\ WindowKnown(pos, win)
           /\ ~ReasmIsEmpty(reasm) => HelloLen <= acked + win

LEMMA WindowInit == PlayInit => WindowInv
  <1> SUFFICES ASSUME PlayInit, l4 = "tcp" PROVE WindowInv
    BY DEF WindowInv
  <1>1. Init
    BY DEF PlayInit, UdpInit
  <1>2. /\ win \in Nat /\ acked = 0 /\ reasm = NoReasm
        /\ pos = Handshake(InitPositions, win)
    BY <1>1, PacketPlayAssumption DEF Init
  <1>3. incoming => WindowKnown(pos, win)
    BY <1>2, HandshakeWindow
  <1> QED BY <1>2, <1>3 DEF WindowInv, ReasmIsEmpty, NoReasm

\* A session that is open after a packet of the client was open before, or the
\* window was looked at.
LEMMA OpenOrAllowed ==
    ASSUME HeldInv, NEW k, ClientData(k), ~ReasmIsEmpty(reasm')
    PROVE  ~ReasmIsEmpty(reasm) \/ WindowAllows(pos')
  <1>1. IsHeader(Session(k)) /\ IsHeader(Started(k))
    BY AfterFeed, StartedHeader
  <1>2. ASSUME NEW r, NEW h, IsHeader(r), Forward(k, r, h) PROVE reasm' = r
    <2>1. \/ reasm' = r
          \/ reasm' = ReasmClear(r)
      BY <1>2 DEF Forward
    <2> QED BY <1>2, <2>1, SessionOps
  <1>3. ASSUME NEW r, IsHeader(r), Assembled(k, r) PROVE reasm' = r
    <2>1. CASE Hold(k, r)
      BY <2>1 DEF Hold
    <2>2. CASE Replay(k, r)
      <3>1. reasm' = ReasmClear(r)
        BY <2>2 DEF Replay
      <3> QED BY <1>3, <3>1, SessionOps
    <2> QED BY <1>2, <1>3, <2>1, <2>2 DEF Assembled
  <1>4. ~ReasmIsEmpty(Session(k)) => ~ReasmIsEmpty(reasm)
    BY DEF Session
  <1>5. ASSUME NEW h, Forward(k, Session(k), h) PROVE ~ReasmIsEmpty(reasm)
    BY <1>1, <1>2, <1>4, <1>5
  <1>6. CASE Assembled(k, IF StartReached(k, pos') /\ StartAllowed(pos')
                          THEN Started(k) ELSE Session(k))
    <2>1. CASE StartReached(k, pos') /\ StartAllowed(pos')
      BY <2>1 DEF StartAllowed
    <2>2. CASE ~(StartReached(k, pos') /\ StartAllowed(pos'))
      <3>1. Assembled(k, Session(k))
        BY <1>6, <2>2
      <3> QED BY <1>1, <1>3, <1>4, <3>1
    <2> QED BY <2>1, <2>2
  <1>7. CASE StartRefused(k)
    BY <1>5, <1>7 DEF StartRefused
  <1>8. CASE Unassembled(k)
    BY <1>5, <1>8 DEF Unassembled
  <1>9. CASE Forward(k, Session(k), FALSE)
    BY <1>5, <1>9
  <1> QED BY <1>6, <1>7, <1>8, <1>9 DEF ClientData

LEMMA WindowNext ==
    ASSUME HeldInv, WindowInv, [PlayNext]_vars
    PROVE  WindowInv'
  <1>1. l4' = l4 /\ incoming' = incoming
    BY DEF PlayNext, Next, UdpNext, vars, hosts, ClientData, ClientDataNoProfile, ClientDataUntracked,
           ClientSends, ClientControl, ServerPacket, ServerPacketUnseen, ServerAcks, LostUpstream,
           NewConnection, PurgeEntry, UdpClientPacket, UdpServerPacket
  <1> SUFFICES ASSUME l4 = "tcp" PROVE WindowInv'
    BY <1>1 DEF WindowInv
  <1>2. /\ acked \in Nat /\ win \in Nat /\ HelloLen \in Nat
        /\ incoming /\ tracked =>
             /\ WindowKnown(pos, win)
             /\ ~ReasmIsEmpty(reasm) => HelloLen <= acked + win
    BY PacketPlayAssumption DEF WindowInv
  <1>3. ASSUME acked' \in Nat, win' \in Nat,
               incoming /\ tracked' =>
                 /\ WindowKnown(pos', win')
                 /\ ~ReasmIsEmpty(reasm') => HelloLen <= acked' + win'
        PROVE  WindowInv'
    BY <1>1, <1>3 DEF WindowInv, WindowKnown, Unscaled, IsPositions, IsSide, ReasmIsEmpty
  <1>4. ASSUME NEW k \in Packet, ClientData(k) PROVE WindowInv'
    <2>1. /\ UNCHANGED <<acked, win, tracked>>
          /\ pos' = FeedPositions(pos, FALSE, Segment("ACK", SeqOf(k.p), 1, k.len, 0))
      BY <1>4 DEF ClientData, ClientSends, DataPositions
    <2>2. incoming /\ tracked => WindowKnown(pos', win')
      BY <1>2, <2>1, ClientFeedWindow
    <2>3. ASSUME incoming, tracked, ~ReasmIsEmpty(reasm') PROVE HelloLen <= acked' + win'
      <3>1. CASE ~ReasmIsEmpty(reasm)
        BY <1>2, <2>1, <2>3, <3>1
      <3>2. CASE WindowAllows(pos')
        <4>1. pos'.server.pcounter # 0 /\ pos'.server.winsize_calc = win
          BY <2>1, <2>2, <2>3 DEF WindowKnown
        <4>2. win >= HelloLen
          BY <3>2, <4>1 DEF WindowAllows
        <4> QED BY <1>2, <2>1, <4>2
      <3> QED BY <1>4, <2>3, <3>1, <3>2, OpenOrAllowed
    <2> QED BY <1>2, <1>3, <2>1, <2>2, <2>3
  <1>5. ASSUME NEW k \in Packet, ClientDataNoProfile(k) PROVE WindowInv'
    <2>1. /\ UNCHANGED <<acked, win, tracked, reasm>>
          /\ pos' = FeedPositions(pos, FALSE, Segment("ACK", SeqOf(k.p), 1, k.len, 0))
      BY <1>5 DEF ClientDataNoProfile, ClientSends, DataPositions
    <2>2. incoming /\ tracked => WindowKnown(pos', win')
      BY <1>2, <2>1, ClientFeedWindow
    <2> QED BY <1>2, <1>3, <2>1, <2>2
  <1>6. ASSUME UNCHANGED <<acked, win, tracked, reasm, pos>> PROVE WindowInv'
    BY <1>2, <1>3, <1>6
  <1>7. ASSUME NEW k \in Packet, ClientDataUntracked(k) PROVE WindowInv'
    BY <1>6, <1>7 DEF ClientDataUntracked, ClientSends, ctrack
  <1>8. ASSUME PlayEmpty, ~ReasmIsEmpty(reasm') PROVE ~ReasmIsEmpty(reasm)
    <2>1. reasm' = reasm \/ reasm' = ReasmClear(reasm)
      BY <1>8 DEF PlayEmpty
    <2> QED BY <1>8, <2>1, SessionOps DEF HeldInv
  <1>9. ASSUME NEW flag \in {"ACK", "FIN"}, ClientControl(flag) PROVE WindowInv'
    <2>1. /\ UNCHANGED <<acked, win, tracked>> /\ PlayEmpty
          /\ pos' = FeedPositions(pos, FALSE, Segment(flag, SeqOf(nxt), 1, 0, 0))
      BY <1>9 DEF ClientControl, hosts
    <2>2. incoming /\ tracked => WindowKnown(pos', win')
      BY <1>2, <2>1, ClientFeedWindow
    <2> QED BY <1>2, <1>3, <1>8, <2>1, <2>2
  <1>10. ASSUME NEW a \in 0 .. StreamLen, NEW w \in Windows, ServerAcks(a, w)
         PROVE  /\ acked' \in Nat /\ win' \in Nat /\ win' = w /\ w \in Nat
                /\ acked' + win' >= acked + win
    BY <1>2, <1>10, PacketPlayAssumption DEF ServerAcks
  <1>11. ASSUME NEW a \in 0 .. StreamLen, NEW w \in Windows, ServerPacket(a, w) PROVE WindowInv'
    <2> DEFINE flag == IF pos.state = "SYN" THEN "SYNACK" ELSE "ACK"
               seq == IF pos.state = "SYN" THEN 0 ELSE 1
    <2>1. /\ UNCHANGED tracked /\ PlayEmpty /\ ServerAcks(a, w)
          /\ pos' = FeedPositions(pos, TRUE, Segment(flag, seq, SeqOf(a), 0, w))
      BY <1>11 DEF ServerPacket
    <2>2. flag \in {"SYNACK", "ACK"} /\ (flag = "SYNACK" => pos.state = "SYN")
      OBVIOUS
    <2> HIDE DEF flag, seq
    <2>3. ASSUME incoming, tracked PROVE WindowKnown(pos', win')
      <3>1. Unscaled(pos)
        BY <1>2, <2>3 DEF WindowKnown
      <3>2. WindowKnown(pos', w)
        BY <1>10, <2>1, <2>2, <3>1, ServerFeedWindow
      <3> QED BY <1>10, <2>1, <3>2
    <2>4. ASSUME incoming, tracked, ~ReasmIsEmpty(reasm') PROVE HelloLen <= acked' + win'
      BY <1>2, <1>8, <1>10, <2>1, <2>4
    <2> QED BY <1>3, <1>10, <2>1, <2>3, <2>4
  <1>12. ASSUME NEW a \in 0 .. StreamLen, NEW w \in Windows, ServerPacketUnseen(a, w)
         PROVE  WindowInv'
    <2>1. ServerAcks(a, w) /\ ~(tracked /\ incoming) /\ tracked' = tracked
      BY <1>12 DEF ServerPacketUnseen, ctrack
    <2> QED BY <1>3, <1>10, <2>1
  <1>13. ASSUME NEW len, LostUpstream(len) PROVE WindowInv'
    BY <1>6, <1>13 DEF LostUpstream, ctrack
  <1>14. ASSUME NEW w \in Windows, NewConnection(w) PROVE WindowInv'
    <2> DEFINE ps == IF tracked THEN pos ELSE InitPositions
    <2>1. /\ acked' = 0 /\ win' = w /\ w \in Nat /\ reasm' = ReasmClear(reasm)
          /\ pos' = Handshake(ps, w)
      BY <1>14, PacketPlayAssumption DEF NewConnection
    <2>2. ps = InitPositions \/ ps.state # "SYN"
      BY <1>14 DEF NewConnection
    <2> HIDE DEF ps
    <2>3. incoming => WindowKnown(pos', win')
      BY <2>1, <2>2, HandshakeWindow
    <2>4. ReasmIsEmpty(reasm')
      BY <2>1, SessionOps DEF HeldInv
    <2> QED BY <1>3, <2>1, <2>3, <2>4
  <1>15. CASE PurgeEntry
    <2>1. tracked' = FALSE /\ UNCHANGED <<acked, win>>
      BY <1>15 DEF PurgeEntry, hosts
    <2> QED BY <1>2, <1>3, <2>1
  <1>16. CASE UNCHANGED vars
    BY <1>6, <1>16 DEF vars, ctrack, hosts
  <1>17. CASE Next
    BY <1>4, <1>5, <1>7, <1>9, <1>11, <1>12, <1>13, <1>14, <1>15, <1>17 DEF Next
  <1> QED BY <1>16, <1>17 DEF PlayNext

\* The client can always finish what is being held back: reasm_client_start looks
\* at the window before the first packet is queued, and a server that takes back
\* no window leaves room for the rest, so nobody waits for nobody.
THEOREM HeldCanBeFinished ==
    ASSUME HelloStart = 0
    PROVE  PlaySpec => []ClientCanFinish
  <1>1. HeldInv /\ WindowInv => ClientCanFinish
    BY PacketPlayAssumption DEF HeldInv, HeldImpliesSession, WindowInv, ClientCanFinish
  <1>2. HeldInv /\ WindowInv /\ [PlayNext]_vars => HeldInv' /\ WindowInv'
    BY HeldNext, WindowNext
  <1> QED BY HeldInit, WindowInit, <1>1, <1>2, PTL DEF PlaySpec
=============================================================================
