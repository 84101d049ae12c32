------------------------------ MODULE Dissect -------------------------------
(***************************************************************************)
(* Packets taken apart for Lua and put together again: proto_dissect_l3l4  *)
(* and lua_push_dissect make the table that Lua functions get, and         *)
(* lua_reconstruct_dissect makes a packet of the table, for VERDICT_MODIFY *)
(* and for rawsend_dissect.  ipfrag2 of the Lua library cuts a packet in   *)
(* two by giving the same table twice with other lengths and offsets.      *)
(*                                                                         *)
(* A packet is its IP header and its data, a sequence of 4 byte words; a   *)
(* header in the data is a first word with the fields that matter and      *)
(* words that only take room.  The options of a TCP header stand in its    *)
(* first word, [kind, size in bytes].  A checksum is what it was computed  *)
(* of.  Fields that are only copied are one field, f, "nil" when Lua has   *)
(* removed one that is required.  Offsets of fragments are in words.       *)
(***************************************************************************)
EXTENDS Sums, FiniteSets

CONSTANTS
    RECONSTRUCT_MAX_SIZE,   \* the buffer, in words
    V4Options,              \* sizes of IPv4 options, in words
    Chains,                 \* types of the extension headers of IPv6 packets
    TcpOptions,             \* options of TCP headers
    PayloadSizes,           \* sizes of payloads, in words
    FragPositions           \* ipfrag_pos, in words

\* MH, HIP and SHIM6 headers are read as "dst" is
ExtTypes == {"hop", "routing", "dst", "frag", "ah"}
NIL == -1                   \* a number that Lua has removed
FailedPacket == [v |-> 0]

Filler(of, n) == [i \in 1 .. n |-> [k |-> "fill", of |-> of, i |-> i]]
Payload(n) == [i \in 1 .. n |-> [k |-> "payload", i |-> i]]
Up4(n) == (n + 3) \div 4
Least(a, b) == IF a < b THEN a ELSE b
From(s, i) == SubSeq(s, i, Len(s))

-----------------------------------------------------------------------------
(* checksums                                                               *)

\* ip4_fix_checksum
ip4_fix_checksum(p) ==
    [p EXCEPT !.sum = <<p.hl, p.len, p.id, p.off, p.mf, p.p, p.src, p.dst, p.opt>>]

\* tcp_fix_checksum, udp_fix_checksum and icmp_fix_checksum of a transport part t:
\* with the addresses, the length and the protocol, but for ICMP over IPv4
l4_fix_checksum(t, p) ==
    LET zero == [t EXCEPT ![1].sum = <<>>]
        pseudo == IF t[1].k = "icmp" /\ p.v = 4 THEN <<>> ELSE <<p.src, p.dst, Len(t), t[1].k>>
    IN  [t EXCEPT ![1].sum = <<pseudo, zero>>]

-----------------------------------------------------------------------------
(* taking apart                                                            *)

\* The extension headers from position i of the data, the first one of the given
\* type: as long as they fit, and up to the header of a later fragment.
Ended(data, s) ==
    \/ s.at > Len(data) \/ s.later \/ s.type \notin ExtTypes
    \/ s.at + data[s.at].len - 1 > Len(data)
Step(data, s) ==
    LET w == data[s.at]
    IN  [exts |-> Append(s.exts, [type |-> s.type, next |-> w.next, len |-> w.len, off |-> w.off, mf |-> w.mf]),
         at |-> s.at + w.len, type |-> w.next, later |-> s.type = "frag" /\ w.off # 0]
First(nxt) == [exts |-> <<>>, at |-> 1, type |-> nxt, later |-> FALSE]
StepOrEnd(data, s) == IF Ended(data, s) THEN s ELSE Step(data, s)
Walk(data, nxt) ==
    LET after[n \in 0 .. Len(data)] == IF n = 0 THEN First(nxt) ELSE StepOrEnd(data, after[n - 1])
    IN  after[Len(data)]

\* proto_skip_ipv6: the protocol is the first header's unless a transport header
\* was reached; the last fragment header says whether it is a fragment
proto_skip_ipv6(data, nxt) ==
    LET w == Walk(data, nxt)
        end == w.at > Len(data) \/ w.later \/ w.type \in ExtTypes
        frags == {i \in DOMAIN w.exts : w.exts[i].type = "frag"}
        e == w.exts[CHOOSE i \in frags : \A j \in frags : j <= i]
    IN  [proto |-> IF end \/ w.type = "none" THEN nxt ELSE w.type,
         frag |-> frags # {} /\ (e.off # 0 \/ e.mf), exts |-> w.exts, at |-> w.at]
proto_skip_ipv4(p) ==
    [proto |-> p.p, frag |-> p.off # 0 \/ p.mf, exts |-> <<>>, at |-> 1]

\* proto_find_ip6_exthdr: the position of a header in the data, 0 if not there
HeaderAt(data, nxt, wanted) ==
    LET advance(s) == IF s.type = wanted THEN s ELSE StepOrEnd(data, s)
        after[n \in 0 .. Len(data)] == IF n = 0 THEN First(nxt) ELSE advance(after[n - 1])
        last == after[Len(data)]
    IN  IF last.at <= Len(data) /\ ~last.later /\ last.type = wanted THEN last.at ELSE 0
proto_find_ip6_exthdr(data, nxt, plen, wanted) ==
    HeaderAt(SubSeq(data, 1, Least(plen, Len(data))), nxt, wanted)

proto_check_tcp(t) == Len(t) >= 5 /\ t[1].off >= 5 /\ Len(t) >= t[1].off
proto_check_udp(t, no_payload_check) ==
    Len(t) >= 2 /\ (no_payload_check \/ (t[1].ulen >= 2 /\ Len(t) >= t[1].ulen))
proto_check_icmp(t) == Len(t) >= 2

L4Of(proto, t, no_payload_check) ==
    IF \/ proto = "tcp" /\ proto_check_tcp(t)
       \/ proto = "udp" /\ proto_check_udp(t, no_payload_check)
       \/ proto = "icmp" /\ proto_check_icmp(t)
    THEN proto ELSE "none"
L4Len(l4, t) == CASE l4 = "tcp" -> t[1].off [] l4 \in {"udp", "icmp"} -> 2 [] OTHER -> 0

\* lua_pushf_tcphdr_options: up to the end of the list, a broken option or the end
\* of the header
OptSizes(opts) == [i \in DOMAIN opts |-> opts[i].size]
OptBytes(opts) == Total(OptSizes(opts))
ReadOptions(opts, room) ==
    LET left(i) == room - Sums(OptSizes(opts))[i - 1]
        good(i) == left(i) > 0 /\ (opts[i].kind \in {"end", "noop"} \/ opts[i].size \in 2 .. left(i))
        read == {i \in DOMAIN opts : \A j \in 1 .. i : good(j) /\ (j < i => opts[j].kind # "end")}
    IN  SubSeq(opts, 1, Cardinality(read))
lua_push_tcphdr(w) == [w EXCEPT !.opts = ReadOptions(w.opts, 4 * (w.off - 5))]

\* lua_push_dissect.  len is ip_len or ip6_plen, p is ip6_nxt or ip_p.
lua_push_dissect(p, l3, t, l4) ==
    [v |-> p.v, len |-> p.len, id |-> p.id, off |-> p.off, mf |-> p.mf, p |-> p.p,
     src |-> p.src, dst |-> p.dst, opt |-> p.opt, f |-> p.f,
     frag |-> l3.frag, exts |-> l3.exts, l4proto |-> l3.proto, l4 |-> l4,
     h |-> IF l4 = "none" THEN [k |-> "none"] ELSE IF l4 = "tcp" THEN lua_push_tcphdr(t[1]) ELSE t[1],
     payload |-> From(t, L4Len(l4, t) + 1)]

\* proto_dissect_l3l4
Claimed(p) == IF p.v = 4 THEN p.len - p.hl ELSE p.len
Transport(p, l3, t, no_payload_check) ==
    lua_push_dissect(p, l3, t, IF l3.frag THEN "none" ELSE L4Of(l3.proto, t, no_payload_check))
Network(p, data, l3, no_payload_check) == Transport(p, l3, From(data, l3.at), no_payload_check)
dissect(p, no_payload_check) ==
    LET data == SubSeq(p.data, 1, Least(Claimed(p), Len(p.data)))
    IN  IF p.v = 0 \/ (~no_payload_check /\ Claimed(p) > Len(p.data)) THEN FailedPacket
        ELSE Network(p, data, IF p.v = 4 THEN proto_skip_ipv4(p) ELSE proto_skip_ipv6(data, p.p), no_payload_check)

-----------------------------------------------------------------------------
(* putting together                                                        *)

\* lua_reconstruct_extract_options; what desync() gives for VERDICT_MODIFY
NoOptions == [keepsum |-> FALSE, badsum |-> FALSE, preserve |-> FALSE, last |-> "none"]

\* lua_reconstruct_iphdr
IphdrOk(d) == d.f # "nil" /\ d.opt <= 40
lua_reconstruct_iphdr(d) ==
    ip4_fix_checksum([v |-> 4, hl |-> 5 + Up4(d.opt), len |-> IF d.len = NIL THEN 0 ELSE d.len,
                      id |-> d.id, off |-> d.off, mf |-> d.mf, p |-> d.p, src |-> d.src,
                      dst |-> d.dst, opt |-> 4 * Up4(d.opt), f |-> d.f, sum |-> <<>>, data |-> <<>>])

\* mutant: the chain is not closed
NextKept(d, i, proto, preserve) ==
    IF preserve \/ i = Len(d.exts) THEN d.exts[i].next ELSE d.exts[i + 1].type

\* the "next" field of header i
NextOf(d, i, proto, preserve) ==
    IF preserve THEN d.exts[i].next
    ELSE IF i = Len(d.exts) THEN proto ELSE d.exts[i + 1].type

\* lua_reconstruct_ip6exthdr
SumLen(exts) == Total([i \in DOMAIN exts |-> exts[i].len])
Concat(ss) ==
    LET cat[i \in 0 .. Len(ss)] == IF i = 0 THEN <<>> ELSE cat[i - 1] \o ss[i]
    IN  cat[Len(ss)]
ExtOk(e) ==
    /\ e.len >= 2
    /\ IF e.type = "ah" THEN 4 * e.len - 2 < 1024 ELSE 4 * e.len - 2 < 2048 /\ e.len % 2 = 0
ExtWords(e, next) ==
    <<[k |-> "ext", next |-> next, len |-> e.len, off |-> e.off, mf |-> e.mf]>> \o Filler("ext", e.len - 1)
lua_reconstruct_ip6exthdr(d, proto, preserve) ==
    Concat([i \in DOMAIN d.exts |-> ExtWords(d.exts[i], NextOf(d, i, proto, preserve))])

\* lua_reconstruct_ip6hdr
Ip6hdrOk(d) == d.f # "nil" /\ (\A i \in DOMAIN d.exts : ExtOk(d.exts[i]))
lua_reconstruct_ip6hdr(d, proto, preserve) ==
    [v |-> 6, hl |-> 10, len |-> IF d.len = NIL THEN SumLen(d.exts) ELSE d.len,
     id |-> d.id, off |-> 0, mf |-> FALSE,
     p |-> IF preserve THEN d.p ELSE IF d.exts = <<>> THEN proto ELSE d.exts[1].type,
     src |-> d.src, dst |-> d.dst, opt |-> 0, f |-> d.f, sum |-> <<>>,
     data |-> lua_reconstruct_ip6exthdr(d, proto, preserve)]

\* lua_reconstruct_tcphdr_options: no more is written after the end of the list;
\* then padding
UpToEnd(opts) ==
    LET ends == {i \in DOMAIN opts : opts[i].kind = "end"}
    IN  IF ends = {} THEN opts ELSE SubSeq(opts, 1, CHOOSE i \in ends : \A j \in ends : i <= j)
Noop == [kind |-> "noop", size |-> 1]
Padded(opts) == opts \o [i \in 1 .. 4 * Up4(OptBytes(opts)) - OptBytes(opts) |-> Noop]
TcpOptionsOk(opts) == OptBytes(UpToEnd(opts)) <= 40

\* lua_reconstruct_tcphdr, lua_reconstruct_udphdr, lua_reconstruct_icmphdr
L4hdrOk(d) == d.h.f # "nil" /\ (d.l4 = "tcp" => TcpOptionsOk(d.h.opts))
lua_reconstruct_tcphdr(h) ==
    LET opts == Padded(UpToEnd(h.opts))
        off == 5 + OptBytes(opts) \div 4
    IN  <<[h EXCEPT !.opts = opts, !.off = off]>> \o Filler("tcp", off - 1)
lua_reconstruct_l4hdr(d) ==
    CASE d.l4 = "none" -> <<>>
      [] d.l4 = "tcp" -> lua_reconstruct_tcphdr(d.h)
      [] OTHER -> <<d.h>> \o Filler(d.l4, 1)

\* the l4 checksum, and for UDP the length
CorruptSum(t) == [t EXCEPT ![1].sum = <<"bad">>]
WithSum(t, p, o) ==
    IF o.keepsum \/ t = <<>> \/ t[1].k \notin {"tcp", "udp", "icmp"} THEN t
    ELSE LET t1 == IF t[1].k = "udp" THEN [t EXCEPT ![1].ulen = Len(t)] ELSE t
             t2 == l4_fix_checksum(t1, p)
         IN  IF o.badsum THEN CorruptSum(t2) ELSE t2

\* mutant: the offset counts from the IP header
CutFromHeader(data, n, start, off) == SubSeq(data, 1, start) \o SubSeq(data, off + 1, off + n)

\* the memmove: n words at offset off behind the first words stay
Cut(data, n, start, off) == SubSeq(data, 1, start) \o SubSeq(data, start + off + 1, start + off + n)

\* IPv4 with an offset or MF: ip_len and ip_off say which part of the packet is
\* to be sent
CutIp4(p) ==
    LET n == p.len - p.hl
    IN  IF ~(p.off # 0 \/ p.mf)
        THEN ip4_fix_checksum([p EXCEPT !.len = p.hl + Len(p.data)])
        ELSE IF n < 0 \/ n > Len(p.data) \/ p.off + n > Len(p.data) THEN FailedPacket
        ELSE ip4_fix_checksum([p EXCEPT !.data = Cut(p.data, n, 0, p.off)])

\* IPv6 with a fragment header: ip6_plen and the offset in that header do
CutIp6(p) ==
    LET at == proto_find_ip6_exthdr(p.data, p.p, p.len, "frag")
        unfrag == at + 1
        n == p.len - unfrag
    IN  IF at = 0 THEN [p EXCEPT !.len = Len(p.data)]
        ELSE IF n < 0 \/ unfrag + p.data[at].off + n > Len(p.data) THEN FailedPacket
        ELSE [p EXCEPT !.data = Cut(p.data, n, unfrag, p.data[at].off)]

\* lua_ip6_l4proto_from_dissect
L4proto(d, o) == IF o.last # "none" THEN o.last ELSE d.l4

\* lua_reconstruct_dissect: the headers and the payload, then the cut
AfterIp(d, o, p) ==
    [p EXCEPT !.data = @ \o (IF d.frag THEN d.payload
                             ELSE WithSum(lua_reconstruct_l4hdr(d) \o d.payload, p, o))]
CutOrWhole(d, q) ==
    IF q.hl + Len(q.data) > RECONSTRUCT_MAX_SIZE THEN FailedPacket
    ELSE IF d.frag THEN q ELSE IF d.v = 4 THEN CutIp4(q) ELSE CutIp6(q)
reconstruct(d, o) ==
    IF \/ d.v = 0
       \/ ~(IF d.v = 4 THEN IphdrOk(d) ELSE Ip6hdrOk(d))
       \/ ~d.frag /\ d.l4 # "none" /\ ~L4hdrOk(d)
    THEN FailedPacket
    ELSE CutOrWhole(d, AfterIp(d, o, IF d.v = 4 THEN lua_reconstruct_iphdr(d)
                                     ELSE lua_reconstruct_ip6hdr(d, L4proto(d, o), o.preserve \/ d.frag)))
=============================================================================
