------------------------------- MODULE IpFrag -------------------------------
(***************************************************************************)
(* What Lua does with dissected packets: it edits the table and has it put *)
(* together, it puts the headers together by hand with csum_*_fix, or it   *)
(* has the packet cut into two IP fragments (ipfrag2); the packets that    *)
(* are received; and what a receiver makes of those that leave.            *)
(***************************************************************************)
EXTENDS Dissect

\* luacall_csum_tcp_fix, luacall_csum_udp_fix, luacall_csum_icmp_fix
csum_fix(ip, hdr, payload) == SubSeq(l4_fix_checksum(hdr \o payload, ip), 1, Len(hdr))

\* the headers by reconstruct_iphdr or reconstruct_ip6hdr (ip6_last_proto), and
\* reconstruct_tcphdr and the like
ByHand(d) ==
    LET ip == IF d.v = 4 THEN lua_reconstruct_iphdr(d) ELSE lua_reconstruct_ip6hdr(d, d.l4, FALSE)
    IN  [ip EXCEPT !.data = @ \o csum_fix(ip, lua_reconstruct_l4hdr(d), d.payload) \o d.payload]

-----------------------------------------------------------------------------
(* ipfrag2                                                                 *)

l3_extra_len(d, upto) == IF d.v = 4 THEN Up4(d.opt) ELSE SumLen(SubSeq(d.exts, 1, upto))
l4_len(d) == CASE d.l4 = "tcp" -> 5 + Up4(OptBytes(d.h.opts)) [] d.l4 = "none" -> 0 [] OTHER -> 2

\* the fragment header goes behind hopbyhop, routing and the first destopt
frag_idx(exts) ==
    LET first == {i \in DOMAIN exts : exts[i].type = "dst" /\ \A j \in 1 .. i - 1 : exts[j].type # "dst"}
        before == {i \in DOMAIN exts : exts[i].type \in {"hop", "routing"} \/ i \in first}
    IN  IF before = {} THEN 1 ELSE (CHOOSE i \in before : \A j \in before : j <= i) + 1

insert_ip6_exthdr(d, idx, type, len, off, mf) ==
    LET e == [type |-> type, next |-> IF idx = 1 THEN d.p ELSE d.exts[idx - 1].next,
              len |-> len, off |-> off, mf |-> mf]
        exts == IF idx = 1 THEN d.exts ELSE [d.exts EXCEPT ![idx - 1].next = type]
    IN  [d EXCEPT !.exts = SubSeq(exts, 1, idx - 1) \o <<e>> \o From(exts, idx),
                  !.p = IF idx = 1 THEN type ELSE @]

ipfrag2(d, pos) ==
    LET base == IF d.v = 4 THEN 5 ELSE 10
        plen == base + l3_extra_len(d, Len(d.exts)) + l4_len(d) + Len(d.payload)
        idx == frag_idx(d.exts)
        l3 == base + l3_extra_len(d, idx - 1)
        id == IF d.id = 0 THEN 1 ELSE d.id
        part6(off, mf, len) == [insert_ip6_exthdr(d, idx, "frag", 2, off, mf) EXCEPT !.len = len]
    IN  IF pos + l3 >= plen THEN <<>>
        ELSE IF d.v = 4
        THEN << [d EXCEPT !.len = l3 + pos, !.mf = TRUE, !.off = 0, !.id = id],
                [d EXCEPT !.len = plen - pos, !.mf = FALSE, !.off = pos, !.id = id] >>
        ELSE << part6(0, TRUE, l3 - 10 + 2 + pos), part6(pos, FALSE, plen - 10 + 2 - pos) >>

\* rawsend_dissect_ipfrag sends them with ip6_preserve_next
Preserve == [NoOptions EXCEPT !.preserve = TRUE]
Sent(ds) == [i \in DOMAIN ds |-> reconstruct(ds[i], Preserve)]
Fragments(d, pos) == Sent(ipfrag2(d, pos))

-----------------------------------------------------------------------------
(* The packets that are received                                           *)

Tcp(o, n) == <<[k |-> "tcp", off |-> o.off, opts |-> o.opts, f |-> "f", sum |-> <<>>]>>
                \o Filler("tcp", o.off - 1) \o Payload(n)
Udp(n) == <<[k |-> "udp", ulen |-> n + 2, f |-> "f", sum |-> <<>>]>> \o Filler("udp", 1) \o Payload(n)
Icmp(n) == <<[k |-> "icmp", f |-> "f", sum |-> <<>>]>> \o Filler("icmp", 1) \o Payload(n)

Transports ==
    {[proto |-> "tcp", t |-> Tcp(o, n)] : o \in TcpOptions, n \in PayloadSizes} \cup
    {[proto |-> "udp", t |-> Udp(n)] : n \in PayloadSizes} \cup
    {[proto |-> "icmp", t |-> Icmp(n)] : n \in PayloadSizes} \cup
    {[proto |-> "gre", t |-> Payload(n)] : n \in PayloadSizes}

NewIp(v, opt, proto, id, len) ==
    [v |-> v, hl |-> IF v = 4 THEN 5 + opt ELSE 10, len |-> len, id |-> id, off |-> 0, mf |-> FALSE,
     p |-> proto, src |-> "src", dst |-> "dst", opt |-> 4 * opt, f |-> "f", sum |-> <<>>, data |-> <<>>]
Ip4Packet(opt, x, id) ==
    LET p == NewIp(4, opt, x.proto, id, 5 + opt + Len(x.t))
    IN  [ip4_fix_checksum(p) EXCEPT !.data = WithSum(x.t, p, NoOptions)]

\* "ah" is 3 words, a "frag" header that is received is one of a whole packet
HeaderOf(type) == [type |-> type, next |-> "none", off |-> 0, mf |-> FALSE,
                   len |-> IF type = "ah" THEN 3 ELSE 2]
Ip6Packet(chain, x) ==
    LET next(i) == IF i = Len(chain) THEN x.proto ELSE chain[i + 1]
        hdrs == Concat([i \in DOMAIN chain |-> ExtWords(HeaderOf(chain[i]), next(i))])
        p == NewIp(6, 0, IF chain = <<>> THEN x.proto ELSE chain[1], 0, Len(hdrs) + Len(x.t))
    IN  [p EXCEPT !.data = hdrs \o WithSum(x.t, p, NoOptions)]

Whole ==
    {Ip4Packet(opt, x, id) : opt \in V4Options, x \in Transports, id \in {0, 7}} \cup
    {Ip6Packet(chain, x) : chain \in Chains, x \in Transports}

\* fragments as another host makes them
Part4(p, off, n) ==
    ip4_fix_checksum([p EXCEPT !.len = p.hl + n, !.off = off, !.mf = off + n < Len(p.data),
                               !.data = SubSeq(p.data, off + 1, off + n)])
Parts ==
    {Part4(p, x[1], x[2]) : p \in {q \in Whole : q.v = 4 /\ Len(q.data) > 4}, x \in {<<0, 2>>, <<2, 2>>}} \cup
    {[Ip6Packet(<<"hop">>, [proto |-> "frag", t |-> ExtWords([HeaderOf("frag") EXCEPT !.off = x[1], !.mf = TRUE], "udp")
                                                   \o SubSeq(Udp(4), x[1] + 1, x[1] + 2)])
        EXCEPT !.len = 6] : x \in {<<0, 2>>, <<2, 2>>}}

\* nothing in it is read otherwise than it will be written
Plain(p, d) ==
    /\ d.l4 = "tcp" => LET os == d.h.opts
                       IN  /\ OptBytes(os) = 4 * (Len(p.data) - SumLen(d.exts) - Len(d.payload) - 5)
                           /\ \A i \in DOMAIN os : os[i].kind # "end"
    /\ d.v = 6 => d.l4 # "none" \/ d.frag

-----------------------------------------------------------------------------
(* What a receiver makes of a packet                                       *)

Sound(q) ==
    LET r == dissect(q, FALSE)
        t == From(q.data, Len(q.data) - Len(r.payload) - L4Len(r.l4, From(q.data, 1 + SumLen(r.exts))) + 1)
    IN  /\ Claimed(q) = Len(q.data)
        /\ q.v = 4 => q.sum = ip4_fix_checksum(q).sum
        /\ r.l4 # "none" => t = l4_fix_checksum(t, q)
        /\ r.l4 = "udp" => t[1].ulen = Len(t)

Types(exts) == [i \in DOMAIN exts |-> <<exts[i].type, exts[i].len>>]
SameOptions(os, es) ==
    LET want == UpToEnd(es)
    IN  /\ Len(want) <= Len(os) /\ SubSeq(os, 1, Len(want)) = want
        /\ \A i \in Len(want) + 1 .. Len(os) : os[i] = Noop
ReadsAs(q, e) ==
    LET r == dissect(q, FALSE)
    IN  /\ r.l4 = e.l4 /\ r.payload = e.payload /\ r.frag = e.frag
        /\ Types(r.exts) = Types(e.exts)
        /\ e.l4 = "tcp" => SameOptions(r.h.opts, e.h.opts)

\* edits of the table: another payload, one more option, a header inserted without
\* a look at the chain, a length removed
Mss == [kind |-> "mss", size |-> 4]
Edits(d) ==
    {d} \cup {[d EXCEPT !.payload = Payload(n)] : n \in PayloadSizes} \cup
    {[d EXCEPT !.len = NIL]} \cup
    (IF d.l4 = "tcp" THEN {[d EXCEPT !.h.opts = <<Mss>> \o @], [d EXCEPT !.h.opts = Append(@, Mss)]} ELSE {}) \cup
    (IF d.v = 6 THEN {[d EXCEPT !.exts = SubSeq(@, 1, i) \o <<HeaderOf("dst")>> \o From(@, i + 1)] : i \in 0 .. Len(d.exts)}
     ELSE {})
Broken(d) == {[d EXCEPT !.f = "nil"]} \cup (IF d.l4 # "none" THEN {[d EXCEPT !.h.f = "nil"]} ELSE {})
HasFragHeader(d) == \E i \in DOMAIN d.exts : d.exts[i].type = "frag"

\* both fragments put together as RFC 791 and RFC 8200 say
Unfragmented(q, at) ==
    LET nxt == q.data[at].next
        head == [i \in 1 .. at - 1 |-> IF q.data[i].k = "ext" /\ q.data[i].next = "frag"
                                       THEN [q.data[i] EXCEPT !.next = nxt] ELSE q.data[i]]
    IN  [p |-> IF at = 1 THEN nxt ELSE q.p, head |-> head]
Together(q1, q2, whole) ==
    IF whole.v = 4
    THEN /\ q1.mf /\ ~q2.mf /\ q1.off = 0 /\ q2.off = Len(q1.data) /\ q1.id = q2.id /\ q1.id # 0
         /\ q1.data \o q2.data = whole.data
    ELSE LET at1 == proto_find_ip6_exthdr(q1.data, q1.p, q1.len, "frag")
             at2 == proto_find_ip6_exthdr(q2.data, q2.p, q2.len, "frag")
             u == Unfragmented(q1, at1)
             b1 == From(q1.data, at1 + 2)
         IN  /\ at1 # 0 /\ at1 = at2 /\ q1.p = q2.p
             /\ SubSeq(q1.data, 1, at1 - 1) = SubSeq(q2.data, 1, at2 - 1)
             /\ q1.data[at1].mf /\ q1.data[at1].off = 0
             /\ ~q2.data[at2].mf /\ q2.data[at2].off = Len(b1)
             /\ u.p = whole.p /\ u.head \o b1 \o From(q2.data, at2 + 2) = whole.data

=============================================================================
