------------------------------- MODULE Desync -------------------------------
(***************************************************************************)
(* From the command line to the Lua functions: nfqws2 takes its options    *)
(* (Config), then handles packets.  For each it finds the profile, keeps   *)
(* it in the conntrack entry, searches again when the protocol or the      *)
(* hostname is discovered, and calls the instances of the profile whose    *)
(* ranges and payloads fit; cutoffs save the calls that cannot be needed.  *)
(*                                                                         *)
(* One TCP flow to Target is followed, with packets that no entry is kept  *)
(* for, DNS answers, ICMP and other IP packets around it.  How a           *)
(* ClientHello is put together, and what may go wrong with it, is in       *)
(* PacketPlay: here its two parts come in order.  Lua is external: a call  *)
(* does one of LuaReturns.                                                 *)
(***************************************************************************)
EXTENDS Config, IpCache, Queues

CONSTANTS
    Addrs, Target,      \* addresses; the one of the flow's server
    Ifaces,             \* interfaces the server's packets come by
    Hosts,              \* [name, is_ip] that packets and DNS answers carry
    LuaReturns,         \* what a call of a Lua function may do
    MaxPackets,         \* bound on packets of the flow
    MaxOthers,          \* bound on other packets
    MaxTime             \* bound on the clock, in seconds

\* an incoming packet has the name of its interface
ASSUME DesyncAssumption == NoIface \notin Ifaces /\ Target \in Addrs

VARIABLES
    ct,                 \* the conntrack entry
    held,               \* ctrack->delayed: the counters of the packets held
    replaying,          \* what replay_queue has not yet sent
    hello,              \* the hostname of the ClientHello under assembly
    ipcache,            \* params.ipcache
    purge_prev,         \* ipcache_purge_prev
    now,                \* boottime()
    count,              \* packets of the flow so far
    others,             \* other packets so far
    puts,               \* history: the last name put for an address, and when
    last                \* history: of the last packet

flowVars == <<ct, held, replaying, hello>>
vars == <<cfgVars, flowVars, ipcache, purge_prev, now, count, others, puts, last>>

-----------------------------------------------------------------------------
Sides == {"client", "server"}
Dirs == {"in", "out"}
None(S) == [x \in S |-> FALSE]

\* ConntrackInitTrack.  script and cached are history: directions cut off by
\* lua_cutoff, an IP as hostname from the cache.
NewTrack ==
    [live |-> TRUE, st |-> "syn", dp |-> 0, l7 |-> "unknown", l7disc |-> FALSE,
     host |-> NoHost, is_ip |-> FALSE, hostdisc |-> FALSE, chk |-> "none",
     cutoff |-> None(Dirs), icut |-> {}, n |-> [s \in Sides |-> 0],
     d |-> [s \in Sides |-> 0], ttl |-> 0, idle |-> FALSE,
     script |-> None(Dirs), cached |-> FALSE]
NoEntry == [NewTrack EXCEPT !.live = FALSE]

\* ConntrackFeedPacket, as far as the counters and the state go
Feed(c, p) ==
    LET counted == [c EXCEPT !.n[p.side] = @ + 1, !.d[p.side] = @ + (IF p.pl = "empty" THEN 0 ELSE 1)]
    IN  IF p.flag = "SYN" /\ c.st # "syn" THEN NewTrack
        ELSE IF p.flag \in {"SYN", "SYNACK"} THEN counted
        ELSE [counted EXCEPT !.st = "est", !.idle = FALSE]

\* ConntrackPoolFeed: which packets have an entry after it
Tracked(p) == ~glob.ctrack_disable /\ (ct.live \/ p.flag \in {"SYN", "SYNACK"})
Fed(p) == Feed(IF ct.live THEN ct ELSE NewTrack, p)

PosOf(c, side) == [tracked |-> TRUE, n |-> c.n[side], d |-> c.d[side], over |-> FALSE]
\* a packet that is held, with its counters
Queued(c) == [tracked |-> TRUE, n |-> c.n["client"], d |-> c.d["client"], over |-> FALSE, late |-> FALSE]

\* bReverseFixed
Dir(side) == IF (side = "server") # glob.server THEN "in" ELSE "out"

Query(host, is_ip, l7) ==
    [l3 |-> "ip4", l4 |-> "tcp", addrs |-> {Target}, port |-> 443, type |-> 255, code |-> 255,
     host |-> host, nosub |-> is_ip, l7 |-> l7]
Find(host, is_ip, l7) == dp_find(lists, profiles, Query(host, is_ip, l7))

\* protocol_probe: the protocol of a payload is the flow's if that is not known
ProtoOf == [http_req |-> "http",
            tls_client_hello |-> "tls", tls_server_hello |-> "tls"]
Probe(l7, pl) == IF l7 = "unknown" /\ pl \in DOMAIN ProtoOf THEN ProtoOf[pl] ELSE l7

-----------------------------------------------------------------------------
(* desync()                                                                *)

\* a packet without an entry has c.live = FALSE and the position NoPos
Ranges(k, d, dir) == LET f == profiles[d].lua[k]
                     IN  IF dir = "in" THEN f.in_range ELSE f.out_range
\* lua_instance_cutoff_check
InstanceCut(c, k, d, dir) == c.live /\ <<profiles[d].n, k, dir>> \in c.icut
AllCut(c, d, dir, pos) ==
    \A k \in DOMAIN profiles[d].lua :
       InstanceCut(c, k, d, dir) \/ check_pos_cutoff(pos, Ranges(k, d, dir))
Unwanted(d, pl) == \A k \in DOMAIN profiles[d].lua : ~l7_match(pl, profiles[d].lua[k].payload)
Wanted(c, d, dir, pos, pl) ==
    Without([k \in DOMAIN profiles[d].lua |-> k],
       {k \in DOMAIN profiles[d].lua :
          \/ InstanceCut(c, k, d, dir)
          \/ ~check_pos_range(pos, Ranges(k, d, dir))
          \/ ~l7_match(pl, profiles[d].lua[k].payload)})

\* the instances to be called, in order
Plan(c, d, dir, pos, pl) ==
    IF (c.live /\ c.cutoff[dir]) \/ AllCut(c, d, dir, pos) \/ Unwanted(d, pl)
    THEN <<>> ELSE Wanted(c, d, dir, pos, pl)

\* a call that fails or cancels the plan is the last
Called(plan, rs) ==
    LET stop == {i \in DOMAIN plan : rs[plan[i]].stop}
    IN  IF stop = {} THEN plan
        ELSE SubSeq(plan, 1, CHOOSE i \in stop : \A j \in stop : i <= j)

\* the entry after the calls: instance_cutoff, lua_cutoff, and the flag that
\* all instances are cut off
AfterCalls(c, d, dir, pos, called, rs) ==
    LET script(x) == \E k \in ToSet(called) : x \in rs[k].cutoff
        all == profiles[d].lua # <<>> /\ ~c.cutoff[dir] /\ AllCut(c, d, dir, pos)
    IN  IF ~c.live THEN c
        ELSE [c EXCEPT
               !.icut = @ \cup UNION {{<<profiles[d].n, k, x>> : x \in rs[k].icut} : k \in ToSet(called)},
               !.cutoff = [x \in Dirs |-> @[x] \/ script(x) \/ (x = dir /\ all)],
               !.script = [x \in Dirs |-> @[x] \/ script(x)]]

-----------------------------------------------------------------------------
(* play_prolog and dp_rediscovery                                          *)

purged == IF purge_prev = now THEN ipcache ELSE ipcache_purge(ipcache, glob.ipcache_lifetime, now)

\* what was taken from the cache was put last and is not out of date
IsFresh(item, a) ==
    item.host # NoHost =>
       /\ item.host = puts[a].host
       /\ glob.ipcache_lifetime # 0 => now < puts[a].t + glob.ipcache_lifetime

\* The profile of a flow: kept in the entry or searched, then with the name that
\* the cache has for the target.  Whether that name is an IP is not kept.
Cached(c, p) == c.dp = 0 /\ c.host = NoHost /\ p.side = "client"
FirstSearch(c, p) ==
    LET item == ipcache_get_hostname(purged, glob.ipcache_hostname, Target)
    IN  IF c.dp # 0 THEN c
        ELSE IF Cached(c, p)
        THEN [c EXCEPT !.host = item.host, !.dp = Find(item.host, item.is_ip, c.l7),
                       !.cached = item.is_ip]
        ELSE [c EXCEPT !.dp = Find(c.host, c.is_ip, c.l7)]

\* the TTL of incoming packets is kept in the cache, for outgoing ones fetched
WithTtl(c, p) ==
    IF Dir(p.side) = "in" THEN [c EXCEPT !.ttl = IF @ = 0 THEN p.ttl ELSE @]
    ELSE IF glob.server THEN c
    ELSE [c EXCEPT !.ttl = ipcache_get_ttl(purged, Target, p.iface, @)]
CacheTtl(c, p) ==
    IF Dir(p.side) = "in" /\ ~glob.server
    THEN ipcache_update_ttl(purged, Target, p.iface, c.ttl, now) ELSE purged

play_prolog(c, p) == WithTtl(FirstSearch(c, p), p)

\* mutant: the cutoffs survive a change of the profile
dp_keeps_cutoffs(c) == [c EXCEPT !.script = None(Dirs)]

\* dp_changed
dp_changed(c) == [c EXCEPT !.script = None(Dirs), !.cutoff = None(Dirs)]

\* the hostname of the packet is the flow's from now on
Discovered(c, h) ==
    [c EXCEPT !.host = h.name, !.is_ip = h.is_ip, !.cached = FALSE, !.hostdisc = TRUE]

\* mutant: a hostname alone is no reason to search again
SearchOnL7(newl7, newhost) == newl7

\* bDiscoveredL7 || bDiscoveredHostname
SearchAgain(newl7, newhost) == newl7 \/ newhost

\* the profile for what is known now
Researched(c, q) ==
    LET found == dp_find(lists, profiles, q)
    IN  [(IF found # c.dp THEN dp_changed(c) ELSE c) EXCEPT
            !.dp = found, !.chk = IF check_done(lists, profiles[found], q) THEN "pos" ELSE "none"]

\* the check of the hostlists of the profile, once
HostChecked(c, h) ==
    IF h.name # NoHost /\ ~PROFILE_HOSTLISTS_EMPTY(lists, profiles[c.dp]) /\ c.chk = "none"
    THEN [c EXCEPT !.chk = IF HostlistCheck(lists, profiles[c.dp], h.name, h.is_ip) THEN "pos" ELSE "neg"]
    ELSE c

\* dp_rediscovery with an entry: h is the hostname in the packet
dp_rediscovery(c, h) ==
    LET newl7 == ~c.l7disc /\ c.l7 # "unknown"
        newhost == h.name # NoHost /\ ~c.hostdisc
        c1 == [(IF newhost THEN Discovered(c, h) ELSE c) EXCEPT !.l7disc = @ \/ newl7]
    IN  HostChecked(IF SearchAgain(newl7, newhost) THEN Researched(c1, Query(c1.host, c1.is_ip, c1.l7)) ELSE c1, h)

\* ipcache_put_hostname of a discovered hostname
CacheHost(cache, c, h) ==
    IF h.name # NoHost /\ ~c.hostdisc
    THEN ipcache_put_hostname(cache, glob.ipcache_hostname, Target, h.name, h.is_ip, now)
    ELSE cache
PutHost(c, h) ==
    IF h.name # NoHost /\ ~c.hostdisc THEN [puts EXCEPT ![Target] = [host |-> h.name, t |-> now]]
    ELSE puts

-----------------------------------------------------------------------------
(* The packets                                                             *)

NoHostname == [name |-> NoHost, is_ip |-> FALSE]
Pkt(side, flag, pl, h, i) ==
    [side |-> side, flag |-> flag, pl |-> pl, h |-> h, iface |-> i, ttl |-> 64]

FlowPackets ==
    {Pkt("client", "SYN", "empty", NoHostname, i) : i \in Ifaces} \cup
    {Pkt("server", "SYNACK", "empty", NoHostname, i) : i \in Ifaces} \cup
    {Pkt("client", "ACK", pl, NoHostname, i) : pl \in {"empty", "unknown"}, i \in Ifaces} \cup
    {Pkt("client", "ACK", pl, h, i) : pl \in {"http_req", "tls_client_hello"}, h \in Hosts, i \in Ifaces} \cup
    {Pkt("server", "ACK", pl, NoHostname, i) : pl \in {"empty", "tls_server_hello"}, i \in Ifaces}

Ready == phase = "run" /\ replaying = <<>>
Arrives == Ready /\ count < MaxPackets
Counted ==
    /\ count' = count + 1
    /\ purge_prev' = now
    /\ UNCHANGED <<cfgVars, now, others>>
OtherArrives == Ready /\ others < MaxOthers
OtherCounted ==
    /\ others' = others + 1
    /\ purge_prev' = now
    /\ UNCHANGED <<cfgVars, now, count>>

\* desync() with profile d for a packet of the entry c: the calls and what they
\* leave behind.  What becomes of the packet is the matter of PacketPlay.
RunDesync(c, d, dir, pos, pl, late, fresh) ==
    LET plan == Plan(c, d, dir, pos, pl)
        due == IF c.live /\ c.script[dir] THEN <<>> ELSE Wanted(c, d, dir, pos, pl)
    IN  \E rs \in [ToSet(plan) -> LuaReturns] :
           /\ ct' = IF c.live THEN AfterCalls(c, d, dir, pos, Called(plan, rs), rs) ELSE ct
           /\ last' = [missed |-> due # plan /\ ~late, fresh |-> fresh]

\* a later packet has set the cutoff that covers the packets that are held: there
\* was none, or it was one of another profile
Overtaken(q) ==
    LET late == ct'.cutoff[Dir("client")] /\ (ct.cutoff[Dir("client")] => ct'.dp # ct.dp)
    IN  [i \in DOMAIN q |-> [q[i] EXCEPT !.late = @ \/ late]]

\* What the name in a packet changes: the entry was c before dp_rediscovery and is
\* now d.  After a negative hostlist check the packet passes.
Rediscovered(c, d, h, dir, pos, pl, late, fresh) ==
    /\ IF d.chk = "neg" THEN ct' = d /\ last' = [missed |-> FALSE, fresh |-> fresh]
       ELSE RunDesync(d, d.dp, dir, pos, pl, late, fresh)
    /\ puts' = PutHost(c, h)

\* dpi_desync_tcp_packet_play for a packet with an entry, c after play_prolog.  If
\* the packet passes, what is held is sent.
PlayTcp(p, c, fresh) ==
    LET c2 == [c EXCEPT !.l7 = Probe(@, p.pl)]
        c3 == dp_rediscovery(c2, p.h)
    IN  /\ Rediscovered(c2, c3, p.h, Dir(p.side), PosOf(c, p.side), p.pl, FALSE, fresh)
        /\ held' = IF c3.chk = "neg" \/ (p.flag = "SYN" /\ ct.st # "syn") THEN <<>> ELSE Overtaken(held)
        /\ ipcache' = CacheHost(CacheTtl(c, p), c2, p.h)
FlowPacket(p) ==
    /\ Arrives /\ Tracked(p)
    /\ p.side = "client" /\ p.pl # "empty" => held = <<>>
    /\ PlayTcp(p, play_prolog(Fed(p), p),
               Cached(Fed(p), p) => IsFresh(ipcache_get_hostname(purged, glob.ipcache_hostname, Target), Target))
    /\ Counted /\ UNCHANGED <<replaying, hello>>

\* the first part of a ClientHello is held, nothing is searched yet
HelloPart(h, i) ==
    LET p == Pkt("client", "ACK", "tls_client_hello", h, i)
        c == play_prolog(Fed(p), p)
    IN  /\ Arrives /\ Tracked(p) /\ ct.live /\ held = <<>> /\ ct.l7 \in {"unknown", "tls"}
        /\ ct' = [c EXCEPT !.l7 = Probe(@, p.pl)]
        /\ held' = <<Queued(c)>>
        /\ hello' = h
        /\ ipcache' = CacheTtl(c, p)
        /\ last' = [missed |-> FALSE, fresh |-> TRUE]
        /\ Counted /\ UNCHANGED <<replaying, puts>>

\* the rest of it: replay_queue begins
HelloRest(i) ==
    LET p == Pkt("client", "ACK", "tls_client_hello", hello, i)
        c == play_prolog(Fed(p), p)
    IN  /\ Arrives /\ Tracked(p) /\ held # <<>>
        /\ ct' = c
        /\ held' = <<>>
        /\ replaying' = Append(held, Queued(c))
        /\ ipcache' = CacheTtl(c, p)
        /\ last' = [missed |-> FALSE, fresh |-> TRUE]
        /\ Counted /\ UNCHANGED <<hello, puts>>

\* one packet of replay_queue, with the counters it arrived with; nothing else
\* happens before the queue is empty
Replay ==
    LET q == Head(replaying)
    IN  /\ replaying # <<>>
        /\ Rediscovered(ct, dp_rediscovery(ct, hello), hello, Dir("client"), q, "tls_client_hello", q.late, TRUE)
        /\ replaying' = Tail(replaying)
        /\ ipcache' = CacheHost(ipcache, ct, hello)
        /\ UNCHANGED <<cfgVars, held, hello, purge_prev, now, count, others>>

\* a packet of the flow without an entry: nothing is remembered
UntrackedPacket(p) ==
    LET c1 == [NoEntry EXCEPT !.dp = Find(NoHost, FALSE, "unknown"), !.l7 = Probe("unknown", p.pl)]
        c2 == dp_rediscovery(c1, p.h)
    IN  /\ Arrives /\ ~Tracked(p)
        /\ IF c2.chk = "neg"
           THEN ct' = ct /\ last' = [missed |-> FALSE, fresh |-> TRUE]
           ELSE RunDesync(c2, c2.dp, Dir(p.side), NoPos, p.pl, FALSE, TRUE)
        /\ ipcache' = purged
        /\ Counted /\ UNCHANGED <<held, replaying, hello, puts>>

\* dpi_desync_icmp_packet about a packet of the flow that side sent: an answer to
\* it, handled with the profile and the counters of the flow
RelatedIcmp(side) ==
    LET other == CHOOSE s \in Sides : s # side
    IN  /\ OtherArrives /\ ct.live
        /\ RunDesync(ct, ct.dp, Dir(other), PosOf(ct, other), "ipv4", FALSE, TRUE)
        /\ held' = Overtaken(held)
        /\ ipcache' = purged
        /\ OtherCounted /\ UNCHANGED <<replaying, hello, puts>>

\* other ICMP packets and IP packets of other protocols (dpi_desync_ip_packet):
\* both addresses are matched, the cache is asked for the destination, then for
\* the source
OtherPacket(l4, src, dst, dir) ==
    LET at(a) == ipcache_get_hostname(purged, glob.ipcache_hostname, a)
        a == IF at(dst).host # NoHost THEN dst ELSE src
        d == dp_find(lists, profiles,
               [l3 |-> "ip4", l4 |-> l4, addrs |-> {src, dst}, port |-> 0,
                type |-> IF l4 = "icmp" THEN 8 ELSE 255, code |-> IF l4 = "icmp" THEN 0 ELSE 255,
                host |-> at(a).host, nosub |-> at(a).is_ip, l7 |-> "unknown"])
    IN  /\ OtherArrives
        /\ RunDesync(NoEntry, d, dir, NoPos, IF l4 = "icmp" THEN "icmp" ELSE "unknown",
                     FALSE, IsFresh(at(a), a))
        /\ ipcache' = purged
        /\ OtherCounted /\ UNCHANGED <<held, replaying, hello, puts>>

\* feed_dns_response: a DNS answer names addresses
DnsResponse(h, as) ==
    /\ OtherArrives /\ glob.ipcache_hostname
    /\ ipcache' = [k \in DOMAIN purged \cup {Key(a, NoIface) : a \in as} |->
                     IF k \in {Key(a, NoIface) : a \in as}
                     THEN ipcache_put_hostname(purged, glob.ipcache_hostname, k[1], h, FALSE, now)[k]
                     ELSE purged[k]]
    /\ puts' = [a \in Addrs |-> IF a \in as THEN [host |-> h, t |-> now] ELSE puts[a]]
    /\ OtherCounted /\ UNCHANGED <<ct, held, replaying, hello, last>>

Tick ==
    /\ phase = "run" /\ replaying = <<>> /\ now < MaxTime
    /\ now' = now + 1
    /\ ct' = [ct EXCEPT !.idle = TRUE]
    /\ UNCHANGED <<cfgVars, held, replaying, hello, ipcache, purge_prev, count, others, puts, last>>

\* ConntrackPoolPurge, done for a packet of some other flow
PurgeEntry ==
    /\ Ready /\ ct.live /\ ct.idle
    /\ ct' = NoEntry /\ held' = <<>>
    /\ ipcache' = purged /\ purge_prev' = now
    /\ UNCHANGED <<cfgVars, replaying, hello, now, count, others, puts, last>>

Configure ==
    /\ CfgNext
    /\ UNCHANGED <<flowVars, ipcache, purge_prev, now, count, others, puts, last>>

Init ==
    /\ CfgInit
    /\ ct = NoEntry /\ held = <<>> /\ replaying = <<>> /\ hello = NoHostname
    /\ ipcache = EmptyCache /\ purge_prev = 0 /\ now = 1 /\ count = 0 /\ others = 0
    /\ puts = [a \in Addrs |-> [host |-> NoHost, t |-> 0]]
    /\ last = [missed |-> FALSE, fresh |-> TRUE]

Next ==
    \/ Configure
    \/ \E p \in FlowPackets : FlowPacket(p) \/ UntrackedPacket(p)
    \/ \E h \in Hosts, i \in Ifaces : HelloPart(h, i)
    \/ \E i \in Ifaces : HelloRest(i)
    \/ Replay
    \/ \E s \in Sides : RelatedIcmp(s)
    \/ \E l4 \in {"icmp", "gre"}, s, d \in Addrs, dir \in Dirs : s # d /\ OtherPacket(l4, s, d, dir)
    \/ \E h \in Hosts, as \in SUBSET Addrs \ {{}} : ~h.is_ip /\ DnsResponse(h.name, as)
    \/ Tick \/ PurgeEntry

Spec == Init /\ [][Next]_vars

-----------------------------------------------------------------------------
\* No call is lost to a shortcut.  desync() skips all instances by a flag of the
\* entry, by ranges and by payloads: an instance that the packet is meant for, by
\* its own range, payload and cutoff, is skipped only if Lua has cut off the
\* direction (lua_cutoff) under the same profile, or if the packet was held and
\* a later packet has set the flag meanwhile.
NothingMissed == ~last.missed

\* The profile kept in the entry is the one the whole list of profiles gives for
\* what is known of the flow now, and a hostlist check kept in the entry is what
\* its hostlists say of the flow's hostname; so no discovery of a protocol or a
\* hostname is left without a new search.  Not while a ClientHello is put
\* together, and not for an IP taken as a hostname from the cache: the entry
\* does not keep that it is one.
ProfileIsCurrent ==
    ct.live /\ held = <<>> /\ replaying = <<>> /\ ~ct.cached =>
       /\ ct.dp = Find(ct.host, ct.is_ip, ct.l7)
       /\ ct.chk # "none" =>
            (ct.chk = "pos") = HostlistCheck(lists, profiles[ct.dp], ct.host, ct.is_ip)

\* A hostname taken from the cache is the one that was seen last for the address,
\* less than the lifetime ago: packets of the address that bring no name, and a
\* purge only once in a second, do not keep an old name alive.
CacheIsFresh == last.fresh
=============================================================================
