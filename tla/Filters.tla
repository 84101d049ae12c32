------------------------------ MODULE Filters -------------------------------
(***************************************************************************)
(* The filters of a profile and of its Lua instances: ports, ICMP types,   *)
(* IP protocols, flow protocols, payloads, ranges of packet counters,      *)
(* hostlists and ipsets.  Lists whose order does not matter to a match are *)
(* sets here.  A hostname is the sequence of its labels, www.x.org is      *)
(* <<"www", "x", "org">>.                                                  *)
(***************************************************************************)
EXTENDS Naturals, Sequences, FiniteSets

CONSTANTS
    NoHost,             \* NULL for a hostname
    NoList              \* NULL for a list

\* port_filters_match, icmp_filters_match, ipp_filters_match: none matches all
filters_match(fs, M(_)) == fs = {} \/ \E f \in fs : M(f)

pf_match(port, pf) ==
    port # 0 /\ (((pf.from = 0 /\ pf.to = 0) \/ port \in pf.from .. pf.to) # pf.neg)

icf_match(type, code, f) ==
    \/ f.mode = "any"
    \/ f.mode = "filter" /\ f.type = type /\ (f.code_valid => f.code = code)

ipp_match(proto, f) == f.mode = "any" \/ (f.mode = "filter" /\ f.proto = proto)

\* what pf_parse makes of "0", icf_parse and ipp_parse of "-": matches nothing
DenyPort == [from |-> 0, to |-> 0, neg |-> TRUE]
DenyIcmp == [mode |-> "skip", type |-> 0, code |-> 0, code_valid |-> FALSE]
DenyIpp  == [mode |-> "skip", proto |-> 255]

\* pf_parse: v1 - v2 with an optional ~; 0 alone denies everything
pf_parse(v1, v2, neg) ==
    [from |-> v1, to |-> v2, neg |-> neg \/ (v1 = 0 /\ v2 = 0)]

\* l7_proto_match and l7_payload_match; the empty set is "all"
NotKnown == {"unknown", "empty"}
l7_match(x, filter) ==
    filter = {} \/ x \in filter \/ ("known" \in filter /\ x \notin NotKnown)

-----------------------------------------------------------------------------
(* Ranges: [from, to, upper_cutoff], each bound [mode, pos]                *)

Pos(mode, p) == [mode |-> mode, pos |-> p]
PACKET_RANGE_NEVER  == [from |-> Pos("x", 0), to |-> Pos("x", 0), upper_cutoff |-> FALSE]
PACKET_RANGE_ALWAYS == [from |-> Pos("a", 0), to |-> Pos("a", 0), upper_cutoff |-> FALSE]

\* packet_range_parse: an omitted bound is "a"; "x" has no upper bound
packet_range_parse(from, to, cutoff) ==
    IF from.mode = "x" THEN PACKET_RANGE_NEVER
    ELSE [from |-> from, to |-> to, upper_cutoff |-> cutoff]

\* a counter position, or NoPos without conntrack
NoPos == [tracked |-> FALSE]

pos_overflow(pos, mode) == mode \in {"s", "p"} /\ pos.tracked /\ pos.over

check_pos_from(pos, range) ==
    /\ range.from.mode # "x" /\ ~pos_overflow(pos, range.from.mode)
    /\ range.from.mode # "a" => pos.tracked /\ pos[range.from.mode] >= range.from.pos

check_pos_to(pos, range) ==
    /\ range.to.mode # "x" /\ ~pos_overflow(pos, range.to.mode)
    /\ range.to.mode # "a" =>
         /\ pos.tracked
         /\ \/ pos[range.to.mode] < range.to.pos
            \/ ~range.upper_cutoff /\ pos[range.to.mode] = range.to.pos

check_pos_cutoff(pos, range) ==
    \/ ~check_pos_to(pos, range)
    \/ ~pos.tracked /\ ~check_pos_from(pos, range)

check_pos_range(pos, range) == check_pos_from(pos, range) /\ check_pos_to(pos, range)

-----------------------------------------------------------------------------
(* Hostlists and ipsets                                                    *)

\* HostlistPoolAddStrLen: a name that is there keeps its flags
AddHost(hl, e) == IF \E x \in hl : x.name = e.name THEN hl ELSE hl \cup {e}

\* SearchHostList: the host, then every parent domain; ^name matches only itself
SearchHostList(hl, host, nosub) ==
    \E i \in 1 .. Len(host), e \in hl :
       /\ e.name = SubSeq(host, i, Len(host))
       /\ i > 1 => ~nosub /\ ~e.strict

\* hostlist_collection_is_empty, ipset_collection_is_empty
AllEmpty(lists, ids) == \A i \in ids : lists[i] = {}

PROFILE_HOSTLISTS_EMPTY(lists, dp) == AllEmpty(lists, dp.hl) /\ AllEmpty(lists, dp.hl_exclude)

Excluded(lists, dp, host, nosub) ==
    \E i \in dp.hl_exclude : SearchHostList(lists[i], host, nosub)

\* HostlistCheck with its reload left to NfqMain
HostlistCheck(lists, dp, host, nosub) ==
    /\ ~Excluded(lists, dp, host, nosub)
    /\ \/ AllEmpty(lists, dp.hl)
       \/ \E i \in dp.hl : SearchHostList(lists[i], host, nosub)

\* IpsetCheck for an address, or for both addresses of a packet
IpsetCheck(lists, dp, addrs) ==
    /\ \A i \in dp.ips_exclude : lists[i] \cap addrs = {}
    /\ \/ AllEmpty(lists, dp.ips)
       \/ \E i \in dp.ips : lists[i] \cap addrs # {}

-----------------------------------------------------------------------------
(* The search of a profile.  q: l3 and l4 of the packet, the addresses and *)
(* the port to match, and what is known of the flow.                       *)

l4_match(dp, q) ==
    CASE q.l4 = "tcp"  -> filters_match(dp.pf_tcp, LAMBDA f : pf_match(q.port, f))
      [] q.l4 = "udp"  -> filters_match(dp.pf_udp, LAMBDA f : pf_match(q.port, f))
      [] q.l4 = "icmp" -> filters_match(dp.icf, LAMBDA f : icf_match(q.type, q.code, f))
      [] OTHER         -> filters_match(dp.ipf, LAMBDA f : ipp_match(q.l4, f))

dp_match(lists, dp, q) ==
    /\ q.l3 \in dp.l3
    /\ l4_match(dp, q)
    /\ l7_match(q.l7, dp.filter_l7)
    /\ dp.hostlist_auto = NoList /\ q.host = NoHost => PROFILE_HOSTLISTS_EMPTY(lists, dp)
    /\ IpsetCheck(lists, dp, q.addrs)
    /\ \/ dp.hostlist_auto # NoList /\ q.host # NoHost
       \/ PROFILE_HOSTLISTS_EMPTY(lists, dp)
       \/ q.host # NoHost /\ HostlistCheck(lists, dp, q.host, q.nosub)

\* dp_find: the first that matches, 0 if none does
dp_find(lists, dps, q) ==
    LET match == {i \in 1 .. Len(dps) : dp_match(lists, dps[i], q)}
    IN  IF match = {} THEN 0 ELSE CHOOSE i \in match : \A j \in match : i <= j

\* bCheckDone of dp_find: the profile won because its hostlists allow the host
check_done(lists, dp, q) ==
    /\ dp.hostlist_auto = NoList \/ q.host = NoHost
    /\ ~PROFILE_HOSTLISTS_EMPTY(lists, dp)
=============================================================================
