------------------------------ MODULE MCDesync ------------------------------
EXTENDS Desync, LuaCalls

Opt(o, v) == [o |-> o, v |-> v]
Ports(p) == {pf_parse(p, p, FALSE)}
N(mode, hi) == packet_range_parse(Pos("a", 0), Pos(mode, hi), FALSE)
Below(mode, lo, hi) == packet_range_parse(Pos(mode, lo), Pos(mode, hi), TRUE)

x_org == <<"x", "org">>
www == <<"www", "x", "org">>
\* an IP as a hostname
num == <<"1", "x", "org">>

f_hosts == <<"f_hosts", 0>>
f_ips == <<"f_ips", 0>>
f_auto == <<"f_auto", 0>>

MCHosts == {[name |-> www, is_ip |-> FALSE], [name |-> num, is_ip |-> TRUE]}
MCFileContents == (f_hosts :> {[name |-> x_org, strict |-> FALSE]}) @@ (f_ips :> {"a"}) @@ (f_auto :> {})

\* nothing, an error or a cancel of the plan, instance_cutoff, lua_cutoff
Ret == [icut |-> {}, cutoff |-> {}, stop |-> FALSE]
MCLuaReturns ==
    {Ret, [Ret EXCEPT !.stop = TRUE], [Ret EXCEPT !.icut = Dirs], [Ret EXCEPT !.cutoff = {"out"}]}

\* a template, a skipped section, a profile for TLS by name, one for what is not
\* known yet
Client ==
    << Opt("qnum", 200), Opt("ipcache_hostname", TRUE),
       Opt("template", "s"), Opt("in_range", N("n", 2)), Opt("lua_desync", "f1"), Opt("name", "t"),
       Opt("new", NoName), Opt("hl", f_hosts), Opt("skip", ""), Opt("payload", {"known"}), Opt("lua_desync", "f2"),
       Opt("new", NoName), Opt("filter_l7", {"tls"}), Opt("hl", f_hosts), Opt("pf_tcp", Ports(443)),
       Opt("payload", {"tls_client_hello"}), Opt("lua_desync", "f3"), Opt("import", "t"),
       Opt("new", "any"), Opt("ips", f_ips), Opt("out_range", N("n", 2)), Opt("lua_desync", "f4"),
       Opt("icf", {[mode |-> "any", type |-> 0, code |-> 0, code_valid |-> FALSE]}), Opt("pf_tcp", Ports(443)) >>

\* an auto hostlist, lists written on the command line, ranges of data packets
Auto ==
    << Opt("qnum", 200), Opt("ipcache_hostname", TRUE),
       Opt("hostlist_auto", f_auto), Opt("fail", [k |-> "fail_threshold", v |-> 3]),
       Opt("hl_exclude_domains", <<[name |-> www, strict |-> TRUE]>>),
       Opt("l3", {"ip4"}), Opt("filter_l7", {"http", "tls"}),
       Opt("out_range", Below("d", 1, 2)), Opt("lua_desync", "f1"),
       Opt("new", NoName), Opt("ips_exclude_ip", <<"b">>), Opt("lua_desync", "f2"), Opt("name", "rest") >>

\* server mode without conntrack
Server ==
    << Opt("qnum", 200), Opt("server", TRUE), Opt("ctrack_disable", TRUE),
       Opt("payload", {"tls_server_hello", "empty"}), Opt("lua_desync", "f1"), Opt("lua_desync", "f2") >>

\* command lines the program refuses
Refused ==
    { <<Opt("lua_desync", "f1")>>,
      <<Opt("qnum", 200), Opt("dry_run", TRUE)>>,
      <<Opt("payload", Bad)>>,
      <<Opt("qnum", 200), Opt("import", "t")>>,
      <<Opt("qnum", 200), Opt("template", "s"), Opt("name", "t"), Opt("new", NoName), Opt("import", "s")>>,
      <<Opt("qnum", 200), Opt("template", "t"), Opt("new", "t"), Opt("template", NoName)>>,
      <<Opt("qnum", 200), Opt("hostlist_auto", f_auto), Opt("hostlist_auto", f_hosts)>>,
      <<Opt("qnum", 200), Opt("server", TRUE), Opt("hostlist_auto", f_auto)>> }

MCCommandLines == {Client, Auto, Server} \cup Refused

\* IPv6 headers and TCP options of the packets that are taken apart
MCChains ==
    {<<>>, <<"hop">>, <<"dst">>, <<"hop", "dst">>, <<"hop", "dst", "routing", "dst">>, <<"hop", "ah">>,
     <<"frag">>, <<"routing", "frag", "dst">>, <<"hop", "frag", "ah">>}
TcpOption(k, n) == [kind |-> k, size |-> n]
MCTcpOptions ==
    {[off |-> 5, opts |-> <<>>], [off |-> 6, opts |-> <<Mss>>],
     [off |-> 8, opts |-> <<Noop, TcpOption("ts", 10), Noop>>],
     [off |-> 7, opts |-> <<Mss, TcpOption("end", 1), TcpOption("junk", 3)>>],
     [off |-> 6, opts |-> <<Noop, TcpOption("broken", 9)>>]}

\* www.x.org and shorter ones, of a short and of a long second level, of one level
MCNames == {<<3, 1, 2>>, <<6, 3>>, <<1, 2>>, <<4>>}
MCShifts == {0, 1, -2}
MCPayloads ==
    {[hello |-> TRUE, sid |-> 2, len |-> 50], [hello |-> FALSE, sid |-> 0, len |-> 0],
     [hello |-> FALSE, sid |-> 0, len |-> 65450]}
MCFrames == {<<0, 2>>, <<2, 2>>, <<4, 1>>, <<1, 3>>, <<0, 0>>, <<3, 0>>, <<5, 3>>, <<6, 4>>}

\* the program runs, or one function is called
DryRun == <<Opt("qnum", 200), Opt("dry_run", TRUE)>>
MCInit ==
    \/ Init /\ call = NoCall
    \/ Init /\ cmdline = DryRun /\ CallInit
MCNext == call = NoCall /\ Next /\ UNCHANGED call
MCSpec == MCInit /\ [][MCNext]_<<vars, call>>
=============================================================================
