------------------------------- MODULE Lists --------------------------------
(***************************************************************************)
(* How an ip list comes about and is used: mdig resolves a list of         *)
(* domains, ip2net may group the addresses, nfqws2 loads the result as an  *)
(* ipset.  The scripts under ipset/ take mdig's output for the user's      *)
(* lists as it is, and group lists from elsewhere; what mdig prints stands *)
(* for both kinds here.  A list that could not be made is not loaded.      *)
(***************************************************************************)
EXTENDS Mdig, Ip2net, Ipset

\* the addresses and subnets that mdig may print, and the prefixes of addresses
Printable == {l.net : l \in {m \in Lines : m.kind = "net"}}
                \cup UNION {AddrsOf[l.dom] : l \in {m \in Lines : m.kind = "domain"}}
ASSUME ListsAssumption ==
    /\ \A n \in Printable : n \in [ip : 0 .. 2^W - 1, zct : 0 .. W - 1] /\ NetOf(n) \in Nets
    /\ \A ip \in 0 .. 2^W - 1, z \in {0} \cup (ZctMin .. ZctMax) :
          NetOf([ip |-> Masked(ip, z), zct |-> z]) \in Nets

VARIABLES
    stage,              \* "mdig", "ip2net", "load", "ready", "failed"
    lines               \* lines of the list file that are not loaded yet

listVars == <<mdigVars, ip2netVars, ipsetVars, stage, lines>>

Init ==
    /\ MdigInit /\ Ip2netInit /\ IpsetInit
    /\ stage = "mdig" /\ lines = {}

MdigRuns ==
    /\ stage = "mdig" /\ MdigNext
    /\ UNCHANGED <<ip2netVars, ipsetVars, stage, lines>>

\* getuser: the addresses are sorted and stored; nothing without a thread of mdig
GetUser ==
    /\ stage = "mdig" /\ mdig \in {"done", "failed"}
    /\ IF mdig = "failed" THEN stage' = "failed" /\ UNCHANGED lines
       ELSE stage' = "load" /\ lines' = out
    /\ UNCHANGED <<mdigVars, ip2netVars, ipsetVars>>

\* get_antifilter: ip2net reads the list
Group ==
    /\ stage = "mdig" /\ mdig = "done"
    /\ stage' = "ip2net"
    /\ Ip2netRead({n.ip : n \in {m \in out : m.zct = 0}}, {n \in out : n.zct > 0})
    /\ UNCHANGED <<mdigVars, ipsetVars, lines>>

Ip2netRuns ==
    /\ stage = "ip2net"
    /\ IF pos > Len(iplist) THEN stage' = "load" /\ lines' = nets /\ UNCHANGED ip2netVars
       ELSE (Try \/ PrintNet) /\ UNCHANGED <<stage, lines>>
    /\ UNCHANGED <<mdigVars, ipsetVars>>

\* AppendIpset: line by line, in the order of the file
LoadLine ==
    /\ stage = "load"
    /\ \E n \in lines : ipset_kavl_add(NetOf(n)) /\ lines' = lines \ {n}
    /\ UNCHANGED <<mdigVars, ip2netVars, stage>>
LoadStep ==
    /\ stage = "load" /\ (kavl_insert \/ FoundShorter \/ FoundLonger)
    /\ UNCHANGED <<mdigVars, ip2netVars, stage, lines>>
Loaded ==
    /\ stage = "load" /\ lines = {} /\ adding = NoNet
    /\ stage' = "ready"
    /\ UNCHANGED <<mdigVars, ip2netVars, ipsetVars, lines>>

Ended == stage \in {"ready", "failed"} /\ UNCHANGED listVars

Next == MdigRuns \/ GetUser \/ Group \/ Ip2netRuns \/ LoadLine \/ LoadStep \/ Loaded \/ Ended

\* every thread is scheduled, and the programs that are ready to run do
Fairness ==
    /\ \A t \in Threads : WF_listVars(stage = "mdig" /\ ThreadStep(t) /\ UNCHANGED <<ip2netVars, ipsetVars, stage, lines>>)
    /\ WF_listVars(stage = "mdig" /\ (Started \/ Join) /\ UNCHANGED <<ip2netVars, ipsetVars, stage, lines>>)
    /\ WF_listVars(GetUser \/ Group \/ Ip2netRuns \/ LoadLine \/ LoadStep \/ Loaded)

Spec == Init /\ [][Next]_listVars /\ Fairness

-----------------------------------------------------------------------------
\* The list comes out: mdig ends whatever the resolver answers, the threads do
\* not wait for each other for ever, and ip2net and the loading end.
ListIsMade == <>(stage \in {"ready", "failed"})

\* The single addresses that were printed, and the subnets of which enough were.
Ips == {n.ip : n \in {m \in out : m.zct = 0}}
Earned ==
    {n \in [ip : 0 .. 2^W - 1, zct : ZctMin .. ZctMax] :
       LET ct == Cardinality(NetOf(n) \cap Ips)
       IN  /\ n.ip = Masked(n.ip, n.zct) /\ ct > 1
           /\ IF v6 THEN ct >= V6Threshold ELSE (ct + 1) * PctDiv > 2^n.zct * PctMult}

\* The ipset that is loaded has every address mdig printed, and beyond these only
\* addresses of a subnet that was in the input or of which enough addresses were:
\* the share mult/div for IPv4, less one address at most, as the program rounds it
\* down; the threshold for IPv6.
ListIsTight ==
    stage = "ready" =>
       /\ \A n \in out : \A a \in NetOf(n) : IpsetHas(a)
       /\ \A a \in UNION tree :
            \/ \E n \in out : a \in NetOf(n)
            \/ \E n \in Earned : a \in NetOf(n) /\ NetOf(n) \subseteq UNION tree
=============================================================================
