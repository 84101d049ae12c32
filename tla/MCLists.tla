------------------------------ MODULE MCLists -------------------------------
(***************************************************************************)
(* Two threads on lists of up to three lines over 16 addresses.  Domain    *)
(* "a" has the addresses 0, 1 and 2 (three quarters of a subnet of four),  *)
(* "b" the address 3, which completes it; the subnets overlap each other   *)
(* and the addresses, so that a load drops and evicts prefixes.            *)
(***************************************************************************)
EXTENDS Lists

MCAddrsOf == [a |-> {[ip |-> i, zct |-> 0] : i \in {0, 1, 2}},
              b |-> {[ip |-> i, zct |-> 0] : i \in {3, 8}}]
Domain(d) == [kind |-> "domain", dom |-> d]
Net(ip, z) == [kind |-> "net", net |-> [ip |-> ip, zct |-> z]]
Bad == [kind |-> "bad"]

MCInputs == {<<Domain("a"), Domain("b"), Bad>>,
             <<Domain("a"), Net(0, 3), Domain("b")>>,
             <<Net(5, 0), Net(4, 1), Net(4, 2), Net(7, 0)>>,
             <<Net(9, 0), Blank, Domain("b"), Net(9, 0)>>,
             <<Domain("b"), Net(10, 0), Net(0, 2), Net(11, 0)>>}
MCNets == {NetOf(n) : n \in {m \in [ip : 0 .. 2^W - 1, zct : 0 .. W - 1] : m.ip = Masked(m.ip, m.zct)}}
=============================================================================
