------------------------------- MODULE Ip2net -------------------------------
(***************************************************************************)
(* ip2net: groups single addresses into subnets.  Subnets in the input are *)
(* passed on as they are.  IPv4 wants a share mult/div of the addresses of *)
(* a subnet to be there, IPv6 a number of them.  From the largest subnet   *)
(* to the smallest, the first that has enough is taken, or a smaller one   *)
(* with the same addresses.  Addresses are W-bit numbers, and so are the   *)
(* products the program computes.                                          *)
(***************************************************************************)
EXTENDS Integers, FiniteSets, Sequences

CONSTANTS
    W,                  \* bits of an address and of an unsigned int
    ZctMin, ZctMax,     \* zct_min, zct_max: bits that are not in the prefix
    PctMult, PctDiv,    \* --v4-threshold
    V6Threshold         \* --v6-threshold

\* parse_params refuses other values, except that nothing keeps the products
\* within the word: that is assumed here.  The last line is for the prover, which
\* knows nothing of powers.
ASSUME Ip2netAssumption ==
    /\ W \in Nat /\ ZctMin \in 1 .. W /\ ZctMax \in ZctMin .. W - 1
    /\ PctDiv \in Nat /\ PctMult \in 1 .. PctDiv - 1 /\ V6Threshold \in Nat \ {0}
    /\ 2^ZctMax * PctMult < 2^W /\ 2^ZctMax * (PctDiv - PctMult) < 2^W
    /\ \A z \in 0 .. W : 2^z \in Nat \ {0} /\ \A y \in 0 .. z : 2^y <= 2^z

VARIABLES
    v6,                 \* params.ipv6
    iplist,             \* iplist, sorted and unique
    pos,                \* pos, from 1
    zct,                \* the size of subnet that is tried; 0 after a break
    best,               \* ip_ct_best, zct_best, pos_end
    nets                \* what was printed, as [ip, zct]

ip2netVars == <<v6, iplist, pos, zct, best, nets>>

\* ip & mask_from_bitcount(z)
Masked(ip, z) == ip - (ip % 2^z)
NetOf(n) == n.ip .. n.ip + 2^n.zct - 1

\* gnu_quicksort and unique
SortedUnique(ips) ==
    CHOOSE s \in [1 .. Cardinality(ips) -> ips] : \A i, j \in DOMAIN s : i < j => s[i] < s[j]

\* the position after the addresses that share the subnet of iplist[pos]
ip_end(z) == Masked(iplist[pos], z) + 2^z - 1
EndIn(z) ==
    CHOOSE p \in pos + 1 .. Len(iplist) + 1 :
       /\ p > Len(iplist) \/ iplist[p] > ip_end(z)
       /\ \A q \in pos + 1 .. p - 1 : iplist[q] <= ip_end(z)

\* IPv4 skips a subnet when the address lies too high in it
TooHigh(z) ==
    ~v6 /\ iplist[pos] > Masked(iplist[pos], z)
                          + ((2^z * (PctDiv - PctMult)) % 2^W) \div PctDiv
Enough(ct, z) ==
    IF v6 THEN ct >= V6Threshold ELSE ct >= ((2^z * PctMult) % 2^W) \div PctDiv

NoBest == [ct |-> 0, zct |-> 0, end |-> 0]

Ip2netInit == v6 \in BOOLEAN /\ iplist = <<>> /\ pos = 1 /\ zct = ZctMax /\ best = NoBest /\ nets = {}

\* reading the list: addresses are collected, subnets printed
Ip2netRead(ips, subnets) ==
    /\ iplist' = SortedUnique(ips)
    /\ nets' = subnets
    /\ pos' = 1
    /\ UNCHANGED <<v6, zct, best>>

\* one round of the search: the first subnet with enough addresses is taken, then
\* a smaller one with the same addresses
Try ==
    LET end == EndIn(zct)
        ct == end - pos
        enough == ct > 1 /\ Enough(ct, zct)
        stop == ~TooHigh(zct) /\ (ct = 1 \/ (enough /\ best.ct \notin {0, ct}))
    IN  /\ pos <= Len(iplist) /\ zct >= ZctMin
        /\ zct' = IF stop THEN 0 ELSE zct - 1
        /\ best' = IF ~stop /\ ~TooHigh(zct) /\ enough
                   THEN [ct |-> ct, zct |-> zct, end |-> end] ELSE best
        /\ UNCHANGED <<v6, iplist, pos, nets>>

\* mutant: the search ends one address too far
PosAfterBest == IF best.zct = 0 THEN pos + 1 ELSE best.end + 1

\* where the next search begins
PosEnd == IF best.zct = 0 THEN pos + 1 ELSE best.end

\* the subnet, or the address alone
PrintNet ==
    /\ pos <= Len(iplist) /\ zct < ZctMin
    /\ nets' = nets \cup {[ip |-> Masked(iplist[pos], best.zct), zct |-> best.zct]}
    /\ pos' = PosEnd
    /\ zct' = ZctMax /\ best' = NoBest
    /\ UNCHANGED <<v6, iplist>>
=============================================================================
