------------------------------- MODULE Ipset --------------------------------
(***************************************************************************)
(* The set of subnets behind an ipset of nfqws2 (kavl_bit in pools.c): a   *)
(* search tree of prefixes in which two prefixes compare equal when one    *)
(* begins with the other.  The tree is kept free of such pairs, or a       *)
(* lookup would depend on its shape.  A prefix is the set of the addresses *)
(* that begin with it: prefixes that compare equal are the ones with a     *)
(* common address, the shorter one is the larger set.                      *)
(***************************************************************************)
EXTENDS Naturals, FiniteSets

CONSTANTS
    Nets,               \* the subnets, as sets of addresses
    NoNet               \* no insertion is under way

ASSUME NetsAssumption ==
    /\ NoNet \notin Nets /\ {} \notin Nets
    /\ \A x, y \in Nets : x \cap y = {} \/ x \subseteq y \/ y \subseteq x

VARIABLES
    tree,               \* the prefixes in the tree
    adding,             \* kavl_bit_add: the prefix e being inserted
    added               \* history: all that was to be added

ipsetVars == <<tree, adding, added>>

\* kavl_bit_cmp gives 0
Same(x, y) == x \cap y # {}

IpsetInit == tree = {} /\ adding = NoNet /\ added = {}

\* ipset4Add, ipset6Add, ipset_kavl_add
ipset_kavl_add(net) ==
    /\ adding = NoNet
    /\ adding' = net
    /\ added' = added \cup {net}
    /\ UNCHANGED tree

\* kavl_insert finds nothing that compares equal
kavl_insert ==
    /\ adding # NoNet
    /\ \A v \in tree : ~Same(v, adding)
    /\ tree' = tree \cup {adding} /\ adding' = NoNet
    /\ UNCHANGED added

\* mutant: a longer prefix that is there wins over the new one
KeepLonger ==
    /\ adding # NoNet
    /\ \E v \in tree : Same(v, adding)
    /\ adding' = NoNet
    /\ UNCHANGED <<tree, added>>

\* it finds one that is not longer: the new one is dropped
FoundShorter ==
    /\ adding # NoNet
    /\ \E v \in tree : Same(v, adding) /\ adding \subseteq v
    /\ adding' = NoNet
    /\ UNCHANGED <<tree, added>>

\* it finds a longer one, which of them depends on the tree: that one is deleted
\* and the insertion tried again
FoundLonger ==
    /\ adding # NoNet
    /\ \E v \in tree :
          /\ Same(v, adding) /\ v \subseteq adding /\ v # adding
          /\ tree' = tree \ {v}
    /\ UNCHANGED <<adding, added>>

IpsetNext ==
    \/ \E net \in Nets : ipset_kavl_add(net)
    \/ kavl_insert \/ FoundShorter \/ FoundLonger

IpsetSpec == IpsetInit /\ [][IpsetNext]_ipsetVars

\* ipset4Check, ipset6Check
IpsetHas(a) == \E v \in tree : a \in v

-----------------------------------------------------------------------------
\* No two prefixes of the tree compare equal, and once an insertion is finished
\* the tree holds exactly the addresses of all subnets that were ever added,
\* whatever their order and overlaps and whichever of several overlapping
\* prefixes the tree happens to find first.
IpsetIsExact ==
    /\ tree \subseteq Nets
    /\ \A x, y \in tree : x = y \/ ~Same(x, y)
    /\ adding = NoNet => UNION tree = UNION added
=============================================================================
