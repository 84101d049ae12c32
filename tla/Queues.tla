------------------------------- MODULE Queues -------------------------------
(***************************************************************************)
(* Queues of packets: what is in one, and what is left of one.  Without is *)
(* stated by the rank of what it keeps: of the packets that stay the j-th  *)
(* is the one up to which j stay.                                          *)
(***************************************************************************)
EXTENDS Integers, Sequences, FiniteSets

Elems(s) == {s[i] : i \in DOMAIN s}

\* the places of s whose packets stay when those of drop are taken out
Kept(s, drop) == {i \in DOMAIN s : s[i] \notin drop}

Rank(keep, i) == Cardinality({m \in keep : m <= i})

Without(s, drop) ==
    LET keep == Kept(s, drop)
    IN  [j \in 1 .. Cardinality(keep) |-> s[CHOOSE i \in keep : Rank(keep, i) = j]]
=============================================================================
