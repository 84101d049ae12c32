---------------------------- MODULE Lists_proof -----------------------------
(***************************************************************************)
(* The tree of prefixes is exact for every laminar family of subnets: the  *)
(* prefixes of IPv4 or IPv6 with all their lengths among them.  mdig loses *)
(* and doubles no line, for every number of threads and every input.       *)
(***************************************************************************)
EXTENDS Lists, FiniteSetTheorems, WellFoundedInduction, TLAPS

\* the prefix under insertion counts as present
Held == tree \cup ({adding} \ {NoNet})

\* IpsetIsExact does not say what an insertion that has deleted longer prefixes
\* still owes: their addresses belong to the prefix being inserted.
TreeInv ==
    /\ tree \subseteq Nets
    /\ adding \in Nets \cup {NoNet}
    /\ \A x, y \in tree : x = y \/ ~Same(x, y)
    /\ UNION Held = UNION added

LEMMA InitTree == IpsetInit => TreeInv
  BY DEF IpsetInit, TreeInv, Held

\* a new prefix only joins the union
LEMMA AddTree ==
  ASSUME TreeInv, NEW net \in Nets, ipset_kavl_add(net)
  PROVE  TreeInv'
<1>1. net # NoNet
  BY NetsAssumption
<1>2. Held' = tree \cup {net} /\ Held = tree
  BY <1>1 DEF ipset_kavl_add, Held
<1>3. (UNION Held = UNION added)'
  BY <1>2 DEF ipset_kavl_add, TreeInv
<1> QED
  BY <1>3 DEF TreeInv, ipset_kavl_add, Same

\* what compares equal to nothing is disjoint from everything
LEMMA InsertTree ==
  ASSUME TreeInv, kavl_insert
  PROVE  TreeInv'
<1>1. adding \in Nets
  BY DEF TreeInv, kavl_insert
<1>2. Held' = Held
  BY DEF kavl_insert, Held
<1>3. \A x, y \in tree' : x = y \/ ~Same(x, y)
  BY DEF TreeInv, kavl_insert, Same
<1> QED
  BY <1>1, <1>2, <1>3 DEF TreeInv, kavl_insert, Same

\* a prefix inside one that is there adds nothing to the union
LEMMA DropTree ==
  ASSUME TreeInv, FoundShorter
  PROVE  TreeInv'
<1>1. PICK v \in tree : adding \subseteq v
  BY DEF FoundShorter
<1>2. Held = tree \cup {adding} /\ Held' = tree
  BY DEF FoundShorter, Held
<1>3. UNION Held' = UNION Held
  BY <1>1, <1>2
<1> QED
  BY <1>3 DEF TreeInv, FoundShorter, Same

\* what is deleted is covered by the prefix being inserted
LEMMA EvictTree ==
  ASSUME TreeInv, FoundLonger
  PROVE  TreeInv'
<1>1. PICK v \in tree : v \subseteq adding /\ tree' = tree \ {v}
  BY DEF FoundLonger
<1>2. Held = tree \cup {adding} /\ Held' = (tree \ {v}) \cup {adding}
  BY <1>1 DEF FoundLonger, Held
<1>3. UNION Held' = UNION Held
  BY <1>1, <1>2
<1> QED
  BY <1>1, <1>3 DEF TreeInv, FoundLonger, Same

\* A lookup in an ipset gives the same answer whatever the order in which the
\* lines of the list were added: the tree holds no two prefixes that compare
\* equal, and between insertions exactly the addresses of all subnets added
\* (kavl_bit_add, kavl_bit_get).
THEOREM IpsetExact == IpsetSpec => []IpsetIsExact
<1>1. TreeInv /\ [IpsetNext]_ipsetVars => TreeInv'
  <2> SUFFICES ASSUME TreeInv, [IpsetNext]_ipsetVars PROVE TreeInv'
    OBVIOUS
  <2>1. CASE \E net \in Nets : ipset_kavl_add(net)
    BY <2>1, AddTree
  <2>2. CASE kavl_insert
    BY <2>2, InsertTree
  <2>3. CASE FoundShorter
    BY <2>3, DropTree
  <2>4. CASE FoundLonger
    BY <2>4, EvictTree
  <2>5. CASE UNCHANGED ipsetVars
    BY <2>5 DEF ipsetVars, TreeInv, Held, Same
  <2> QED
    BY <2>1, <2>2, <2>3, <2>4, <2>5 DEF IpsetNext
<1>2. TreeInv => IpsetIsExact
  BY DEF TreeInv, IpsetIsExact, Held
<1> QED
  BY InitTree, <1>1, <1>2, PTL DEF IpsetSpec

\* A lookup finds an address exactly when a subnet that was added has it
\* (SearchIpset).
THEOREM LookupIsExact ==
  IpsetSpec => [](adding = NoNet =>
                     \A a : IpsetHas(a) <=> \E net \in added : a \in net)
<1>1. IpsetIsExact => (adding = NoNet =>
                     \A a : IpsetHas(a) <=> \E net \in added : a \in net)
  <2> SUFFICES ASSUME UNION tree = UNION added, NEW a
               PROVE  IpsetHas(a) <=> \E net \in added : a \in net
    BY DEF IpsetIsExact
  <2>1. a \in UNION tree <=> a \in UNION added
    OBVIOUS
  <2> QED
    BY <2>1 DEF IpsetHas
<1> QED
  BY IpsetExact, <1>1, PTL

-----------------------------------------------------------------------------
(***************************************************************************)
(* The accounts of mdig, in the pipeline of Lists.                         *)
(***************************************************************************)

\* where a thread has a line that is in no log yet; where it has yet to count it
Busy == {"pass", "resolve", "print", "log_ok", "log_bad"}
Counting == {"stat_ok", "stat_bad"}
Places == Busy \cup Counting \cup {"none", "get", "end"}

\* the threads that are at one of S, and those with line l among the busy ones
At(f, S) == {t \in Threads : f[t] \in S}
Holding(f, c, l) == {t \in Threads : f[t] \in Busy /\ c[t] = l}

Printed(l) == IF l.kind = "net" THEN l.net \in out ELSE AddrsOf[l.dom] \subseteq out

-----------------------------------------------------------------------------
(* Counting in sequences and among threads                                 *)

LEMMA PlacesFinite ==
  ASSUME NEW S, NEW s \in Seq(S), NEW l
  PROVE  IsFiniteSet({i \in DOMAIN s : s[i] = l})
<1>1. DOMAIN s = 1 .. Len(s) /\ Len(s) \in Nat
  OBVIOUS
<1>2. IsFiniteSet(1 .. Len(s))
  BY <1>1, FS_Interval
<1> QED
  BY <1>1, <1>2, FS_Subset

LEMMA CountIsNat ==
  ASSUME NEW S, NEW s \in Seq(S), NEW l
  PROVE  Count(s, l) \in Nat
  BY PlacesFinite, FS_CardinalityType DEF Count

LEMMA CountEmpty == \A l : Count(<<>>, l) = 0
<1> SUFFICES ASSUME NEW l PROVE Count(<<>>, l) = 0
  OBVIOUS
<1> DEFINE P == {i \in DOMAIN <<>> : <<>>[i] = l}
<1>1. P = {}
  OBVIOUS
<1> QED
  BY <1>1, FS_EmptySet DEF Count

LEMMA CountAppend ==
  ASSUME NEW S, NEW s \in Seq(S), NEW x \in S, NEW l
  PROVE  Count(Append(s, x), l) = Count(s, l) + (IF x = l THEN 1 ELSE 0)
<1> DEFINE P == {i \in DOMAIN s : s[i] = l}
           Q == {i \in DOMAIN Append(s, x) : Append(s, x)[i] = l}
<1>1. IsFiniteSet(P) /\ Cardinality(P) \in Nat
  BY PlacesFinite, FS_CardinalityType
<1>2. Len(s) + 1 \notin P
  OBVIOUS
<1>3. Q = IF x = l THEN P \cup {Len(s) + 1} ELSE P
  OBVIOUS
<1>4. Cardinality(P \cup {Len(s) + 1}) = Cardinality(P) + 1
  BY <1>1, <1>2, FS_AddElement
<1>5. Count(s, l) = Cardinality(P) /\ Count(Append(s, x), l) = Cardinality(Q)
  BY DEF Count
<1> HIDE DEF P, Q
<1> QED
  BY <1>1, <1>3, <1>4, <1>5

LEMMA CountTail ==
  ASSUME NEW S, NEW s \in Seq(S), s # <<>>, NEW l
  PROVE  Count(Tail(s), l) = Count(s, l) - (IF Head(s) = l THEN 1 ELSE 0)
<1> DEFINE P == {i \in DOMAIN s : s[i] = l}
           Q == {i \in DOMAIN Tail(s) : Tail(s)[i] = l}
           f == [i \in Q |-> i + 1]
<1>1. IsFiniteSet(P) /\ Cardinality(P) \in Nat
  BY PlacesFinite, FS_CardinalityType
<1>0. IsFiniteSet(Q)
  <2>1. Tail(s) \in Seq(S)
    OBVIOUS
  <2> QED
    BY <2>1, PlacesFinite
<1>2. 1 \in P <=> Head(s) = l
  OBVIOUS
<1>3. f \in [Q -> P \ {1}]
  OBVIOUS
<1>4. \A j \in P \ {1} : j - 1 \in Q /\ f[j - 1] = j
  OBVIOUS
<1>5. \A i, j \in Q : f[i] = f[j] => i = j
  OBVIOUS
<1>6. f \in Bijection(Q, P \ {1})
  <2> HIDE DEF f, P, Q
  <2>1. f \in Injection(Q, P \ {1})
    BY <1>3, <1>5 DEF Injection, IsInjective
  <2>2. f \in Surjection(Q, P \ {1})
    BY <1>3, <1>4 DEF Surjection
  <2> QED
    BY <2>1, <2>2 DEF Bijection
<1>7. Cardinality(P \ {1}) = Cardinality(Q)
  BY <1>0, <1>6, FS_Bijection, ZenonT(30) DEF ExistsBijection
<1>8. Cardinality(P \ {1}) = IF 1 \in P THEN Cardinality(P) - 1 ELSE Cardinality(P)
  BY <1>1, FS_RemoveElement
<1>9. Count(s, l) = Cardinality(P) /\ Count(Tail(s), l) = Cardinality(Q)
  BY DEF Count
<1> HIDE DEF P, Q, f
<1> QED
  BY <1>1, <1>2, <1>7, <1>8, <1>9

\* sets of threads are finite; one goes, one comes
LEMMA ThreadsNat == ASSUME NEW A, A \subseteq Threads PROVE IsFiniteSet(A) /\ Cardinality(A) \in Nat
<1>1. IsFiniteSet(A)
  BY MdigAssumption, FS_Subset
<1> QED
  BY <1>1, FS_CardinalityType

LEMMA OneLess ==
  ASSUME NEW A, A \subseteq Threads, NEW t \in A
  PROVE  Cardinality(A \ {t}) = Cardinality(A) - 1
  BY ThreadsNat, FS_RemoveElement

LEMMA OneMore ==
  ASSUME NEW A, A \subseteq Threads, NEW t, t \notin A
  PROVE  Cardinality(A \cup {t}) = Cardinality(A) + 1
  BY ThreadsNat, FS_AddElement

-----------------------------------------------------------------------------
(* The invariant                                                           *)

MdigType ==
    /\ input \in Seq(Lines) /\ stdin \in Seq(Lines)
    /\ resolved \in Seq(Lines \cup {Blank}) /\ failed \in Seq(Lines \cup {Blank})
    /\ pc \in [Threads -> Places]
    /\ cur \in [Threads -> Lines \cup {Blank}]
    /\ todo = [t \in Threads |-> todo[t]]
    /\ stats \in [ct : Nat, ok : Nat]

\* a line that was read is with one thread or in one log
SharedOut ==
    \A l \in Lines : l.kind # "blank" =>
       Count(input, l) = Count(stdin, l) + Cardinality(Holding(pc, cur, l))
                            + Count(resolved, l) + Count(failed, l)

\* the counters lack what threads have yet to count
Tallied ==
    /\ Len(input) = Len(stdin) + Cardinality(At(pc, Busy \cup Counting)) + stats.ct
    /\ Len(resolved) = Cardinality(At(pc, {"stat_ok"})) + stats.ok

\* what a line stands for is printed before it is logged as resolved
PrintedFirst ==
    /\ \A t \in Threads :
         /\ pc[t] = "pass" => cur[t].kind = "net"
         /\ pc[t] \in {"resolve", "print"} => cur[t].kind = "domain"
         /\ pc[t] = "print" => AddrsOf[cur[t].dom] \subseteq out \cup todo[t]
         /\ pc[t] = "log_ok" => Printed(cur[t])
    /\ \A i \in DOMAIN resolved : Printed(resolved[i])

\* a thread ends when there is no more to read
EndedLast ==
    /\ \A t \in Threads : pc[t] = "end" => stdin = <<>>
    /\ mdig = "done" =>
         /\ \A t \in Threads : pc[t] \in {"none", "end"}
         /\ \E t \in Threads : pc[t] = "end"

MdigInv == MdigType /\ SharedOut /\ Tallied /\ PrintedFirst /\ EndedLast

-----------------------------------------------------------------------------
(* Each step of mdig preserves it                                          *)

\* What a line is printed as stays printed.
LEMMA PrintedStays ==
  ASSUME NEW l, Printed(l), out \subseteq out'
  PROVE  Printed(l)'
  BY DEF Printed

LEMMA CountsAreNat ==
  ASSUME MdigType, NEW l
  PROVE  /\ Count(input, l) \in Nat /\ Count(stdin, l) \in Nat
         /\ Count(resolved, l) \in Nat /\ Count(failed, l) \in Nat
         /\ Cardinality(Holding(pc, cur, l)) \in Nat
<1>1. /\ input \in Seq(Lines) /\ stdin \in Seq(Lines)
      /\ resolved \in Seq(Lines \cup {Blank}) /\ failed \in Seq(Lines \cup {Blank})
  BY DEF MdigType
<1>2. Count(input, l) \in Nat
  BY <1>1, CountIsNat
<1>3. Count(stdin, l) \in Nat
  BY <1>1, CountIsNat
<1>4. Count(resolved, l) \in Nat
  BY <1>1, CountIsNat
<1>5. Count(failed, l) \in Nat
  BY <1>1, CountIsNat
<1>6. Holding(pc, cur, l) \subseteq Threads
  BY DEF Holding
<1> QED
  BY <1>2, <1>3, <1>4, <1>5, <1>6, ThreadsNat

LEMMA MdigInitInv == MdigInit => MdigInv
<1> SUFFICES ASSUME MdigInit PROVE MdigInv
  OBVIOUS
<1>1. MdigType
  BY MdigAssumption DEF MdigInit, MdigType, Places
<1>2. \A l : Holding(pc, cur, l) = {}
  BY DEF MdigInit, Holding, Busy
<1>3. SharedOut
  <2> SUFFICES ASSUME NEW l \in Lines
               PROVE  Count(input, l) = Count(stdin, l) + Cardinality(Holding(pc, cur, l))
                                           + Count(resolved, l) + Count(failed, l)
    BY DEF SharedOut
  <2>1. Cardinality(Holding(pc, cur, l)) = 0
    BY <1>2, FS_EmptySet
  <2>2. Count(resolved, l) = 0 /\ Count(failed, l) = 0 /\ stdin = input
    BY CountEmpty DEF MdigInit
  <2> QED
    BY <1>1, <2>1, <2>2, CountsAreNat
<1>4. Tallied
  <2>1. At(pc, Busy \cup Counting) = {} /\ At(pc, {"stat_ok"}) = {}
    BY DEF At, MdigInit, Busy, Counting
  <2>2. Cardinality(At(pc, Busy \cup Counting)) = 0 /\ Cardinality(At(pc, {"stat_ok"})) = 0
    BY <2>1, FS_EmptySet
  <2>3. Len(input) \in Nat /\ stats.ct = 0 /\ stats.ok = 0 /\ Len(resolved) = 0 /\ stdin = input
    BY <1>1 DEF MdigInit, MdigType
  <2> QED
    BY <2>2, <2>3 DEF Tallied
<1>5. PrintedFirst /\ EndedLast
  BY DEF MdigInit, PrintedFirst, EndedLast
<1> QED
  BY <1>1, <1>3, <1>4, <1>5 DEF MdigInv

\* A step that only moves thread t to v, within the busy places or outside of
\* them and the places where a line is counted.
LEMMA Aside ==
  ASSUME MdigInv, NEW t \in Threads, NEW v \in Places,
         pc' = [pc EXCEPT ![t] = v],
         \/ pc[t] \in Busy /\ v \in Busy
         \/ pc[t] \notin Busy \cup Counting /\ v \notin Busy \cup Counting,
         UNCHANGED <<input, stdin, cur, resolved, failed, stats>>
  PROVE  SharedOut' /\ Tallied'
<1>0. MdigType /\ pc \in [Threads -> Places]
  BY DEF MdigInv, MdigType
<1>1. SharedOut'
  <2> SUFFICES ASSUME NEW l \in Lines
               PROVE  Cardinality(Holding(pc, cur, l))' = Cardinality(Holding(pc, cur, l))
    BY DEF SharedOut, MdigInv
  <2>1. (pc[t] \in Busy /\ cur[t] = l) <=> (v \in Busy /\ cur[t] = l)
    BY DEF Busy
  <2>2. Holding([pc EXCEPT ![t] = v], cur, l) = Holding(pc, cur, l)
    BY <1>0, <2>1 DEF Holding
  <2> QED
    BY <2>2
<1>2. Tallied'
  <2>1. pc[t] \in Busy \cup Counting <=> v \in Busy \cup Counting
    OBVIOUS
  <2>2. At(pc', Busy \cup Counting) = At(pc, Busy \cup Counting)
    BY <1>0, <2>1 DEF At
  <2>3. pc[t] \in {"stat_ok"} <=> v \in {"stat_ok"}
    BY DEF Busy, Counting
  <2>4. At(pc', {"stat_ok"}) = At(pc, {"stat_ok"})
    BY <1>0, <2>3 DEF At
  <2> QED
    BY <2>2, <2>4 DEF Tallied, MdigInv
<1> QED
  BY <1>1, <1>2

LEMMA MdigStart ==
  ASSUME MdigInv, NEW t \in Threads, StartThread(t)
  PROVE  MdigInv'
<1> USE DEF StartThread
<1>1. pc' = [pc EXCEPT ![t] = "get"] /\ pc[t] = "none"
  OBVIOUS
<1>2. MdigType'
  BY DEF MdigInv, MdigType, Places
<1>3. SharedOut' /\ Tallied'
  <2>1. pc[t] \notin Busy \cup Counting /\ "get" \notin Busy \cup Counting /\ "get" \in Places
    BY DEF Busy, Counting, Places
  <2> QED
    BY <1>1, <2>1, Aside
<1>4. PrintedFirst'
  BY DEF MdigInv, MdigType, PrintedFirst, Printed
<1>5. EndedLast'
  BY DEF MdigInv, MdigType, EndedLast
<1> QED
  BY <1>2, <1>3, <1>4, <1>5 DEF MdigInv

LEMMA MdigMain ==
  ASSUME MdigInv, Started \/ Join
  PROVE  MdigInv'
<1>1. UNCHANGED <<input, stdin, pc, cur, try, todo, out, resolved, failed, stats>>
  BY DEF Started, Join
<1>2. MdigType' /\ SharedOut' /\ Tallied' /\ PrintedFirst'
  BY <1>1 DEF MdigInv, MdigType, SharedOut, Tallied, PrintedFirst, Printed
<1>3. EndedLast'
  BY <1>1 DEF MdigInv, EndedLast, Started, Join
<1> QED
  BY <1>2, <1>3 DEF MdigInv

\* the counters of what threads have in hand
LEMMA StatsAreNat ==
  ASSUME MdigType
  PROVE  /\ Cardinality(At(pc, Busy \cup Counting)) \in Nat /\ Cardinality(At(pc, {"stat_ok"})) \in Nat
         /\ Len(input) \in Nat /\ Len(stdin) \in Nat /\ Len(resolved) \in Nat
         /\ stats.ct \in Nat /\ stats.ok \in Nat
<1>1. At(pc, Busy \cup Counting) \subseteq Threads /\ At(pc, {"stat_ok"}) \subseteq Threads
  BY DEF At
<1>2. Cardinality(At(pc, Busy \cup Counting)) \in Nat /\ Cardinality(At(pc, {"stat_ok"})) \in Nat
  BY <1>1, ThreadsNat
<1>3. /\ Len(input) \in Nat /\ Len(stdin) \in Nat /\ Len(resolved) \in Nat
      /\ stats.ct \in Nat /\ stats.ok \in Nat
  BY DEF MdigType
<1> QED
  BY <1>2, <1>3

\* A line is taken: from now on the thread accounts for it.
LEMMA MdigGet ==
  ASSUME MdigInv, NEW t \in Threads, GetDom(t), stdin # <<>>
  PROVE  MdigInv'
<1> DEFINE h == Head(stdin)
           v == CASE h.kind = "blank" -> "stat_bad"
                  [] h.kind = "bad" -> "log_bad"
                  [] h.kind = "net" -> "pass"
                  [] h.kind = "domain" -> "resolve"
<1>0. MdigType /\ pc \in [Threads -> Places] /\ stdin \in Seq(Lines) /\ cur \in [Threads -> Lines \cup {Blank}]
  BY DEF MdigInv, MdigType
<1>1. h \in Lines /\ h.kind \in {"blank", "net", "bad", "domain"}
  BY <1>0, MdigAssumption
<1>2. /\ cur' = [cur EXCEPT ![t] = h] /\ stdin' = Tail(stdin) /\ pc' = [pc EXCEPT ![t] = v]
      /\ pc[t] = "get"
      /\ UNCHANGED <<input, todo, out, resolved, failed, stats, mdig>>
  BY DEF GetDom
<1>3. /\ v \in Places /\ v \in Busy \cup Counting /\ v # "stat_ok" /\ v \notin {"print", "log_ok", "end", "none"}
      /\ v \in Busy <=> h.kind # "blank"
      /\ v = "pass" => h.kind = "net"
      /\ v = "resolve" => h.kind = "domain"
  BY <1>1 DEF Places, Busy, Counting
<1>4. pc[t] \notin Busy \cup Counting /\ pc[t] # "stat_ok"
  BY <1>2 DEF Busy, Counting
<1> HIDE DEF v
<1>5. MdigType'
  BY <1>0, <1>1, <1>2, <1>3 DEF MdigType
<1>6. SharedOut'
  <2> SUFFICES ASSUME NEW l \in Lines, l.kind # "blank"
               PROVE  (Count(input, l) = Count(stdin, l) + Cardinality(Holding(pc, cur, l))
                                           + Count(resolved, l) + Count(failed, l))'
    BY DEF SharedOut
  <2>1. Count(input, l) = Count(stdin, l) + Cardinality(Holding(pc, cur, l))
                             + Count(resolved, l) + Count(failed, l)
    BY DEF MdigInv, SharedOut
  <2>2. Count(stdin', l) = Count(stdin, l) - (IF h = l THEN 1 ELSE 0)
    BY <1>0, <1>2, CountTail
  <2>3. Holding(pc, cur, l) \subseteq Threads
    BY DEF Holding
  <2>4. CASE h = l
    <3>1. Holding(pc', cur', l) = Holding(pc, cur, l) \cup {t} /\ t \notin Holding(pc, cur, l)
      BY <1>0, <1>2, <1>3, <1>4, <2>4 DEF Holding
    <3>2. Cardinality(Holding(pc', cur', l)) = Cardinality(Holding(pc, cur, l)) + 1
      BY <2>3, <3>1, OneMore
    <3> HIDE DEF h
    <3> QED
      BY <1>0, <1>2, <2>1, <2>2, <2>4, <3>2, CountsAreNat
  <2>5. CASE h # l
    <3>1. Holding(pc', cur', l) = Holding(pc, cur, l)
      BY <1>0, <1>2, <1>3, <1>4, <2>5 DEF Holding
    <3> HIDE DEF h
    <3> QED
      BY <1>0, <1>2, <2>1, <2>2, <2>5, <3>1, CountsAreNat
  <2> QED
    BY <2>4, <2>5
<1>7. Tallied'
  <2>1. At(pc', Busy \cup Counting) = At(pc, Busy \cup Counting) \cup {t} /\ t \notin At(pc, Busy \cup Counting)
    BY <1>0, <1>2, <1>3, <1>4 DEF At
  <2>2. At(pc, Busy \cup Counting) \subseteq Threads
    BY DEF At
  <2>3. Cardinality(At(pc', Busy \cup Counting)) = Cardinality(At(pc, Busy \cup Counting)) + 1
    BY <2>1, <2>2, OneMore
  <2>4. At(pc', {"stat_ok"}) = At(pc, {"stat_ok"})
    BY <1>0, <1>2, <1>3, <1>4 DEF At
  <2>5. Len(stdin') = Len(stdin) - 1
    BY <1>0, <1>2
  <2> QED
    BY <1>0, <1>2, <2>3, <2>4, <2>5, StatsAreNat, SMTT(30) DEF Tallied, MdigInv
<1>8. PrintedFirst'
  BY <1>0, <1>2, <1>3 DEF MdigInv, PrintedFirst, Printed
<1>9. EndedLast'
  BY <1>0, <1>2, <1>3 DEF MdigInv, EndedLast
<1> QED
  BY <1>5, <1>6, <1>7, <1>8, <1>9 DEF MdigInv

\* Nothing is left to read.
LEMMA MdigEnd ==
  ASSUME MdigInv, NEW t \in Threads, GetDom(t), stdin = <<>>
  PROVE  MdigInv'
<1>1. /\ pc' = [pc EXCEPT ![t] = "end"] /\ pc[t] = "get"
      /\ UNCHANGED <<input, stdin, cur, todo, out, resolved, failed, stats, mdig>>
  BY DEF GetDom
<1>2. MdigType'
  BY <1>1 DEF MdigInv, MdigType, Places
<1>3. SharedOut' /\ Tallied'
  <2>1. pc[t] \notin Busy \cup Counting /\ "end" \notin Busy \cup Counting /\ "end" \in Places
    BY <1>1 DEF Busy, Counting, Places
  <2> QED
    BY <1>1, <2>1, Aside
<1>4. PrintedFirst'
  BY <1>1 DEF MdigInv, MdigType, PrintedFirst, Printed
<1>5. EndedLast'
  BY <1>1 DEF MdigInv, MdigType, EndedLast
<1> QED
  BY <1>2, <1>3, <1>4, <1>5 DEF MdigInv

\* Steps of a thread that keeps its line.
LEMMA MdigPass ==
  ASSUME MdigInv, NEW t \in Threads, PassThrough(t)
  PROVE  MdigInv'
<1>1. /\ pc' = [pc EXCEPT ![t] = "log_ok"] /\ pc[t] = "pass" /\ out' = out \cup {cur[t].net}
      /\ UNCHANGED <<input, stdin, cur, todo, resolved, failed, stats, mdig>>
  BY DEF PassThrough
<1>2. MdigType'
  BY <1>1 DEF MdigInv, MdigType, Places, Busy
<1>3. SharedOut' /\ Tallied'
  <2>1. pc[t] \in Busy /\ "log_ok" \in Busy /\ "log_ok" \in Places
    BY <1>1 DEF Busy, Places
  <2> QED
    BY <1>1, <2>1, Aside
<1>4. PrintedFirst'
  BY <1>1 DEF MdigInv, MdigType, PrintedFirst, Printed
<1>5. EndedLast'
  BY <1>1 DEF MdigInv, MdigType, EndedLast
<1> QED
  BY <1>2, <1>3, <1>4, <1>5 DEF MdigInv

LEMMA MdigResolve ==
  ASSUME MdigInv, NEW t \in Threads, Resolve(t)
  PROVE  MdigInv'
<1>1. PICK v \in {"print", "log_bad", "resolve"} :
        /\ pc' = [pc EXCEPT ![t] = v] /\ pc[t] = "resolve"
        /\ v = "print" => todo' = [todo EXCEPT ![t] = AddrsOf[cur[t].dom]]
        /\ v # "print" => UNCHANGED todo
  BY DEF Resolve, Again
<1>2. UNCHANGED <<input, stdin, cur, out, resolved, failed, stats, mdig>>
  BY DEF Resolve
<1>3. MdigType'
  <2>1. pc' \in [Threads -> Places]
    BY <1>1 DEF MdigInv, MdigType, Places, Busy
  <2>2. todo' = [u \in Threads |-> todo'[u]]
    BY <1>1 DEF MdigInv, MdigType
  <2> QED
    BY <1>2, <2>1, <2>2 DEF MdigInv, MdigType
<1>4. SharedOut' /\ Tallied'
  <2>1. pc[t] \in Busy /\ v \in Busy /\ v \in Places
    BY <1>1 DEF Busy, Places
  <2> QED
    BY <1>1, <1>2, <2>1, Aside
<1>5. PrintedFirst'
  BY <1>1, <1>2 DEF MdigInv, MdigType, PrintedFirst, Printed
<1>6. EndedLast'
  BY <1>1, <1>2 DEF MdigInv, MdigType, EndedLast
<1> QED
  BY <1>3, <1>4, <1>5, <1>6 DEF MdigInv

LEMMA MdigPrint ==
  ASSUME MdigInv, NEW t \in Threads, PrintAddr(t)
  PROVE  MdigInv'
<1>1. PICK v \in {"print", "log_ok"} :
        /\ pc' = [pc EXCEPT ![t] = v] /\ pc[t] = "print"
        /\ v = "log_ok" => todo[t] = {} /\ UNCHANGED <<todo, out>>
        /\ v = "print" => \E a \in todo[t] : out' = out \cup {a} /\ todo' = [todo EXCEPT ![t] = @ \ {a}]
  <2>1. pc[t] = "print" /\ pc \in [Threads -> Places]
    BY DEF PrintAddr, MdigInv, MdigType
  <2>2. CASE todo[t] = {}
    BY <2>1, <2>2 DEF PrintAddr
  <2>3. CASE todo[t] # {}
    <3>1. UNCHANGED pc /\ \E a \in todo[t] : out' = out \cup {a} /\ todo' = [todo EXCEPT ![t] = @ \ {a}]
      BY <2>3 DEF PrintAddr
    <3>2. pc' = [pc EXCEPT ![t] = "print"]
      BY <2>1, <3>1
    <3> QED
      BY <2>1, <3>1, <3>2
  <2> QED
    BY <2>2, <2>3
<1>2. UNCHANGED <<input, stdin, cur, resolved, failed, stats, mdig>> /\ out \subseteq out'
  BY <1>1 DEF PrintAddr
<1>3. MdigType'
  <2>1. pc' \in [Threads -> Places]
    BY <1>1 DEF MdigInv, MdigType, Places, Busy
  <2>2. todo' = [u \in Threads |-> todo'[u]]
    BY <1>1 DEF MdigInv, MdigType
  <2> QED
    BY <1>2, <2>1, <2>2 DEF MdigInv, MdigType
<1>4. SharedOut' /\ Tallied'
  <2>1. pc[t] \in Busy /\ v \in Busy /\ v \in Places
    BY <1>1 DEF Busy, Places
  <2> QED
    BY <1>1, <1>2, <2>1, Aside
<1>5. PrintedFirst'
  <2>1. pc \in [Threads -> Places] /\ todo = [u \in Threads |-> todo[u]]
    BY DEF MdigInv, MdigType
  <2>2. PrintedFirst
    BY DEF MdigInv
  <2>3. (\A i \in DOMAIN resolved : Printed(resolved[i]))'
    BY <1>2, <2>2 DEF PrintedFirst, Printed
  <2>4. \A u \in Threads \ {t} :
           /\ pc'[u] = pc[u] /\ todo'[u] = todo[u] /\ cur'[u] = cur[u]
           /\ pc[u] = "print" => AddrsOf[cur[u].dom] \subseteq out' \cup todo[u]
           /\ pc[u] = "log_ok" => Printed(cur[u])'
    BY <1>1, <1>2, <2>1, <2>2 DEF PrintedFirst, Printed
  <2>5. pc'[t] = v /\ cur'[t] = cur[t] /\ cur[t].kind = "domain" /\ AddrsOf[cur[t].dom] \subseteq out \cup todo[t]
    BY <1>1, <1>2, <2>1, <2>2 DEF PrintedFirst
  <2>6. CASE v = "log_ok"
    <3>1. Printed(cur[t])'
      BY <1>1, <1>2, <2>5, <2>6 DEF Printed
    <3> QED
      BY <1>2, <2>2, <2>3, <2>4, <2>5, <2>6, <3>1 DEF PrintedFirst
  <2>7. CASE v = "print"
    <3>1. AddrsOf[cur[t].dom] \subseteq out' \cup todo'[t]
      BY <1>1, <2>1, <2>5, <2>7
    <3> QED
      BY <1>2, <2>2, <2>3, <2>4, <2>5, <2>7, <3>1 DEF PrintedFirst
  <2> QED
    BY <2>6, <2>7
<1>6. EndedLast'
  BY <1>1, <1>2 DEF MdigInv, MdigType, EndedLast
<1> QED
  BY <1>3, <1>4, <1>5, <1>6 DEF MdigInv

\* A line goes from the thread to one of the logs.
LEMMA MdigLog ==
  ASSUME MdigInv, NEW t \in Threads, LogLine(t)
  PROVE  MdigInv'
<1> DEFINE ok == pc[t] = "log_ok"
           v == IF ok THEN "stat_ok" ELSE "stat_bad"
<1>0. MdigType /\ pc \in [Threads -> Places] /\ cur \in [Threads -> Lines \cup {Blank}]
      /\ resolved \in Seq(Lines \cup {Blank}) /\ failed \in Seq(Lines \cup {Blank})
  BY DEF MdigInv, MdigType
<1>1. /\ pc' = [pc EXCEPT ![t] = v] /\ pc[t] \in {"log_ok", "log_bad"}
      /\ resolved' = IF ok THEN Append(resolved, cur[t]) ELSE resolved
      /\ failed' = IF ok THEN failed ELSE Append(failed, cur[t])
      /\ UNCHANGED <<input, stdin, cur, todo, out, stats, mdig>>
  BY DEF LogLine
<1>2. /\ v \in Places /\ v \notin Busy /\ v \in Counting /\ v \notin {"none", "end", "pass", "resolve", "print", "log_ok"}
      /\ v = "stat_ok" <=> ok
      /\ pc[t] \in Busy /\ pc[t] # "stat_ok"
  BY <1>1 DEF Places, Busy, Counting
<1> HIDE DEF v, ok
<1>3. MdigType'
  <2>1. cur[t] \in Lines \cup {Blank}
    BY <1>0
  <2>2. resolved' \in Seq(Lines \cup {Blank}) /\ failed' \in Seq(Lines \cup {Blank})
    BY <1>0, <1>1, <2>1
  <2> QED
    BY <1>0, <1>1, <1>2, <2>2 DEF MdigType
<1>4. SharedOut'
  <2> SUFFICES ASSUME NEW l \in Lines, l.kind # "blank"
               PROVE  (Count(input, l) = Count(stdin, l) + Cardinality(Holding(pc, cur, l))
                                           + Count(resolved, l) + Count(failed, l))'
    BY DEF SharedOut
  <2>1. Count(input, l) = Count(stdin, l) + Cardinality(Holding(pc, cur, l))
                             + Count(resolved, l) + Count(failed, l)
    BY DEF MdigInv, SharedOut
  <2>2. cur[t] \in Lines \cup {Blank}
    BY <1>0
  <2>3. Count(resolved', l) = Count(resolved, l) + (IF ok /\ cur[t] = l THEN 1 ELSE 0)
    <3>1. Count(Append(resolved, cur[t]), l) = Count(resolved, l) + (IF cur[t] = l THEN 1 ELSE 0)
      BY <1>0, <2>2, CountAppend
    <3>2. Count(resolved, l) \in Nat
      BY <1>0, CountsAreNat
    <3> QED
      BY <1>1, <3>1, <3>2
  <2>4. Count(failed', l) = Count(failed, l) + (IF ~ok /\ cur[t] = l THEN 1 ELSE 0)
    <3>1. Count(Append(failed, cur[t]), l) = Count(failed, l) + (IF cur[t] = l THEN 1 ELSE 0)
      BY <1>0, <2>2, CountAppend
    <3>2. Count(failed, l) \in Nat
      BY <1>0, CountsAreNat
    <3> QED
      BY <1>1, <3>1, <3>2
  <2>5. Holding(pc, cur, l) \subseteq Threads
    BY DEF Holding
  <2>6. CASE cur[t] = l
    <3>1. Holding(pc', cur', l) = Holding(pc, cur, l) \ {t} /\ t \in Holding(pc, cur, l)
      BY <1>0, <1>1, <1>2, <2>6 DEF Holding
    <3>2. Cardinality(Holding(pc', cur', l)) = Cardinality(Holding(pc, cur, l)) - 1
      BY <2>5, <3>1, OneLess
    <3> QED
      BY <1>0, <1>1, <2>1, <2>3, <2>4, <2>6, <3>2, CountsAreNat
  <2>7. CASE cur[t] # l
    <3>1. Holding(pc', cur', l) = Holding(pc, cur, l)
      BY <1>0, <1>1, <1>2, <2>7 DEF Holding
    <3> QED
      BY <1>0, <1>1, <2>1, <2>3, <2>4, <2>7, <3>1, CountsAreNat
  <2> QED
    BY <2>6, <2>7
<1>5. Tallied'
  <2>1. At(pc', Busy \cup Counting) = At(pc, Busy \cup Counting)
    BY <1>0, <1>1, <1>2 DEF At
  <2>2. Cardinality(At(pc', {"stat_ok"})) = Cardinality(At(pc, {"stat_ok"})) + (IF ok THEN 1 ELSE 0)
    <3>1. CASE ok
      <4>1. At(pc', {"stat_ok"}) = At(pc, {"stat_ok"}) \cup {t} /\ t \notin At(pc, {"stat_ok"})
        BY <1>0, <1>1, <1>2, <3>1 DEF At
      <4>2. At(pc, {"stat_ok"}) \subseteq Threads
        BY DEF At
      <4> QED
        BY <3>1, <4>1, <4>2, OneMore
    <3>2. CASE ~ok
      <4>1. At(pc', {"stat_ok"}) = At(pc, {"stat_ok"})
        BY <1>0, <1>1, <1>2, <3>2 DEF At
      <4> QED
        BY <1>0, <3>2, <4>1, StatsAreNat
    <3> QED
      BY <3>1, <3>2
  <2>3. Len(resolved') = Len(resolved) + (IF ok THEN 1 ELSE 0)
    BY <1>0, <1>1
  <2> QED
    BY <1>0, <1>1, <2>1, <2>2, <2>3, StatsAreNat, SMTT(30) DEF Tallied, MdigInv
<1>6. PrintedFirst'
  <2>1. PrintedFirst
    BY DEF MdigInv
  <2>2. ok => Printed(cur[t])
    BY <2>1 DEF PrintedFirst, ok
  <2>3. \A i \in DOMAIN resolved' :
          \/ i \in DOMAIN resolved /\ resolved'[i] = resolved[i]
          \/ ok /\ resolved'[i] = cur[t]
    BY <1>0, <1>1
  <2>4. (\A i \in DOMAIN resolved : Printed(resolved[i]))'
    BY <1>1, <2>1, <2>2, <2>3 DEF PrintedFirst, Printed
  <2>5. pc'[t] = v /\ \A u \in Threads \ {t} : pc'[u] = pc[u]
    BY <1>0, <1>1
  <2> QED
    BY <1>1, <1>2, <2>1, <2>4, <2>5 DEF PrintedFirst, Printed
<1>7. EndedLast'
  BY <1>0, <1>1, <1>2 DEF MdigInv, EndedLast
<1> QED
  BY <1>3, <1>4, <1>5, <1>6, <1>7 DEF MdigInv

\* A line is counted after it was logged.
LEMMA MdigStat ==
  ASSUME MdigInv, NEW t \in Threads, StatPlus(t)
  PROVE  MdigInv'
<1> DEFINE ok == pc[t] = "stat_ok"
<1>0. MdigType /\ pc \in [Threads -> Places] /\ stats \in [ct : Nat, ok : Nat]
  BY DEF MdigInv, MdigType
<1>1. /\ pc' = [pc EXCEPT ![t] = "get"] /\ pc[t] \in Counting
      /\ stats' = [ct |-> stats.ct + 1, ok |-> stats.ok + (IF ok THEN 1 ELSE 0)]
      /\ UNCHANGED <<input, stdin, cur, todo, out, resolved, failed, mdig>>
  BY DEF StatPlus, stat_plus, Counting
<1>2. /\ "get" \in Places /\ "get" \notin Busy \cup Counting /\ pc[t] \notin Busy
      /\ pc[t] \notin {"none", "end"}
  BY <1>1 DEF Places, Busy, Counting
<1> HIDE DEF ok
<1>3. MdigType'
  BY <1>0, <1>1, <1>2 DEF MdigType
<1>4. SharedOut'
  <2>1. \A l : Holding(pc', cur', l) = Holding(pc, cur, l)
    BY <1>0, <1>1, <1>2 DEF Holding
  <2> QED
    BY <1>1, <2>1 DEF MdigInv, SharedOut
<1>5. Tallied'
  <2>1. At(pc', Busy \cup Counting) = At(pc, Busy \cup Counting) \ {t} /\ t \in At(pc, Busy \cup Counting)
    BY <1>0, <1>1, <1>2 DEF At
  <2>2. At(pc, Busy \cup Counting) \subseteq Threads /\ At(pc, {"stat_ok"}) \subseteq Threads
    BY DEF At
  <2>3. Cardinality(At(pc', Busy \cup Counting)) = Cardinality(At(pc, Busy \cup Counting)) - 1
    BY <2>1, <2>2, OneLess
  <2>4. Cardinality(At(pc', {"stat_ok"})) = Cardinality(At(pc, {"stat_ok"})) - (IF ok THEN 1 ELSE 0)
    <3>1. CASE ok
      <4>1. At(pc', {"stat_ok"}) = At(pc, {"stat_ok"}) \ {t} /\ t \in At(pc, {"stat_ok"})
        BY <1>0, <1>1, <3>1 DEF At, ok
      <4> QED
        BY <2>2, <3>1, <4>1, OneLess
    <3>2. CASE ~ok
      <4>1. At(pc', {"stat_ok"}) = At(pc, {"stat_ok"})
        BY <1>0, <1>1, <3>2 DEF At, ok
      <4> QED
        BY <1>0, <3>2, <4>1, StatsAreNat
    <3> QED
      BY <3>1, <3>2
  <2> DEFINE more == IF ok THEN 1 ELSE 0
             busy == Cardinality(At(pc, Busy \cup Counting))
             good == Cardinality(At(pc, {"stat_ok"}))
  <2>5. /\ more \in Nat /\ busy \in Nat /\ good \in Nat /\ stats.ct \in Nat /\ stats.ok \in Nat
        /\ Len(stdin) \in Nat
    BY <1>0, StatsAreNat DEF MdigType
  <2>6. stats'.ct = stats.ct + 1 /\ stats'.ok = stats.ok + more
    BY <1>1
  <2>7. Len(input) = Len(stdin) + busy + stats.ct /\ Len(resolved) = good + stats.ok
    BY DEF MdigInv, Tallied
  <2> HIDE DEF more
  <2>8. /\ Len(stdin) + busy + stats.ct = Len(stdin) + (busy - 1) + (stats.ct + 1)
        /\ good + stats.ok = (good - more) + (stats.ok + more)
    BY <2>5
  <2>9. /\ Cardinality(At(pc', Busy \cup Counting)) = busy - 1
        /\ Cardinality(At(pc', {"stat_ok"})) = good - more
    BY <2>3, <2>4 DEF more
  <2> HIDE DEF busy, good
  <2> QED
    BY <1>1, <2>6, <2>7, <2>8, <2>9 DEF Tallied
<1>6. PrintedFirst'
  BY <1>0, <1>1, <1>2 DEF MdigInv, PrintedFirst, Printed
<1>7. EndedLast'
  BY <1>0, <1>1, <1>2 DEF MdigInv, EndedLast
<1> QED
  BY <1>3, <1>4, <1>5, <1>6, <1>7 DEF MdigInv

LEMMA MdigStep ==
  ASSUME MdigInv, MdigNext
  PROVE  MdigInv'
<1>1. CASE Started \/ Join
  BY <1>1, MdigMain
<1>2. ASSUME NEW t \in Threads, StartThread(t) \/ ThreadStep(t)
      PROVE  MdigInv'
  BY <1>2, MdigStart, MdigGet, MdigEnd, MdigPass, MdigResolve, MdigPrint, MdigLog, MdigStat DEF ThreadStep
<1> QED
  BY <1>1, <1>2 DEF MdigNext

\* When the threads are joined nothing is on the way.
LEMMA JoinedAccounts == MdigInv => MdigAccounts
<1> SUFFICES ASSUME MdigInv, mdig = "done" PROVE MdigAccounts
  BY DEF MdigAccounts
<1>0. MdigType
  BY DEF MdigInv
<1>1. stdin = <<>> /\ \A t \in Threads : pc[t] \in {"none", "end"}
  BY DEF MdigInv, EndedLast
<1>2. At(pc, Busy \cup Counting) = {} /\ At(pc, {"stat_ok"}) = {} /\ \A l : Holding(pc, cur, l) = {}
  BY <1>1 DEF At, Holding, Busy, Counting
<1>3. Cardinality({}) = 0
  BY FS_EmptySet
<1>4. \A i \in DOMAIN input :
         input[i].kind # "blank" => Count(input, input[i]) = Count(resolved, input[i]) + Count(failed, input[i])
  <2> SUFFICES ASSUME NEW l \in Lines, l.kind # "blank"
               PROVE  Count(input, l) = Count(resolved, l) + Count(failed, l)
    BY <1>0 DEF MdigType
  <2>1. Count(input, l) = Count(stdin, l) + Cardinality(Holding(pc, cur, l))
                             + Count(resolved, l) + Count(failed, l)
    BY DEF MdigInv, SharedOut
  <2>2. Count(stdin, l) = 0 /\ Cardinality(Holding(pc, cur, l)) = 0
    BY <1>1, <1>2, <1>3, CountEmpty
  <2> QED
    BY <1>0, <2>1, <2>2, CountsAreNat
<1>5. stats = [ct |-> Len(input), ok |-> Len(resolved)]
  <2>1. Len(input) = stats.ct /\ Len(resolved) = stats.ok
    <3>1. Cardinality(At(pc, Busy \cup Counting)) = 0 /\ Cardinality(At(pc, {"stat_ok"})) = 0 /\ Len(stdin) = 0
      BY <1>1, <1>2, <1>3
    <3> QED
      BY <1>0, <3>1, StatsAreNat DEF MdigInv, Tallied
  <2> QED
    BY <1>0, <2>1 DEF MdigType
<1>6. \A i \in DOMAIN resolved : Printed(resolved[i])
  BY DEF MdigInv, PrintedFirst
<1> QED
  BY <1>4, <1>5, <1>6 DEF MdigAccounts, Printed

\* Whatever the threads of mdig interleave and the resolver answers, for every
\* number of threads and every input: when the threads are joined each line was
\* taken by exactly one of them and is in exactly one log as often as in the
\* input, the counters agree with the logs, and what a resolved line stands for
\* was printed (interlocked_get_dom, print_addrinfo, stat_plus, run_threads).
THEOREM EveryLineAccounted == Spec => []MdigAccounts
<1>1. Init => MdigInv
  BY MdigInitInv DEF Init
<1>2. MdigInv /\ [Next]_listVars => MdigInv'
  <2> SUFFICES ASSUME MdigInv, [Next]_listVars PROVE MdigInv'
    OBVIOUS
  <2>1. CASE MdigRuns
    BY <2>1, MdigStep DEF MdigRuns
  <2>2. CASE UNCHANGED mdigVars
    BY <2>2 DEF mdigVars, MdigInv, MdigType, SharedOut, Tallied, PrintedFirst, Printed, EndedLast
  <2> QED
    BY <2>1, <2>2 DEF Next, listVars, GetUser, Group, Ip2netRuns, LoadLine, LoadStep, Loaded, Ended
<1> QED
  BY <1>1, <1>2, JoinedAccounts, PTL DEF Spec

-----------------------------------------------------------------------------
(***************************************************************************)
(* The pipeline: what is loaded is what mdig printed, in subnets that have *)
(* earned it.                                                              *)
(***************************************************************************)

\* Induction: a set of natural numbers has a least element.
LEMMA LeastNat ==
  ASSUME NEW T, T \subseteq Nat, T # {}
  PROVE  \E n \in T : \A m \in T : n <= m
<1>1. IsWellFoundedOn({ss \in Nat \X Nat : ss[1] < ss[2]}, Nat)
  BY NatLessThanWellFounded DEF OpToRel
<1>2. PICK n \in T : \A m \in T : <<m, n>> \notin {ss \in Nat \X Nat : ss[1] < ss[2]}
  BY <1>1, WFMin
<1>3. ASSUME NEW m \in T PROVE n <= m
  <2>1. m \in Nat /\ n \in Nat /\ ~(m < n)
    BY <1>2
  <2> QED
    BY <2>1
<1> QED
  BY <1>3

\* Sorting: there is a sorted sequence of every finite set, by its least elements.
IsSorted(s, S) ==
    /\ s \in [1 .. Cardinality(S) -> S]
    /\ \A i, j \in 1 .. Cardinality(S) : i < j => s[i] < s[j]

LEMMA SortOne ==
  ASSUME NEW S, S \subseteq Nat, IsFiniteSet(S), NEW m \in S, \A x \in S : m <= x,
         NEW s, IsSorted(s, S \ {m})
  PROVE  \E t : IsSorted(t, S)
<1> DEFINE n == Cardinality(S)
           R == S \ {m}
           t == [i \in 1 .. n |-> IF i = 1 THEN m ELSE s[i - 1]]
<1>1. n \in Nat /\ Cardinality(R) = n - 1 /\ Cardinality(R) \in Nat
  BY FS_RemoveElement, FS_CardinalityType
<1> HIDE DEF n
<1>2. s \in [1 .. n - 1 -> R] /\ \A i, j \in 1 .. n - 1 : i < j => s[i] < s[j]
  BY <1>1 DEF IsSorted
<1>3. \A i \in 1 .. n : t[i] \in S
  BY <1>1, <1>2
<1>4. ASSUME NEW i \in 1 .. n, NEW j \in 1 .. n, i < j PROVE t[i] < t[j]
  <2>1. j - 1 \in 1 .. n - 1 /\ t[j] = s[j - 1] /\ s[j - 1] \in R
    BY <1>1, <1>2, <1>4
  <2>2. CASE i = 1
    <3>1. t[i] = m /\ m \in Nat /\ s[j - 1] \in Nat /\ m # s[j - 1] /\ m <= s[j - 1]
      BY <1>1, <2>1, <2>2
    <3> QED
      BY <2>1, <3>1
  <2>3. CASE i # 1
    <3>1. i - 1 \in 1 .. n - 1 /\ t[i] = s[i - 1] /\ i - 1 < j - 1
      BY <1>1, <1>4, <2>3
    <3> QED
      BY <1>2, <2>1, <3>1
  <2> QED
    BY <2>2, <2>3
<1>5. t \in [1 .. n -> S]
  BY <1>3
<1> HIDE DEF t
<1>6. IsSorted(t, S)
  BY <1>4, <1>5 DEF IsSorted, n
<1> QED
  BY <1>6

LEMMA CanSort ==
  ASSUME NEW S, S \subseteq Nat, IsFiniteSet(S)
  PROVE  \E s : IsSorted(s, S)
<1> DEFINE Can(n) == \A T \in SUBSET Nat : IsFiniteSet(T) /\ Cardinality(T) = n => \E s : IsSorted(s, T)
           Bads == {n \in Nat : ~Can(n)}
<1>1. Bads = {}
  <2> SUFFICES ASSUME Bads # {} PROVE FALSE
    OBVIOUS
  <2>1. PICK n \in Bads : \A k \in Bads : n <= k
    <3> HIDE DEF Can
    <3> QED
      BY LeastNat
  <2>2. PICK T \in SUBSET Nat : IsFiniteSet(T) /\ Cardinality(T) = n /\ ~\E s : IsSorted(s, T)
    OBVIOUS
  <2>3. CASE T = {}
    <3>1. IsSorted([i \in 1 .. 0 |-> 0], T)
      BY <2>3, FS_EmptySet DEF IsSorted
    <3> QED
      BY <2>2, <3>1
  <2>4. CASE T # {}
    <3>1. PICK m \in T : \A x \in T : m <= x
      BY <2>4, LeastNat
    <3>2. /\ IsFiniteSet(T \ {m}) /\ Cardinality(T \ {m}) = n - 1 /\ n - 1 \in Nat
      <4>1. IsFiniteSet(T \ {m}) /\ Cardinality(T \ {m}) = n - 1
        BY <2>2, FS_RemoveElement
      <4> QED
        BY <4>1, FS_CardinalityType
    <3>3. Can(n - 1)
      <4> HIDE DEF Can
      <4> QED
        BY <2>1, <3>2
    <3>4. PICK s : IsSorted(s, T \ {m})
      BY <3>2, <3>3
    <3> QED
      BY <2>2, <3>1, <3>4, SortOne
  <2> QED
    BY <2>3, <2>4
<1>2. Cardinality(S) \in Nat
  BY FS_CardinalityType
<1>3. Can(Cardinality(S))
  <2> HIDE DEF Can
  <2> QED
    BY <1>1, <1>2
<1> QED
  BY <1>3

LEMMA SortedIs ==
  ASSUME NEW S, S \subseteq Nat, IsFiniteSet(S)
  PROVE  LET s == SortedUnique(S)
             n == Cardinality(S)
         IN  /\ n \in Nat /\ s \in [1 .. n -> S]
             /\ \A i, j \in 1 .. n : i < j => s[i] < s[j]
             /\ \A a \in S : \E i \in 1 .. n : s[i] = a
<1> DEFINE s == SortedUnique(S)
           n == Cardinality(S)
<1>1. n \in Nat
  BY FS_CardinalityType
<1>2. \E t : IsSorted(t, S)
  BY CanSort
<1> HIDE DEF n
<1>3. s \in [1 .. n -> S] /\ \A i, j \in 1 .. n : i < j => s[i] < s[j]
  <2>1. \E t \in [1 .. n -> S] : \A i, j \in DOMAIN t : i < j => t[i] < t[j]
    BY <1>2 DEF IsSorted, n
  <2>2. s = CHOOSE t \in [1 .. n -> S] : \A i, j \in DOMAIN t : i < j => t[i] < t[j]
    BY DEF SortedUnique, n
  <2> HIDE DEF s
  <2> QED
    BY <2>1, <2>2
<1> HIDE DEF s
<1>4. s \in Injection(1 .. n, S)
  <2>1. ASSUME NEW i \in 1 .. n, NEW j \in 1 .. n, s[i] = s[j] PROVE i = j
    <3>1. s[i] \in Nat /\ s[j] \in Nat
      BY <1>3
    <3>2. ~(i < j) /\ ~(j < i)
      BY <1>3, <2>1, <3>1
    <3> QED
      BY <1>1, <3>2
  <2> QED
    BY <1>3, <2>1 DEF Injection, IsInjective
<1>5. Cardinality(1 .. n) = Cardinality(S)
  BY <1>1, FS_Interval DEF n
<1>6. s \in Surjection(1 .. n, S)
  BY <1>4, <1>5, FS_Injection
<1>7. \A a \in S : \E i \in 1 .. n : s[i] = a
  BY <1>6 DEF Surjection
<1> QED
  BY <1>1, <1>3, <1>7 DEF s, n

-----------------------------------------------------------------------------
(* Subnets                                                                 *)

Zcts == {0} \cup (ZctMin .. ZctMax)

LEMMA Sizes ==
  /\ 2^0 = 1
  /\ \A z \in Zcts : z \in 0 .. W /\ z \in Nat /\ 2^z \in Nat \ {0}
  BY Ip2netAssumption DEF Zcts

\* a residue and what it is taken from
LEMMA MaskedBy ==
  ASSUME NEW x \in Nat, NEW m \in Nat \ {0}
  PROVE  /\ x % m \in 0 .. m - 1 /\ x - (x % m) \in 0 .. x
         /\ (x - (x % m)) % m = 0
<1>1. x % m \in 0 .. m - 1
  OBVIOUS
<1>2. x - (x % m) \in 0 .. x
  <2>1. x % m <= x
    OBVIOUS
  <2> QED
    BY <1>1, <2>1
<1>3. (x - (x % m)) % m = 0
  <2>0. m \in Nat /\ m > 0
    OBVIOUS
  <2> QED
    BY ONLY x \in Nat, <2>0
<1> QED
  BY <1>1, <1>2, <1>3

LEMMA MaskedIs ==
  ASSUME NEW x \in 0 .. 2^W - 1, NEW z \in Zcts
  PROVE  /\ Masked(x, z) \in 0 .. x /\ Masked(x, z) \in 0 .. 2^W - 1
         /\ Masked(Masked(x, z), z) = Masked(x, z)
         /\ x \in NetOf([ip |-> Masked(x, z), zct |-> z])
         /\ z = 0 => Masked(x, z) = x
<1> DEFINE m == 2^z
           r == x % m
<1>0. 2^W \in Nat /\ x \in Nat
  BY Ip2netAssumption
<1>1. m \in Nat \ {0} /\ (z = 0 => m = 1)
  <2>1. z = 0 => m = 2^0
    OBVIOUS
  <2>2. m \in Nat \ {0}
    BY Sizes
  <2> HIDE DEF m
  <2> QED
    BY <2>1, <2>2, Sizes
<1> HIDE DEF m
<1>2. r \in 0 .. m - 1 /\ x - r \in 0 .. x /\ (x - r) % m = 0
  BY <1>0, <1>1, MaskedBy
<1> HIDE DEF r
<1>3. Masked(x, z) = x - r
  BY DEF Masked, m, r
<1>4. Masked(x - r, z) = (x - r) - ((x - r) % m)
  BY DEF Masked, m
<1>5. NetOf([ip |-> x - r, zct |-> z]) = x - r .. (x - r) + m - 1
  BY DEF NetOf, m
<1>6. z = 0 => r = 0
  BY <1>1, <1>2
<1> QED
  BY <1>0, <1>1, <1>2, <1>3, <1>4, <1>5, <1>6

\* the share, rounded down
LEMMA ShareOf ==
  ASSUME NEW x \in Nat, NEW d \in Nat \ {0}, NEW ct \in Nat, ct >= x \div d
  PROVE  (ct + 1) * d > x
<1>1. x \div d \in Nat /\ x < (x \div d) * d + d
  OBVIOUS
<1>2. (x \div d) * d + d = ((x \div d) + 1) * d
  BY <1>1
<1>3. ((x \div d) + 1) * d <= (ct + 1) * d
  <2> DEFINE q == x \div d
  <2>1. q \in Nat /\ q <= ct
    BY <1>1
  <2> HIDE DEF q
  <2>2. (q + 1) * d <= (ct + 1) * d
    BY <2>1
  <2> QED
    BY <2>2 DEF q
<1> DEFINE a == (x \div d) * d + d
           b == (ct + 1) * d
<1>4. x < a /\ a <= b /\ a \in Nat /\ b \in Nat
  BY <1>1, <1>2, <1>3
<1> HIDE DEF a, b
<1> QED
  BY <1>4 DEF b

\* enough addresses from a position on are enough
LEMMA EnoughAfterAll ==
  ASSUME NEW z \in ZctMin .. ZctMax, NEW ct \in Nat, Enough(ct, z), NEW all \in Nat, ct <= all
  PROVE  IF v6 THEN all >= V6Threshold ELSE (all + 1) * PctDiv > 2^z * PctMult
<1>0. V6Threshold \in Nat /\ PctDiv \in Nat \ {0} /\ PctMult \in Nat /\ 2^z \in Nat /\ 2^W \in Nat \ {0}
  BY Ip2netAssumption
<1>1. CASE v6
  BY <1>0, <1>1 DEF Enough
<1>2. CASE ~v6
  <2> DEFINE x == 2^z * PctMult
  <2>1. x \in Nat /\ x < 2^W
    <3> DEFINE p == 2^z
               q == 2^ZctMax
    <3>1. p \in Nat /\ q \in Nat /\ p <= q /\ q * PctMult < 2^W
      BY Ip2netAssumption
    <3> HIDE DEF p, q
    <3>2. p * PctMult <= q * PctMult /\ p * PctMult \in Nat /\ q * PctMult \in Nat
      BY <1>0, <3>1
    <3>3. p * PctMult < 2^W
      <4> DEFINE u == p * PctMult
                 v == q * PctMult
                 w == 2^W
      <4>1. u <= v /\ v < w /\ u \in Nat /\ v \in Nat /\ w \in Nat
        BY <1>0, <3>1, <3>2
      <4> HIDE DEF u, v, w
      <4>2. u < w
        BY <4>1
      <4> QED
        BY <4>2 DEF u, w
    <3> QED
      BY <3>2, <3>3 DEF p
  <2>2. ct >= (x % 2^W) \div PctDiv
    BY <1>2 DEF Enough
  <2> DEFINE w == 2^W
  <2>3. w \in Nat \ {0} /\ x < w
    BY <1>0, <2>1
  <2> HIDE DEF x, w
  <2>4. x % w = x
    BY <2>1, <2>3
  <2>5. ct >= x \div PctDiv
    BY <2>2, <2>4 DEF w
  <2>6. x \div PctDiv \in Nat
    BY <1>0, <2>1
  <2>7. all >= x \div PctDiv
    BY <2>5, <2>6
  <2>8. (all + 1) * PctDiv > x
    BY <1>0, <2>1, <2>7, ShareOf
  <2> QED
    BY <1>2, <2>8 DEF x
<1> QED
  BY <1>1, <1>2

-----------------------------------------------------------------------------
(* The invariant of the pipeline                                           *)

AllNets == [ip : 0 .. 2^W - 1, zct : 0 .. W - 1]
Subnets == {n \in out : n.zct > 0}

\* mdig prints what its lines stand for
PrintsLines ==
    /\ out \subseteq Printable
    /\ \A t \in Threads : pc[t] = "print" => todo[t] \subseteq Printable

\* The search has found a subnet of iplist[pos] with enough addresses from there on.
BestIs ==
    best # NoBest =>
      /\ pos <= Len(iplist)
      /\ best.zct \in ZctMin .. ZctMax /\ best.end \in pos + 1 .. Len(iplist) + 1
      /\ \A q \in pos .. best.end - 1 : iplist[q] \in NetOf([ip |-> Masked(iplist[pos], best.zct), zct |-> best.zct])
      /\ best.end - pos > 1 /\ Enough(best.end - pos, best.zct)

\* iplist has the single addresses in order; those before pos are in what was printed
Grouping ==
    stage = "ip2net" =>
      /\ iplist \in Seq(Ips)
      /\ \A i, j \in 1 .. Len(iplist) : i < j => iplist[i] < iplist[j]
      /\ \A a \in Ips : \E i \in 1 .. Len(iplist) : iplist[i] = a
      /\ pos \in 1 .. Len(iplist) + 1 /\ zct \in 0 .. ZctMax
      /\ BestIs
      /\ Subnets \subseteq nets /\ nets \subseteq out \cup Earned
      /\ \A q \in 1 .. pos - 1 : \E n \in nets : iplist[q] \in NetOf(n)

\* what was added or will be: all that was printed, and nothing that is not earned
Owed == added \cup {NetOf(n) : n \in lines}
Loading ==
    stage \in {"load", "ready"} =>
      /\ \A n \in out : \A a \in NetOf(n) : \E s \in Owed : a \in s
      /\ \A s \in Owed : \E n \in out \cup Earned : s = NetOf(n)

Before ==
    /\ stage \in {"mdig", "ip2net", "load", "ready", "failed"}
    /\ stage \in {"mdig", "ip2net"} => added = {} /\ lines = {} /\ adding = NoNet
    /\ stage = "mdig" => pos = 1 /\ zct = ZctMax /\ best = NoBest
    /\ stage = "ready" => lines = {} /\ adding = NoNet
    /\ v6 \in BOOLEAN

TightInv == MdigInv /\ TreeInv /\ PrintsLines /\ Grouping /\ Loading /\ Before

LEMMA PrintableIs ==
  /\ Printable \subseteq AllNets
  /\ \A n \in Printable : NetOf(n) \in Nets
  BY ListsAssumption DEF AllNets

LEMMA OutIs ==
  ASSUME PrintsLines
  PROVE  /\ out \subseteq AllNets
         /\ Ips \subseteq 0 .. 2^W - 1 /\ Ips \subseteq Nat /\ IsFiniteSet(Ips)
         /\ \A a \in Ips : [ip |-> a, zct |-> 0] \in out
<1>1. out \subseteq AllNets
  BY PrintableIs DEF PrintsLines
<1>2. Ips \subseteq 0 .. 2^W - 1
  BY <1>1 DEF Ips, AllNets
<1>3. 2^W \in Nat
  BY Ip2netAssumption
<1>4. IsFiniteSet(0 .. 2^W - 1)
  BY <1>3, FS_Interval
<1>5. IsFiniteSet(Ips)
  BY <1>2, <1>4, FS_Subset
<1>6. ASSUME NEW a \in Ips PROVE [ip |-> a, zct |-> 0] \in out
  <2>1. PICK n \in out : n.zct = 0 /\ n.ip = a
    BY DEF Ips
  <2>2. n = [ip |-> a, zct |-> 0]
    BY <1>1, <2>1 DEF AllNets
  <2> QED
    BY <2>1, <2>2
<1> QED
  BY <1>1, <1>2, <1>3, <1>5, <1>6

\* Subnets that were earned are prefixes.
LEMMA EarnedIs ==
  ASSUME NEW n \in Earned
  PROVE  NetOf(n) \in Nets
<1>1. /\ n \in [ip : 0 .. 2^W - 1, zct : ZctMin .. ZctMax] /\ n.ip = Masked(n.ip, n.zct)
  BY DEF Earned
<1>2. n = [ip |-> Masked(n.ip, n.zct), zct |-> n.zct]
  BY <1>1
<1> QED
  BY <1>1, <1>2, ListsAssumption

-----------------------------------------------------------------------------
(* mdig                                                                    *)

LEMMA PrintsStep ==
  ASSUME MdigInv, PrintsLines, MdigNext
  PROVE  PrintsLines' /\ out \subseteq out'
<1>0. MdigType /\ PrintedFirst
  BY DEF MdigInv
<1>1. CASE Started \/ Join
  BY <1>1 DEF Started, Join, PrintsLines
<1>2. ASSUME NEW t \in Threads, StartThread(t) \/ GetDom(t) \/ LogLine(t) \/ StatPlus(t)
      PROVE  PrintsLines' /\ out' = out
  <2>1. out' = out /\ todo' = todo /\ \A u \in Threads : pc'[u] = "print" => pc[u] = "print"
    <3>1. CASE StartThread(t) \/ LogLine(t) \/ StatPlus(t)
      BY <1>0, <3>1 DEF StartThread, LogLine, StatPlus, MdigType
    <3>2. CASE GetDom(t)
      <4>1. out' = out /\ todo' = todo
        BY <3>2 DEF GetDom
      <4>2. CASE stdin = <<>>
        BY <1>0, <3>2, <4>2 DEF GetDom, MdigType
      <4>3. CASE stdin # <<>>
        <5>1. Head(stdin) \in Lines
          BY <1>0, <4>3 DEF MdigType
        <5>2. Head(stdin).kind \in {"blank", "net", "bad", "domain"}
          BY <5>1, MdigAssumption
        <5>3. \E to \in {"stat_bad", "log_bad", "pass", "resolve"} : pc' = [pc EXCEPT ![t] = to]
          BY <3>2, <4>3, <5>2 DEF GetDom
        <5> QED
          BY <1>0, <4>1, <5>3 DEF MdigType
      <4> QED
        BY <4>1, <4>2, <4>3
    <3> QED
      BY <1>2, <3>1, <3>2
  <2> QED
    BY <2>1 DEF PrintsLines
<1>3. ASSUME NEW t \in Threads, PassThrough(t)
      PROVE  PrintsLines' /\ out \subseteq out'
  <2>1. cur[t] \in Lines /\ cur[t].kind = "net"
    BY <1>0, <1>3 DEF PassThrough, PrintedFirst, MdigType, Blank
  <2>2. cur[t].net \in Printable
    BY <2>1 DEF Printable
  <2>3. out' = out \cup {cur[t].net} /\ todo' = todo /\ \A u \in Threads : pc'[u] = "print" => pc[u] = "print"
    BY <1>0, <1>3 DEF PassThrough, MdigType
  <2> QED
    BY <2>2, <2>3 DEF PrintsLines
<1>4. ASSUME NEW t \in Threads, Resolve(t)
      PROVE  PrintsLines' /\ out \subseteq out'
  <2>1. cur[t] \in Lines /\ cur[t].kind = "domain"
    BY <1>0, <1>4 DEF Resolve, PrintedFirst, MdigType, Blank
  <2>2. AddrsOf[cur[t].dom] \subseteq Printable
    BY <2>1 DEF Printable
  <2>3. out' = out
    BY <1>4 DEF Resolve
  <2>4. \A u \in Threads : pc'[u] = "print" => todo'[u] \subseteq Printable
    <3>1. CASE pc' = [pc EXCEPT ![t] = "print"] /\ todo' = [todo EXCEPT ![t] = AddrsOf[cur[t].dom]]
      BY <1>0, <2>2, <3>1 DEF PrintsLines, MdigType
    <3>2. CASE todo' = todo /\ \A u \in Threads : pc'[u] = "print" => pc[u] = "print"
      BY <3>2 DEF PrintsLines
    <3> QED
      BY <1>0, <1>4, <3>1, <3>2 DEF Resolve, Again, MdigType
  <2> QED
    BY <2>3, <2>4 DEF PrintsLines
<1>5. ASSUME NEW t \in Threads, PrintAddr(t)
      PROVE  PrintsLines' /\ out \subseteq out'
  <2>1. CASE todo[t] = {}
    BY <1>0, <1>5, <2>1 DEF PrintAddr, PrintsLines, MdigType
  <2>2. CASE todo[t] # {}
    <3>1. PICK a \in todo[t] : out' = out \cup {a} /\ todo' = [todo EXCEPT ![t] = @ \ {a}] /\ pc' = pc
      BY <1>5, <2>2 DEF PrintAddr
    <3>2. a \in Printable
      BY <1>5 DEF PrintAddr, PrintsLines
    <3>3. \A u \in Threads : todo'[u] \subseteq todo[u]
      BY <1>0, <3>1 DEF MdigType
    <3> QED
      BY <3>1, <3>2, <3>3 DEF PrintsLines
  <2> QED
    BY <2>1, <2>2
<1> QED
  BY <1>1, <1>2, <1>3, <1>4, <1>5 DEF MdigNext, ThreadStep

-----------------------------------------------------------------------------
(* The steps of the pipeline                                               *)

\* what depends on out and v6 only
LEMMA SameNets ==
  ASSUME out' = out, v6' = v6
  PROVE  Ips' = Ips /\ Earned' = Earned /\ Subnets' = Subnets
<1>1. Ips' = Ips /\ Subnets' = Subnets
  BY DEF Ips, Subnets
<1> QED
  BY <1>1 DEF Earned, NetOf, Masked

LEMMA SamePrints ==
  ASSUME PrintsLines, UNCHANGED mdigVars
  PROVE  PrintsLines'
  BY DEF PrintsLines, mdigVars

LEMMA SameMdig ==
  ASSUME MdigInv, UNCHANGED mdigVars
  PROVE  MdigInv'
  BY DEF mdigVars, MdigInv, MdigType, SharedOut, Tallied, PrintedFirst, Printed, EndedLast

LEMMA SameTree ==
  ASSUME TreeInv, UNCHANGED ipsetVars
  PROVE  TreeInv'
  BY DEF ipsetVars, TreeInv, Held, Same

LEMMA TightMdig ==
  ASSUME TightInv, MdigRuns
  PROVE  TightInv'
<1>1. MdigInv' /\ PrintsLines'
  BY MdigStep, PrintsStep DEF TightInv, MdigRuns
<1>2. TreeInv'
  BY SameTree DEF TightInv, MdigRuns
<1>3. Grouping' /\ Loading'
  BY DEF MdigRuns, Grouping, Loading
<1>4. Before'
  BY DEF TightInv, MdigRuns, Before, ip2netVars, ipsetVars
<1> QED
  BY <1>1, <1>2, <1>3, <1>4 DEF TightInv

LEMMA TightGetUser ==
  ASSUME TightInv, GetUser
  PROVE  TightInv'
<1>0. out' = out /\ v6' = v6 /\ added' = added /\ added = {}
  BY DEF TightInv, GetUser, Before, mdigVars, ip2netVars, ipsetVars
<1>1. MdigInv' /\ PrintsLines' /\ TreeInv'
  BY SameMdig, SamePrints, SameTree DEF TightInv, GetUser
<1>2. Grouping'
  BY DEF GetUser, Grouping
<1>3. Loading'
  <2>1. CASE stage' = "failed"
    BY <2>1 DEF Loading
  <2>2. CASE stage' = "load" /\ lines' = out
    <3>1. Owed' = {NetOf(n) : n \in out}
      BY <1>0, <2>2 DEF Owed, NetOf
    <3> QED
      BY <1>0, <3>1 DEF Loading, NetOf
  <2> QED
    BY <2>1, <2>2 DEF GetUser
<1>4. Before'
  BY DEF TightInv, GetUser, Before, ip2netVars, ipsetVars
<1> QED
  BY <1>1, <1>2, <1>3, <1>4 DEF TightInv

LEMMA TightGroup ==
  ASSUME TightInv, Group
  PROVE  TightInv'
<1>0. /\ out' = out /\ v6' = v6 /\ UNCHANGED <<zct, best>>
      /\ pos' = 1 /\ zct = ZctMax /\ best = NoBest
      /\ iplist' = SortedUnique(Ips) /\ nets' = Subnets
  BY DEF TightInv, Group, Ip2netRead, Before, mdigVars, Ips, Subnets
<1>1. MdigInv' /\ PrintsLines' /\ TreeInv'
  BY SameMdig, SamePrints, SameTree DEF TightInv, Group
<1>2. Ips' = Ips /\ Earned' = Earned /\ Subnets' = Subnets
  BY <1>0, SameNets
<1>3. Grouping'
  <2> DEFINE n == Cardinality(Ips)
  <2>1. /\ n \in Nat /\ iplist' \in [1 .. n -> Ips]
        /\ \A i, j \in 1 .. n : i < j => iplist'[i] < iplist'[j]
        /\ \A a \in Ips : \E i \in 1 .. n : iplist'[i] = a
    BY <1>0, SortedIs, OutIs DEF TightInv
  <2> HIDE DEF n
  <2>2. iplist' \in Seq(Ips) /\ Len(iplist') = n
    BY <2>1
  <2>3. ZctMax \in 0 .. ZctMax
    BY Ip2netAssumption
  <2>4. BestIs'
    BY <1>0 DEF BestIs
  <2>5. Subnets \subseteq out
    BY DEF Subnets
  <2>6. 1 .. pos' - 1 = {}
    BY <1>0
  <2>7. pos' \in 1 .. Len(iplist') + 1
    BY <1>0, <2>1, <2>2
  <2> QED
    BY <1>0, <1>2, <2>1, <2>2, <2>3, <2>4, <2>5, <2>6, <2>7 DEF Grouping
<1>4. Loading'
  BY DEF Group, Loading
<1>5. Before'
  BY DEF TightInv, Group, Ip2netRead, Before, ipsetVars
<1> QED
  BY <1>1, <1>3, <1>4, <1>5 DEF TightInv

LEMMA GroupingIs ==
  ASSUME PrintsLines, Grouping, stage = "ip2net"
  PROVE  /\ iplist \in Seq(Ips) /\ Ips \subseteq Nat /\ Ips \subseteq 0 .. 2^W - 1
         /\ Len(iplist) \in Nat
         /\ pos <= Len(iplist) => pos \in 1 .. Len(iplist)
         /\ \A i, j \in 1 .. Len(iplist) : i < j => iplist[i] < iplist[j]
         /\ \A q \in 1 .. Len(iplist) : iplist[q] \in Ips /\ iplist[q] \in Nat /\ iplist[q] \in 0 .. 2^W - 1
<1>1. Ips \subseteq Nat /\ Ips \subseteq 0 .. 2^W - 1
  BY OutIs
<1>2. /\ iplist \in Seq(Ips) /\ pos \in 1 .. Len(iplist) + 1
      /\ \A i, j \in 1 .. Len(iplist) : i < j => iplist[i] < iplist[j]
  BY DEF Grouping
<1>3. Len(iplist) \in Nat /\ (pos <= Len(iplist) => pos \in 1 .. Len(iplist))
  BY <1>2
<1>4. \A q \in 1 .. Len(iplist) : iplist[q] \in Ips
  BY <1>2
<1> HIDE DEF Ips
<1> QED
  BY <1>1, <1>2, <1>3, <1>4

\* The position after the subnet exists, and what is before it is in the subnet.
LEMMA EndInIs ==
  ASSUME PrintsLines, Grouping, stage = "ip2net", pos <= Len(iplist), NEW z \in ZctMin .. ZctMax
  PROVE  /\ EndIn(z) \in pos + 1 .. Len(iplist) + 1
         /\ \A q \in pos .. EndIn(z) - 1 : iplist[q] \in NetOf([ip |-> Masked(iplist[pos], z), zct |-> z])
<1> DEFINE ps == {p \in pos + 1 .. Len(iplist) + 1 : p > Len(iplist) \/ iplist[p] > ip_end(z)}
<1>0. /\ iplist \in Seq(Ips) /\ Ips \subseteq Nat /\ Ips \subseteq 0 .. 2^W - 1
      /\ pos \in 1 .. Len(iplist) /\ Len(iplist) \in Nat
      /\ \A i, j \in 1 .. Len(iplist) : i < j => iplist[i] < iplist[j]
  BY GroupingIs
<1>1. iplist[pos] \in 0 .. 2^W - 1 /\ iplist[pos] \in Nat /\ \A q \in 1 .. Len(iplist) : iplist[q] \in Nat
  BY GroupingIs
<1>2. /\ Masked(iplist[pos], z) \in 0 .. iplist[pos]
      /\ iplist[pos] \in NetOf([ip |-> Masked(iplist[pos], z), zct |-> z])
  BY <1>1, MaskedIs DEF Zcts
<1>3. 2^z \in Nat
  BY Ip2netAssumption
<1> DEFINE net == NetOf([ip |-> Masked(iplist[pos], z), zct |-> z])
<1>4. net = Masked(iplist[pos], z) .. ip_end(z) /\ ip_end(z) \in Int
  BY <1>1, <1>2, <1>3 DEF NetOf, ip_end
<1>5. ps \subseteq Nat /\ Len(iplist) + 1 \in ps
  BY <1>0
<1>6. PICK p \in ps : \A m \in ps : p <= m
  <2> HIDE DEF ps
  <2> QED
    BY <1>5, LeastNat
<1>7. ASSUME NEW q \in pos + 1 .. p - 1 PROVE iplist[q] <= ip_end(z)
  <2>1. q \notin ps /\ q \in 1 .. Len(iplist)
    BY <1>0, <1>6
  <2> QED
    BY <1>0, <1>1, <1>4, <2>1
<1>8. /\ EndIn(z) \in pos + 1 .. Len(iplist) + 1
      /\ \A q \in pos + 1 .. EndIn(z) - 1 : iplist[q] <= ip_end(z)
  <2>1. \E e \in pos + 1 .. Len(iplist) + 1 :
           /\ e > Len(iplist) \/ iplist[e] > ip_end(z)
           /\ \A q \in pos + 1 .. e - 1 : iplist[q] <= ip_end(z)
    BY <1>6, <1>7
  <2> QED
    BY <2>1 DEF EndIn
<1>9. ASSUME NEW q \in pos .. EndIn(z) - 1 PROVE iplist[q] \in net
  <2>1. CASE q = pos
    BY <1>2, <2>1
  <2>2. CASE q # pos
    <3>1. q \in pos + 1 .. EndIn(z) - 1 /\ q \in 1 .. Len(iplist) /\ pos < q
      BY <1>0, <1>8, <2>2
    <3>2. iplist[pos] < iplist[q] /\ iplist[q] \in Nat /\ iplist[q] <= ip_end(z)
      BY <1>0, <1>1, <1>8, <3>1
    <3> QED
      BY <1>1, <1>2, <1>4, <3>2
  <2> QED
    BY <2>1, <2>2
<1> QED
  BY <1>8, <1>9

LEMMA TightTry ==
  ASSUME TightInv, stage = "ip2net", Try, UNCHANGED <<stage, lines, mdigVars, ipsetVars>>
  PROVE  TightInv'
<1>0. out' = out /\ UNCHANGED <<v6, iplist, pos, nets>> /\ pos <= Len(iplist) /\ zct >= ZctMin
  BY DEF Try, mdigVars
<1>1. MdigInv' /\ PrintsLines' /\ TreeInv'
  BY SameMdig, SamePrints, SameTree DEF TightInv
<1>2. Ips' = Ips /\ Earned' = Earned /\ Subnets' = Subnets
  BY <1>0, SameNets
<1>3. Grouping /\ PrintsLines /\ zct \in ZctMin .. ZctMax /\ zct - 1 \in 0 .. ZctMax /\ 0 \in 0 .. ZctMax
  BY <1>0, Ip2netAssumption DEF TightInv, Grouping
<1>4. zct' \in 0 .. ZctMax
  BY <1>3 DEF Try
<1> DEFINE end == EndIn(zct)
<1>5. /\ end \in pos + 1 .. Len(iplist) + 1
      /\ \A q \in pos .. end - 1 : iplist[q] \in NetOf([ip |-> Masked(iplist[pos], zct), zct |-> zct])
  BY <1>0, <1>3, EndInIs
<1>6. BestIs'
  <2>1. CASE best' = best
    BY <1>0, <1>3, <2>1 DEF BestIs, Grouping, Enough, Masked, NetOf
  <2>2. CASE best' # best
    <3>1. best' = [ct |-> end - pos, zct |-> zct, end |-> end] /\ end - pos > 1 /\ Enough(end - pos, zct)
      BY <2>2 DEF Try
    <3> HIDE DEF end
    <3> QED
      BY <1>0, <1>3, <1>5, <3>1 DEF BestIs, Enough, Masked, NetOf
  <2> QED
    BY <2>1, <2>2
<1>7. Grouping'
  BY <1>0, <1>2, <1>3, <1>4, <1>6 DEF Grouping, NetOf
<1>8. Loading' /\ Before'
  BY <1>0 DEF TightInv, Loading, Before, ipsetVars
<1> QED
  BY <1>1, <1>7, <1>8 DEF TightInv

\* The addresses from a position up to another are among those of a subnet.
LEMMA CountUpTo ==
  ASSUME NEW S, IsFiniteSet(S), NEW s, NEW a \in Nat, NEW b \in Nat, a < b,
         \A i \in a .. b - 1 : s[i] \in S /\ s[i] \in Nat,
         \A i, j \in a .. b - 1 : i < j => s[i] < s[j]
  PROVE  Cardinality(S) \in Nat /\ b - a <= Cardinality(S)
<1> DEFINE f == [i \in a .. b - 1 |-> s[i]]
<1>1. f \in [a .. b - 1 -> S]
  OBVIOUS
<1>2. ASSUME NEW i \in a .. b - 1, NEW j \in a .. b - 1, f[i] = f[j] PROVE i = j
  <2>1. s[i] = s[j] /\ s[i] \in Nat
    BY <1>2
  <2>2. ~(i < j) /\ ~(j < i)
    BY <2>1
  <2> QED
    BY <2>2
<1> HIDE DEF f
<1>3. f \in Injection(a .. b - 1, S)
  BY <1>1, <1>2 DEF Injection, IsInjective
<1>4. Cardinality(a .. b - 1) <= Cardinality(S)
  BY <1>3, FS_Injection
<1>5. Cardinality(a .. b - 1) = b - a
  BY FS_Interval
<1> QED
  BY <1>4, <1>5, FS_CardinalityType

LEMMA BestIsEarned ==
  ASSUME PrintsLines, Grouping, stage = "ip2net", best # NoBest, v6 \in BOOLEAN
  PROVE  [ip |-> Masked(iplist[pos], best.zct), zct |-> best.zct] \in Earned
<1> DEFINE z == best.zct
           n == [ip |-> Masked(iplist[pos], z), zct |-> z]
           ct == best.end - pos
           all == Cardinality(NetOf(n) \cap Ips)
<1>1. BestIs
  BY DEF Grouping
<1>2. /\ pos \in 1 .. Len(iplist) /\ z \in ZctMin .. ZctMax /\ best.end \in pos + 1 .. Len(iplist) + 1
      /\ Len(iplist) \in Nat /\ ct > 1 /\ Enough(ct, z)
      /\ \A q \in pos .. best.end - 1 : iplist[q] \in NetOf(n)
  BY <1>1, GroupingIs DEF BestIs
<1>3. iplist[pos] \in 0 .. 2^W - 1 /\ z \in Zcts
  BY <1>2, GroupingIs DEF Zcts
<1>4. n \in [ip : 0 .. 2^W - 1, zct : ZctMin .. ZctMax] /\ n.ip = Masked(n.ip, n.zct)
  BY <1>2, <1>3, MaskedIs
<1>5. IsFiniteSet(NetOf(n) \cap Ips)
  <2>1. IsFiniteSet(Ips)
    BY OutIs
  <2> QED
    BY <2>1, FS_Subset
<1>6. pos \in Nat /\ best.end \in Nat /\ pos < best.end /\ ct \in Nat
  BY <1>2
<1>7. /\ \A i \in pos .. best.end - 1 : i \in 1 .. Len(iplist)
  BY <1>2
<1>8. /\ \A i \in pos .. best.end - 1 : iplist[i] \in NetOf(n) \cap Ips /\ iplist[i] \in Nat
      /\ \A i, j \in pos .. best.end - 1 : i < j => iplist[i] < iplist[j]
  <2> HIDE DEF n
  <2> QED
    BY <1>2, <1>7, GroupingIs
<1>9. all \in Nat /\ ct <= all
  <2> HIDE DEF n
  <2> QED
    BY <1>5, <1>6, <1>8, CountUpTo
<1>10. IF v6 THEN all >= V6Threshold ELSE (all + 1) * PctDiv > 2^z * PctMult
  <2> HIDE DEF all, ct, z
  <2> QED
    BY <1>2, <1>6, <1>9, EnoughAfterAll
<1>11. all > 1
  <2> HIDE DEF all, ct
  <2> QED
    BY <1>2, <1>6, <1>9
<1> QED
  BY <1>4, <1>10, <1>11 DEF Earned

LEMMA TightPrint ==
  ASSUME TightInv, stage = "ip2net", PrintNet, UNCHANGED <<stage, lines, mdigVars, ipsetVars>>
  PROVE  TightInv'
<1> DEFINE n == [ip |-> Masked(iplist[pos], best.zct), zct |-> best.zct]
<1>0. /\ out' = out /\ UNCHANGED <<v6, iplist>> /\ pos <= Len(iplist)
      /\ nets' = nets \cup {n} /\ pos' = PosEnd /\ zct' = ZctMax /\ best' = NoBest
  BY DEF PrintNet, mdigVars
<1>1. MdigInv' /\ PrintsLines' /\ TreeInv'
  BY SameMdig, SamePrints, SameTree DEF TightInv
<1>2. Ips' = Ips /\ Earned' = Earned /\ Subnets' = Subnets
  BY <1>0, SameNets
<1>3. Grouping /\ PrintsLines /\ v6 \in BOOLEAN /\ BestIs
  BY DEF TightInv, Before, Grouping
<1>4. /\ pos \in 1 .. Len(iplist) /\ Len(iplist) \in Nat
      /\ iplist[pos] \in 0 .. 2^W - 1 /\ iplist[pos] \in Ips
  BY <1>0, <1>3, GroupingIs
<1>5. /\ n \in out \cup Earned /\ pos' \in pos + 1 .. Len(iplist) + 1
      /\ \A q \in pos .. pos' - 1 : iplist[q] \in NetOf(n)
  <2>1. CASE best = NoBest
    <3>1. best.zct = 0 /\ pos' = pos + 1
      BY <1>0, <2>1 DEF PosEnd, NoBest
    <3>2. n = [ip |-> iplist[pos], zct |-> 0] /\ iplist[pos] \in NetOf(n)
      BY <1>4, <3>1, MaskedIs DEF Zcts
    <3>3. n \in out
      BY <1>3, <1>4, <3>2, OutIs
    <3> HIDE DEF n
    <3> QED
      BY <1>4, <3>1, <3>2, <3>3
  <2>2. CASE best # NoBest
    <3>1. n \in Earned
      BY <1>3, <2>2, BestIsEarned
    <3>2. best.zct \in ZctMin .. ZctMax /\ best.end \in pos + 1 .. Len(iplist) + 1
      BY <1>3, <2>2 DEF BestIs
    <3>3. best.zct # 0
      BY <3>2, Ip2netAssumption
    <3>4. pos' = best.end
      BY <1>0, <3>3 DEF PosEnd
    <3>5. \A q \in pos .. best.end - 1 : iplist[q] \in NetOf(n)
      BY <1>3, <2>2 DEF BestIs
    <3> HIDE DEF n
    <3> QED
      BY <3>1, <3>2, <3>4, <3>5
  <2> QED
    BY <2>1, <2>2
<1> HIDE DEF n
<1>6. \A q \in 1 .. pos' - 1 : \E m \in nets' : iplist[q] \in NetOf(m)
  <2>0. PICK e \in pos + 1 .. Len(iplist) + 1 : e = pos'
    BY <1>5
  <2>1. \A q \in pos .. e - 1 : iplist[q] \in NetOf(n)
    BY <1>5, <2>0
  <2>2. ASSUME NEW q \in 1 .. e - 1 PROVE \E m \in nets' : iplist[q] \in NetOf(m)
    <3>1. CASE q < pos
      <4>1. q \in 1 .. pos - 1
        BY <1>4, <3>1
      <4> QED
        BY <1>0, <1>3, <4>1 DEF Grouping
    <3>2. CASE q >= pos
      <4>1. q \in pos .. e - 1
        <5>1. pos \in Int /\ e \in Int /\ q \in Int
          BY <1>4
        <5>2. q <= e - 1
          BY <5>1
        <5> QED
          BY <3>2, <5>1, <5>2
      <4> QED
        BY <1>0, <2>1, <4>1
    <3> QED
      BY <1>4, <3>1, <3>2
  <2> QED
    BY <2>0, <2>2
<1>7. BestIs' /\ zct' \in 0 .. ZctMax /\ pos' \in 1 .. Len(iplist) + 1
  BY <1>0, <1>4, <1>5, Ip2netAssumption DEF BestIs
<1>8. Subnets \subseteq nets' /\ nets' \subseteq out \cup Earned
  BY <1>0, <1>3, <1>5 DEF Grouping
<1>9. Grouping'
  BY <1>0, <1>2, <1>3, <1>6, <1>7, <1>8 DEF Grouping, NetOf
<1>10. Loading' /\ Before'
  BY <1>0 DEF TightInv, Loading, Before, ipsetVars
<1> QED
  BY <1>1, <1>9, <1>10 DEF TightInv

\* ip2net ends: every single address is in what was printed
LEMMA TightGrouped ==
  ASSUME TightInv, stage = "ip2net", pos > Len(iplist), stage' = "load", lines' = nets,
         UNCHANGED <<ip2netVars, mdigVars, ipsetVars>>
  PROVE  TightInv'
<1>0. out' = out /\ v6' = v6 /\ added' = added /\ added = {}
  BY DEF TightInv, Before, mdigVars, ip2netVars, ipsetVars
<1>1. MdigInv' /\ PrintsLines' /\ TreeInv'
  BY SameMdig, SamePrints, SameTree DEF TightInv
<1>2. Earned' = Earned
  BY <1>0, SameNets
<1>3. Grouping /\ PrintsLines
  BY DEF TightInv
<1>4. Owed' = {NetOf(n) : n \in nets}
  BY <1>0 DEF Owed, NetOf
<1>5. ASSUME NEW n \in out, NEW a \in NetOf(n) PROVE \E m \in nets : a \in NetOf(m)
  <2>1. n \in AllNets
    BY <1>3, OutIs
  <2>2. CASE n.zct > 0
    BY <1>3, <2>2 DEF Grouping, Subnets
  <2>3. CASE ~(n.zct > 0)
    <3>1. n.zct = 0 /\ n.ip \in Int
      BY <2>1, <2>3 DEF AllNets
    <3>2. a = n.ip
      <4>1. NetOf(n) = n.ip .. n.ip + 2^0 - 1
        BY <3>1 DEF NetOf
      <4>2. 2^0 = 1
        BY Sizes
      <4> QED
        BY <3>1, <4>1, <4>2
    <3>3. a \in Ips
      BY <3>1, <3>2 DEF Ips
    <3>4. PICK i \in 1 .. Len(iplist) : iplist[i] = a
      BY <1>3, <3>3 DEF Grouping
    <3>5. i \in 1 .. pos - 1
      <4>1. pos \in 1 .. Len(iplist) + 1 /\ Len(iplist) \in Nat
        BY <1>3 DEF Grouping
      <4> QED
        BY <4>1
    <3> QED
      BY <1>3, <3>4, <3>5 DEF Grouping
  <2> QED
    BY <2>2, <2>3
<1>6. nets \subseteq out \cup Earned
  BY <1>3 DEF Grouping
<1>7. Loading'
  <2>1. \A n \in out : \A a \in NetOf(n) : \E s \in Owed' : a \in s
    BY <1>4, <1>5
  <2>2. \A s \in Owed' : \E n \in out \cup Earned : s = NetOf(n)
    BY <1>4, <1>6
  <2> QED
    BY <1>0, <1>2, <2>1, <2>2 DEF Loading, NetOf
<1>8. Grouping' /\ Before'
  BY DEF TightInv, Grouping, Before, ip2netVars, ipsetVars
<1> QED
  BY <1>1, <1>7, <1>8 DEF TightInv

\* Loading keeps what is owed.
LEMMA TightLoad ==
  ASSUME TightInv, LoadLine \/ LoadStep \/ Loaded
  PROVE  TightInv'
<1>0. out' = out /\ v6' = v6 /\ stage = "load"
  BY DEF LoadLine, LoadStep, Loaded, mdigVars, ip2netVars
<1>1. MdigInv' /\ PrintsLines'
  BY SameMdig, SamePrints DEF TightInv, LoadLine, LoadStep, Loaded
<1>2. Earned' = Earned
  BY <1>0, SameNets
<1>3. TreeInv' /\ Owed' = Owed
  <2>1. CASE LoadLine
    <3>1. PICK n \in lines : ipset_kavl_add(NetOf(n)) /\ lines' = lines \ {n}
      BY <2>1 DEF LoadLine
    <3>2. NetOf(n) \in Nets
      <4>1. PICK m \in out \cup Earned : NetOf(n) = NetOf(m)
        BY <1>0 DEF TightInv, Loading, Owed
      <4> QED
        BY <4>1, PrintableIs, EarnedIs DEF TightInv, PrintsLines
    <3>3. TreeInv'
      BY <3>1, <3>2, AddTree DEF TightInv
    <3>4. added' = added \cup {NetOf(n)}
      BY <3>1 DEF ipset_kavl_add
    <3> QED
      BY <3>1, <3>3, <3>4 DEF Owed, NetOf
  <2>2. CASE LoadStep
    BY <2>2, InsertTree, DropTree, EvictTree
       DEF LoadStep, TightInv, Owed, kavl_insert, FoundShorter, FoundLonger, NetOf
  <2>3. CASE Loaded
    BY <2>3, SameTree DEF Loaded, TightInv, Owed, ipsetVars, NetOf
  <2> QED
    BY <2>1, <2>2, <2>3
<1>4. Loading'
  BY <1>0, <1>2, <1>3 DEF TightInv, Loading, NetOf
<1>5. Grouping'
  BY <1>0 DEF Grouping, LoadLine, LoadStep, Loaded
<1>6. Before'
  BY <1>0 DEF TightInv, Before, LoadLine, LoadStep, Loaded, ip2netVars, ipsetVars
<1> QED
  BY <1>1, <1>3, <1>4, <1>5, <1>6 DEF TightInv

LEMMA TightInit == Init => TightInv
<1> SUFFICES ASSUME Init PROVE TightInv
  OBVIOUS
<1>1. MdigInv /\ TreeInv
  BY MdigInitInv, InitTree DEF Init
<1>2. PrintsLines
  BY DEF Init, MdigInit, PrintsLines
<1>3. Grouping /\ Loading /\ Before
  BY DEF Init, Ip2netInit, IpsetInit, Grouping, Loading, Before
<1> QED
  BY <1>1, <1>2, <1>3 DEF TightInv

LEMMA TightStays ==
  ASSUME TightInv, UNCHANGED listVars
  PROVE  TightInv'
<1>0. UNCHANGED <<mdigVars, ip2netVars, ipsetVars, stage, lines>>
  BY DEF listVars
<1>1. MdigInv' /\ PrintsLines' /\ TreeInv'
  BY <1>0, SameMdig, SamePrints, SameTree DEF TightInv
<1>2. Ips' = Ips /\ Earned' = Earned /\ Subnets' = Subnets
  BY <1>0, SameNets DEF mdigVars, ip2netVars
<1>3. Grouping'
  BY <1>0, <1>2 DEF TightInv, Grouping, BestIs, Enough, Masked, NetOf, mdigVars, ip2netVars
<1>4. Loading' /\ Before'
  BY <1>0, <1>2 DEF TightInv, Loading, Before, Owed, NetOf, mdigVars, ip2netVars, ipsetVars
<1> QED
  BY <1>1, <1>3, <1>4 DEF TightInv

LEMMA TightStep ==
  ASSUME TightInv, [Next]_listVars
  PROVE  TightInv'
<1>1. CASE Ip2netRuns
  <2>1. CASE pos > Len(iplist)
    BY <1>1, <2>1, TightGrouped DEF Ip2netRuns
  <2>2. CASE ~(pos > Len(iplist))
    BY <1>1, <2>2, TightTry, TightPrint DEF Ip2netRuns
  <2> QED
    BY <2>1, <2>2
<1>2. CASE Ended \/ UNCHANGED listVars
  BY <1>2, TightStays DEF Ended
<1> QED
  BY <1>1, <1>2, TightMdig, TightGetUser, TightGroup, TightLoad DEF Next

LEMMA LoadedIsTight == TightInv => ListIsTight
<1> SUFFICES ASSUME TightInv, stage = "ready" PROVE ListIsTight
  BY DEF ListIsTight
<1>1. adding = NoNet /\ Owed = added
  BY DEF TightInv, Before, Owed
<1>2. UNION tree = UNION added
  BY <1>1 DEF TightInv, TreeInv, Held
<1>3. ASSUME NEW n \in out, NEW a \in NetOf(n) PROVE IpsetHas(a)
  <2>1. \E s \in added : a \in s
    BY <1>1 DEF TightInv, Loading
  <2>2. a \in UNION tree
    BY <1>2, <2>1
  <2> QED
    BY <2>2 DEF IpsetHas
<1>4. ASSUME NEW a \in UNION tree
      PROVE  \/ \E n \in out : a \in NetOf(n)
             \/ \E n \in Earned : a \in NetOf(n) /\ NetOf(n) \subseteq UNION tree
  <2>1. PICK s \in added : a \in s
    BY <1>2
  <2>2. PICK n \in out \cup Earned : s = NetOf(n)
    BY <1>1 DEF TightInv, Loading
  <2>3. NetOf(n) \subseteq UNION tree
    BY <1>2, <2>1, <2>2
  <2> QED
    BY <2>1, <2>2, <2>3
<1> QED
  BY <1>3, <1>4 DEF ListIsTight

\* For every list, threshold and word size, and whatever mdig's threads did: the
\* ipset that is loaded has all addresses that were printed, and of others only
\* those of subnets with the wanted share or number of them (ip2net's main,
\* AppendIpset).
THEOREM LoadedAsEarned == Spec => []ListIsTight
  BY TightInit, TightStep, LoadedIsTight, PTL DEF Spec

\* The same tree is exact in the pipeline, whose lines are prefixes.
THEOREM PipelineTreeExact == Spec => []IpsetIsExact
<1>1. TightInv => IpsetIsExact
  BY DEF TightInv, TreeInv, IpsetIsExact, Held
<1> QED
  BY TightInit, TightStep, <1>1, PTL DEF Spec
=============================================================================
