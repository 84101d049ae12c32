------------------------- MODULE AutoHostlist_proof -------------------------
(***************************************************************************)
(* The auto hostlist, for every set of flows and hosts, every threshold    *)
(* and every number of foreign edits.                                      *)
(***************************************************************************)
EXTENDS AutoHostlist, TLAPS

FlowRecord == [proto : {"tcp", "udp"}, host : Hosts \cup {None}, ah : BOOLEAN,
               final : BOOLEAN, retrans : Int, out : Nat, in : Nat]

\* A flow is watched only for a host that is known.
FlowInv ==
    /\ flow \in [Flows -> FlowRecord]
    /\ \A f \in Flows : flow[f].ah => flow[f].host \in Hosts

LEMMA MinPair ==
    ASSUME NEW a \in Int, NEW b \in Int
    PROVE  Min({a, b}) = IF a <= b THEN a ELSE b
  <1> DEFINE m == IF a <= b THEN a ELSE b
  <1>1. m \in {a, b} /\ \A y \in {a, b} : m <= y
    OBVIOUS
  <1>2. \A x \in {a, b} : (\A y \in {a, b} : x <= y) => x = m
    OBVIOUS
  <1> HIDE DEF m
  <1>3. Min({a, b}) = m
    BY <1>1, <1>2 DEF Min
  <1> QED BY <1>3 DEF m

\* The flow after a packet is a flow, with the decision it had.
LEMMA CountPacketType ==
    ASSUME NEW c \in FlowRecord, NEW dir
    PROVE  LET d == CountPacket(c, dir)
           IN  /\ d \in FlowRecord /\ d.final = c.final /\ d.ah = c.ah /\ d.host = c.host
               /\ d.proto = c.proto
  <1>1. c.out \in Nat /\ c.in \in Nat /\ UdpOut \in Nat /\ UdpIn \in Nat
    BY AutoHostlistAssumption DEF FlowRecord
  <1>2. Min({c.out + 1, UdpOut}) \in Nat /\ Min({c.in + 1, UdpIn + 1}) \in Nat
    BY <1>1, MinPair
  <1> QED BY <1>1, <1>2 DEF CountPacket, FlowRecord

-----------------------------------------------------------------------------
(* What a packet does: it moves one flow, and leaves the pool and the list *)
(* alone but for the purge and the reload, or decides.                     *)

\* c is what the packet makes of flow f; l is the list it has seen
PacketStep(f, c, l) ==
    /\ Prolog
    /\ c \in FlowRecord /\ c.final = flow[f].final /\ (c.ah => c.host \in Hosts)
    /\ l \in {list, Reloaded}
    /\ \/ flow' = [flow EXCEPT ![f] = c] /\ Undecided(l)
       \/ Watched(c) /\ \E outcome : Decide(f, c, outcome, l)

Packets ==
    \/ \E f \in Flows : \E c, l : PacketStep(f, c, l)
    \/ Prolog /\ Undecided(list) /\ UNCHANGED flow

LEMMA UdpFailStep ==
    ASSUME NEW f, NEW c \in FlowRecord, NEW l, Prolog, process_udp_fail(f, c, l),
           c.final = flow[f].final, c.ah => c.host \in Hosts, l \in {list, Reloaded}
    PROVE  PacketStep(f, c, l)
  <1>1. CASE c.proto = "udp" /\ Watched(c) /\ c.in > UdpIn
    BY <1>1 DEF process_udp_fail, PacketStep
  <1>2. CASE c.proto = "udp" /\ Watched(c) /\ ~(c.in > UdpIn) /\ c.out >= UdpOut
    BY <1>2 DEF process_udp_fail, PacketStep
  <1>3. CASE /\ ~(c.proto = "udp" /\ Watched(c) /\ c.in > UdpIn)
             /\ ~(c.proto = "udp" /\ Watched(c) /\ c.out >= UdpOut)
    BY <1>3 DEF process_udp_fail, PacketStep
  <1> QED BY <1>1, <1>2, <1>3

LEMMA PacketShape ==
    ASSUME FlowInv, NEW f \in Flows,
           \/ \E h \in Hosts : Request(f, h)
           \/ Retransmit(f) \/ DataBeyond(f) \/ BadReply(f) \/ ReplyBeyond(f)
           \/ \E dir \in {"in", "out"} : UdpPacket(f, dir)
    PROVE  Packets
  <1>1. flow[f] \in FlowRecord /\ (flow[f].ah => flow[f].host \in Hosts)
    BY DEF FlowInv
  <1>2. ASSUME NEW h \in Hosts, Request(f, h) PROVE Packets
    <2> DEFINE d == CountPacket(flow[f], "out")
               covered == Covered(h)
               c == [d EXCEPT !.host = h, !.ah = ~covered]
    <2>1. d \in FlowRecord /\ d.final = flow[f].final
      BY <1>1, CountPacketType
    <2>2. covered \in BOOLEAN
      BY DEF Covered
    <2>3. Prolog /\ process_udp_fail(f, c, Reloaded)
      BY <1>2 DEF Request
    <2> HIDE DEF d, covered
    <2>4. c \in FlowRecord /\ c.final = flow[f].final /\ c.host = h
      BY <2>1, <2>2 DEF FlowRecord
    <2> HIDE DEF c
    <2>5. PacketStep(f, c, Reloaded)
      BY <2>3, <2>4, UdpFailStep
    <2> QED BY <2>5 DEF Packets
  <1>3. ASSUME NEW dir, UdpPacket(f, dir) PROVE Packets
    <2> DEFINE c == CountPacket(flow[f], dir)
    <2>1. Prolog /\ process_udp_fail(f, c, list)
      BY <1>3 DEF UdpPacket
    <2>2. c \in FlowRecord /\ c.final = flow[f].final /\ c.ah = flow[f].ah /\ c.host = flow[f].host
      BY <1>1, CountPacketType
    <2> HIDE DEF c
    <2>3. PacketStep(f, c, list)
      BY <1>1, <2>1, <2>2, UdpFailStep
    <2> QED BY <2>3 DEF Packets
  <1>4. CASE Retransmit(f)
    <2>1. CASE flow[f].retrans + 1 >= RetransThreshold
      <3> DEFINE c == [flow[f] EXCEPT !.retrans = STOP]
      <3>1. Prolog /\ Watched(flow[f]) /\ Decide(f, c, "fail", list)
        BY <1>4, <2>1 DEF Retransmit
      <3>2. /\ c \in FlowRecord /\ c.final = flow[f].final /\ c.ah = flow[f].ah
            /\ c.host = flow[f].host
        BY <1>1 DEF FlowRecord, STOP
      <3> HIDE DEF c
      <3>3. PacketStep(f, c, list)
        BY <1>1, <3>1, <3>2 DEF PacketStep, Watched
      <3> QED BY <3>3 DEF Packets
    <2>2. CASE ~(flow[f].retrans + 1 >= RetransThreshold)
      <3> DEFINE c == [flow[f] EXCEPT !.retrans = @ + 1]
      <3>1. Prolog /\ flow' = [flow EXCEPT ![f] = c] /\ Undecided(list)
        BY <1>4, <2>2 DEF Retransmit
      <3>2. /\ c \in FlowRecord /\ c.final = flow[f].final /\ c.ah = flow[f].ah
            /\ c.host = flow[f].host
        BY <1>1 DEF FlowRecord
      <3> HIDE DEF c
      <3>3. PacketStep(f, c, list)
        BY <1>1, <3>1, <3>2 DEF PacketStep
      <3> QED BY <3>3 DEF Packets
    <2> QED BY <2>1, <2>2
  <1>5. CASE DataBeyond(f)
    <2> DEFINE c == [flow[f] EXCEPT !.retrans = STOP]
    <2>1. Prolog /\ Watched(flow[f]) /\ Decide(f, c, "success", list)
      BY <1>5 DEF DataBeyond
    <2>2. /\ c \in FlowRecord /\ c.final = flow[f].final /\ c.ah = flow[f].ah
          /\ c.host = flow[f].host
      BY <1>1 DEF FlowRecord, STOP
    <2> HIDE DEF c
    <2>3. PacketStep(f, c, list)
      BY <1>1, <2>1, <2>2 DEF PacketStep, Watched
    <2> QED BY <2>3 DEF Packets
  <1>6. CASE BadReply(f) \/ ReplyBeyond(f)
    <2>1. PacketStep(f, flow[f], list)
      BY <1>1, <1>6 DEF BadReply, ReplyBeyond, PacketStep
    <2> QED BY <2>1 DEF Packets
  <1> QED BY <1>2, <1>3, <1>4, <1>5, <1>6

\* A step is a packet, or one of the few things that happen beside it.
LEMMA StepShape ==
    ASSUME FlowInv, [Next]_vars
    PROVE  \/ Packets
           \/ \E f \in Flows, proto \in {"tcp", "udp"} : NewConnection(f, proto)
           \/ \E hosts \in SUBSET Hosts : Edit(hosts)
           \/ EditExclude \/ Tick \/ UNCHANGED vars
  BY PacketShape DEF Next, OtherPacket, Packets

-----------------------------------------------------------------------------
(* One verdict per flow.  A decision sets failure_detect_finalized, a flow *)
(* with the flag set is not watched, and only a new connection clears it.  *)

VerdictInv ==
    /\ FlowInv
    /\ verdicts \in [Flows -> Nat]
    /\ \A f \in Flows : verdicts[f] = 0 \/ (verdicts[f] = 1 /\ flow[f].final)

LEMMA VerdictInit == Init => VerdictInv
  <1> SUFFICES ASSUME Init PROVE VerdictInv
    OBVIOUS
  <1> DEFINE c == NewFlow("tcp")
  <1>1. c \in FlowRecord /\ c.ah = FALSE
    BY DEF NewFlow, FlowRecord
  <1>2. flow = [f \in Flows |-> c] /\ verdicts = [f \in Flows |-> 0]
    BY DEF Init
  <1> HIDE DEF c
  <1> QED BY <1>1, <1>2 DEF VerdictInv, FlowInv

LEMMA VerdictNext ==
    ASSUME VerdictInv, [Next]_vars
    PROVE  VerdictInv'
  <1>1. FlowInv /\ verdicts \in [Flows -> Nat] /\ flow \in [Flows -> FlowRecord]
    BY DEF VerdictInv, FlowInv
  <1>2. ASSUME NEW f \in Flows, NEW c, NEW l, PacketStep(f, c, l) PROVE VerdictInv'
    <2>1. c \in FlowRecord /\ c.final = flow[f].final /\ (c.ah => c.host \in Hosts)
      BY <1>2 DEF PacketStep
    <2>2. CASE flow' = [flow EXCEPT ![f] = c] /\ Undecided(l)
      <3>1. verdicts' = verdicts
        BY <2>2 DEF Undecided
      <3> QED BY <1>1, <2>1, <2>2, <3>1 DEF VerdictInv, FlowInv
    <2>3. CASE Watched(c) /\ \E outcome : Decide(f, c, outcome, l)
      <3> DEFINE d == [c EXCEPT !.final = TRUE]
      <3>1. d \in FlowRecord /\ d.final /\ (d.ah => d.host \in Hosts)
        BY <2>1 DEF FlowRecord
      <3>2. flow' = [flow EXCEPT ![f] = d] /\ verdicts' = [verdicts EXCEPT ![f] = @ + 1]
        BY <2>3 DEF Decide, Final
      <3>3. verdicts[f] = 0
        BY <2>1, <2>3 DEF Watched, VerdictInv
      <3> HIDE DEF d
      <3> QED BY <1>1, <3>1, <3>2, <3>3 DEF VerdictInv, FlowInv
    <2> QED BY <1>2, <2>2, <2>3 DEF PacketStep
  <1>3. ASSUME NEW f \in Flows, NEW proto \in {"tcp", "udp"}, NewConnection(f, proto)
        PROVE  VerdictInv'
    <2> DEFINE c == NewFlow(proto)
    <2>1. c \in FlowRecord /\ c.ah = FALSE
      BY DEF NewFlow, FlowRecord
    <2>2. flow' = [flow EXCEPT ![f] = c] /\ verdicts' = [verdicts EXCEPT ![f] = 0]
      BY <1>3 DEF NewConnection
    <2> HIDE DEF c
    <2> QED BY <1>1, <2>1, <2>2 DEF VerdictInv, FlowInv
  <1>4. ASSUME flow' = flow, verdicts' = verdicts PROVE VerdictInv'
    BY <1>4 DEF VerdictInv, FlowInv
  <1>5. CASE Packets
    BY <1>2, <1>4, <1>5 DEF Packets, Undecided
  <1>6. CASE (\E hosts \in SUBSET Hosts : Edit(hosts)) \/ EditExclude \/ Tick \/ UNCHANGED vars
    BY <1>4, <1>6 DEF Edit, EditExclude, Tick, vars
  <1> QED BY <1>1, <1>3, <1>5, <1>6, StepShape

LEMMA VerdictAlways == Spec => []VerdictInv
  BY VerdictInit, VerdictNext, PTL DEF Spec

\* Several signs of blocking in one connection, or a sign and a success after it,
\* make one decision: auto_hostlist_retrans, process_udp_fail and the reply checks
\* of desync.c all test and set failure_detect_finalized.
THEOREM ConnectionCountsOnce == Spec => []OneVerdictPerFlow
  <1>1. VerdictInv => OneVerdictPerFlow
    BY DEF VerdictInv, OneVerdictPerFlow
  <1> QED BY <1>1, VerdictAlways, PTL

-----------------------------------------------------------------------------
(* The list and its file.                                                  *)

ListRecord == [hosts : SUBSET Hosts, fresh : BOOLEAN]
FileRecord == [hosts : SUBSET Hosts, lines : [Hosts -> Nat]]

\* A list with a current signature holds all of the file, and no more unless an
\* append has failed.
Matches(l) ==
    /\ l \in ListRecord
    /\ l.fresh => file.hosts \subseteq l.hosts
    /\ l.fresh /\ "append" \notin faults => l.hosts = file.hosts

\* A line the program has appended and nobody has removed names a host of the file.
ListInv ==
    /\ Matches(list)
    /\ file \in FileRecord
    /\ \A h \in Hosts : file.lines[h] > 0 => h \in file.hosts
    /\ broken \in BOOLEAN
    /\ broken => "read" \in faults
    /\ NoDuplicateLines

LEMMA ListInit == Init => ListInv
  <1> SUFFICES ASSUME Init PROVE ListInv
    OBVIOUS
  <1>1. /\ list = [hosts |-> {}, fresh |-> TRUE]
        /\ file = [hosts |-> {}, lines |-> [h \in Hosts |-> 0]]
        /\ broken = FALSE
    BY DEF Init
  <1>2. list \in ListRecord /\ list.hosts = {} /\ file \in FileRecord /\ file.hosts = {}
    BY <1>1 DEF ListRecord, FileRecord
  <1>3. \A h \in Hosts : file.lines[h] = 0
    BY <1>1
  <1>4. Matches(list)
    BY <1>2 DEF Matches
  <1>5. NoDuplicateLines
    BY <1>3 DEF NoDuplicateLines
  <1>6. \A h \in Hosts : file.lines[h] > 0 => h \in file.hosts
    BY <1>3
  <1>7. broken \in BOOLEAN /\ (broken => "read" \in faults)
    BY <1>1
  <1> QED BY <1>2, <1>4, <1>5, <1>6, <1>7 DEF ListInv

LEMMA ReloadedMatches ==
    ASSUME ListInv
    PROVE  Matches(Reloaded) /\ Reloaded.fresh
  BY DEF ListInv, Matches, Reloaded, ListRecord, FileRecord

LEMMA AppendKeeps ==
    ASSUME ListInv, NEW h \in Hosts, ~Covered(h), Append2File(h), broken' = broken
    PROVE  ListInv'
  <1>1. Matches(Reloaded) /\ Reloaded.fresh
    BY ReloadedMatches
  <1> DEFINE r == Reloaded
  <1>2. r \in ListRecord /\ r.fresh = TRUE /\ file.hosts \subseteq r.hosts
    BY <1>1 DEF Matches, ListRecord
  <1>3. "append" \notin faults => r.hosts = file.hosts
    BY <1>1 DEF Matches
  <1>4. "read" \notin faults => h \notin Excluded /\ file.lines[h] = 0
    <2>1. "read" \notin faults => h \notin Excluded /\ h \notin r.hosts
      BY DEF Covered, ListInv
    <2> QED BY <1>2, <2>1 DEF ListInv, FileRecord
  <1>5. \/ /\ file' = [hosts |-> file.hosts \cup {h},
                       lines |-> [file.lines EXCEPT ![h] = Min({@ + 1, 2})]]
           /\ \E fresh \in BOOLEAN : list' = [hosts |-> r.hosts \cup {h}, fresh |-> fresh]
           /\ faults' = faults
        \/ /\ faults' = faults \cup {"append"}
           /\ list' = [r EXCEPT !.hosts = @ \cup {h}]
           /\ file' = file
    BY DEF Append2File
  <1>6. file \in FileRecord /\ file.lines \in [Hosts -> Nat] /\ file.lines[h] \in Nat
    BY DEF ListInv, FileRecord
  <1>7. Min({file.lines[h] + 1, 2}) \in Nat /\ (file.lines[h] = 0 => Min({file.lines[h] + 1, 2}) = 1)
    BY <1>6, MinPair
  <1> HIDE DEF r
  <1>8. CASE /\ file' = [hosts |-> file.hosts \cup {h},
                         lines |-> [file.lines EXCEPT ![h] = Min({@ + 1, 2})]]
             /\ \E fresh \in BOOLEAN : list' = [hosts |-> r.hosts \cup {h}, fresh |-> fresh]
             /\ faults' = faults
    <2> DEFINE n == Min({file.lines[h] + 1, 2})
    <2>1. file'.hosts = file.hosts \cup {h} /\ file'.lines = [file.lines EXCEPT ![h] = n]
      BY <1>8
    <2>2. n \in Nat /\ (file.lines[h] = 0 => n = 1)
      BY <1>7
    <2>0. file' = [hosts |-> file.hosts \cup {h}, lines |-> [file.lines EXCEPT ![h] = n]]
      BY <1>8
    <2> HIDE DEF n
    <2>3. file' \in FileRecord
      BY <2>0, <2>2, <1>6 DEF FileRecord
    <2>4. \A g \in Hosts : file'.lines[g] > 0 => g \in file'.hosts
      BY <2>1, <2>2, <1>6 DEF ListInv
    <2>5. NoDuplicateLines'
      BY <1>4, <1>6, <1>8, <2>1, <2>2, AutoHostlistAssumption DEF ListInv, NoDuplicateLines
    <2>6. Matches(list)'
      BY <1>2, <1>3, <1>8, <2>1 DEF Matches, ListRecord
    <2> QED BY <1>8, <2>3, <2>4, <2>5, <2>6 DEF ListInv
  <1>9. CASE /\ faults' = faults \cup {"append"}
             /\ list' = [r EXCEPT !.hosts = @ \cup {h}]
             /\ file' = file
    <2>1. Matches(list)'
      BY <1>2, <1>9 DEF Matches, ListRecord
    <2>2. NoDuplicateLines'
      BY <1>9 DEF ListInv, NoDuplicateLines
    <2> QED BY <1>9, <2>1, <2>2 DEF ListInv
  <1> QED BY <1>5, <1>8, <1>9

LEMMA ListNext ==
    ASSUME ListInv, FlowInv, [Next]_vars
    PROVE  ListInv'
  <1>1. Matches(list) /\ Matches(Reloaded)
    BY ReloadedMatches DEF ListInv
  <1>2. ASSUME file' = file, faults' = faults, broken' = broken, Matches(list')
        PROVE  ListInv'
    BY <1>2 DEF ListInv, Matches, NoDuplicateLines
  <1>3. ASSUME NEW f \in Flows, NEW c, NEW l, PacketStep(f, c, l) PROVE ListInv'
    <2>1. l \in {list, Reloaded} /\ broken' = broken
      BY <1>3 DEF PacketStep, Prolog
    <2>2. Matches(l)
      BY <1>1, <2>1
    <2>3. CASE Undecided(l)
      BY <1>2, <2>1, <2>2, <2>3 DEF Undecided
    <2>4. ASSUME Watched(c), NEW outcome, Decide(f, c, outcome, l) PROVE ListInv'
      <3>1. c.host \in Hosts
        BY <1>3, <2>4 DEF PacketStep, Watched
      <3>2. \/ auto_hostlist_failed(c.host, l)
            \/ auto_hostlist_reset_fail_counter(c.host, l)
        BY <2>4 DEF Decide
      <3>3. \/ list' = l /\ UNCHANGED <<file, faults>>
            \/ list' = Reloaded /\ UNCHANGED <<file, faults>>
            \/ ~Covered(c.host) /\ Append2File(c.host)
        BY <3>2 DEF auto_hostlist_failed, auto_hostlist_reset_fail_counter
      <3> QED BY <1>1, <1>2, <2>1, <2>2, <3>1, <3>3, AppendKeeps
    <2> QED BY <1>3, <2>3, <2>4 DEF PacketStep
  <1>4. CASE Packets
    BY <1>1, <1>2, <1>3, <1>4 DEF Packets, Undecided, Prolog
  <1>5. ASSUME NEW hosts \in SUBSET Hosts, Edit(hosts) PROVE ListInv'
    <2>1. /\ file' = [hosts |-> hosts, lines |-> [h \in Hosts |-> 0]]
          /\ list' = [list EXCEPT !.fresh = FALSE]
          /\ broken' = broken /\ faults' = faults
      BY <1>5 DEF Edit
    <2>2. Matches(list)' /\ file' \in FileRecord
      BY <2>1 DEF ListInv, Matches, ListRecord, FileRecord
    <2>3. \A h \in Hosts : file'.lines[h] = 0
      BY <2>1
    <2>4. NoDuplicateLines'
      BY <2>3 DEF NoDuplicateLines
    <2> QED BY <2>1, <2>2, <2>3, <2>4 DEF ListInv
  <1>6. CASE EditExclude
    <2>1. broken' = ~broken /\ faults' = faults \cup {"read"} /\ list' = list /\ file' = file
      BY <1>6 DEF EditExclude
    <2>2. Matches(list)' /\ NoDuplicateLines' /\ broken' \in BOOLEAN
      BY <2>1 DEF ListInv, Matches, NoDuplicateLines
    <2> QED BY <2>1, <2>2 DEF ListInv
  <1>7. CASE \/ \E f \in Flows, proto \in {"tcp", "udp"} : NewConnection(f, proto)
             \/ Tick \/ UNCHANGED vars
    BY <1>1, <1>2, <1>7 DEF NewConnection, Tick, vars
  <1> QED BY <1>4, <1>5, <1>6, <1>7, StepShape

LEMMA ListAlways == Spec => []ListInv
  <1>1. VerdictInv => FlowInv
    BY DEF VerdictInv
  <1> QED BY <1>1, ListInit, ListNext, VerdictAlways, PTL DEF Spec

\* A list whose signature is the file's holds what the file holds, if no append has
\* failed: auto_hostlist_failed takes the new signature after its own append, and
\* HostlistsReloadCheck before it has loaded what others had written.
THEOREM FreshListIsFile == Spec => []MemoryIsFile
  <1>1. ListInv => MemoryIsFile
    BY DEF ListInv, Matches, MemoryIsFile
  <1> QED BY <1>1, ListAlways, PTL

\* "rechecking to avoid duplicates" in auto_hostlist_failed is enough: whatever the
\* flows and the edits of others, the program has at most one line of a host in
\* the file and none of an excluded one, as long as the lists could be read.
THEOREM AppendedOnce == Spec => []NoDuplicateLines
  <1>1. ListInv => NoDuplicateLines
    BY DEF ListInv
  <1> QED BY <1>1, ListAlways, PTL

-----------------------------------------------------------------------------
(* The failures an addition rests on.  The counter of a host in the pool   *)
(* counts failures that are the last ones of its streak, and its time of   *)
(* expiry is at most FailTime after the first of them.  So when the        *)
(* counter reaches the threshold on an entry that has not expired, all of  *)
(* them are recent; that no expired entry is found is due to the purge in  *)
(* the same packet, or to an earlier one in the same second.               *)

PoolRecord == [counter : Nat, expire : Nat]

Times(s) == s \in Seq(Nat) /\ Len(s) <= FailThreshold /\ \A i \in 1 .. Len(s) : s[i] <= now

\* the entry's counter counts the last failures of s, and it expires before they are old
RestsOn(e, s) ==
    /\ e \in PoolRecord
    /\ 1 <= e.counter /\ e.counter <= Len(s)
    /\ \A i \in 1 .. Len(s) : i > Len(s) - e.counter => s[i] + FailTime >= e.expire

FailInv ==
    /\ now \in Nat /\ last_purge \in Nat /\ last_purge <= now
    /\ streak \in [Hosts -> Seq(Nat)]
    /\ \A h \in Hosts : Times(streak[h])
    /\ DOMAIN fails \subseteq Hosts
    /\ \A h \in DOMAIN fails :
         /\ RestsOn(fails[h], streak[h]) /\ fails[h].counter < FailThreshold
         /\ last_purge = now => now < fails[h].expire
    /\ AddedOnRecentFailures

LEMMA FailInit == Init => FailInv
  <1> SUFFICES ASSUME Init PROVE FailInv
    OBVIOUS
  <1>1. now = 1 /\ last_purge = 0 /\ streak = [h \in Hosts |-> <<>>] /\ added = <<>>
    BY DEF Init
  <1>2. DOMAIN fails = {}
    BY DEF Init
  <1>3. \A h \in Hosts : Times(streak[h])
    BY <1>1, AutoHostlistAssumption DEF Times
  <1>4. streak \in [Hosts -> Seq(Nat)]
    BY <1>1
  <1>5. AddedOnRecentFailures
    BY <1>1 DEF AddedOnRecentFailures
  <1> QED BY <1>1, <1>2, <1>3, <1>4, <1>5 DEF FailInv

\* The last failures with one more.
LEMMA RecentIs ==
    ASSUME NEW s \in Seq(Nat), NEW t \in Nat, Len(s) <= FailThreshold
    PROVE  LET r == Recent(Append(s, t))
           IN  /\ r \in Seq(Nat)
               /\ Len(r) = IF Len(s) < FailThreshold THEN Len(s) + 1 ELSE FailThreshold
               /\ \A i \in 1 .. Len(r) : r[i] = IF i = Len(r) THEN t ELSE s[i + (Len(s) + 1 - Len(r))]
  <1> DEFINE a == Append(s, t)
  <1>1. FailThreshold \in Nat /\ FailThreshold > 0
    BY AutoHostlistAssumption
  <1>2. /\ a \in Seq(Nat) /\ Len(a) = Len(s) + 1 /\ Len(s) \in Nat
        /\ \A i \in 1 .. Len(a) : a[i] = IF i = Len(s) + 1 THEN t ELSE s[i]
    OBVIOUS
  <1> HIDE DEF a
  <1>3. CASE Len(a) > FailThreshold
    <2>1. Recent(a) = Tail(a) /\ Len(s) = FailThreshold
      BY <1>1, <1>2, <1>3 DEF Recent
    <2>2. /\ Tail(a) \in Seq(Nat) /\ Len(Tail(a)) = Len(a) - 1
          /\ \A i \in 1 .. Len(a) - 1 : Tail(a)[i] = a[i + 1]
      BY <1>1, <1>2, <1>3
    <2>3. Len(Tail(a)) = FailThreshold /\ Len(s) + 1 - Len(Tail(a)) = 1
      BY <1>1, <1>2, <2>1, <2>2
    <2>4. \A i \in 1 .. FailThreshold : Tail(a)[i] = IF i = FailThreshold THEN t ELSE s[i + 1]
      BY <1>1, <1>2, <2>1, <2>2
    <2> DEFINE q == Tail(a)
    <2>5. q \in Seq(Nat) /\ Len(q) = FailThreshold /\ Len(s) + 1 - Len(q) = 1
      BY <1>1, <1>2, <2>1, <2>2, <2>3
    <2>6. \A i \in 1 .. FailThreshold : q[i] = IF i = FailThreshold THEN t ELSE s[i + 1]
      BY <2>4
    <2>7. Recent(Append(s, t)) = q /\ ~(Len(s) < FailThreshold)
      BY <1>1, <2>1 DEF a
    <2> HIDE DEF q
    <2>8. \A i \in 1 .. Len(q) : q[i] = IF i = Len(q) THEN t ELSE s[i + (Len(s) + 1 - Len(q))]
      BY <2>5, <2>6
    <2> QED BY <2>5, <2>7, <2>8
  <1>4. CASE ~(Len(a) > FailThreshold)
    <2>1. Recent(a) = a /\ Len(s) < FailThreshold
      BY <1>1, <1>2, <1>4 DEF Recent
    <2> QED BY <1>1, <1>2, <2>1 DEF a
  <1> QED BY <1>3, <1>4

\* After the purge of this packet nothing in the pool has expired.
LEMMA PurgedIs ==
    ASSUME FailInv
    PROVE  /\ DOMAIN Purged \subseteq DOMAIN fails /\ DOMAIN Purged \subseteq Hosts
           /\ \A h \in DOMAIN Purged : Purged[h] = fails[h] /\ now < Purged[h].expire
  <1>1. CASE last_purge = now
    <2>1. Purged = fails
      BY <1>1 DEF Purged
    <2> QED BY <1>1, <2>1 DEF FailInv
  <1>2. CASE last_purge # now
    <2>1. Purged = [h \in {g \in DOMAIN fails : now < fails[g].expire} |-> fails[h]]
      BY <1>2 DEF Purged
    <2> QED BY <2>1 DEF FailInv
  <1> QED BY <1>1, <1>2

\* One more failure: the counter counts the end of the streak again.
LEMMA CountedIs ==
    ASSUME FailInv, NEW h \in Hosts
    PROVE  LET e == Counted(h)
               last == Recent(Append(streak[h], now))
           IN  /\ Times(last) /\ RestsOn(e, last)
               /\ e.counter <= FailThreshold /\ now < e.expire
  <1> DEFINE e == Counted(h)
             s == streak[h]
             last == Recent(Append(s, now))
  <1>1. /\ FailThreshold \in Nat /\ FailThreshold > 0 /\ FailTime \in Nat /\ FailTime > 0
        /\ now \in Nat
    BY AutoHostlistAssumption DEF FailInv
  <1>2. Times(s) /\ s \in Seq(Nat) /\ Len(s) \in Nat
    BY DEF FailInv, Times
  <1>3. /\ last \in Seq(Nat)
        /\ Len(last) = IF Len(s) < FailThreshold THEN Len(s) + 1 ELSE FailThreshold
        /\ \A i \in 1 .. Len(last) :
             last[i] = IF i = Len(last) THEN now ELSE s[i + (Len(s) + 1 - Len(last))]
    BY <1>1, <1>2, RecentIs DEF Times
  <1> HIDE DEF last
  <1>7. /\ Len(s) <= FailThreshold /\ Len(last) \in Nat /\ Len(last) >= 1
        /\ Len(last) = Len(s) \/ Len(last) = Len(s) + 1
    BY <1>1, <1>2, <1>3 DEF Times
  <1>4. Times(last)
    <2> SUFFICES ASSUME NEW i \in 1 .. Len(last) PROVE last[i] <= now
      BY <1>1, <1>2, <1>3 DEF Times
    <2> DEFINE j == i + (Len(s) + 1 - Len(last))
    <2>1. CASE i = Len(last)
      <3>1. last[i] = now
        BY <1>3, <2>1
      <3> QED BY <1>1, <3>1
    <2>2. CASE i # Len(last)
      <3>1. last[i] = s[j]
        BY <1>3, <2>2
      <3>2. j \in 1 .. Len(s)
        BY <1>2, <1>7, <2>2
      <3> QED BY <1>2, <3>1, <3>2 DEF Times
    <2> QED BY <2>1, <2>2
  <1>5. CASE h \in DOMAIN Purged
    <2> DEFINE p == fails[h]
    <2>1. h \in DOMAIN fails /\ Purged[h] = p /\ now < p.expire
      BY <1>5, PurgedIs
    <2>2. RestsOn(p, s) /\ p.counter < FailThreshold
      BY <2>1 DEF FailInv
    <2>3. e = [p EXCEPT !.counter = @ + 1]
      BY <1>5, <2>1 DEF Counted
    <2>4. p \in PoolRecord /\ 1 <= p.counter /\ p.counter <= Len(s)
      BY <2>2 DEF RestsOn
    <2>5. e \in PoolRecord /\ e.counter = p.counter + 1 /\ e.expire = p.expire
      BY <2>3, <2>4 DEF PoolRecord
    <2>6. p.counter \in Nat /\ p.expire \in Nat
      BY <2>4 DEF PoolRecord
    <2> HIDE DEF e, p, s
    <2>7. \A i \in 1 .. Len(s) : i > Len(s) - p.counter => s[i] + FailTime >= p.expire
      BY <2>2 DEF RestsOn
    <2>8. now + FailTime >= p.expire
      <3>1. s[Len(s)] + FailTime >= p.expire /\ s[Len(s)] <= now /\ s[Len(s)] \in Nat
        BY <1>2, <2>4, <2>6, <2>7 DEF Times
      <3> QED BY <1>1, <2>6, <3>1
    <2>9. \A i \in 1 .. Len(last) : i > Len(last) - e.counter => last[i] + FailTime >= e.expire
      <3> SUFFICES ASSUME NEW i \in 1 .. Len(last), i > Len(last) - e.counter
                   PROVE  last[i] + FailTime >= e.expire
        OBVIOUS
      <3>1. CASE i = Len(last)
        BY <1>3, <2>5, <2>8, <3>1
      <3>2. CASE i # Len(last)
        <4> DEFINE j == i + (Len(s) + 1 - Len(last))
        <4>1. j \in 1 .. Len(s) /\ j > Len(s) - p.counter
          BY <1>2, <1>7, <2>5, <2>6, <3>2, SMTT(30)
        <4>2. last[i] = s[j]
          BY <1>3, <3>2
        <4> QED BY <2>5, <2>7, <4>1, <4>2
      <3> QED BY <3>1, <3>2
    <2>10. 1 <= e.counter /\ e.counter <= Len(last) /\ e.counter <= FailThreshold
      BY <1>1, <1>2, <1>3, <2>2, <2>4, <2>5, <2>6, SMTT(30)
    <2> QED BY <1>4, <2>1, <2>5, <2>9, <2>10 DEF RestsOn, e, last, s
  <1>6. CASE h \notin DOMAIN Purged
    <2>1. e = [counter |-> 1, expire |-> now + FailTime]
      BY <1>6 DEF Counted
    <2>2. e \in PoolRecord /\ e.counter = 1 /\ e.expire = now + FailTime
      BY <1>1, <2>1 DEF PoolRecord
    <2> HIDE DEF e, s
    <2>3. \A i \in 1 .. Len(last) : i > Len(last) - e.counter => last[i] + FailTime >= e.expire
      <3> SUFFICES ASSUME NEW i \in 1 .. Len(last), i > Len(last) - e.counter
                   PROVE  last[i] + FailTime >= e.expire
        OBVIOUS
      <3>1. i = Len(last)
        BY <1>7, <2>2
      <3>2. last[i] = now
        BY <1>3, <3>1
      <3> QED BY <1>1, <2>2, <3>2
    <2>4. 1 <= e.counter /\ e.counter <= Len(last) /\ e.counter <= FailThreshold /\ now < e.expire
      BY <1>1, <1>2, <1>3, <2>2
    <2> QED BY <1>4, <2>2, <2>3, <2>4 DEF RestsOn, e, last, s
  <1> QED BY <1>5, <1>6

\* What is left of the pool is as good as it was.
LEMMA PoolKept ==
    ASSUME FailInv, NEW g \in DOMAIN Purged
    PROVE  /\ g \in Hosts /\ RestsOn(Purged[g], streak[g]) /\ Purged[g].counter < FailThreshold
           /\ now < Purged[g].expire
  BY PurgedIs DEF FailInv

LEMMA FailNext ==
    ASSUME FailInv, FlowInv, [Next]_vars
    PROVE  FailInv'
  <1>1. /\ now \in Nat /\ last_purge \in Nat /\ last_purge <= now
        /\ streak \in [Hosts -> Seq(Nat)] /\ \A h \in Hosts : Times(streak[h])
        /\ AddedOnRecentFailures
    BY DEF FailInv
  <1>2. ASSUME now' = now, last_purge' = now, streak' \in [Hosts -> Seq(Nat)],
               \A h \in Hosts : Times(streak'[h]), DOMAIN fails' \subseteq Hosts,
               \A h \in DOMAIN fails' : /\ RestsOn(fails'[h], streak'[h])
                                        /\ fails'[h].counter < FailThreshold
                                        /\ now < fails'[h].expire,
               AddedOnRecentFailures'
        PROVE  FailInv'
    BY <1>1, <1>2 DEF FailInv, Times, RestsOn
  <1>3. CASE Prolog /\ fails' = Purged /\ UNCHANGED <<streak, added>>
    <2>1. AddedOnRecentFailures'
      BY <1>1, <1>3 DEF AddedOnRecentFailures
    <2>2. now' = now /\ last_purge' = now /\ streak' = streak /\ fails' = Purged
      BY <1>3 DEF Prolog
    <2> QED BY <1>1, <1>2, <2>1, <2>2, PoolKept, PurgedIs
  <1>4. ASSUME NEW h \in Hosts, Prolog, fails' = Without(h), streak' = [streak EXCEPT ![h] = <<>>],
               AddedOnRecentFailures'
        PROVE  FailInv'
    <2>1. now' = now /\ last_purge' = now
      BY <1>4 DEF Prolog
    <2>2. /\ streak' \in [Hosts -> Seq(Nat)] /\ streak'[h] = <<>>
          /\ \A g \in Hosts \ {h} : streak'[g] = streak[g]
      BY <1>1, <1>4
    <2>3. Times(<<>>)
      BY AutoHostlistAssumption DEF Times
    <2>4. /\ DOMAIN fails' = DOMAIN Purged \ {h}
          /\ \A g \in DOMAIN fails' : g # h /\ g \in DOMAIN Purged /\ fails'[g] = Purged[g]
      BY <1>4 DEF Without
    <2>5. \A g \in Hosts : Times(streak'[g])
      BY <1>1, <2>2, <2>3
    <2>6. \A g \in DOMAIN fails' : /\ RestsOn(fails'[g], streak'[g])
                                   /\ fails'[g].counter < FailThreshold
                                   /\ now < fails'[g].expire
      BY <2>2, <2>4, PoolKept
    <2>7. DOMAIN fails' \subseteq Hosts
      BY <2>4, PurgedIs
    <2> QED BY <1>2, <1>4, <2>1, <2>2, <2>5, <2>6, <2>7
  <1>5. ASSUME NEW h \in Hosts, NEW l, Prolog, auto_hostlist_failed(h, l)
        PROVE  FailInv'
    <2> DEFINE e == Counted(h)
               last == Recent(Append(streak[h], now))
    <2>1. Times(last) /\ RestsOn(e, last) /\ e.counter <= FailThreshold /\ now < e.expire
      BY CountedIs
    <2>2. CASE e.counter < FailThreshold
      <3>1. /\ fails' = [g \in DOMAIN Purged \cup {h} |-> IF g = h THEN e ELSE Purged[g]]
            /\ streak' = [streak EXCEPT ![h] = last]
            /\ added' = added
        BY <1>5, <2>2 DEF auto_hostlist_failed
      <3> HIDE DEF e, last
      <3>2. now' = now /\ last_purge' = now
        BY <1>5 DEF Prolog
      <3>3. /\ streak' \in [Hosts -> Seq(Nat)] /\ streak'[h] = last
            /\ \A g \in Hosts \ {h} : streak'[g] = streak[g]
        BY <1>1, <2>1, <3>1 DEF Times
      <3>4. /\ DOMAIN fails' = DOMAIN Purged \cup {h} /\ fails'[h] = e
            /\ \A g \in DOMAIN fails' \ {h} : g \in DOMAIN Purged /\ fails'[g] = Purged[g]
        BY <3>1
      <3>5. \A g \in Hosts : Times(streak'[g])
        BY <1>1, <2>1, <3>3
      <3>6. \A g \in DOMAIN fails' : /\ RestsOn(fails'[g], streak'[g])
                                     /\ fails'[g].counter < FailThreshold
                                     /\ now < fails'[g].expire
        <4> TAKE g \in DOMAIN fails'
        <4>1. CASE g = h
          BY <2>1, <2>2, <3>3, <3>4, <4>1
        <4>2. CASE g # h
          BY <3>3, <3>4, <4>2, PoolKept
        <4> QED BY <4>1, <4>2
      <3>7. AddedOnRecentFailures'
        BY <1>1, <3>1 DEF AddedOnRecentFailures
      <3>8. DOMAIN fails' \subseteq Hosts
        BY <3>4, PurgedIs
      <3> QED BY <1>2, <3>2, <3>3, <3>5, <3>6, <3>7, <3>8
    <2>3. CASE ~(e.counter < FailThreshold)
      <3>1. /\ fails' = Without(h) /\ streak' = [streak EXCEPT ![h] = <<>>]
            /\ added' = added \/ added' = <<Len(last), now - last[1]>>
        BY <1>5, <2>3 DEF auto_hostlist_failed
      <3> HIDE DEF e, last
      <3>2. e \in PoolRecord /\ e.counter \in Nat /\ e.expire \in Nat
        BY <2>1 DEF RestsOn, PoolRecord
      <3>3. FailThreshold \in Nat /\ FailThreshold > 0 /\ FailTime \in Nat
        BY AutoHostlistAssumption
      <3>4. last \in Seq(Nat) /\ Len(last) = FailThreshold /\ e.counter = FailThreshold
        BY <2>1, <2>3, <3>2, <3>3 DEF Times, RestsOn
      <3>5. last[1] \in Nat /\ last[1] + FailTime >= e.expire
        BY <2>1, <3>3, <3>4 DEF RestsOn
      <3>6. now - last[1] < FailTime
        BY <1>1, <2>1, <3>2, <3>3, <3>5
      <3>7. AddedOnRecentFailures'
        BY <1>1, <3>1, <3>4, <3>6 DEF AddedOnRecentFailures
      <3> QED BY <1>4, <1>5, <3>1, <3>7
    <2> QED BY <2>2, <2>3
  <1>6. ASSUME NEW f \in Flows, NEW c, NEW l, PacketStep(f, c, l) PROVE FailInv'
    <2>1. Prolog
      BY <1>6 DEF PacketStep
    <2>2. CASE Undecided(l)
      BY <1>3, <2>1, <2>2 DEF Undecided
    <2>3. ASSUME Watched(c), NEW outcome, Decide(f, c, outcome, l) PROVE FailInv'
      <3>1. c.host \in Hosts
        BY <1>6, <2>3 DEF PacketStep, Watched
      <3>2. CASE auto_hostlist_failed(c.host, l)
        BY <1>5, <2>1, <3>1, <3>2
      <3>3. CASE auto_hostlist_reset_fail_counter(c.host, l)
        <4>1. AddedOnRecentFailures'
          BY <1>1, <3>3 DEF auto_hostlist_reset_fail_counter, AddedOnRecentFailures
        <4> QED BY <1>4, <2>1, <3>1, <3>3, <4>1 DEF auto_hostlist_reset_fail_counter
      <3> QED BY <2>3, <3>2, <3>3 DEF Decide
    <2> QED BY <1>6, <2>2, <2>3 DEF PacketStep
  <1>7. CASE Packets
    BY <1>3, <1>6, <1>7 DEF Packets, Undecided
  <1>8. CASE Tick
    <2>1. now' = now + 1 /\ UNCHANGED <<fails, last_purge, streak, added>>
      BY <1>8 DEF Tick
    <2>2. \A h \in Hosts : Times(streak[h])'
      BY <1>1, <2>1 DEF Times
    <2>3. AddedOnRecentFailures'
      BY <1>1, <2>1 DEF AddedOnRecentFailures
    <2>4. last_purge' # now' /\ last_purge' <= now' /\ now' \in Nat
      BY <1>1, <2>1
    <2> QED BY <1>1, <2>1, <2>2, <2>3, <2>4 DEF FailInv, RestsOn
  <1>9. CASE UNCHANGED <<now, fails, last_purge, streak, added>>
    BY <1>9 DEF FailInv, RestsOn, Times, AddedOnRecentFailures
  <1>10. CASE \/ \E f \in Flows, proto \in {"tcp", "udp"} : NewConnection(f, proto)
              \/ \E hosts \in SUBSET Hosts : Edit(hosts)
              \/ EditExclude \/ UNCHANGED vars
    BY <1>9, <1>10 DEF NewConnection, Edit, EditExclude, vars
  <1> QED BY <1>7, <1>8, <1>10, StepShape

\* A host is added to the list only after FailThreshold failures, without a success
\* among them, that all lie within FailTime seconds: auto_hostlist_failed on a pool
\* that HostFailPoolPurgeRateLimited purges once a second, and only when a packet
\* comes.
THEOREM AddedIsBlocked == Spec => []AddedOnRecentFailures
  <1>1. VerdictInv => FlowInv
    BY DEF VerdictInv
  <1>2. FailInv => AddedOnRecentFailures
    BY DEF FailInv
  <1> QED BY <1>1, <1>2, FailInit, FailNext, VerdictAlways, PTL DEF Spec
=============================================================================
