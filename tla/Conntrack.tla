----------------------------- MODULE Conntrack ------------------------------
(***************************************************************************)
(* The conntrack pool of nfq2: a hash table from connections to tracks,    *)
(* searched by the packet's tuple and then by the swapped tuple, filled by *)
(* SYN, SYN/ACK and UDP packets only and purged of idle entries at most    *)
(* once per purge interval, when a packet is handled.                      *)
(*                                                                         *)
(* src and dst are an address with its port.  Time is boottime() in        *)
(* seconds.  b_cutoff, which no code sets, and ConntrackPoolDrop, which no *)
(* code calls, are left out.                                               *)
(***************************************************************************)
EXTENDS ConntrackPos

CONSTANTS
    Conns,              \* tuples [src, dst, proto] packets may have, both ways
    Segments,           \* packet records, without their endpoints
    TimeoutSyn, TimeoutEst, TimeoutFin, TimeoutUdp, PurgeInterval,
    MaxTime,            \* bound on the clock
    MaxCount            \* bound on the packet counters of an entry

connswap(c) == [src |-> c.dst, dst |-> c.src, proto |-> c.proto]

ASSUME ConntrackAssumption ==
    /\ \A t \in {TimeoutSyn, TimeoutEst, TimeoutFin, TimeoutUdp} : t \in Nat /\ t > 0
    /\ PurgeInterval \in Nat
    /\ \A c \in Conns : /\ c = [src |-> c.src, dst |-> c.dst, proto |-> c.proto]
                        /\ c.proto \in {"tcp", "udp"}
                        /\ connswap(c) \in Conns
    /\ MaxTime \in Nat /\ MaxTime > 0
    /\ MaxCount \in Nat
    /\ Segments \subseteq [proto : {"tcp", "udp"}, flag : Flags, seq : Seqs, ack : Seqs,
                           len : Nat, win : Nat, scale : Scales \cup {NoScale}]
    /\ \A s \in Segments : s.len < SeqMod

VARIABLES
    pool,           \* p->pool: a function on the connections tracked
    t_last_purge,   \* p->t_last_purge
    now             \* boottime()

vars == <<pool, t_last_purge, now>>

Tracks == [pos : Positions2, t_last : 1 .. MaxTime, t_start : 1 .. MaxTime]

\* ConntrackInitTrack, then the first ConntrackFeedPacket
NewTrack(rev, s) ==
    [pos |-> FeedPositions(InitPositions, rev, s), t_last |-> now, t_start |-> now]

\* mutant: t_start is not set again after a re-initialisation
FeedPacketNoStart(t, rev, s) ==
    [pos     |-> FeedPositions(t.pos, rev, s),
     t_last  |-> now,
     t_start |-> IF s.proto = "tcp" /\ NeedsReInit(t.pos, s) THEN 0 ELSE t.t_start]

\* ConntrackFeedPacket; t_start is zero again after a ConntrackReInitTrack
FeedPacket(t, rev, s) ==
    [pos     |-> FeedPositions(t.pos, rev, s),
     t_last  |-> now,
     t_start |-> IF s.proto = "tcp" /\ NeedsReInit(t.pos, s) THEN now ELSE t.t_start]

\* inactivity time after which an entry is dropped
Timeout(c, t) ==
    CASE c.proto = "udp" -> TimeoutUdp
      [] c.proto = "tcp" /\ t.pos.state = "SYN" -> TimeoutSyn
      [] c.proto = "tcp" /\ t.pos.state = "ESTABLISHED" -> TimeoutEst
      [] c.proto = "tcp" /\ t.pos.state = "FIN" -> TimeoutFin

\* mutant: strictly more than the timeout
IdleOffByOne(p, c) == now - p[c].t_last > Timeout(c, p[c])

\* mutant: counted from the first packet of the entry
IdleSinceStart(p, c) == now - p[c].t_start >= Timeout(c, p[c])

Idle(p, c) == now - p[c].t_last >= Timeout(c, p[c])

\* ConntrackPoolPurge
PurgeDue   == now - t_last_purge >= PurgeInterval
PurgedPool == IF PurgeDue
              THEN [c \in {d \in DOMAIN pool : ~Idle(pool, d)} |-> pool[c]]
              ELSE pool

\* ConntrackPoolSearch for the tuple, then for the swapped tuple
Search(p, c) == IF c \in DOMAIN p THEN {c}
                ELSE IF connswap(c) \in DOMAIN p THEN {connswap(c)} ELSE {}

Update(p, c, t) == [d \in DOMAIN p \cup {c} |-> IF d = c THEN t ELSE p[d]]

Bounded(t) == t.pos.client.pcounter <= MaxCount /\ t.pos.server.pcounter <= MaxCount

Init ==
    /\ pool = [c \in {} |-> {}]
    /\ now = 1
    /\ t_last_purge = now

\* ConntrackPoolPurge happens first in every handled packet (play_prolog)
Purged == t_last_purge' = IF PurgeDue THEN now ELSE t_last_purge

\* ConntrackPoolFeed finds the connection, in either direction
FeedKnown(c, s) ==
    /\ Purged
    /\ \E k \in Search(PurgedPool, c) :
         LET t == FeedPacket(PurgedPool[k], k # c, s)
         IN  Bounded(t) /\ pool' = Update(PurgedPool, k, t)
    /\ UNCHANGED now

\* mutant: a new entry is made without looking for the swapped tuple
FeedNewOneSearch(c, s) ==
    /\ Purged
    /\ c \notin DOMAIN PurgedPool
    /\ IsSyn(s) \/ IsSynAck(s) \/ s.proto = "udp"
    /\ LET rev == IsSynAck(s)
           k   == IF rev THEN connswap(c) ELSE c
       IN  pool' = Update(PurgedPool, k, NewTrack(rev, s))
    /\ UNCHANGED now

\* ConntrackPoolFeed makes an entry; that of a SYN/ACK is swapped, because its
\* sender is the server
FeedNew(c, s) ==
    /\ Purged
    /\ Search(PurgedPool, c) = {}
    /\ IsSyn(s) \/ IsSynAck(s) \/ s.proto = "udp"
    /\ LET rev == IsSynAck(s)
           k   == IF rev THEN connswap(c) ELSE c
       IN  pool' = Update(PurgedPool, k, NewTrack(rev, s))
    /\ UNCHANGED now

\* ConntrackPoolFeed returns false: nothing is known of the packet's connection
\* and it does not start one, or there is no memory for a new entry
FeedFails(c) ==
    /\ Purged
    /\ Search(PurgedPool, c) = {}
    /\ pool' = PurgedPool
    /\ UNCHANGED now

Tick ==
    /\ now < MaxTime
    /\ now' = now + 1
    /\ UNCHANGED <<pool, t_last_purge>>

Next ==
    \/ \E c \in Conns, s \in Segments :
         /\ s.proto = c.proto
         /\ FeedKnown(c, s) \/ FeedNew(c, s)
    \/ \E c \in Conns : FeedFails(c)
    \/ Tick

Spec == Init /\ [][Next]_vars

-----------------------------------------------------------------------------
TypeOK ==
    /\ DOMAIN pool \subseteq Conns
    /\ \A c \in DOMAIN pool : pool[c] \in Tracks
    /\ now \in 1 .. MaxTime
    /\ t_last_purge \in 1 .. now

\* A connection has one entry: both directions of it are counted in the same
\* track, whichever side's packet made the entry.  (A tuple equal to its own
\* swap is its own twin.)
OneTrackPerConnection ==
    \A c \in DOMAIN pool : connswap(c) \in DOMAIN pool => connswap(c) = c

\* No idle entry outlives its timeout by more than a purge interval of traffic:
\* at the time of the last purge every entry still in the pool was within the
\* timeout of the state it is in now.
PurgeIsComplete ==
    \A c \in DOMAIN pool : t_last_purge - pool[c].t_last < Timeout(c, pool[c])

\* An entry is never lost while its connection is within its timeout, and it
\* restarts (new t_start, everything learnt about the flow erased) only when it
\* is left in the SYN state, by a SYN or a SYN/ACK of another connection.
LiveEntryIsKept ==
    [][\A c \in DOMAIN pool : now - pool[c].t_last < Timeout(c, pool[c]) =>
         /\ c \in DOMAIN pool'
         /\ pool'[c].t_start # pool[c].t_start => pool'[c].pos.state = "SYN"]_vars
=============================================================================
