-------------------------- MODULE Conntrack_proof ---------------------------
(***************************************************************************)
(* The conntrack pool, for every set of connections, every set of packets, *)
(* every timeout and every purge interval.                                 *)
(***************************************************************************)
EXTENDS Conntrack, TLAPS

-----------------------------------------------------------------------------
(* What one packet does to the positions of an entry.                      *)

\* A sequence difference is a sequence number.
LEMMA SeqSubType == ASSUME NEW a \in Seqs, NEW b \in Seqs PROVE SeqSub(a, b) \in Seqs
  BY SeqModAssumption DEF SeqSub, Seqs

\* So is a sequence number moved by a segment.
LEMMA SeqAddType ==
    ASSUME NEW a \in Seqs, NEW n \in Nat, n < SeqMod PROVE SeqAdd(a, n) \in Seqs
  BY SeqModAssumption DEF SeqAdd, Seqs

\* The shape of the packets that ConntrackAssumption admits.
LEMMA SegmentShape ==
    ASSUME NEW s \in Segments
    PROVE  /\ s.flag \in Flags /\ s.seq \in Seqs /\ s.ack \in Seqs
           /\ s.len \in Nat /\ s.len < SeqMod /\ s.win \in Nat
           /\ s.scale \in Scales \cup {NoScale} /\ s.proto \in {"tcp", "udp"}
  BY ConntrackAssumption

\* Positions of a side stay positions when the side sends a packet...
LEMMA ApplyDirectType ==
    ASSUME NEW d \in Position, NEW syn \in BOOLEAN, NEW s \in Segments
    PROVE  ApplyDirect(d, syn, s) \in Position
  <1>1. /\ s.seq \in Seqs /\ s.len \in Nat /\ s.win \in Nat /\ s.len < SeqMod
        /\ s.scale \in Scales \cup {NoScale} /\ d.scale \in Scales /\ d.uppos \in Seqs
        /\ d.uppos_prev \in Seqs /\ d.seq0 \in Seqs
    BY SegmentShape DEF Position
  <1>2. SeqAdd(s.seq, s.len) \in Seqs
    BY <1>1, SeqAddType
  <1>3. s.win * 2^d.scale \in Nat
    <2>1. 2^d.scale \in Nat
      BY <1>1, ScalesAssumption
    <2>2. ASSUME NEW x \in Nat PROVE s.win * x \in Nat
      BY <1>1
    <2> QED BY <2>1, <2>2
  <1>4. UpposAfter(d, SeqAdd(s.seq, s.len), s.len) \in Seqs
    BY <1>1, <1>2 DEF UpposAfter
  <1>5. OverSticky(d, s.seq) \in BOOLEAN
    BY DEF OverSticky, HighBit, Position
  <1>6. (IF syn /\ s.scale # NoScale THEN s.scale ELSE d.scale) \in Scales
    BY <1>1 DEF NoScale
  <1> QED BY <1>1, <1>2, <1>3, <1>4, <1>5, <1>6 DEF ApplyDirect, Position

\* ... and when it is acknowledged.
LEMMA ApplyReverseType ==
    ASSUME NEW r \in Position, NEW s \in Segments
    PROVE  ApplyReverse(r, s) \in Position
  <1>1. OverSticky(r, s.ack) \in BOOLEAN
    BY DEF OverSticky, HighBit, Position
  <1> QED BY <1>1, SegmentShape DEF ApplyReverse, Position

\* The fields of the positions of an entry after the cases of
\* ConntrackFeedPacket.
LEMMA TrackStateType ==
    ASSUME NEW ps \in Positions2, NEW rev \in BOOLEAN, NEW s \in Segments
    PROVE  /\ TrackState(ps, rev, s) \in Positions2
           /\ s.flag \in {"SYN", "SYNACK"} =>
                TrackState(ps, rev, s).state = ps.state
  <1>1. /\ s.seq \in Seqs /\ s.ack \in Seqs /\ s.flag \in Flags
        /\ SeqSub(s.ack, 1) \in Seqs
    <2>1. 1 \in Seqs
      BY SeqModAssumption DEF Seqs
    <2> QED BY <2>1, SegmentShape, SeqSubType
  <1>2. /\ ps.client \in Position /\ ps.server \in Position /\ ps.state \in States
        /\ ps = [state |-> ps.state, client |-> ps.client, server |-> ps.server]
    BY DEF Positions2
  <1>3. \A q \in Seqs : /\ [ps.client EXCEPT !.seq0 = q] \in Position
                        /\ [ps.server EXCEPT !.seq0 = q] \in Position
    BY <1>2 DEF Position
  <1>4. CASE s.flag = "SYN"
    BY <1>1, <1>2, <1>3, <1>4 DEF TrackState, Positions2
  <1>5. CASE s.flag = "SYNACK"
    <2> DEFINE q == IF ps.client.seq0 = 0 THEN SeqSub(s.ack, 1) ELSE ps.client.seq0
    <2>1. q \in Seqs
      BY <1>1, <1>2 DEF Position
    <2>2. TrackState(ps, rev, s) =
            [ps EXCEPT !.client = [ps.client EXCEPT !.seq0 = q],
                       !.server = [ps.server EXCEPT !.seq0 = s.seq]]
      BY <1>2, <1>5 DEF TrackState, Position
    <2> QED BY <1>1, <1>2, <1>3, <2>1, <2>2 DEF Positions2
  <1>6. CASE s.flag = "FIN"
    BY <1>1, <1>2, <1>6 DEF TrackState, Positions2, States
  <1>7. CASE s.flag = "ACK"
    <2> DEFINE q == IF ~rev /\ ps.server.seq0 = 0 THEN SeqSub(s.ack, 1)
                    ELSE ps.server.seq0
    <2>1. q \in Seqs
      BY <1>1, <1>2 DEF Position
    <2>2. TrackState(ps, rev, s) =
            IF ps.state = "SYN"
            THEN [ps EXCEPT !.state = "ESTABLISHED",
                            !.server = [ps.server EXCEPT !.seq0 = q]]
            ELSE ps
      BY <1>2, <1>7 DEF TrackState, Position
    <2> QED BY <1>2, <1>3, <1>7, <2>1, <2>2 DEF Positions2, States
  <1> QED BY <1>1, <1>4, <1>5, <1>6, <1>7 DEF Flags

\* ConntrackApplyPos keeps the type and does not touch the state.
LEMMA ApplyPosType ==
    ASSUME NEW ps \in Positions2, NEW rev \in BOOLEAN, NEW s \in Segments
    PROVE  /\ ApplyPos(ps, rev, s) \in Positions2
           /\ ApplyPos(ps, rev, s).state = ps.state
  <1>1. /\ ps.client \in Position /\ ps.server \in Position /\ ps.state \in States
        /\ (ps.state = "SYN") \in BOOLEAN
    BY DEF Positions2
  <1>2. /\ ApplyDirect(ps.client, ps.state = "SYN", s) \in Position
        /\ ApplyDirect(ps.server, ps.state = "SYN", s) \in Position
        /\ ApplyReverse(ps.client, s) \in Position
        /\ ApplyReverse(ps.server, s) \in Position
    BY <1>1, ApplyDirectType, ApplyReverseType
  <1>3. CASE rev
    <2>1. ApplyPos(ps, rev, s) =
            [ps EXCEPT !.server = ApplyDirect(ps.server, ps.state = "SYN", s),
                       !.client = ApplyReverse(ps.client, s)]
      BY <1>3 DEF ApplyPos, Direct, Reverse, Positions2
    <2> QED BY <1>1, <1>2, <2>1 DEF Positions2
  <1>4. CASE ~rev
    <2>1. ApplyPos(ps, rev, s) =
            [ps EXCEPT !.client = ApplyDirect(ps.client, ps.state = "SYN", s),
                       !.server = ApplyReverse(ps.server, s)]
      BY <1>4 DEF ApplyPos, Direct, Reverse, Positions2
    <2> QED BY <1>1, <1>2, <2>1 DEF Positions2
  <1> QED BY <1>3, <1>4

\* Counting keeps the type and the state.
LEMMA CountPacketType ==
    ASSUME NEW ps \in Positions2, NEW rev \in BOOLEAN, NEW s \in Segments
    PROVE  /\ CountPacket(ps, rev, s) \in Positions2
           /\ CountPacket(ps, rev, s).state = ps.state
  <1>1. /\ ps.client \in Position /\ ps.server \in Position /\ s.len \in Nat
        /\ ps = [state |-> ps.state, client |-> ps.client, server |-> ps.server]
        /\ ps.state \in States
    BY SegmentShape DEF Positions2
  <1>2. /\ CountSide(ps.client, s.len) \in Position
        /\ CountSide(ps.server, s.len) \in Position
    <2>1. ASSUME NEW d \in Position PROVE CountSide(d, s.len) \in Position
      <3>1. /\ d.pcounter + 1 \in Nat /\ d.pdcounter + 1 \in Nat /\ d.pdcounter \in Nat
            /\ d.pbcounter + s.len \in Nat
        BY <1>1 DEF Position
      <3> QED BY <3>1 DEF CountSide, Position
    <2> QED BY <1>1, <2>1
  <1>3. CASE rev
    <2>1. CountPacket(ps, rev, s) = [ps EXCEPT !.server = CountSide(ps.server, s.len)]
      BY <1>1, <1>3 DEF CountPacket, Direct
    <2> QED BY <1>1, <1>2, <2>1 DEF Positions2
  <1>4. CASE ~rev
    <2>1. CountPacket(ps, rev, s) = [ps EXCEPT !.client = CountSide(ps.client, s.len)]
      BY <1>1, <1>4 DEF CountPacket, Direct
    <2> QED BY <1>1, <1>2, <2>1 DEF Positions2
  <1> QED BY <1>3, <1>4

LEMMA InitPositionsType == InitPositions \in Positions2
  BY ScalesAssumption, SeqModAssumption
  DEF InitPositions, Positions2, EmptyPosition, Position, States, Seqs

\* The whole packet: a re-initialised entry is left in the SYN state.
LEMMA FeedPositionsType ==
    ASSUME NEW ps \in Positions2, NEW rev \in BOOLEAN, NEW s \in Segments
    PROVE  /\ FeedPositions(ps, rev, s) \in Positions2
           /\ s.proto = "tcp" /\ NeedsReInit(ps, s) =>
                FeedPositions(ps, rev, s).state = "SYN"
  <1> DEFINE base == IF NeedsReInit(ps, s) THEN InitPositions ELSE CountPacket(ps, rev, s)
  <1>1. base \in Positions2
    BY InitPositionsType, CountPacketType
  <1>2. TrackState(base, rev, s) \in Positions2
    BY <1>1, TrackStateType
  <1>3. NeedsReInit(ps, s) => /\ base.state = "SYN"
                              /\ TrackState(base, rev, s).state = base.state
    BY <1>1, TrackStateType DEF NeedsReInit, IsSyn, IsSynAck, InitPositions
  <1> HIDE DEF base
  <1>4. /\ ApplyPos(TrackState(base, rev, s), rev, s) \in Positions2
        /\ ApplyPos(TrackState(base, rev, s), rev, s).state
             = TrackState(base, rev, s).state
    BY <1>2, ApplyPosType
  <1>5. s.proto = "tcp" =>
          FeedPositions(ps, rev, s) = ApplyPos(TrackState(base, rev, s), rev, s)
    BY DEF FeedPositions, base
  <1>6. s.proto # "tcp" => FeedPositions(ps, rev, s) = CountPacket(ps, rev, s)
    BY DEF FeedPositions
  <1> QED BY <1>3, <1>4, <1>5, <1>6, CountPacketType

-----------------------------------------------------------------------------
(* The pool.                                                               *)

PoolInv == TypeOK /\ OneTrackPerConnection /\ PurgeIsComplete

\* The timeouts of every state are positive.
LEMMA TimeoutPositive ==
    ASSUME NEW c \in Conns, NEW t \in Tracks
    PROVE  Timeout(c, t) \in Nat /\ Timeout(c, t) > 0
  <1>1. c.proto \in {"tcp", "udp"} /\ t.pos.state \in States
    BY ConntrackAssumption DEF Tracks, Positions2
  <1> QED BY <1>1, ConntrackAssumption DEF Timeout, States

\* Swapping twice gives the tuple back.
LEMMA SwapTwice ==
    ASSUME NEW c \in Conns
    PROVE  /\ connswap(connswap(c)) = c
           /\ connswap(c) \in Conns /\ connswap(c).proto = c.proto
  BY ConntrackAssumption DEF connswap

\* After ConntrackPoolPurge the pool is a part of what it was, and everything
\* in it is within its timeout at t_last_purge'.
LEMMA PurgedShape ==
    ASSUME PoolInv, Purged, now' = now
    PROVE  /\ DOMAIN PurgedPool \subseteq DOMAIN pool
           /\ \A c \in DOMAIN PurgedPool : PurgedPool[c] = pool[c]
           /\ \A c \in DOMAIN PurgedPool :
                t_last_purge' - pool[c].t_last < Timeout(c, pool[c])
           /\ t_last_purge' \in 1 .. now
           /\ \A c \in DOMAIN pool : ~Idle(pool, c) => c \in DOMAIN PurgedPool
  <1>1. /\ now \in Nat /\ now \in 1 .. now /\ t_last_purge \in 1 .. now
        /\ \A c \in DOMAIN pool : c \in Conns /\ pool[c] \in Tracks
    BY DEF PoolInv, TypeOK
  <1>2. \A c \in DOMAIN pool : pool[c].t_last \in Nat /\ Timeout(c, pool[c]) \in Nat
    BY <1>1, TimeoutPositive DEF Tracks
  <1>3. CASE PurgeDue
    <2>1. DOMAIN PurgedPool = {d \in DOMAIN pool : ~Idle(pool, d)}
      BY <1>3 DEF PurgedPool
    <2>2. \A c \in DOMAIN PurgedPool : PurgedPool[c] = pool[c]
      BY <1>3, <2>1 DEF PurgedPool
    <2>3. t_last_purge' = now
      BY <1>3 DEF Purged
    <2> QED BY <1>1, <1>2, <2>1, <2>2, <2>3 DEF Idle
  <1>4. CASE ~PurgeDue
    BY <1>1, <1>4 DEF PurgedPool, Purged, PoolInv, PurgeIsComplete
  <1> QED BY <1>3, <1>4

\* Putting a fresh or refreshed track into the purged pool keeps the invariant,
\* provided the swapped tuple is not in the pool.
LEMMA UpdateInv ==
    ASSUME PoolInv, Purged, now' = now,
           NEW k \in Conns, NEW t \in Tracks, t.t_last = now,
           connswap(k) \in DOMAIN PurgedPool => connswap(k) = k,
           pool' = Update(PurgedPool, k, t)
    PROVE  PoolInv'
  <1>1. /\ DOMAIN pool' = DOMAIN PurgedPool \cup {k}
        /\ pool'[k] = t
        /\ \A c \in DOMAIN PurgedPool : c # k => pool'[c] = pool[c]
    BY PurgedShape DEF Update
  <1>2. /\ t_last_purge' \in 1 .. now /\ now \in 1 .. MaxTime /\ MaxTime \in Nat
        /\ \A c \in DOMAIN PurgedPool : c \in DOMAIN pool /\ c \in Conns /\ pool[c] \in Tracks
    BY PurgedShape, ConntrackAssumption DEF PoolInv, TypeOK
  <1>3. TypeOK'
    BY <1>1, <1>2 DEF TypeOK
  <1>4. OneTrackPerConnection'
    <2> SUFFICES ASSUME NEW c \in DOMAIN pool', connswap(c) \in DOMAIN pool'
                 PROVE  connswap(c) = c
      BY DEF OneTrackPerConnection
    <2>1. c \in Conns /\ connswap(c) \in Conns /\ connswap(connswap(c)) = c
      BY <1>1, <1>2, SwapTwice
    <2>2. CASE c = k
      BY <1>1, <2>2
    <2>3. CASE connswap(c) = k
      BY <1>1, <2>1, <2>3
    <2>4. CASE c # k /\ connswap(c) # k
      BY <1>1, <1>2, <2>4 DEF PoolInv, OneTrackPerConnection
    <2> QED BY <2>2, <2>3, <2>4
  <1>5. PurgeIsComplete'
    <2> SUFFICES ASSUME NEW c \in DOMAIN pool'
                 PROVE  t_last_purge' - pool'[c].t_last < Timeout(c, pool'[c])
      BY DEF PurgeIsComplete
    <2>1. CASE c = k
      BY <1>1, <1>2, <2>1, TimeoutPositive
    <2>2. CASE c # k
      BY <1>1, <2>2, PurgedShape
    <2> QED BY <2>1, <2>2
  <1> QED BY <1>3, <1>4, <1>5 DEF PoolInv

\* The initial pool is empty.
LEMMA InitInv == Init => PoolInv
  BY ConntrackAssumption
  DEF Init, PoolInv, TypeOK, OneTrackPerConnection, PurgeIsComplete

\* A packet of a connection that is tracked.
LEMMA FeedKnownInv ==
    ASSUME PoolInv, NEW c \in Conns, NEW s \in Segments, s.proto = c.proto,
           FeedKnown(c, s)
    PROVE  PoolInv'
  <1>1. Purged /\ now' = now
    BY DEF FeedKnown
  <1>2. PICK k \in Search(PurgedPool, c) :
               pool' = Update(PurgedPool, k, FeedPacket(PurgedPool[k], k # c, s))
    BY DEF FeedKnown
  <1>3. k \in DOMAIN PurgedPool
    BY <1>2 DEF Search
  <1>4. k \in DOMAIN pool /\ k \in Conns /\ PurgedPool[k] = pool[k] /\ pool[k] \in Tracks
    BY <1>1, <1>3, PurgedShape DEF PoolInv, TypeOK
  <1> DEFINE t == FeedPacket(PurgedPool[k], k # c, s)
  <1>5. t \in Tracks /\ t.t_last = now
    <2>1. FeedPositions(pool[k].pos, k # c, s) \in Positions2
      BY <1>4, FeedPositionsType DEF Tracks
    <2>2. now \in 1 .. MaxTime /\ pool[k].t_start \in 1 .. MaxTime
      BY <1>4 DEF PoolInv, TypeOK, Tracks
    <2> QED BY <1>4, <2>1, <2>2 DEF FeedPacket, Tracks
  <1>6. connswap(k) \in DOMAIN PurgedPool => connswap(k) = k
    BY <1>1, <1>4, PurgedShape DEF PoolInv, OneTrackPerConnection
  <1> HIDE DEF t
  <1> QED BY <1>1, <1>2, <1>4, <1>5, <1>6, UpdateInv DEF t

\* A packet that starts tracking a connection.
LEMMA FeedNewInv ==
    ASSUME PoolInv, NEW c \in Conns, NEW s \in Segments, s.proto = c.proto,
           FeedNew(c, s)
    PROVE  PoolInv'
  <1> DEFINE rev == IsSynAck(s)
             k   == IF rev THEN connswap(c) ELSE c
             t   == NewTrack(rev, s)
  <1>1. Purged /\ now' = now /\ pool' = Update(PurgedPool, k, t)
    BY DEF FeedNew
  <1>2. c \notin DOMAIN PurgedPool /\ connswap(c) \notin DOMAIN PurgedPool
    BY DEF FeedNew, Search
  <1>3. k \in Conns /\ connswap(k) \in {c, connswap(c)}
    BY SwapTwice
  <1>4. t \in Tracks /\ t.t_last = now
    <2>1. rev \in BOOLEAN
      BY DEF IsSynAck
    <2>2. FeedPositions(InitPositions, rev, s) \in Positions2
      BY <2>1, InitPositionsType, FeedPositionsType
    <2>3. now \in 1 .. MaxTime
      BY DEF PoolInv, TypeOK
    <2> QED BY <2>2, <2>3 DEF NewTrack, Tracks
  <1> HIDE DEF k, t
  <1> QED BY <1>1, <1>2, <1>3, <1>4, UpdateInv

\* Every step keeps the invariant.
LEMMA NextInv == PoolInv /\ [Next]_vars => PoolInv'
  <1> SUFFICES ASSUME PoolInv, [Next]_vars PROVE PoolInv'
    OBVIOUS
  <1>1. CASE \E c \in Conns, s \in Segments :
               s.proto = c.proto /\ (FeedKnown(c, s) \/ FeedNew(c, s))
    BY <1>1, FeedKnownInv, FeedNewInv
  <1>2. CASE \E c \in Conns : FeedFails(c)
    <2>1. Purged /\ now' = now /\ pool' = PurgedPool
      BY <1>2 DEF FeedFails
    <2>2. TypeOK'
      BY <2>1, PurgedShape DEF PoolInv, TypeOK
    <2>3. OneTrackPerConnection'
      BY <2>1, PurgedShape DEF PoolInv, OneTrackPerConnection
    <2>4. PurgeIsComplete'
      BY <2>1, PurgedShape DEF PurgeIsComplete
    <2> QED BY <2>2, <2>3, <2>4 DEF PoolInv
  <1>3. CASE Tick
    <2>1. TypeOK'
      BY <1>3, ConntrackAssumption DEF Tick, PoolInv, TypeOK
    <2>2. OneTrackPerConnection' /\ PurgeIsComplete'
      BY <1>3 DEF Tick, PoolInv, OneTrackPerConnection, PurgeIsComplete
    <2> QED BY <2>1, <2>2 DEF PoolInv
  <1>4. CASE UNCHANGED vars
    BY <1>4 DEF vars, PoolInv, TypeOK, OneTrackPerConnection, PurgeIsComplete
  <1> QED BY <1>1, <1>2, <1>3, <1>4 DEF Next

-----------------------------------------------------------------------------
\* Every entry of the pool is well typed: its sequence numbers fit 32 bits, its
\* state is one of the three, whatever packets arrive.
THEOREM TypeCorrect == Spec => []TypeOK
  <1>1. PoolInv => TypeOK
    BY DEF PoolInv
  <1> QED BY InitInv, NextInv, <1>1, PTL DEF Spec

\* The two directions of a connection never get an entry each.
THEOREM NoTwinEntries == Spec => []OneTrackPerConnection
  <1>1. PoolInv => OneTrackPerConnection
    BY DEF PoolInv
  <1> QED BY InitInv, NextInv, <1>1, PTL DEF Spec

\* A purge leaves no entry that was due, and nothing that happens before the
\* next purge makes an entry overdue with respect to the last one.
THEOREM PurgeCompletes == Spec => []PurgeIsComplete
  <1>1. PoolInv => PurgeIsComplete
    BY DEF PoolInv
  <1> QED BY InitInv, NextInv, <1>1, PTL DEF Spec

\* Traffic within the timeout keeps an entry, and only a SYN or a SYN/ACK makes
\* it start again.
THEOREM LiveEntriesStay == Spec => LiveEntryIsKept
  <1> DEFINE Kept == \A c \in DOMAIN pool : now - pool[c].t_last < Timeout(c, pool[c]) =>
                       /\ c \in DOMAIN pool'
                       /\ pool'[c].t_start # pool[c].t_start => pool'[c].pos.state = "SYN"
  <1>1. PoolInv /\ [Next]_vars => [Kept]_vars
    <2> SUFFICES ASSUME PoolInv, Next,
                        NEW d \in DOMAIN pool, now - pool[d].t_last < Timeout(d, pool[d])
                 PROVE  /\ d \in DOMAIN pool'
                        /\ pool'[d].t_start # pool[d].t_start => pool'[d].pos.state = "SYN"
      OBVIOUS
    <2>1. /\ d \in Conns /\ pool[d] \in Tracks /\ now \in Nat
          /\ pool[d].t_last \in Nat /\ Timeout(d, pool[d]) \in Nat
      BY TimeoutPositive DEF PoolInv, TypeOK, Tracks
    <2>2. ~Idle(pool, d)
      BY <2>1 DEF Idle
    <2>3. ASSUME Purged, now' = now
          PROVE  d \in DOMAIN PurgedPool /\ PurgedPool[d] = pool[d]
      BY <2>2, <2>3, PurgedShape
    <2>4. ASSUME NEW c \in Conns, NEW s \in Segments, FeedKnown(c, s)
          PROVE  /\ d \in DOMAIN pool'
                 /\ pool'[d].t_start # pool[d].t_start => pool'[d].pos.state = "SYN"
      <3>1. PICK k \in Search(PurgedPool, c) :
                   pool' = Update(PurgedPool, k, FeedPacket(PurgedPool[k], k # c, s))
        BY <2>4 DEF FeedKnown
      <3>2. d \in DOMAIN PurgedPool /\ PurgedPool[d] = pool[d]
        BY <2>3, <2>4 DEF FeedKnown
      <3>3. CASE k # d
        BY <3>1, <3>2, <3>3 DEF Update
      <3>4. CASE k = d
        <4>1. d \in DOMAIN pool' /\ pool'[d] = FeedPacket(pool[d], d # c, s)
          BY <3>1, <3>2, <3>4 DEF Update
        <4>2. pool[d].pos \in Positions2
          BY <2>1 DEF Tracks
        <4>3. s.proto = "tcp" /\ NeedsReInit(pool[d].pos, s) =>
                FeedPositions(pool[d].pos, d # c, s).state = "SYN"
          BY <4>2, FeedPositionsType
        <4> QED BY <4>1, <4>3 DEF FeedPacket
      <3> QED BY <3>3, <3>4
    <2>5. ASSUME NEW c \in Conns, NEW s \in Segments, s.proto = c.proto, FeedNew(c, s)
          PROVE  d \in DOMAIN pool' /\ pool'[d] = pool[d]
      <3>1. d \in DOMAIN PurgedPool /\ PurgedPool[d] = pool[d]
        BY <2>3, <2>5 DEF FeedNew
      <3>2. c \notin DOMAIN PurgedPool /\ connswap(c) \notin DOMAIN PurgedPool
        BY <2>5 DEF FeedNew, Search
      <3>3. d # c /\ d # connswap(c)
        BY <3>1, <3>2
      <3> QED BY <2>5, <3>1, <3>3 DEF FeedNew, Update
    <2>6. ASSUME NEW c \in Conns, FeedFails(c)
          PROVE  d \in DOMAIN pool' /\ pool'[d] = pool[d]
      BY <2>3, <2>6 DEF FeedFails
    <2>7. CASE Tick
      BY <2>7 DEF Tick
    <2> QED BY <2>4, <2>5, <2>6, <2>7 DEF Next
  <1> QED BY InitInv, NextInv, <1>1, PTL DEF Spec, LiveEntryIsKept
=============================================================================
