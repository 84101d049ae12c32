--------------------------- MODULE TcpFlow_proof ----------------------------
(***************************************************************************)
(* A conntrack entry that watches one TCP connection after another, for    *)
(* every size of the sequence space, every stream, however often it wraps, *)
(* and every initial sequence number.                                      *)
(*                                                                         *)
(* The proof relates what the entry stores, numbers of one turn, to stream *)
(* positions, which never wrap: uppos is the number of the highest         *)
(* position seen.  Since a side sends within its window, two positions     *)
(* that are compared are less than half a turn apart, and then the sign of *)
(* a wrapped difference is the sign of the real one.                       *)
(***************************************************************************)
EXTENDS TcpFlow, TLAPS

FlowType ==
    /\ ps \in Positions2
    /\ phase \in {"closed", "synsent", "synacked", "open", "ended"}
    /\ isn \in [Sides -> Seqs]
    /\ nxt \in [Sides -> Nat] /\ acked \in [Sides -> Nat] /\ end \in [Sides -> Nat]

\* the state of the entry follows the connection
StateInv ==
    ps.state = CASE phase = "open" -> "ESTABLISHED" [] phase = "ended" -> "FIN"
                 [] OTHER -> "SYN"

\* the entry knows the sides from their first packets on
Known(s) == phase \in IF s = "client" THEN {"synsent", "synacked", "open"} ELSE {"synacked", "open"}

SideInv ==
    \A s \in Sides :
        /\ Known(s) => ps[s].seq0 = isn[s] /\ ps[s].uppos = SeqAt(s, end[s])
        /\ phase = "synsent" => end[s] = 0 /\ nxt["client"] = 1
        /\ phase = "synacked" => end[s] = 0 /\ nxt[s] = 1
        /\ end[s] = nxt[s] \/ (end[s] = 0 /\ nxt[s] <= 1)

FlowInv == FlowType /\ StateInv /\ SideInv /\ RetransmissionIsExact

-----------------------------------------------------------------------------
(* Sequence numbers and stream positions.                                  *)

LEMMA Residue ==
    ASSUME NEW a \in Nat
    PROVE  /\ a % SeqMod \in Seqs
           /\ a = SeqMod * (a \div SeqMod) + (a % SeqMod) /\ a \div SeqMod \in Int
  BY SeqModAssumption DEF Seqs

LEMMA OneTurn == ASSUME NEW k \in Int, k >= 1 PROVE SeqMod * k >= SeqMod
  BY SeqModAssumption

LEMMA ResidueIsOne ==
    ASSUME NEW k \in Int, NEW j \in Int, NEW r \in Seqs, NEW q \in Seqs, SeqMod * k + r = SeqMod * j + q
    PROVE  r = q
  <1>1. SeqMod \in Nat /\ r \in 0 .. SeqMod - 1 /\ q \in 0 .. SeqMod - 1
    BY SeqModAssumption DEF Seqs
  <1>2. SeqMod * (k - j) = q - r /\ SeqMod * (j - k) = r - q
    BY <1>1
  <1>3. CASE k - j >= 1
    <2>1. SeqMod * (k - j) >= SeqMod
      BY <1>3, OneTurn
    <2> QED BY <1>1, <1>2, <2>1
  <1>4. CASE j - k >= 1
    <2>1. SeqMod * (j - k) >= SeqMod
      BY <1>4, OneTurn
    <2> QED BY <1>1, <1>2, <2>1
  <1>5. CASE k = j
    BY <1>1, <1>2, <1>5
  <1> QED BY <1>3, <1>4, <1>5

\* Moving less than a turn wraps at most once.
LEMMA Moved ==
    ASSUME NEW a \in Nat, NEW d \in Nat, d < SeqMod
    PROVE  (a + d) % SeqMod = SeqAdd(a % SeqMod, d)
  <1> DEFINE r == a % SeqMod
             k == a \div SeqMod
             s == (a + d) % SeqMod
             j == (a + d) \div SeqMod
  <1>1. a = SeqMod * k + r /\ k \in Int /\ r \in Seqs
    BY Residue
  <1>2. a + d = SeqMod * j + s /\ j \in Int /\ s \in Seqs
    <2>1. a + d \in Nat
      OBVIOUS
    <2> HIDE DEF r, k
    <2> QED BY <2>1, Residue
  <1> HIDE DEF r, k, s, j
  <1>3. CASE r + d < SeqMod
    <2>1. r + d \in Seqs /\ SeqMod * k + (r + d) = SeqMod * j + s
      BY <1>1, <1>2, <1>3, SeqModAssumption DEF Seqs
    <2>2. s = r + d
      BY <1>1, <1>2, <2>1, ResidueIsOne
    <2> QED BY <1>3, <2>2 DEF r, s, SeqAdd
  <1>4. CASE ~(r + d < SeqMod)
    <2>1. r + d - SeqMod \in Seqs /\ k + 1 \in Int
      BY <1>1, <1>4, SeqModAssumption DEF Seqs
    <2>2. SeqMod * (k + 1) = SeqMod * k + SeqMod
      BY <1>1, SeqModAssumption
    <2>3. SeqMod * (k + 1) + (r + d - SeqMod) = SeqMod * j + s
      BY <1>1, <1>2, <2>2, SeqModAssumption DEF Seqs
    <2>4. s = r + d - SeqMod
      BY <1>1, <1>2, <2>1, <2>3, ResidueIsOne
    <2> QED BY <1>4, <2>4 DEF r, s, SeqAdd
  <1> QED BY <1>3, <1>4

\* The number at a position, moved by a segment, is the number at the segment's end.
LEMMA SeqAtMoved ==
    ASSUME FlowType, NEW s \in Sides, NEW p \in Nat, NEW d \in Nat, d < SeqMod
    PROVE  /\ SeqAt(s, p) \in Seqs
           /\ SeqAt(s, p + d) = SeqAdd(SeqAt(s, p), d)
           /\ SeqAt(s, 0) = isn[s]
  <1>1. isn[s] \in Seqs /\ isn[s] \in Nat
    BY DEF FlowType, Seqs
  <1>2. isn[s] + p \in Nat /\ isn[s] + (p + d) = (isn[s] + p) + d /\ isn[s] + 0 = isn[s]
    BY <1>1
  <1>3. ((isn[s] + p) + d) % SeqMod = SeqAdd((isn[s] + p) % SeqMod, d)
    BY <1>2, Moved
  <1>4. (isn[s] + p) % SeqMod \in Seqs
    BY <1>2, Residue
  <1>5. isn[s] % SeqMod = isn[s]
    <2>1. isn[s] = SeqMod * (isn[s] \div SeqMod) + (isn[s] % SeqMod) /\ isn[s] \div SeqMod \in Int
          /\ isn[s] % SeqMod \in Seqs
      BY <1>1, Residue
    <2>2. isn[s] = SeqMod * 0 + isn[s]
      BY <1>1, SeqModAssumption
    <2> QED BY <1>1, <2>1, <2>2, ResidueIsOne
  <1> QED BY <1>2, <1>3, <1>4, <1>5 DEF SeqAt

\* The sign of a wrapped difference of two numbers is the sign of the difference of
\* their positions, if these are less than half a turn apart.
LEMMA SignIsTrue ==
    ASSUME FlowType, NEW s \in Sides, NEW p \in Nat, NEW q \in Nat,
           2 * (p - q) < SeqMod, 2 * (q - p) < SeqMod
    PROVE  HighBit(SeqSub(SeqAt(s, p), SeqAt(s, q))) <=> p < q
  <1> DEFINE a == SeqAt(s, p)
             b == SeqAt(s, q)
  <1>1. SeqMod \in Nat /\ SeqMod >= 4
    BY SeqModAssumption
  <1>2. CASE p >= q
    <2>1. p - q \in Nat /\ p - q < SeqMod /\ p = q + (p - q)
      BY <1>1, <1>2
    <2>2. b \in Seqs /\ a = SeqAdd(b, p - q)
      BY <2>1, SeqAtMoved
    <2> HIDE DEF a, b
    <2>3. SeqSub(a, b) = p - q
      BY <1>1, <2>1, <2>2 DEF SeqAdd, SeqSub, Seqs
    <2>4. HighBit(SeqSub(a, b)) <=> p < q
      BY <1>1, <1>2, <2>3 DEF HighBit
    <2> QED BY <2>4 DEF a, b
  <1>3. CASE p < q
    <2>1. q - p \in Nat /\ q - p < SeqMod /\ q = p + (q - p)
      BY <1>1, <1>3
    <2>2. a \in Seqs /\ b = SeqAdd(a, q - p)
      BY <2>1, SeqAtMoved
    <2> HIDE DEF a, b
    <2>3. SeqSub(a, b) = SeqMod - (q - p)
      BY <1>1, <1>3, <2>1, <2>2 DEF SeqAdd, SeqSub, Seqs
    <2>4. HighBit(SeqSub(a, b)) <=> p < q
      BY <1>1, <1>3, <2>3 DEF HighBit
    <2> QED BY <2>4 DEF a, b
  <1> QED BY <1>2, <1>3

-----------------------------------------------------------------------------
(* What a packet does to an entry.                                         *)

Segs == [proto : {"tcp"}, flag : Flags, seq : Seqs, ack : Seqs, len : {l \in Nat : l < SeqMod},
         win : {0}, scale : {NoScale}]

LEMMA SegmentIs ==
    ASSUME NEW flag \in Flags, NEW seq \in Seqs, NEW ack \in Seqs, NEW len \in Nat, len < SeqMod
    PROVE  LET k == Segment(flag, seq, ack, len)
           IN  k \in Segs /\ k.flag = flag /\ k.seq = seq /\ k.ack = ack /\ k.len = len /\ k.proto = "tcp"
  BY DEF Segment, Segs

LEMMA SeqTypes ==
    /\ 0 \in Seqs /\ 1 \in Seqs
    /\ \A a, b \in Seqs : SeqSub(a, b) \in Seqs
    /\ \A a \in Seqs, n \in Nat : n < SeqMod => SeqAdd(a, n) \in Seqs
  BY SeqModAssumption DEF SeqSub, SeqAdd, Seqs

LEMMA DirectIs ==
    ASSUME NEW d \in Position, NEW syn \in BOOLEAN, NEW k \in Segs
    PROVE  LET e == ApplyDirect(d, syn, k)
           IN  /\ e \in Position /\ e.seq0 = d.seq0
               /\ e.pos = SeqAdd(k.seq, k.len)
               /\ e.uppos = IF syn THEN e.pos ELSE UpposAfter(d, e.pos, k.len)
               /\ ~syn /\ k.len > 0 => e.uppos_prev = d.uppos
  <1> DEFINE pos == SeqAdd(k.seq, k.len)
             up == IF syn THEN pos ELSE UpposAfter(d, pos, k.len)
             prev == IF syn THEN pos ELSE IF k.len > 0 THEN d.uppos ELSE d.uppos_prev
             over == OverSticky(d, k.seq)
             w == IF syn THEN k.win ELSE k.win * 2^d.scale
  <1>1. /\ k.seq \in Seqs /\ k.len \in Nat /\ k.len < SeqMod /\ k.win = 0 /\ k.scale = NoScale
        /\ d.scale \in Scales /\ d.uppos \in Seqs /\ d.uppos_prev \in Seqs /\ d.seq0 \in Seqs
    BY DEF Segs, Position
  <1>2. pos \in Seqs
    BY <1>1, SeqTypes
  <1>3. w \in Nat
    <2>1. 2^d.scale \in Nat
      BY <1>1, ScalesAssumption
    <2>2. ASSUME NEW x \in Nat PROVE 0 * x \in Nat
      OBVIOUS
    <2> QED BY <1>1, <2>1, <2>2
  <1>4. over \in BOOLEAN
    BY DEF OverSticky, HighBit, Position
  <1>5. up \in Seqs /\ prev \in Seqs
    BY <1>1, <1>2 DEF UpposAfter
  <1>6. ApplyDirect(d, syn, k) =
          [d EXCEPT !.winsize_calc = w, !.scale = d.scale, !.seq_last = k.seq, !.pos = pos, !.uppos = up,
                    !.uppos_prev = prev, !.rseq_over_2G = over]
    BY <1>1 DEF ApplyDirect, Position
  <1> HIDE DEF w, over, up, prev, pos
  <1>7. /\ ApplyDirect(d, syn, k) \in Position /\ ApplyDirect(d, syn, k).seq0 = d.seq0
        /\ ApplyDirect(d, syn, k).pos = pos /\ ApplyDirect(d, syn, k).uppos = up
        /\ ApplyDirect(d, syn, k).uppos_prev = prev
    BY <1>1, <1>2, <1>3, <1>4, <1>5, <1>6, ZenonT(30) DEF Position
  <1> QED BY <1>7 DEF up, prev, pos

LEMMA ReverseIs ==
    ASSUME NEW d \in Position, NEW k \in Segs
    PROVE  LET e == ApplyReverse(d, k)
           IN  e \in Position /\ e.seq0 = d.seq0 /\ e.uppos = d.uppos
  <1>1. OverSticky(d, k.ack) \in BOOLEAN /\ k.ack \in Seqs
    BY DEF OverSticky, HighBit, Position, Segs
  <1> QED BY <1>1 DEF ApplyReverse, Position

LEMMA CountIs ==
    ASSUME NEW d \in Position, NEW len \in Nat
    PROVE  /\ CountSide(d, len) \in Position
           /\ CountSide(d, len).seq0 = d.seq0 /\ CountSide(d, len).uppos = d.uppos
           /\ Uncounted(d) \in Position
           /\ Uncounted(d).seq0 = d.seq0 /\ Uncounted(d).uppos = d.uppos
           /\ Uncounted(d).pos = d.pos /\ Uncounted(d).uppos_prev = d.uppos_prev
  <1>1. /\ d.pcounter + 1 \in Nat /\ d.pdcounter + 1 \in Nat /\ d.pdcounter \in Nat
        /\ d.pbcounter + len \in Nat
    BY DEF Position
  <1>2. /\ CountSide(d, len) \in Position
        /\ CountSide(d, len).seq0 = d.seq0 /\ CountSide(d, len).uppos = d.uppos
    BY <1>1 DEF CountSide, Position
  <1>3. /\ Uncounted(d) \in Position
        /\ Uncounted(d).seq0 = d.seq0 /\ Uncounted(d).uppos = d.uppos
        /\ Uncounted(d).pos = d.pos /\ Uncounted(d).uppos_prev = d.uppos_prev
    BY DEF Uncounted, Position
  <1> QED BY <1>2, <1>3

\* the entry's view of a side
Same(d, e) == e.seq0 = d.seq0 /\ e.uppos = d.uppos

LEMMA CountedIs ==
    ASSUME NEW q \in Positions2, NEW rev \in BOOLEAN, NEW k \in Segs
    PROVE  LET r == CountPacket(q, rev, k)
           IN  r \in Positions2 /\ r.state = q.state /\ Same(q.client, r.client) /\ Same(q.server, r.server)
  <1> DEFINE c == CountSide(q.client, k.len)
             s == CountSide(q.server, k.len)
             r == CountPacket(q, rev, k)
  <1>1. q.client \in Position /\ q.server \in Position /\ k.len \in Nat /\ q.state \in States
    BY DEF Positions2, Segs
  <1>2. c \in Position /\ Same(q.client, c) /\ s \in Position /\ Same(q.server, s)
        /\ Same(q.client, q.client) /\ Same(q.server, q.server)
    BY <1>1, CountIs DEF Same
  <1>3. CASE rev
    <2>1. r = [q EXCEPT !.server = s]
      BY <1>3 DEF CountPacket, Direct
    <2> HIDE DEF c, s, r
    <2>2. r \in Positions2 /\ r.state = q.state /\ r.client = q.client /\ r.server = s
      BY <1>1, <1>2, <2>1 DEF Positions2
    <2>3. r \in Positions2 /\ r.state = q.state /\ Same(q.client, r.client) /\ Same(q.server, r.server)
      BY <1>2, <2>2
    <2> QED BY <2>3 DEF r
  <1>4. CASE ~rev
    <2>1. r = [q EXCEPT !.client = c]
      BY <1>4 DEF CountPacket, Direct
    <2> HIDE DEF c, s, r
    <2>2. r \in Positions2 /\ r.state = q.state /\ r.client = c /\ r.server = q.server
      BY <1>1, <1>2, <2>1 DEF Positions2
    <2>3. r \in Positions2 /\ r.state = q.state /\ Same(q.client, r.client) /\ Same(q.server, r.server)
      BY <1>2, <2>2
    <2> QED BY <2>3 DEF r
  <1> QED BY <1>3, <1>4

\* seq0 of a side is set
LEMMA Seq0Is ==
    ASSUME NEW d \in Position, NEW x \in Seqs
    PROVE  LET e == [d EXCEPT !.seq0 = x]
           IN  e \in Position /\ e.seq0 = x /\ e.uppos = d.uppos
  BY DEF Position

\* the cases of ConntrackFeedPacket
LEMMA TrackedIs ==
    ASSUME NEW q \in Positions2, NEW rev \in BOOLEAN, NEW k \in Segs
    PROVE  LET r == TrackState(q, rev, k)
           IN  /\ r \in Positions2
               /\ r.client.uppos = q.client.uppos /\ r.server.uppos = q.server.uppos
               /\ k.flag = "SYN" =>
                    r.state = q.state /\ r.client.seq0 = k.seq /\ r.server.seq0 = q.server.seq0
               /\ k.flag = "SYNACK" =>
                    /\ r.state = q.state /\ r.server.seq0 = k.seq
                    /\ r.client.seq0 = IF q.client.seq0 = 0 THEN SeqSub(k.ack, 1) ELSE q.client.seq0
               /\ k.flag = "FIN" => r.state = "FIN"
               /\ k.flag = "ACK" =>
                    /\ r.state = IF q.state = "SYN" THEN "ESTABLISHED" ELSE q.state
                    /\ r.client.seq0 = q.client.seq0
                    /\ r.server.seq0 = IF q.state = "SYN" /\ ~rev /\ q.server.seq0 = 0 THEN SeqSub(k.ack, 1)
                                       ELSE q.server.seq0
  <1> DEFINE r == TrackState(q, rev, k)
  <1>1. /\ q.client \in Position /\ q.server \in Position /\ q.state \in States
    BY DEF Positions2
  <1>2. k.flag \in Flags /\ k.seq \in Seqs /\ k.ack \in Seqs /\ SeqSub(k.ack, 1) \in Seqs
        /\ q.client.seq0 \in Seqs /\ q.server.seq0 \in Seqs
    BY <1>1, SeqTypes DEF Segs, Position
  <1>4. CASE k.flag = "SYN"
    <2> DEFINE c == [q.client EXCEPT !.seq0 = k.seq]
    <2>1. c \in Position /\ c.seq0 = k.seq /\ c.uppos = q.client.uppos
      BY <1>1, <1>2, Seq0Is
    <2>2. r = [q EXCEPT !.client = c]
      BY <1>4 DEF TrackState
    <2> HIDE DEF c, r
    <2>3. r \in Positions2 /\ r.state = q.state /\ r.client = c /\ r.server = q.server
      BY <1>1, <2>1, <2>2 DEF Positions2
    <2> QED BY <1>4, <2>1, <2>3 DEF r
  <1>5. CASE k.flag = "SYNACK"
    <2> DEFINE x == IF q.client.seq0 = 0 THEN SeqSub(k.ack, 1) ELSE q.client.seq0
               c == [q.client EXCEPT !.seq0 = x]
               s == [q.server EXCEPT !.seq0 = k.seq]
    <2>1. x \in Seqs
      BY <1>2
    <2>2. r = [q EXCEPT !.client = c, !.server = s]
      BY <1>5 DEF TrackState
    <2> HIDE DEF x
    <2>3. /\ c \in Position /\ c.seq0 = x /\ c.uppos = q.client.uppos
          /\ s \in Position /\ s.seq0 = k.seq /\ s.uppos = q.server.uppos
      BY <1>1, <1>2, <2>1, Seq0Is
    <2> HIDE DEF c, s, r
    <2>4. r \in Positions2 /\ r.state = q.state /\ r.client = c /\ r.server = s
      BY <1>1, <2>2, <2>3 DEF Positions2
    <2> QED BY <1>5, <2>3, <2>4 DEF r, x
  <1>6. CASE k.flag = "FIN"
    <2>1. r = [q EXCEPT !.state = "FIN"] /\ "FIN" \in States
      BY <1>6 DEF TrackState, States
    <2> HIDE DEF r
    <2>2. r \in Positions2 /\ r.state = "FIN" /\ r.client = q.client /\ r.server = q.server
      BY <1>1, <2>1 DEF Positions2
    <2> QED BY <1>6, <2>2 DEF r
  <1>7. CASE k.flag = "ACK"
    <2> DEFINE x == IF ~rev /\ q.server.seq0 = 0 THEN SeqSub(k.ack, 1) ELSE q.server.seq0
               s == [q.server EXCEPT !.seq0 = x]
    <2>1. x \in Seqs
      BY <1>2
    <2>2. CASE q.state = "SYN"
      <3>1. r = [q EXCEPT !.state = "ESTABLISHED", !.server = s] /\ "ESTABLISHED" \in States
        BY <1>7, <2>2 DEF TrackState, States
      <3> HIDE DEF x
      <3>2. s \in Position /\ s.seq0 = x /\ s.uppos = q.server.uppos
        BY <1>1, <1>2, <2>1, Seq0Is
      <3> HIDE DEF s, r
      <3>3. r \in Positions2 /\ r.state = "ESTABLISHED" /\ r.client = q.client /\ r.server = s
        BY <1>1, <3>1, <3>2 DEF Positions2
      <3> QED BY <1>7, <2>2, <3>2, <3>3 DEF r, x
    <2>3. CASE q.state # "SYN"
      <3>1. r = q
        BY <1>7, <2>3 DEF TrackState
      <3> HIDE DEF r
      <3> QED BY <1>7, <2>3, <3>1 DEF r
    <2> QED BY <2>2, <2>3
  <1> QED BY <1>2, <1>4, <1>5, <1>6, <1>7 DEF Flags

\* ConntrackApplyPos
LEMMA AppliedIs ==
    ASSUME NEW q \in Positions2, NEW side \in Sides, NEW k \in Segs
    PROVE  LET r == DropCounters(ApplyPos(q, side = "server", k))
               o == Other(side)
           IN  /\ r \in Positions2 /\ r.state = q.state /\ Same(q[o], r[o])
               /\ r[side].seq0 = q[side].seq0
               /\ r[side].pos = SeqAdd(k.seq, k.len)
               /\ q.state = "SYN" => r[side].uppos = r[side].pos
               /\ q.state # "SYN" => /\ r[side].uppos = UpposAfter(q[side], r[side].pos, k.len)
                                     /\ k.len > 0 => r[side].uppos_prev = q[side].uppos
  <1> DEFINE syn == q.state = "SYN"
             m == ApplyPos(q, side = "server", k)
             r == DropCounters(m)
  <1>1. q.client \in Position /\ q.server \in Position /\ q.state \in States
    BY DEF Positions2
  <1>2. syn \in BOOLEAN
    OBVIOUS
  <1>3. CASE side = "client"
    <2> DEFINE c == ApplyDirect(q.client, syn, k)
               s == ApplyReverse(q.server, k)
    <2>1. m = [q EXCEPT !.client = c, !.server = s]
      BY <1>3 DEF ApplyPos, Direct, Reverse
    <2>2. /\ c \in Position /\ c.seq0 = q.client.seq0 /\ c.pos = SeqAdd(k.seq, k.len)
          /\ c.uppos = IF syn THEN c.pos ELSE UpposAfter(q.client, c.pos, k.len)
          /\ ~syn /\ k.len > 0 => c.uppos_prev = q.client.uppos
      <3> HIDE DEF syn
      <3> QED BY <1>1, <1>2, DirectIs
    <2>3. s \in Position /\ s.seq0 = q.server.seq0 /\ s.uppos = q.server.uppos
      BY <1>1, ReverseIs
    <2> HIDE DEF c, s, m
    <2>4. m \in Positions2 /\ m.state = q.state /\ m.client = c /\ m.server = s
      BY <1>1, <2>1, <2>2, <2>3 DEF Positions2
    <2>5. r = [m EXCEPT !.client = Uncounted(m.client), !.server = Uncounted(m.server)]
      BY DEF DropCounters
    <2>6. Uncounted(c) \in Position /\ Uncounted(s) \in Position
      BY <2>2, <2>3, CountIs
    <2> HIDE DEF r
    <2>7. r \in Positions2 /\ r.state = q.state /\ r.client = Uncounted(c) /\ r.server = Uncounted(s)
      BY <1>1, <2>4, <2>5, <2>6 DEF Positions2
    <2>8. Other(side) = "server"
      BY <1>3 DEF Other
    <2>9. /\ r.client.seq0 = c.seq0 /\ r.client.pos = c.pos /\ r.client.uppos = c.uppos
          /\ r.client.uppos_prev = c.uppos_prev /\ r.server.seq0 = s.seq0 /\ r.server.uppos = s.uppos
      BY <2>2, <2>3, <2>7, CountIs
    <2>10. Same(q["server"], r["server"])
      BY <2>3, <2>9 DEF Same
    <2> QED BY <1>3, <2>2, <2>7, <2>8, <2>9, <2>10 DEF r, m
  <1>4. CASE side = "server"
    <2> DEFINE c == ApplyReverse(q.client, k)
               s == ApplyDirect(q.server, syn, k)
    <2>1. m = [q EXCEPT !.server = s, !.client = c]
      BY <1>4 DEF ApplyPos, Direct, Reverse
    <2>2. /\ s \in Position /\ s.seq0 = q.server.seq0 /\ s.pos = SeqAdd(k.seq, k.len)
          /\ s.uppos = IF syn THEN s.pos ELSE UpposAfter(q.server, s.pos, k.len)
          /\ ~syn /\ k.len > 0 => s.uppos_prev = q.server.uppos
      <3> HIDE DEF syn
      <3> QED BY <1>1, <1>2, DirectIs
    <2>3. c \in Position /\ c.seq0 = q.client.seq0 /\ c.uppos = q.client.uppos
      BY <1>1, ReverseIs
    <2> HIDE DEF c, s, m
    <2>4. m \in Positions2 /\ m.state = q.state /\ m.client = c /\ m.server = s
      BY <1>1, <2>1, <2>2, <2>3 DEF Positions2
    <2>5. r = [m EXCEPT !.client = Uncounted(m.client), !.server = Uncounted(m.server)]
      BY DEF DropCounters
    <2>6. Uncounted(c) \in Position /\ Uncounted(s) \in Position
      BY <2>2, <2>3, CountIs
    <2> HIDE DEF r
    <2>7. r \in Positions2 /\ r.state = q.state /\ r.client = Uncounted(c) /\ r.server = Uncounted(s)
      BY <1>1, <2>4, <2>5, <2>6 DEF Positions2
    <2>8. Other(side) = "client"
      BY <1>4 DEF Other
    <2>9. /\ r.server.seq0 = s.seq0 /\ r.server.pos = s.pos /\ r.server.uppos = s.uppos
          /\ r.server.uppos_prev = s.uppos_prev /\ r.client.seq0 = c.seq0 /\ r.client.uppos = c.uppos
      BY <2>2, <2>3, <2>7, CountIs
    <2>10. Same(q["client"], r["client"])
      BY <2>3, <2>9 DEF Same
    <2> QED BY <1>4, <2>2, <2>7, <2>8, <2>9, <2>10 DEF r, m
  <1> QED BY <1>3, <1>4 DEF Sides

\* what packet k of a side makes of an entry q
Effect(q, r, side, k) ==
    /\ r \in Positions2
    /\ r[Other(side)].uppos = q[Other(side)].uppos
    /\ r[side].pos = SeqAdd(k.seq, k.len)
    /\ r.state = "SYN" => r[side].uppos = r[side].pos
    /\ r.state # "SYN" =>
         /\ r[side].uppos = IF k.len > 0 /\ ~HighBit(SeqSub(r[side].pos, q[side].uppos))
                            THEN r[side].pos ELSE q[side].uppos
         /\ k.len > 0 => r[side].uppos_prev = q[side].uppos
    /\ k.flag = "SYN" =>
         r.state = q.state /\ r["client"].seq0 = k.seq /\ r["server"].seq0 = q["server"].seq0
    /\ k.flag = "SYNACK" =>
         /\ r.state = q.state /\ r["server"].seq0 = k.seq
         /\ r["client"].seq0 = IF q["client"].seq0 = 0 THEN SeqSub(k.ack, 1) ELSE q["client"].seq0
    /\ k.flag = "FIN" => r.state = "FIN"
    /\ k.flag = "ACK" =>
         /\ r.state = IF q.state = "SYN" THEN "ESTABLISHED" ELSE q.state
         /\ r["client"].seq0 = q["client"].seq0
         /\ r["server"].seq0 = IF q.state = "SYN" /\ side = "client" /\ q["server"].seq0 = 0
                               THEN SeqSub(k.ack, 1) ELSE q["server"].seq0

\* ConntrackFeedPacket, from the entry that is there or that was erased
LEMMA FedFrom ==
    ASSUME NEW q \in Positions2, NEW side \in Sides, NEW k \in Segs
    PROVE  LET rev == side = "server"
           IN  Effect(q, DropCounters(ApplyPos(TrackState(q, rev, k), rev, k)), side, k)
  <1> DEFINE rev == side = "server"
             m == TrackState(q, rev, k)
             r == DropCounters(ApplyPos(m, rev, k))
             o == Other(side)
  <1>1. rev \in BOOLEAN /\ (~rev <=> side = "client") /\ o \in Sides
        /\ {side, o} = Sides /\ side # o
    BY DEF Sides, Other
  <1>2. /\ m \in Positions2
        /\ m["client"].uppos = q["client"].uppos /\ m["server"].uppos = q["server"].uppos
        /\ k.flag = "SYN" =>
             m.state = q.state /\ m["client"].seq0 = k.seq /\ m["server"].seq0 = q["server"].seq0
        /\ k.flag = "SYNACK" =>
             /\ m.state = q.state /\ m["server"].seq0 = k.seq
             /\ m["client"].seq0 = IF q["client"].seq0 = 0 THEN SeqSub(k.ack, 1) ELSE q["client"].seq0
        /\ k.flag = "FIN" => m.state = "FIN"
        /\ k.flag = "ACK" =>
             /\ m.state = IF q.state = "SYN" THEN "ESTABLISHED" ELSE q.state
             /\ m["client"].seq0 = q["client"].seq0
             /\ m["server"].seq0 = IF q.state = "SYN" /\ ~rev /\ q["server"].seq0 = 0
                                   THEN SeqSub(k.ack, 1) ELSE q["server"].seq0
    <2> HIDE DEF rev
    <2> QED BY <1>1, TrackedIs
  <1> HIDE DEF m
  <1>3. /\ r \in Positions2 /\ r.state = m.state /\ Same(m[o], r[o])
        /\ r[side].seq0 = m[side].seq0
        /\ r[side].pos = SeqAdd(k.seq, k.len)
        /\ m.state = "SYN" => r[side].uppos = r[side].pos
        /\ m.state # "SYN" => /\ r[side].uppos = UpposAfter(m[side], r[side].pos, k.len)
                              /\ k.len > 0 => r[side].uppos_prev = m[side].uppos
    BY <1>2, AppliedIs
  <1> HIDE DEF r, o
  <1>4. m[o].uppos = q[o].uppos /\ m[side].uppos = q[side].uppos
    BY <1>1, <1>2 DEF Sides
  <1>5. r["client"].seq0 = m["client"].seq0 /\ r["server"].seq0 = m["server"].seq0
    BY <1>1, <1>3 DEF Sides, Same
  <1>6. /\ r[o].uppos = q[o].uppos
        /\ r.state = "SYN" => r[side].uppos = r[side].pos
        /\ r.state # "SYN" =>
             /\ r[side].uppos = IF k.len > 0 /\ ~HighBit(SeqSub(r[side].pos, q[side].uppos))
                                THEN r[side].pos ELSE q[side].uppos
             /\ k.len > 0 => r[side].uppos_prev = q[side].uppos
    BY <1>3, <1>4 DEF Same, UpposAfter
  <1>7. /\ k.flag = "SYN" =>
             r.state = q.state /\ r["client"].seq0 = k.seq /\ r["server"].seq0 = q["server"].seq0
        /\ k.flag = "SYNACK" =>
             /\ r.state = q.state /\ r["server"].seq0 = k.seq
             /\ r["client"].seq0 = IF q["client"].seq0 = 0 THEN SeqSub(k.ack, 1) ELSE q["client"].seq0
        /\ k.flag = "FIN" => r.state = "FIN"
        /\ k.flag = "ACK" =>
             /\ r.state = IF q.state = "SYN" THEN "ESTABLISHED" ELSE q.state
             /\ r["client"].seq0 = q["client"].seq0
             /\ r["server"].seq0 = IF q.state = "SYN" /\ side = "client" /\ q["server"].seq0 = 0
                                   THEN SeqSub(k.ack, 1) ELSE q["server"].seq0
    BY <1>1, <1>2, <1>3, <1>5
  <1>8. Effect(q, r, side, k)
    BY <1>3, <1>6, <1>7 DEF Effect, o
  <1> QED BY <1>8 DEF r, m

LEMMA InitPositionsIs == InitPositions \in Positions2 /\ InitPositions.state = "SYN"
  BY ScalesAssumption, SeqModAssumption
  DEF InitPositions, Positions2, EmptyPosition, Position, States, Seqs

LEMMA Fed ==
    ASSUME FlowType, NEW side \in Sides, NEW k \in Segs, ~NeedsReInit(ps, k), Observe(side, k)
    PROVE  Effect(ps, ps', side, k)
  <1> DEFINE rev == side = "server"
             q == CountPacket(ps, rev, k)
             r == DropCounters(ApplyPos(TrackState(q, rev, k), rev, k))
  <1>1. ps' = r
    BY DEF Observe, FeedPositions, Segs
  <1>2. q \in Positions2 /\ q.state = ps.state /\ Same(ps["client"], q["client"]) /\ Same(ps["server"], q["server"])
    <2>1. rev \in BOOLEAN
      OBVIOUS
    <2> HIDE DEF rev
    <2> QED BY <2>1, CountedIs DEF FlowType
  <1>3. \A s \in Sides : q[s].seq0 = ps[s].seq0 /\ q[s].uppos = ps[s].uppos
    BY <1>2 DEF Sides, Same
  <1>4. Other(side) \in Sides /\ "client" \in Sides /\ "server" \in Sides
    BY DEF Other, Sides
  <1>5. Effect(q, r, side, k)
    <2> HIDE DEF q
    <2> QED BY <1>2, FedFrom
  <1> HIDE DEF q, r
  <1>6. Effect(q, ps', side, k)
    BY <1>1, <1>5
  <1> QED BY <1>2, <1>3, <1>4, <1>6 DEF Effect

LEMMA FedAnew ==
    ASSUME FlowType, NEW side \in Sides, NEW k \in Segs, NeedsReInit(ps, k), Observe(side, k)
    PROVE  Effect(InitPositions, ps', side, k)
  <1> DEFINE rev == side = "server"
  <1>1. ps' = DropCounters(ApplyPos(TrackState(InitPositions, rev, k), rev, k))
    BY DEF Observe, FeedPositions, Segs
  <1>2. Effect(InitPositions, DropCounters(ApplyPos(TrackState(InitPositions, rev, k), rev, k)), side, k)
    BY InitPositionsIs, FedFrom
  <1> QED BY <1>1, <1>2

-----------------------------------------------------------------------------
(* The connection.                                                         *)

LEMMA AtStart == ASSUME NEW i \in Seqs PROVE (i + 0) % SeqMod = i /\ SeqAdd(i, 0) = i
  <1>1. i \in Nat /\ i + 0 = i /\ i < SeqMod
    BY SeqModAssumption DEF Seqs
  <1>2. i = SeqMod * (i \div SeqMod) + (i % SeqMod) /\ i \div SeqMod \in Int /\ i % SeqMod \in Seqs
    BY <1>1, Residue
  <1>3. i = SeqMod * 0 + i
    BY <1>1, SeqModAssumption
  <1>4. i % SeqMod = i
    BY <1>2, <1>3, ResidueIsOne
  <1> QED BY <1>1, <1>4 DEF SeqAdd

LEMMA SidesAre == Sides = {"client", "server"} /\ Other("client") = "server" /\ Other("server") = "client"
  BY DEF Sides, Other

LEMMA FlowInit == Init => FlowInv
  <1> SUFFICES ASSUME Init PROVE FlowInv
    OBVIOUS
  <1>1. /\ ps \in Positions2 /\ ps.state = "SYN" /\ phase = "closed" /\ last.side = "none"
        /\ isn = Zero /\ nxt = Zero /\ acked = Zero /\ end = Zero
    BY InitPositionsIs DEF Init, NoData
  <1>2. Zero \in [Sides -> Seqs] /\ Zero \in [Sides -> Nat] /\ \A s \in Sides : Zero[s] = 0
    BY SeqTypes DEF Zero
  <1> QED BY <1>1, <1>2 DEF FlowInv, FlowType, StateInv, SideInv, Known, RetransmissionIsExact

LEMMA FlowConnect == FlowInv /\ Connect => FlowInv'
  <1> SUFFICES ASSUME FlowInv, Connect PROVE FlowInv'
    OBVIOUS
  <1> DEFINE k == Segment("SYN", isn'["client"], 0, 0)
  <1>0. FlowType
    BY DEF FlowInv
  <1>1. isn' \in [Sides -> Seqs]
    <2>1. PICK c \in ISNs["client"], s \in ISNs["server"] : isn' = [client |-> c, server |-> s]
      BY DEF Connect
    <2>2. c \in Seqs /\ s \in Seqs
      BY <2>1, SidesAre, TcpFlowAssumption
    <2> QED BY <2>1, <2>2, SidesAre
  <1>2. /\ k \in Segs /\ k.flag = "SYN" /\ k.seq = isn'["client"] /\ k.len = 0 /\ k.proto = "tcp"
    BY <1>1, SeqTypes, SidesAre, SegmentIs, SeqModAssumption DEF Flags
  <1>3. /\ phase' = "synsent" /\ nxt' = [client |-> 1, server |-> 0]
        /\ acked' = Zero /\ end' = Zero /\ last' = NoData /\ Observe("client", k)
    BY DEF Connect
  <1> HIDE DEF k
  <1>4. /\ ps' \in Positions2 /\ ps'.state = "SYN"
        /\ ps'["client"].seq0 = isn'["client"] /\ ps'["client"].uppos = SeqAdd(isn'["client"], 0)
    <2>1. CASE NeedsReInit(ps, k)
      <3>1. Effect(InitPositions, ps', "client", k)
        BY <1>0, <1>2, <1>3, <2>1, SidesAre, FedAnew
      <3> QED BY <1>2, <3>1, InitPositionsIs DEF Effect
    <2>2. CASE ~NeedsReInit(ps, k)
      <3>1. Effect(ps, ps', "client", k)
        BY <1>0, <1>2, <1>3, <2>2, SidesAre, Fed
      <3>2. ps.state = "SYN"
        BY <1>2, <2>2 DEF NeedsReInit, IsSyn
      <3> QED BY <1>2, <3>1, <3>2 DEF Effect
    <2> QED BY <2>1, <2>2
  <1>5. Zero \in [Sides -> Nat] /\ \A s \in Sides : Zero[s] = 0
    BY DEF Zero
  <1>6. nxt' \in [Sides -> Nat] /\ nxt'["client"] = 1 /\ nxt'["server"] = 0
    BY <1>3, SidesAre
  <1>7. FlowType' /\ StateInv'
    BY <1>1, <1>3, <1>4, <1>5, <1>6 DEF FlowType, StateInv
  <1>8. isn'["client"] \in Seqs
    BY <1>1, SidesAre
  <1>9. ps'["client"].uppos = (isn'["client"] + 0) % SeqMod
    BY <1>4, <1>8, AtStart
  <1>10. SideInv'
    <2> SUFFICES ASSUME NEW s \in Sides
                 PROVE  /\ s = "client" => ps'[s].seq0 = isn'[s] /\ ps'[s].uppos = (isn'[s] + end'[s]) % SeqMod
                        /\ end'[s] = 0 /\ nxt'["client"] = 1
                        /\ end'[s] = nxt'[s] \/ (end'[s] = 0 /\ nxt'[s] <= 1)
      BY <1>3 DEF SideInv, Known, SeqAt
    <2>1. CASE s = "client"
      BY <1>3, <1>4, <1>5, <1>6, <1>9, <2>1
    <2>2. CASE s = "server"
      BY <1>3, <1>5, <1>6, <2>2
    <2> QED BY <2>1, <2>2, SidesAre
  <1>11. RetransmissionIsExact'
    BY <1>3 DEF RetransmissionIsExact, NoData
  <1> QED BY <1>7, <1>10, <1>11 DEF FlowInv

LEMMA FlowRetransmitSyn == FlowInv /\ RetransmitSyn => FlowInv'
  <1> SUFFICES ASSUME FlowInv, RetransmitSyn PROVE FlowInv'
    OBVIOUS
  <1> DEFINE k == Segment("SYN", isn["client"], 0, 0)
  <1>0. FlowType /\ StateInv /\ SideInv
    BY DEF FlowInv
  <1>1. isn["client"] \in Seqs
    BY <1>0, SidesAre DEF FlowType
  <1>2. /\ k \in Segs /\ k.flag = "SYN" /\ k.seq = isn["client"] /\ k.len = 0
    <2>1. "SYN" \in Flags /\ 0 \in Seqs /\ 0 \in Nat /\ 0 < SeqMod
      BY SeqTypes, SeqModAssumption DEF Flags
    <2> QED BY <1>1, <2>1, SegmentIs
  <1>3. /\ phase \in {"synsent", "synacked"} /\ Observe("client", k) /\ last' = NoData
        /\ phase' = phase /\ isn' = isn /\ nxt' = nxt /\ acked' = acked /\ end' = end
    BY DEF RetransmitSyn
  <1> HIDE DEF k
  <1>4. ps.state = "SYN"
    BY <1>0, <1>3 DEF StateInv
  <1>5. Effect(ps, ps', "client", k)
    BY <1>0, <1>2, <1>3, <1>4, SidesAre, Fed DEF NeedsReInit
  <1>6. /\ ps' \in Positions2 /\ ps'.state = "SYN"
        /\ ps'["client"].seq0 = isn["client"] /\ ps'["client"].uppos = SeqAdd(isn["client"], 0)
        /\ ps'["server"].seq0 = ps["server"].seq0 /\ ps'["server"].uppos = ps["server"].uppos
    BY <1>2, <1>4, <1>5, SidesAre DEF Effect
  <1>7. FlowType' /\ StateInv'
    BY <1>0, <1>3, <1>4, <1>6 DEF FlowType, StateInv
  <1>8. ps'["client"].uppos = SeqAt("client", 0) /\ end["client"] = 0
    BY <1>0, <1>1, <1>3, <1>6, AtStart, SidesAre DEF SeqAt, SideInv
  <1>9. SideInv'
    <2> SUFFICES ASSUME NEW s \in Sides
                 PROVE  /\ Known(s) => ps'[s].seq0 = isn[s] /\ ps'[s].uppos = SeqAt(s, end[s])
      BY <1>0, <1>3 DEF SideInv, Known, SeqAt
    <2>1. CASE s = "client"
      BY <1>6, <1>8, <2>1
    <2>2. CASE s = "server"
      BY <1>0, <1>6, <2>2, SidesAre DEF SideInv
    <2> QED BY <2>1, <2>2, SidesAre
  <1>10. RetransmissionIsExact'
    BY <1>3 DEF RetransmissionIsExact, NoData
  <1> QED BY <1>7, <1>9, <1>10 DEF FlowInv

\* the number before the one at position 1
LEMMA BeforeFirst ==
    ASSUME FlowType, NEW s \in Sides
    PROVE  SeqAt(s, 1) \in Seqs /\ SeqSub(SeqAt(s, 1), 1) = isn[s]
  <1>1. isn[s] \in Seqs
    BY DEF FlowType
  <1>2. SeqAt(s, 0) = isn[s] /\ SeqAt(s, 0 + 1) = SeqAdd(SeqAt(s, 0), 1)
    BY SeqAtMoved, SeqModAssumption
  <1>3. SeqAt(s, 1) = SeqAdd(isn[s], 1)
    BY <1>2
  <1> QED BY <1>1, <1>3, SeqModAssumption DEF SeqAdd, SeqSub, Seqs

LEMMA FlowSynAck == FlowInv /\ SynAck => FlowInv'
  <1> SUFFICES ASSUME FlowInv, SynAck PROVE FlowInv'
    OBVIOUS
  <1> DEFINE k == Segment("SYNACK", isn["server"], SeqAt("client", 1), 0)
  <1>0. FlowType /\ StateInv /\ SideInv
    BY DEF FlowInv
  <1>1. /\ isn["server"] \in Seqs /\ SeqAt("client", 1) \in Seqs
        /\ SeqSub(SeqAt("client", 1), 1) = isn["client"]
    BY <1>0, SidesAre, BeforeFirst DEF FlowType
  <1>2. k \in Segs /\ k.flag = "SYNACK" /\ k.seq = isn["server"] /\ k.ack = SeqAt("client", 1) /\ k.len = 0
    <2>1. "SYNACK" \in Flags /\ 0 \in Nat /\ 0 < SeqMod
      BY SeqModAssumption DEF Flags
    <2> QED BY <1>1, <2>1, SegmentIs
  <1>3. /\ phase \in {"synsent", "synacked", "open"} /\ Observe("server", k) /\ last' = NoData
        /\ nxt["server"] <= 1
        /\ phase' = IF phase = "open" THEN "open" ELSE "synacked"
        /\ nxt' = [nxt EXCEPT !["server"] = 1] /\ isn' = isn /\ end' = end
        /\ acked' = [acked EXCEPT !["server"] = Larger(@, 1)]
    BY DEF SynAck
  <1> HIDE DEF k
  <1>4. ps["client"].seq0 = isn["client"] /\ ps["client"].uppos = SeqAt("client", end["client"])
    BY <1>0, <1>3, SidesAre DEF SideInv, Known
  <1>5. ~NeedsReInit(ps, k)
    BY <1>1, <1>2, <1>4 DEF NeedsReInit, IsSyn
  <1>6. Effect(ps, ps', "server", k)
    BY <1>0, <1>2, <1>3, <1>5, SidesAre, Fed
  <1>7. /\ ps' \in Positions2 /\ ps'.state = ps.state
        /\ ps'["client"].seq0 = isn["client"] /\ ps'["client"].uppos = ps["client"].uppos
        /\ ps'["server"].seq0 = isn["server"]
        /\ ps.state = "SYN" => ps'["server"].uppos = SeqAdd(isn["server"], 0)
        /\ ps.state # "SYN" => ps'["server"].uppos = ps["server"].uppos
    BY <1>1, <1>2, <1>4, <1>6, SidesAre DEF Effect
  <1>8. nxt' \in [Sides -> Nat] /\ nxt'["server"] = 1 /\ nxt'["client"] = nxt["client"]
        /\ acked' \in [Sides -> Nat]
    BY <1>0, <1>3, SidesAre DEF FlowType, Larger
  <1>9. FlowType' /\ StateInv'
    BY <1>0, <1>3, <1>7, <1>8 DEF FlowType, StateInv
  <1>10. ps'["server"].uppos = SeqAt("server", end["server"])
    <2>1. CASE phase = "open"
      <3>1. ps.state # "SYN"
        BY <1>0, <2>1 DEF StateInv
      <3>2. ps["server"].uppos = SeqAt("server", end["server"])
        BY <1>0, <2>1, SidesAre DEF SideInv, Known
      <3> QED BY <1>7, <3>1, <3>2
    <2>2. CASE phase \in {"synsent", "synacked"}
      <3>1. ps.state = "SYN"
        BY <1>0, <2>2 DEF StateInv
      <3>2. end["server"] = 0
        BY <1>0, <2>2, SidesAre DEF SideInv
      <3> QED BY <1>1, <1>7, <3>1, <3>2, AtStart DEF SeqAt
    <2> QED BY <1>3, <2>1, <2>2
  <1>11. ASSUME NEW s \in Sides
         PROVE  /\ ps'[s].seq0 = isn[s] /\ ps'[s].uppos = SeqAt(s, end[s])
                /\ phase' = "synacked" => end[s] = 0 /\ nxt'[s] = 1
                /\ end[s] = nxt'[s] \/ (end[s] = 0 /\ nxt'[s] <= 1)
    <2>1. /\ end[s] \in Nat /\ nxt[s] \in Nat
          /\ end[s] = nxt[s] \/ (end[s] = 0 /\ nxt[s] <= 1)
          /\ phase \in {"synsent", "synacked"} => end[s] = 0 /\ nxt["client"] = 1
      BY <1>0, SidesAre DEF FlowType, SideInv
    <2>2. phase' = "synacked" => phase \in {"synsent", "synacked"}
      BY <1>3
    <2>3. CASE s = "client"
      BY <1>4, <1>7, <1>8, <2>1, <2>2, <2>3
    <2>4. CASE s = "server"
      BY <1>3, <1>7, <1>8, <1>10, <2>1, <2>2, <2>4
    <2> QED BY <2>3, <2>4, SidesAre
  <1>12. SideInv'
    BY <1>3, <1>11 DEF SideInv, Known, SeqAt
  <1>13. RetransmissionIsExact'
    BY <1>3 DEF RetransmissionIsExact, NoData
  <1> QED BY <1>9, <1>12, <1>13 DEF FlowInv

LEMMA FlowFinish ==
    ASSUME FlowInv, NEW side \in Sides, NEW withAck \in BOOLEAN, Finish(side, withAck)
    PROVE  FlowInv'
  <1> DEFINE seq == SeqAt(side, nxt[side])
             ack == IF withAck THEN SeqAt(Other(side), acked[side]) ELSE 0
             k == Segment("FIN", seq, ack, 0)
  <1>0. FlowType /\ StateInv /\ SideInv
    BY DEF FlowInv
  <1>1. nxt[side] \in Nat /\ acked[side] \in Nat /\ Other(side) \in Sides
    BY <1>0 DEF FlowType, Other, Sides
  <1>2. seq \in Seqs /\ ack \in Seqs
    <2>1. 0 \in Nat /\ 0 < SeqMod
      BY SeqModAssumption
    <2>2. SeqAt(side, nxt[side]) \in Seqs /\ SeqAt(Other(side), acked[side]) \in Seqs
      BY <1>0, <1>1, <2>1, SeqAtMoved
    <2> QED BY <2>2, SeqTypes
  <1>3. Observe(side, k) /\ phase' = "ended" /\ last' = NoData /\ isn' = isn /\ nxt' = nxt /\ acked' = acked
        /\ end' = end
    BY DEF Finish
  <1> HIDE DEF seq, ack
  <1>4. k \in Segs /\ k.flag = "FIN"
    <2>1. "FIN" \in Flags /\ 0 \in Nat /\ 0 < SeqMod
      BY SeqModAssumption DEF Flags
    <2> QED BY <1>2, <2>1, SegmentIs
  <1> HIDE DEF k
  <1>5. Effect(ps, ps', side, k)
    BY <1>0, <1>3, <1>4, Fed DEF NeedsReInit, IsSyn, IsSynAck
  <1>6. ps' \in Positions2 /\ ps'.state = "FIN"
    BY <1>4, <1>5 DEF Effect
  <1> QED BY <1>0, <1>3, <1>6
          DEF FlowInv, FlowType, StateInv, SideInv, Known, RetransmissionIsExact, NoData

LEMMA FlowData ==
    ASSUME FlowInv, NEW side \in Sides, NEW p \in Nat, NEW len \in Lens, NEW a \in Nat, Data(side, p, len, a)
    PROVE  FlowInv'
  <1> DEFINE o == Other(side)
             k == Segment("ACK", SeqAt(side, p), SeqAt(o, a), len)
             e == end[side]
  <1>0. FlowType /\ StateInv /\ SideInv
    BY DEF FlowInv
  <1>1. /\ o \in Sides /\ o # side /\ Sides = {side, o}
        /\ len \in Nat /\ len < SeqMod /\ 2 * (Window + len) < SeqMod /\ Window \in Nat \ {0}
        /\ SeqMod \in Nat
    <2>1. /\ len \in Nat /\ Window \in Nat \ {0} /\ 2 * (Window + len) < SeqMod /\ SeqMod \in Nat
      BY TcpFlowAssumption, SeqModAssumption
    <2>2. len < SeqMod
      BY <2>1
    <2> QED BY <2>1, <2>2 DEF Other, Sides
  <1>2. SeqAt(side, p) \in Seqs /\ SeqAt(o, a) \in Seqs /\ SeqAt(side, p + len) = SeqAdd(SeqAt(side, p), len)
    BY <1>0, <1>1, SeqAtMoved
  <1>3. k \in Segs /\ k.flag = "ACK" /\ k.seq = SeqAt(side, p) /\ k.ack = SeqAt(o, a) /\ k.len = len
    <2>1. "ACK" \in Flags
      BY DEF Flags
    <2> QED BY <1>1, <1>2, <2>1, SegmentIs
  <1>4. /\ phase = "open" \/ (phase = "synacked" /\ side = "client" /\ len = 0)
        /\ p <= nxt[side] /\ p >= 1 /\ p >= nxt[side] - Window /\ (len = 0 => p = nxt[side])
        /\ a >= 1 /\ a <= nxt[o]
        /\ Observe(side, k) /\ phase' = "open" /\ isn' = isn
        /\ nxt' = [nxt EXCEPT ![side] = Larger(@, p + len)]
        /\ acked' = [acked EXCEPT ![side] = a]
        /\ end' = IF len = 0 THEN end ELSE [end EXCEPT ![side] = Larger(@, p + len)]
        /\ last' = IF len = 0 THEN NoData ELSE [side |-> side, seen |-> p + len <= end[side]]
    BY DEF Data
  <1> HIDE DEF k, o
  <1>5. Effect(ps, ps', side, k)
    BY <1>0, <1>3, <1>4, Fed DEF NeedsReInit, IsSyn, IsSynAck
  <1>6. /\ ps' \in Positions2 /\ ps'.state = "ESTABLISHED" /\ ps'[side].pos = SeqAt(side, p + len)
        /\ ps'[o].uppos = ps[o].uppos
        /\ ps'[side].uppos = IF len > 0 /\ ~HighBit(SeqSub(SeqAt(side, p + len), ps[side].uppos))
                             THEN SeqAt(side, p + len) ELSE ps[side].uppos
        /\ len > 0 => ps'[side].uppos_prev = ps[side].uppos
        /\ ps'["client"].seq0 = ps["client"].seq0
        /\ ps'["server"].seq0 = IF ps.state = "SYN" /\ side = "client" /\ ps["server"].seq0 = 0
                                THEN SeqSub(SeqAt(o, a), 1) ELSE ps["server"].seq0
    <2>1. ps.state \in {"SYN", "ESTABLISHED"}
      BY <1>0, <1>4 DEF StateInv
    <2> QED BY <1>2, <1>3, <1>5, <2>1 DEF Effect, o
  <1>7. \A s \in Sides : ps[s].seq0 = isn[s] /\ ps[s].uppos = SeqAt(s, end[s])
    BY <1>0, <1>4 DEF SideInv, Known
  <1>8. /\ end[side] \in Nat /\ nxt[side] \in Nat /\ end[o] \in Nat /\ nxt[o] \in Nat
        /\ end[side] = nxt[side] \/ (end[side] = 0 /\ nxt[side] <= 1)
    BY <1>0, <1>1 DEF FlowType, SideInv
  <1>9. /\ nxt' \in [Sides -> Nat] /\ nxt'[side] = Larger(nxt[side], p + len) /\ nxt'[o] = nxt[o]
        /\ acked' \in [Sides -> Nat] /\ end' \in [Sides -> Nat]
        /\ end'[o] = end[o]
        /\ end'[side] = IF len = 0 THEN end[side] ELSE Larger(end[side], p + len)
    BY <1>0, <1>1, <1>4 DEF FlowType, Larger
  <1>10. FlowType' /\ StateInv'
    BY <1>0, <1>4, <1>6, <1>9 DEF FlowType, StateInv
  <1>11. /\ p + len \in Nat
         /\ 2 * (p + len - e) < SeqMod /\ 2 * (e - (p + len)) < SeqMod
    BY <1>1, <1>4, <1>8
  <1>12. /\ HighBit(SeqSub(SeqAt(side, p + len), SeqAt(side, e))) <=> p + len < e
         /\ HighBit(SeqSub(SeqAt(side, e), SeqAt(side, p + len))) <=> e < p + len
    <2> DEFINE z == p + len
    <2>1. z \in Nat /\ e \in Nat /\ 2 * (z - e) < SeqMod /\ 2 * (e - z) < SeqMod
      BY <1>1, <1>8, <1>11
    <2> HIDE DEF z, e
    <2>2. /\ HighBit(SeqSub(SeqAt(side, z), SeqAt(side, e))) <=> z < e
          /\ HighBit(SeqSub(SeqAt(side, e), SeqAt(side, z))) <=> e < z
      BY <1>0, <2>1, SignIsTrue
    <2> QED BY <2>2 DEF z
  <1>13. ps'[side].uppos = SeqAt(side, end'[side])
    <2>1. CASE len = 0
      BY <1>6, <1>7, <1>9, <2>1
    <2>2. CASE len # 0 /\ p + len < e
      <3>1. Larger(e, p + len) = e
        BY <1>8, <1>11, <2>2 DEF Larger
      <3> QED BY <1>6, <1>7, <1>9, <1>12, <2>2, <3>1
    <2>3. CASE len # 0 /\ ~(p + len < e)
      <3>1. Larger(e, p + len) = p + len /\ len > 0
        BY <1>1, <1>8, <1>11, <2>3 DEF Larger
      <3> QED BY <1>6, <1>7, <1>9, <1>12, <2>3, <3>1
    <2> QED BY <2>1, <2>2, <2>3
  <1>14. \A s \in Sides : ps'[s].seq0 = isn[s]
    <2>1. ps'["client"].seq0 = isn["client"]
      BY <1>6, <1>7, SidesAre
    <2>2. ps'["server"].seq0 = isn["server"]
      <3>1. CASE ps.state = "SYN" /\ side = "client"
        <4>1. phase = "synacked" /\ o = "server"
          BY <1>0, <1>4, <3>1, SidesAre DEF StateInv, o
        <4>2. nxt["server"] = 1
          BY <1>0, <4>1, SidesAre DEF SideInv
        <4>3. a = 1
          BY <1>4, <4>1, <4>2
        <4>4. SeqSub(SeqAt(o, a), 1) = isn["server"]
          BY <1>0, <4>1, <4>3, SidesAre, BeforeFirst
        <4> QED BY <1>6, <1>7, <4>4, SidesAre
      <3>2. CASE ~(ps.state = "SYN" /\ side = "client")
        BY <1>6, <1>7, <3>2, SidesAre
      <3> QED BY <3>1, <3>2
    <2> QED BY <2>1, <2>2, SidesAre
  <1>15. SideInv'
    <2>1. ASSUME NEW s \in Sides
          PROVE  /\ ps'[s].seq0 = isn[s] /\ ps'[s].uppos = SeqAt(s, end'[s])
                 /\ end'[s] = nxt'[s] \/ (end'[s] = 0 /\ nxt'[s] <= 1)
      <3>1. CASE s = side
        <4>1. end'[side] = nxt'[side] \/ (end'[side] = 0 /\ nxt'[side] <= 1)
          BY <1>1, <1>4, <1>8, <1>9 DEF Larger
        <4> QED BY <1>13, <1>14, <3>1, <4>1
      <3>2. CASE s = o
        <4>1. end[o] = nxt[o] \/ (end[o] = 0 /\ nxt[o] <= 1)
          BY <1>0, <1>1 DEF SideInv
        <4> QED BY <1>1, <1>6, <1>7, <1>9, <1>14, <3>2, <4>1
      <3> QED BY <1>1, <3>1, <3>2
    <2> QED BY <1>4, <2>1 DEF SideInv, Known, SeqAt
  <1>16. RetransmissionIsExact'
    <2>1. CASE len = 0
      BY <1>4, <2>1 DEF RetransmissionIsExact, NoData
    <2>2. CASE len # 0
      <3>1. last'.side = side /\ (last'.seen <=> p + len <= e) /\ len > 0
        <4>1. last' = [side |-> side, seen |-> p + len <= e]
          BY <1>4, <2>2
        <4>2. len > 0
          BY <1>1, <2>2
        <4> HIDE DEF e
        <4> QED BY <4>1, <4>2
      <3>2. ps'[side].uppos_prev = SeqAt(side, e) /\ ps'[side].pos = SeqAt(side, p + len)
        BY <1>6, <1>7, <3>1
      <3>3. is_retransmission(ps'[side]) <=> ~(e < p + len)
        BY <1>12, <3>2 DEF is_retransmission
      <3>4. ~(e < p + len) <=> p + len <= e
        BY <1>8, <1>11
      <3> QED BY <3>1, <3>3, <3>4 DEF RetransmissionIsExact
    <2> QED BY <2>1, <2>2
  <1> QED BY <1>10, <1>15, <1>16 DEF FlowInv

LEMMA FlowAlways == Spec => []FlowInv
  <1>1. FlowInv /\ [Next]_vars => FlowInv'
    <2> SUFFICES ASSUME FlowInv, [Next]_vars PROVE FlowInv'
      OBVIOUS
    <2>1. CASE Connect \/ RetransmitSyn \/ SynAck
      BY <2>1, FlowConnect, FlowRetransmitSyn, FlowSynAck
    <2>2. ASSUME NEW side \in Sides, NEW p \in 1 .. StreamLen[side] + 1,
                 NEW a \in 1 .. StreamLen[Other(side)] + 1, NEW len \in Lens, Data(side, p, len, a)
          PROVE  FlowInv'
      BY <2>2, FlowData
    <2>3. ASSUME NEW side \in Sides, NEW withAck \in BOOLEAN, Finish(side, withAck)
          PROVE  FlowInv'
      BY <2>3, FlowFinish
    <2>4. CASE UNCHANGED vars
      BY <2>4 DEF vars, FlowInv, FlowType, StateInv, SideInv, Known, SeqAt, RetransmissionIsExact
    <2> QED BY <2>1, <2>2, <2>3, <2>4 DEF Next
  <1> QED BY <1>1, FlowInit, PTL DEF Spec

\* is_retransmission is right about every data packet of a connection, for streams
\* that wrap the sequence space any number of times: the sign of the 32-bit
\* difference of uppos_prev and pos tells whether the packet brings data, as long as
\* a retransmission starts less than half of the space back.
THEOREM RetransmissionsAreKnown == Spec => []RetransmissionIsExact
  <1>1. FlowInv => RetransmissionIsExact
    BY DEF FlowInv
  <1> QED BY <1>1, FlowAlways, PTL

\* Relative positions count from the sides' own initial sequence numbers:
\* whatever SYN and SYN/ACK are repeated, also when a number is 0, which
\* ConntrackFeedPacket takes for "not known", and also on the entry of a connection
\* that has ended before.
THEOREM PositionsAreRelative == Spec => []RelativeToIsn
  <1>1. FlowInv => RelativeToIsn
    BY DEF FlowInv, SideInv, Known, RelativeToIsn
  <1> QED BY <1>1, FlowAlways, PTL
=============================================================================
