-------------------------- MODULE Reassembly_proof --------------------------
(***************************************************************************)
(* For every sequence space, every stream within half of it, every buffer  *)
(* limit and every segment size: the reassembler of conntrack.c never      *)
(* writes outside its buffer and holds exactly a prefix of the stream.     *)
(***************************************************************************)
EXTENDS Reassembly, TLAPS

\* What the session's history adds to make the properties inductive.
SessionShape ==
    /\ reasm.size <= SzMax
    /\ ~ReasmIsEmpty(reasm) => start \in Positions
    /\ ReasmIsEmpty(reasm) => reasm.present = 0

ReassemblyInv == TypeOK /\ SessionShape /\ NoOverrun /\ PrefixIsStream

-----------------------------------------------------------------------------
(* Sequence arithmetic on positions of one stream.                         *)

\* A stream position has a sequence number.
LEMMA SeqOfType ==
    ASSUME isn \in Seqs, NEW p \in 0 .. StreamLen
    PROVE  SeqOf(p) \in Seqs
  BY ReassemblyAssumption, SeqModAssumption DEF SeqOf, SeqAdd, Seqs

\* Sequence subtraction on stream positions is subtraction, modulo the turn.
LEMMA SeqDistance ==
    ASSUME isn \in Seqs, NEW p \in 0 .. StreamLen, NEW q \in 0 .. StreamLen
    PROVE  /\ q >= p => SeqSub(SeqOf(q), SeqOf(p)) = q - p
           /\ q < p  => SeqSub(SeqOf(q), SeqOf(p)) = SeqMod - (p - q)
  BY ReassemblyAssumption, SeqModAssumption
  DEF SeqOf, SeqAdd, SeqSub, Seqs

\* Moving on by g bytes moves the sequence number by g.
LEMMA SeqAdvance ==
    ASSUME isn \in Seqs, NEW q \in 0 .. StreamLen, NEW g \in Nat,
           q + g <= StreamLen
    PROVE  SeqAdd(SeqOf(q), g) = SeqOf(q + g)
  BY ReassemblyAssumption, SeqModAssumption DEF SeqOf, SeqAdd, Seqs

\* What a successful ReasmFeed computes, in stream positions.  b is the first
\* stream position of the buffer, e = b + present the next one expected.
LEMMA FeedShape ==
    ASSUME isn \in Seqs,
           NEW r \in ReasmHeader, NEW b \in Positions,
           b + r.present <= StreamLen,
           r.seq = SeqOf(b + r.present),
           NEW p \in Positions, NEW len \in Nat, p + len <= StreamLen,
           ReasmFeedOk(r, SeqOf(p), len)
    PROVE  /\ p <= b + r.present
           /\ NegOverlap(r, SeqOf(p)) = b + r.present - p
           /\ ReasmIgnored(r, SeqOf(p)) = IF p < b THEN b - p ELSE 0
           /\ ReasmOverlap(r, SeqOf(p)) = IF p < b THEN r.present ELSE b + r.present - p
           /\ ReasmCopyAt(r, SeqOf(p)) = IF p < b THEN 0 ELSE p - b
           /\ ReasmCopyLen(r, SeqOf(p), len) = len - (IF p < b THEN b - p ELSE 0)
  <1> DEFINE e == b + r.present
  <1>1. e \in 0 .. StreamLen /\ p \in 0 .. StreamLen /\ r.present \in Nat
    BY ReassemblyAssumption DEF Positions, ReasmHeader
  <1>2. p <= e
    <2>1. ASSUME p > e PROVE FALSE
      <3>1. NegOverlap(r, SeqOf(p)) = SeqMod - (p - e)
        BY <1>1, <2>1, SeqDistance DEF NegOverlap
      <3>2. p - e <= StreamLen
        BY <1>1, ReassemblyAssumption
      <3>3. NegOverlap(r, SeqOf(p)) > ReasmMaxNeg
        BY <1>1, <3>1, <3>2, ReassemblyAssumption, SeqModAssumption, ReasmMaxNegAssumption
      <3> QED BY <1>1, <3>1, <3>3, SeqModAssumption, ReasmMaxNegAssumption
              DEF ReasmFeedOk, ReasmSeqOk
    <2> QED BY <1>1, <2>1, ReassemblyAssumption
  <1>3. NegOverlap(r, SeqOf(p)) = e - p
    BY <1>1, <1>2, SeqDistance DEF NegOverlap
  <1>4. ReasmIgnored(r, SeqOf(p)) = IF p < b THEN b - p ELSE 0
    BY <1>1, <1>2, <1>3 DEF ReasmIgnored, Positions
  <1> QED BY <1>1, <1>2, <1>3, <1>4
          DEF ReasmOverlap, ReasmCopyAt, ReasmCopyLen, Positions

\* How far it moves on, and that the copy stays inside the buffer.
LEMMA FeedGrowth ==
    ASSUME isn \in Seqs,
           NEW r \in ReasmHeader, NEW b \in Positions,
           b + r.present <= StreamLen, r.present <= r.size,
           r.seq = SeqOf(b + r.present),
           NEW p \in Positions, NEW len \in Nat \ {0}, p + len <= StreamLen,
           ReasmFeedOk(r, SeqOf(p), len),
           NEW f, f = ReasmFed(r, SeqOf(p), len)
    PROVE  /\ f \in ReasmHeader
           /\ f.size = r.size
           /\ f.present = IF p + len > b + r.present THEN p + len - b ELSE r.present
           /\ f.present <= f.size
           /\ b + f.present <= StreamLen
           /\ f.seq = SeqOf(b + f.present)
           /\ ReasmAllOld(r, SeqOf(p), len) <=> p + len <= b
           /\ p + len > b => p + len - b <= r.size
  <1> DEFINE g == ReasmGrowth(r, SeqOf(p), len)
  <1>1. /\ StreamLen \in Nat /\ r.present \in Nat /\ r.size \in Nat /\ r.seq \in Seqs
        /\ b \in 0 .. StreamLen /\ p \in 0 .. StreamLen
    BY ReassemblyAssumption DEF Positions, ReasmHeader
  <1>2. ReasmAllOld(r, SeqOf(p), len) <=> p + len <= b
    <2>1. ReasmIgnored(r, SeqOf(p)) = IF p < b THEN b - p ELSE 0
      BY FeedShape
    <2> QED BY <1>1, <2>1 DEF ReasmAllOld
  <1>3. p + len > b => p + len - b <= r.size
    <2>1. ASSUME p + len > b PROVE p + len - b <= r.size
      <3>1. ReasmFits(r, SeqOf(p), len)
        BY <1>2, <2>1, <1>1 DEF ReasmFeedOk
      <3> QED BY <1>1, <3>1, FeedShape DEF ReasmFits
    <2> QED BY <2>1
  <1>4. g = IF p + len > b + r.present THEN p + len - (b + r.present) ELSE 0
    <2>1. CASE p + len <= b
      BY <1>1, <1>2, <2>1 DEF ReasmGrowth
    <2>2. CASE p + len > b
      BY <1>1, <1>2, <2>2, FeedShape DEF ReasmGrowth
    <2> QED BY <1>1, <2>1, <2>2
  <1>5. g \in Nat /\ b + r.present + g <= StreamLen
    BY <1>1, <1>4
  <1> HIDE DEF g
  <1>6. SeqAdd(r.seq, g) = SeqOf(b + r.present + g)
    BY <1>1, <1>5, SeqAdvance
  <1>7. f = [r EXCEPT !.present = r.present + g, !.seq = SeqAdd(r.seq, g)]
    BY DEF ReasmFed, g, ReasmHeader
  <1>8. f.size = r.size /\ f.present = r.present + g /\ f.seq = SeqAdd(r.seq, g)
    BY <1>7 DEF ReasmHeader
  <1>9. b + r.present + g \in 0 .. StreamLen
    BY <1>1, <1>5
  <1>10. SeqAdd(r.seq, g) \in Seqs
    BY <1>6, <1>9, SeqOfType
  <1>11. f \in ReasmHeader
    <2>1. f = [size |-> r.size, present |-> r.present + g, seq |-> SeqAdd(r.seq, g)]
      BY <1>7 DEF ReasmHeader
    <2>2. r.present + g \in Nat
      BY <1>1, <1>5
    <2> QED BY <1>1, <1>10, <2>1, <2>2 DEF ReasmHeader
  <1>12. b + f.present = b + r.present + g
    BY <1>1, <1>5, <1>8
  <1> QED BY <1>1, <1>2, <1>3, <1>4, <1>5, <1>6, <1>8, <1>11, <1>12

-----------------------------------------------------------------------------
(* The buffer after a successful ReasmFeed.                                *)

\* NoOverrun and the content part of PrefixIsStream, for a header, a heap, a
\* start position and a history given explicitly.
Clean(r, cells)          == \A c \in Cells : c >= r.size => cells[c] = Garbage
Prefix(r, cells, b, new) == \A i \in 0 .. r.present - 1 :
                              cells[i] = [pos |-> b + i, ver |-> new[b + i]]

\* A successful feed keeps the heap clean and the buffer a prefix.
LEMMA FeedContent ==
    ASSUME isn \in Seqs,
           NEW r \in ReasmHeader, NEW b \in Positions,
           b + r.present <= StreamLen, r.present <= r.size, r.size <= SzMax,
           r.seq = SeqOf(b + r.present),
           NEW p \in Positions, NEW len \in Nat \ {0}, p + len <= StreamLen,
           NEW v \in Versions,
           ReasmFeedOk(r, SeqOf(p), len),
           NEW cells \in [Cells -> Bytes \cup {Garbage}],
           NEW new \in [Positions -> Versions],
           Clean(r, cells), Prefix(r, cells, b, new)
    PROVE  /\ Copied(cells, r, p, len, v) \in [Cells -> Bytes \cup {Garbage}]
           /\ Clean(ReasmFed(r, SeqOf(p), len), Copied(cells, r, p, len, v))
           /\ Prefix(ReasmFed(r, SeqOf(p), len), Copied(cells, r, p, len, v), b,
                     Accepted(new, p, len, v))
  <1> DEFINE f == ReasmFed(r, SeqOf(p), len)
             h == Copied(cells, r, p, len, v)
             n == Accepted(new, p, len, v)
             lo == IF p < b THEN 0 ELSE p - b
             hi == p + len - b
  <1>1. /\ StreamLen \in Nat /\ SzMax \in Nat /\ MaxLen \in Nat
        /\ r.present \in Nat /\ r.size \in Nat
        /\ b \in Nat /\ b < StreamLen /\ p \in Nat /\ p < StreamLen
    BY ReassemblyAssumption DEF Positions, ReasmHeader
  <1>2. /\ f.size = r.size
        /\ f.present = IF p + len > b + r.present THEN p + len - b ELSE r.present
        /\ b + f.present <= StreamLen
        /\ ReasmAllOld(r, SeqOf(p), len) <=> p + len <= b
        /\ p + len > b => p + len - b <= r.size
    BY FeedGrowth
  <1>3. \A q \in Positions : n[q] = IF p <= q /\ q < p + len THEN v ELSE new[q]
    BY DEF Accepted
  <1>4. CASE p + len <= b
    <2>1. h = cells
      BY <1>2, <1>4 DEF Copied
    <2>2. f.present = r.present
      BY <1>1, <1>2, <1>4
    <2>3. \A i \in 0 .. r.present - 1 : b + i \in Positions /\ n[b + i] = new[b + i]
      BY <1>1, <1>3, <1>4 DEF Positions
    <2>4. Prefix(f, h, b, n)
      BY <2>1, <2>2, <2>3 DEF Prefix
    <2> QED BY <2>1, <2>4, <1>2 DEF Clean
  <1>5. CASE p + len > b
    <2>1. /\ ReasmCopyAt(r, SeqOf(p)) = lo
          /\ lo + ReasmCopyLen(r, SeqOf(p), len) = hi
          /\ p + ReasmIgnored(r, SeqOf(p)) = b + lo
          /\ p <= b + r.present
          /\ ReasmIgnored(r, SeqOf(p)) \in Nat
      BY <1>1, FeedShape
    <2>2. h = [c \in Cells |-> IF lo <= c /\ c < hi
                               THEN [pos |-> b + c, ver |-> v] ELSE cells[c]]
      <3>1. h = [c \in Cells |->
                   IF lo <= c /\ c < lo + ReasmCopyLen(r, SeqOf(p), len)
                   THEN [pos |-> p + ReasmIgnored(r, SeqOf(p)) + (c - lo), ver |-> v]
                   ELSE cells[c]]
        BY <1>1, <1>2, <1>5, <2>1 DEF Copied
      <3>2. \A c \in Cells : p + ReasmIgnored(r, SeqOf(p)) + (c - lo) = b + c
        BY <1>1, <2>1 DEF Cells
      <3> QED BY <2>1, <3>1, <3>2
    <2>3. hi <= r.size /\ hi <= StreamLen - b
      BY <1>1, <1>2, <1>5
    <2>4. h \in [Cells -> Bytes \cup {Garbage}]
      <3>1. \A c \in Cells : lo <= c /\ c < hi => [pos |-> b + c, ver |-> v] \in Bytes
        BY <1>1, <2>3 DEF Cells, Bytes, Positions
      <3> QED BY <2>2, <3>1
    <2>5. Clean(f, h)
      BY <1>1, <1>2, <2>2, <2>3 DEF Clean, Cells
    <2>6. Prefix(f, h, b, n)
      <3> SUFFICES ASSUME NEW i \in 0 .. f.present - 1
                   PROVE  h[i] = [pos |-> b + i, ver |-> n[b + i]]
        BY DEF Prefix
      <3>1. i \in Cells /\ b + i \in Positions /\ i \in Nat
        BY <1>1, <1>2, SMTT(30) DEF Cells, Positions
      <3>2. CASE lo <= i /\ i < hi
        <4>1. p <= b + i /\ b + i < p + len
          BY <1>1, <3>1, <3>2
        <4>2. n[b + i] = v
          BY <1>3, <3>1, <4>1
        <4> QED BY <2>2, <3>1, <3>2, <4>2
      <3>3. CASE ~(lo <= i /\ i < hi)
        <4>1. i \in 0 .. r.present - 1
          BY <1>1, <1>2, <1>5, <2>1, <3>1, <3>3
        <4>2. ~(p <= b + i /\ b + i < p + len)
          BY <1>1, <3>1, <3>3
        <4>3. n[b + i] = new[b + i]
          BY <1>3, <3>1, <4>2
        <4>4. h[i] = cells[i]
          BY <2>2, <3>1, <3>3
        <4> QED BY <4>1, <4>3, <4>4 DEF Prefix
      <3> QED BY <3>2, <3>3
    <2> QED BY <2>4, <2>5, <2>6
  <1> QED BY <1>1, <1>4, <1>5

-----------------------------------------------------------------------------
(* The theorems.                                                           *)

\* The initial state satisfies the invariant: no session is open.
LEMMA InitInv == Init => ReassemblyInv
  <1> SUFFICES ASSUME Init PROVE ReassemblyInv
    OBVIOUS
  <1>1. TypeOK
    BY ReassemblyAssumption, SeqModAssumption
    DEF Init, TypeOK, NoReasm, ReasmHeader, FreshHeap, Seqs
  <1>2. SessionShape
    BY ReassemblyAssumption DEF Init, SessionShape, NoReasm, ReasmIsEmpty
  <1>3. NoOverrun
    BY DEF Init, NoOverrun, FreshHeap
  <1>4. PrefixIsStream
    BY DEF Init, PrefixIsStream, NoReasm, ReasmIsEmpty
  <1> QED BY <1>1, <1>2, <1>3, <1>4 DEF ReassemblyInv

\* Closing a session keeps the invariant.
LEMMA ClearedInv == ReassemblyInv /\ Cleared => ReassemblyInv'
  <1> SUFFICES ASSUME ReassemblyInv, Cleared PROVE ReassemblyInv'
    OBVIOUS
  <1> USE DEF ReassemblyInv, Cleared
  <1>1. reasm' = [size |-> 0, present |-> 0, seq |-> reasm.seq] /\ reasm.seq \in Seqs
    BY DEF TypeOK, ReasmHeader, ReasmClear
  <1>2. TypeOK'
    BY <1>1 DEF TypeOK, ReasmHeader, FreshHeap
  <1>3. SessionShape'
    BY <1>1, ReassemblyAssumption DEF SessionShape, ReasmIsEmpty
  <1>4. NoOverrun' /\ PrefixIsStream'
    BY <1>1 DEF NoOverrun, FreshHeap, PrefixIsStream, ReasmIsEmpty
  <1> QED BY <1>2, <1>3, <1>4

\* Opening a session keeps the invariant; the ReasmFeed whose result
\* reasm_start ignores always succeeds.
LEMMA StartInv ==
    ASSUME ReassemblyInv, NEW p \in Positions, NEW len \in 1 .. MaxLen,
           NEW v \in Versions, NEW sz \in 1 .. SzMax, ReasmStart(p, len, sz, v)
    PROVE  ReassemblyInv'
  <1> DEFINE r == ReasmInit(sz, SeqOf(p))
  <1>1. /\ isn \in Seqs /\ isn' = isn /\ SzMax \in Nat /\ MaxLen \in Nat
        /\ StreamLen \in Nat /\ p \in Nat /\ p < StreamLen
        /\ p + len <= StreamLen /\ len <= sz
    BY ReassemblyAssumption DEF ReassemblyInv, TypeOK, ReasmStart, Positions
  <1>2. SeqOf(p) \in Seqs
    BY <1>1, SeqOfType
  <1>3. /\ r \in ReasmHeader /\ r.size = sz /\ r.present = 0 /\ r.seq = SeqOf(p)
    BY <1>1, <1>2 DEF ReasmInit, ReasmHeader
  <1> HIDE DEF r
  <1>4. SeqSub(SeqOf(p), SeqOf(p)) = 0
    BY <1>1, SeqDistance
  <1>5. ReasmFeedOk(r, SeqOf(p), len)
    BY <1>1, <1>3, <1>4, ReasmMaxNegAssumption
    DEF ReasmFeedOk, ReasmSeqOk, ReasmGap, NegOverlap, ReasmFits, ReasmCopyAt,
        ReasmCopyLen, ReasmOverlap, ReasmIgnored
  <1>6. /\ reasm' = ReasmFed(r, SeqOf(p), len)
        /\ packet' = Copied(FreshHeap, r, p, len, v)
        /\ start' = p
        /\ newest' = Accepted(newest, p, len, v)
    BY <1>5 DEF ReasmStart, r
  <1>7. /\ FreshHeap \in [Cells -> Bytes \cup {Garbage}]
        /\ Clean(r, FreshHeap) /\ Prefix(r, FreshHeap, p, newest)
        /\ newest \in [Positions -> Versions]
    BY <1>3 DEF FreshHeap, Clean, Prefix, ReassemblyInv, TypeOK
  <1>8. len \in Nat \ {0} /\ p + r.present = p /\ p + r.present <= StreamLen
        /\ r.present <= r.size /\ r.size <= SzMax
    BY <1>1, <1>3
  <1>9. /\ packet' \in [Cells -> Bytes \cup {Garbage}]
        /\ Clean(reasm', packet') /\ Prefix(reasm', packet', p, newest')
    BY <1>1, <1>3, <1>5, <1>6, <1>7, <1>8, FeedContent
  <1>10. /\ reasm' \in ReasmHeader /\ reasm'.size = r.size
         /\ reasm'.present <= reasm'.size /\ p + reasm'.present <= StreamLen
         /\ reasm'.seq = SeqOf(p + reasm'.present)
    BY <1>1, <1>3, <1>5, <1>6, <1>8, FeedGrowth
  <1>11. newest' \in [Positions -> Versions]
    BY <1>6, <1>7 DEF Accepted
  <1>12. TypeOK'
    BY <1>1, <1>6, <1>9, <1>10, <1>11 DEF TypeOK, ReassemblyInv
  <1>13. SessionShape'
    BY <1>3, <1>6, <1>10 DEF SessionShape, ReasmIsEmpty
  <1>14. NoOverrun'
    BY <1>9 DEF NoOverrun, Clean
  <1>15. (SeqOf(start + reasm.present))' = SeqOf(p + reasm'.present)
    BY <1>1, <1>6 DEF SeqOf
  <1>16. PrefixIsStream'
    BY <1>6, <1>9, <1>10, <1>15 DEF PrefixIsStream, Prefix
  <1> QED BY <1>12, <1>13, <1>14, <1>16 DEF ReassemblyInv

\* An accepted segment keeps the invariant.
LEMMA FeedInv ==
    ASSUME ReassemblyInv, NEW p \in Positions, NEW len \in 1 .. MaxLen,
           NEW v \in Versions, ReasmFeedSegment(p, len, v)
    PROVE  ReassemblyInv'
  <1>1. /\ isn \in Seqs /\ isn' = isn /\ start \in Positions /\ start' = start
        /\ reasm \in ReasmHeader /\ newest \in [Positions -> Versions]
        /\ packet \in [Cells -> Bytes \cup {Garbage}]
        /\ reasm.size <= SzMax /\ p + len <= StreamLen
        /\ len \in Nat \ {0}
    BY ReassemblyAssumption
    DEF ReassemblyInv, TypeOK, SessionShape, ReasmFeedSegment
  <1>2. /\ start + reasm.present <= StreamLen /\ reasm.present <= reasm.size
        /\ reasm.seq = SeqOf(start + reasm.present)
        /\ Clean(reasm, packet) /\ Prefix(reasm, packet, start, newest)
        /\ ReasmFeedOk(reasm, SeqOf(p), len)
    BY DEF ReassemblyInv, NoOverrun, PrefixIsStream, Clean, Prefix, ReasmFeedSegment
  <1>3. /\ reasm' = ReasmFed(reasm, SeqOf(p), len)
        /\ packet' = Copied(packet, reasm, p, len, v)
        /\ newest' = Accepted(newest, p, len, v)
    BY DEF ReasmFeedSegment
  <1>4. /\ packet' \in [Cells -> Bytes \cup {Garbage}]
        /\ Clean(reasm', packet') /\ Prefix(reasm', packet', start, newest')
    BY <1>1, <1>2, <1>3, FeedContent
  <1>5. /\ reasm' \in ReasmHeader /\ reasm'.size = reasm.size
        /\ reasm'.present <= reasm'.size /\ start + reasm'.present <= StreamLen
        /\ reasm'.seq = SeqOf(start + reasm'.present)
    BY <1>1, <1>2, <1>3, FeedGrowth
  <1>6. newest' \in [Positions -> Versions]
    BY <1>1, <1>3 DEF Accepted
  <1>7. TypeOK'
    BY <1>1, <1>4, <1>5, <1>6 DEF TypeOK, ReassemblyInv
  <1>8. SessionShape'
    BY <1>1, <1>5 DEF SessionShape, ReasmIsEmpty, ReasmFeedSegment
  <1>9. NoOverrun'
    BY <1>4 DEF NoOverrun, Clean
  <1>10. (SeqOf(start + reasm.present))' = SeqOf(start + reasm'.present)
    BY <1>1 DEF SeqOf
  <1>11. PrefixIsStream'
    BY <1>1, <1>4, <1>5, <1>10 DEF PrefixIsStream, Prefix
  <1> QED BY <1>7, <1>8, <1>9, <1>11 DEF ReassemblyInv

\* Every step keeps the invariant.
LEMMA NextInv == ReassemblyInv /\ [Next]_vars => ReassemblyInv'
  <1> SUFFICES ASSUME ReassemblyInv, [Next]_vars PROVE ReassemblyInv'
    OBVIOUS
  <1>1. CASE \E p \in Positions, len \in 1 .. MaxLen, v \in Versions :
               \/ \E sz \in 1 .. SzMax : ReasmStart(p, len, sz, v)
               \/ ReasmFeedSegment(p, len, v)
    BY <1>1, StartInv, FeedInv
  <1>2. CASE \E p \in Positions, len \in 1 .. MaxLen : ReasmFeedFails(p, len)
    BY <1>2, ClearedInv DEF ReasmFeedFails
  <1>3. CASE ReasmStop
    BY <1>3, ClearedInv DEF ReasmStop
  <1>4. CASE UNCHANGED vars
    BY <1>4 DEF vars, ReassemblyInv, TypeOK, SessionShape, NoOverrun,
                PrefixIsStream, SeqOf, ReasmIsEmpty
  <1> QED BY <1>1, <1>2, <1>3, <1>4 DEF Next

\* Every state of a reassembly session is well typed, for every value of the
\* constants.
THEOREM TypeCorrect == Spec => []TypeOK
  <1>1. ReassemblyInv => TypeOK
    BY DEF ReassemblyInv
  <1> QED BY InitInv, NextInv, <1>1, PTL DEF Spec

\* ReasmFeed never writes outside the buffer ReasmInit allocated.
THEOREM NeverOverruns == Spec => []NoOverrun
  <1>1. ReassemblyInv => NoOverrun
    BY DEF ReassemblyInv
  <1> QED BY InitInv, NextInv, <1>1, PTL DEF Spec

\* What an open session holds is a prefix of the client's stream, with the
\* newest content accepted for every byte of it.
THEOREM HoldsStreamPrefix == Spec => []PrefixIsStream
  <1>1. ReassemblyInv => PrefixIsStream
    BY DEF ReassemblyInv
  <1> QED BY InitInv, NextInv, <1>1, PTL DEF Spec

\* An open session never shrinks, moves or changes its size before it is
\* closed.
THEOREM NeverShrinks == Spec => SessionOnlyGrows
  <1> DEFINE Grows == ~ReasmIsEmpty(reasm) /\ ~ReasmIsEmpty(reasm') =>
                        /\ reasm'.size = reasm.size
                        /\ reasm'.present >= reasm.present
                        /\ start' = start
  <1>1. ReassemblyInv /\ [Next]_vars => [Grows]_vars
    <2> SUFFICES ASSUME ReassemblyInv, Next PROVE Grows
      OBVIOUS
    <2>1. CASE \E p \in Positions, len \in 1 .. MaxLen, v \in Versions :
                 \E sz \in 1 .. SzMax : ReasmStart(p, len, sz, v)
      BY <2>1 DEF ReasmStart
    <2>2. ASSUME NEW p \in Positions, NEW len \in 1 .. MaxLen, NEW v \in Versions,
                 ReasmFeedSegment(p, len, v)
          PROVE  Grows
      <3>1. /\ isn \in Seqs /\ start \in Positions /\ start' = start
            /\ reasm \in ReasmHeader /\ p + len <= StreamLen /\ len \in Nat \ {0}
        BY <2>2, ReassemblyAssumption
        DEF ReassemblyInv, TypeOK, SessionShape, ReasmFeedSegment
      <3>2. /\ start + reasm.present <= StreamLen /\ reasm.present <= reasm.size
            /\ reasm.seq = SeqOf(start + reasm.present)
            /\ ReasmFeedOk(reasm, SeqOf(p), len)
            /\ reasm' = ReasmFed(reasm, SeqOf(p), len)
        BY <2>2 DEF ReassemblyInv, PrefixIsStream, ReasmFeedSegment
      <3>3. /\ reasm'.size = reasm.size
            /\ reasm'.present = IF p + len > start + reasm.present
                                THEN p + len - start ELSE reasm.present
        BY <3>1, <3>2, FeedGrowth
      <3> QED BY <3>1, <3>3 DEF Positions, ReasmHeader
    <2>3. CASE Cleared
      <3>1. reasm'.size = 0
        BY <2>3 DEF Cleared, ReasmClear, ReassemblyInv, TypeOK, ReasmHeader
      <3> QED BY <3>1 DEF ReasmIsEmpty
    <2> QED BY <2>1, <2>2, <2>3 DEF Next, ReasmFeedFails, ReasmStop
  <1> QED BY InitInv, NextInv, <1>1, PTL DEF Spec, SessionOnlyGrows
=============================================================================
