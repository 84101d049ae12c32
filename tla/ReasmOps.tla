------------------------------ MODULE ReasmOps ------------------------------
(***************************************************************************)
(* The stream reassembler of conntrack.c as operators on its header        *)
(*   [size, present, seq]                                                  *)
(* = t_reassemble.size, .size_present, .seq.  The byte buffer itself is    *)
(* kept by the module that uses these operators; the operators say which   *)
(* bytes ReasmFeed copies, from where and to where.                        *)
(***************************************************************************)
EXTENDS SeqArith

CONSTANT ReasmMaxNeg        \* REASM_MAX_NEG

ASSUME ReasmMaxNegAssumption ==
    ReasmMaxNeg \in Nat /\ ReasmMaxNeg > 0 /\ 2 * ReasmMaxNeg < SeqMod

ReasmHeader == [size : Nat, present : Nat, seq : Seqs]

NoReasm == [size |-> 0, present |-> 0, seq |-> 0]

ReasmIsEmpty(r) == r.size = 0
ReasmIsFull(r)  == ~ReasmIsEmpty(r) /\ r.size = r.present

ReasmInit(sz, seq) == [size |-> sz, present |-> 0, seq |-> seq]

\* ReasmClear leaves seq as it was
ReasmClear(r) == [r EXCEPT !.size = 0, !.present = 0]

\* uint32_t neg_overlap before the part below the start is taken off
NegOverlap(r, seq) == SeqSub(r.seq, seq)

\* the segment would leave a hole after the bytes present
ReasmGap(r, seq) ==
    LET dseq == SeqSub(seq, r.seq) IN dseq # 0 /\ dseq < ReasmMaxNeg

\* szignore: leading bytes that lie before the start of the buffer
ReasmIgnored(r, seq) ==
    IF NegOverlap(r, seq) > r.present THEN NegOverlap(r, seq) - r.present ELSE 0

\* neg_overlap -= szignore
ReasmOverlap(r, seq) == NegOverlap(r, seq) - ReasmIgnored(r, seq)

\* where memcpy writes, and how much
ReasmCopyAt(r, seq)       == r.present - ReasmOverlap(r, seq)
ReasmCopyLen(r, seq, len) == len - ReasmIgnored(r, seq)

\* the three "return false" of ReasmFeed, and the one early "return true"
ReasmSeqOk(r, seq) == ~ReasmGap(r, seq) /\ NegOverlap(r, seq) <= ReasmMaxNeg

ReasmAllOld(r, seq, len) == ReasmIgnored(r, seq) >= len

\* mutant: the bound is off by one
ReasmFitsOffByOne(r, seq, len) ==
    ReasmCopyAt(r, seq) + ReasmCopyLen(r, seq, len) <= r.size + 1

ReasmFits(r, seq, len) == ReasmCopyAt(r, seq) + ReasmCopyLen(r, seq, len) <= r.size

ReasmFeedOk(r, seq, len) ==
    ReasmSeqOk(r, seq) /\ (ReasmAllOld(r, seq, len) \/ ReasmFits(r, seq, len))

\* mutant: the overlap is not subtracted from what was copied
ReasmGrowthWhole(r, seq, len) ==
    IF ReasmAllOld(r, seq, len) THEN 0 ELSE ReasmCopyLen(r, seq, len)

\* mutant: the "if (szcopy>neg_overlap)" is missing
ReasmGrowthUnguarded(r, seq, len) ==
    IF ReasmAllOld(r, seq, len) THEN 0
    ELSE ReasmCopyLen(r, seq, len) - ReasmOverlap(r, seq)

\* how far size_present and seq move
ReasmGrowth(r, seq, len) ==
    IF ReasmAllOld(r, seq, len) THEN 0
    ELSE IF ReasmCopyLen(r, seq, len) > ReasmOverlap(r, seq)
         THEN ReasmCopyLen(r, seq, len) - ReasmOverlap(r, seq)
         ELSE 0

\* the header after a ReasmFeed that returned true
ReasmFed(r, seq, len) ==
    LET g == ReasmGrowth(r, seq, len)
    IN  [r EXCEPT !.present = @ + g, !.seq = SeqAdd(@, g)]
=============================================================================
