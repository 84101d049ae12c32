------------------------------ MODULE SeqArith ------------------------------
(***************************************************************************)
(* Sequence number arithmetic as nfq2 does it: every TCP sequence number,  *)
(* and every difference of two of them, is a uint32_t, so sums and         *)
(* differences wrap at SeqMod (2^32 in the program, a small even number in *)
(* the model).  The operators take arguments of one turn only, which keeps *)
(* them linear: a wrap is an addition or a subtraction of SeqMod.          *)
(***************************************************************************)
EXTENDS Integers

CONSTANT SeqMod

ASSUME SeqModAssumption == SeqMod \in Nat /\ SeqMod >= 4 /\ SeqMod % 2 = 0

Seqs == 0 .. SeqMod - 1

\* a - b in uint32_t
SeqSub(a, b) == IF a >= b THEN a - b ELSE a - b + SeqMod

\* mutant: the sum is kept in a wider type
SeqAddWide(a, n) == a + n

\* a + n in uint32_t, for n < SeqMod
SeqAdd(a, n) == IF a + n < SeqMod THEN a + n ELSE a + n - SeqMod

\* x & 0x80000000: the sign bit that the program tests on differences
HighBit(x) == 2 * x >= SeqMod

\* s lies on the arc from s1 to s2, which may wrap
seq_within(s, s1, s2) == \/ s2 >= s1 /\ s >= s1 /\ s <= s2
                         \/ s2 < s1 /\ (s <= s2 \/ s >= s1)
=============================================================================
