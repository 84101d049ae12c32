-------------------------------- MODULE Sums --------------------------------
(***************************************************************************)
(* Sums of lengths.  The prover knows recursive functions, so these are    *)
(* written as such.                                                        *)
(***************************************************************************)
EXTENDS Integers, Sequences

\* the sums of the first elements of s, from none to all
Sums(s) ==
    LET sum[i \in 0 .. Len(s)] == IF i = 0 THEN 0 ELSE sum[i - 1] + s[i]
    IN  sum
Total(s) == Sums(s)[Len(s)]
=============================================================================
