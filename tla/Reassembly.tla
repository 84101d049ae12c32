----------------------------- MODULE Reassembly -----------------------------
(***************************************************************************)
(* One reassembly session of nfq2 (t_reassemble in conntrack.c, driven by  *)
(* reasm_start / reasm_feed / reasm_client_stop of desync.c) over a client *)
(* byte stream.  The client may send any segment of the stream at any      *)
(* time: in order, twice, overlapping, with a hole, or from before the     *)
(* point at which the session started, and a retransmission may carry      *)
(* other bytes than the first transmission did.                            *)
(*                                                                         *)
(* A byte is a record of its stream position and of the version of the     *)
(* data it belongs to.  The buffer is modelled together with the heap      *)
(* cells behind it, so that a write past malloc(size) would be seen.       *)
(***************************************************************************)
EXTENDS ReasmOps

CONSTANTS
    StreamLen,      \* stream positions 0 .. StreamLen - 1
    SzMax,          \* TCP_MAX_REASM
    MaxLen,         \* longest segment
    Versions,       \* contents a (re)transmission may carry
    ISNs            \* sequence numbers stream position 0 may have

ASSUME ReassemblyAssumption ==
    /\ StreamLen \in Nat /\ 2 * StreamLen <= SeqMod
    /\ SzMax \in Nat
    /\ MaxLen \in Nat
    /\ ISNs \subseteq Seqs

Positions == 0 .. StreamLen - 1
Cells     == 0 .. SzMax + MaxLen - 1
Bytes     == [pos : Positions, ver : Versions]
Garbage   == [pos |-> -1]           \* a cell the session never wrote
NoStart   == -1

VARIABLES
    isn,        \* sequence number of stream position 0
    reasm,      \* header: size, present, seq
    packet,     \* heap cells from reasm->packet on
    start,      \* history: stream position of the first byte of the session
    newest      \* history: version last accepted for each stream position

vars == <<isn, reasm, packet, start, newest>>

SeqOf(p) == SeqAdd(isn, p)

\* memcpy(reasm->packet + at, payload + szignore, szcopy) of ReasmFeed, for a
\* segment that carries stream positions p .. p + len - 1 in version v
Copied(cells, r, p, len, v) ==
    LET seq == SeqOf(p)
        at  == ReasmCopyAt(r, seq)
        ign == ReasmIgnored(r, seq)
    IN  IF ReasmAllOld(r, seq, len) THEN cells
        ELSE [c \in Cells |->
                IF at <= c /\ c < at + ReasmCopyLen(r, seq, len)
                THEN [pos |-> p + ign + (c - at), ver |-> v]
                ELSE cells[c]]

FreshHeap == [c \in Cells |-> Garbage]

Accepted(old, p, len, v) ==
    [q \in Positions |-> IF p <= q /\ q < p + len THEN v ELSE old[q]]

Init ==
    /\ isn \in ISNs
    /\ reasm = NoReasm
    /\ packet = FreshHeap
    /\ start = NoStart
    /\ newest \in [Positions -> Versions]
    /\ \A p, q \in Positions : newest[p] = newest[q]

\* reasm_start: ReasmClear, ReasmInit and the first ReasmFeed, whose result
\* the code does not look at.  The callers pass a payload no longer than the
\* size they ask for (a TLS record that is not full, a QUIC buffer of the
\* maximal size).  A size over szMax or a failed malloc leaves the session
\* cleared, as it was: no step.
ReasmStart(p, len, sz, v) ==
    /\ ReasmIsEmpty(reasm)
    /\ len <= sz
    /\ sz <= SzMax
    /\ p + len <= StreamLen
    /\ LET r == ReasmInit(sz, SeqOf(p)) IN
         /\ reasm' = IF ReasmFeedOk(r, SeqOf(p), len)
                     THEN ReasmFed(r, SeqOf(p), len) ELSE r
         /\ packet' = IF ReasmFeedOk(r, SeqOf(p), len)
                      THEN Copied(FreshHeap, r, p, len, v) ELSE FreshHeap
    /\ start' = p
    /\ newest' = Accepted(newest, p, len, v)
    /\ UNCHANGED isn

\* reasm_feed when ReasmFeed returns true
ReasmFeedSegment(p, len, v) ==
    /\ ~ReasmIsEmpty(reasm)
    /\ p + len <= StreamLen
    /\ ReasmFeedOk(reasm, SeqOf(p), len)
    /\ reasm' = ReasmFed(reasm, SeqOf(p), len)
    /\ packet' = Copied(packet, reasm, p, len, v)
    /\ newest' = Accepted(newest, p, len, v)
    /\ UNCHANGED <<isn, start>>

\* ReasmClear: free(packet)
Cleared ==
    /\ reasm' = ReasmClear(reasm)
    /\ packet' = FreshHeap
    /\ start' = NoStart
    /\ UNCHANGED <<isn, newest>>

\* reasm_feed when ReasmFeed returns false: the session is dropped
ReasmFeedFails(p, len) ==
    /\ ~ReasmIsEmpty(reasm)
    /\ p + len <= StreamLen
    /\ ~ReasmFeedOk(reasm, SeqOf(p), len)
    /\ Cleared

\* reasm_client_stop (cancel, fin) and ConntrackClearTrack
ReasmStop == ~ReasmIsEmpty(reasm) /\ Cleared

Next ==
    \/ \E p \in Positions, len \in 1 .. MaxLen, v \in Versions :
         \/ \E sz \in 1 .. SzMax : ReasmStart(p, len, sz, v)
         \/ ReasmFeedSegment(p, len, v)
    \/ \E p \in Positions, len \in 1 .. MaxLen : ReasmFeedFails(p, len)
    \/ ReasmStop

Spec == Init /\ [][Next]_vars

-----------------------------------------------------------------------------
TypeOK ==
    /\ isn \in ISNs
    /\ reasm \in ReasmHeader
    /\ packet \in [Cells -> Bytes \cup {Garbage}]
    /\ start \in Positions \cup {NoStart}
    /\ newest \in [Positions -> Versions]

\* ReasmFeed never writes outside the size bytes malloc gave it
\* (conntrack.c, "buffer overflow" check), whatever segments arrive.
NoOverrun == \A c \in Cells : c >= reasm.size => packet[c] = Garbage

\* While a session is open its bytes present are exactly the stream from the
\* session's start on, in order and without a hole, each with the content of
\* the last segment accepted for it ("new data replaces old"), and seq is the
\* sequence number of the byte after them.
PrefixIsStream ==
    ~ReasmIsEmpty(reasm) =>
        /\ reasm.present <= reasm.size
        /\ start + reasm.present <= StreamLen
        /\ reasm.seq = SeqOf(start + reasm.present)
        /\ \A i \in 0 .. reasm.present - 1 :
             packet[i] = [pos |-> start + i, ver |-> newest[start + i]]

\* A step never loses or moves a byte of an open session: the bytes present
\* only grow, until the session is closed as a whole.
SessionOnlyGrows ==
    [][~ReasmIsEmpty(reasm) /\ ~ReasmIsEmpty(reasm') =>
         /\ reasm'.size = reasm.size
         /\ reasm'.present >= reasm.present
         /\ start' = start]_vars
=============================================================================
