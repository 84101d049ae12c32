----------------------------- MODULE DelayLine ------------------------------
(***************************************************************************)
(* What holding packets back promises, without conntrack, windows,         *)
(* reassembly or profiles: a line that packets enter one at a time.  A     *)
(* packet may wait in the line; the line is only ever emptied as a whole,  *)
(* in the order in which packets entered it, and before anything newer     *)
(* leaves.  A packet that is played to Lua may be consumed there.  The     *)
(* line is destroyed with the connection it belongs to.  After a failed    *)
(* allocation (degraded) a packet may overtake the line.                   *)
(***************************************************************************)
EXTENDS Queues

CONSTANT Packet

VARIABLES
    entered,    \* packets that have entered
    line,       \* packets that wait
    out,        \* packets that left, in order
    consumed,   \* packets Lua took
    destroyed,  \* packets that went with the connection
    degraded    \* an allocation has failed

line_vars == <<entered, line, out, consumed, destroyed, degraded>>

Init ==
    /\ entered = {} /\ line = <<>> /\ out = <<>>
    /\ consumed = {} /\ destroyed = {} /\ degraded = FALSE

\* what has left once q was let out
LetOut(w, q) == IF q = <<>> THEN w ELSE w \o q

\* a packet is played: it leaves behind w, or is consumed
Play(w, k) ==
    \/ out' = Append(w, k) /\ consumed' = consumed
    \/ out' = w /\ consumed' = consumed \cup {k}

Enter(k) == k \notin entered /\ entered' = entered \cup {k}

\* the packet waits behind the ones that wait, or alone: the others were let out
Wait(k) ==
    /\ \/ line' = Append(line, k) /\ out' = out
       \/ line' = Append(<<>>, k) /\ out' = LetOut(out, line)
    /\ UNCHANGED <<consumed, destroyed, degraded>>

\* everything in q is played, behind w
PlayQueue(w, q) ==
    \E drop \in SUBSET Elems(q) :
        out' = w \o Without(q, drop) /\ consumed' = consumed \cup drop

\* the packet is played after everything that waits was played, or let out
PlayAll(k) ==
    /\ line' = <<>>
    /\ PlayQueue(out, Append(line, k)) \/ PlayQueue(LetOut(out, line), Append(<<>>, k))
    /\ UNCHANGED <<destroyed, degraded>>

\* everything that waits is let out, then the packet is played
PlayLast(k) ==
    /\ line' = <<>>
    /\ Play(LetOut(out, line), k)
    /\ degraded' \in {degraded, TRUE}
    /\ UNCHANGED destroyed

\* the packet is played before the ones that wait
Overtake(k) ==
    /\ degraded' = TRUE
    /\ line' = line
    /\ Play(out, k)
    /\ UNCHANGED destroyed

\* everything that waits is let out, or destroyed with the connection
Release == line' = <<>> /\ out' = LetOut(out, line)
           /\ UNCHANGED <<entered, consumed, destroyed, degraded>>
Destroy == line' = <<>> /\ destroyed' = destroyed \cup Elems(line)
           /\ UNCHANGED <<entered, out, consumed, degraded>>

Next ==
    \/ \E k \in Packet : Enter(k) /\ (Wait(k) \/ PlayAll(k) \/ PlayLast(k) \/ Overtake(k))
    \/ Release \/ Destroy

Spec == Init /\ [][Next]_line_vars
=============================================================================
