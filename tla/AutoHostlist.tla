---------------------------- MODULE AutoHostlist ----------------------------
(***************************************************************************)
(* The auto hostlist of one profile: flows to hosts that are not listed    *)
(* are watched for signs of blocking; a host whose failure counter reaches *)
(* the threshold within the failure time is added to the list in memory    *)
(* and appended to the list's file, which others may edit too.             *)
(*                                                                         *)
(* A packet is handled in one step: it purges the failure pool (at most    *)
(* once a second), feeds the detector of its flow and, if that decides,    *)
(* changes pool, list and file.  Relative sequence numbers are abstracted  *)
(* to whether they are within the configured maxseq; UDP packet counters    *)
(* stop one past the thresholds they are compared with.  Of the signature  *)
(* of the file (size and modification time) the model keeps whether the    *)
(* one in memory is still the file's: every write changes it.  An exclude  *)
(* list that is being rewritten may be unreadable.                         *)
(***************************************************************************)
EXTENDS Integers, Sequences, FiniteSetsExt

CONSTANTS
    Flows, Hosts,
    Excluded,                   \* hosts of the exclude lists
    RetransThreshold,           \* --hostlist-auto-retrans-threshold
    FailThreshold, FailTime,    \* --hostlist-auto-fail-threshold, -fail-time
    UdpOut, UdpIn,              \* --hostlist-auto-udp-out, -udp-in
    MaxTime, MaxEdits           \* bounds on the clock and on foreign edits

ASSUME AutoHostlistAssumption ==
    /\ Excluded \subseteq Hosts
    /\ \A n \in {RetransThreshold, FailThreshold, FailTime, UdpOut} : n \in Nat /\ n > 0
    /\ UdpIn \in Nat /\ MaxTime \in Nat /\ MaxEdits \in Nat

None == "none"
STOP == -1                      \* RETRANS_COUNTER_STOP
ASSUME NoneAssumption == None \notin Hosts

VARIABLES
    flow,       \* per flow the detector's part of t_ctrack
    fails,      \* hostlist_auto_fail_counters: function on the hosts in the pool
    last_purge, \* hostlist_auto_last_purge
    list,       \* hostlist_auto: hosts in memory, mod_sig is the file's
    file,       \* the list's file: hosts, lines appended by the program (up to 2)
    now,
    broken,     \* an exclude list can be opened and not be read
    edits,      \* edits of the files by others
    \* history
    verdicts,   \* decisions of each flow
    streak,     \* times of the last failures of each host since a success or addition
    added,      \* the last addition: failures it rests on, time from first to last
    faults      \* what has failed so far: an "append", a "read"

vars == <<flow, fails, last_purge, list, file, now, broken, edits, verdicts, streak,
          added, faults>>

NewFlow(proto) == [proto |-> proto, host |-> None, ah |-> FALSE, final |-> FALSE,
                   retrans |-> 0, out |-> 0, in |-> 0]

Init ==
    /\ flow = [f \in Flows |-> NewFlow("tcp")]
    /\ fails = [h \in {} |-> 0]
    /\ now = 1 /\ last_purge = 0
    /\ list = [hosts |-> {}, fresh |-> TRUE] /\ file = [hosts |-> {}, lines |-> [h \in Hosts |-> 0]]
    /\ broken = FALSE /\ edits = 0
    /\ verdicts = [f \in Flows |-> 0]
    /\ streak = [h \in Hosts |-> <<>>]
    /\ added = <<>> /\ faults = {}

-----------------------------------------------------------------------------
(* The pool and the list.                                                  *)

\* mutant: what has expired stays
PurgedNever == fails

\* HostFailPoolPurgeRateLimited, on every packet
Purged ==
    IF last_purge # now
    THEN [h \in {g \in DOMAIN fails : now < fails[g].expire} |-> fails[h]]
    ELSE fails

\* mutant: the check of the file before adding is skipped
ReloadedNever == list

\* HostlistsReloadCheck: the file is loaded again if its signature has changed
Reloaded == IF list.fresh THEN list ELSE [hosts |-> file.hosts, fresh |-> TRUE]

\* mutant: not rechecked
NotCovered(h) == FALSE

\* HostlistCheck: the host is listed, or excluded; neither if a list cannot be
\* read, whatever the others hold
Covered(h) == ~broken /\ (h \in Excluded \/ h \in Reloaded.hosts)

\* HostFailPoolFind, HostFailPoolAdd, counter++
Counted(h) ==
    IF h \in DOMAIN Purged
    THEN [Purged[h] EXCEPT !.counter = @ + 1]
    ELSE [counter |-> 1, expire |-> now + FailTime]

Without(h) == [g \in DOMAIN Purged \ {h} |-> Purged[g]]

Recent(s) == IF Len(s) > FailThreshold THEN Tail(s) ELSE s

\* append_to_list_file and the new signature, which may fail both
Append2File(h) ==
    \/ /\ file' = [hosts |-> file.hosts \cup {h},
                   lines |-> [file.lines EXCEPT ![h] = Min({@ + 1, 2})]]
       /\ \E fresh \in BOOLEAN : list' = [hosts |-> Reloaded.hosts \cup {h}, fresh |-> fresh]
       /\ UNCHANGED faults
    \/ /\ faults' = faults \cup {"append"}
       /\ list' = [Reloaded EXCEPT !.hosts = @ \cup {h}]
       /\ UNCHANGED file

\* auto_hostlist_failed; l is the list in memory as the packet has left it so far
auto_hostlist_failed(h, l) ==
    LET last == Recent(Append(streak[h], now))
    IN  IF Counted(h).counter < FailThreshold
        THEN /\ fails' = [g \in DOMAIN Purged \cup {h} |->
                            IF g = h THEN Counted(h) ELSE Purged[g]]
             /\ streak' = [streak EXCEPT ![h] = last]
             /\ list' = l
             /\ UNCHANGED <<file, added, faults>>
        ELSE /\ fails' = Without(h)
             /\ streak' = [streak EXCEPT ![h] = <<>>]
             /\ IF Covered(h)
                THEN list' = Reloaded /\ UNCHANGED <<file, added, faults>>
                ELSE Append2File(h) /\ added' = <<Len(last), now - last[1]>>

\* auto_hostlist_reset_fail_counter
auto_hostlist_reset_fail_counter(h, l) ==
    /\ fails' = Without(h)
    /\ streak' = [streak EXCEPT ![h] = <<>>]
    /\ list' = l
    /\ UNCHANGED <<file, added, faults>>

Undecided(l) ==
    /\ fails' = Purged
    /\ list' = l
    /\ UNCHANGED <<file, verdicts, streak, added, faults>>

-----------------------------------------------------------------------------
(* The detectors.  Every packet begins with play_prolog.                   *)

Prolog == last_purge' = now /\ UNCHANGED <<now, broken, edits>>

\* mutant: a flow that has failed goes on being watched
FinalNot(c) == c

\* failure_detect_finalized
Final(c) == [c EXCEPT !.final = TRUE]

Watched(c) == c.ah /\ ~c.final

Decide(f, c, outcome, l) ==
    /\ flow' = [flow EXCEPT ![f] = Final(c)]
    /\ verdicts' = [verdicts EXCEPT ![f] = @ + 1]
    /\ IF outcome = "fail" THEN auto_hostlist_failed(c.host, l)
                           ELSE auto_hostlist_reset_fail_counter(c.host, l)

\* the packet counters of the flow after a packet
CountPacket(c, dir) ==
    [c EXCEPT !.out = IF c.proto = "udp" /\ dir = "out" THEN Min({@ + 1, UdpOut}) ELSE @,
              !.in = IF c.proto = "udp" /\ dir = "in" THEN Min({@ + 1, UdpIn + 1}) ELSE @]

\* process_udp_fail on the flow as it is after the packet
process_udp_fail(f, c, l) ==
    IF c.proto = "udp" /\ Watched(c) /\ c.in > UdpIn THEN Decide(f, c, "success", l)
    ELSE IF c.proto = "udp" /\ Watched(c) /\ c.out >= UdpOut THEN Decide(f, c, "fail", l)
    ELSE flow' = [flow EXCEPT ![f] = c] /\ Undecided(l)

\* dp_rediscovery on the packet that brings the hostname: watch the flow unless
\* the host is listed or excluded
Request(f, h) ==
    /\ Prolog
    /\ flow[f].host = None
    /\ process_udp_fail(f, [CountPacket(flow[f], "out") EXCEPT !.host = h, !.ah = ~Covered(h)],
                        Reloaded)

\* any other UDP packet
UdpPacket(f, dir) ==
    /\ Prolog
    /\ flow[f].proto = "udp"
    /\ process_udp_fail(f, CountPacket(flow[f], dir), list)

\* auto_hostlist_retrans for a retransmission within retrans_maxseq
Retransmit(f) ==
    /\ Prolog
    /\ flow[f].proto = "tcp" /\ Watched(flow[f]) /\ flow[f].retrans # STOP
    /\ IF flow[f].retrans + 1 >= RetransThreshold
       THEN Decide(f, [flow[f] EXCEPT !.retrans = STOP], "fail", list)
       ELSE flow' = [flow EXCEPT ![f].retrans = @ + 1] /\ Undecided(list)

\* the same beyond retrans_maxseq
DataBeyond(f) ==
    /\ Prolog
    /\ flow[f].proto = "tcp" /\ Watched(flow[f]) /\ flow[f].retrans # STOP
    /\ Decide(f, [flow[f] EXCEPT !.retrans = STOP], "success", list)

\* RST, or an HTTP redirect that looks like the DPI's, within incoming_maxseq
BadReply(f) ==
    /\ Prolog
    /\ flow[f].proto = "tcp" /\ Watched(flow[f])
    /\ Decide(f, flow[f], "fail", list)

\* any reply beyond incoming_maxseq
ReplyBeyond(f) ==
    /\ Prolog
    /\ flow[f].proto = "tcp" /\ Watched(flow[f])
    /\ Decide(f, flow[f], "success", list)

\* a packet that tells the detector nothing
OtherPacket == Prolog /\ Undecided(list) /\ UNCHANGED flow

\* the entry of a flow is erased or replaced
NewConnection(f, proto) ==
    /\ flow' = [flow EXCEPT ![f] = NewFlow(proto)]
    /\ verdicts' = [verdicts EXCEPT ![f] = 0]
    /\ UNCHANGED <<fails, last_purge, list, file, now, broken, edits, streak, added, faults>>

\* somebody writes the file
Edit(hosts) ==
    /\ edits < MaxEdits
    /\ edits' = edits + 1
    /\ file' = [hosts |-> hosts, lines |-> [h \in Hosts |-> 0]]
    /\ list' = [list EXCEPT !.fresh = FALSE]
    /\ UNCHANGED <<flow, fails, last_purge, now, broken, verdicts, streak, added, faults>>

\* somebody rewrites an exclude list: not readable at first, then with the same hosts
EditExclude ==
    /\ edits < MaxEdits \/ broken
    /\ edits' = IF broken THEN edits ELSE edits + 1
    /\ broken' = ~broken
    /\ faults' = faults \cup {"read"}
    /\ UNCHANGED <<flow, fails, last_purge, list, file, now, verdicts, streak, added>>

Tick ==
    /\ now < MaxTime
    /\ now' = now + 1
    /\ UNCHANGED <<flow, fails, last_purge, list, file, broken, edits, verdicts, streak, added, faults>>

Next ==
    \/ \E f \in Flows :
         \/ \E h \in Hosts : Request(f, h)
         \/ Retransmit(f) \/ DataBeyond(f) \/ BadReply(f) \/ ReplyBeyond(f)
         \/ \E dir \in {"in", "out"} : UdpPacket(f, dir)
         \/ \E proto \in {"tcp", "udp"} : NewConnection(f, proto)
    \/ OtherPacket
    \/ \E hosts \in SUBSET Hosts : Edit(hosts)
    \/ EditExclude
    \/ Tick

Spec == Init /\ [][Next]_vars

-----------------------------------------------------------------------------
\* A host is added only after FailThreshold failures without a success between
\* them, all within the failure time: older ones have been purged, although the
\* pool is purged once a second and by packets only.
AddedOnRecentFailures ==
    added # <<>> => added[1] = FailThreshold /\ added[2] < FailTime

\* One connection counts once: several signs of blocking, or a sign and then a
\* success, do not make two decisions.
OneVerdictPerFlow == \A f \in Flows : verdicts[f] <= 1

\* The program appends a host to its file once, however many flows to it fail at
\* the same time, and never a host that is excluded, as long as all lists could be
\* read ("rechecking to avoid duplicates" in auto_hostlist_failed).
NoDuplicateLines == "read" \notin faults =>
    \A h \in Hosts : file.lines[h] <= IF h \in Excluded THEN 0 ELSE 1

\* A list that counts as up to date is what the file holds: taking the signature
\* after an append does not hide what others have written.
MemoryIsFile == list.fresh /\ "append" \notin faults => list.hosts = file.hosts

\* "if no more than --hostlist-auto-fail-time seconds have passed since the
\* previous failure, the failure counter increments" and "When the counter
\* reaches --hostlist-auto-fail-threshold, the host is added to the list"
\* (docs/manual.en.md, Autohostlist failure detector).
ListedAsDocumented ==
    \A h \in Hosts \ Excluded :
      ~ /\ Len(streak[h]) = FailThreshold
        /\ \A i \in 1 .. FailThreshold - 1 : streak[h][i + 1] - streak[h][i] <= FailTime
=============================================================================
