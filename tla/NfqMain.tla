------------------------------ MODULE NfqMain -------------------------------
(***************************************************************************)
(* The main loop of nfqws2 on Linux (nfq_main), its signal handlers, and   *)
(* the reloading of hostlist and ipset files, on SIGHUP and before a       *)
(* profile is searched.  Signals interrupt the loop between any two of its *)
(* steps; an administrator edits the files at any time, also while they    *)
(* are read.                                                               *)
(*                                                                         *)
(* A list file is [ver, sig, st]: its content is version ver; sig is the   *)
(* version at which its signature (modification time in seconds and size)  *)
(* last changed, for an edit may leave the signature as it was; st tells   *)
(* whether it can be opened and read.                                      *)
(***************************************************************************)
EXTENDS Integers, Sequences

CONSTANTS
    Hostlists, Ipsets,      \* sequences: the files, in the order of loading
    QueueMax,               \* packets the kernel queues
    MaxPackets, MaxEdits, MaxSignals    \* bounds on the environment

Elems(s) == {s[i] : i \in DOMAIN s}
Files == Elems(Hostlists) \cup Elems(Ipsets)

ASSUME NfqMainAssumption ==
    /\ Hostlists \in Seq(Elems(Hostlists)) /\ Ipsets \in Seq(Elems(Ipsets))
    /\ Elems(Hostlists) \cap Elems(Ipsets) = {}
    /\ QueueMax \in Nat /\ MaxPackets \in Nat /\ MaxEdits \in Nat /\ MaxSignals \in Nat

VARIABLES
    pc,         \* where the main thread is
    bReload, bQuit,
    mem,        \* version of each list in memory; 0 once it was destroyed
    mod_sig,    \* signature of each list in memory; 0 after FILE_MOD_RESET
    todo,       \* lists still to be loaded in this round
    round,      \* "hostlists" and "ipsets" of ReloadCheck, "profile" of dp_match
    fsig,       \* signature taken of the list being read
    failed,     \* a list of this round could not be read
    cur,        \* packet being handled, 0 if none
    \* environment
    disk,       \* the files
    queue,      \* packets in the kernel's queue
    overrun,    \* the queue has overflowed: recv will say ENOBUFS
    sent,       \* packets that have arrived
    signals,    \* signals delivered
    \* history
    done,       \* packets that have a verdict
    asked,      \* versions on disk at the last HUP, and whether it came while
                \* ReloadCheck was at work
    due,        \* asked, when the handling of the current packet began
    raced       \* bQuit was set after its last test and before recv slept

main    == <<pc, bReload, bQuit, mem, mod_sig, todo, round, fsig, failed, cur>>
env     == <<disk, queue, overrun, sent, signals>>
history == <<done, asked, due, raced>>
vars    == <<main, env, history>>

Exits == {"exit0", "exit1", "exit200"}

Init ==
    /\ pc = "top" /\ bReload = FALSE /\ bQuit = FALSE
    /\ mem = [f \in Files |-> 1] /\ mod_sig = [f \in Files |-> 1]
    /\ todo = <<>> /\ round = "none" /\ fsig = 0 /\ failed = FALSE /\ cur = 0
    /\ disk = [f \in Files |-> [ver |-> 1, sig |-> 1, st |-> "ok"]]
    /\ queue = <<>> /\ overrun = FALSE /\ sent = 0 /\ signals = 0
    /\ done = {} /\ raced = FALSE
    /\ asked = [ver |-> [f \in Files |-> 0], during |-> FALSE]
    /\ due = asked

-----------------------------------------------------------------------------
(* The loop.                                                               *)

Goto(l) == pc' = l

\* "if (bQuit) goto quit", before recv is tried
Top ==
    /\ pc = "top"
    /\ Goto(IF bQuit THEN "exit0" ELSE "recv")
    /\ UNCHANGED <<bReload, bQuit, mem, mod_sig, todo, round, fsig, failed, cur, env, history>>

\* recv finds nothing and sleeps; from here on a signal interrupts it
Block ==
    /\ pc = "recv" /\ queue = <<>> /\ ~overrun
    /\ Goto("blocked")
    /\ UNCHANGED <<bReload, bQuit, mem, mod_sig, todo, round, fsig, failed, cur, env, history>>

RecvPacket ==
    /\ pc \in {"recv", "blocked"} /\ queue # <<>> /\ ~overrun
    /\ cur' = Head(queue) /\ queue' = Tail(queue)
    /\ Goto("test")
    /\ UNCHANGED <<bReload, bQuit, mem, mod_sig, todo, round, fsig, failed,
                   disk, overrun, sent, signals, done, asked, due, raced>>

\* "do not fail on ENOBUFS"
RecvNoBufs ==
    /\ pc \in {"recv", "blocked"} /\ overrun
    /\ overrun' = FALSE
    /\ Goto("top")
    /\ UNCHANGED <<bReload, bQuit, mem, mod_sig, todo, round, fsig, failed, cur,
                   disk, queue, sent, signals, history>>

\* any other error, or 0
RecvFails ==
    /\ pc \in {"recv", "blocked"}
    /\ Goto("exit1")
    /\ UNCHANGED <<bReload, bQuit, mem, mod_sig, todo, round, fsig, failed, cur, env, history>>

\* mutant: the signatures are not reset
ResetNothing(fs) == mod_sig

\* ResetAllHostlistsModTime, ResetAllIpsetModTime
ResetModTime(fs) == [f \in Files |-> IF f \in Elems(fs) THEN 0 ELSE mod_sig[f]]

\* ReloadCheck: test of bReload
ReloadCheck ==
    /\ pc = "test"
    /\ due' = asked
    /\ IF bReload
       THEN /\ mod_sig' = ResetModTime(Hostlists)
            /\ round' = "hostlists" /\ todo' = Hostlists
            /\ Goto("list")
       ELSE Goto("handle") /\ UNCHANGED <<mod_sig, round, todo>>
    /\ UNCHANGED <<bReload, bQuit, mem, fsig, failed, cur, env, done, asked, raced>>

\* a HUP asks nothing of a file that cannot be read
Excused(hup, f) == [hup EXCEPT !.ver[f] = 0]

\* LoadHostList, LoadIpset: nothing to do, or the file cannot be accessed and
\* the list in memory stays
Unchanged ==
    /\ pc = "list" /\ todo # <<>>
    /\ LET f == Head(todo)
       IN  /\ disk[f].st = "gone" \/ disk[f].sig = mod_sig[f]
           /\ IF disk[f].st = "gone"
              THEN due' = Excused(due, f) /\ asked' = Excused(asked, f)
              ELSE UNCHANGED <<due, asked>>
    /\ todo' = Tail(todo)
    /\ UNCHANGED <<pc, bReload, bQuit, mem, mod_sig, round, fsig, failed, cur, env, done, raced>>

\* mutant: the signature is kept although the file may turn out unreadable
DestroySigned ==
    /\ pc = "list" /\ todo # <<>>
    /\ LET f == Head(todo)
       IN  /\ disk[f].st # "gone" /\ disk[f].sig # mod_sig[f]
           /\ fsig' = disk[f].sig
           /\ mem' = [mem EXCEPT ![f] = 0]
           /\ mod_sig' = [mod_sig EXCEPT ![f] = fsig']
    /\ Goto("read")
    /\ UNCHANGED <<bReload, bQuit, todo, round, failed, cur, env, history>>

\* the same: the signature has changed; the list is destroyed before the file
\* is read
Destroy ==
    /\ pc = "list" /\ todo # <<>>
    /\ LET f == Head(todo)
       IN  /\ disk[f].st # "gone" /\ disk[f].sig # mod_sig[f]
           /\ fsig' = disk[f].sig
           /\ mem' = [mem EXCEPT ![f] = 0]
    /\ Goto("read")
    /\ UNCHANGED <<bReload, bQuit, mod_sig, todo, round, failed, cur, env, history>>

\* AppendHostList, AppendIpset read what is in the file now
Read ==
    /\ pc = "read"
    /\ LET f == Head(todo)
       IN  \/ /\ disk[f].st = "ok"
              /\ mem' = [mem EXCEPT ![f] = disk[f].ver]
              /\ mod_sig' = [mod_sig EXCEPT ![f] = fsig]
              /\ todo' = Tail(todo)
              /\ UNCHANGED <<failed, due, asked>>
           \* all lists of a HUP are tried, the check of a profile stops here
           \/ /\ disk[f].st # "ok"
              /\ failed' = TRUE
              /\ todo' = IF round = "profile" THEN <<>> ELSE Tail(todo)
              /\ due' = Excused(due, f) /\ asked' = Excused(asked, f)
              /\ UNCHANGED <<mem, mod_sig>>
    /\ Goto("list")
    /\ UNCHANGED <<bReload, bQuit, round, fsig, cur, env, done, raced>>

\* mutant: a packet whose profile cannot be searched is left without a verdict
NoVerdict == IF failed THEN "check" ELSE "verdict"

\* where a packet goes when the lists of the profile have been checked
ProfileDone == "verdict"

\* the end of a round: "this is fatal" for a HUP, no match for a profile
RoundDone ==
    /\ pc = "list" /\ todo = <<>>
    /\ CASE round = "profile" ->
              Goto(ProfileDone) /\ round' = "none" /\ UNCHANGED <<todo, mod_sig>>
         [] round # "profile" /\ failed ->
              Goto("exit200") /\ UNCHANGED <<round, todo, mod_sig>>
         [] round = "hostlists" /\ ~failed ->
              /\ round' = "ipsets" /\ todo' = Ipsets
              /\ mod_sig' = ResetModTime(Ipsets)
              /\ UNCHANGED pc
         [] round = "ipsets" /\ ~failed ->
              Goto("reloaded") /\ UNCHANGED <<round, todo, mod_sig>>
    /\ failed' = FALSE
    /\ UNCHANGED <<bReload, bQuit, mem, fsig, cur, env, history>>

\* the end of ReloadCheck
Reloaded ==
    /\ pc = "reloaded"
    /\ bReload' = FALSE
    /\ round' = "none"
    /\ Goto("handle")
    /\ UNCHANGED <<bQuit, mem, mod_sig, todo, fsig, failed, cur, env, history>>

\* nfq_handle_packet: the profile is cached, or searched after its lists have
\* been checked for changes
Handle ==
    /\ pc = "handle"
    /\ \/ Goto("verdict") /\ UNCHANGED <<round, todo>>
       \/ Goto("list") /\ round' = "profile" /\ todo' = Hostlists \o Ipsets
    /\ UNCHANGED <<bReload, bQuit, mem, mod_sig, fsig, failed, cur, env, history>>

\* nfq_set_verdict2
Verdict ==
    /\ pc = "verdict"
    /\ done' = done \cup {cur}
    /\ cur' = 0
    /\ Goto("check")
    /\ UNCHANGED <<bReload, bQuit, mem, mod_sig, todo, round, fsig, failed, env, asked, due, raced>>

\* "if (bQuit) goto quit" after a packet
Check ==
    /\ pc = "check"
    /\ Goto(IF bQuit THEN "exit0" ELSE "recv")
    /\ UNCHANGED <<bReload, bQuit, mem, mod_sig, todo, round, fsig, failed, cur, env, history>>

Main == \/ Top \/ Block \/ RecvPacket \/ RecvNoBufs \/ ReloadCheck \/ Unchanged
        \/ Destroy \/ Read \/ RoundDone \/ Reloaded \/ Handle \/ Verdict \/ Check

-----------------------------------------------------------------------------
(* Signals and the rest of the world.                                      *)

\* mutant: recv goes on sleeping, as with SA_RESTART
Restarts == pc

\* A signal makes a sleeping recv fail with EINTR (sa_flags is 0).  The
\* "continue" then evaluates "e == ENOBUFS" with an e that may not have been
\* assigned; the build of the repository (gcc -Os) goes on with the loop.
Interrupts == IF pc = "blocked" THEN "top" ELSE pc

Signal(to) ==
    /\ pc \notin Exits /\ signals < MaxSignals
    /\ signals' = signals + 1
    /\ Goto(to)
    /\ UNCHANGED <<mem, mod_sig, todo, round, fsig, failed, cur,
                   disk, queue, overrun, sent, done, due>>

\* ReloadCheck has begun to load and has not yet cleared bReload
Reloading == pc = "reloaded" \/ (pc \in {"list", "read"} /\ round \in {"hostlists", "ipsets"})

onhup(to) ==
    /\ Signal(to)
    /\ bReload' = IF bQuit THEN bReload ELSE TRUE
    /\ asked' = IF bQuit THEN asked
                ELSE [ver |-> [f \in Files |-> disk[f].ver], during |-> Reloading]
    /\ UNCHANGED <<bQuit, raced>>

\* onterm, onint
onterm(to) ==
    /\ Signal(to)
    /\ bQuit' = TRUE
    /\ raced' = IF bQuit THEN raced ELSE pc = "recv"
    /\ UNCHANGED <<bReload, asked>>

\* the kernel queues a packet, or drops it and reports the loss
Arrive ==
    /\ pc \notin Exits /\ sent < MaxPackets
    /\ sent' = sent + 1
    /\ \/ Len(queue) < QueueMax /\ queue' = Append(queue, sent') /\ UNCHANGED overrun
       \/ Len(queue) = QueueMax /\ overrun' = TRUE /\ UNCHANGED queue
    /\ UNCHANGED <<main, disk, signals, history>>

Edit(f, st, same) ==
    /\ pc \notin Exits /\ disk[f].ver <= MaxEdits
    /\ disk' = [disk EXCEPT ![f] = [ver |-> @.ver + 1, st |-> st,
                                    sig |-> IF same THEN @.sig ELSE @.ver + 1]]
    /\ UNCHANGED <<main, queue, overrun, sent, signals, history>>

-----------------------------------------------------------------------------
\* A HUP that did not come while ReloadCheck was at work is answered before the
\* next packet is handled: every list that can be read is at least what it
\* was on disk at the HUP, also if its signature had not changed.
HupIsHonoured ==
    pc = "handle" /\ ~due.during => \A f \in Files : mem[f] >= due.ver[f]

\* "The SIGHUP signal marks all lists for a forced reload during the processing
\* of the next packet" (docs/manual.en.md), whenever it comes.
NextPacketReloads ==
    pc = "handle" => \A f \in Files : mem[f] >= due.ver[f]

\* A list that counts as up to date is not older than its signature says: edits
\* between stat and read, failed reads and interrupted reloads never leave old
\* content with a new signature.
SignatureIsHonest ==
    \A f \in Files :
        mod_sig[f] = disk[f].sig =>
            (mem[f] >= disk[f].sig \/ (pc = "read" /\ f = Head(todo)))
=============================================================================
