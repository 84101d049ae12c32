------------------------------ MODULE FrontEnds -----------------------------
(***************************************************************************)
(* The whole program on its three systems: it starts, handles packets      *)
(* until it is told to quit or fails, releases what it holds, ends.  On    *)
(* Linux the loop is NfqMain's.  The loops of dvt_main (BSD) and win_main  *)
(* (Windows) differ in how they wait and what wakes them; from ReloadCheck *)
(* to the verdict they do what nfq_main does.  Here dvt_main has one       *)
(* divert socket, as on FreeBSD, and win_main receives packets singly.     *)
(***************************************************************************)
EXTENDS Startup

VARIABLE net        \* Windows: a network of the filter is connected

progVars == <<vars, startVars, net>>

Serving == result = RUNNING /\ plan = <<"serve">>

\* with the code between a packet's arrival and its verdict shared by all
Inner == ReloadCheck \/ Unchanged \/ Destroy \/ Read \/ RoundDone \/ Reloaded \/ Handle \/ Verdict

-----------------------------------------------------------------------------
(* dvt_main.                                                               *)

\* select returns: a packet, or a signal has interrupted it; bQuit is tested
\* before anything else
Select ==
    /\ pc \in {"recv", "blocked"}
    /\ queue # <<>> /\ Goto(IF bQuit THEN "exit0" ELSE "recvfrom")
    /\ UNCHANGED <<bReload, bQuit, mem, mod_sig, todo, round, fsig, failed, cur, env, history>>

\* recvfrom: a packet, ENOBUFS and the next round, or an error
RecvFrom ==
    /\ pc = "recvfrom"
    /\ cur' = Head(queue) /\ queue' = Tail(queue)
    /\ overrun' = FALSE
    /\ Goto("test")
    /\ UNCHANGED <<bReload, bQuit, mem, mod_sig, todo, round, fsig, failed,
                   disk, sent, signals, done, asked, due, raced>>
RecvFromFails ==
    /\ pc = "recvfrom"
    /\ Goto(IF overrun THEN "top" ELSE "exit1") /\ overrun' = FALSE
    /\ UNCHANGED <<bReload, bQuit, mem, mod_sig, todo, round, fsig, failed, cur,
                   disk, queue, sent, signals, history>>

\* the end of the loop over the sockets
Again ==
    /\ pc = "check" /\ Goto("top")
    /\ UNCHANGED <<bReload, bQuit, mem, mod_sig, todo, round, fsig, failed, cur, env, history>>

Sleep ==
    /\ pc = "recv" /\ queue = <<>> /\ Goto("blocked")
    /\ UNCHANGED <<bReload, bQuit, mem, mod_sig, todo, round, fsig, failed, cur, env, history>>

Dvt == Top \/ Sleep \/ Select \/ RecvFrom \/ Inner \/ Again

-----------------------------------------------------------------------------
(* win_main.                                                               *)

\* where windivert_recv_exit leads: it is called before the receive and every
\* 50 ms while that is pending
windivert_recv_exit == IF bQuit THEN "exit0" ELSE IF ~net THEN "nodev" ELSE IF pc = "top" THEN "recv" ELSE pc

RecvExit ==
    /\ pc \in {"top", "blocked"} /\ windivert_recv_exit # pc
    /\ Goto(windivert_recv_exit)
    /\ UNCHANGED <<bReload, bQuit, mem, mod_sig, todo, round, fsig, failed, cur, env, history>>

\* WinDivertRecvEx has a packet, or gets one while it is pending
windivert_recv ==
    /\ pc \in {"recv", "blocked"} /\ queue # <<>>
    /\ cur' = Head(queue) /\ queue' = Tail(queue)
    /\ Goto("test")
    /\ UNCHANGED <<bReload, bQuit, mem, mod_sig, todo, round, fsig, failed,
                   disk, overrun, sent, signals, done, asked, due, raced>>

Win == RecvExit \/ Sleep \/ windivert_recv \/ Inner \/ Again

\* ENODEV: rawsend_cleanup, and a new round
NetworkGone ==
    /\ Is("win") /\ Serving /\ pc = "nodev"
    /\ opened' = opened \ {"w_filter"}
    /\ plan' = win_round("L" \in opened)
    /\ Goto("top") /\ queue' = <<>>
    /\ UNCHANGED <<bReload, bQuit, mem, mod_sig, todo, round, fsig, failed, cur,
                   disk, overrun, sent, signals, history, launch, proc, pidfile, result, ran, denied, net>>

\* half a second at a time until logical_net_filter_match; bQuit ends it
logical_net ==
    /\ Now("logical_net")
    /\ \/ net /\ Done
       \/ ~net /\ bQuit /\ plan' = <<"ok">> /\ UNCHANGED result
    /\ UNCHANGED <<vars, launch, proc, opened, pidfile, ran, denied, net>>

-----------------------------------------------------------------------------
(* The program and its world.                                              *)

MainStep ==
    /\ Serving /\ pc \notin Exits
    /\ \/ Is("linux") /\ Main
       \/ Is("bsd") /\ Dvt
       \/ Is("win") /\ Win
    /\ UNCHANGED <<startVars, net>>

Fails ==
    /\ Serving
    /\ RecvFails \/ (Is("bsd") /\ RecvFromFails)
    /\ UNCHANGED <<startVars, net>>

StartStep == Start /\ UNCHANGED <<vars, net>>

\* "quit:", "err:", or exit in ReloadCheck
Leave ==
    /\ Serving /\ pc \in Exits
    /\ CASE pc = "exit0" -> plan' = <<"ok">> /\ UNCHANGED result
         [] pc = "exit1" -> Err
         [] pc = "exit200" -> Exit(200)
    /\ UNCHANGED <<vars, launch, proc, opened, pidfile, ran, denied, net>>

Program == StartStep \/ logical_net \/ MainStep \/ NetworkGone \/ Leave

\* A signal before catch_signals kills.  Nothing but recv and select is
\* interrupted by one: windivert_recv polls.
CaughtSignal ==
    /\ result = RUNNING /\ proc.catches
    /\ LET to == IF Is("win") THEN pc ELSE Interrupts
       IN  onhup(to) \/ onterm(to)
    /\ UNCHANGED <<startVars, net>>
KillingSignal ==
    /\ result = RUNNING /\ ~proc.catches
    /\ Exit(KILLED)
    /\ UNCHANGED <<vars, launch, proc, opened, pidfile, ran, denied, net>>

\* packets come while their queue, socket or driver is open; lists are edited
\* on Linux only, for the code that reloads them is the same
World ==
    /\ \/ Serving /\ Arrive
       \/ /\ Serving /\ Is("linux")
          /\ \E f \in Files, st \in {"ok", "gone", "broken"}, same \in BOOLEAN : Edit(f, st, same)
    /\ UNCHANGED <<startVars, net>>
NetChanges ==
    /\ Is("win") /\ launch.logical /\ result = RUNNING
    /\ net' = ~net
    /\ UNCHANGED <<vars, startVars>>

Over == result # RUNNING /\ UNCHANGED progVars

ProgInit == Init /\ StartInit /\ net = TRUE

ProgNext == Program \/ Fails \/ CaughtSignal \/ KillingSignal \/ World \/ NetChanges \/ Over

\* the main thread runs, and nothing else has to happen
ProgSpec == ProgInit /\ [][ProgNext]_progVars /\ WF_progVars(Program)

-----------------------------------------------------------------------------
\* "All Lua code is executed only after privileges have been dropped; it never
\* receives the original permissions" (docs/manual.en.md): whatever fails on the
\* way, scripts run as another user than root and, on Linux, with the two network
\* capabilities at most; on Windows with low integrity.
LuaIsSandboxed ==
    \A p \in ran :
        /\ (~Is("win") /\ can_drop_root) => ~p.root
        /\ Is("linux") => (p.effective \subseteq NetCaps /\ p.permitted \subseteq NetCaps)
        /\ Is("win") => p.low

\* A program started with the privileges it needs never lacks one afterwards: what
\* it opens after it has dropped them, also a second time, it still may open.
NeverDenied ==
    denied => CASE Is("linux") -> ~(NetCaps \subseteq launch.caps)
                [] Is("bsd") -> ~launch.root
                [] Is("win") -> FALSE

\* When the loop runs, the pid file names the process that runs it, signals are
\* caught, and what it receives from and sends to is open.
ReadyIsTrue ==
    Serving /\ pc # "nodev" =>
        /\ pidfile = IF launch.pidfile THEN proc.pid ELSE "none"
        /\ launch.daemon <=> proc.pid = "daemon"
        /\ proc.catches /\ "L" \in opened /\ "Fpid" \notin opened
        /\ CASE Is("linux") -> {"qh", "rawsend_sock4"} \subseteq opened
             [] Is("bsd") -> {"fd", "rawsend_sock4"} \subseteq opened
             [] Is("win") -> "w_filter" \in opened

StartsAsPromised == NeverDenied /\ ReadyIsTrue

\* A request to quit ends the program, at any point of its start or of its loop and
\* also when it wakes a sleeping recv, and nothing is left open but by exit().  Only
\* if it came after the test and before recv or select slept it takes another packet.
QuitEnds ==
    (bQuit /\ (~raced \/ Is("win") \/ queue # <<>>)) ~>
        (result # RUNNING /\ (opened \subseteq {"label"} \/ result \in {20, 200}))

\* Every packet that was queued gets a verdict, or the program has ended or has lost
\* its network.
EveryPacketAnswered ==
    \A i \in 1 .. MaxPackets :
        (i \in Elems(queue)) ~> (i \in done \/ result # RUNNING \/ ~net \/ pc = "nodev")
=============================================================================
