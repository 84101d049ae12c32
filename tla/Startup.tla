------------------------------ MODULE Startup -------------------------------
(***************************************************************************)
(* From main to the loop that handles packets, and back: giving files away *)
(* to the later user, loading the lists, dropping privileges, sockets, the *)
(* Lua scripts, becoming a daemon, the pid file, and what is released at   *)
(* the end.  nfq_main (Linux), dvt_main (BSD) and win_main (Windows) do    *)
(* these in different orders, for their systems differ in what a process   *)
(* without privileges may still do.                                        *)
(*                                                                         *)
(* plan is what is left to do.  A step that fails jumps to "ex", where all *)
(* is released, or leaves the program at once.                             *)
(***************************************************************************)
EXTENDS NfqMain

CONSTANT Launches   \* the ways the program is started, as records:
    \* os, root, caps (permitted and effective on Linux), user (--user or --uid),
    \* intercept, daemon, pidfile, scripts (--lua-init), ipv6 (the system has it),
    \* seccomp (the kernel knows it), logical (a filter on Windows networks is given)

ASSUME LaunchAssumption ==
    \A l \in Launches :
      /\ l.os \in {"linux", "bsd", "win"} /\ l.scripts \in Nat
      /\ {l.root, l.user, l.intercept, l.daemon, l.pidfile, l.ipv6, l.seccomp, l.logical} \subseteq BOOLEAN

VARIABLES
    launch,
    plan,       \* the steps that are left
    proc,       \* the process: pid, its privileges, whether it catches signals
    opened,     \* what is open
    pidfile,    \* whose pid is in the pid file
    result,     \* exit code
    \* history
    ran,        \* the processes in which Lua code ran
    denied      \* a call failed for want of a privilege

startVars == <<launch, plan, proc, opened, pidfile, result, ran, denied>>

RUNNING == 0 - 1
KILLED == 0 - 2

NetCaps == {"NET_ADMIN", "NET_RAW"}

Is(os) == launch.os = os

can_drop_root == IF Is("linux") THEN {"SETUID", "SETGID"} \subseteq launch.caps ELSE launch.root

\* params.droproot: init_params, or an option
Droproot == ~Is("win") /\ (can_drop_root \/ launch.user)

If(b, steps) == IF b THEN steps ELSE <<>>

Detach == If(launch.daemon, <<"daemonize">>) \o If(launch.pidfile, <<"write_pidfile">>)

lua_init == <<"lua_basic_init">> \o [i \in 1 .. launch.scripts |-> "lua_init_script"] \o <<"lua_functions">>

\* main, up to nfq_main, dvt_main or win_main
Prepare == <<"ensure_access", "load_lists">>

\* mutant: scripts run before the privileges are dropped
nfq_main_lua_first ==
    Prepare \o If(launch.pidfile, <<"fopen_pidfile">>) \o lua_init
    \o If(Droproot, <<"droproot">>) \o <<"dropcaps", "test_files", "sec_harden", "rawsend_preinit">>
    \o If(~launch.intercept, Detach)
    \o <<"catch_signals">>
    \o IF launch.intercept THEN <<"buffers", "nfq_init">> \o Detach \o <<"serve">> ELSE <<"ok">>

nfq_main ==
    Prepare \o If(launch.pidfile, <<"fopen_pidfile">>)
    \o If(Droproot, <<"droproot">>) \o <<"dropcaps", "test_files", "sec_harden", "rawsend_preinit">>
    \o If(~launch.intercept, Detach)
    \o <<"catch_signals">> \o lua_init
    \o IF launch.intercept THEN <<"buffers", "nfq_init">> \o Detach \o <<"serve">> ELSE <<"ok">>

dvt_main ==
    Prepare \o If(launch.pidfile, <<"fopen_pidfile">>)
    \o If(launch.intercept, <<"socket_divert">>) \o <<"rawsend_preinit">>
    \o If(Droproot, <<"droproot">>) \o <<"test_files", "catch_signals">>
    \o If(~launch.intercept, Detach)
    \o lua_init
    \o IF launch.intercept THEN Detach \o <<"serve">> ELSE <<"ok">>

\* win_main waits for its network, and again each time the network is gone;
\* the state of Lua stays
win_round(has_lua) ==
    <<"logical_net", "windivert_init", "win_sandbox">> \o If(~has_lua, lua_init)
    \o IF launch.intercept THEN <<"serve">> ELSE <<"ok">>
win_main ==
    Prepare \o If(launch.daemon, <<"daemonize">>) \o If(launch.pidfile, <<"writepid">>)
    \o <<"win_dark_init", "buffers", "catch_signals">> \o win_round(FALSE)

StartInit ==
    /\ launch \in Launches
    /\ plan = CASE Is("linux") -> nfq_main [] Is("bsd") -> dvt_main [] Is("win") -> win_main
    /\ proc = [pid |-> "first", root |-> launch.root, permitted |-> launch.caps, effective |-> launch.caps,
               locked |-> FALSE, low |-> FALSE, catches |-> FALSE]
    /\ opened = {} /\ pidfile = "none" /\ result = RUNNING
    /\ ran = {} /\ denied = FALSE

-----------------------------------------------------------------------------
(* How a step ends.                                                        *)

Now(s) == result = RUNNING /\ plan # <<>> /\ Head(plan) = s
Done == plan' = Tail(plan) /\ UNCHANGED result
\* "goto ex" with a result
Err == plan' = <<"err", "ex">> /\ UNCHANGED result
\* exit()
Exit(code) == plan' = <<>> /\ result' = code

\* a call that needs a privilege, and opens what
Opens(s, may, what) ==
    /\ Now(s)
    /\ \/ may /\ Done /\ opened' = opened \cup what /\ UNCHANGED denied
       \/ Err /\ denied' = (denied \/ ~may) /\ UNCHANGED opened
    /\ UNCHANGED <<launch, proc, pidfile, ran>>

-----------------------------------------------------------------------------
(* The steps of main.                                                      *)

\* make_writeable_dir, ensure_file_access: mkdir and chown, which the filter of
\* system calls forbids
ensure_access ==
    /\ Now("ensure_access")
    /\ Done \/ Exit(1)
    /\ denied' = (denied \/ proc.locked)
    /\ UNCHANGED <<launch, proc, opened, pidfile, ran>>

\* test_list_files, lua_test_init_script_files, LoadAllHostLists, LoadAllIpsets
load_lists ==
    /\ Now("load_lists")
    /\ Done \/ Exit(1)
    /\ UNCHANGED <<launch, proc, opened, pidfile, ran, denied>>

\* the same tests as the user the program has become
test_files ==
    /\ Now("test_files")
    /\ Done \/ Err
    /\ UNCHANGED <<launch, proc, opened, pidfile, ran, denied>>

-----------------------------------------------------------------------------
(* Privileges.                                                             *)

\* mutant: without PR_SET_KEEPCAPS
keepcaps_lost(p) ==
    [p EXCEPT !.root = FALSE, !.effective = IF p.root THEN {} ELSE @, !.permitted = IF p.root THEN {} ELSE @]

\* setuid from root clears the effective set; PR_SET_KEEPCAPS keeps the other
setuid(p) == [p EXCEPT !.root = FALSE, !.effective = IF p.root THEN {} ELSE @]

\* keepcaps, setgroups or initgroups, setgid, setuid
droproot ==
    /\ Now("droproot")
    /\ \/ /\ can_drop_root
          /\ proc' = setuid(proc)
          /\ Done
       \/ Err /\ UNCHANGED proc
    /\ UNCHANGED <<launch, opened, pidfile, ran, denied>>

\* capset: no capability can be had that is not permitted
setpcap(p, caps) ==
    IF caps \subseteq p.permitted THEN [p EXCEPT !.permitted = caps, !.effective = caps] ELSE p

\* with CAP_SETPCAP to clear the bounding set, then without it; if that fails
\* checkpcap tells whether to go on
dropcaps ==
    /\ Now("dropcaps")
    /\ proc' = setpcap(setpcap(proc, NetCaps \cup {"SETPCAP"}), NetCaps)
    /\ IF NetCaps \subseteq proc'.effective
       THEN Done /\ UNCHANGED denied
       ELSE Err /\ denied' = TRUE
    /\ UNCHANGED <<launch, opened, pidfile, ran>>

\* no_new_privs and the filter of system calls; an old kernel has neither
sec_harden ==
    /\ Now("sec_harden")
    /\ proc' = [proc EXCEPT !.locked = launch.seccomp]
    /\ Done
    /\ UNCHANGED <<launch, opened, pidfile, ran, denied>>

\* The token's privileges are removed, the driver is labelled when it will have
\* to be opened again, then the process becomes one of low integrity.  Once.
win_sandbox ==
    /\ Now("win_sandbox")
    /\ \/ /\ proc' = [proc EXCEPT !.low = TRUE]
          /\ opened' = IF ~proc.low /\ launch.logical THEN opened \cup {"label"} ELSE opened
          /\ Done
       \/ ~proc.low /\ Err /\ UNCHANGED <<proc, opened>>
    /\ UNCHANGED <<launch, pidfile, ran, denied>>

-----------------------------------------------------------------------------
(* Sockets, the queue, the driver.                                         *)

RawMay == IF Is("linux") THEN "NET_RAW" \in proc.effective ELSE proc.root

\* rawsend_preinit: "allow ipv6 disabled systems"
rawsend_preinit ==
    Opens("rawsend_preinit", RawMay, {"rawsend_sock4"} \cup (IF launch.ipv6 THEN {"rawsend_sock6"} ELSE {}))

socket_divert == Opens("socket_divert", RawMay, {"fd"})

\* the buffers; on Linux also the socket for names of interfaces
buffers == Opens("buffers", TRUE, {"buf", "mod"} \cup (IF Is("linux") THEN {"sock"} ELSE {}))

\* nfq_init closes the handle itself when a later call fails
nfq_init == Opens("nfq_init", "NET_ADMIN" \in proc.effective, {"h", "qh"})

\* low integrity needs the label of win_sandbox to open the driver again
windivert_init == Opens("windivert_init", proc.low => "label" \in opened, {"w_filter"})

win_dark_init == Opens("win_dark_init", TRUE, IF launch.logical THEN {"nlm"} ELSE {})

-----------------------------------------------------------------------------
(* Lua.                                                                    *)

lua_basic_init == Opens("lua_basic_init", TRUE, {"L"})

\* lua_init fails: lua_shutdown
LuaErr == Err /\ opened' = opened \ {"L"}

\* lua_init_scripts: a script may fail, or be interrupted by a signal
lua_init_script ==
    /\ Now("lua_init_script")
    /\ \/ bQuit /\ LuaErr /\ UNCHANGED ran
       \/ ~bQuit /\ ran' = ran \cup {proc} /\ ((Done /\ UNCHANGED opened) \/ LuaErr)
    /\ UNCHANGED <<launch, proc, pidfile, denied>>

\* lua_desync_functions_exist
lua_functions ==
    /\ Now("lua_functions")
    /\ (Done /\ UNCHANGED opened) \/ LuaErr
    /\ UNCHANGED <<launch, proc, pidfile, ran, denied>>

-----------------------------------------------------------------------------
(* The daemon, its pid file, the end.                                      *)

\* opened with the privileges the program was started with
fopen_pidfile ==
    /\ Now("fopen_pidfile")
    /\ \/ Done /\ opened' = opened \cup {"Fpid"} /\ pidfile' = "empty"
       \/ Exit(1) /\ UNCHANGED <<opened, pidfile>>
    /\ UNCHANGED <<launch, proc, ran, denied>>

\* writes and closes it
write_pidfile ==
    /\ Now("write_pidfile")
    /\ opened' = opened \ {"Fpid"}
    /\ \/ Done /\ pidfile' = proc.pid
       \/ Err /\ UNCHANGED pidfile
    /\ UNCHANGED <<launch, proc, ran, denied>>

writepid ==
    /\ Now("writepid")
    /\ \/ Done /\ pidfile' = proc.pid
       \/ Exit(4) /\ UNCHANGED pidfile
    /\ UNCHANGED <<launch, proc, opened, ran, denied>>

\* fork: the parent exits, the child goes on
forked(p) == [p EXCEPT !.pid = "daemon"]

\* fork, setsid and the standard files may fail
daemonize ==
    /\ Now("daemonize")
    /\ \/ Done /\ proc' = forked(proc)
       \/ Exit(20) /\ UNCHANGED proc
    /\ UNCHANGED <<launch, opened, pidfile, ran, denied>>

catch_signals ==
    /\ Now("catch_signals")
    /\ proc' = [proc EXCEPT !.catches = TRUE]
    /\ Done
    /\ UNCHANGED <<launch, opened, pidfile, ran, denied>>

\* nfq_deinit, lua_shutdown, rawsend_cleanup, win_dark_deinit, free and close;
\* the label of the driver stays
ex_release == opened \cap {"label"}

\* "err:", "exok:", "ex:"
Ex ==
    /\ result = RUNNING /\ plan \in {<<"ok">>, <<"err", "ex">>}
    /\ opened' = ex_release
    /\ Exit(IF plan = <<"ok">> THEN 0 ELSE 1)
    /\ UNCHANGED <<launch, proc, pidfile, ran, denied>>

Start ==
    \/ ensure_access \/ test_files \/ load_lists
    \/ droproot \/ dropcaps \/ sec_harden \/ win_sandbox
    \/ rawsend_preinit \/ socket_divert \/ buffers \/ nfq_init \/ windivert_init \/ win_dark_init
    \/ lua_basic_init \/ lua_init_script \/ lua_functions
    \/ fopen_pidfile \/ write_pidfile \/ writepid \/ daemonize \/ catch_signals
    \/ Ex
=============================================================================
