----------------------------- MODULE MCNfqMain ------------------------------
EXTENDS FrontEnds

MCHostlists == <<"hostlist">>
MCIpsets == <<"ipset">>

AllCaps == NetCaps \cup {"SETUID", "SETGID", "SETPCAP", "OTHER"}

\* root on Linux, as a daemon
Service ==
    [os |-> "linux", root |-> TRUE, caps |-> AllCaps, user |-> FALSE, intercept |-> TRUE,
     daemon |-> TRUE, pidfile |-> TRUE, scripts |-> 2, ipv6 |-> FALSE, seccomp |-> TRUE,
     logical |-> FALSE]
\* two capabilities and no root, none at all, another user asked for without
\* the right to become it, root that keeps its id; only to run Lua code
NoIntercept == [Service EXCEPT !.intercept = FALSE, !.ipv6 = TRUE]
OnLinux ==
    {Service,
     [NoIntercept EXCEPT !.root = FALSE, !.caps = NetCaps],
     [NoIntercept EXCEPT !.root = FALSE, !.caps = {}, !.daemon = FALSE, !.pidfile = FALSE],
     [NoIntercept EXCEPT !.root = FALSE, !.caps = NetCaps, !.user = TRUE],
     [NoIntercept EXCEPT !.user = TRUE, !.scripts = 1, !.seccomp = FALSE],
     [NoIntercept EXCEPT !.caps = AllCaps \ {"SETUID", "SETPCAP"}]}
OnBSD ==
    {[Service EXCEPT !.os = "bsd", !.caps = {}],
     [Service EXCEPT !.os = "bsd", !.caps = {}, !.root = FALSE],
     [NoIntercept EXCEPT !.os = "bsd", !.caps = {}, !.pidfile = FALSE]}
OnWindows ==
    {[Service EXCEPT !.os = "win", !.caps = {}, !.logical = TRUE],
     [Service EXCEPT !.os = "win", !.caps = {}, !.daemon = FALSE, !.pidfile = FALSE],
     [NoIntercept EXCEPT !.os = "win", !.caps = {}]}

MCLaunches == OnLinux \cup OnBSD \cup OnWindows
=============================================================================
