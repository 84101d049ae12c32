-------------------------------- MODULE Mdig --------------------------------
(***************************************************************************)
(* mdig: threads take lines from one input, resolve the domains and print  *)
(* addresses to one output.  Addresses and subnets in the input are passed *)
(* on.  Each read, print and count is atomic under a mutex; everything     *)
(* else of the threads interleaves.  The resolver is external: it may find *)
(* the addresses of a domain, fail, or ask to try again.                   *)
(*                                                                         *)
(* A line is [kind, ...]: "blank"; "net" with an address or subnet of the  *)
(* wanted family; "bad" for anything that is refused; "domain".            *)
(***************************************************************************)
EXTENDS Naturals, Sequences, FiniteSets

CONSTANTS
    Threads,            \* threads to be started
    Inputs,             \* what may be on standard input: sequences of lines
    AddrsOf,            \* the addresses of a domain, as [ip, zct] with zct = 0
    Eagain              \* --eagain: attempts to resolve a domain

\* the lines of all inputs
Lines == UNION {{s[i] : i \in DOMAIN s} : s \in Inputs}

ASSUME MdigAssumption ==
    /\ IsFiniteSet(Threads) /\ Eagain \in Nat \ {0}
    /\ Inputs \subseteq Seq(Lines)
    /\ \A l \in Lines : l.kind \in {"blank", "net", "bad", "domain"}

VARIABLES
    input, stdin,       \* the input, what is left of it
    pc, cur, try, todo, \* of each thread: where it is, its line, attempts, addresses to print
    out,                \* what was printed
    resolved, failed,   \* --log-resolved, --log-failed
    stats,              \* stats_ct, stats_ct_ok
    mdig                \* main: "start", "join", "done"

mdigVars == <<input, stdin, pc, cur, try, todo, out, resolved, failed, stats, mdig>>

Blank == [kind |-> "blank"]

MdigInit ==
    /\ input \in Inputs /\ stdin = input
    /\ pc = [t \in Threads |-> "none"] /\ cur = [t \in Threads |-> Blank]
    /\ try = [t \in Threads |-> 0] /\ todo = [t \in Threads |-> {}]
    /\ out = {} /\ resolved = <<>> /\ failed = <<>>
    /\ stats = [ct |-> 0, ok |-> 0] /\ mdig = "start"

\* run_threads: pthread_create may fail, the threads that are there go on
StartThread(t) ==
    /\ mdig = "start" /\ pc[t] = "none"
    /\ pc' = [pc EXCEPT ![t] = "get"]
    /\ UNCHANGED <<input, stdin, cur, try, todo, out, resolved, failed, stats, mdig>>
Started ==
    /\ mdig = "start" /\ mdig' = "join"
    /\ UNCHANGED <<input, stdin, pc, cur, try, todo, out, resolved, failed, stats>>
\* pthread_join of all; without a single thread the exit code is 12
Join ==
    /\ mdig = "join" /\ \A t \in Threads : pc[t] \in {"none", "end"}
    /\ mdig' = IF \A t \in Threads : pc[t] = "none" THEN "failed" ELSE "done"
    /\ UNCHANGED <<input, stdin, pc, cur, try, todo, out, resolved, failed, stats>>

\* interlocked_get_dom
GetDom(t) ==
    /\ pc[t] = "get"
    /\ IF stdin = <<>> THEN pc' = [pc EXCEPT ![t] = "end"] /\ UNCHANGED <<stdin, cur, try>>
       ELSE /\ cur' = [cur EXCEPT ![t] = Head(stdin)]
            /\ stdin' = Tail(stdin)
            /\ try' = [try EXCEPT ![t] = 0]
            /\ pc' = [pc EXCEPT ![t] = CASE Head(stdin).kind = "blank" -> "stat_bad"
                                         [] Head(stdin).kind = "bad" -> "log_bad"
                                         [] Head(stdin).kind = "net" -> "pass"
                                         [] Head(stdin).kind = "domain" -> "resolve"]
    /\ UNCHANGED <<input, todo, out, resolved, failed, stats, mdig>>

\* a valid address or subnet is printed as it is
PassThrough(t) ==
    /\ pc[t] = "pass"
    /\ out' = out \cup {cur[t].net}
    /\ pc' = [pc EXCEPT ![t] = "log_ok"]
    /\ UNCHANGED <<input, stdin, cur, try, todo, resolved, failed, stats, mdig>>

\* mutant: the attempts begin anew where they should end
AgainForever(t) ==
    /\ pc[t] = "resolve"
    /\ try' = [try EXCEPT ![t] = IF @ + 1 < Eagain THEN @ + 1 ELSE 0]
    /\ UNCHANGED <<pc, todo>>

\* EAI_AGAIN: another attempt after a pause, if there is one left
Again(t) ==
    /\ pc[t] = "resolve"
    /\ try' = [try EXCEPT ![t] = @ + 1]
    /\ pc' = [pc EXCEPT ![t] = IF try[t] + 1 < Eagain THEN "resolve" ELSE "log_bad"]
    /\ UNCHANGED todo

\* getaddrinfo
Resolve(t) ==
    /\ pc[t] = "resolve"
    /\ \/ /\ todo' = [todo EXCEPT ![t] = AddrsOf[cur[t].dom]]
          /\ pc' = [pc EXCEPT ![t] = "print"] /\ UNCHANGED try
       \/ pc' = [pc EXCEPT ![t] = "log_bad"] /\ UNCHANGED <<try, todo>>
       \/ Again(t)
    /\ UNCHANGED <<input, stdin, cur, out, resolved, failed, stats, mdig>>

\* print_addrinfo: other threads print in between
PrintAddr(t) ==
    /\ pc[t] = "print"
    /\ IF todo[t] = {} THEN pc' = [pc EXCEPT ![t] = "log_ok"] /\ UNCHANGED <<todo, out>>
       ELSE \E a \in todo[t] :
              /\ out' = out \cup {a}
              /\ todo' = [todo EXCEPT ![t] = @ \ {a}]
              /\ UNCHANGED pc
    /\ UNCHANGED <<input, stdin, cur, try, resolved, failed, stats, mdig>>

\* the line goes to one of the logs
LogLine(t) ==
    /\ pc[t] \in {"log_ok", "log_bad"}
    /\ IF pc[t] = "log_ok"
       THEN /\ resolved' = Append(resolved, cur[t])
            /\ pc' = [pc EXCEPT ![t] = "stat_ok"] /\ UNCHANGED failed
       ELSE /\ failed' = Append(failed, cur[t])
            /\ pc' = [pc EXCEPT ![t] = "stat_bad"] /\ UNCHANGED resolved
    /\ UNCHANGED <<input, stdin, cur, try, todo, out, stats, mdig>>

\* mutant: the counters are updated without the lock, and another thread's
\* update is lost
stat_plus_lost(ok) ==
    stats' = IF \E t, u \in Threads : t # u /\ {pc[t], pc[u]} \subseteq {"stat_ok", "stat_bad"}
             THEN stats ELSE [ct |-> stats.ct + 1, ok |-> stats.ok + (IF ok THEN 1 ELSE 0)]

\* stat_plus
stat_plus(ok) == stats' = [ct |-> stats.ct + 1, ok |-> stats.ok + (IF ok THEN 1 ELSE 0)]

StatPlus(t) ==
    /\ pc[t] \in {"stat_ok", "stat_bad"}
    /\ stat_plus(pc[t] = "stat_ok")
    /\ pc' = [pc EXCEPT ![t] = "get"]
    /\ UNCHANGED <<input, stdin, cur, try, todo, out, resolved, failed, mdig>>

ThreadStep(t) ==
    GetDom(t) \/ PassThrough(t) \/ Resolve(t) \/ PrintAddr(t) \/ LogLine(t) \/ StatPlus(t)
MdigNext == Started \/ Join \/ \E t \in Threads : StartThread(t) \/ ThreadStep(t)

-----------------------------------------------------------------------------
Count(s, l) == Cardinality({i \in DOMAIN s : s[i] = l})

\* When the threads are joined every line of the input was taken by exactly one
\* of them: it stands in exactly one of the two logs as often as in the input,
\* the counters agree with the logs, and what a resolved line stands for is in
\* the output.
MdigAccounts ==
    mdig = "done" =>
       /\ \A i \in DOMAIN input :
            input[i].kind # "blank" => Count(input, input[i]) = Count(resolved, input[i]) + Count(failed, input[i])
       /\ stats = [ct |-> Len(input), ok |-> Len(resolved)]
       /\ \A i \in DOMAIN resolved :
            IF resolved[i].kind = "net" THEN resolved[i].net \in out
            ELSE AddrsOf[resolved[i].dom] \subseteq out
=============================================================================
