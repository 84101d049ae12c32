# zapret2: models, checks and proofs

This directory holds TLA+ models of zapret2: `nfqws2`, its packet engine, and the
list tools `mdig` and `ip2net`; the TLC configurations that check them and the proofs about them.
`PROJECT.json` lists components, runs, mutants, findings, hazards and theorems,
and maps every definition to the lines it models.

    tlc -workers 2 -config MCReassembly.cfg MCReassembly    # a run
    tlapm Reassembly_proof.tla                              # the proofs of a module

## 1. The system

nfqws2 takes packets from a kernel queue (NFQUEUE on Linux, divert sockets on
BSD, WinDivert on Windows), follows the connections they belong to, finds out
what they carry, selects a *profile*, passes the packet to the Lua functions of
the profile, and gives a verdict (pass, modified, drop). It runs in one thread;
signals interrupt it, and the files it reads are edited by others.

| component | state | operations | works with |
|---|---|---|---|
| main loop, signals (`nfqws.c`) | `bReload`, `bQuit` | receive, `ReloadCheck`, handle, verdict; `onhup`, `onterm` | kernel queue, list files, packet handlers |
| list files (`hostlist.c`, `ipset.c`, `pools.c`) | lists in memory, signatures (size, mtime) | load, reset signatures, check for changes, search | main loop, profile search, auto hostlist |
| conntrack (`conntrack.c`) | pool of entries keyed by tuple; positions of both sides; per flow protocol, hostname, profile, reassembly, delayed packets | feed, search both directions, create, re-initialise on SYN, purge | called first for every packet |
| reassembly (`conntrack.c`, `desync.c`) | buffer, size, present, next sequence number | init, feed, clear | TCP and QUIC handlers |
| TCP handler (`desync.c`) | the entry | prolog, detection, reassembly, delay, replay, profile rediscovery, Lua | everything below |
| UDP/QUIC, ICMP, raw IP handlers (`desync.c`) | the entry | the same for QUIC initials | |
| auto hostlist (`desync.c`, `pools.c`) | per flow detector, pool of failure counters, list and file | count failures, reset, expire, recheck and append | handlers, list files |
| profiles (`params.c`, `desync.c`, `filter.c`) | the configuration | `dp_find`, `dp_match` | handlers |
| ip cache (`pools.c`) | hostname and hop count per address | put, get, expire | handlers |
| Lua dispatch (`desync.c`, `lua.c`) | cutoffs per instance and flow | ranges, cutoffs, verdict aggregation | handlers, Lua library |
| Lua library (`src/lua`) | per host state of `zapret-auto.lua` | strategies, automatic selection | Lua dispatch |
| packet dissection and building (`darkmagic.c`, `checksum.c`, `lua.c`), parsers (`protocol.c`) | none | dissect, reconstruct, fragment, markers, `tls_mod`, CRYPTO frames | called by Lua functions and handlers |
| configuration (`nfqws.c`, `params.c`) | profiles, templates, lists | options, `--new`, `--template`, `--import`, `--skip` | before anything else |
| start-up and front ends (`nfqws.c`, `sec.c`, `darkmagic.c`, `win.c`) | privileges, open sockets, pid file | drop privileges, open, Lua init, daemon; the loops of Linux, BSD, Windows | everything |
| `mdig`, `ip2net` | worker threads; a sorted set of networks | resolve names in parallel; join addresses to networks | independent programs |
| shell scripts | firewall, lists | | start the programs |

What is hard in this system:

* *Arithmetic modulo 2^32* on sequence numbers: reassembly offsets, upper
  positions, retransmission and overflow tests.
* *Packets held back*: a ClientHello in several TCP segments or QUIC initials is
  delayed until it is complete. Meanwhile retransmissions, losses, the server's
  packets, an expiring entry, a new SYN, a changed profile and missing memory all
  may interfere; the program must not lose or reorder data, nor wait for what
  cannot come.
* *Cached decisions*: the profile of a flow, the cutoffs of its instances and the
  hostname of an address are kept and used after what they were derived from has
  changed.
* *Signals, files and privileges*: handlers run between any two instructions,
  files change between `stat`, `open` and `read`, and three front ends give up
  privileges at different points among the calls that need them.
* *Counters with expiry* fed by several flows at once, and a list that others
  edit while the program appends to it.
* *Lengths and offsets* computed twice, in C and in Lua, on packets that come in
  parts or with many headers.

Correctness, by component: the buffer is never overrun and holds what the client
sent; one entry per connection, idle ones go and live ones stay; positions follow
the stream across wraps; every packet leaves once and in order; the profile in use
is the one a search would find, and no call of Lua that is due is left out; what is
taken apart can be put together; every queued packet gets a verdict, SIGTERM ends
the program and SIGHUP reloads the lists; Lua never runs with privileges; a host is
listed on recent failures only, once, and what counts as up to date is what the
file says; a list of addresses is made, tight and searched exactly.

## 2. Modules

    SeqArith -- ReasmOps -- Reassembly -- MCReassembly, Reassembly_proof
       |           `--------------.
       `-- ConntrackPos ----------+-- PacketPlay -- QuicPlay -- MCPacketPlay, PacketPlay_proof
              |                   Queues --'  DelayLine --'
              |-- Conntrack -- MCConntrack, Conntrack_proof
              `-- TcpFlow -- MCTcpFlow, TcpFlow_proof
    NfqMain -- Startup -- FrontEnds -- MCNfqMain, FrontEnds_proof
    AutoHostlist -- MCAutoHostlist, AutoHostlist_proof
    Filters -- Config, IpCache, Queues -- Desync -.   Desync_proof
    Sums -- Dissect -- IpFrag -.                   +-- MCDesync
       `--- Protocol -- Messages -- LuaCalls ------'
    Mdig, Ip2net, Ipset -- Lists -- MCLists, Lists_proof

**SeqArith** is `uint32_t` arithmetic with the modulus `SeqMod` in place of 2^32:
sum, difference, the sign bit test and `seq_within`.

**ReasmOps** is `ReasmInit`, `ReasmClear` and `ReasmFeed` on the header of a
session, as pure operators: accepted or not, how much of the segment is old, where
the rest is copied.

**Reassembly** is one session over a client's stream. The buffer is modelled with
the heap cells behind it. Segments of every position and length arrive in any
order; a retransmission may carry other bytes (`Versions`).

**ConntrackPos** is `ConntrackFeedPacket` and `ConntrackApplyPos` on the positions
of an entry: packet counters, SYN/SYN-ACK/FIN states, `seq0`, `uppos`,
`rseq_over_2G`, the scaled window; and `is_retransmission`.

**Conntrack** is the pool: search by tuple and swapped tuple, creation (a SYN/ACK
creates the entry of the other direction), feeding, timeouts by state, the purge
that every packet begins with and the interval that limits it. A failed
allocation is `FeedFails`.

**TcpFlow** puts `ConntrackPos` behind two TCP hosts (external: a legal TCP
conversation with repeated SYN, SYN/ACK and data, wraps, FIN, RST without
acknowledgement number, and a next connection on the same tuple).

**Queues** says what is left of a sequence without some of its elements, as a function
of positions and not by recursion, so that it can be reasoned about.

**PacketPlay** composes positions and reassembly into
`dpi_desync_tcp_packet_play` on one connection. The client's stream is
`HelloStart` units of a plaintext protocol, a ClientHello of `HelloLen` units and
application data. One action is the whole handler for one packet: conntrack,
`reasm_client_feed` and, if it fails, the sending of what is held; detection; the
start of a session or its refusal (window, size, memory); hold, replay or forward;
`dp_rediscovery`, which may find no profile or reject the hostname, and then
cancels the session. Which profile a search finds, what the hostlists say and what
Lua does with a packet (pass or drop) are free choices. `PlayEmpty` is the handler
on packets without data, of both sides. `PurgeEntry` and `NewConnection` destroy
an entry with what it holds.

**QuicPlay** adds `dpi_desync_udp_packet_play`: QUIC initials with parts of the
CRYPTO stream in any order, a buffer that is enlarged up to a limit
(`ReasmResize`), hold and replay, and the cancellation by every other packet of the
flow, of either side. `PlaySpec` is a flow of either kind.

**DelayLine** is what both promise, without any of that: a line that packets enter,
that is only emptied as a whole, in order and before anything newer leaves.
`ImplementsDelayLine` in QuicPlay is the refinement: the packets held are the line.

**NfqMain** is the loop of `nfq_main` with a program counter: test, receive or
sleep, ENOBUFS, `ReloadCheck`, lists one by one (signature test, destruction,
read), verdict, test. Signal handlers are steps of their own, enabled at every
point. An edit may leave the signature as it was (same size, same second), or leave
a file that cannot be opened or not be read. A `continue` after EINTR evaluates
`e == ENOBUFS` with an `e` that need not have been assigned; the repository's build
(gcc -Os) goes on with the loop, and so does the model.

**Startup** is the way there: `main` after its options, `nfq_main`, `dvt_main` and
`win_main` up to their loops, as a list of steps in the order of each. Every step
may fail and then goes to the cleanup or exits. The state is the process (user,
capabilities, seccomp filter, integrity level, pid), what is open and the pid file.

**FrontEnds** is the whole program: Startup, then on Linux the loop of NfqMain, on
BSD `select` and `recvfrom`, on Windows `windivert_recv` with its polls, the loss
of the network and the second opening of the driver; then the cleanup. Signals come
at any time and kill the program before `catch_signals`.

**AutoHostlist** is the detector of every flow (retransmissions, RST and redirects,
UDP packet counts, the two maxseq limits), the pool of failure counters with its
purge once a second, the recheck of the lists and the append. A packet is one
step. The signature is abstracted to whether the one in memory is still the
file's. An exclude list may be unreadable while somebody rewrites it; an append and
the taking of the signature may fail.

**Filters** are the matches of a profile and of its instances: ports, ICMP types, IP
protocols, flow protocols, payloads, ranges of counters, hostlists with subdomain
and strict search, ipsets. **Config** is the option loop of `main`: an option is a
step. **IpCache** is the cache of hostnames and hop counts by address. **Desync**
composes them: options, then packets of a TCP flow with `dp_find`, the profile kept
in the entry, discovery of protocol and hostname, `dp_changed`, and `desync()` with
ranges, payloads, instance and flow cutoffs and the plan that Lua may cancel; DNS
answers, ICMP and other IP packets are around it. A ClientHello comes in two parts
here, the first is held and replayed.

**Dissect** takes packets apart for Lua and puts them together: IPv4 options, IPv6
extension headers, TCP options, lengths, next headers, checksums (as what they were
computed of), fragments. **IpFrag** is what Lua does with a table: edits, headers by
hand, `ipfrag2`; and what a receiver makes of the result. **Protocol** is the
markers of HTTP and TLS messages, `TLSMod` and `QUICDefragCrypto` on messages given
by the lengths of their parts; **Messages** are the messages. **LuaCalls** are
single calls of these functions. **Sums** are sums of lengths. The walks over headers,
extensions, labels and frames are recursive functions of the number of steps, so
that they can be reasoned about.

**Mdig** is the threads of `mdig` with their shared input, output and statistics;
the resolver is external and may ask to try again. **Ip2net** is the grouping of
addresses: `Try` is a prefix length tried for the first address, `PrintNet` the
printing of a subnet and the step to the next address. **Ipset** is the tree of prefixes of `nfqws2`, an insertion being several
steps. **Lists** is the pipeline of the three.

Operators whose comment begins with "mutant" are bugs that this code could have
had; no specification uses them. They are there to show that the properties can
fail: replacing the named definition by its mutant makes TLC report the property.

## 3. Runs

| run | bounds | properties |
|---|---|---|
| `reassembly` | `SeqMod` 16, streams of 7, buffers up to 4, segments up to 3, two versions; the stream wraps and does not | `TypeOK`, `NoOverrun`, `PrefixIsStream`, `SessionOnlyGrows` |
| `conntrack` | one TCP connection seen from both sides and a UDP tuple that is its own swap; time up to 4, timeouts 1 to 3 | `TypeOK`, `OneTrackPerConnection`, `PurgeIsComplete`, `LiveEntryIsKept` |
| `tcp_flow` | `SeqMod` 8; the client's stream wraps the sequence space, the server's passes half | `RetransmissionIsExact`, `RelativeToIsn` |
| `packet_play` | TCP or QUIC, a ClientHello of 3 units, parts of 1 and 2, 4 packets, windows smaller and larger than the message | `HeldImpliesSession`, `SessionIsWaiting`, `DataLeavesInOrder`, `EveryPacketOnce`, `ClientCanFinish`, `NoLuaDuringAssembly`, `ImplementsDelayLine` |
| `nfq_main` | 12 launches on three systems with different users, capabilities and options; a hostlist and an ipset, 2 packets, a queue of 1, 2 signals, 1 edit of each file | `HupIsHonoured`, `SignatureIsHonest`, `LuaIsSandboxed`, `StartsAsPromised`, `EveryPacketAnswered`, `QuitEnds` |
| `auto_hostlist` | 2 flows, a host and an excluded host, thresholds of 2, 3 seconds, one edit | `AddedOnRecentFailures`, `OneVerdictPerFlow`, `NoDuplicateLines`, `MemoryIsFile` |
| `desync` | 3 command lines with up to 24 options and 8 that are refused; 4 packets of the flow and one other, 2 seconds; packets with 9 chains of IPv6 headers and 5 sets of TCP options, hostnames of 4 shapes, all modifications of a ClientHello, up to 4 CRYPTO frames | `ConfigIsAsWritten`, `NothingMissed`, `ProfileIsCurrent`, `CacheIsFresh`, `RebuildIsExact`, `FragmentsReassemble`, `MarkersAreStable`, `ModKeepsHello`, `DefragIsExact` |
| `lists` | 2 threads, 5 inputs of up to 4 lines, 16 addresses | `MdigAccounts`, `ListIsMade`, `ListIsTight`, `IpsetIsExact` |

Four more runs show a disagreement between the code and its documentation
(section 5).

*Why the bounds are enough.* Every bound is larger than the case it has to reach:
streams wrap the small sequence space and pass half of it; a buffer of 4 with
segments of 3 has every overlap at either end; 4 packets are the parts of a
ClientHello, a retransmission or a control packet, and one after it; two signals
are a SIGHUP during the reload for another, or before SIGTERM; a queue of 1
overflows with the second packet; two flows fail and succeed in every order, and a
counter expires within 3 seconds; the launches have each system with and without
each privilege that a step asks for; the command lines have filters, ranges and
lists before and behind `--new`, `--skip`, `--template` and `--import`; an item of
the ip cache with a lifetime of 1 second expires in 2; one more CRYPTO frame than
ranges are remembered; a subnet of four with three of its addresses is at the
threshold. Larger values of `MaxPackets` and `MaxTime` were not finished.

*Deadlock.* `conntrack`, `packet_play`, `auto_hostlist` and `desync` stop at their
bounds on time and packets (`desync` also at a refused command line and after a
single call) and switch the deadlock check off; the others are checked for it.
`nfq_main` and `lists` have a stuttering step for a program that has ended.

*Fairness.* `nfq_main` assumes `WF(Program)`: the main thread, if it can take a
step, takes one. That is all the scheduler guarantees, and the program has no other
waiting points than `recv`, `select` and the polls of the Windows loop; a sleeping
`recv` leaves it disabled until a packet, an overrun or a signal comes. Packets,
signals, edits, networks and errors are never required to happen.
`EveryPacketAnswered`: a queued packet is answered, or the program has ended or lost
its network. `QuitEnds`: SIGTERM ends the program and releases what it holds; if it
comes between the test of `bQuit` and the sleep, only with the next packet (`raced`).
`lists` assumes that each thread of `mdig`, and then each program of the pipeline,
is scheduled; an answer of the resolver is part of a thread's step, which the
resolver's own timeout justifies. `ListIsMade`: the list comes out or fails.

*Qualifications stated in the properties.* `DataLeavesInOrder`,
`SessionIsWaiting` and `NoLuaDuringAssembly` hold until `rawpacket_queue` runs out
of memory; then the code lets packets pass by design. `NoDuplicateLines` holds
until a list cannot be read: `HostlistCheck` then answers "neither listed nor
excluded", and a host that is listed or excluded is appended. `MemoryIsFile` holds
until an append fails. `HupIsHonoured` excepts a SIGHUP that comes during a reload
(section 5). `NothingMissed` excepts packets that were held while a later one set
the cutoff. `ProfileIsCurrent` excepts an address that the ip cache has as a
hostname, as the entry does not keep that it is one. `RebuildIsExact` and
`FragmentsReassemble` except what the code does not keep: the number of an IPv6
protocol that is not dissected (unless asked for), TCP options behind the end of the
list, and packets that had a fragment header where `ipfrag2` would put its own.

## 4. Proofs

The proofs hold for every value of the constants under the named assumptions of the
modules, in particular for `SeqMod` = 2^32, and for every number of packets, flows,
threads, signals and edits. Every invariant below was first checked by TLC as an
invariant of a run.

* **Reassembly_proof**: `TypeOK`, `NoOverrun`, `PrefixIsStream`, `SessionOnlyGrows`.
  None but the first is inductive: the invariant adds to the type that `seq` is the
  sequence number of the stream position `start + present`, that this stays within
  the stream, and that `present <= size <= SzMax`. From it the difference of two
  sequence numbers equals the distance of the positions, because the stream is at
  most half of the sequence space (`ReassemblyAssumption`), and the copied range
  lies in the buffer. `ReasmInit`, accepted feed, refused feed and stop are one
  lemma each.
* **Conntrack_proof**: `TypeOK`, `OneTrackPerConnection`, `PurgeIsComplete`,
  `LiveEntryIsKept`, from `PoolInv`, the conjunction of the first three: a purge
  needs the type (time stamps are not in the future), and the purge before each feed
  needs the completeness of the last. `UpdateInv` is the common argument for feeding
  a known and a new connection: storing an entry whose swapped tuple is not in the
  pool keeps `PoolInv`.
* **TcpFlow_proof**: `RetransmissionIsExact` and `RelativeToIsn`. `FlowInv` relates
  what the entry stores, numbers of one turn of the sequence space, to stream
  positions, which never wrap: `uppos` is the number of the highest position seen.
  The lemmas on residues show that the sign of a wrapped difference is the sign of
  the real one when the positions are less than half a turn apart, which
  `TcpFlowAssumption` (a window and a segment fit into half a turn) gives.
* **PacketPlay_proof**: on both handlers (`PlaySpec`),
  `HeldImpliesSession`; the refinement `ImplementsDelayLine`; `DataLeavesInOrder`,
  `EveryPacketOnce`; `SessionIsWaiting`, `NoLuaDuringAssembly`; `ClientCanFinish`.
  There is an invariant for each group, on top of the one before. `HeldInv`: a
  session is a record of the header fields. `LineInv`: a packet that enters is new,
  what is held has a profile, a TCP session belongs to a TLS flow. `OrderInv`: what
  arrived is on the wire, held, taken by Lua or lost, each in one place, and the
  wire followed by the queue is in order. `WaitInv`: the two properties of the
  session themselves. `WindowInv`: the server's window is known while a session is
  open and lets the client send the rest. From `LineInv` on the client's stream
  begins with the ClientHello (`HelloStart = 0`); section 5 has the other case.
* **AutoHostlist_proof**: `OneVerdictPerFlow`, `NoDuplicateLines`, `MemoryIsFile`,
  `AddedOnRecentFailures`. `VerdictInv`: a flow with a verdict is finalized.
  `ListInv`: a list in memory that counts as fresh has every host of the file, and
  the file's unless an append failed. `FailInv`: a counter of n rests on the last n
  failures of the host, none older than the counter's own expiry, and after this
  second's purge no counter is out of date.
* **FrontEnds_proof**: on all three systems (`ProgSpec`), `SignatureIsHonest`,
  `HupIsHonoured`, `LuaIsSandboxed`, `StartsAsPromised`. `SigInv`: signatures grow,
  and one that is the file's was taken with what is in memory or before it.
  `HupInv`: during a reload every list is new enough already, is being read, or
  will be read whatever its signature. `StartInv` speaks of what is still to do on
  the list of steps: what a later step relies on (privileges dropped before the
  init scripts run, sockets, signals, the pid file before the loop) has happened or
  comes first (`Until`), and no step that needs a privilege follows its loss.
* **Desync_proof**: `CacheIsFresh`, `ProfileIsCurrent`, `NothingMissed`, for every
  command line, whatever Lua does. `CfgInv` carries through all options that every
  instance has ranges and that the list of profiles ends with the default one, so
  that a search always finds a profile. `CacheInv`: an item of the cache has the
  name that was put last, and was put within its lifetime if the cache was purged in
  this second. `ProfileInv`: the profile is the one a search finds for what the
  entry knows (`Settled`), or a protocol was detected that waits for the replay to
  be searched for. `CutInv`: a flag that Lua did not ask for stands for instances
  that are all cut off at the flow's position; positions only grow, a range that
  was left stays left (`CutoffGrows`), `dp_changed` clears flags with their
  profile; packets that are held are covered too, or know that a later packet set
  the flag.
  For the command line itself, `ConfigIsAsWritten`. `TextInv` says after k options what
  the text says at k: whether the section is skipped or a template, its name (the last
  one given), its instances with the filters in force, which sections have become
  profiles and which templates. The instances of a section are a recursive function of
  the position, of which an option takes one step.
  On single calls of Lua's functions, `MarkersAreStable`, `DefragIsExact` and
  `ModKeepsHello`. A marker is found in a part where the part decides its place, case by
  case for each layout; host markers follow from the labels of the name, none of which
  is empty. `PutInv` says after every frame which bytes are data, zero or what was
  there before; `JoinInv` says after every range, in any order that `qsort` may give,
  what the ranges joined so far cover. `Good` is a ClientHello whose lengths agree; each
  of `SetSni`, `RndSni`, `AddPadding` and `Encap` keeps it, as no length field wraps and
  the padding that is found at the end is the last extension.
* **Lists_proof**: `ListIsTight`, `IpsetIsExact` (a tree filled at random and the tree
  the pipeline fills), the lookup (`LookupIsExact`) and `MdigAccounts`. For the list,
  every address that is left is either in a subnet printed or still in the set; the
  best prefix length so far is the widest that the threshold allows. `TreeInv` adds what
  holds in the middle of an insertion: the tree and the prefix being inserted together have the addresses of all that was added. `MdigInv` says
  that a line read is with one thread or in one log, that the counters lack exactly
  what threads have yet to count, that a line is printed before it is logged as
  resolved, and that a thread ends only when the input has.

Assumptions on constants say what the code guarantees: options have parsed
(`ConfigAssumption`: ranges in packet counters, a lifetime in `Nat`, a flag, the name
an import needs), an incoming packet has the name of an interface (`DesyncAssumption`), the lists are
disjoint (`NfqMainAssumption`), a launch is on one of three systems
(`LaunchAssumption`), prefixes contain each other or are disjoint
(`NetsAssumption`), there are finitely many threads (`MdigAssumption`), options of
`ip2net` have parsed (`Ip2netAssumption`, `ListsAssumption`), a hostname has labels,
none of them empty, and is no longer than DNS allows, a session id's length is a byte
(`ProtocolAssumption`).

Loops over data are proved about with the least counterexample: a statement about
all steps of a recursive function holds if there is no first step where it fails
(`LeastNat`, `UpTo`, from the library's theorem that `<` on `Nat` is well founded).

The proofs corrected the models in four places. The history in `Overtaken` did not
mark a held packet when a later one changed the profile and then set the flag of the
new one. `Feed` was a CASE with overlapping guards. `ListIsTight` was true for
thresholds that divide subnets evenly, as the default 3/4 does; `ip2net` rounds the
share down. `ConfigIsAsWritten` let a template be called by any name its section had ever
been given, while `dp->name` is the last one.

Only model-checked:

* `EveryPacketAnswered`, `QuitEnds`, `ListIsMade`: liveness; the prover does not
  treat fairness.
* `RebuildIsExact`, `FragmentsReassemble`: the walks could be reasoned about, but not
  every case of header chains and edits has been.

## 5. Findings

* `tcp_flow_2g`: a SYN repeated after the SYN/ACK, whose acknowledgement number is
  0, may set `rseq_over_2G` of the server for the rest of the connection. The manual says the
  counters it switches off work "within a 2 GB range".
* `packet_play_xmpp`: on a flow first detected as XMPP, the parts of a ClientHello
  after the first go to Lua while the session is open, ahead of the first part.
* `nfq_main_hup`: a SIGHUP during the reload for another one is forgotten, because
  `bReload` is cleared at the end of `ReloadCheck`.
* `auto_hostlist_failtime`: the failure time runs from the first failure, not from
  the previous one, as the manual says.

Seen while modelling, without a run of their own, as no line of the documentation
speaks of them or they lie outside the bounds of a model:

* `rawsend_dissect_ipfrag` (`zapret-lib.lua:1140`) tests `dis.frag`; no dissection
  sets that field, so fragments are fragmented again.
* `ip2net` computes `subnet_ct*pctmult` in an unsigned int (`ip2net.c:480`, `485`); a
  large subnet with a large multiplier overflows.
* `windivert_recv_filter` returns while a read is pending (`darkmagic.c:1653`), and
  `win_main` frees its buffer before the handle is closed.
* a signal between `lua_close` and `params.L=NULL` (`lua.c:3806`) reaches a freed state.
* the bounding set is cleared only with CAP_SETPCAP (`sec.c:216`).

## 6. Not modelled

* Byte formats beyond the lengths and offsets above: the sums of checksums, crypto,
  gzip, the recognition of protocols other than HTTP and TLS, conversions of strings
  and big numbers for Lua.
* The strategies of the Lua library and the automatic selection of
  `zapret-auto.lua`; a Lua call is one of the things it may do to the program.
* Options that only set a number or print, filters by wifi network, the fuzzing mode.
* OpenBSD's second divert socket, batches of WinDivert, the service control manager
  (`win.c`), the BPF program of seccomp (a flag), the bounding set of capabilities.
* In `Conntrack`, `ConntrackPoolDrop` (no caller) and the printing of the pool; in the
  positions, flow label and MSS.
* In `PacketPlay`, the payloads of the server and messages other than a ClientHello;
  in `AutoHostlist`, the RST sent to a retransmitter, and append and signature as
  separate steps.
* In `Mdig`, the modes that make and parse single DNS queries; in `Ip2net`, ranges in
  the input. Failed allocations are modelled where the code goes on after them
  (`Conntrack`, `PacketPlay`), not where it gives up.
* Vendored code (uthash, kavl's balancing) and the shell scripts.

## 7. Plan

1. **Orchestrator**: `zapret-auto.lua`, the per host strategy selection with its
   failure counters.
2. Append and signature of the auto hostlist as two steps, with edits between them.
3. Proofs: `RebuildIsExact`, `FragmentsReassemble`; ranges in sequence
   numbers in `Desync`, where `rseq_over_2G` ends them.
