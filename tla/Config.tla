------------------------------- MODULE Config -------------------------------
(***************************************************************************)
(* The command line of nfqws2 (main): options are taken one after another, *)
(* most of them change the profile that is being written; --new starts the *)
(* next one, --skip drops the one at hand, --template puts it aside and    *)
(* --import copies a template into the profile at hand.  At the end the    *)
(* default profile is added, the filters get their defaults and the        *)
(* program runs.                                                           *)
(*                                                                         *)
(* An option is [o |-> its name, v |-> its value, parsed].  A value that   *)
(* does not parse is Bad and ends the program.  Templates, profiles and  *)
(* lists are kept as in struct params_s; a list file is <<name, 0>>, a list *)
(* written on the command line <<"", number>>.                             *)
(***************************************************************************)
EXTENDS Filters, SequencesExt

CONSTANTS
    CommandLines,       \* set of sequences of options
    Bad,                \* a value that does not parse
    NoName,             \* no name was given, a null pointer
    IPCACHE_LIFETIME,   \* the default of --ipcache-lifetime, in seconds
    FileContents        \* what the list files hold, by name

\* the counters of packets and of packets with data are followed here
RangeBounds == [mode : {"x", "a", "n", "d"}, pos : Nat]
PacketRanges == [from : RangeBounds, to : RangeBounds, upper_cutoff : BOOLEAN]

\* what the parsers of the options leave
ASSUME ConfigAssumption ==
    /\ IPCACHE_LIFETIME \in Nat
    /\ \A c \in CommandLines :
         /\ c \in Seq({c[i] : i \in DOMAIN c})
         /\ \A i \in DOMAIN c : c[i].v # Bad =>
              /\ c[i].o = "ipcache_lifetime" => c[i].v \in Nat
              /\ c[i].o = "server" => c[i].v \in BOOLEAN
              /\ c[i].o \in {"in_range", "out_range"} => c[i].v \in PacketRanges
              /\ c[i].o = "import" => c[i].v # NoName

VARIABLES
    cmdline,            \* the command line
    argv,               \* what is left of it
    profiles,           \* params.desync_profiles; the last one is being written
    templates,          \* params.desync_templates
    lists,              \* params.hostlists and params.ipsets
    loc,                \* bSkip, bTemplate, anon_*, payload_type, range_*, counts
    glob,               \* the options that are no part of a profile
    phase               \* "options", "run" or "exit"

cfgVars == <<cmdline, argv, profiles, templates, lists, loc, glob, phase>>

\* dp_init: values that were not given are told from given ones (b_ flags)
dp_init ==
    [n |-> 0, name |-> NoName, l3 |-> {}, b_filter_l3 |-> FALSE,
     pf_tcp |-> {}, pf_udp |-> {}, icf |-> {}, ipf |-> {},
     filter_l7 |-> {}, b_filter_l7 |-> FALSE,
     hl |-> {}, hl_exclude |-> {}, ips |-> {}, ips_exclude |-> {},
     hostlist_auto |-> NoList, fail |-> {}, lua |-> <<>>]

\* the state of the options within a profile, reset by --new
InProfile == [payload |-> {}, in_range |-> PACKET_RANGE_NEVER, out_range |-> PACKET_RANGE_ALWAYS]
NoAnon == [hl |-> NoList, hl_exclude |-> NoList, ips |-> NoList, ips_exclude |-> NoList]

\* init_params; the defaults of the options that matter here
GlobDefault == [server |-> FALSE, ctrack_disable |-> FALSE, ipcache_lifetime |-> IPCACHE_LIFETIME,
                ipcache_hostname |-> FALSE, qnum |-> 0, intercept |-> TRUE, dry_run |-> FALSE]

CfgInit ==
    /\ cmdline \in CommandLines /\ argv = cmdline
    /\ profiles = <<[dp_init EXCEPT !.n = 1]>>
    /\ templates = <<>>
    /\ lists = <<>>
    /\ loc = [skip |-> FALSE, template |-> FALSE, anon |-> NoAnon, in |-> InProfile,
              count |-> 1, tcount |-> 0, anons |-> 0]
    /\ glob = GlobDefault
    /\ phase = "options"

dp == profiles[Len(profiles)]
SetDp(d) == profiles' = [profiles EXCEPT ![Len(profiles)] = d]

opt == Head(argv)
Option(names) == phase = "options" /\ argv # <<>> /\ opt.o \in names /\ opt.v # Bad
Done == argv' = Tail(argv) /\ UNCHANGED <<cmdline, phase>>
exit_clean ==
    /\ phase' = "exit"
    /\ UNCHANGED <<cmdline, argv, profiles, templates, lists, loc, glob>>

-----------------------------------------------------------------------------
\* a value that does not parse, a file that cannot be opened
BadOption == phase = "options" /\ argv # <<>> /\ opt.v = Bad /\ exit_clean

GlobalOption ==
    /\ Option(DOMAIN GlobDefault)
    /\ glob' = [glob EXCEPT ![opt.o] = opt.v]
    /\ Done /\ UNCHANGED <<profiles, templates, lists, loc>>

\* --hostlist, --hostlist-exclude, --ipset, --ipset-exclude: RegisterHostlist_,
\* RegisterIpset_; a file is registered once.  Loading comes at the end.
ListKinds == {"hl", "hl_exclude", "ips", "ips_exclude"}
Registered(id) == IF id \in DOMAIN lists THEN lists ELSE lists @@ (id :> {})
ListOption ==
    /\ Option(ListKinds)
    /\ IF loc.skip THEN UNCHANGED <<profiles, lists>>
       ELSE /\ SetDp([dp EXCEPT ![opt.o] = @ \cup {opt.v}])
            /\ lists' = Registered(opt.v)
    /\ Done /\ UNCHANGED <<templates, loc, glob>>

\* --hostlist-domains and the like: one list without a name per profile and kind
ItemKinds == [hl_domains |-> "hl", hl_exclude_domains |-> "hl_exclude",
              ips_ip |-> "ips", ips_exclude_ip |-> "ips_exclude"]
Added(l, kind, items) ==
    IF kind \in {"hl", "hl_exclude"} THEN FoldLeft(AddHost, l, items) ELSE l \cup ToSet(items)
ItemsOption ==
    /\ Option(DOMAIN ItemKinds)
    /\ LET kind == ItemKinds[opt.o]
           new == loc.anon[kind] = NoList
           id == IF new THEN <<"", loc.anons + 1>> ELSE loc.anon[kind]
       IN  IF loc.skip THEN UNCHANGED <<profiles, lists, loc>>
           ELSE /\ SetDp([dp EXCEPT ![kind] = @ \cup {id}])
                /\ lists' = [Registered(id) EXCEPT ![id] = Added(@, kind, opt.v)]
                /\ loc' = [loc EXCEPT !.anon[kind] = id, !.anons = IF new THEN @ + 1 ELSE @]
    /\ Done /\ UNCHANGED <<templates, glob>>

\* --hostlist-auto: one per profile, an include list that is kept non-empty
AutoOption ==
    /\ Option({"hostlist_auto"})
    /\ IF loc.skip THEN Done /\ UNCHANGED <<profiles, templates, lists, loc, glob>>
       ELSE IF dp.hostlist_auto # NoList THEN exit_clean
       ELSE /\ SetDp([dp EXCEPT !.hostlist_auto = opt.v, !.hl = @ \cup {opt.v}])
            /\ lists' = Registered(opt.v)
            /\ Done /\ UNCHANGED <<templates, loc, glob>>

\* --hostlist-auto-*: simple values, the last one given counts
FailValueOption ==
    /\ Option({"fail"})
    /\ SetDp([dp EXCEPT !.fail = {f \in @ : f.k # opt.v.k} \cup {opt.v}])
    /\ Done /\ UNCHANGED <<templates, lists, loc, glob>>

\* --filter-*: lists grow, --filter-l7 is replaced
FilterOption ==
    /\ Option({"pf_tcp", "pf_udp", "icf", "ipf", "l3", "filter_l7"})
    /\ SetDp(CASE opt.o = "l3" -> [dp EXCEPT !.l3 = @ \cup opt.v, !.b_filter_l3 = TRUE]
               [] opt.o = "filter_l7" -> [dp EXCEPT !.filter_l7 = opt.v, !.b_filter_l7 = TRUE]
               [] OTHER -> [dp EXCEPT ![opt.o] = @ \cup opt.v])
    /\ Done /\ UNCHANGED <<templates, lists, loc, glob>>

\* --payload, --in-range, --out-range
InProfileOption ==
    /\ Option(DOMAIN InProfile)
    /\ loc' = [loc EXCEPT !.in[opt.o] = opt.v]
    /\ Done /\ UNCHANGED <<profiles, templates, lists, glob>>

\* a Lua function with the in-profile filters
Instance(func, in) ==
    [func |-> func, payload |-> in.payload, in_range |-> in.in_range, out_range |-> in.out_range]

\* --lua-desync: the instance gets the in-profile filters as they are now
LuaDesyncOption ==
    /\ Option({"lua_desync"})
    /\ SetDp([dp EXCEPT !.lua = Append(@, Instance(opt.v, loc.in))])
    /\ Done /\ UNCHANGED <<templates, lists, loc, glob>>

-----------------------------------------------------------------------------
\* the template at hand has the name of another one
TemplateClash == dp.name # NoName /\ \E t \in ToSet(templates) : t.name = dp.name

\* mutant: --new keeps the in-profile filters
KeepFilters(l) == [l EXCEPT !.skip = FALSE, !.template = FALSE, !.anon = NoAnon]

\* what --new resets besides the profile
ResetAtNew(l) == [l EXCEPT !.skip = FALSE, !.template = FALSE, !.anon = NoAnon, !.in = InProfile]

\* --new, and the same at the end of the command line.  A profile that is skipped
\* is written anew, a template moves to the templates; only a profile that stays
\* takes a number.
NewOption ==
    /\ Option({"new"})
    /\ IF ~loc.skip /\ loc.template /\ TemplateClash THEN exit_clean
       ELSE LET fresh == [dp_init EXCEPT !.name = opt.v]
                count == IF loc.skip \/ loc.template THEN loc.count ELSE loc.count + 1
                kept == IF loc.skip \/ loc.template THEN Front(profiles) ELSE profiles
            IN  /\ profiles' = Append(kept, [fresh EXCEPT !.n = count])
                /\ templates' = IF loc.template /\ ~loc.skip
                                THEN Append(templates, [dp EXCEPT !.n = loc.tcount + 1])
                                ELSE templates
                /\ loc' = [ResetAtNew(loc) EXCEPT !.count = count,
                             !.tcount = IF loc.template /\ ~loc.skip THEN @ + 1 ELSE @]
                /\ Done /\ UNCHANGED <<lists, glob>>

SkipOption ==
    /\ Option({"skip"})
    /\ loc' = [loc EXCEPT !.skip = TRUE]
    /\ Done /\ UNCHANGED <<profiles, templates, lists, glob>>

\* --template[=name], --name
NameOption ==
    /\ Option({"template", "name"})
    /\ loc' = [loc EXCEPT !.template = @ \/ opt.o = "template"]
    /\ SetDp([dp EXCEPT !.name = IF opt.v = NoName THEN @ ELSE opt.v])
    /\ Done /\ UNCHANGED <<templates, lists, glob>>

\* dp_copy: simple values if the template has them, lists are joined, instances
\* appended
dp_copy(to, from) ==
    [to EXCEPT
       !.fail = {f \in @ : \A g \in from.fail : g.k # f.k} \cup from.fail,
       !.filter_l7 = IF from.b_filter_l7 THEN from.filter_l7 ELSE @,
       !.b_filter_l7 = @ \/ from.b_filter_l7,
       !.l3 = @ \cup from.l3, !.b_filter_l3 = @ \/ from.b_filter_l3,
       !.hostlist_auto = IF from.hostlist_auto # NoList THEN from.hostlist_auto ELSE @,
       !.lua = @ \o from.lua,
       !.hl = @ \cup from.hl, !.hl_exclude = @ \cup from.hl_exclude,
       !.ips = @ \cup from.ips, !.ips_exclude = @ \cup from.ips_exclude,
       !.pf_tcp = @ \cup from.pf_tcp, !.pf_udp = @ \cup from.pf_udp,
       !.icf = @ \cup from.icf, !.ipf = @ \cup from.ipf]

\* --import=name; an auto hostlist cannot be replaced
ImportOption ==
    /\ Option({"import"})
    /\ IF \A t \in ToSet(templates) : t.name # opt.v THEN exit_clean
       ELSE LET from == CHOOSE t \in ToSet(templates) : t.name = opt.v
            IN  IF NoList \notin {dp.hostlist_auto, from.hostlist_auto}
                   /\ dp.hostlist_auto # from.hostlist_auto
                THEN exit_clean
                ELSE /\ SetDp([dp_copy(dp, from) EXCEPT !.n = loc.count])
                     /\ Done /\ UNCHANGED <<templates, lists, loc, glob>>

-----------------------------------------------------------------------------
\* filter_defaults: if any of the four filters is set the others deny
filter_defaults(d) ==
    LET any == d.pf_tcp \cup d.pf_udp \cup d.icf \cup d.ipf # {}
        Deny(fs, f) == IF any /\ fs = {} THEN {f} ELSE fs
    IN  [d EXCEPT !.l3 = IF d.b_filter_l3 THEN @ ELSE {"ip4", "ip6"},
                  !.pf_tcp = Deny(@, DenyPort), !.pf_udp = Deny(@, DenyPort),
                  !.icf = Deny(@, DenyIcmp), !.ipf = Deny(@, DenyIpp)]

\* LoadAllHostLists, LoadAllIpsets and MakeAutolistsNonEmpty
Loaded(dps) ==
    [i \in DOMAIN lists |->
       LET l == IF i \in DOMAIN FileContents THEN FileContents[i] ELSE lists[i]
       IN  IF l = {} /\ \E d \in ToSet(dps) : d.hostlist_auto = i
           THEN {[name |-> <<"@&()">>, strict |-> FALSE]} ELSE l]

\* the end of the command line: the last profile may be skipped or a template,
\* the default profile comes last, --dry-run ends the program
EndOfOptions ==
    /\ phase = "options" /\ argv = <<>>
    /\ LET gone == loc.skip \/ loc.template
           user == IF gone THEN Front(profiles) ELSE profiles
           all == Append(user, [dp_init EXCEPT !.name = "no_action"])
       IN  IF \/ ~loc.skip /\ loc.template /\ TemplateClash
              \/ glob.intercept /\ glob.qnum = 0
              \/ glob.server /\ \E d \in ToSet(all) : d.hostlist_auto # NoList
              \/ glob.dry_run
           THEN exit_clean
           ELSE /\ profiles' = [i \in 1 .. Len(all) |-> filter_defaults(all[i])]
                /\ lists' = Loaded(all)
                /\ templates' = <<>>        \* dp_list_destroy
                /\ phase' = "run"
                /\ UNCHANGED <<cmdline, argv, loc, glob>>

CfgNext ==
    \/ BadOption \/ GlobalOption \/ ListOption \/ ItemsOption \/ AutoOption
    \/ FailValueOption \/ FilterOption \/ InProfileOption \/ LuaDesyncOption
    \/ NewOption \/ SkipOption \/ NameOption \/ ImportOption \/ EndOfOptions

-----------------------------------------------------------------------------
(* What a command line c means, read off its text: --new cuts it into      *)
(* sections, which go here by their last positions.                        *)

Positions(c) == 0 .. Len(c)
IsEnd(c, p) == p = Len(c) \/ c[p + 1].o = "new"

\* where options called one of names stand in the section of p, up to p
Places(c, names, p) ==
    {i \in 1 .. p : c[i].o \in names /\ \A j \in i + 1 .. p : c[j].o # "new"}

\* the value at the last of the positions ps
LastValue(c, ps, default) ==
    IF ps = {} THEN default ELSE c[CHOOSE i \in ps : \A j \in ps : j <= i].v

\* the name that holds at p, and the value of an in-profile filter there
NameAt(c, p) ==
    LastValue(c, {i \in Places(c, {"new", "template", "name"}, p) : c[i].v # NoName}, NoName)
InForce(c, f, p) == LastValue(c, Places(c, {f}, p), InProfile[f])

IsSkipped(c, p) == Places(c, {"skip"}, p) # {}
IsTemplate(c, p) == Places(c, {"template"}, p) # {}

\* the sections before p that are templates, those that are called name, and those
\* that are profiles
TemplateEnds(c, p) == {e \in 0 .. p - 1 : IsEnd(c, e) /\ IsTemplate(c, e) /\ ~IsSkipped(c, e)}
TemplatesCalled(c, name, p) == {e \in TemplateEnds(c, p) : NameAt(c, e) = name}
ProfileEnds(c, p) == {e \in 0 .. p - 1 : IsEnd(c, e) /\ ~IsTemplate(c, e) /\ ~IsSkipped(c, e)}
Number(c, e) == 1 + Cardinality(ProfileEnds(c, e))

\* the instances of a section up to p, those of an imported template in its place
Instances(c) ==
    LET lua[p \in Positions(c)] ==
          IF p = 0 \/ c[p].o = "new" THEN <<>>
          ELSE CASE c[p].o = "lua_desync" ->
                      Append(lua[p - 1],
                             Instance(c[p].v, [f \in DOMAIN InProfile |-> InForce(c, f, p)]))
                 [] c[p].o = "import" /\ TemplatesCalled(c, c[p].v, p) # {} ->
                      lua[p - 1] \o lua[CHOOSE e \in TemplatesCalled(c, c[p].v, p) : TRUE]
                 [] OTHER -> lua[p - 1]
    IN  lua

\* profiles 1, 2 .. are the sections of c that count, the last one is the default
AsWritten(c, ps) ==
    /\ Len(ps) = Number(c, Len(c) + 1)
    /\ \A e \in ProfileEnds(c, Len(c) + 1) :
         ps[Number(c, e)].n = Number(c, e) /\ ps[Number(c, e)].lua = Instances(c)[e]
    /\ Last(ps).n = 0 /\ Last(ps).lua = <<>>

\* The profiles the program begins to run with are the sections of the command
\* line that are neither skipped nor templates, in order, numbered from 1 without
\* gaps and followed by the default profile 0, and each has the instances of its
\* section with the filters that were in force where they stand: nothing of a
\* section that was skipped or of an earlier profile is left in a later one.
ConfigIsAsWritten ==
    [][phase' = "run" /\ phase # "run" => AsWritten(cmdline', profiles')]_cfgVars
=============================================================================
